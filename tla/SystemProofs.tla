---------------------------- MODULE SystemProofs ----------------------------
(***************************************************************************)
(* Theorems about System, for every set of runs, names, files and faults.  *)
(***************************************************************************)
EXTENDS System, SequenceTheorems, TLAPS

-----------------------------------------------------------------------------
(* Messages *)

LEMMA ResponseType ==
    ASSUME NEW code \in ResponseCode, NEW id \in Procs \cup {Nil},
           NEW rsa \in Procs \cup {Nil}, NEW key \in Procs \cup {Nil, ShortKey},
           NEW size \in {0, CipherSize}, NEW content \in Paths \cup {Nil, Garbled},
           code = RegistrationSuccess => id \in Procs
    PROVE  response(code, id, rsa, key, size, content) \in Response
<1>1. expectedPayloadSize(code) \in Nat
  BY DEF ResponseCode, expectedPayloadSize, RegistrationSuccess,
         RegistrationFailed, AesKeyReceived, FileReceivedWithCrc,
         MessageConfirmed, ReconnectApproved, ReconnectRejected, GeneralError,
         UUID_SIZE, AES_KEY_PAYLOAD_SIZE, CRC_PAYLOAD_EXPECTED_SIZE,
         ENCRYPTED_AES_KEY_SIZE, FILE_NAME_FIELD_SIZE
<1> QED  BY <1>1 DEF response, Response

LEMMA ResponseCodes ==
    /\ \A code \in RegistrationFailed..GeneralError :
          code \in ResponseCode /\ code # RegistrationSuccess
    /\ {AesKeyReceived, FileReceivedWithCrc, MessageConfirmed, ReconnectApproved,
        ReconnectRejected, RegistrationFailed, GeneralError}
          \subseteq RegistrationFailed..GeneralError
    /\ RegistrationSuccess \in ResponseCode
    /\ UnknownCode \notin ResponseCode
BY DEF ResponseCode, RegistrationSuccess, RegistrationFailed, AesKeyReceived,
       FileReceivedWithCrc, MessageConfirmed, ReconnectApproved,
       ReconnectRejected, GeneralError, UnknownCode

\* Every response of the server, and of a faulty one, is a response.
LEMMA ReplyTypes ==
    /\ \A code \in ResponseCode, id \in Procs : Reply(code, id) \in Response
    /\ \A code \in ResponseCode \ {RegistrationSuccess}, id \in Procs \cup {Nil} :
          Reply(code, id) \in Response
    /\ \A code \in {AesKeyReceived, ReconnectApproved}, id \in Procs \cup {Nil},
          rsa \in Procs \cup {Nil}, key \in Procs \cup {Nil, ShortKey} :
          AesReply(code, id, rsa, key) \in Response
    /\ \A id \in Procs \cup {Nil}, size \in {0, CipherSize},
          content \in Paths \cup {Nil, Garbled} :
          CrcReply(id, size, content) \in Response
BY ResponseCodes, ResponseType DEF Reply, AesReply, CrcReply

LEMMA AnyResponseType == AnyResponse \subseteq Response
<1>1. ASSUME NEW code \in ResponseCode, NEW id \in Procs
      PROVE  [Reply(code, id) EXCEPT !.payloadSize = @ + 1] \in Response
  BY ReplyTypes DEF Response
<1>2. [Reply(GeneralError, Nil) EXCEPT !.code = UnknownCode] \in Response
  <2>1. Reply(GeneralError, Nil) \in Response  BY ResponseCodes, ReplyTypes
  <2> QED  BY <2>1, ResponseCodes DEF Response
<1>3. {RegistrationSuccess} \subseteq ResponseCode  BY ResponseCodes
<1> QED  BY <1>1, <1>2, <1>3, ReplyTypes DEF AnyResponse

LEMMA RequestTypes ==
    ASSUME NEW id \in Procs, NEW name \in Names
    PROVE  /\ buildRegistration(name) \in Request
           /\ \A pub \in Procs : buildPublicKeyExchange(id, name, pub) \in Request
           /\ buildReconnect(id, name) \in Request
<1> USE DEF Request, RequestCode, Registration, SendPublicKey, Reconnect,
            SendFile, CrcValid, CrcInvalidRetry, CrcInvalidAbort
<1> QED  BY DEF buildRegistration, buildPublicKeyExchange, buildReconnect,
                clientRequest

LEMMA FileRequestTypes ==
    ASSUME NEW id \in Procs \cup {Nil}, NEW path \in Paths
    PROVE  /\ \A key \in Procs : buildSendFile(id, path, key) \in Request
           /\ \A code \in {CrcValid, CrcInvalidRetry, CrcInvalidAbort} :
                 buildCrcStatus(id, code, path) \in Request
<1> USE DEF Request, RequestCode, Registration, SendPublicKey, Reconnect,
            SendFile, CrcValid, CrcInvalidRetry, CrcInvalidAbort
<1>1. FileName[path] \in FileNames  BY NamesAssumption DEF NamesAssumption
<1> QED  BY <1>1 DEF buildSendFile, buildCrcStatus, fileRequest
-----------------------------------------------------------------------------
(* Building blocks of the client *)

TypeInv == TypeOK /\ ControlOK

LEMMA DisconnectType ==
    ASSUME NetTypeOK, NEW p \in Procs, disconnect(p)
    PROVE  NetTypeOK'
<1>1. <<>> \in Seq(Response)  OBVIOUS
<1> QED  BY <1>1 DEF NetTypeOK, disconnect

LEMMA SendType ==
    ASSUME NetTypeOK, NEW p \in Procs, NEW request \in Request, NEW next,
           NEW unread \in Seq(Response), Send(p, request, next, unread)
    PROVE  /\ NetTypeOK'
           /\ pc' = [pc EXCEPT ![p] = next] \/ pc' = [pc EXCEPT ![p] = "failed"]
           /\ UNCHANGED <<hit, diskVars>>
<1>1. CASE Goto(p, next) /\ send(p, request)
           /\ inbound' = [inbound EXCEPT ![p] = unread] /\ UNCHANGED socket
  <2>1. Append(outbound[p], request) \in Seq(Request)  BY DEF NetTypeOK
  <2>2. NetTypeOK'  BY <1>1, <2>1 DEF NetTypeOK, send
  <2> QED  BY <1>1, <2>2 DEF Goto, Send, NoFault
<1>2. CASE sendFails(p) /\ Exit(p, "failed")
  BY <1>2, DisconnectType DEF Exit, Goto, Send, NoFault
<1> QED  BY <1>1, <1>2 DEF Send

LEMMA ReceivedType ==
    ASSUME NetTypeOK, NEW p \in Procs, responseArrived(p)
    PROVE  nextResponse(p) \in Response /\ Tail(inbound[p]) \in Seq(Response)
BY HeadTailProperties DEF NetTypeOK, responseArrived, nextResponse

LEMMA ReceiveType ==
    ASSUME NetTypeOK, NEW p \in Procs, NEW point, NEW code, NEW next,
           Receive(p, point, code, next)
    PROVE  /\ NetTypeOK' /\ nextResponse(p) \in Response
           /\ pc[p] = point
           /\ pc' = [pc EXCEPT ![p] = next]
           /\ UNCHANGED <<hit, diskVars>>
BY ReceivedType DEF Receive, Received, receive, At, Goto, NoFault, NetTypeOK

Points == {"idle"} \cup Running \cup Terminated

\* A step of run p that only moves it, and the way it may touch the rest.
LEMMA MoveType ==
    ASSUME TypeInv, NEW p \in Procs, NEW point \in Points,
           pc' = [pc EXCEPT ![p] = point], inHand(p, point),
           hit' \in SUBSET Procs, UNCHANGED <<authVars, jobVars, serverVars>>,
           NetTypeOK', DiskTypeOK'
    PROVE  TypeInv'
<1>1. ServerTypeOK'
  BY DEF TypeInv, TypeOK, ServerTypeOK, serverVars
<1>2. ClientTypeOK'
  BY DEF TypeInv, TypeOK, ClientTypeOK, Points, authVars, jobVars
<1>3. ASSUME NEW q \in Procs  PROVE inHand(q, pc[q])'
  <2>1. pc'[q] = IF q = p THEN point ELSE pc[q]
    BY DEF TypeInv, TypeOK, ClientTypeOK
  <2>2. inHand(q, pc'[q])  BY <2>1 DEF TypeInv, ControlOK
  <2> QED  BY <2>2 DEF inHand, authVars, jobVars
<1> QED  BY <1>1, <1>2, <1>3 DEF TypeInv, TypeOK, ControlOK

\* Points at which a run needs no more than its name.
Plain == Running \ (Saving \cup {"nextFile"} \cup Transferring)

LEMMA PointFacts ==
    /\ Plain \subseteq Points /\ Plain \subseteq Running /\ Saving \subseteq Points /\ Saving \subseteq Running
    /\ Transferring \subseteq Points /\ Transferring \subseteq Running
    /\ "nextFile" \in Points /\ "nextFile" \in Running
    /\ Terminated \subseteq Points /\ Terminated \cap Running = {}
    /\ Waiting \subseteq Running
    /\ {"connect", "authenticate", "tryReconnect", "loadClientInfo",
        "removeMeInfo", "removePrivKey", "register", "authenticated",
        "awaitReconnect", "awaitRegistration", "awaitAesKey"} \subseteq Plain
BY DEF Points, Plain, Running, Working, Waiting, acceptedCodes, Saving,
       Transferring, Terminated

\* A running run that moves to a plain point, or ends.
LEMMA PlainMoveType ==
    ASSUME TypeInv, NEW p \in Procs, NEW point \in Plain \cup Terminated,
           pc[p] \in Running, pc' = [pc EXCEPT ![p] = point],
           hit' \in SUBSET Procs, UNCHANGED <<authVars, jobVars, serverVars>>,
           NetTypeOK', DiskTypeOK'
    PROVE  TypeInv'
<1>1. clientName[p] \in Names  BY DEF TypeInv, ControlOK, inHand
<1>2. inHand(p, point)
  BY <1>1, PointFacts DEF inHand, Plain, Terminated, Saving, Transferring
<1>3. point \in Points  BY PointFacts
<1> QED  BY <1>2, <1>3, MoveType

\* Any step of run p alone.
LEMMA StepType ==
    ASSUME TypeInv, NEW p \in Procs, ClientTypeOK', NetTypeOK', DiskTypeOK',
           UNCHANGED serverVars, inHand(p, pc[p])',
           \A q \in Procs \ {p} :
               /\ pc'[q] = pc[q] /\ clientName'[q] = clientName[q]
               /\ clientId'[q] = clientId[q] /\ privateKey'[q] = privateKey[q]
               /\ aesKey'[q] = aesKey[q] /\ files'[q] = files[q]
               /\ fileIndex'[q] = fileIndex[q]
    PROVE  TypeInv'
<1>1. ServerTypeOK'  BY DEF TypeInv, TypeOK, ServerTypeOK, serverVars
<1>2. ASSUME NEW q \in Procs \ {p}  PROVE inHand(q, pc[q])'
  BY DEF TypeInv, ControlOK, inHand
<1> QED  BY <1>1, <1>2 DEF TypeInv, TypeOK, ControlOK

LEMMA HitType ==
    ASSUME TypeInv, NEW p \in Procs, NEW kind, Fault(kind, p) \/ NoFault
    PROVE  hit' \in SUBSET Procs
BY DEF TypeInv, TypeOK, ClientTypeOK, Fault, NoFault

LEMMA Parts ==
    ASSUME TypeInv, NEW p \in Procs
    PROVE  /\ ClientTypeOK /\ NetTypeOK /\ DiskTypeOK /\ ServerTypeOK
           /\ inHand(p, pc[p])
           /\ pc[p] \in Running => clientName[p] \in Names
BY DEF TypeInv, TypeOK, ControlOK, inHand

-----------------------------------------------------------------------------
(* The steps of a run *)

\* A run starts, whoever else it exposes to faults.
LEMMA StartSteps ==
    ASSUME TypeInv, NEW p \in Procs, UNCHANGED serverVars,
           NEW exposed \in SUBSET Procs, loadTransferInfo(p, exposed)
    PROVE  TypeInv'
<1> USE Parts DEF At, Goto
<1>1. hit' \in SUBSET Procs
  BY DEF loadTransferInfo, TypeInv, TypeOK, ClientTypeOK
<1>2. NetTypeOK' /\ DiskTypeOK'
  BY DEF loadTransferInfo, NetTypeOK, netVars, DiskTypeOK, diskVars
<1>3. CASE pc' = [pc EXCEPT ![p] = "connect"]
           /\ \E n \in Names : clientName' = [clientName EXCEPT ![p] = n]
           /\ \E list \in FileLists : files' = [files EXCEPT ![p] = list]
  <2>1. ClientTypeOK'
    BY <1>1, <1>3, PointFacts, ClientAssumption
    DEF loadTransferInfo, ClientTypeOK, Points, Plain, authVars, ClientAssumption
  <2>2. inHand(p, pc[p])'
    BY <1>3, PointFacts DEF ClientTypeOK, inHand, Plain
  <2> QED  BY <1>2, <1>3, <2>1, <2>2, StepType
           DEF loadTransferInfo, authVars, ClientTypeOK
<1>4. CASE pc' = [pc EXCEPT ![p] = "failed"] /\ UNCHANGED <<clientName, files>>
  <2>1. "failed" \in Points /\ inHand(p, "failed")
    BY PointFacts DEF Terminated, inHand, Saving, Transferring
  <2> QED  BY <1>1, <1>2, <1>4, <2>1, MoveType DEF loadTransferInfo, jobVars
<1> QED  BY <1>3, <1>4 DEF loadTransferInfo

LEMMA AuthenticateSteps ==
    ASSUME TypeInv, NEW p \in Procs, UNCHANGED serverVars,
           \/ Connect(p) \/ Authenticate(p)
           \/ LoadPrivateKey(p) \/ SendReconnect(p) \/ InvalidCredentials(p)
           \/ RemoveMeInfo(p) \/ RemovePrivKey(p)
    PROVE  TypeInv'
<1> USE Parts DEF At, Goto
<1>1. CASE Connect(p)
  <2>1. hit' \in SUBSET Procs  BY <1>1, HitType DEF Connect
  <2>2. NetTypeOK' /\ DiskTypeOK'
    BY <1>1 DEF Connect, NetTypeOK, connect, netVars, DiskTypeOK, diskVars
  <2> QED  BY <1>1, <2>1, <2>2, PointFacts, PlainMoveType
           DEF Connect, Terminated, Plain
<1>2. CASE Authenticate(p)
  <2>1. NetTypeOK' /\ DiskTypeOK' /\ hit' \in SUBSET Procs
    BY <1>2, HitType DEF Authenticate, NetTypeOK, netVars, DiskTypeOK, diskVars
  <2> QED  BY <1>2, <2>1, PointFacts, PlainMoveType DEF Authenticate, Plain
<1>3. CASE LoadPrivateKey(p)
  <2>1. NetTypeOK' /\ DiskTypeOK' /\ hit' \in SUBSET Procs
    BY <1>3, HitType DEF LoadPrivateKey, NetTypeOK, netVars, DiskTypeOK, diskVars
  <2>2. loadPrivateKey \in Procs \cup {Nil, Torn}
    BY DEF loadPrivateKey, DiskTypeOK
  <2>3. ClientTypeOK'
    BY <1>3, <2>1, <2>2, PointFacts
    DEF LoadPrivateKey, ClientTypeOK, Points, Plain, jobVars
  <2>4. inHand(p, pc[p])'
    BY <1>3, PointFacts DEF LoadPrivateKey, ClientTypeOK, inHand, Plain, jobVars
  <2> QED  BY <1>3, <2>1, <2>3, <2>4, StepType
           DEF LoadPrivateKey, ClientTypeOK, jobVars
<1>4. CASE SendReconnect(p)
  <2>1. meInfo.uuid \in Procs /\ meInfo.name \in Names /\ chosenKey(privKeyOpt[p]) \in Procs
    BY <1>4 DEF SendReconnect, credentialsLoaded, loadClientInfo,
            loadPrivateKeyBase64, DiskTypeOK
  <2>2. buildReconnect(meInfo.uuid, reconnectName(p)) \in Request
    BY <2>1, RequestTypes DEF reconnectName
  <2>3. inbound[p] \in Seq(Response)  BY DEF NetTypeOK
  <2>4. /\ NetTypeOK' /\ DiskTypeOK' /\ UNCHANGED hit
        /\ \/ pc' = [pc EXCEPT ![p] = "awaitReconnect"]
           \/ pc' = [pc EXCEPT ![p] = "failed"]
    BY <1>4, <2>2, <2>3, SendType DEF SendReconnect, DiskTypeOK, diskVars
  <2>5. ClientTypeOK'
    BY <1>4, <2>1, <2>4, PointFacts
    DEF SendReconnect, ClientTypeOK, Points, Plain, Terminated, jobVars
  <2>6. inHand(p, pc[p])'
    BY <1>4, <2>4, PointFacts
    DEF SendReconnect, ClientTypeOK, inHand, Plain, Terminated, jobVars
  <2> QED  BY <1>4, <2>4, <2>5, <2>6, StepType
           DEF SendReconnect, ClientTypeOK, jobVars
<1>5. CASE InvalidCredentials(p)
  <2>1. NetTypeOK' /\ DiskTypeOK' /\ hit' \in SUBSET Procs
    BY <1>5, HitType DEF InvalidCredentials, NetTypeOK, netVars, DiskTypeOK, diskVars
  <2> QED  BY <1>5, <2>1, PointFacts, PlainMoveType DEF InvalidCredentials, Plain
<1>6. CASE RemoveMeInfo(p)
  <2>1. NetTypeOK' /\ hit' \in SUBSET Procs
    BY <1>6, HitType DEF RemoveMeInfo, DiskStep, NetTypeOK, netVars
  <2>2. DiskTypeOK'
    BY <1>6, NamesAssumption
    DEF RemoveMeInfo, DiskStep, removeMeInfo, NoInfo, Info, DiskTypeOK, diskVars,
        NamesAssumption, Markers
  <2> QED  BY <1>6, <2>1, <2>2, PointFacts, PlainMoveType DEF RemoveMeInfo, DiskStep, Plain
<1>7. CASE RemovePrivKey(p)
  <2>1. NetTypeOK' /\ hit' \in SUBSET Procs
    BY <1>7, HitType DEF RemovePrivKey, DiskStep, NetTypeOK, netVars
  <2>2. DiskTypeOK'
    BY <1>7 DEF RemovePrivKey, DiskStep, removePrivKey, DiskTypeOK, diskVars
  <2> QED  BY <1>7, <2>1, <2>2, PointFacts, PlainMoveType DEF RemovePrivKey, DiskStep, Plain
<1> QED  BY <1>1, <1>2, <1>3, <1>4, <1>5, <1>6, <1>7

LEMMA ResponseSteps ==
    ASSUME TypeInv, NEW p \in Procs, UNCHANGED serverVars,
           \/ ReceiveReconnectRejected(p) \/ ReceiveReconnectApproved(p)
           \/ ReceiveRegistration(p) \/ ReceiveAesKey(p)
           \/ ReceiveAbortAck(p) \/ ReceiveResponseFails(p)
    PROVE  TypeInv'
<1> USE Parts, PointFacts DEF At, Goto
<1>1. CASE ReceiveReconnectRejected(p)
  <2>1. NetTypeOK' /\ DiskTypeOK' /\ hit' \in SUBSET Procs /\ pc[p] = "awaitReconnect"
        /\ pc' = [pc EXCEPT ![p] = "removeMeInfo"]
    BY <1>1, ReceiveType DEF ReceiveReconnectRejected, DiskTypeOK, diskVars, ClientTypeOK
  <2> QED  BY <1>1, <2>1, PlainMoveType DEF ReceiveReconnectRejected, Plain
<1>2. ASSUME NEW point \in {"awaitReconnect", "awaitAesKey"}, NEW code,
             ReceiveKey(p, point, code)
      PROVE  TypeInv'
  <2>1. NetTypeOK' /\ DiskTypeOK' /\ UNCHANGED hit /\ pc[p] = point
        /\ nextResponse(p) \in Response /\ pc' = [pc EXCEPT ![p] = "authenticated"]
    BY <1>2, ReceiveType DEF ReceiveKey, DiskTypeOK, diskVars
  <2>2. decryptAesKey(privateKey[p], nextResponse(p)) \in Procs \cup {Nil, ShortKey}
    BY <2>1 DEF decryptAesKey, Response
  <2>3. ClientTypeOK'
    BY <1>2, <2>1, <2>2 DEF ReceiveKey, ClientTypeOK, Points, Plain, jobVars
  <2>4. inHand(p, pc[p])'
    BY <1>2, <2>1 DEF ReceiveKey, ClientTypeOK, inHand, Plain, jobVars
  <2> QED  BY <1>2, <2>1, <2>3, <2>4, StepType DEF ReceiveKey, ClientTypeOK, jobVars
<1>3. CASE ReceiveRegistration(p)
  <2>1. NetTypeOK' /\ DiskTypeOK' /\ UNCHANGED hit /\ pc[p] = "awaitRegistration"
        /\ nextResponse(p) \in Response /\ pc' = [pc EXCEPT ![p] = "openMeInfo"]
    BY <1>3, ReceiveType DEF ReceiveRegistration, DiskTypeOK, diskVars
  <2>2. nextResponse(p).id \in Procs
    BY <1>3, <2>1 DEF ReceiveRegistration, Receive, Received, Response
  <2>3. ClientTypeOK'
    BY <1>3, <2>1, <2>2
    DEF ReceiveRegistration, ClientTypeOK, Points, Saving, jobVars
  <2>4. /\ pc'[p] = "openMeInfo" /\ clientName'[p] \in Names
        /\ clientId'[p] \in Procs /\ privateKey'[p] \in Procs
    BY <1>3, <2>1, <2>2 DEF ReceiveRegistration, ClientTypeOK, jobVars
  <2>5. inHand(p, pc[p])'
    BY <2>4 DEF inHand, Transferring
  <2> QED  BY <1>3, <2>1, <2>3, <2>5, StepType
           DEF ReceiveRegistration, ClientTypeOK, jobVars
<1>4. CASE ReceiveAbortAck(p)
  <2>1. NetTypeOK' /\ DiskTypeOK' /\ hit' \in SUBSET Procs
    BY <1>4, HitType, DisconnectType DEF ReceiveAbortAck, Exit, DiskTypeOK, diskVars
  <2>2. pc[p] \in Running  BY <1>4 DEF ReceiveAbortAck, Received, Transferring
  <2> QED  BY <1>4, <2>1, <2>2, PlainMoveType DEF ReceiveAbortAck, Exit, Terminated
<1>5. CASE ReceiveResponseFails(p)
  <2>1. NetTypeOK' /\ DiskTypeOK' /\ hit' \in SUBSET Procs
    BY <1>5, HitType, DisconnectType DEF ReceiveResponseFails, Exit, DiskTypeOK, diskVars
  <2> QED  BY <1>5, <2>1, PlainMoveType DEF ReceiveResponseFails, Exit, Terminated
<1> QED  BY <1>1, <1>2, <1>3, <1>4, <1>5 DEF ReceiveReconnectApproved, ReceiveAesKey

LEMMA RegisterSteps ==
    ASSUME TypeInv, NEW p \in Procs, UNCHANGED serverVars,
           \/ SendRegistration(p) \/ SendKey(p)
           \/ OpenMeInfo(p) \/ WriteMeInfo(p) \/ OpenPrivKey(p) \/ WritePrivKey(p)
           \/ SaveFails(p)
    PROVE  TypeInv'
<1> USE Parts, PointFacts DEF At, Goto
<1>1. CASE SendRegistration(p)
  <2>1. buildRegistration(clientName[p]) \in Request
    BY <1>1, RequestTypes DEF SendRegistration
  <2>2. inbound[p] \in Seq(Response)  BY DEF NetTypeOK
  <2>3. /\ NetTypeOK' /\ DiskTypeOK' /\ hit' \in SUBSET Procs
        /\ \/ pc' = [pc EXCEPT ![p] = "awaitRegistration"]
           \/ pc' = [pc EXCEPT ![p] = "failed"]
    BY <1>1, <2>1, <2>2, SendType DEF SendRegistration, DiskTypeOK, diskVars, ClientTypeOK
  <2> QED  BY <1>1, <2>3, PlainMoveType DEF SendRegistration, Plain, Terminated
<1>2. CASE SendKey(p)
  <2>1. clientName[p] \in Names /\ clientId[p] \in Procs /\ privateKey[p] \in Procs
    BY <1>2 DEF SendKey, inHand, Saving
  <2>2. buildPublicKeyExchange(clientId[p], clientName[p], privateKey[p]) \in Request
    BY <2>1, RequestTypes
  <2>3. inbound[p] \in Seq(Response)  BY DEF NetTypeOK
  <2>4. /\ NetTypeOK' /\ DiskTypeOK' /\ hit' \in SUBSET Procs
        /\ \/ pc' = [pc EXCEPT ![p] = "awaitAesKey"]
           \/ pc' = [pc EXCEPT ![p] = "failed"]
    BY <1>2, <2>2, <2>3, SendType DEF SendKey, DiskTypeOK, diskVars, ClientTypeOK
  <2> QED  BY <1>2, <2>4, PlainMoveType DEF SendKey, Saving, Terminated
<1>3. ASSUME pc[p] \in Saving, NEW next \in Saving, pc' = [pc EXCEPT ![p] = next],
             NoFault \/ Fault("disk", p), DiskTypeOK',
             UNCHANGED <<netVars, authVars, jobVars>>
      PROVE  TypeInv'
  <2>1. NetTypeOK' /\ hit' \in SUBSET Procs
    BY <1>3, HitType DEF NetTypeOK, netVars
  <2>2. inHand(p, next)  BY <1>3 DEF inHand, Saving, Transferring
  <2> QED  BY <1>3, <2>1, <2>2, MoveType
<1>4. CASE OpenMeInfo(p)
  <2>1. DiskTypeOK'
    BY <1>4, NamesAssumption
    DEF OpenMeInfo, DiskStep, openMeInfo, TornInfo, Info, DiskTypeOK,
        NamesAssumption, Markers
  <2> QED  BY <1>3, <1>4, <2>1 DEF OpenMeInfo, DiskStep, Saving
<1>5. CASE WriteMeInfo(p)
  <2>1. clientName[p] \in Names /\ clientId[p] \in Procs /\ privateKey[p] \in Procs
    BY <1>5 DEF WriteMeInfo, DiskStep, inHand, Saving
  <2>2. DiskTypeOK'
    BY <1>5, <2>1, NamesAssumption
    DEF WriteMeInfo, DiskStep, writeMeInfo, tearMeInfo, TornInfo, Info, DiskTypeOK,
        NamesAssumption, Markers
  <2> QED  BY <1>3, <1>5, <2>2 DEF WriteMeInfo, DiskStep, Saving
<1>6. CASE OpenPrivKey(p)
  <2>1. DiskTypeOK'
    BY <1>6 DEF OpenPrivKey, DiskStep, openPrivKey, DiskTypeOK
  <2> QED  BY <1>3, <1>6, <2>1 DEF OpenPrivKey, DiskStep, Saving
<1>7. CASE WritePrivKey(p)
  <2>1. privateKey[p] \in Procs  BY <1>7 DEF WritePrivKey, DiskStep, inHand, Saving
  <2>2. DiskTypeOK'
    BY <1>7, <2>1 DEF WritePrivKey, DiskStep, writePrivKey, tearPrivKey, DiskTypeOK
  <2> QED  BY <1>3, <1>7, <2>2 DEF WritePrivKey, DiskStep, Saving
<1>8. CASE SaveFails(p)
  <2>1. NetTypeOK' /\ DiskTypeOK' /\ hit' \in SUBSET Procs
    BY <1>8, HitType, DisconnectType DEF SaveFails, Exit, DiskTypeOK, diskVars
  <2> QED  BY <1>8, <2>1, PlainMoveType DEF SaveFails, Exit, Saving, Terminated
<1> QED  BY <1>1, <1>2, <1>4, <1>5, <1>6, <1>7, <1>8

LEMMA TransferSteps ==
    ASSUME TypeInv, NEW p \in Procs, UNCHANGED serverVars,
           \/ CheckAesKey(p) \/ PrepareFile(p) \/ AllFilesSent(p)
           \/ TransmitFile(p) \/ ContentSizeMismatch(p) \/ ConfirmCrc(p)
           \/ RequestRetry(p) \/ AbortTransfer(p) \/ ReceiveConfirmation(p)
    PROVE  TypeInv'
<1> USE Parts, PointFacts DEF At, Goto
<1>1. CASE CheckAesKey(p)
  <2>1. NetTypeOK' /\ DiskTypeOK' /\ hit' \in SUBSET Procs
    BY <1>1, HitType, DisconnectType
    DEF CheckAesKey, Exit, NetTypeOK, netVars, DiskTypeOK, diskVars
  <2>2. CASE isAes256Key(aesKey[p])
    <3>1. inHand(p, "nextFile")
      BY <1>1, <2>2 DEF CheckAesKey, isAes256Key, inHand, Saving, Transferring, Plain
    <3> QED  BY <1>1, <2>1, <2>2, <3>1, MoveType DEF CheckAesKey
  <2>3. CASE ~isAes256Key(aesKey[p])
    BY <1>1, <2>1, <2>3, PlainMoveType DEF CheckAesKey, Exit, Plain, Terminated
  <2> QED  BY <2>2, <2>3
<1>2. CASE PrepareFile(p)
  <2>1. NetTypeOK' /\ DiskTypeOK' /\ hit' \in SUBSET Procs
    BY <1>2, HitType, DisconnectType
    DEF PrepareFile, Exit, NetTypeOK, netVars, DiskTypeOK, diskVars
  <2>2. 1 \in 1..MAX_CRC_ATTEMPTS  BY ClientAssumption DEF ClientAssumption
  <2>3. ClientTypeOK'
    <3>1. attempt' \in [Procs -> 1..MAX_CRC_ATTEMPTS]
      BY <1>2, <2>2 DEF PrepareFile, ClientTypeOK
    <3>2. pc' \in [Procs -> Points]
      BY <1>2 DEF PrepareFile, Exit, ClientTypeOK, Points, Transferring, Terminated
    <3> QED  BY <1>2, <2>1, <3>1, <3>2 DEF PrepareFile, ClientTypeOK, Points, authVars
  <2>4. aesKey[p] \in Procs /\ fileIndex[p] <= Len(files[p])
    BY <1>2 DEF PrepareFile, inHand
  <2>5. pc'[p] \in {"sendFile", "failed"}
    BY <1>2 DEF PrepareFile, Exit, ClientTypeOK
  <2>6. inHand(p, pc[p])'
    BY <1>2, <2>4, <2>5 DEF PrepareFile, inHand, Saving, Terminated, authVars
  <2> QED  BY <1>2, <2>1, <2>3, <2>6, StepType
           DEF PrepareFile, Exit, ClientTypeOK, authVars
<1>3. CASE AllFilesSent(p)
  <2>1. NetTypeOK' /\ DiskTypeOK' /\ hit' \in SUBSET Procs
    BY <1>3, HitType, DisconnectType DEF AllFilesSent, Exit, DiskTypeOK, diskVars
  <2> QED  BY <1>3, <2>1, PlainMoveType DEF AllFilesSent, Exit, Terminated
<1>4. ASSUME pc[p] \in Transferring
      PROVE  /\ currentFile(p) \in Paths /\ clientId[p] \in Procs \cup {Nil}
             /\ aesKey[p] \in Procs
  <2>1. fileIndex[p] \in 1..Len(files[p])  BY <1>4 DEF inHand, ClientTypeOK
  <2>2. files[p] \in Seq(Paths)  BY DEF ClientTypeOK
  <2> QED  BY <1>4, <2>1, <2>2 DEF inHand, currentFile, ClientTypeOK
<1>5. CASE TransmitFile(p)
  <2>1. buildSendFile(clientId[p], currentFile(p), aesKey[p]) \in Request
    BY <1>4, <1>5, FileRequestTypes DEF TransmitFile, Transferring
  <2>2. inbound[p] \in Seq(Response)  BY DEF NetTypeOK
  <2>3. /\ NetTypeOK' /\ DiskTypeOK' /\ hit' \in SUBSET Procs
        /\ \/ pc' = [pc EXCEPT ![p] = "awaitCrc"]
           \/ pc' = [pc EXCEPT ![p] = "failed"]
    BY <1>5, <2>1, <2>2, SendType DEF TransmitFile, DiskTypeOK, diskVars, ClientTypeOK
  <2>4. inHand(p, "awaitCrc") /\ inHand(p, "failed")
    BY <1>5 DEF TransmitFile, inHand, Transferring, Saving, Terminated
  <2> QED  BY <1>5, <2>3, <2>4, MoveType DEF TransmitFile, Transferring, Terminated
<1>6. CASE ContentSizeMismatch(p)
  <2>1. NetTypeOK' /\ DiskTypeOK' /\ hit' \in SUBSET Procs
    BY <1>6, HitType, DisconnectType DEF ContentSizeMismatch, Exit, DiskTypeOK, diskVars
  <2>2. pc[p] \in Running  BY <1>6 DEF ContentSizeMismatch, Received, Transferring
  <2> QED  BY <1>6, <2>1, <2>2, PlainMoveType DEF ContentSizeMismatch, Exit, Terminated
<1>7. ASSUME NEW code \in {CrcValid, CrcInvalidRetry, CrcInvalidAbort},
             NEW next \in Transferring, CrcArrived(p), AnswerCrc(p, code, next),
             attempt' \in [Procs -> 1..MAX_CRC_ATTEMPTS]
      PROVE  TypeInv'
  <2>1. pc[p] \in Transferring /\ responseArrived(p)
    BY <1>7 DEF CrcArrived, Received, Transferring
  <2>2. buildCrcStatus(clientId[p], code, currentFile(p)) \in Request
    BY <1>4, <2>1, FileRequestTypes
  <2>3. Tail(inbound[p]) \in Seq(Response)  BY <2>1, ReceivedType
  <2>4. /\ NetTypeOK' /\ DiskTypeOK' /\ UNCHANGED hit
        /\ pc' = [pc EXCEPT ![p] = next] \/ pc' = [pc EXCEPT ![p] = "failed"]
    BY <1>7, <2>2, <2>3, SendType DEF AnswerCrc, DiskTypeOK, diskVars
  <2>5. ClientTypeOK'
    BY <1>7, <2>4 DEF AnswerCrc, ClientTypeOK, Points, Terminated, authVars
  <2>6. pc'[p] \in Transferring \cup {"failed"}
    BY <2>4 DEF ClientTypeOK
  <2>7. inHand(p, pc[p])'
    BY <1>7, <2>1, <2>6
    DEF AnswerCrc, inHand, Transferring, Saving, Terminated, authVars
  <2> QED  BY <1>7, <2>4, <2>5, <2>7, StepType DEF AnswerCrc, ClientTypeOK, authVars
<1>8. CASE ConfirmCrc(p)
  <2>1. attempt' \in [Procs -> 1..MAX_CRC_ATTEMPTS]
    BY <1>8 DEF ConfirmCrc, ClientTypeOK
  <2> QED  BY <1>7, <1>8, <2>1 DEF ConfirmCrc, Transferring
<1>9. CASE RequestRetry(p)
  <2>1. attempt[p] \in 1..MAX_CRC_ATTEMPTS  BY DEF ClientTypeOK
  <2>2. attempt[p] + 1 \in 1..MAX_CRC_ATTEMPTS
    BY <1>9, <2>1, ClientAssumption DEF RequestRetry, ClientAssumption
  <2>3. attempt' \in [Procs -> 1..MAX_CRC_ATTEMPTS]
    BY <1>9, <2>2 DEF RequestRetry, ClientTypeOK
  <2> QED  BY <1>7, <1>9, <2>3 DEF RequestRetry, Transferring
<1>10. CASE AbortTransfer(p)
  <2>1. attempt' \in [Procs -> 1..MAX_CRC_ATTEMPTS]
    BY <1>10 DEF AbortTransfer, ClientTypeOK
  <2> QED  BY <1>7, <1>10, <2>1 DEF AbortTransfer, Transferring
<1>11. CASE ReceiveConfirmation(p)
  <2>1. /\ NetTypeOK' /\ DiskTypeOK' /\ UNCHANGED hit /\ pc[p] = "awaitConfirmation"
        /\ pc' = [pc EXCEPT ![p] = "nextFile"]
    BY <1>11, ReceiveType DEF ReceiveConfirmation, DiskTypeOK, diskVars
  <2>2. fileIndex[p] + 1 \in Nat \ {0}  BY DEF ClientTypeOK
  <2>3. ClientTypeOK'
    BY <1>11, <2>1, <2>2 DEF ReceiveConfirmation, ClientTypeOK, Points, authVars
  <2>4. /\ pc'[p] = "nextFile" /\ clientName'[p] \in Names /\ aesKey'[p] \in Procs
    BY <1>11, <2>1
    DEF ReceiveConfirmation, ClientTypeOK, Transferring, inHand, authVars
  <2>5. inHand(p, pc[p])'  BY <2>4 DEF inHand, Saving, Transferring
  <2> QED  BY <1>11, <2>1, <2>3, <2>5, StepType
           DEF ReceiveConfirmation, ClientTypeOK, authVars
<1> QED  BY <1>1, <1>2, <1>3, <1>5, <1>6, <1>8, <1>9, <1>10, <1>11

LEMMA FaultSteps ==
    ASSUME TypeInv, NEW p \in Procs, UNCHANGED serverVars,
           Crash(p) \/ Disconnection(p)
    PROVE  TypeInv'
<1> USE Parts, PointFacts DEF Goto
<1>1. CASE Crash(p)
  <2>1. NetTypeOK' /\ DiskTypeOK' /\ hit' \in SUBSET Procs
    BY <1>1, HitType, DisconnectType DEF Crash, Exit, DiskTypeOK, diskVars
  <2> QED  BY <1>1, <2>1, PlainMoveType DEF Crash, Exit, Terminated
<1>2. CASE Disconnection(p)
  <2>1. ASSUME NEW S, NEW s \in Seq(S), NEW i \in 0..Len(s)
        PROVE  SubSeq(s, 1, i) \in Seq(S)
    BY SubSeqProperties
  <2>2. PICK i \in 0..Len(outbound[p]), j \in 0..Len(inbound[p]) :
            /\ outbound' = [outbound EXCEPT ![p] = SubSeq(@, 1, i)]
            /\ inbound' = [inbound EXCEPT ![p] = SubSeq(@, 1, j)]
    BY <1>2 DEF Disconnection, LinkBreaks
  <2>3. SubSeq(outbound[p], 1, i) \in Seq(Request) /\ SubSeq(inbound[p], 1, j) \in Seq(Response)
    BY <2>1 DEF NetTypeOK
  <2>4. NetTypeOK'
    BY <1>2, <2>2, <2>3 DEF Disconnection, LinkBreaks, NetTypeOK
  <2>5. DiskTypeOK' /\ ServerTypeOK' /\ hit' \in SUBSET Procs
    BY <1>2, HitType DEF Disconnection, DiskTypeOK, diskVars, ServerTypeOK, serverVars
  <2>6. ClientTypeOK'
    BY <1>2, <2>5 DEF Disconnection, ClientTypeOK, authVars, jobVars
  <2>7. ControlOK'
    BY <1>2 DEF Disconnection, TypeInv, ControlOK, inHand, authVars, jobVars
  <2> QED  BY <2>4, <2>5, <2>6, <2>7 DEF TypeInv, TypeOK
<1> QED  BY <1>1, <1>2

-----------------------------------------------------------------------------
(* The steps of the server *)

LEMMA RespondType ==
    ASSUME NetTypeOK, NEW c \in Procs, outbound[c] # <<>>,
           NEW m \in Response, Respond(c, m)
    PROVE  NetTypeOK'
<1>1. Tail(outbound[c]) \in Seq(Request)  BY HeadTailProperties DEF NetTypeOK
<1>2. Append(inbound[c], m) \in Seq(Response)  BY DEF NetTypeOK
<1> QED  BY <1>1, <1>2 DEF Respond, NetTypeOK

LEMMA ServerSteps ==
    ASSUME TypeInv, NEW c \in Procs, ServerMoves(c)
    PROVE  TypeInv'
<1> USE Parts
<1>1. ClientTypeOK' /\ DiskTypeOK' /\ ControlOK'
  <2>1. hit' \in SUBSET Procs
    BY HitType DEF ServerMoves, HonestStep, FaultyStep, Fault, NoFault, ClientTypeOK
  <2>2. UNCHANGED <<pc, diskVars, authVars, jobVars>>
    BY DEF ServerMoves, HonestStep, FaultyStep
  <2> QED  BY <2>1, <2>2
           DEF ClientTypeOK, DiskTypeOK, TypeInv, ControlOK, inHand,
               diskVars, authVars, jobVars
<1>2. ASSUME outbound[c] # <<>>  PROVE nextRequest(c) \in Request
  BY <1>2, HeadTailProperties DEF NetTypeOK, nextRequest
<1>3. ASSUME NEW content \in Paths \cup {Nil, Garbled}, HandleFile(c, content)
      PROVE  NetTypeOK' /\ ServerTypeOK'
  <2>1. outbound[c] # <<>> /\ nextRequest(c).id \in Procs \cup {Nil}
        /\ nextRequest(c).file \in FileNames
    BY <1>2, <1>3 DEF HandleFile, Requested, Request
  <2>2. CrcReply(nextRequest(c).id, CipherSize, content) \in Response
    BY <2>1, ReplyTypes
  <2>3. NetTypeOK'  BY <1>3, <2>1, <2>2, RespondType DEF HandleFile
  <2>4. ServerTypeOK'  BY <1>3, <2>1 DEF HandleFile, ServerTypeOK
  <2> QED  BY <2>3, <2>4
<1>4. CASE HonestStep(c)
  <2>1. CASE HandleRegistration(c)
    <3>1. outbound[c] # <<>> /\ nextRequest(c).name \in Names \cup {Nil}
      BY <1>2, <2>1 DEF HandleRegistration, Requested, Request
    <3>2. Reply(RegistrationSuccess, c) \in Response  BY ResponseCodes, ReplyTypes
    <3>3. NetTypeOK'  BY <2>1, <3>1, <3>2, RespondType DEF HandleRegistration
    <3>4. ServerTypeOK'  BY <2>1, <3>1 DEF HandleRegistration, ServerTypeOK
    <3> QED  BY <1>1, <3>3, <3>4 DEF TypeInv, TypeOK
  <2>2. CASE HandlePublicKey(c)
    <3>1. outbound[c] # <<>> /\ nextRequest(c).id \in Procs \cup {Nil}
          /\ nextRequest(c).pub \in Procs \cup {Nil}
      BY <1>2, <2>2 DEF HandlePublicKey, Requested, Request
    <3>2. AesReply(AesKeyReceived, nextRequest(c).id, nextRequest(c).pub, c) \in Response
      BY <3>1, ReplyTypes
    <3>3. NetTypeOK'  BY <2>2, <3>1, <3>2, RespondType DEF HandlePublicKey
    <3>4. ServerTypeOK'  BY <2>2, <3>1 DEF HandlePublicKey, ServerTypeOK
    <3> QED  BY <1>1, <3>3, <3>4 DEF TypeInv, TypeOK
  <2>3. CASE ApproveReconnect(c)
    <3>1. outbound[c] # <<>> /\ nextRequest(c).id \in Procs
      BY <1>2, <2>3 DEF ApproveReconnect, Requested, Request
    <3>2. registry[nextRequest(c).id].pub \in Procs \cup {Nil}
      BY <3>1 DEF ServerTypeOK
    <3>3. AesReply(ReconnectApproved, nextRequest(c).id,
                   registry[nextRequest(c).id].pub, c) \in Response
      BY <3>1, <3>2, ReplyTypes
    <3>4. NetTypeOK' /\ ServerTypeOK'
      BY <2>3, <3>1, <3>3, RespondType DEF ApproveReconnect, ServerTypeOK, serverVars
    <3> QED  BY <1>1, <3>4 DEF TypeInv, TypeOK
  <2>4. CASE RejectReconnect(c)
    <3>1. outbound[c] # <<>> /\ nextRequest(c).id \in Procs
      BY <1>2, <2>4 DEF RejectReconnect, Requested, Request
    <3>2. Reply(ReconnectRejected, nextRequest(c).id) \in Response
      BY <3>1, ResponseCodes, ReplyTypes
    <3>3. NetTypeOK' /\ ServerTypeOK'
      BY <2>4, <3>1, <3>2, RespondType DEF RejectReconnect, ServerTypeOK
    <3> QED  BY <1>1, <3>3 DEF TypeInv, TypeOK
  <2>5. CASE outbound[c] # <<>> /\ HandleFile(c, decrypted(c, nextRequest(c)))
    <3>1. decrypted(c, nextRequest(c)) \in Paths \cup {Nil, Garbled}
      BY <1>2, <2>5 DEF decrypted, Request
    <3> QED  BY <1>1, <1>3, <2>5, <3>1 DEF TypeInv, TypeOK
  <2>6. CASE HandleCrcValid(c)
    <3>1. outbound[c] # <<>> /\ nextRequest(c).id \in Procs \cup {Nil}
          /\ nextRequest(c).file \in FileNames
      BY <1>2, <2>6 DEF HandleCrcValid, Requested, Request
    <3>2. Reply(MessageConfirmed, nextRequest(c).id) \in Response
      BY <3>1, ResponseCodes, ReplyTypes
    <3>3. NetTypeOK'  BY <2>6, <3>1, <3>2, RespondType DEF HandleCrcValid
    <3>4. ServerTypeOK'  BY <2>6, <3>1 DEF HandleCrcValid, ServerTypeOK
    <3> QED  BY <1>1, <3>3, <3>4 DEF TypeInv, TypeOK
  <2>7. CASE HandleRetry(c)
    <3>1. Tail(outbound[c]) \in Seq(Request)
      BY <2>7, HeadTailProperties DEF HandleRetry, Requested, NetTypeOK
    <3>2. NetTypeOK' /\ ServerTypeOK'
      BY <2>7, <3>1 DEF HandleRetry, Done, NetTypeOK, ServerTypeOK, serverVars
    <3> QED  BY <1>1, <3>2 DEF TypeInv, TypeOK
  <2>8. CASE HandleAbort(c)
    <3>1. outbound[c] # <<>> /\ nextRequest(c).id \in Procs \cup {Nil}
          /\ nextRequest(c).file \in FileNames
      BY <1>2, <2>8 DEF HandleAbort, Requested, Request
    <3>2. Reply(MessageConfirmed, nextRequest(c).id) \in Response
      BY <3>1, ResponseCodes, ReplyTypes
    <3>3. NetTypeOK'  BY <2>8, <3>1, <3>2, RespondType DEF HandleAbort
    <3>4. ServerTypeOK'  BY <2>8, <3>1 DEF HandleAbort, ServerTypeOK
    <3> QED  BY <1>1, <3>3, <3>4 DEF TypeInv, TypeOK
  <2> QED  BY <1>4, <2>1, <2>2, <2>3, <2>4, <2>5, <2>6, <2>7, <2>8
           DEF HonestStep, ServerStep
<1>5. CASE FaultyStep(c)
  <2>1. CASE CorruptFile(c)
    BY <1>1, <1>3, <2>1 DEF CorruptFile, TypeInv, TypeOK
  <2>2. ASSUME outbound[c] # <<>>, UNCHANGED serverVars,
               NEW m \in Response, Respond(c, m)
        PROVE  TypeInv'
    <3>1. NetTypeOK' /\ ServerTypeOK'
      BY <2>2, RespondType DEF ServerTypeOK, serverVars
    <3> QED  BY <1>1, <3>1 DEF TypeInv, TypeOK
  <2>3. CASE Refuse(c)
    <3>1. \A code \in {RegistrationFailed, GeneralError} : Reply(code, Nil) \in Response
      BY ResponseCodes, ReplyTypes
    <3> QED  BY <2>2, <2>3, <3>1 DEF Refuse
  <2>4. CASE FaultyReply(c)
    BY <2>2, <2>4, AnyResponseType DEF FaultyReply
  <2> QED  BY <1>5, <2>1, <2>3, <2>4 DEF FaultyStep
<1> QED  BY <1>4, <1>5 DEF ServerMoves

-----------------------------------------------------------------------------
LEMMA TypeInvInit == Init => TypeInv
<1> SUFFICES ASSUME Init PROVE TypeInv  OBVIOUS
<1>1. ClientTypeOK
  BY ClientAssumption
  DEF Init, ClientInit, ClientTypeOK, ClientAssumption
<1>2. NetTypeOK  BY DEF Init, NetInit, NetTypeOK
<1>3. DiskTypeOK
  BY NamesAssumption
  DEF Init, DiskInit, DiskTypeOK, NoInfo, Info, NamesAssumption, Markers
<1>4. ServerTypeOK  BY DEF Init, ServerInit, ServerTypeOK
<1>5. ControlOK
  BY PointFacts
  DEF Init, ClientInit, ControlOK, inHand, Running, Working, Waiting, acceptedCodes,
      Saving, Transferring
<1> QED  BY <1>1, <1>2, <1>3, <1>4, <1>5 DEF TypeInv, TypeOK

LEMMA TypeInvStep == TypeInv /\ [Next]_vars => TypeInv'
<1> SUFFICES ASSUME TypeInv, [Next]_vars PROVE TypeInv'  OBVIOUS
<1>1. ASSUME NEW p \in Procs, ClientMoves(p)  PROVE TypeInv'
  BY <1>1, StartSteps, AuthenticateSteps, ResponseSteps, RegisterSteps, TransferSteps,
     FaultSteps
  DEF ClientMoves, ClientStep, RunStep, LoadTransferInfo
<1>2. ASSUME NEW p \in Procs, ServerMoves(p)  PROVE TypeInv'
  BY <1>2, ServerSteps
<1>3. CASE UNCHANGED vars
  BY <1>3
  DEF vars, clientVars, netVars, diskVars, serverVars, TypeInv, TypeOK, ClientTypeOK,
      NetTypeOK, DiskTypeOK, ServerTypeOK, ControlOK, inHand
<1> QED  BY <1>1, <1>2, <1>3 DEF Next, AllDone

\* Every variable has a value of its type in every reachable state, and a run
\* has in hand what the code at its point uses: a name, an ID and a key pair,
\* an AES key, a file.
THEOREM TypeCorrect == Spec => []TypeOK
<1>1. TypeInv => TypeOK  BY DEF TypeInv
<1> QED  BY <1>1, TypeInvInit, TypeInvStep, PTL DEF Spec

-----------------------------------------------------------------------------
(* The names and keys that runs leave to one another on the disk: a        *)
(* reconnect request names the client as it registered, and past           *)
(* authentication a run holds the session key of its connection, for every *)
(* set of runs, names and files and every kind of fault but a server that  *)
(* answers with whatever it likes.                                         *)

(* Names *)

\* The server knows the client with ID u under this name.
registered(u, name) == name \in Names /\ registry[u].name = name

\* What the requests and responses under way say about names.
requestNames(p, m) ==
    /\ m.code = Registration => m.name \in Names /\ m.name = clientName[p]
    /\ m.code = Reconnect => registered(m.id, m.name)
responseNames(p, m) ==
    m.code = RegistrationSuccess => m.id = p /\ registered(p, clientName[p])

\* Points at which a run is about to write its name and ID to me.info.
Naming == {"openMeInfo", "writeMeInfo"}

\* The invariant: a name travels from a run to the server, back as a response,
\* into me.info, and from there into a reconnect request of a later run.
FreshClients ==
    \A p \in Procs : pc[p] = "idle" => /\ Range(outbound[p]) = {}
                                       /\ registry[p].name = Nil
RegistryNames == \A u \in Procs : registry[u].name \in {Nil, clientName[u]}
RequestNames  == \A p \in Procs : \A m \in Range(outbound[p]) : requestNames(p, m)
ResponseNames == \A p \in Procs : \A m \in Range(inbound[p]) : responseNames(p, m)
SavingNames   ==
    \A p \in Procs : pc[p] \in Naming => registered(clientId[p], clientName[p])
DiskNames     == meInfo.uuid \in Procs => registered(meInfo.uuid, meInfo.name)

IdentityInv ==
    /\ FreshClients /\ RegistryNames /\ RequestNames /\ ResponseNames
    /\ SavingNames /\ DiskNames

-----------------------------------------------------------------------------
(* Messages in a sequence *)

LEMMA RangeFacts ==
    ASSUME NEW S, NEW s \in Seq(S)
    PROVE  /\ \A e \in S : Range(Append(s, e)) = Range(s) \cup {e}
           /\ s # <<>> => Head(s) \in Range(s) /\ Range(Tail(s)) \subseteq Range(s)
           /\ \A n \in 0..Len(s) : Range(SubSeq(s, 1, n)) \subseteq Range(s)
           /\ \A i \in 1..Len(s) : s[i] \in Range(s)
<1>1. DOMAIN s = 1..Len(s) /\ Len(s) \in Nat  OBVIOUS
<1>2. ASSUME NEW e \in S  PROVE Range(Append(s, e)) = Range(s) \cup {e}
  <2>1. /\ DOMAIN Append(s, e) = 1..(Len(s) + 1)
        /\ \A i \in 1..Len(s) : Append(s, e)[i] = s[i]
        /\ Append(s, e)[Len(s) + 1] = e
    OBVIOUS
  <2>2. 1..(Len(s) + 1) = 1..Len(s) \cup {Len(s) + 1}  BY <1>1
  <2> QED  BY <1>1, <2>1, <2>2 DEF Range
<1>3. ASSUME s # <<>>
      PROVE  Head(s) \in Range(s) /\ Range(Tail(s)) \subseteq Range(s)
  <2>1. Head(s) = s[1] /\ 1 \in DOMAIN s  BY <1>1, <1>3
  <2>2. /\ DOMAIN Tail(s) = 1..(Len(s) - 1)
        /\ \A i \in 1..(Len(s) - 1) : Tail(s)[i] = s[i + 1] /\ i + 1 \in DOMAIN s
    BY <1>1, <1>3, HeadTailProperties
  <2> QED  BY <2>1, <2>2 DEF Range
<1>4. ASSUME NEW n \in 0..Len(s)  PROVE Range(SubSeq(s, 1, n)) \subseteq Range(s)
  <2>1. /\ DOMAIN SubSeq(s, 1, n) = 1..n
        /\ \A i \in 1..n : SubSeq(s, 1, n)[i] = s[i] /\ i \in DOMAIN s
    BY <1>1
  <2> QED  BY <2>1 DEF Range
<1> QED  BY <1>1, <1>2, <1>3, <1>4 DEF Range

\* Run p writes no requests but those in M, and no response appears.
Sends(p, M) ==
    /\ \A q \in Procs : Range(inbound'[q]) \subseteq Range(inbound[q])
    /\ \A q \in Procs \ {p} : outbound'[q] = outbound[q]
    /\ Range(outbound'[p]) \subseteq Range(outbound[p]) \cup M

LEMMA QuietFacts ==
    ASSUME NetTypeOK, NEW p \in Procs,
           \/ UNCHANGED netVars \/ connect(p) \/ disconnect(p)
           \/ responseArrived(p) /\ receive(p)
    PROVE  Sends(p, {})
<1>1. CASE UNCHANGED netVars  BY <1>1 DEF netVars, Sends
<1>2. CASE connect(p)  BY <1>2 DEF connect, Sends
<1>3. CASE disconnect(p)
  <2>1. Range(<<>>) = {}  BY DEF Range
  <2> QED  BY <1>3, <2>1 DEF disconnect, Sends, NetTypeOK
<1>4. CASE responseArrived(p) /\ receive(p)
  <2>1. Range(Tail(inbound[p])) \subseteq Range(inbound[p])
    BY <1>4, RangeFacts DEF responseArrived, NetTypeOK
  <2> QED  BY <1>4, <2>1 DEF receive, Sends, NetTypeOK
<1> QED  BY <1>1, <1>2, <1>3, <1>4

LEMMA SendFacts ==
    ASSUME NetTypeOK, ClientTypeOK, NEW p \in Procs, NEW request \in Request, NEW next,
           NEW unread, Range(unread) \subseteq Range(inbound[p]),
           Send(p, request, next, unread)
    PROVE  /\ Sends(p, {request})
           /\ pc'[p] \in {next, "failed"} /\ \A q \in Procs \ {p} : pc'[q] = pc[q]
           /\ UNCHANGED diskVars
<1>1. CASE Goto(p, next) /\ send(p, request)
           /\ inbound' = [inbound EXCEPT ![p] = unread]
  <2>1. Range(Append(outbound[p], request)) = Range(outbound[p]) \cup {request}
    BY RangeFacts DEF NetTypeOK
  <2>2. Sends(p, {request})
    BY <1>1, <2>1 DEF send, Sends, NetTypeOK
  <2> QED  BY <1>1, <2>2 DEF Goto, Send, ClientTypeOK
<1>2. CASE Exit(p, "failed")
  <2>1. Sends(p, {})  BY <1>2, QuietFacts DEF Exit
  <2> QED  BY <1>2, <2>1 DEF Sends, Exit, Goto, Send, ClientTypeOK
<1> QED  BY <1>1, <1>2 DEF Send

-----------------------------------------------------------------------------
(* The steps of a run *)

\* A run that sends only correct names, saves only a name it registered and
\* leaves only a name the server knows on the disk.
LEMMA RunNames ==
    ASSUME IdentityInv, NEW p \in Procs, NEW M, Sends(p, M),
           \A m \in M : requestNames(p, m),
           UNCHANGED <<registry, clientName>>,
           \A q \in Procs \ {p} : pc'[q] = pc[q] /\ clientId'[q] = clientId[q],
           pc'[p] = "idle" => pc[p] = "idle" /\ M = {},
           pc'[p] \in Naming => registered(clientId'[p], clientName[p]),
           meInfo'.uuid \in Procs => registered(meInfo'.uuid, meInfo'.name)
    PROVE  IdentityInv'
<1>1. FreshClients'  BY DEF IdentityInv, FreshClients, Sends
<1>2. RegistryNames'  BY DEF IdentityInv, RegistryNames
<1>3. RequestNames'
  <2> SUFFICES ASSUME NEW q \in Procs, NEW m \in Range(outbound'[q])
               PROVE  requestNames(q, m)'
    BY DEF RequestNames
  <2>1. requestNames(q, m)  BY DEF IdentityInv, RequestNames, Sends
  <2> QED  BY <2>1 DEF requestNames, registered
<1>4. ResponseNames'
  <2> SUFFICES ASSUME NEW q \in Procs, NEW m \in Range(inbound'[q])
               PROVE  responseNames(q, m)'
    BY DEF ResponseNames
  <2>1. responseNames(q, m)  BY DEF IdentityInv, ResponseNames, Sends
  <2> QED  BY <2>1 DEF responseNames, registered
<1>5. SavingNames'  BY DEF IdentityInv, SavingNames, registered
<1>6. DiskNames'  BY DEF DiskNames, registered
<1> QED  BY <1>1, <1>2, <1>3, <1>4, <1>5, <1>6 DEF IdentityInv

\* A step that leaves the names and me.info alone.
LEMMA OtherMoves ==
    ASSUME TypeInv, IdentityInv, NEW p \in Procs, NEW M, Sends(p, M),
           \A m \in M : requestNames(p, m),
           UNCHANGED <<registry, clientName, meInfo>>,
           \A q \in Procs \ {p} : pc'[q] = pc[q] /\ clientId'[q] = clientId[q],
           pc'[p] \notin Naming \cup {"idle"}
    PROVE  IdentityInv'
BY RunNames DEF IdentityInv, DiskNames

\* The codes of the requests about files are not those of requests with a name.
LEMMA FileRequestNames ==
    ASSUME NEW p, NEW id, NEW path, NEW key,
           NEW code \in {CrcValid, CrcInvalidRetry, CrcInvalidAbort}
    PROVE  /\ requestNames(p, buildSendFile(id, path, key))
           /\ requestNames(p, buildCrcStatus(id, code, path))
BY DEF requestNames, buildSendFile, buildCrcStatus, fileRequest, Registration,
       Reconnect, SendFile, CrcValid, CrcInvalidRetry, CrcInvalidAbort

\* Only a run that is not running yet takes a name.
LEMMA LoadNames ==
    ASSUME TypeInv, IdentityInv, NEW p \in Procs, UNCHANGED serverVars,
           NEW exposed, loadTransferInfo(p, exposed)
    PROVE  IdentityInv'
<1> USE Parts DEF At, Goto
<1>1. /\ Range(outbound[p]) = {} /\ registry[p].name = Nil
      /\ UNCHANGED <<netVars, diskVars, registry, clientId>>
      /\ \A q \in Procs \ {p} : pc'[q] = pc[q] /\ clientName'[q] = clientName[q]
      /\ pc'[p] \in {"connect", "failed"}
  BY DEF loadTransferInfo, IdentityInv, FreshClients, ClientTypeOK, authVars, serverVars
<1>2. FreshClients'  BY <1>1 DEF IdentityInv, FreshClients, netVars
<1>3. RegistryNames'  BY <1>1 DEF IdentityInv, RegistryNames
<1>4. RequestNames'
  BY <1>1 DEF IdentityInv, RequestNames, requestNames, registered, netVars
<1>5. ResponseNames'
  <2> SUFFICES ASSUME NEW q \in Procs, NEW m \in Range(inbound[q]),
                      m.code = RegistrationSuccess
               PROVE  responseNames(q, m)'
    BY <1>1 DEF ResponseNames, responseNames, netVars
  <2>1. m.id = q /\ registered(q, clientName[q])
    BY DEF IdentityInv, ResponseNames, responseNames
  <2>2. q # p
    BY <1>1, <2>1, NamesAssumption DEF registered, NamesAssumption, Markers
  <2> QED  BY <1>1, <2>1, <2>2 DEF responseNames, registered
<1>6. SavingNames'
  BY <1>1 DEF IdentityInv, SavingNames, Naming, registered
<1>7. DiskNames'  BY <1>1 DEF IdentityInv, DiskNames, registered, diskVars
<1> QED  BY <1>2, <1>3, <1>4, <1>5, <1>6, <1>7 DEF IdentityInv

LEMMA AuthenticateNames ==
    ASSUME TypeInv, IdentityInv, NEW p \in Procs, UNCHANGED serverVars,
           \/ Connect(p) \/ Authenticate(p) \/ LoadPrivateKey(p)
           \/ SendReconnect(p) \/ InvalidCredentials(p)
           \/ RemoveMeInfo(p) \/ RemovePrivKey(p)
    PROVE  IdentityInv'
<1> USE Parts DEF At, Goto
<1>1. CASE Connect(p) \/ Authenticate(p) \/ LoadPrivateKey(p) \/ InvalidCredentials(p)
           \/ RemovePrivKey(p)
  <2>1. Sends(p, {})
    BY <1>1, QuietFacts
    DEF Connect, Authenticate, LoadPrivateKey, InvalidCredentials, RemovePrivKey, DiskStep
  <2>2. /\ UNCHANGED <<registry, clientName, clientId, meInfo>>
        /\ pc'[p] \notin Naming \cup {"idle"} /\ \A q \in Procs \ {p} : pc'[q] = pc[q]
    BY <1>1
    DEF Connect, Authenticate, LoadPrivateKey, InvalidCredentials, RemovePrivKey, DiskStep,
        removePrivKey, Naming, ClientTypeOK, authVars, jobVars, diskVars, serverVars
  <2> QED  BY <2>1, <2>2, OtherMoves
<1>2. CASE SendReconnect(p)
  <2>1. meInfo.uuid \in Procs /\ meInfo.name \in Names
    BY <1>2 DEF SendReconnect, credentialsLoaded, loadClientInfo, DiskTypeOK
  <2> DEFINE request == buildReconnect(meInfo.uuid, reconnectName(p))
  <2>2. request \in Request  BY <2>1, RequestTypes DEF reconnectName
  <2>3. Send(p, request, "awaitReconnect", inbound[p])  BY <1>2 DEF SendReconnect
  <2>4. requestNames(p, request)
    BY <2>1
    DEF IdentityInv, DiskNames, requestNames, buildReconnect, clientRequest,
        reconnectName, Reconnect, Registration
  <2> HIDE DEF request
  <2>5. /\ Sends(p, {request}) /\ UNCHANGED diskVars
        /\ pc'[p] \in {"awaitReconnect", "failed"}
        /\ \A q \in Procs \ {p} : pc'[q] = pc[q]
    BY <2>2, <2>3, SendFacts
  <2>6. /\ UNCHANGED <<registry, clientName, meInfo>>
        /\ \A q \in Procs \ {p} : clientId'[q] = clientId[q]
    BY <1>2, <2>5 DEF SendReconnect, jobVars, diskVars, serverVars, ClientTypeOK
  <2> QED  BY <2>4, <2>5, <2>6, OtherMoves DEF Naming
<1>3. CASE RemoveMeInfo(p)
  <2>1. Sends(p, {})  BY <1>3, QuietFacts DEF RemoveMeInfo, DiskStep
  <2>2. /\ UNCHANGED <<registry, clientName, clientId>>
        /\ pc'[p] = "removePrivKey" /\ \A q \in Procs \ {p} : pc'[q] = pc[q]
    BY <1>3 DEF RemoveMeInfo, DiskStep, ClientTypeOK, authVars, jobVars, serverVars
  <2>3. meInfo'.uuid \in Procs => registered(meInfo'.uuid, meInfo'.name)
    BY <1>3, NamesAssumption
    DEF RemoveMeInfo, DiskStep, removeMeInfo, NoInfo, Info, IdentityInv, DiskNames,
        diskVars, NamesAssumption, Markers
  <2> QED  BY <2>1, <2>2, <2>3, RunNames DEF Naming
<1> QED  BY <1>1, <1>2, <1>3

LEMMA RegisterNames ==
    ASSUME TypeInv, IdentityInv, NEW p \in Procs, UNCHANGED serverVars,
           \/ SendRegistration(p) \/ ReceiveRegistration(p) \/ SaveFails(p)
           \/ OpenMeInfo(p) \/ WriteMeInfo(p) \/ OpenPrivKey(p) \/ WritePrivKey(p)
           \/ SendKey(p)
    PROVE  IdentityInv'
<1> USE Parts DEF At, Goto
<1>1. CASE SendRegistration(p)
  <2>1. clientName[p] \in Names  BY <1>1, PointFacts DEF SendRegistration
  <2> DEFINE request == buildRegistration(clientName[p])
  <2>2. request \in Request
    BY <2>1
    DEF buildRegistration, clientRequest, Request, RequestCode, Registration,
        SendPublicKey, Reconnect, SendFile, CrcValid, CrcInvalidRetry, CrcInvalidAbort
  <2>3. Send(p, request, "awaitRegistration", inbound[p])  BY <1>1 DEF SendRegistration
  <2>4. requestNames(p, request)
    BY <2>1
    DEF requestNames, buildRegistration, clientRequest, Reconnect, Registration
  <2> HIDE DEF request
  <2>5. /\ Sends(p, {request}) /\ UNCHANGED diskVars
        /\ pc'[p] \in {"awaitRegistration", "failed"}
        /\ \A q \in Procs \ {p} : pc'[q] = pc[q]
    BY <2>2, <2>3, SendFacts
  <2>6. UNCHANGED <<registry, clientName, clientId, meInfo>>
    BY <1>1, <2>5 DEF SendRegistration, authVars, jobVars, diskVars, serverVars
  <2> QED  BY <2>4, <2>5, <2>6, OtherMoves DEF Naming
<1>2. CASE ReceiveRegistration(p)
  <2>1. responseArrived(p) /\ nextResponse(p).code = RegistrationSuccess
    BY <1>2 DEF ReceiveRegistration, Receive, Received
  <2>2. nextResponse(p) \in Range(inbound[p])
    BY <2>1, RangeFacts DEF responseArrived, nextResponse, NetTypeOK
  <2>3. nextResponse(p).id = p /\ registered(p, clientName[p])
    BY <2>1, <2>2 DEF IdentityInv, ResponseNames, responseNames
  <2>4. Sends(p, {})  BY <1>2, <2>1, QuietFacts DEF ReceiveRegistration, Receive
  <2>5. /\ UNCHANGED <<registry, clientName, meInfo>>
        /\ pc'[p] = "openMeInfo" /\ clientId'[p] = p
        /\ \A q \in Procs \ {p} : pc'[q] = pc[q] /\ clientId'[q] = clientId[q]
    BY <1>2, <2>3
    DEF ReceiveRegistration, Receive, ClientTypeOK, jobVars, diskVars, serverVars
  <2> QED  BY <2>3, <2>4, <2>5, RunNames DEF IdentityInv, DiskNames
<1>3. CASE SaveFails(p) \/ OpenPrivKey(p) \/ WritePrivKey(p)
  <2>1. Sends(p, {})
    BY <1>3, QuietFacts DEF SaveFails, Exit, OpenPrivKey, WritePrivKey, DiskStep
  <2>2. /\ UNCHANGED <<registry, clientName, clientId, meInfo>>
        /\ pc'[p] \notin Naming \cup {"idle"} /\ \A q \in Procs \ {p} : pc'[q] = pc[q]
    BY <1>3
    DEF SaveFails, Exit, OpenPrivKey, WritePrivKey, DiskStep, openPrivKey, writePrivKey,
        tearPrivKey, Naming, ClientTypeOK, authVars, jobVars, diskVars, serverVars
  <2> QED  BY <2>1, <2>2, OtherMoves
<1>4. CASE OpenMeInfo(p)
  <2>1. Sends(p, {})  BY <1>4, QuietFacts DEF OpenMeInfo, DiskStep
  <2>2. /\ UNCHANGED <<registry, clientName, clientId>> /\ pc[p] = "openMeInfo"
        /\ pc'[p] = "writeMeInfo" /\ \A q \in Procs \ {p} : pc'[q] = pc[q]
    BY <1>4 DEF OpenMeInfo, DiskStep, ClientTypeOK, authVars, jobVars, serverVars
  <2>3. registered(clientId'[p], clientName[p])
    BY <2>2 DEF IdentityInv, SavingNames, Naming
  <2>4. meInfo'.uuid \notin Procs
    BY <1>4, NamesAssumption
    DEF OpenMeInfo, DiskStep, openMeInfo, TornInfo, Info, NamesAssumption, Markers
  <2> QED  BY <2>1, <2>2, <2>3, <2>4, RunNames
<1>5. CASE WriteMeInfo(p)
  <2>1. Sends(p, {})  BY <1>5, QuietFacts DEF WriteMeInfo, DiskStep
  <2>2. /\ UNCHANGED <<registry, clientName, clientId>> /\ pc[p] = "writeMeInfo"
        /\ pc'[p] = "openPrivKey" /\ \A q \in Procs \ {p} : pc'[q] = pc[q]
    BY <1>5 DEF WriteMeInfo, DiskStep, ClientTypeOK, authVars, jobVars, serverVars
  <2>3. registered(clientId[p], clientName[p])
    BY <2>2 DEF IdentityInv, SavingNames, Naming
  <2>4. meInfo'.uuid \in Procs =>
            meInfo'.uuid = clientId[p] /\ meInfo'.name = clientName[p]
    BY <1>5, NamesAssumption
    DEF WriteMeInfo, DiskStep, writeMeInfo, tearMeInfo, TornInfo, Info,
        NamesAssumption, Markers
  <2> QED  BY <2>1, <2>2, <2>3, <2>4, RunNames DEF Naming
<1>6. CASE SendKey(p)
  <2>1. clientId[p] \in Procs /\ privateKey[p] \in Procs /\ clientName[p] \in Names
    BY <1>6, PointFacts DEF SendKey, inHand, Saving
  <2> DEFINE request == buildPublicKeyExchange(clientId[p], clientName[p], privateKey[p])
  <2>2. request \in Request  BY <2>1, RequestTypes
  <2>3. Send(p, request, "awaitAesKey", inbound[p])  BY <1>6 DEF SendKey
  <2>4. requestNames(p, request)
    BY DEF requestNames, buildPublicKeyExchange, clientRequest, Reconnect,
           Registration, SendPublicKey
  <2> HIDE DEF request
  <2>5. /\ Sends(p, {request}) /\ UNCHANGED diskVars
        /\ pc'[p] \in {"awaitAesKey", "failed"}
        /\ \A q \in Procs \ {p} : pc'[q] = pc[q]
    BY <2>2, <2>3, SendFacts
  <2>6. UNCHANGED <<registry, clientName, clientId, meInfo>>
    BY <1>6, <2>5 DEF SendKey, authVars, jobVars, diskVars, serverVars
  <2> QED  BY <2>4, <2>5, <2>6, OtherMoves DEF Naming
<1> QED  BY <1>1, <1>2, <1>3, <1>4, <1>5, <1>6

\* Once it has registered or reconnected, a run sends no names and keeps the disk.
LEMMA TransferNames ==
    ASSUME TypeInv, IdentityInv, NEW p \in Procs, UNCHANGED serverVars,
           \/ ReceiveReconnectRejected(p) \/ ReceiveReconnectApproved(p)
           \/ ReceiveAesKey(p) \/ ReceiveConfirmation(p) \/ ReceiveAbortAck(p)
           \/ ReceiveResponseFails(p)
           \/ CheckAesKey(p) \/ PrepareFile(p) \/ AllFilesSent(p)
           \/ TransmitFile(p) \/ ContentSizeMismatch(p)
           \/ ConfirmCrc(p) \/ RequestRetry(p) \/ AbortTransfer(p)
    PROVE  IdentityInv'
<1> USE Parts DEF At, Goto
<1>1. CASE \/ ReceiveReconnectRejected(p) \/ ReceiveReconnectApproved(p)
           \/ ReceiveAesKey(p) \/ ReceiveConfirmation(p)
  <2>1. \E point, code, next :
           Receive(p, point, code, next)
             /\ next \in {"removeMeInfo", "authenticated", "nextFile"}
    BY <1>1 DEF ReceiveReconnectRejected, ReceiveReconnectApproved, ReceiveAesKey,
                ReceiveKey, ReceiveConfirmation
  <2>2. /\ responseArrived(p) /\ receive(p) /\ UNCHANGED diskVars
        /\ pc'[p] \in {"removeMeInfo", "authenticated", "nextFile"}
        /\ \A q \in Procs \ {p} : pc'[q] = pc[q]
    BY <2>1 DEF Receive, Received, ClientTypeOK
  <2>3. Sends(p, {})  BY <2>2, QuietFacts
  <2>4. UNCHANGED <<registry, clientName, clientId, meInfo>>
    BY <1>1, <2>2
    DEF ReceiveReconnectRejected, ReceiveReconnectApproved, ReceiveAesKey, ReceiveKey,
        ReceiveConfirmation, authVars, jobVars, diskVars, serverVars
  <2> QED  BY <2>2, <2>3, <2>4, OtherMoves DEF Naming
<1>2. CASE \/ ReceiveAbortAck(p) \/ ReceiveResponseFails(p) \/ CheckAesKey(p)
           \/ PrepareFile(p) \/ AllFilesSent(p) \/ ContentSizeMismatch(p)
  <2>1. Sends(p, {})
    BY <1>2, QuietFacts
    DEF ReceiveAbortAck, ReceiveResponseFails, CheckAesKey, PrepareFile, AllFilesSent,
        ContentSizeMismatch, Exit
  <2>2. /\ UNCHANGED <<registry, clientName, clientId, meInfo>>
        /\ pc'[p] \notin Naming \cup {"idle"} /\ \A q \in Procs \ {p} : pc'[q] = pc[q]
    BY <1>2
    DEF ReceiveAbortAck, ReceiveResponseFails, CheckAesKey, PrepareFile, AllFilesSent,
        ContentSizeMismatch, Exit, Naming, ClientTypeOK, authVars, jobVars, diskVars,
        serverVars
  <2> QED  BY <2>1, <2>2, OtherMoves
<1>3. CASE TransmitFile(p) \/ ConfirmCrc(p) \/ RequestRetry(p) \/ AbortTransfer(p)
  <2>1. /\ currentFile(p) \in Paths /\ clientId[p] \in Procs \cup {Nil}
        /\ aesKey[p] \in Procs
    <3>1. pc[p] \in Transferring
      BY <1>3 DEF TransmitFile, ConfirmCrc, RequestRetry, AbortTransfer, CrcArrived,
                  Received, Transferring
    <3>2. fileIndex[p] \in 1..Len(files[p]) /\ files[p] \in Seq(Paths)
      BY <3>1 DEF inHand, ClientTypeOK
    <3> QED  BY <3>1, <3>2 DEF inHand, currentFile, ClientTypeOK
  <2>2. UNCHANGED <<registry, clientName, clientId>>
    BY <1>3
    DEF TransmitFile, ConfirmCrc, RequestRetry, AbortTransfer, AnswerCrc, authVars,
        jobVars, serverVars
  <2>3. ASSUME NEW request \in Request, requestNames(p, request), NEW unread,
               NEW next \in {"sendFile", "awaitCrc", "awaitConfirmation", "awaitAbort"},
               Range(unread) \subseteq Range(inbound[p]),
               Send(p, request, next, unread)
        PROVE  IdentityInv'
    <3>1. /\ Sends(p, {request}) /\ pc'[p] \in {next, "failed"} /\ UNCHANGED diskVars
          /\ \A q \in Procs \ {p} : pc'[q] = pc[q]
      BY <2>3, SendFacts
    <3>2. pc'[p] \notin Naming \cup {"idle"} /\ UNCHANGED meInfo
      BY <3>1 DEF Naming, diskVars
    <3> QED  BY <2>2, <2>3, <3>1, <3>2, OtherMoves
  <2>4. CASE TransmitFile(p)
    <3> DEFINE request == buildSendFile(clientId[p], currentFile(p), aesKey[p])
    <3>1. request \in Request /\ requestNames(p, request)
      BY <2>1, FileRequestTypes, FileRequestNames
    <3>2. Send(p, request, "awaitCrc", inbound[p])  BY <2>4 DEF TransmitFile
    <3> HIDE DEF request
    <3> QED  BY <2>3, <3>1, <3>2
  <2>5. CASE ConfirmCrc(p) \/ RequestRetry(p) \/ AbortTransfer(p)
    <3>1. Range(Tail(inbound[p])) \subseteq Range(inbound[p])
      BY <2>5, RangeFacts
      DEF ConfirmCrc, RequestRetry, AbortTransfer, CrcArrived, Received,
          responseArrived, NetTypeOK
    <3>2. PICK code \in {CrcValid, CrcInvalidRetry, CrcInvalidAbort},
               next \in {"sendFile", "awaitConfirmation", "awaitAbort"} :
              AnswerCrc(p, code, next)
      BY <2>5 DEF ConfirmCrc, RequestRetry, AbortTransfer
    <3> DEFINE request == buildCrcStatus(clientId[p], code, currentFile(p))
    <3>3. request \in Request /\ requestNames(p, request)
      BY <2>1, FileRequestTypes, FileRequestNames
    <3>4. Send(p, request, next, Tail(inbound[p]))  BY <3>2 DEF AnswerCrc
    <3> HIDE DEF request
    <3> QED  BY <2>3, <3>1, <3>3, <3>4
  <2> QED  BY <1>3, <2>4, <2>5
<1> QED  BY <1>1, <1>2, <1>3

\* Dying and losing the connection lose messages, and invent none.
LEMMA FaultNames ==
    ASSUME TypeInv, IdentityInv, NEW p \in Procs, UNCHANGED serverVars,
           Crash(p) \/ Disconnection(p)
    PROVE  IdentityInv'
<1> USE Parts DEF Goto
<1>1. CASE Crash(p)
  <2>1. Sends(p, {})  BY <1>1, QuietFacts DEF Crash, Exit
  <2>2. /\ UNCHANGED <<registry, clientName, clientId, meInfo>>
        /\ pc'[p] \notin Naming \cup {"idle"} /\ \A q \in Procs \ {p} : pc'[q] = pc[q]
    BY <1>1 DEF Crash, Exit, Naming, ClientTypeOK, authVars, jobVars, diskVars, serverVars
  <2> QED  BY <2>1, <2>2, OtherMoves
<1>2. CASE Disconnection(p)
  <2>1. PICK i \in 0..Len(outbound[p]), j \in 0..Len(inbound[p]) :
            /\ outbound' = [outbound EXCEPT ![p] = SubSeq(@, 1, i)]
            /\ inbound' = [inbound EXCEPT ![p] = SubSeq(@, 1, j)]
    BY <1>2 DEF Disconnection, LinkBreaks
  <2>2. /\ Range(SubSeq(outbound[p], 1, i)) \subseteq Range(outbound[p])
        /\ Range(SubSeq(inbound[p], 1, j)) \subseteq Range(inbound[p])
    BY RangeFacts DEF NetTypeOK
  <2>3. Sends(p, {})  BY <2>1, <2>2 DEF Sends, NetTypeOK
  <2>4. UNCHANGED <<registry, clientName, clientId, meInfo, pc>>
    BY <1>2 DEF Disconnection, authVars, jobVars, diskVars, serverVars
  <2> QED  BY <2>3, <2>4, RunNames DEF IdentityInv, SavingNames, DiskNames
<1> QED  BY <1>1, <1>2

-----------------------------------------------------------------------------
(* The steps of the server *)

\* A response that assigns no ID, from a server that changes no name.
LEMMA ResponseNamesKept ==
    ASSUME TypeInv, IdentityInv, NEW c \in Procs, outbound[c] # <<>>,
           NEW m \in Response, Respond(c, m), responseNames(c, m)',
           UNCHANGED <<pc, clientName, clientId, meInfo>>,
           \A u \in Procs : \/ registry'[u].name = registry[u].name
                            \/ /\ u = c /\ pc[c] # "idle"
                               /\ registry'[c].name = clientName[c]
    PROVE  IdentityInv'
<1> USE Parts
<1>1. /\ \A q \in Procs : Range(outbound'[q]) \subseteq Range(outbound[q])
      /\ \A q \in Procs : Range(inbound'[q]) \subseteq Range(inbound[q])
                            \cup (IF q = c THEN {m} ELSE {})
  <2>1. Range(Tail(outbound[c])) \subseteq Range(outbound[c])
    BY RangeFacts DEF NetTypeOK
  <2>2. Range(Append(inbound[c], m)) = Range(inbound[c]) \cup {m}
    BY RangeFacts DEF NetTypeOK
  <2> QED  BY <2>1, <2>2 DEF Respond, NetTypeOK
<1>2. ASSUME NEW u \in Procs \cup {Nil}, NEW name, registered(u, name), u \in Procs
      PROVE  registered(u, name)'
  BY <1>2, NamesAssumption
  DEF registered, IdentityInv, RegistryNames, NamesAssumption, Markers
<1>3. FreshClients'
  <2> SUFFICES ASSUME NEW q \in Procs, pc[q] = "idle"
               PROVE  Range(outbound'[q]) = {} /\ registry'[q].name = Nil
    BY DEF FreshClients
  <2>1. Range(outbound[q]) = {} /\ registry[q].name = Nil
    BY DEF IdentityInv, FreshClients
  <2>2. Range(outbound'[q]) \subseteq Range(outbound[q])  BY <1>1
  <2> QED  BY <2>1, <2>2
<1>4. RegistryNames'  BY DEF IdentityInv, RegistryNames
<1>5. RequestNames'
  <2> SUFFICES ASSUME NEW q \in Procs, NEW r \in Range(outbound'[q])
               PROVE  requestNames(q, r)'
    BY DEF RequestNames
  <2>1. requestNames(q, r)  BY <1>1 DEF IdentityInv, RequestNames
  <2>2. r \in Request
    <3>1. r \in Range(outbound[q]) /\ outbound[q] \in Seq(Request)
      BY <1>1 DEF NetTypeOK
    <3>2. \A i \in DOMAIN outbound[q] : outbound[q][i] \in Request
      BY <3>1, LenProperties, ElementOfSeq
    <3> QED  BY <3>1, <3>2 DEF Range
  <2>3. r.code = Reconnect => r.id \in Procs  BY <2>2 DEF Request
  <2> QED  BY <1>2, <2>1, <2>3 DEF requestNames
<1>6. ResponseNames'
  <2> SUFFICES ASSUME NEW q \in Procs, NEW r \in Range(inbound'[q])
               PROVE  responseNames(q, r)'
    BY DEF ResponseNames
  <2>1. CASE r \in Range(inbound[q])
    <3>1. responseNames(q, r)  BY <2>1 DEF IdentityInv, ResponseNames
    <3> QED  BY <1>2, <3>1 DEF responseNames
  <2>2. CASE q = c /\ r = m  BY <2>2
  <2> QED  BY <1>1, <2>1, <2>2
<1>7. SavingNames'
  <2> SUFFICES ASSUME NEW q \in Procs, pc[q] \in Naming
               PROVE  registered(clientId[q], clientName[q])'
    BY DEF SavingNames
  <2>1. registered(clientId[q], clientName[q])  BY DEF IdentityInv, SavingNames
  <2>2. clientId[q] \in Procs
    BY DEF TypeInv, ControlOK, inHand, Naming, Saving
  <2> QED  BY <1>2, <2>1, <2>2
<1>8. DiskNames'  BY <1>2 DEF IdentityInv, DiskNames
<1> QED  BY <1>3, <1>4, <1>5, <1>6, <1>7, <1>8 DEF IdentityInv

\* A step of the server that assigns no ID and changes no name.
LEMMA OtherResponses ==
    ASSUME TypeInv, IdentityInv, NEW c \in Procs, outbound[c] # <<>>,
           NEW m \in Response, m.code # RegistrationSuccess, Respond(c, m),
           UNCHANGED <<pc, clientName, clientId, meInfo>>,
           \A u \in Procs : registry'[u].name = registry[u].name
    PROVE  IdentityInv'
BY ResponseNamesKept DEF responseNames

LEMMA FileResponses ==
    ASSUME TypeInv, IdentityInv, NEW c \in Procs,
           NEW content \in Paths \cup {Nil, Garbled}, HandleFile(c, content),
           UNCHANGED <<pc, clientName, clientId, meInfo>>
    PROVE  IdentityInv'
<1> DEFINE m == CrcReply(nextRequest(c).id, CipherSize, content)
<1>1. outbound[c] # <<>> /\ Respond(c, m) /\ UNCHANGED registry
  BY DEF HandleFile, Requested
<1>2. nextRequest(c) \in Request
  BY <1>1, Parts, HeadTailProperties DEF NetTypeOK, nextRequest
<1>3. m \in Response  BY <1>2, ReplyTypes DEF Request
<1>4. m.code # RegistrationSuccess
  BY DEF CrcReply, response, FileReceivedWithCrc, RegistrationSuccess
<1> HIDE DEF m
<1> QED  BY <1>1, <1>3, <1>4, OtherResponses

LEMMA ServerNames ==
    ASSUME TypeInv, IdentityInv, NEW c \in Procs, ServerMoves(c), "faulty" \notin Faults
    PROVE  IdentityInv'
<1> USE Parts
<1>1. UNCHANGED <<pc, clientName, clientId, meInfo>>
  BY DEF ServerMoves, HonestStep, FaultyStep, diskVars, authVars, jobVars
<1>2. ASSUME outbound[c] # <<>>
      PROVE  nextRequest(c) \in Request /\ nextRequest(c) \in Range(outbound[c])
  BY <1>2, HeadTailProperties, RangeFacts DEF NetTypeOK, nextRequest
<1>3. ASSUME NEW code \in ResponseCode \ {RegistrationSuccess},
             NEW id \in Procs \cup {Nil}, outbound[c] # <<>>,
             Respond(c, Reply(code, id)), UNCHANGED registry
      PROVE  IdentityInv'
  <2>1. Reply(code, id) \in Response  BY ReplyTypes
  <2>2. Reply(code, id).code # RegistrationSuccess  BY DEF Reply, response
  <2> QED  BY <1>1, <1>3, <2>1, <2>2, OtherResponses
<1>4. CASE HandleRegistration(c)
  <2> DEFINE m == Reply(RegistrationSuccess, c)
  <2>1. outbound[c] # <<>> /\ nextRequest(c).code = Registration /\ Respond(c, m)
        /\ registry' = [registry EXCEPT ![c].name = nextRequest(c).name]
    BY <1>4 DEF HandleRegistration, Requested
  <2>2. nextRequest(c).name = clientName[c] /\ clientName[c] \in Names
    BY <1>2, <2>1 DEF IdentityInv, RequestNames, requestNames
  <2>3. pc[c] # "idle"
    BY <1>2, <2>1 DEF IdentityInv, FreshClients
  <2>4. \A u \in Procs :
            registry'[u].name = IF u = c THEN clientName[c] ELSE registry[u].name
    BY <2>1, <2>2 DEF ServerTypeOK
  <2>5. m \in Response  BY ResponseCodes, ReplyTypes
  <2>6. responseNames(c, m)'
    BY <1>1, <2>2, <2>4 DEF responseNames, registered, Reply, response
  <2> HIDE DEF m
  <2> QED  BY <1>1, <2>1, <2>3, <2>4, <2>5, <2>6, ResponseNamesKept
<1>5. CASE HandlePublicKey(c)
  <2> DEFINE r == nextRequest(c)
             m == AesReply(AesKeyReceived, r.id, r.pub, c)
  <2>1. outbound[c] # <<>> /\ Respond(c, m)
        /\ registry' = [registry EXCEPT ![r.id].pub = r.pub]
    BY <1>5 DEF HandlePublicKey, Requested
  <2>2. r.id \in Procs \cup {Nil} /\ r.pub \in Procs \cup {Nil}
    BY <1>2, <2>1 DEF Request
  <2>3. m \in Response  BY <2>2, ReplyTypes
  <2>4. m.code # RegistrationSuccess
    BY DEF AesReply, response, AesKeyReceived, RegistrationSuccess
  <2>5. \A u \in Procs : registry'[u].name = registry[u].name
    BY <2>1 DEF ServerTypeOK
  <2> HIDE DEF m
  <2> QED  BY <1>1, <2>1, <2>3, <2>4, <2>5, OtherResponses
<1>6. CASE ApproveReconnect(c)
  <2> DEFINE r == nextRequest(c)
             m == AesReply(ReconnectApproved, r.id, registry[r.id].pub, c)
  <2>1. outbound[c] # <<>> /\ r.code = Reconnect /\ Respond(c, m) /\ UNCHANGED registry
    BY <1>6 DEF ApproveReconnect, Requested, serverVars
  <2>2. r.id \in Procs  BY <1>2, <2>1 DEF Request
  <2>3. registry[r.id].pub \in Procs \cup {Nil}  BY <2>2 DEF ServerTypeOK
  <2>4. m \in Response  BY <2>2, <2>3, ReplyTypes
  <2>5. m.code # RegistrationSuccess
    BY DEF AesReply, response, ReconnectApproved, RegistrationSuccess
  <2> HIDE DEF m
  <2> QED  BY <1>1, <2>1, <2>4, <2>5, OtherResponses
<1>7. CASE RejectReconnect(c)
  <2>1. nextRequest(c).id \in Procs \cup {Nil}
    BY <1>2, <1>7 DEF RejectReconnect, Requested, Request
  <2> QED  BY <1>3, <1>7, <2>1, ResponseCodes DEF RejectReconnect, Requested
<1>8. CASE HandleCrcValid(c) \/ HandleAbort(c)
  <2>1. nextRequest(c).id \in Procs \cup {Nil}
    BY <1>2, <1>8 DEF HandleCrcValid, HandleAbort, Requested, Request
  <2> QED  BY <1>3, <1>8, <2>1, ResponseCodes DEF HandleCrcValid, HandleAbort, Requested
<1>9. CASE HandleRetry(c)
  <2>1. /\ outbound' = [outbound EXCEPT ![c] = Tail(@)]
        /\ UNCHANGED <<inbound, registry>> /\ outbound[c] # <<>>
    BY <1>9 DEF HandleRetry, Done, Requested, serverVars
  <2>2. Range(Tail(outbound[c])) \subseteq Range(outbound[c])
    BY <2>1, RangeFacts DEF NetTypeOK
  <2>3. Sends(c, {})  BY <2>1, <2>2 DEF Sends, NetTypeOK
  <2> QED  BY <1>1, <2>1, <2>3, RunNames DEF IdentityInv, SavingNames, DiskNames
<1>10. CASE outbound[c] # <<>> /\ HandleFile(c, decrypted(c, nextRequest(c)))
  <2>1. decrypted(c, nextRequest(c)) \in Paths \cup {Nil, Garbled}
    BY <1>2, <1>10 DEF decrypted, Request
  <2> QED  BY <1>1, <1>10, <2>1, FileResponses
<1>11. CASE CorruptFile(c)  BY <1>1, <1>11, FileResponses DEF CorruptFile
<1>12. CASE Refuse(c)
  <2>1. PICK code \in {RegistrationFailed, GeneralError} : Respond(c, Reply(code, Nil))
    BY <1>12 DEF Refuse
  <2>2. code \in ResponseCode \ {RegistrationSuccess}  BY <2>1, ResponseCodes
  <2> QED  BY <1>3, <1>12, <2>1, <2>2 DEF Refuse, serverVars
<1> QED  BY <1>4, <1>5, <1>6, <1>7, <1>8, <1>9, <1>10, <1>11, <1>12
         DEF ServerMoves, HonestStep, FaultyStep, ServerStep, Fault

-----------------------------------------------------------------------------
LEMMA IdentityInit == Init => IdentityInv
<1>1. Range(<<>>) = {}  BY DEF Range
<1> QED  BY <1>1, NamesAssumption
         DEF Init, ClientInit, NetInit, DiskInit, ServerInit, NoInfo, Info, IdentityInv,
             FreshClients, RegistryNames, RequestNames, ResponseNames, SavingNames,
             Naming, DiskNames, NamesAssumption, Markers

LEMMA IdentityStep ==
    ASSUME "faulty" \notin Faults
    PROVE  TypeInv /\ IdentityInv /\ [Next]_vars => IdentityInv'
<1> SUFFICES ASSUME TypeInv, IdentityInv, [Next]_vars PROVE IdentityInv'  OBVIOUS
<1>1. ASSUME NEW p \in Procs, ClientMoves(p)  PROVE IdentityInv'
  BY <1>1, LoadNames, AuthenticateNames, RegisterNames, TransferNames, FaultNames
  DEF ClientMoves, ClientStep, RunStep, LoadTransferInfo
<1>2. ASSUME NEW p \in Procs, ServerMoves(p)  PROVE IdentityInv'
  BY <1>2, ServerNames
<1>3. CASE UNCHANGED vars
  BY <1>3
  DEF vars, clientVars, netVars, diskVars, serverVars, IdentityInv, FreshClients,
      RegistryNames, RequestNames, ResponseNames, SavingNames, DiskNames, requestNames,
      responseNames, registered
<1> QED  BY <1>1, <1>2, <1>3 DEF Next, AllDone

LEMMA NamesFollow == TypeInv /\ IdentityInv => IdentityConsistent
<1> SUFFICES ASSUME TypeInv, IdentityInv, NEW p \in Procs,
                    NEW i \in 1..Len(outbound[p]), outbound[p][i].code = Reconnect
             PROVE  registry[outbound[p][i].id].name = outbound[p][i].name
  BY DEF IdentityConsistent
<1>1. outbound[p][i] \in Range(outbound[p])  BY Parts, RangeFacts DEF NetTypeOK
<1> QED  BY <1>1 DEF IdentityInv, RequestNames, requestNames, registered

\* Whatever runs are killed, whichever writes fail and whichever links break, a
\* reconnect request carries the name under which the server knows its ID.
THEOREM IdentityKept ==
    ASSUME "faulty" \notin Faults
    PROVE  Spec => []IdentityConsistent
<1>1. Init => TypeInv /\ IdentityInv  BY TypeInvInit, IdentityInit
<1>2. TypeInv /\ IdentityInv /\ [Next]_vars => (TypeInv /\ IdentityInv)'
  BY TypeInvStep, IdentityStep
<1> QED  BY <1>1, <1>2, NamesFollow, PTL DEF Spec

-----------------------------------------------------------------------------
(* Keys *)

\* The public key of the client with ID u is at the server, or on its way.
announced(u) ==
    \/ registry[u].pub # Nil
    \/ \E m \in Range(outbound[u]) : m.code = SendPublicKey

\* Where a run that has announced its key may stand.
Announcing == {"awaitAesKey"} \cup Authenticated \cup Terminated

\* What the requests and responses under way say about keys.
requestKeys(p, m) == m.code = SendPublicKey => m.id = p /\ m.pub = p
responseKeys(p, m) ==
    /\ m.code = AesKeyReceived => m.aesFor = p /\ m.aes = p
    /\ m.code = ReconnectApproved =>
          m.id \in Procs /\ registry[m.id].pub # Nil /\ m.aesFor = m.id /\ m.aes = p

\* What a run that is running holds and finds on the disk.
runKeys(p) ==
    /\ pc[p] \in Saving \cup {"awaitAesKey"} => clientId[p] = p /\ privateKey[p] = p
    /\ pc[p] \in {"openPrivKey", "writePrivKey", "sendPublicKey"}
          => meInfo.uuid \in {p, Torn}
    /\ pc[p] = "sendPublicKey" => privKey \in {p, Empty, Torn}
    /\ pc[p] = "loadClientInfo" => privKeyOpt[p] = loadPrivateKey
    /\ pc[p] = "awaitReconnect" =>
          /\ clientId[p] \in Procs
          /\ announced(clientId[p]) => privateKey[p] = clientId[p]
agrees(p) == pc[p] \in Authenticated => aesKey[p] = p

\* The invariant: whoever's ID is in me.info, either priv.key holds no other
\* key, or the server has never been told this client's public key, and will
\* not be, and rejects the reconnect.
OneRunning   == \A p, q \in Procs : pc[p] \in Running /\ pc[q] \in Running => p = q
RegistryKeys == \A u \in Procs : registry[u].pub \in {Nil, u}
RequestKeys  == \A p \in Procs : \A m \in Range(outbound[p]) : requestKeys(p, m)
ResponseKeys == \A p \in Procs : \A m \in Range(inbound[p]) : responseKeys(p, m)
AnnouncedRuns == \A u \in Procs : announced(u) => pc[u] \in Announcing
DiskKeys ==
    meInfo.uuid \in Procs =>
        /\ meInfo.key \in {meInfo.uuid, Torn}
        /\ announced(meInfo.uuid) => privKey \in {meInfo.uuid, Torn, Absent, Empty}

KeyInv ==
    /\ OneRunning /\ RegistryKeys /\ RequestKeys /\ ResponseKeys /\ AnnouncedRuns
    /\ DiskKeys /\ \A p \in Procs : runKeys(p) /\ agrees(p)

-----------------------------------------------------------------------------
(* Steps that leave most of the invariant alone *)

KeyPoints == Saving \cup {"awaitAesKey", "loadClientInfo", "awaitReconnect"}

LEMMA KeyPointFacts ==
    /\ KeyPoints \subseteq Running /\ Authenticated \subseteq Announcing
    /\ {"connect", "authenticate", "tryReconnect", "removeMeInfo", "removePrivKey",
        "register", "awaitRegistration"} \cap (KeyPoints \cup Announcing) = {}
    /\ (Authenticated \cup Terminated) \cap KeyPoints = {}
    /\ {"failed", "crashed"} \cap Authenticated = {}
    /\ (Saving \cup {"loadClientInfo", "awaitReconnect"}) \cap Announcing = {}
    /\ KeyPoints \cap Authenticated = {} /\ "awaitAesKey" \in Announcing
    /\ Authenticated \subseteq Running \cup Terminated
BY DEF KeyPoints, Saving, Running, Working, Waiting, acceptedCodes, Authenticated,
       Announcing, Terminated

\* Nothing is announced but by a request to send the public key.
LEMMA AnnouncedBy ==
    ASSUME NEW p \in Procs, NEW M, Sends(p, M), UNCHANGED registry, NEW u \in Procs,
           announced(u)', ~announced(u)
    PROVE  u = p /\ \E m \in M : m.code = SendPublicKey
<1>1. PICK m \in Range(outbound'[u]) : m.code = SendPublicKey  BY DEF announced
<1>2. m \notin Range(outbound[u])  BY <1>1 DEF announced
<1> QED  BY <1>1, <1>2 DEF Sends

\* A step of the only run that is running.
LEMMA RunKeys ==
    ASSUME TypeInv, KeyInv, NEW p \in Procs, NEW M, Sends(p, M),
           \A m \in M : requestKeys(p, m), UNCHANGED registry,
           \A q \in Procs \ {p} :
               pc[q] \notin Running /\ pc'[q] = pc[q] /\ aesKey'[q] = aesKey[q],
           announced(p)' => pc'[p] \in Announcing,
           runKeys(p)', agrees(p)', DiskKeys'
    PROVE  KeyInv'
<1>1. OneRunning'  BY DEF OneRunning
<1>2. RegistryKeys'  BY DEF KeyInv, RegistryKeys
<1>3. RequestKeys'
  BY DEF KeyInv, RequestKeys, requestKeys, Sends
<1>4. ResponseKeys'
  BY DEF KeyInv, ResponseKeys, responseKeys, Sends
<1>5. AnnouncedRuns'
  <2> SUFFICES ASSUME NEW u \in Procs, announced(u)'  PROVE pc'[u] \in Announcing
    BY DEF AnnouncedRuns
  <2>1. CASE u = p  BY <2>1
  <2>2. CASE u # p
    <3>1. announced(u)  BY <2>2, AnnouncedBy
    <3> QED  BY <2>2, <3>1 DEF KeyInv, AnnouncedRuns
  <2> QED  BY <2>1, <2>2
<1>6. ASSUME NEW q \in Procs  PROVE runKeys(q)' /\ agrees(q)'
  <2>1. CASE q = p  BY <2>1
  <2>2. CASE q # p
    <3>1. pc'[q] = pc[q] /\ pc[q] \notin KeyPoints /\ aesKey'[q] = aesKey[q]
      BY <2>2, KeyPointFacts
    <3>2. runKeys(q)'  BY <3>1 DEF runKeys, KeyPoints, Saving
    <3>3. agrees(q)'  BY <3>1 DEF KeyInv, agrees
    <3> QED  BY <3>2, <3>3
  <2> QED  BY <2>1, <2>2
<1> QED  BY <1>1, <1>2, <1>3, <1>4, <1>5, <1>6 DEF KeyInv

\* A step of the running run that announces no key and leaves the disk alone.
LEMMA QuietRunKeys ==
    ASSUME TypeInv, KeyInv, NEW p \in Procs, NEW M, Sends(p, M),
           \A m \in M : m.code # SendPublicKey, UNCHANGED <<registry, diskVars>>,
           pc[p] \in Running,
           \A q \in Procs \ {p} : pc'[q] = pc[q] /\ aesKey'[q] = aesKey[q],
           pc[p] \in Announcing => pc'[p] \in Announcing,
           runKeys(p)', agrees(p)'
    PROVE  KeyInv'
<1>1. \A q \in Procs \ {p} : pc[q] \notin Running  BY DEF KeyInv, OneRunning
<1>2. \A u \in Procs : announced(u)' => announced(u)  BY AnnouncedBy
<1>3. announced(p)' => pc'[p] \in Announcing  BY <1>2 DEF KeyInv, AnnouncedRuns
<1>4. DiskKeys'  BY <1>2 DEF KeyInv, DiskKeys, diskVars
<1>5. \A m \in M : requestKeys(p, m)  BY DEF requestKeys
<1> QED  BY <1>1, <1>3, <1>4, <1>5, RunKeys

\* Messages are lost or handled, nothing else happens.
LEMMA LossKeys ==
    ASSUME TypeInv, KeyInv, NEW p \in Procs, Sends(p, {}),
           UNCHANGED <<registry, diskVars, pc, authVars>>
    PROVE  KeyInv'
<1>1. \A u \in Procs : announced(u)' => announced(u)  BY AnnouncedBy
<1>2. OneRunning' /\ RegistryKeys' /\ \A q \in Procs : agrees(q)'
  BY DEF KeyInv, OneRunning, RegistryKeys, agrees, authVars
<1>3. RequestKeys' /\ ResponseKeys'
  BY DEF KeyInv, RequestKeys, requestKeys, ResponseKeys, responseKeys, Sends
<1>4. AnnouncedRuns'  BY <1>1 DEF KeyInv, AnnouncedRuns
<1>5. DiskKeys'  BY <1>1 DEF KeyInv, DiskKeys, diskVars
<1>6. ASSUME NEW q \in Procs  PROVE runKeys(q)'
  <2>1. runKeys(q)  BY DEF KeyInv
  <2> QED  BY <1>1, <2>1 DEF runKeys, loadPrivateKey, diskVars, authVars
<1> QED  BY <1>2, <1>3, <1>4, <1>5, <1>6 DEF KeyInv

\* A run that moves on without a new key.
LEMMA MoveKeys ==
    ASSUME TypeInv, KeyInv, NEW p \in Procs, NEW M, Sends(p, M),
           \A m \in M : m.code # SendPublicKey, UNCHANGED <<registry, diskVars, aesKey>>,
           pc[p] \in Running, \A q \in Procs \ {p} : pc'[q] = pc[q],
           pc[p] \in Announcing => pc'[p] \in Announcing,
           pc'[p] \in Authenticated => pc[p] \in Authenticated,
           pc'[p] \notin KeyPoints
    PROVE  KeyInv'
<1>1. runKeys(p)'  BY DEF runKeys, KeyPoints, Saving
<1>2. agrees(p)'  BY DEF KeyInv, agrees
<1> QED  BY <1>1, <1>2, QuietRunKeys

\* The same for a step that changes the disk before anything is announced.
LEMMA DiskMoveKeys ==
    ASSUME TypeInv, KeyInv, NEW p \in Procs, UNCHANGED <<netVars, registry, aesKey>>,
           pc[p] \in Running \ Announcing, \A q \in Procs \ {p} : pc'[q] = pc[q],
           pc'[p] \notin Authenticated, runKeys(p)',
           meInfo'.uuid \in Procs =>
               /\ meInfo'.key \in {meInfo'.uuid, Torn}
               /\ announced(meInfo'.uuid) =>
                      privKey' \in {meInfo'.uuid, Torn, Absent, Empty}
    PROVE  KeyInv'
<1>1. Sends(p, {})  BY QuietFacts, Parts
<1>2. \A q \in Procs \ {p} : pc[q] \notin Running  BY DEF KeyInv, OneRunning
<1>3. \A u \in Procs : announced(u)' <=> announced(u)  BY DEF announced, netVars
<1>4. ~announced(p)'  BY <1>3 DEF KeyInv, AnnouncedRuns
<1>5. DiskKeys'  BY <1>3 DEF DiskKeys
<1>6. agrees(p)'  BY DEF agrees
<1> QED  BY <1>1, <1>2, <1>4, <1>5, <1>6, RunKeys

-----------------------------------------------------------------------------
(* The steps of a run *)

LEMMA StartKeys ==
    ASSUME TypeInv, KeyInv, NEW p \in Procs, UNCHANGED serverVars,
           \/ LoadTransferInfo(p) \/ Connect(p) \/ Authenticate(p)
           \/ LoadPrivateKey(p) \/ InvalidCredentials(p)
           \/ RemoveMeInfo(p) \/ RemovePrivKey(p)
    PROVE  KeyInv'
<1> USE Parts, KeyPointFacts, PointFacts DEF At, Goto
<1>1. CASE LoadTransferInfo(p)
  <2>1. /\ pc[p] = "idle" /\ pc'[p] \in {"connect", "failed"}
        /\ UNCHANGED <<netVars, diskVars, aesKey, registry>>
        /\ \A q \in Procs \ {p} : pc'[q] = pc[q] /\ pc[q] \notin Running
    BY <1>1 DEF LoadTransferInfo, loadTransferInfo, ClientTypeOK, authVars, serverVars
  <2>2. Sends(p, {})  BY <2>1, QuietFacts
  <2>3. \A u \in Procs : announced(u)' => announced(u)  BY <2>1, <2>2, AnnouncedBy
  <2>4. ~announced(p)
    BY <2>1 DEF KeyInv, AnnouncedRuns, Announcing, Authenticated, Terminated
  <2>5. runKeys(p)' /\ agrees(p)'
    BY <2>1 DEF runKeys, agrees, Saving, Authenticated
  <2>6. DiskKeys'  BY <2>1, <2>3 DEF KeyInv, DiskKeys, diskVars
  <2> QED  BY <2>1, <2>2, <2>3, <2>4, <2>5, <2>6, RunKeys
<1>2. CASE Connect(p) \/ Authenticate(p) \/ InvalidCredentials(p)
  <2>1. Sends(p, {})
    BY <1>2, QuietFacts DEF Connect, Authenticate, InvalidCredentials
  <2>2. /\ UNCHANGED <<registry, diskVars, aesKey>>
        /\ pc[p] \in {"connect", "authenticate", "loadClientInfo"}
        /\ pc'[p] \in {"authenticate", "failed", "tryReconnect", "register", "removeMeInfo"}
        /\ \A q \in Procs \ {p} : pc'[q] = pc[q]
    BY <1>2
    DEF Connect, Authenticate, InvalidCredentials, ClientTypeOK, authVars, serverVars
  <2>3. pc'[p] \notin KeyPoints \cup Authenticated
    BY <2>2 DEF KeyPoints, Saving, Authenticated
  <2>4. pc[p] \in Running \ Announcing
    BY <2>2 DEF Announcing, Authenticated, Terminated
  <2> QED  BY <2>1, <2>2, <2>3, <2>4, MoveKeys
<1>3. CASE LoadPrivateKey(p)
  <2>1. Sends(p, {})  BY <1>3, QuietFacts DEF LoadPrivateKey
  <2>2. /\ UNCHANGED <<registry, diskVars, aesKey>>
        /\ pc[p] = "tryReconnect" /\ pc'[p] = "loadClientInfo"
        /\ privKeyOpt'[p] = loadPrivateKey
        /\ \A q \in Procs \ {p} : pc'[q] = pc[q]
    BY <1>3 DEF LoadPrivateKey, ClientTypeOK, serverVars
  <2>3. runKeys(p)'  BY <2>2 DEF runKeys, Saving, loadPrivateKey, diskVars
  <2>4. agrees(p)'  BY <2>2 DEF agrees, Authenticated
  <2> QED  BY <2>1, <2>2, <2>3, <2>4, QuietRunKeys
<1>4. CASE RemoveMeInfo(p) \/ RemovePrivKey(p)
  <2>1. /\ UNCHANGED <<netVars, registry, aesKey>>
        /\ pc[p] \in {"removeMeInfo", "removePrivKey"}
        /\ pc'[p] \in {"removePrivKey", "register"}
        /\ \A q \in Procs \ {p} : pc'[q] = pc[q]
    BY <1>4 DEF RemoveMeInfo, RemovePrivKey, DiskStep, ClientTypeOK, authVars, serverVars
  <2>2. pc[p] \in Running \ Announcing /\ pc'[p] \notin KeyPoints \cup Authenticated
    BY <2>1 DEF KeyPoints, Saving, Announcing, Authenticated, Terminated
  <2>3. runKeys(p)'  BY <2>2 DEF runKeys, KeyPoints, Saving
  <2>4. \/ UNCHANGED diskVars \/ meInfo'.uuid = Absent
        \/ UNCHANGED meInfo /\ privKey' = Absent
    BY <1>4 DEF RemoveMeInfo, RemovePrivKey, DiskStep, removeMeInfo, removePrivKey,
                NoInfo, Info
  <2>5. meInfo'.uuid \in Procs =>
            /\ meInfo'.key \in {meInfo'.uuid, Torn}
            /\ announced(meInfo'.uuid) =>
                   privKey' \in {meInfo'.uuid, Torn, Absent, Empty}
    BY <2>4, NamesAssumption
    DEF KeyInv, DiskKeys, diskVars, NamesAssumption, Markers
  <2> QED  BY <2>1, <2>2, <2>3, <2>5, DiskMoveKeys
<1> QED  BY <1>1, <1>2, <1>3, <1>4

\* The key a run reconnects with is that of the ID it reconnects as, if the
\* server can approve it at all.
LEMMA ReconnectKeys ==
    ASSUME TypeInv, KeyInv, NEW p \in Procs, UNCHANGED serverVars, SendReconnect(p)
    PROVE  KeyInv'
<1> USE Parts, KeyPointFacts, PointFacts DEF At, Goto
<1> DEFINE u == meInfo.uuid
           request == buildReconnect(u, reconnectName(p))
<1>1. /\ u \in Procs /\ meInfo.name \in Names
      /\ chosenKey(privKeyOpt[p]) \in Procs /\ pc[p] = "loadClientInfo"
  BY DEF SendReconnect, credentialsLoaded, loadClientInfo, loadPrivateKeyBase64,
         DiskTypeOK
<1>2. request \in Request  BY <1>1, RequestTypes DEF reconnectName
<1>3. Send(p, request, "awaitReconnect", inbound[p])  BY DEF SendReconnect
<1>4. request.code # SendPublicKey
  BY DEF buildReconnect, clientRequest, Reconnect, SendPublicKey
<1> HIDE DEF request
<1>5. /\ Sends(p, {request}) /\ UNCHANGED diskVars
      /\ pc'[p] \in {"awaitReconnect", "failed"}
      /\ \A q \in Procs \ {p} : pc'[q] = pc[q]
  BY <1>2, <1>3, SendFacts
<1>6. /\ UNCHANGED <<registry, aesKey>>
      /\ clientId'[p] = u /\ privateKey'[p] = chosenKey(privKeyOpt[p])
  BY DEF SendReconnect, serverVars, ClientTypeOK
<1>7. announced(u) => chosenKey(privKeyOpt[p]) = u
  <2> SUFFICES ASSUME announced(u)  PROVE chosenKey(privKeyOpt[p]) = u  OBVIOUS
  <2>1. /\ meInfo.key \in {u, Torn} /\ privKey \in {u, Torn, Absent, Empty}
        /\ privKeyOpt[p] = loadPrivateKey
    BY <1>1 DEF KeyInv, DiskKeys, runKeys
  <2> QED  BY <1>1, <2>1, NamesAssumption
           DEF chosenKey, loadPrivateKey, NamesAssumption, Markers
<1>8. \A v \in Procs : announced(v)' => announced(v)
  BY <1>4, <1>5, <1>6, AnnouncedBy
<1>9. runKeys(p)'
  BY <1>1, <1>5, <1>6, <1>7, <1>8 DEF runKeys, Saving
<1>10. agrees(p)' /\ pc[p] \notin Announcing
  BY <1>1, <1>5 DEF agrees, Authenticated, Announcing, Terminated
<1> QED  BY <1>1, <1>4, <1>5, <1>6, <1>9, <1>10, QuietRunKeys

LEMMA RegisterKeys ==
    ASSUME TypeInv, IdentityInv, KeyInv, NEW p \in Procs, UNCHANGED serverVars,
           SendRegistration(p) \/ ReceiveRegistration(p) \/ SendKey(p)
    PROVE  KeyInv'
<1> USE Parts, KeyPointFacts, PointFacts DEF At, Goto
<1>1. CASE SendRegistration(p)
  <2> DEFINE request == buildRegistration(clientName[p])
  <2>1. clientName[p] \in Names /\ pc[p] = "register"  BY <1>1 DEF SendRegistration
  <2>2. request \in Request
    BY <2>1
    DEF buildRegistration, clientRequest, Request, RequestCode, Registration,
        SendPublicKey, Reconnect, SendFile, CrcValid, CrcInvalidRetry, CrcInvalidAbort
  <2>3. Send(p, request, "awaitRegistration", inbound[p])  BY <1>1 DEF SendRegistration
  <2>4. request.code # SendPublicKey
    BY DEF buildRegistration, clientRequest, Registration, SendPublicKey
  <2> HIDE DEF request
  <2>5. /\ Sends(p, {request}) /\ UNCHANGED diskVars
        /\ pc'[p] \in {"awaitRegistration", "failed"}
        /\ \A q \in Procs \ {p} : pc'[q] = pc[q]
    BY <2>2, <2>3, SendFacts
  <2>6. UNCHANGED <<registry, aesKey>>  BY <1>1 DEF SendRegistration, authVars, serverVars
  <2>7. /\ pc'[p] \notin KeyPoints \cup Authenticated /\ pc[p] \notin Announcing
        /\ pc[p] \in Running
    BY <2>1, <2>5 DEF KeyPoints, Saving, Authenticated, Announcing, Terminated
  <2> QED  BY <2>4, <2>5, <2>6, <2>7, MoveKeys
<1>2. CASE ReceiveRegistration(p)
  <2>1. responseArrived(p) /\ nextResponse(p).code = RegistrationSuccess /\ receive(p)
    BY <1>2 DEF ReceiveRegistration, Receive, Received
  <2>2. nextResponse(p) \in Range(inbound[p])
    BY <2>1, RangeFacts DEF responseArrived, nextResponse, NetTypeOK
  <2>3. nextResponse(p).id = p
    BY <2>1, <2>2 DEF IdentityInv, ResponseNames, responseNames
  <2>4. Sends(p, {})  BY <2>1, QuietFacts
  <2>5. /\ UNCHANGED <<registry, diskVars, aesKey>>
        /\ pc[p] = "awaitRegistration" /\ pc'[p] = "openMeInfo"
        /\ clientId'[p] = p /\ privateKey'[p] = p
        /\ \A q \in Procs \ {p} : pc'[q] = pc[q]
    BY <1>2, <2>3
    DEF ReceiveRegistration, Receive, Received, ClientTypeOK, serverVars
  <2>6. runKeys(p)' /\ agrees(p)'
    BY <2>5 DEF runKeys, agrees, Authenticated
  <2> QED  BY <2>4, <2>5, <2>6, QuietRunKeys
<1>3. CASE SendKey(p)
  <2> DEFINE request == buildPublicKeyExchange(clientId[p], clientName[p], privateKey[p])
  <2>1. /\ pc[p] = "sendPublicKey" /\ clientName[p] \in Names
        /\ clientId[p] = p /\ privateKey[p] = p
        /\ meInfo.uuid \in {p, Torn} /\ privKey \in {p, Empty, Torn}
    BY <1>3 DEF SendKey, KeyInv, runKeys, Saving
  <2>2. request \in Request  BY <2>1, RequestTypes
  <2>3. Send(p, request, "awaitAesKey", inbound[p])  BY <1>3 DEF SendKey
  <2>4. requestKeys(p, request)
    BY <2>1 DEF requestKeys, buildPublicKeyExchange, clientRequest
  <2> HIDE DEF request
  <2>5. /\ Sends(p, {request}) /\ UNCHANGED diskVars
        /\ pc'[p] \in {"awaitAesKey", "failed"}
        /\ \A q \in Procs \ {p} : pc'[q] = pc[q]
    BY <2>2, <2>3, SendFacts
  <2>6. UNCHANGED <<registry, authVars>>  BY <1>3 DEF SendKey, serverVars
  <2>7. \A q \in Procs \ {p} : pc[q] \notin Running
    BY <2>1 DEF KeyInv, OneRunning, Saving
  <2>8. pc'[p] \in Announcing /\ agrees(p)'
    BY <2>5 DEF Announcing, Terminated, agrees, Authenticated
  <2>9. runKeys(p)'
    BY <2>1, <2>5, <2>6 DEF runKeys, Saving, authVars
  <2>10. DiskKeys'
    BY <2>1, <2>5, NamesAssumption
    DEF KeyInv, DiskKeys, diskVars, NamesAssumption, Markers
  <2> QED  BY <2>4, <2>5, <2>6, <2>7, <2>8, <2>9, <2>10, RunKeys DEF authVars
<1> QED  BY <1>1, <1>2, <1>3

\* While a run saves its credentials nobody has heard of its key.
LEMMA SaveKeys ==
    ASSUME TypeInv, KeyInv, NEW p \in Procs, UNCHANGED serverVars,
           \/ SaveFails(p) \/ OpenMeInfo(p) \/ WriteMeInfo(p)
           \/ OpenPrivKey(p) \/ WritePrivKey(p)
    PROVE  KeyInv'
<1> USE Parts, KeyPointFacts, PointFacts DEF At, Goto
<1>1. CASE SaveFails(p)
  <2>1. Sends(p, {})  BY <1>1, QuietFacts DEF SaveFails, Exit
  <2>2. /\ UNCHANGED <<registry, diskVars, aesKey>>
        /\ pc[p] \in {"openMeInfo", "openPrivKey"} /\ pc'[p] = "failed"
        /\ \A q \in Procs \ {p} : pc'[q] = pc[q]
    BY <1>1 DEF SaveFails, Exit, ClientTypeOK, authVars, serverVars
  <2>3. pc[p] \in Running /\ pc'[p] \in Announcing /\ pc'[p] \notin KeyPoints
    BY <2>2 DEF Saving, Announcing, Terminated, KeyPoints
  <2> QED  BY <2>1, <2>2, <2>3, MoveKeys
<1>2. ASSUME UNCHANGED <<netVars, authVars>>, pc[p] \in Saving, pc'[p] \in Saving,
             \A q \in Procs \ {p} : pc'[q] = pc[q],
             runKeys(p)',
             \/ meInfo'.uuid \notin Procs
             \/ meInfo'.uuid = p /\ meInfo'.key \in {p, Torn}
      PROVE  KeyInv'
  <2>1. pc[p] \in Running \ Announcing /\ pc'[p] \notin Authenticated
    BY <1>2 DEF KeyPoints
  <2>2. ~announced(p)  BY <2>1 DEF KeyInv, AnnouncedRuns
  <2> QED  BY <1>2, <2>1, <2>2, DiskMoveKeys DEF authVars, serverVars
<1>3. ASSUME pc[p] \in Saving  PROVE clientId[p] = p /\ privateKey[p] = p
  BY <1>3 DEF KeyInv, runKeys
<1>4. CASE OpenMeInfo(p)
  <2>1. /\ UNCHANGED <<netVars, authVars>> /\ pc[p] = "openMeInfo"
        /\ pc'[p] = "writeMeInfo" /\ \A q \in Procs \ {p} : pc'[q] = pc[q]
        /\ meInfo'.uuid = Torn
    BY <1>4 DEF OpenMeInfo, DiskStep, openMeInfo, TornInfo, Info, ClientTypeOK
  <2>2. meInfo'.uuid \notin Procs
    BY <2>1, NamesAssumption DEF NamesAssumption, Markers
  <2>3. runKeys(p)'  BY <1>3, <2>1 DEF runKeys, Saving, authVars
  <2> QED  BY <1>2, <2>1, <2>2, <2>3 DEF Saving
<1>5. CASE WriteMeInfo(p)
  <2>1. /\ UNCHANGED <<netVars, authVars>> /\ pc[p] = "writeMeInfo"
        /\ pc'[p] = "openPrivKey" /\ \A q \in Procs \ {p} : pc'[q] = pc[q]
    BY <1>5 DEF WriteMeInfo, DiskStep, ClientTypeOK
  <2>2. clientId[p] = p /\ privateKey[p] = p  BY <1>3, <2>1 DEF Saving
  <2>3. \/ meInfo'.uuid = Torn
        \/ meInfo'.uuid = p /\ meInfo'.key \in {p, Torn}
    BY <1>5, <2>2 DEF WriteMeInfo, DiskStep, writeMeInfo, tearMeInfo, TornInfo, Info
  <2>4. runKeys(p)'  BY <2>1, <2>2, <2>3 DEF runKeys, Saving, authVars
  <2> QED  BY <1>2, <2>1, <2>3, <2>4, NamesAssumption DEF Saving, NamesAssumption, Markers
<1>6. CASE OpenPrivKey(p) \/ WritePrivKey(p)
  <2>1. /\ UNCHANGED <<netVars, authVars, meInfo>>
        /\ \/ pc[p] = "openPrivKey" /\ pc'[p] = "writePrivKey"
           \/ pc[p] = "writePrivKey" /\ pc'[p] = "sendPublicKey"
        /\ \A q \in Procs \ {p} : pc'[q] = pc[q]
    BY <1>6 DEF OpenPrivKey, WritePrivKey, DiskStep, openPrivKey, writePrivKey,
                tearPrivKey, ClientTypeOK
  <2>2. pc[p] \in Saving /\ pc'[p] \in Saving  BY <2>1 DEF Saving
  <2>3. clientId[p] = p /\ privateKey[p] = p /\ meInfo.uuid \in {p, Torn}
    BY <1>3, <2>1, <2>2 DEF KeyInv, runKeys
  <2>4. pc'[p] = "sendPublicKey" => privKey' \in {p, Empty, Torn}
    BY <1>6, <2>1, <2>3 DEF OpenPrivKey, WritePrivKey, DiskStep, writePrivKey, tearPrivKey
  <2>5. runKeys(p)'
    BY <2>1, <2>3, <2>4 DEF runKeys, Saving, authVars
  <2>6. \/ meInfo'.uuid \notin Procs
        \/ meInfo'.uuid = p /\ meInfo'.key \in {p, Torn}
    BY <2>1, <2>3, NamesAssumption DEF KeyInv, DiskKeys, NamesAssumption, Markers
  <2> QED  BY <1>2, <2>1, <2>2, <2>5, <2>6
<1> QED  BY <1>1, <1>4, <1>5, <1>6

\* The key of an approved reconnect, or of a key exchange, decrypts to the
\* session key.
LEMMA ReceiveKeys ==
    ASSUME TypeInv, KeyInv, NEW p \in Procs, UNCHANGED serverVars,
           ReceiveReconnectApproved(p) \/ ReceiveAesKey(p)
    PROVE  KeyInv'
<1> USE Parts, KeyPointFacts, PointFacts DEF At, Goto
<1> DEFINE m == nextResponse(p)
<1>1. PICK point \in {"awaitReconnect", "awaitAesKey"},
           code \in {AesKeyReceived, ReconnectApproved} :
          /\ ReceiveKey(p, point, code)
          /\ point = "awaitReconnect" <=> code = ReconnectApproved
  BY DEF ReceiveReconnectApproved, ReceiveAesKey, AesKeyReceived, ReconnectApproved
<1>2. /\ responseArrived(p) /\ receive(p) /\ m.code = code /\ pc[p] = point
      /\ m.id = clientId[p]
  BY <1>1
  DEF ReceiveKey, Receive, Received, Valid, AesKeyReceived, ReconnectApproved,
      RegistrationSuccess, ReconnectRejected
<1>3. m \in Range(inbound[p])
  BY <1>2, RangeFacts DEF responseArrived, nextResponse, NetTypeOK
<1>4. responseKeys(p, m)  BY <1>3 DEF KeyInv, ResponseKeys
<1>5. m.aesFor = privateKey[p] /\ m.aes = p
  <2>1. CASE point = "awaitAesKey"
    <3>1. privateKey[p] = p  BY <1>2, <2>1 DEF KeyInv, runKeys
    <3> QED  BY <1>1, <1>2, <1>4, <2>1, <3>1 DEF responseKeys
  <2>2. CASE point = "awaitReconnect"
    <3>1. announced(clientId[p])
      BY <1>1, <1>2, <1>4, <2>2 DEF responseKeys, announced
    <3>2. privateKey[p] = clientId[p]  BY <1>2, <2>2, <3>1 DEF KeyInv, runKeys
    <3> QED  BY <1>1, <1>2, <1>4, <2>2, <3>2 DEF responseKeys
  <2> QED  BY <1>1, <2>1, <2>2
<1>6. decryptAesKey(privateKey[p], m) = p  BY <1>5 DEF decryptAesKey
<1> HIDE DEF m
<1>7. /\ UNCHANGED <<registry, diskVars>> /\ pc'[p] = "authenticated" /\ aesKey'[p] = p
      /\ \A q \in Procs \ {p} : pc'[q] = pc[q] /\ aesKey'[q] = aesKey[q]
  BY <1>1, <1>6 DEF ReceiveKey, Receive, ClientTypeOK, serverVars, m
<1>8. runKeys(p)' /\ agrees(p)' /\ pc'[p] \in Announcing
  BY <1>7 DEF runKeys, agrees, Saving, Announcing, Authenticated
<1>9. Sends(p, {}) /\ pc[p] \in Running
  BY <1>1, <1>2, QuietFacts DEF KeyPoints
<1> QED  BY <1>7, <1>8, <1>9, QuietRunKeys

\* Everything else a run receives, and everything it does with its files.
LEMMA TransferKeys ==
    ASSUME TypeInv, KeyInv, NEW p \in Procs, UNCHANGED serverVars,
           \/ ReceiveReconnectRejected(p) \/ ReceiveConfirmation(p)
           \/ ReceiveAbortAck(p) \/ ReceiveResponseFails(p)
           \/ CheckAesKey(p) \/ PrepareFile(p) \/ AllFilesSent(p)
           \/ TransmitFile(p) \/ ContentSizeMismatch(p)
           \/ ConfirmCrc(p) \/ RequestRetry(p) \/ AbortTransfer(p)
    PROVE  KeyInv'
<1> USE Parts, KeyPointFacts, PointFacts DEF At, Goto
<1>1. ASSUME NEW point \in Authenticated \cup {"failed"}, NEW M, Sends(p, M),
             \A m \in M : m.code # SendPublicKey, UNCHANGED <<registry, diskVars, aesKey>>,
             pc[p] \in Running, point = "failed" \/ pc[p] \in Authenticated,
             pc' = [pc EXCEPT ![p] = point]
      PROVE  KeyInv'
  <2>1. point \notin KeyPoints /\ point \in Announcing
    BY DEF KeyPoints, Saving, Authenticated, Announcing, Terminated
  <2>2. pc'[p] = point /\ \A q \in Procs \ {p} : pc'[q] = pc[q]
    BY <1>1 DEF ClientTypeOK
  <2> QED  BY <1>1, <2>1, <2>2, MoveKeys
<1>2. UNCHANGED <<registry, aesKey>>
  BY DEF ReceiveReconnectRejected, ReceiveConfirmation, ReceiveAbortAck,
         ReceiveResponseFails, CheckAesKey, PrepareFile, AllFilesSent, TransmitFile,
         ContentSizeMismatch, ConfirmCrc, RequestRetry, AbortTransfer, AnswerCrc,
         authVars, serverVars
<1>3. CASE ReceiveReconnectRejected(p)
  <2>1. /\ responseArrived(p) /\ receive(p) /\ UNCHANGED diskVars
        /\ pc[p] = "awaitReconnect" /\ pc'[p] = "removeMeInfo"
        /\ \A q \in Procs \ {p} : pc'[q] = pc[q]
    BY <1>3 DEF ReceiveReconnectRejected, Receive, Received, ClientTypeOK
  <2>2. Sends(p, {})  BY <2>1, QuietFacts
  <2>3. /\ pc[p] \in Running /\ pc[p] \notin Announcing
        /\ pc'[p] \notin KeyPoints \cup Authenticated
    BY <2>1 DEF KeyPoints, Saving, Authenticated, Announcing, Terminated
  <2> QED  BY <1>2, <2>1, <2>2, <2>3, MoveKeys
<1>4. CASE ReceiveConfirmation(p)
  <2>1. /\ responseArrived(p) /\ receive(p) /\ UNCHANGED diskVars
        /\ pc[p] = "awaitConfirmation" /\ pc' = [pc EXCEPT ![p] = "nextFile"]
    BY <1>4 DEF ReceiveConfirmation, Receive, Received
  <2>2. Sends(p, {})  BY <2>1, QuietFacts
  <2>3. "nextFile" \in Authenticated /\ pc[p] \in Authenticated /\ pc[p] \in Running
    BY <2>1 DEF Authenticated, Transferring
  <2> QED  BY <1>1, <1>2, <2>1, <2>2, <2>3
<1>5. CASE ReceiveAbortAck(p) \/ ReceiveResponseFails(p) \/ ContentSizeMismatch(p)
  <2>1. Sends(p, {})
    BY <1>5, QuietFacts
    DEF ReceiveAbortAck, ReceiveResponseFails, ContentSizeMismatch, Exit
  <2>2. UNCHANGED diskVars /\ pc[p] \in Running /\ pc' = [pc EXCEPT ![p] = "failed"]
    BY <1>5
    DEF ReceiveAbortAck, ReceiveResponseFails, ContentSizeMismatch, Received, Exit,
        Transferring
  <2> QED  BY <1>1, <1>2, <2>1, <2>2
<1>6. CASE CheckAesKey(p) \/ PrepareFile(p) \/ AllFilesSent(p)
  <2>1. Sends(p, {})
    BY <1>6, QuietFacts DEF CheckAesKey, PrepareFile, AllFilesSent, Exit
  <2>2. /\ UNCHANGED diskVars /\ pc[p] \in {"authenticated", "nextFile"}
        /\ \E point \in {"nextFile", "sendFile", "succeeded", "failed"} :
              pc' = [pc EXCEPT ![p] = point]
    BY <1>6 DEF CheckAesKey, PrepareFile, AllFilesSent, Exit
  <2>3. /\ pc[p] \in Authenticated /\ pc[p] \in Running
        /\ {"nextFile", "sendFile", "succeeded"} \subseteq Authenticated
    BY <2>2 DEF Authenticated
  <2> QED  BY <1>1, <1>2, <2>1, <2>2, <2>3
<1>7. CASE TransmitFile(p) \/ ConfirmCrc(p) \/ RequestRetry(p) \/ AbortTransfer(p)
  <2>1. pc[p] \in Transferring
    BY <1>7 DEF TransmitFile, ConfirmCrc, RequestRetry, AbortTransfer, CrcArrived,
                Received, Transferring
  <2>2. /\ currentFile(p) \in Paths /\ clientId[p] \in Procs \cup {Nil}
        /\ aesKey[p] \in Procs
    <3>1. fileIndex[p] \in 1..Len(files[p]) /\ files[p] \in Seq(Paths)
      BY <2>1 DEF inHand, ClientTypeOK
    <3> QED  BY <2>1, <3>1 DEF inHand, currentFile, ClientTypeOK
  <2>3. Transferring \subseteq Authenticated /\ pc[p] \in Running
    BY <2>1 DEF Transferring, Authenticated
  <2>4. ASSUME NEW request \in Request, request.code # SendPublicKey, NEW unread,
               NEW next \in Transferring, Range(unread) \subseteq Range(inbound[p]),
               Send(p, request, next, unread)
        PROVE  KeyInv'
    <3>1. Sends(p, {request}) /\ UNCHANGED diskVars
      BY <2>4, SendFacts
    <3>2. pc' = [pc EXCEPT ![p] = next] \/ pc' = [pc EXCEPT ![p] = "failed"]
      BY <2>4 DEF Send, Exit
    <3> QED  BY <1>1, <1>2, <2>1, <2>3, <2>4, <3>1, <3>2
  <2>5. CASE TransmitFile(p)
    <3> DEFINE request == buildSendFile(clientId[p], currentFile(p), aesKey[p])
    <3>1. request \in Request /\ request.code # SendPublicKey
      BY <2>2, FileRequestTypes DEF buildSendFile, fileRequest, SendFile, SendPublicKey
    <3>2. Send(p, request, "awaitCrc", inbound[p])  BY <2>5 DEF TransmitFile
    <3> HIDE DEF request
    <3> QED  BY <2>4, <3>1, <3>2 DEF Transferring
  <2>6. CASE ConfirmCrc(p) \/ RequestRetry(p) \/ AbortTransfer(p)
    <3>1. Range(Tail(inbound[p])) \subseteq Range(inbound[p])
      BY <2>6, RangeFacts
      DEF ConfirmCrc, RequestRetry, AbortTransfer, CrcArrived, Received,
          responseArrived, NetTypeOK
    <3>2. PICK code \in {CrcValid, CrcInvalidRetry, CrcInvalidAbort},
               next \in Transferring : AnswerCrc(p, code, next)
      BY <2>6 DEF ConfirmCrc, RequestRetry, AbortTransfer, Transferring
    <3> DEFINE request == buildCrcStatus(clientId[p], code, currentFile(p))
    <3>3. request \in Request  BY <2>2, FileRequestTypes
    <3>4. request.code # SendPublicKey
      BY DEF buildCrcStatus, fileRequest, CrcValid, CrcInvalidRetry, CrcInvalidAbort,
             SendPublicKey
    <3>5. Send(p, request, next, Tail(inbound[p]))  BY <3>2 DEF AnswerCrc
    <3> HIDE DEF request
    <3> QED  BY <2>4, <3>1, <3>3, <3>4, <3>5
  <2> QED  BY <1>7, <2>5, <2>6
<1> QED  BY <1>3, <1>4, <1>5, <1>6, <1>7

LEMMA FaultKeys ==
    ASSUME TypeInv, KeyInv, NEW p \in Procs, UNCHANGED serverVars,
           Crash(p) \/ Disconnection(p)
    PROVE  KeyInv'
<1> USE Parts, KeyPointFacts DEF Goto
<1>1. CASE Crash(p)
  <2>1. Sends(p, {})  BY <1>1, QuietFacts DEF Crash, Exit
  <2>2. /\ UNCHANGED <<registry, diskVars, aesKey>> /\ pc[p] \in Running
        /\ pc'[p] = "crashed" /\ \A q \in Procs \ {p} : pc'[q] = pc[q]
    BY <1>1 DEF Crash, Exit, ClientTypeOK, authVars, serverVars
  <2>3. pc'[p] \in Announcing /\ pc'[p] \notin KeyPoints \cup Authenticated
    BY <2>2 DEF Announcing, Terminated, KeyPoints, Saving
  <2> QED  BY <2>1, <2>2, <2>3, MoveKeys
<1>2. CASE Disconnection(p)
  <2>1. PICK i \in 0..Len(outbound[p]), j \in 0..Len(inbound[p]) :
            /\ outbound' = [outbound EXCEPT ![p] = SubSeq(@, 1, i)]
            /\ inbound' = [inbound EXCEPT ![p] = SubSeq(@, 1, j)]
    BY <1>2 DEF Disconnection, LinkBreaks
  <2>2. /\ Range(SubSeq(outbound[p], 1, i)) \subseteq Range(outbound[p])
        /\ Range(SubSeq(inbound[p], 1, j)) \subseteq Range(inbound[p])
    BY RangeFacts DEF NetTypeOK
  <2>3. Sends(p, {})  BY <2>1, <2>2 DEF Sends, NetTypeOK
  <2> QED  BY <1>2, <2>3, LossKeys DEF Disconnection, serverVars
<1> QED  BY <1>1, <1>2

-----------------------------------------------------------------------------
(* The steps of the server *)

\* The server answers, and learns no public key but one that was announced.
LEMMA RespondKeys ==
    ASSUME TypeInv, KeyInv, NEW c \in Procs, outbound[c] # <<>>,
           NEW m \in Response, Respond(c, m), responseKeys(c, m)',
           UNCHANGED <<pc, authVars, diskVars>>,
           \A u \in Procs : \/ registry'[u].pub = registry[u].pub
                            \/ registry'[u].pub = u /\ announced(u)
    PROVE  KeyInv'
<1> USE Parts
<1>1. /\ \A q \in Procs : Range(outbound'[q]) \subseteq Range(outbound[q])
      /\ \A q \in Procs : Range(inbound'[q]) \subseteq Range(inbound[q])
                            \cup (IF q = c THEN {m} ELSE {})
  <2>1. Range(Tail(outbound[c])) \subseteq Range(outbound[c])
    BY RangeFacts DEF NetTypeOK
  <2>2. Range(Append(inbound[c], m)) = Range(inbound[c]) \cup {m}
    BY RangeFacts DEF NetTypeOK
  <2> QED  BY <2>1, <2>2 DEF Respond, NetTypeOK
<1>2. \A u \in Procs : announced(u)' => announced(u)
  BY <1>1 DEF announced
<1>3. RegistryKeys'  BY DEF KeyInv, RegistryKeys
<1>4. \A u \in Procs : registry[u].pub # Nil => registry'[u].pub # Nil
  BY NamesAssumption DEF NamesAssumption, Markers
<1>5. OneRunning' /\ \A q \in Procs : agrees(q)'
  BY DEF KeyInv, OneRunning, agrees, authVars
<1>6. RequestKeys'  BY <1>1 DEF KeyInv, RequestKeys, requestKeys
<1>7. ResponseKeys'
  <2> SUFFICES ASSUME NEW q \in Procs, NEW r \in Range(inbound'[q])
               PROVE  responseKeys(q, r)'
    BY DEF ResponseKeys
  <2>1. CASE r \in Range(inbound[q])
    <3>1. responseKeys(q, r)  BY <2>1 DEF KeyInv, ResponseKeys
    <3> QED  BY <1>4, <3>1 DEF responseKeys
  <2>2. CASE q = c /\ r = m  BY <2>2
  <2> QED  BY <1>1, <2>1, <2>2
<1>8. AnnouncedRuns'  BY <1>2 DEF KeyInv, AnnouncedRuns
<1>9. DiskKeys'  BY <1>2 DEF KeyInv, DiskKeys, diskVars
<1>10. ASSUME NEW q \in Procs  PROVE runKeys(q)'
  <2>1. runKeys(q)  BY DEF KeyInv
  <2> QED  BY <1>2, <2>1 DEF runKeys, loadPrivateKey, diskVars, authVars
<1> QED  BY <1>3, <1>5, <1>6, <1>7, <1>8, <1>9, <1>10 DEF KeyInv

\* A response without a key.
LEMMA KeylessResponses ==
    ASSUME TypeInv, KeyInv, NEW c \in Procs, outbound[c] # <<>>,
           NEW m \in Response, m.code \notin {AesKeyReceived, ReconnectApproved},
           Respond(c, m), UNCHANGED <<pc, authVars, diskVars>>,
           \A u \in Procs : registry'[u].pub = registry[u].pub
    PROVE  KeyInv'
BY RespondKeys DEF responseKeys

LEMMA FileResponseKeys ==
    ASSUME TypeInv, KeyInv, NEW c \in Procs,
           NEW content \in Paths \cup {Nil, Garbled}, HandleFile(c, content),
           UNCHANGED <<pc, authVars, diskVars>>
    PROVE  KeyInv'
<1> DEFINE m == CrcReply(nextRequest(c).id, CipherSize, content)
<1>1. outbound[c] # <<>> /\ Respond(c, m) /\ UNCHANGED registry
  BY DEF HandleFile, Requested
<1>2. nextRequest(c) \in Request
  BY <1>1, Parts, HeadTailProperties DEF NetTypeOK, nextRequest
<1>3. m \in Response  BY <1>2, ReplyTypes DEF Request
<1>4. m.code \notin {AesKeyReceived, ReconnectApproved}
  BY DEF CrcReply, response, FileReceivedWithCrc, AesKeyReceived, ReconnectApproved
<1> HIDE DEF m
<1> QED  BY <1>1, <1>3, <1>4, KeylessResponses

LEMMA ServerKeys ==
    ASSUME TypeInv, KeyInv, NEW c \in Procs, ServerMoves(c), "faulty" \notin Faults
    PROVE  KeyInv'
<1> USE Parts
<1>1. UNCHANGED <<pc, authVars, diskVars>>
  BY DEF ServerMoves, HonestStep, FaultyStep
<1>2. ASSUME outbound[c] # <<>>
      PROVE  nextRequest(c) \in Request /\ nextRequest(c) \in Range(outbound[c])
  BY <1>2, HeadTailProperties, RangeFacts DEF NetTypeOK, nextRequest
<1>3. ASSUME NEW code \in ResponseCode \ {RegistrationSuccess, AesKeyReceived,
                                           ReconnectApproved},
             NEW id \in Procs \cup {Nil}, outbound[c] # <<>>,
             Respond(c, Reply(code, id)), UNCHANGED registry
      PROVE  KeyInv'
  <2>1. Reply(code, id) \in Response  BY ReplyTypes
  <2>2. Reply(code, id).code \notin {AesKeyReceived, ReconnectApproved}
    BY DEF Reply, response
  <2> QED  BY <1>1, <1>3, <2>1, <2>2, KeylessResponses
<1>4. {MessageConfirmed, ReconnectRejected, RegistrationFailed, GeneralError}
        \subseteq ResponseCode \ {RegistrationSuccess, AesKeyReceived, ReconnectApproved}
  BY DEF ResponseCode, RegistrationSuccess, RegistrationFailed, AesKeyReceived,
         MessageConfirmed, ReconnectApproved, ReconnectRejected, GeneralError
<1>5. CASE HandleRegistration(c)
  <2> DEFINE m == Reply(RegistrationSuccess, c)
  <2>1. outbound[c] # <<>> /\ Respond(c, m)
        /\ registry' = [registry EXCEPT ![c].name = nextRequest(c).name]
    BY <1>5 DEF HandleRegistration, Requested
  <2>2. \A u \in Procs : registry'[u].pub = registry[u].pub
    BY <2>1 DEF ServerTypeOK
  <2>3. m \in Response  BY ResponseCodes, ReplyTypes
  <2>4. m.code \notin {AesKeyReceived, ReconnectApproved}
    BY DEF Reply, response, RegistrationSuccess, AesKeyReceived, ReconnectApproved
  <2> HIDE DEF m
  <2> QED  BY <1>1, <2>1, <2>2, <2>3, <2>4, KeylessResponses
<1>6. CASE HandlePublicKey(c)
  <2> DEFINE r == nextRequest(c)
  <2>1. outbound[c] # <<>> /\ r.code = SendPublicKey
        /\ Respond(c, AesReply(AesKeyReceived, r.id, r.pub, c))
        /\ registry' = [registry EXCEPT ![r.id].pub = r.pub]
    BY <1>6 DEF HandlePublicKey, Requested
  <2>2. r.id = c /\ r.pub = c /\ announced(c)
    BY <1>2, <2>1 DEF KeyInv, RequestKeys, requestKeys, announced
  <2>3. PICK m \in Response : m = AesReply(AesKeyReceived, r.id, r.pub, c)
    BY <2>2, ReplyTypes
  <2>4. responseKeys(c, m)'
    BY <2>2, <2>3
    DEF responseKeys, AesReply, response, AesKeyReceived, ReconnectApproved
  <2>5. \A u \in Procs : registry'[u].pub = IF u = c THEN c ELSE registry[u].pub
    BY <2>1, <2>2 DEF ServerTypeOK
  <2> QED  BY <1>1, <2>1, <2>2, <2>3, <2>4, <2>5, RespondKeys
<1>7. CASE ApproveReconnect(c)
  <2> DEFINE r == nextRequest(c)
  <2>1. /\ outbound[c] # <<>> /\ r.code = Reconnect
        /\ Respond(c, AesReply(ReconnectApproved, r.id, registry[r.id].pub, c))
        /\ UNCHANGED registry /\ registry[r.id].pub # Nil
    BY <1>7 DEF ApproveReconnect, Requested, known, serverVars
  <2>2. r.id \in Procs  BY <1>2, <2>1 DEF Request
  <2>3. registry[r.id].pub = r.id  BY <2>1, <2>2 DEF KeyInv, RegistryKeys
  <2>4. PICK m \in Response : m = AesReply(ReconnectApproved, r.id, registry[r.id].pub, c)
    BY <2>2, <2>3, ReplyTypes
  <2>5. responseKeys(c, m)'
    BY <2>1, <2>2, <2>3, <2>4
    DEF responseKeys, AesReply, response, AesKeyReceived, ReconnectApproved
  <2> QED  BY <1>1, <2>1, <2>4, <2>5, RespondKeys
<1>8. CASE RejectReconnect(c)
  <2>1. nextRequest(c).id \in Procs \cup {Nil}
    BY <1>2, <1>8 DEF RejectReconnect, Requested, Request
  <2> QED  BY <1>3, <1>4, <1>8, <2>1 DEF RejectReconnect, Requested
<1>9. CASE HandleCrcValid(c) \/ HandleAbort(c)
  <2>1. nextRequest(c).id \in Procs \cup {Nil}
    BY <1>2, <1>9 DEF HandleCrcValid, HandleAbort, Requested, Request
  <2> QED  BY <1>3, <1>4, <1>9, <2>1 DEF HandleCrcValid, HandleAbort, Requested
<1>10. CASE HandleRetry(c)
  <2>1. /\ outbound' = [outbound EXCEPT ![c] = Tail(@)]
        /\ UNCHANGED <<inbound, registry>> /\ outbound[c] # <<>>
    BY <1>10 DEF HandleRetry, Done, Requested, serverVars
  <2>2. Range(Tail(outbound[c])) \subseteq Range(outbound[c])
    BY <2>1, RangeFacts DEF NetTypeOK
  <2>3. Sends(c, {})  BY <2>1, <2>2 DEF Sends, NetTypeOK
  <2> QED  BY <1>1, <2>1, <2>3, LossKeys
<1>11. CASE outbound[c] # <<>> /\ HandleFile(c, decrypted(c, nextRequest(c)))
  <2>1. decrypted(c, nextRequest(c)) \in Paths \cup {Nil, Garbled}
    BY <1>2, <1>11 DEF decrypted, Request
  <2> QED  BY <1>1, <1>11, <2>1, FileResponseKeys
<1>12. CASE CorruptFile(c)  BY <1>1, <1>12, FileResponseKeys DEF CorruptFile
<1>13. CASE Refuse(c)
  <2>1. PICK code \in {RegistrationFailed, GeneralError} : Respond(c, Reply(code, Nil))
    BY <1>13 DEF Refuse
  <2> QED  BY <1>3, <1>4, <1>13, <2>1 DEF Refuse, serverVars
<1> QED  BY <1>5, <1>6, <1>7, <1>8, <1>9, <1>10, <1>11, <1>12, <1>13
         DEF ServerMoves, HonestStep, FaultyStep, ServerStep, Fault

-----------------------------------------------------------------------------
LEMMA KeyInit == Init => KeyInv
<1> SUFFICES ASSUME Init PROVE KeyInv  OBVIOUS
<1>1. /\ \A p \in Procs : pc[p] = "idle" /\ inbound[p] = <<>> /\ outbound[p] = <<>>
      /\ \A u \in Procs : registry[u].pub = Nil
      /\ meInfo.uuid = Absent
  BY DEF Init, ClientInit, NetInit, ServerInit, DiskInit, NoInfo, Info
<1>2. "idle" \notin Running \cup Authenticated \cup KeyPoints
  BY DEF Running, Working, Waiting, acceptedCodes, Authenticated, KeyPoints, Saving
<1>3. Range(<<>>) = {}  BY DEF Range
<1>4. \A u \in Procs : ~announced(u)  BY <1>1, <1>3 DEF announced
<1>5. DiskKeys  BY <1>1, NamesAssumption DEF DiskKeys, NamesAssumption, Markers
<1>6. \A p \in Procs : runKeys(p) /\ agrees(p)
  BY <1>1, <1>2 DEF runKeys, agrees, KeyPoints, Saving
<1> QED  BY <1>1, <1>2, <1>3, <1>4, <1>5, <1>6
         DEF KeyInv, OneRunning, RegistryKeys, RequestKeys, ResponseKeys, AnnouncedRuns

LEMMA KeyStep ==
    ASSUME "faulty" \notin Faults
    PROVE  TypeInv /\ IdentityInv /\ KeyInv /\ [Next]_vars => KeyInv'
<1> SUFFICES ASSUME TypeInv, IdentityInv, KeyInv, [Next]_vars PROVE KeyInv'  OBVIOUS
<1>1. ASSUME NEW p \in Procs, ClientMoves(p)  PROVE KeyInv'
  BY <1>1, StartKeys, ReconnectKeys, RegisterKeys, SaveKeys, ReceiveKeys, TransferKeys,
     FaultKeys
  DEF ClientMoves, ClientStep, RunStep
<1>2. ASSUME NEW p \in Procs, ServerMoves(p)  PROVE KeyInv'
  BY <1>2, ServerKeys
<1>3. CASE UNCHANGED vars
  BY <1>3
  DEF vars, clientVars, netVars, diskVars, serverVars, KeyInv, OneRunning, RegistryKeys,
      RequestKeys, ResponseKeys, AnnouncedRuns, DiskKeys, requestKeys, responseKeys,
      runKeys, agrees, announced, loadPrivateKey
<1> QED  BY <1>1, <1>2, <1>3 DEF Next, AllDone

\* Whatever runs are killed, whichever writes and removals fail and whichever
\* links break, a run that authenticate lets through holds the session key of
\* its connection: no stale priv.key is ever used with an approved reconnect.
THEOREM KeysAgree ==
    ASSUME "faulty" \notin Faults
    PROVE  Spec => []KeyAgreement
<1> DEFINE Inv == TypeInv /\ IdentityInv /\ KeyInv
<1>1. Inv => KeyAgreement  BY DEF KeyInv, agrees, KeyAgreement
<1>2. Init => Inv  BY TypeInvInit, IdentityInit, KeyInit
<1>3. Inv /\ [Next]_vars => Inv'  BY TypeInvStep, IdentityStep, KeyStep
<1> QED  BY <1>1, <1>2, <1>3, PTL DEF Spec
=============================================================================
