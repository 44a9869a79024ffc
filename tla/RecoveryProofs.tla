--------------------------- MODULE RecoveryProofs ---------------------------
(***************************************************************************)
(* What a run leaves to the runs after it does not hurt them, and an         *)
(* identity that is still good is not thrown away, for every set of runs and *)
(* every kind of fault but a server that answers with whatever it likes.    *)
(***************************************************************************)
EXTENDS TransferProofs

\* A run that has met no fault is on a connection that holds, asks for what it has
\* in hand, and is answered with what it accepts.
rightRequest(p, m) ==
    m.code = SendFile => m.aes = p /\ m.content = currentFile(p)
rightResponse(p, r) ==
    /\ r.code \notin Refusals
    /\ r.payloadSize = expectedPayloadSize(r.code)
    /\ r.code \notin {RegistrationSuccess, ReconnectRejected} => r.id = clientId[p]
    /\ r.code = FileReceivedWithCrc =>
          r.contentSize = CipherSize /\ r.cksum = currentFile(p)
unharmed(p) ==
    /\ socket[p] # "down" /\ pc[p] \notin {"failed", "awaitAbort"}
    /\ \A m \in Range(outbound[p]) : rightRequest(p, m)
    /\ \A r \in Range(inbound[p]) : rightResponse(p, r)

HonestInv == \A p \in Procs : p \notin hit => unharmed(p)

\* A run that is about to replace the credentials on the disk has found that they
\* cannot be used, or that the server has rejected the client they are of.
Discarding == {"removeMeInfo", "removePrivKey", "register", "awaitRegistration",
               "openMeInfo"}
worthless ==
    meInfo.uuid \in Procs /\ privKey = meInfo.uuid => meInfo.uuid \in rejected
discards(p) ==
    /\ pc[p] \in Discarding => worthless
    /\ pc[p] = "writeMeInfo" => meInfo.uuid = Torn
    /\ pc[p] = "awaitReconnect" => clientId[p] = meInfo.uuid
    /\ \A r \in Range(inbound[p]) : r.code = ReconnectRejected => clientId[p] \in rejected

DiscardInv == \A p \in Procs : discards(p)

-----------------------------------------------------------------------------
(* Steps of a run that has met no fault *)

LEMMA SameUnharmed ==
    ASSUME NEW p \in Procs, unharmed(p), view(p)' = view(p)
    PROVE  unharmed(p)'
BY DEF unharmed, rightRequest, rightResponse, currentFile, view

\* Nothing is unread where a run does not wait.
LEMMA NothingUnread ==
    ASSUME TypeInv, NEW p \in Procs, conversation(p), unharmed(p), pc[p] \notin Waiting
    PROVE  inbound[p] = <<>>
<1>1. inbound[p] \in Seq(Response)  BY Parts DEF NetTypeOK
<1>2. \A r \in Range(inbound[p]) : r.code \in Refusals /\ r.code \notin Refusals
  BY QuietWire DEF unharmed, rightResponse
<1>3. Len(inbound[p]) = 0
  <2>1. Len(inbound[p]) # 0 => inbound[p][1] \in Range(inbound[p])
    BY <1>1, RangeFacts
  <2> QED  BY <1>2, <2>1
<1> QED  BY <1>1, <1>3, EmptySeq

\* What arrives is valid.
LEMMA ValidAnswer ==
    ASSUME TypeInv, NEW p \in Procs, conversation(p), unharmed(p), pc[p] \in Waiting,
           responseArrived(p)
    PROVE  /\ Valid(p, nextResponse(p))
           /\ nextResponse(p).code = FileReceivedWithCrc => sizeMatches(p) /\ crcMatches(p)
<1>1. /\ inbound[p] \in Seq(Response) /\ inbound[p] # <<>>
      /\ nextResponse(p) \in Range(inbound[p])
  BY Parts, RangeFacts DEF NetTypeOK, responseArrived, nextResponse
<1>2. rightResponse(p, nextResponse(p))  BY <1>1 DEF unharmed
<1>3. answerTo(p, nextResponse(p))
  BY <1>1, <1>2 DEF rightResponse, conversation, Answers
<1>4. \A point \in Waiting : acceptedCodes[point] \subseteq ResponseCode
  BY DEF Waiting, acceptedCodes, ResponseCode, RegistrationSuccess, GeneralError,
         AesKeyReceived, FileReceivedWithCrc, MessageConfirmed, ReconnectApproved,
         ReconnectRejected
<1> QED  BY <1>2, <1>3, <1>4 DEF rightResponse, answerTo, Valid, sizeMatches, crcMatches

\* A step that writes nothing and leaves nothing unread.
LEMMA QuietStep ==
    ASSUME NEW p \in Procs, unharmed(p), socket'[p] # "down",
           pc'[p] \notin {"failed", "awaitAbort"}, inbound'[p] = <<>>,
           \/ outbound'[p] = <<>>
           \/ /\ outbound'[p] = outbound[p]
              /\ files'[p] = files[p] /\ fileIndex'[p] = fileIndex[p]
    PROVE  unharmed(p)'
<1>1. \A m \in Range(outbound'[p]) : rightRequest(p, m)'
  BY EmptyRange DEF unharmed, rightRequest, currentFile
<1>2. \A r \in Range(inbound'[p]) : rightResponse(p, r)'  BY EmptyRange
<1> QED  BY <1>1, <1>2 DEF unharmed

LEMMA LocalHonest ==
    ASSUME TypeInv, KeyInv, NEW p \in Procs, conversation(p), unharmed(p), p \notin hit',
           \/ LoadTransferInfo(p) \/ Connect(p) \/ Authenticate(p) \/ LoadPrivateKey(p)
           \/ InvalidCredentials(p) \/ RemoveMeInfo(p) \/ RemovePrivKey(p)
           \/ OpenMeInfo(p) \/ WriteMeInfo(p) \/ OpenPrivKey(p) \/ WritePrivKey(p)
           \/ CheckAesKey(p) \/ PrepareFile(p)
    PROVE  unharmed(p)'
<1> USE Parts DEF At, Goto, Fault
<1> SUFFICES /\ socket'[p] # "down" /\ pc'[p] \notin {"failed", "awaitAbort"}
             /\ inbound'[p] = <<>> /\ outbound'[p] = <<>>
  BY QuietStep
<1>1. /\ pc[p] \notin Waiting /\ pc[p] \in {"idle"} \cup (Running \ {"sendFile"})
  BY DEF LoadTransferInfo, loadTransferInfo, Connect, Authenticate, LoadPrivateKey,
         InvalidCredentials, RemoveMeInfo, RemovePrivKey, OpenMeInfo, WriteMeInfo,
         OpenPrivKey, WritePrivKey, DiskStep, CheckAesKey, PrepareFile, Running, Working,
         Waiting, acceptedCodes
<1>2. inbound[p] = <<>> /\ outbound[p] = <<>> /\ socket[p] # "down"
  BY <1>1, NothingUnread, QuietWire DEF unharmed
<1>3. CASE LoadTransferInfo(p) \/ Connect(p)
  BY <1>2, <1>3
  DEF LoadTransferInfo, loadTransferInfo, Connect, connect, ClientTypeOK, NetTypeOK, netVars
<1>4. CASE \/ Authenticate(p) \/ LoadPrivateKey(p) \/ InvalidCredentials(p)
           \/ RemoveMeInfo(p) \/ RemovePrivKey(p)
           \/ OpenMeInfo(p) \/ WriteMeInfo(p) \/ OpenPrivKey(p) \/ WritePrivKey(p)
  BY <1>2, <1>4
  DEF Authenticate, LoadPrivateKey, InvalidCredentials, RemoveMeInfo, RemovePrivKey,
      OpenMeInfo, WriteMeInfo, OpenPrivKey, WritePrivKey, DiskStep, ClientTypeOK, netVars
<1>5. CASE CheckAesKey(p)
  <2>1. isAes256Key(aesKey[p])
    BY <1>5 DEF CheckAesKey, KeyInv, agrees, Authenticated, isAes256Key
  <2> QED  BY <1>2, <1>5, <2>1 DEF CheckAesKey, ClientTypeOK, netVars
<1>6. CASE PrepareFile(p)
  BY <1>2, <1>6 DEF PrepareFile, ClientTypeOK, netVars
<1> QED  BY <1>3, <1>4, <1>5, <1>6

\* A run that has met no fault ends only by being done.
LEMMA EndHonest ==
    ASSUME TypeInv, NEW p \in Procs, conversation(p), unharmed(p), p \notin hit',
           \/ SaveFails(p) \/ AllFilesSent(p) \/ ContentSizeMismatch(p)
           \/ ReceiveAbortAck(p) \/ ReceiveResponseFails(p) \/ Crash(p)
    PROVE  unharmed(p)'
<1> USE Parts DEF Fault
<1>1. CASE AllFilesSent(p)
  <2>1. /\ pc'[p] = "succeeded" /\ socket'[p] = "closed" /\ inbound'[p] = <<>>
        /\ outbound'[p] = outbound[p] /\ UNCHANGED <<files, fileIndex>>
    BY <1>1 DEF AllFilesSent, Exit, Goto, disconnect, ClientTypeOK, NetTypeOK, jobVars
  <2> QED  BY <2>1, QuietStep
<1>2. CASE SaveFails(p) \/ Crash(p)  BY <1>2 DEF SaveFails, Crash
<1>3. CASE ReceiveAbortAck(p)
  BY <1>3 DEF ReceiveAbortAck, Received, At, unharmed
<1>4. CASE ContentSizeMismatch(p)
  BY <1>4, ValidAnswer, AskPoints DEF ContentSizeMismatch, Received, At
<1>5. CASE ReceiveResponseFails(p)
  BY <1>5, ValidAnswer DEF ReceiveResponseFails, receiveFails, unharmed
<1> QED  BY <1>1, <1>2, <1>3, <1>4, <1>5

\* A run that asks for something.
LEMMA HonestAsks ==
    ASSUME TypeInv, NEW p \in Procs, unharmed(p), NEW request \in Request, NEW next,
           next # "failed" /\ next # "awaitAbort", Send(p, request, next, <<>>),
           UNCHANGED <<files, fileIndex>>, rightRequest(p, request)
    PROVE  unharmed(p)'
<1> USE Parts
<1>1. /\ pc'[p] = next /\ socket'[p] = socket[p] /\ inbound'[p] = <<>>
      /\ outbound'[p] = IF socket[p] = "up" THEN Append(outbound[p], request)
                                            ELSE outbound[p]
  BY DEF Send, sendFails, Goto, send, unharmed, ClientTypeOK, NetTypeOK
<1>2. outbound[p] \in Seq(Request)  BY DEF NetTypeOK
<1>3. Range(outbound'[p]) \subseteq Range(outbound[p]) \cup {request}
  BY <1>1, <1>2, RangeFacts
<1>4. \A m \in Range(outbound'[p]) : rightRequest(p, m)'
  BY <1>3 DEF unharmed, rightRequest, currentFile
<1>5. \A r \in Range(inbound'[p]) : rightResponse(p, r)'  BY <1>1, EmptyRange
<1> QED  BY <1>1, <1>4, <1>5 DEF unharmed

LEMMA AskHonest ==
    ASSUME TypeInv, KeyInv, NEW p \in Procs, conversation(p), unharmed(p),
           \/ SendReconnect(p) \/ SendRegistration(p) \/ SendKey(p) \/ TransmitFile(p)
           \/ ConfirmCrc(p) \/ RequestRetry(p) \/ AbortTransfer(p)
    PROVE  unharmed(p)'
<1> USE Parts, AskPoints, DistinctCodes DEF At
<1>1. ASSUME pc[p] \in {"loadClientInfo", "register", "sendPublicKey", "sendFile"}
      PROVE  inbound[p] = <<>>
  BY <1>1, NothingUnread
<1>2. CASE SendReconnect(p)
  <2>1. PICK request \in Request :
        /\ request = buildReconnect(meInfo.uuid, reconnectName(p))
        /\ Send(p, request, "awaitReconnect", <<>>) /\ UNCHANGED <<files, fileIndex>>
    BY <1>1, <1>2, RequestTypes
    DEF SendReconnect, credentialsLoaded, loadClientInfo, DiskTypeOK, reconnectName, jobVars
  <2>2. request.code = Reconnect  BY <2>1, BuiltRequests
  <2> QED  BY <2>1, <2>2, HonestAsks DEF rightRequest, FileCodes
<1>3. CASE SendRegistration(p)
  <2>1. PICK request \in Request :
        /\ request = buildRegistration(clientName[p])
        /\ Send(p, request, "awaitRegistration", <<>>) /\ UNCHANGED <<files, fileIndex>>
    BY <1>1, <1>3, RequestTypes DEF SendRegistration, jobVars
  <2>2. request.code = Registration  BY <2>1, BuiltRequests
  <2> QED  BY <2>1, <2>2, HonestAsks DEF rightRequest, FileCodes
<1>4. CASE SendKey(p)
  <2>1. clientName[p] \in Names /\ clientId[p] \in Procs /\ privateKey[p] \in Procs
    BY <1>4 DEF SendKey, inHand, Saving
  <2>2. PICK request \in Request :
        /\ request = buildPublicKeyExchange(clientId[p], clientName[p], privateKey[p])
        /\ Send(p, request, "awaitAesKey", <<>>) /\ UNCHANGED <<files, fileIndex>>
    BY <1>1, <1>4, <2>1, RequestTypes DEF SendKey, jobVars
  <2>3. request.code = SendPublicKey  BY <2>2, BuiltRequests
  <2> QED  BY <2>2, <2>3, HonestAsks DEF rightRequest, FileCodes
<1>5. CASE TransmitFile(p)
  <2>1. /\ pc[p] = "sendFile" /\ currentFile(p) \in Paths
        /\ clientId[p] \in Procs \cup {Nil} /\ aesKey[p] \in Procs
    BY <1>5 DEF TransmitFile, inHand, Transferring, currentFile, ClientTypeOK
  <2>2. aesKey[p] = p  BY <2>1 DEF KeyInv, agrees, Authenticated
  <2>3. PICK request \in Request :
        /\ request = buildSendFile(clientId[p], currentFile(p), aesKey[p])
        /\ Send(p, request, "awaitCrc", <<>>) /\ UNCHANGED <<files, fileIndex>>
    BY <1>1, <1>5, <2>1, FileRequestTypes DEF TransmitFile, jobVars
  <2>4. request.aes = p /\ request.content = currentFile(p)
    BY <2>2, <2>3 DEF buildSendFile, fileRequest
  <2> QED  BY <2>3, <2>4, HonestAsks DEF rightRequest
<1>6. CASE RequestRetry(p) \/ AbortTransfer(p)
  BY <1>6, ValidAnswer DEF RequestRetry, AbortTransfer, CrcArrived, Received
<1>7. CASE ConfirmCrc(p)
  <2>1. pc[p] = "awaitCrc" /\ Tail(inbound[p]) = <<>>
    BY <1>7, ReceivedAnswer DEF ConfirmCrc, CrcArrived
  <2>2. currentFile(p) \in Paths /\ clientId[p] \in Procs \cup {Nil}
    BY <2>1 DEF inHand, Transferring, currentFile, ClientTypeOK
  <2>3. PICK request \in Request :
        /\ request = buildCrcStatus(clientId[p], CrcValid, currentFile(p))
        /\ Send(p, request, "awaitConfirmation", <<>>) /\ UNCHANGED <<files, fileIndex>>
    BY <1>7, <2>1, <2>2, FileRequestTypes DEF ConfirmCrc, AnswerCrc
  <2>4. request.code = CrcValid  BY <2>3 DEF buildCrcStatus, fileRequest
  <2> QED  BY <2>3, <2>4, HonestAsks DEF rightRequest
<1> QED  BY <1>2, <1>3, <1>4, <1>5, <1>6, <1>7

LEMMA ReceiveHonest ==
    ASSUME TypeInv, NEW p \in Procs, conversation(p), unharmed(p),
           \/ ReceiveReconnectRejected(p) \/ ReceiveReconnectApproved(p)
           \/ ReceiveRegistration(p) \/ ReceiveAesKey(p) \/ ReceiveConfirmation(p)
    PROVE  unharmed(p)'
<1> USE Parts, AskPoints
<1>1. ASSUME NEW point \in Waiting, NEW code, Receive(p, point, code, pc'[p]),
             pc'[p] \notin {"failed", "awaitAbort"}
      PROVE  unharmed(p)'
  <2>1. Tail(inbound[p]) = <<>> /\ outbound[p] = <<>>
    BY <1>1, ReceivedAnswer DEF Receive
  <2>2. socket'[p] = socket[p] /\ inbound'[p] = <<>> /\ outbound'[p] = <<>>
    BY <1>1, <2>1 DEF Receive, receive, NetTypeOK
  <2> QED  BY <1>1, <2>2, QuietStep DEF unharmed
<1>2. ASSUME NEW point, NEW code, NEW next, Receive(p, point, code, next)
      PROVE  pc'[p] = next
  BY <1>2 DEF Receive, Goto, ClientTypeOK
<1> QED
  BY <1>1, <1>2
  DEF ReceiveReconnectRejected, ReceiveReconnectApproved, ReceiveRegistration,
      ReceiveAesKey, ReceiveConfirmation, ReceiveKey

\* The server answers the request of a run that has met no fault.
LEMMA HonestReply ==
    ASSUME TypeInv, NEW c \in Procs, conversation(c), unharmed(c), outbound[c] # <<>>,
           NEW r \in Response, Respond(c, r), UNCHANGED <<pc, files, fileIndex, clientId>>,
           rightResponse(c, r)
    PROVE  unharmed(c)'
<1> USE Parts
<1>1. outbound[c] \in Seq(Request) /\ inbound[c] \in Seq(Response)  BY DEF NetTypeOK
<1>2. /\ socket'[c] = socket[c] /\ outbound'[c] = Tail(outbound[c])
      /\ inbound'[c] \in {Append(inbound[c], r), inbound[c]}
  BY DEF Respond, NetTypeOK
<1>3. /\ Range(outbound'[c]) \subseteq Range(outbound[c])
      /\ Range(inbound'[c]) \subseteq Range(inbound[c]) \cup {r}
  <2>1. Range(Tail(outbound[c])) \subseteq Range(outbound[c])  BY <1>1, RangeFacts
  <2>2. Range(Append(inbound[c], r)) = Range(inbound[c]) \cup {r}  BY <1>1, RangeFacts
  <2> QED  BY <1>2, <2>1, <2>2
<1>4. \A m \in Range(outbound'[c]) : rightRequest(c, m)'
  BY <1>3 DEF unharmed, rightRequest, currentFile
<1>5. \A s \in Range(inbound'[c]) : rightResponse(c, s)'
  BY <1>3 DEF unharmed, rightResponse, currentFile
<1> QED  BY <1>2, <1>4, <1>5 DEF unharmed

LEMMA RightReplies ==
    ASSUME NEW c \in Procs, NEW code \in {RegistrationSuccess, MessageConfirmed, ReconnectRejected},
           NEW id, NEW rsa, NEW key, NEW size, NEW content,
           NEW keyCode \in {AesKeyReceived, ReconnectApproved}
    PROVE  /\ code \in {RegistrationSuccess, ReconnectRejected} \/ id = clientId[c]
              => rightResponse(c, Reply(code, id))
           /\ id = clientId[c] => rightResponse(c, AesReply(keyCode, id, rsa, key))
           /\ id = clientId[c] /\ size = CipherSize /\ content = currentFile(c)
              => rightResponse(c, CrcReply(id, size, content))
BY AcceptedFacts DEF rightResponse, Reply, AesReply, CrcReply, response

LEMMA ServerHonest ==
    ASSUME TypeInv, NEW c \in Procs, conversation(c), unharmed(c), HonestStep(c),
           UNCHANGED <<diskVars, authVars, jobVars>>
    PROVE  unharmed(c)'
<1> USE Parts, DistinctCodes
<1> DEFINE m == nextRequest(c)
<1>1. UNCHANGED <<pc, files, fileIndex, clientId>>
  BY DEF HonestStep, jobVars, authVars
<1>2. outbound[c] # <<>>
  BY DEF HonestStep, ServerStep, HandleRegistration, HandlePublicKey, ApproveReconnect,
         RejectReconnect, HandleCrcValid, HandleRetry, HandleAbort, Requested
<1>3. /\ m \in Request /\ m \in Range(outbound[c]) /\ askedBy(c, m)
  BY <1>2, NextRequest, RangeFacts DEF NetTypeOK, nextRequest
<1>4. rightRequest(c, m) /\ (m.code # Registration => m.id = clientId[c])
  BY <1>3 DEF unharmed, askedBy
<1>5. m.id \in Procs \cup {Nil} /\ m.pub \in Procs \cup {Nil} /\ m.content \in Paths \cup {Nil}
  BY <1>3 DEF Request
<1>6. ASSUME NEW r \in Response, Respond(c, r), rightResponse(c, r)  PROVE unharmed(c)'
  BY <1>1, <1>2, <1>6, HonestReply
<1>7. CASE HandleRegistration(c)
  <2>1. Reply(RegistrationSuccess, c) \in Response  BY ResponseCodes, ReplyTypes
  <2>2. rightResponse(c, Reply(RegistrationSuccess, c))  BY RightReplies
  <2> QED  BY <1>6, <1>7, <2>1, <2>2 DEF HandleRegistration
<1>8. CASE HandlePublicKey(c)
  <2>1. AesReply(AesKeyReceived, m.id, m.pub, c) \in Response  BY <1>5, ReplyTypes
  <2>2. rightResponse(c, AesReply(AesKeyReceived, m.id, m.pub, c))
    BY <1>4, <1>8, RightReplies DEF HandlePublicKey, Requested
  <2> QED  BY <1>6, <1>8, <2>1, <2>2 DEF HandlePublicKey
<1>9. CASE ApproveReconnect(c)
  <2>1. m.id \in Procs /\ m.id = clientId[c]
    BY <1>3, <1>4, <1>9 DEF ApproveReconnect, Requested, Request
  <2>2. registry[m.id].pub \in Procs \cup {Nil}  BY <2>1 DEF ServerTypeOK
  <2>3. AesReply(ReconnectApproved, m.id, registry[m.id].pub, c) \in Response
    BY <2>1, <2>2, ReplyTypes
  <2>4. rightResponse(c, AesReply(ReconnectApproved, m.id, registry[m.id].pub, c))
    BY <2>1, RightReplies
  <2> QED  BY <1>6, <1>9, <2>3, <2>4 DEF ApproveReconnect
<1>10. CASE RejectReconnect(c)
  <2>1. Reply(ReconnectRejected, m.id) \in Response  BY <1>5, ResponseCodes, ReplyTypes
  <2>2. rightResponse(c, Reply(ReconnectRejected, m.id))  BY RightReplies
  <2> QED  BY <1>6, <1>10, <2>1, <2>2 DEF RejectReconnect
<1>11. CASE HandleFile(c, decrypted(c, m))
  <2>1. m.code = SendFile  BY <1>11 DEF HandleFile, Requested
  <2>2. /\ m.id = clientId[c] /\ decrypted(c, m) = currentFile(c)
        /\ decrypted(c, m) \in Paths \cup {Nil, Garbled}
    BY <1>4, <1>5, <2>1 DEF rightRequest, decrypted, FileCodes
  <2>3. CrcReply(m.id, CipherSize, decrypted(c, m)) \in Response
    BY <1>5, <2>2, ReplyTypes
  <2>4. rightResponse(c, CrcReply(m.id, CipherSize, decrypted(c, m)))
    BY <2>2, RightReplies
  <2> QED  BY <1>6, <1>11, <2>3, <2>4 DEF HandleFile
<1>12. CASE HandleCrcValid(c) \/ HandleAbort(c)
  <2>1. m.id = clientId[c] /\ Respond(c, Reply(MessageConfirmed, m.id))
    BY <1>4, <1>12 DEF HandleCrcValid, HandleAbort, Requested
  <2>2. Reply(MessageConfirmed, m.id) \in Response  BY <1>5, ResponseCodes, ReplyTypes
  <2>3. rightResponse(c, Reply(MessageConfirmed, m.id))  BY <2>1, RightReplies
  <2> QED  BY <1>6, <2>1, <2>2, <2>3
<1>13. CASE HandleRetry(c)
  <2>1. /\ outbound'[c] = Tail(outbound[c]) /\ inbound'[c] = inbound[c]
        /\ socket'[c] = socket[c]
    BY <1>13 DEF HandleRetry, Done, NetTypeOK
  <2>2. Range(outbound'[c]) \subseteq Range(outbound[c])
    BY <1>2, <2>1, RangeFacts DEF NetTypeOK
  <2> QED  BY <1>1, <2>1, <2>2 DEF unharmed, rightRequest, rightResponse, currentFile
<1> QED  BY <1>7, <1>8, <1>9, <1>10, <1>11, <1>12, <1>13 DEF HonestStep, ServerStep

-----------------------------------------------------------------------------
(* All steps *)

LEMMA HonestInit == Init => HonestInv
BY EmptyRange DEF Init, ClientInit, NetInit, HonestInv, unharmed

LEMMA HonestNext ==
    ASSUME TypeInv, KeyInv, TransferInv, HonestInv, [Next]_vars, "faulty" \notin Faults
    PROVE  HonestInv'
<1>1. ASSUME NEW p \in Procs, ClientMoves(p) \/ ServerMoves(p)  PROVE HonestInv'
  <2>1. hit \subseteq hit'
    <3>1. \/ hit' = hit \/ \E kind : Fault(kind, p) \/ LoadTransferInfo(p)
      BY <1>1
      DEF ClientMoves, ServerMoves, HonestStep, FaultyStep, ClientStep, RunStep, Connect,
          Authenticate, LoadPrivateKey, SendReconnect, InvalidCredentials,
          ReceiveReconnectRejected, ReceiveReconnectApproved, SendRegistration,
          ReceiveRegistration, SaveFails, OpenMeInfo, WriteMeInfo, OpenPrivKey,
          WritePrivKey, SendKey, ReceiveAesKey, CheckAesKey, PrepareFile, AllFilesSent,
          TransmitFile, ContentSizeMismatch, ConfirmCrc, RequestRetry, AbortTransfer,
          ReceiveConfirmation, ReceiveAbortAck, ReceiveResponseFails, RemoveMeInfo,
          RemovePrivKey, DiskStep, Send, Receive, ReceiveKey, AnswerCrc, NoFault, Crash,
          Disconnection
    <3> QED  BY <3>1 DEF Fault, LoadTransferInfo, loadTransferInfo
  <2> SUFFICES ASSUME NEW q \in Procs, q \notin hit', q \notin hit  PROVE unharmed(q)'
    BY <2>1 DEF HonestInv
  <2>2. unharmed(q) /\ conversation(q)  BY DEF HonestInv, TransferInv
  <2>3. CASE q # p
    BY <1>1, <2>2, <2>3, OthersKeepView, SameUnharmed
  <2>4. CASE q = p /\ ClientMoves(p)
    <3>1. ~Disconnection(p)  BY <2>4 DEF Disconnection, Fault
    <3> QED  BY <2>2, <2>4, <3>1, LocalHonest, EndHonest, AskHonest, ReceiveHonest
             DEF ClientMoves, ClientStep, RunStep
  <2>5. CASE q = p /\ ServerMoves(p)
    <3>1. ~FaultyStep(p)  BY <2>5 DEF FaultyStep, Fault
    <3> QED  BY <2>2, <2>5, <3>1, ServerHonest DEF ServerMoves
  <2> QED  BY <1>1, <2>3, <2>4, <2>5
<1>2. CASE UNCHANGED vars
  <2>1. hit' = hit /\ \A q \in Procs : view(q)' = view(q)
    BY <1>2 DEF vars, clientVars, netVars, serverVars, view
  <2> QED  BY <2>1, SameUnharmed DEF HonestInv
<1> QED  BY <1>1, <1>2 DEF Next, AllDone

-----------------------------------------------------------------------------
(* The credentials on the disk *)

\* The runs that do not take a step see nothing of it but a longer list of
\* rejected clients, and the disk if they are not running.
LEMMA OtherDiscards ==
    ASSUME NEW q \in Procs, discards(q), view(q)' = view(q), rejected \subseteq rejected',
           UNCHANGED diskVars \/ pc[q] \notin Running
    PROVE  discards(q)'
<1>1. pc'[q] = pc[q] /\ inbound'[q] = inbound[q] /\ clientId'[q] = clientId[q]
  BY DEF view
<1>2. CASE UNCHANGED diskVars
  BY <1>1, <1>2 DEF discards, worthless, diskVars
<1>3. CASE pc[q] \notin Running
  <2>1. pc[q] \notin Discarding \cup {"writeMeInfo", "awaitReconnect"}
    BY <1>3 DEF Discarding, Running, Working, Waiting, acceptedCodes
  <2> QED  BY <1>1, <2>1 DEF discards
<1> QED  BY <1>2, <1>3

\* No unread response rejects a run where it does not wait.
LEMMA NoRejection ==
    ASSUME TypeInv, NEW p \in Procs, conversation(p), pc[p] \notin Waiting
    PROVE  \A r \in Range(inbound[p]) : r.code # ReconnectRejected
BY QuietWire, AcceptedFacts

LEMMA DiscardPoints ==
    /\ Discarding \cup {"writeMeInfo", "awaitReconnect"} \subseteq Running
    /\ {"connect", "authenticate", "tryReconnect", "loadClientInfo", "openPrivKey",
        "writePrivKey", "sendPublicKey", "authenticated", "nextFile", "sendFile",
        "awaitAesKey", "awaitCrc", "awaitConfirmation", "awaitAbort"} \cup Terminated
       \subseteq (Running \cup Terminated) \ (Discarding \cup {"writeMeInfo", "awaitReconnect"})
    /\ "awaitReconnect" \notin Discarding /\ "writeMeInfo" \notin Discarding
BY DEF Discarding, Running, Working, Waiting, acceptedCodes, Terminated

\* A run that ends.
LEMMA EndDiscards ==
    ASSUME NEW p \in Procs, pc'[p] \in Terminated, inbound'[p] = <<>>
    PROVE  discards(p)'
<1>1. pc'[p] \notin Discarding \cup {"writeMeInfo", "awaitReconnect"}  BY DiscardPoints
<1> QED  BY <1>1, EmptyRange DEF discards

\* The steps up to the reconnect, its answer, and the removal of what is no good.
LEMMA ReconnectDiscards ==
    ASSUME TypeInv, KeyInv, NEW p \in Procs, conversation(p), discards(p), UNCHANGED serverVars,
           \/ LoadTransferInfo(p) \/ Connect(p) \/ Authenticate(p) \/ LoadPrivateKey(p)
           \/ InvalidCredentials(p) \/ RemoveMeInfo(p) \/ RemovePrivKey(p)
           \/ OpenMeInfo(p) \/ WriteMeInfo(p) \/ OpenPrivKey(p) \/ WritePrivKey(p)
    PROVE  discards(p)'
<1> USE Parts, DiscardPoints, NamesAssumption DEF At, Goto
<1>1. \A r \in Range(inbound'[p]) : r.code # ReconnectRejected
  <2>1. pc[p] \notin Waiting /\ inbound' = inbound
    BY DEF LoadTransferInfo, loadTransferInfo, Connect, connect, Authenticate, LoadPrivateKey,
           InvalidCredentials, RemoveMeInfo, RemovePrivKey, OpenMeInfo, WriteMeInfo,
           OpenPrivKey, WritePrivKey, DiskStep, Waiting, acceptedCodes, netVars
  <2> QED  BY <2>1, NoRejection
<1>2. ASSUME pc'[p] \in {"connect", "authenticate", "tryReconnect", "loadClientInfo",
                         "openPrivKey", "writePrivKey", "sendPublicKey"} \cup Terminated
      PROVE  discards(p)'
  BY <1>1, <1>2 DEF discards
<1>3. ASSUME pc'[p] \in Discarding, worthless'  PROVE discards(p)'
  BY <1>1, <1>3 DEF discards
<1>4. {"removeMeInfo", "removePrivKey", "register"} \subseteq Discarding
  BY DEF Discarding
<1>5. CASE LoadTransferInfo(p) \/ Connect(p) \/ LoadPrivateKey(p)
  BY <1>2, <1>5
  DEF LoadTransferInfo, loadTransferInfo, Connect, LoadPrivateKey, ClientTypeOK, Terminated
<1>6. CASE Authenticate(p)
  <2>1. CASE ~hasClientInfo
    <3>1. pc'[p] = "register" /\ meInfo' = meInfo /\ meInfo.uuid \notin Procs
      BY <1>6, <2>1
      DEF Authenticate, hasClientInfo, ClientTypeOK, diskVars, NamesAssumption, Markers
    <3> QED  BY <1>3, <1>4, <3>1 DEF worthless
  <2>2. CASE hasClientInfo
    BY <1>2, <1>6, <2>2 DEF Authenticate, ClientTypeOK
  <2> QED  BY <2>1, <2>2
<1>7. CASE InvalidCredentials(p)
  <2>1. /\ pc[p] = "loadClientInfo" /\ pc'[p] = "removeMeInfo" /\ UNCHANGED diskVars
        /\ ~credentialsLoaded(p)
    BY <1>7 DEF InvalidCredentials, ClientTypeOK
  <2>2. privKeyOpt[p] = loadPrivateKey  BY <2>1 DEF KeyInv, runKeys
  <2>3. ~(meInfo.uuid \in Procs /\ privKey = meInfo.uuid)
    BY <2>1, <2>2
    DEF credentialsLoaded, loadClientInfo, loadPrivateKeyBase64, chosenKey, loadPrivateKey,
        NamesAssumption, Markers
  <2> QED  BY <1>3, <1>4, <2>1, <2>3 DEF worthless, diskVars
<1>8. CASE RemoveMeInfo(p) \/ RemovePrivKey(p)
  <2>1. /\ pc[p] \in {"removeMeInfo", "removePrivKey"}
        /\ pc'[p] \in {"removePrivKey", "register"} /\ rejected' = rejected
        /\ \/ UNCHANGED diskVars
           \/ meInfo' = NoInfo
           \/ meInfo' = meInfo /\ privKey' = Absent
    BY <1>8
    DEF RemoveMeInfo, RemovePrivKey, DiskStep, ClientTypeOK, removeMeInfo, removePrivKey,
        serverVars
  <2>2. worthless  BY <1>4, <2>1 DEF discards
  <2>3. worthless'
    BY <2>1, <2>2 DEF worthless, diskVars, NoInfo, Info, NamesAssumption, Markers
  <2> QED  BY <1>3, <1>4, <2>1, <2>3
<1>9. CASE OpenMeInfo(p)
  <2>1. pc'[p] = "writeMeInfo" /\ meInfo' = TornInfo
    BY <1>9 DEF OpenMeInfo, DiskStep, openMeInfo, ClientTypeOK
  <2> QED  BY <1>1, <2>1 DEF discards, TornInfo, Info
<1>10. CASE WriteMeInfo(p) \/ OpenPrivKey(p) \/ WritePrivKey(p)
  BY <1>2, <1>10 DEF WriteMeInfo, OpenPrivKey, WritePrivKey, DiskStep, ClientTypeOK
<1> QED  BY <1>5, <1>6, <1>7, <1>8, <1>9, <1>10

\* The steps that send something, or receive it.
LEMMA TalkDiscards ==
    ASSUME TypeInv, NEW p \in Procs, conversation(p), discards(p), UNCHANGED serverVars,
           \/ SendReconnect(p) \/ SendRegistration(p) \/ SendKey(p) \/ TransmitFile(p)
           \/ ConfirmCrc(p) \/ RequestRetry(p) \/ AbortTransfer(p)
           \/ ReceiveReconnectRejected(p) \/ ReceiveReconnectApproved(p)
           \/ ReceiveRegistration(p) \/ ReceiveAesKey(p) \/ ReceiveConfirmation(p)
    PROVE  discards(p)'
<1> USE Parts, DiscardPoints, AskPoints DEF At, Goto
<1>1. ASSUME NEW request, NEW next, NEW unread, Send(p, request, next, unread),
             \A r \in Range(unread) : r.code # ReconnectRejected,
             next \in {"awaitAesKey", "awaitCrc", "awaitConfirmation", "awaitAbort",
                       "sendFile"}
      PROVE  discards(p)'
  <2>1. CASE Exit(p, "failed")
    BY <2>1, EndDiscards DEF Exit, disconnect, ClientTypeOK, NetTypeOK, Terminated
  <2>2. CASE pc'[p] = next /\ inbound'[p] = unread
    BY <1>1, <2>2 DEF discards
  <2> QED  BY <1>1, <2>1, <2>2 DEF Send, ClientTypeOK, NetTypeOK
<1>2. CASE SendReconnect(p)
  <2>1. CASE Exit(p, "failed")
    BY <2>1, EndDiscards DEF Exit, disconnect, ClientTypeOK, NetTypeOK, Terminated
  <2>2. CASE ~Exit(p, "failed")
    <3>1. /\ pc[p] = "loadClientInfo" /\ pc'[p] = "awaitReconnect"
          /\ inbound'[p] = inbound[p] /\ clientId'[p] = meInfo.uuid /\ UNCHANGED diskVars
      BY <1>2, <2>2 DEF SendReconnect, Send, ClientTypeOK, NetTypeOK
    <3> QED  BY <3>1, NoRejection DEF discards, diskVars
  <2> QED  BY <2>1, <2>2
<1>3. CASE SendRegistration(p)
  <2>1. CASE Exit(p, "failed")
    BY <2>1, EndDiscards DEF Exit, disconnect, ClientTypeOK, NetTypeOK, Terminated
  <2>2. CASE ~Exit(p, "failed")
    <3>1. /\ pc[p] = "register" /\ pc'[p] = "awaitRegistration"
          /\ inbound'[p] = inbound[p] /\ UNCHANGED <<diskVars, rejected>>
      BY <1>3, <2>2 DEF SendRegistration, Send, ClientTypeOK, NetTypeOK, serverVars
    <3>2. worthless'  BY <3>1 DEF discards, Discarding, worthless, diskVars
    <3> QED  BY <3>1, <3>2, NoRejection DEF discards
  <2> QED  BY <2>1, <2>2
<1>4. CASE SendKey(p) \/ TransmitFile(p)
  BY <1>1, <1>4, NoRejection DEF SendKey, TransmitFile
<1>5. CASE ConfirmCrc(p) \/ RequestRetry(p) \/ AbortTransfer(p)
  <2>1. Tail(inbound[p]) = <<>>
    BY <1>5, ReceivedAnswer DEF ConfirmCrc, RequestRetry, AbortTransfer, CrcArrived
  <2> QED  BY <1>1, <1>5, <2>1, EmptyRange DEF ConfirmCrc, RequestRetry, AbortTransfer, AnswerCrc
<1>6. ASSUME NEW point \in Waiting, NEW code, NEW next, Receive(p, point, code, next)
      PROVE  /\ pc[p] = point /\ pc'[p] = next /\ inbound'[p] = <<>> /\ UNCHANGED diskVars
             /\ nextResponse(p) \in Range(inbound[p]) /\ nextResponse(p).code = code
  <2>1. Tail(inbound[p]) = <<>>  BY <1>6, ReceivedAnswer DEF Receive
  <2>2. nextResponse(p) \in Range(inbound[p])
    BY <1>6, RangeFacts DEF Receive, Received, responseArrived, nextResponse, NetTypeOK
  <2> QED  BY <1>6, <2>1, <2>2 DEF Receive, Received, receive, ClientTypeOK, NetTypeOK
<1>7. CASE ReceiveReconnectRejected(p)
  <2>1. /\ pc[p] = "awaitReconnect" /\ pc'[p] = "removeMeInfo" /\ inbound'[p] = <<>>
        /\ UNCHANGED <<diskVars, rejected>> /\ clientId[p] \in rejected
    BY <1>6, <1>7 DEF ReceiveReconnectRejected, discards, serverVars
  <2>2. worthless'  BY <2>1 DEF discards, worthless, diskVars
  <2> QED  BY <2>1, <2>2, EmptyRange DEF discards
<1>8. CASE ReceiveRegistration(p)
  <2>1. /\ pc[p] = "awaitRegistration" /\ pc'[p] = "openMeInfo" /\ inbound'[p] = <<>>
        /\ UNCHANGED <<diskVars, rejected>>
    BY <1>6, <1>8 DEF ReceiveRegistration, serverVars
  <2>2. worthless'  BY <2>1 DEF discards, Discarding, worthless, diskVars
  <2> QED  BY <2>1, <2>2, EmptyRange DEF discards
<1>9. CASE ReceiveReconnectApproved(p) \/ ReceiveAesKey(p) \/ ReceiveConfirmation(p)
  <2>1. pc'[p] \in {"authenticated", "nextFile"} /\ inbound'[p] = <<>>
    BY <1>6, <1>9
    DEF ReceiveReconnectApproved, ReceiveAesKey, ReceiveConfirmation, ReceiveKey
  <2> QED  BY <2>1, EmptyRange DEF discards
<1> QED  BY <1>2, <1>3, <1>4, <1>5, <1>7, <1>8, <1>9

LEMMA RestDiscards ==
    ASSUME TypeInv, NEW p \in Procs, conversation(p), discards(p), UNCHANGED serverVars,
           \/ CheckAesKey(p) \/ PrepareFile(p)
           \/ SaveFails(p) \/ AllFilesSent(p) \/ ContentSizeMismatch(p)
           \/ ReceiveAbortAck(p) \/ ReceiveResponseFails(p) \/ Crash(p) \/ Disconnection(p)
    PROVE  discards(p)'
<1> USE Parts, DiscardPoints DEF At, Goto
<1>1. ASSUME NEW verdict \in Terminated, Exit(p, verdict)  PROVE discards(p)'
  BY <1>1, EndDiscards DEF Exit, disconnect, ClientTypeOK, NetTypeOK
<1>2. CASE CheckAesKey(p) \/ PrepareFile(p)
  <2>1. CASE Exit(p, "failed")  BY <1>1, <2>1 DEF Terminated
  <2>2. CASE ~Exit(p, "failed")
    <3>1. /\ pc[p] \in {"authenticated", "nextFile"} /\ pc'[p] \in {"nextFile", "sendFile"}
          /\ inbound'[p] = inbound[p]
      BY <1>2, <2>2 DEF CheckAesKey, PrepareFile, ClientTypeOK, netVars
    <3>2. pc[p] \notin Waiting  BY <3>1 DEF Waiting, acceptedCodes
    <3> QED  BY <3>1, <3>2, NoRejection DEF discards
  <2> QED  BY <2>1, <2>2
<1>3. CASE Disconnection(p)
  <2>1. /\ UNCHANGED <<pc, diskVars, clientId, rejected>>
        /\ \E j \in 0..Len(inbound[p]) : inbound'[p] = SubSeq(inbound[p], 1, j)
    BY <1>3 DEF Disconnection, LinkBreaks, authVars, serverVars, NetTypeOK
  <2>2. Range(inbound'[p]) \subseteq Range(inbound[p])
    BY <2>1, RangeFacts DEF NetTypeOK
  <2> QED  BY <2>1, <2>2 DEF discards, worthless, diskVars
<1> QED
  BY <1>1, <1>2, <1>3
  DEF SaveFails, AllFilesSent, ContentSizeMismatch, ReceiveAbortAck, ReceiveResponseFails,
      Crash, Terminated

LEMMA ServerDiscards ==
    ASSUME TypeInv, NEW c \in Procs, conversation(c), discards(c), ServerMoves(c),
           "faulty" \notin Faults
    PROVE  discards(c)' /\ rejected \subseteq rejected'
<1> USE Parts, DistinctCodes
<1>1. UNCHANGED <<pc, diskVars, clientId>>
  BY DEF ServerMoves, HonestStep, FaultyStep, authVars
<1>2. ASSUME NEW r, Respond(c, r), rejected \subseteq rejected',
             r.code = ReconnectRejected => clientId[c] \in rejected'
      PROVE  discards(c)' /\ rejected \subseteq rejected'
  <2>1. inbound'[c] \in {Append(inbound[c], r), inbound[c]}
    BY <1>2 DEF Respond, NetTypeOK
  <2>2. Range(Append(inbound[c], r)) = Range(inbound[c]) \cup {r}
    <3>1. inbound[c] \in Seq(Response \cup {r})  BY DEF NetTypeOK
    <3> QED  BY <3>1, RangeFacts
  <2>3. Range(inbound'[c]) \subseteq Range(inbound[c]) \cup {r}  BY <2>1, <2>2
  <2> QED  BY <1>1, <1>2, <2>3 DEF discards, worthless, diskVars
<1> DEFINE m == nextRequest(c)
<1>3. outbound[c] # <<>> => m \in Request /\ askedBy(c, m)  BY NextRequest
<1>4. CASE RejectReconnect(c)
  <2>1. /\ m.code = Reconnect /\ Respond(c, Reply(ReconnectRejected, m.id))
        /\ rejected' = rejected \cup {m.id} /\ outbound[c] # <<>>
    BY <1>4 DEF RejectReconnect, Requested
  <2>2. m.id \in Procs  BY <1>3, <2>1 DEF Request
  <2>3. m.id = clientId[c]  BY <1>3, <2>1 DEF askedBy
  <2>4. Reply(ReconnectRejected, m.id) \in Response  BY <2>2, ResponseCodes, ReplyTypes
  <2> QED  BY <1>2, <2>1, <2>3, <2>4
<1>5. CASE HandleRetry(c)
  <2>1. inbound'[c] = inbound[c] /\ rejected' = rejected
    BY <1>5 DEF HandleRetry, Done, serverVars
  <2> QED  BY <1>1, <2>1 DEF discards, worthless, diskVars
<1>6. ASSUME NEW r, Respond(c, r), rejected' = rejected, r.code # ReconnectRejected
      PROVE  discards(c)' /\ rejected \subseteq rejected'
  BY <1>2, <1>6
<1>7. ReconnectRejected \notin {RegistrationSuccess, AesKeyReceived, ReconnectApproved,
                               FileReceivedWithCrc, MessageConfirmed, RegistrationFailed,
                               GeneralError}
  BY DEF RegistrationSuccess, AesKeyReceived, ReconnectApproved, FileReceivedWithCrc,
         MessageConfirmed, RegistrationFailed, GeneralError, ReconnectRejected
<1>8. CASE HandleRegistration(c)
  BY <1>6, <1>7, <1>8, ReplyFacts DEF HandleRegistration
<1>9. CASE HandlePublicKey(c)
  BY <1>6, <1>7, <1>9, ReplyFacts DEF HandlePublicKey
<1>10. CASE ApproveReconnect(c)
  BY <1>6, <1>7, <1>10, ReplyFacts DEF ApproveReconnect, serverVars
<1>11. ASSUME NEW content, HandleFile(c, content)
       PROVE  discards(c)' /\ rejected \subseteq rejected'
  BY <1>6, <1>7, <1>11, ReplyFacts DEF HandleFile
<1>12. CASE HandleCrcValid(c) \/ HandleAbort(c)
  BY <1>6, <1>7, <1>12, ReplyFacts DEF HandleCrcValid, HandleAbort
<1>13. CASE Refuse(c)
  BY <1>6, <1>7, <1>13, ReplyFacts DEF Refuse, serverVars
<1> QED
  BY <1>4, <1>5, <1>8, <1>9, <1>10, <1>11, <1>12, <1>13
  DEF ServerMoves, HonestStep, FaultyStep, ServerStep, CorruptFile, Fault

\* What a step of a run does to the disk.
LEMMA DiskSteps ==
    ASSUME NEW p \in Procs, ClientMoves(p)
    PROVE  \/ UNCHANGED diskVars
           \/ RemoveMeInfo(p) \/ RemovePrivKey(p) \/ OpenMeInfo(p)
           \/ WriteMeInfo(p) \/ OpenPrivKey(p) \/ WritePrivKey(p)
BY DEF ClientMoves, ClientStep, RunStep, LoadTransferInfo, loadTransferInfo, Connect,
       Authenticate, LoadPrivateKey, SendReconnect, InvalidCredentials,
       ReceiveReconnectRejected, ReceiveReconnectApproved, SendRegistration,
       ReceiveRegistration, SaveFails, SendKey, ReceiveAesKey, CheckAesKey, PrepareFile,
       AllFilesSent, TransmitFile, ContentSizeMismatch, ConfirmCrc, RequestRetry,
       AbortTransfer, ReceiveConfirmation, ReceiveAbortAck, ReceiveResponseFails, Send,
       Receive, ReceiveKey, AnswerCrc, Crash, Disconnection

LEMMA DiscardInit == Init => DiscardInv
BY EmptyRange DEF Init, ClientInit, NetInit, DiscardInv, discards, Discarding

LEMMA DiscardNext ==
    ASSUME TypeInv, KeyInv, TransferInv, DiscardInv, [Next]_vars, "faulty" \notin Faults
    PROVE  DiscardInv'
<1>1. ASSUME NEW p \in Procs, ClientMoves(p) \/ ServerMoves(p)  PROVE DiscardInv'
  <2>1. discards(p) /\ conversation(p)  BY DEF DiscardInv, TransferInv
  <2>2. CASE ClientMoves(p)
    <3>1. UNCHANGED serverVars  BY <2>2 DEF ClientMoves
    <3>2. discards(p)'
      BY <2>1, <2>2, <3>1, ReconnectDiscards, TalkDiscards, RestDiscards
      DEF ClientMoves, ClientStep, RunStep
    <3>3. UNCHANGED diskVars \/ \A q \in Procs \ {p} : pc[q] \notin Running
      <4>1. pc[p] \in Running => \A q \in Procs \ {p} : pc[q] \notin Running
        BY DEF KeyInv, OneRunning
      <4>2. UNCHANGED diskVars \/ pc[p] \in Running
        BY <2>2, DiskSteps
        DEF RemoveMeInfo, RemovePrivKey, OpenMeInfo, WriteMeInfo, OpenPrivKey, WritePrivKey,
            DiskStep, At, Running, Working
      <4> QED  BY <4>1, <4>2
    <3> QED  BY <2>2, <3>1, <3>2, <3>3, OthersKeepView, OtherDiscards
             DEF DiscardInv, serverVars
  <2>3. CASE ServerMoves(p)
    <3>1. discards(p)' /\ rejected \subseteq rejected'  BY <2>1, <2>3, ServerDiscards
    <3>2. UNCHANGED diskVars  BY <2>3 DEF ServerMoves
    <3> QED  BY <2>3, <3>1, <3>2, OthersKeepView, OtherDiscards DEF DiscardInv
  <2> QED  BY <1>1, <2>2, <2>3
<1>2. CASE UNCHANGED vars
  <2>1. /\ UNCHANGED <<diskVars, rejected>> /\ \A q \in Procs : view(q)' = view(q)
    BY <1>2 DEF vars, clientVars, netVars, serverVars, view
  <2> QED  BY <2>1, OtherDiscards DEF DiscardInv
<1> QED  BY <1>1, <1>2 DEF Next, AllDone

-----------------------------------------------------------------------------
(* An identity that is good *)

\* The server knows the key of a client only once its run has announced it.
LEMMA KnownHasRun ==
    ASSUME TypeInv, KeyInv, NEW u \in Procs, usable(u)
    PROVE  pc[u] # "idle"
<1>1. registry[u].pub # Nil  BY NamesAssumption DEF usable, NamesAssumption, Markers
<1>2. pc[u] \in Announcing  BY <1>1 DEF KeyInv, AnnouncedRuns, announced
<1>3. pc[u] # "idle"  BY <1>2 DEF Announcing, Authenticated, Terminated
<1> QED  BY <1>3

\* A run makes an identity useless only after the server has rejected it.
LEMMA RunKeepsIdentity ==
    ASSUME TypeInv, KeyInv, DiscardInv, NEW p \in Procs, ClientMoves(p),
           NEW u \in Procs, usable(u), ~usable(u)'
    PROVE  u \in rejected
<1> USE Parts
<1>1. UNCHANGED registry  BY DEF ClientMoves, serverVars
<1>2. discards(p) /\ runKeys(p)  BY DEF DiscardInv, KeyInv
<1>3. meInfo.uuid = u /\ privKey = u /\ pc[u] \notin Running /\ u # Torn
  BY NamesAssumption DEF usable, NamesAssumption, Markers
<1>4. CASE UNCHANGED diskVars
  <2>1. pc[u] \notin Running /\ pc'[u] \in Running
    BY <1>1, <1>3, <1>4 DEF usable, diskVars
  <2>2. u = p  BY <2>1, OthersKeepView DEF view
  <2>3. LoadTransferInfo(p)  BY <2>1, <2>2, RunPoints DEF Terminated, Running, Working, Waiting, acceptedCodes
  <2>4. pc[u] = "idle"  BY <2>2, <2>3 DEF LoadTransferInfo, loadTransferInfo, At
  <2> QED  BY <2>4, KnownHasRun
<1>5. CASE RemoveMeInfo(p) \/ RemovePrivKey(p) \/ OpenMeInfo(p)
  <2>1. pc[p] \in Discarding
    BY <1>5 DEF RemoveMeInfo, RemovePrivKey, OpenMeInfo, DiskStep, At, Discarding
  <2> QED  BY <1>2, <1>3, <2>1 DEF discards, worthless
<1>6. CASE WriteMeInfo(p)
  <2>1. pc[p] = "writeMeInfo"  BY <1>6 DEF WriteMeInfo, DiskStep, At
  <2> QED  BY <1>2, <1>3, <2>1 DEF discards
<1>7. CASE OpenPrivKey(p) \/ WritePrivKey(p)
  <2>1. pc[p] \in {"openPrivKey", "writePrivKey"}
    BY <1>7 DEF OpenPrivKey, WritePrivKey, DiskStep, At
  <2>2. u = p  BY <1>2, <1>3, <2>1 DEF runKeys
  <2> QED  BY <1>3, <2>1, <2>2 DEF Running, Working
<1> QED  BY <1>4, <1>5, <1>6, <1>7, DiskSteps

\* The server has no other key for a client than the first.
LEMMA ServerKeepsIdentity ==
    ASSUME TypeInv, KeyInv, NEW c \in Procs, ServerMoves(c), "faulty" \notin Faults,
           NEW u \in Procs, usable(u)
    PROVE  usable(u)'
<1> USE Parts
<1>1. UNCHANGED <<pc, diskVars>>  BY DEF ServerMoves, HonestStep, FaultyStep
<1>2. registry'[u].pub = registry[u].pub
  <2>1. CASE HandlePublicKey(c)
    <3> DEFINE m == nextRequest(c)
    <3>1. /\ m \in Range(outbound[c]) /\ m.code = SendPublicKey
          /\ registry' = [registry EXCEPT ![m.id].pub = m.pub]
      BY <2>1, RangeFacts
      DEF HandlePublicKey, Requested, nextRequest, NetTypeOK
    <3>2. m.id = c /\ m.pub = c
      BY <3>1 DEF KeyInv, RequestKeys, requestKeys
    <3>3. u = c => registry[u].pub = c  BY DEF usable
    <3> HIDE DEF m
    <3> QED  BY <3>1, <3>2, <3>3 DEF ServerTypeOK
  <2>2. CASE HandleRegistration(c)
    BY <2>2 DEF HandleRegistration, ServerTypeOK
  <2>3. CASE ~HandlePublicKey(c) /\ ~HandleRegistration(c)
    <3>1. registry' = registry
      BY <2>3
      DEF ServerMoves, HonestStep, FaultyStep, ServerStep, ApproveReconnect,
          RejectReconnect, HandleFile, HandleCrcValid, HandleRetry, HandleAbort,
          CorruptFile, Refuse, FaultyReply, serverVars
    <3> QED  BY <3>1
  <2> QED  BY <2>1, <2>2, <2>3
<1> QED  BY <1>1, <1>2 DEF usable, diskVars

-----------------------------------------------------------------------------
(* All of it *)

RunInv == /\ TypeInv /\ IdentityInv /\ KeyInv /\ TransferInv
          /\ HonestInv /\ DiscardInv

LEMMA RunInvariant ==
    ASSUME "faulty" \notin Faults
    PROVE  Spec => []RunInv
<1>1. Init => RunInv
  BY TypeInvInit, IdentityInit, KeyInit, TransferInvInit, HonestInit, DiscardInit DEF RunInv
<1>2. RunInv /\ [Next]_vars => RunInv'
  <2> SUFFICES ASSUME RunInv, [Next]_vars  PROVE RunInv'  OBVIOUS
  <2>1. TypeInv /\ IdentityInv /\ KeyInv /\ TransferInv /\ HonestInv /\ DiscardInv
    BY DEF RunInv
  <2>2. TypeInv' /\ IdentityInv' /\ KeyInv'
    BY <2>1, TypeInvStep, IdentityStep, KeyStep
  <2>3. TransferInv' /\ HonestInv' /\ DiscardInv'
    BY <2>1, TransferInvStep, HonestNext, DiscardNext
  <2> QED  BY <2>2, <2>3 DEF RunInv
<1> QED  BY <1>1, <1>2, PTL DEF Spec

\* A run fails only by a fault of its own: wherever the runs before it were killed
\* or failed, what they left in me.info and priv.key does not make it fail, and
\* neither does anything the client does itself.
THEOREM OnlyFaultsFail ==
    ASSUME "faulty" \notin Faults
    PROVE  Spec => []RunRecovers
<1>1. RunInv => RunRecovers  BY DEF RunInv, HonestInv, unharmed, RunRecovers
<1> QED  BY <1>1, RunInvariant, PTL

\* saveClientInfo and removeClientInfo replace or remove the credentials of a client
\* that the server knows only after the server has rejected that client's reconnect.
THEOREM GoodIdentityKept ==
    ASSUME "faulty" \notin Faults
    PROVE  Spec => SavedIdentityKept
<1>1. RunInv /\ [Next]_vars =>
          [\A u \in Procs : usable(u) /\ ~usable(u)' => u \in rejected]_vars
  <2> SUFFICES ASSUME RunInv, Next, NEW u \in Procs, usable(u), ~usable(u)'
               PROVE  u \in rejected
    OBVIOUS
  <2>1. PICK p \in Procs : ClientMoves(p) \/ ServerMoves(p)
    BY DEF Next, AllDone, vars, clientVars, diskVars, serverVars, usable
  <2>2. TypeInv /\ KeyInv /\ DiscardInv  BY DEF RunInv
  <2> QED  BY <2>1, <2>2, RunKeepsIdentity, ServerKeepsIdentity
<1> QED  BY <1>1, RunInvariant, PTL DEF Spec, SavedIdentityKept
=============================================================================
