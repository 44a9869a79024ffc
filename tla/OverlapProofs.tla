---------------------------- MODULE OverlapProofs ----------------------------
(***************************************************************************)
(* What overlapping runs cannot do to one another, for any number of runs   *)
(* started at any time in one directory and every kind of fault but a disk  *)
(* that takes only a prefix of a write and a server that answers with       *)
(* whatever it likes.                                                      *)
(***************************************************************************)
EXTENDS Overlap, TransferProofs

-----------------------------------------------------------------------------
(* The steps that overlapping runs take and others do not *)

\* A file of credentials is removed, or kept by another run that holds it open.
LEMMA RemovalFacts ==
    ASSUME TypeInv, NEW p \in Procs, RemoveSharedMeInfo(p) \/ RemoveSharedPrivKey(p)
    PROVE  /\ UNCHANGED <<netVars, authVars, jobVars, hit>>
           /\ pc[p] \in {"removeMeInfo", "removePrivKey"}
           /\ \E next \in {"removePrivKey", "register"} : pc' = [pc EXCEPT ![p] = next]
           /\ UNCHANGED diskVars \/ removeMeInfo \/ removePrivKey
<1>2. CASE RemoveSharedMeInfo(p)
  BY <1>2 DEF RemoveSharedMeInfo, RemoveShared, DiskStep, NoFault, At, Goto
<1>3. CASE RemoveSharedPrivKey(p)
  BY <1>3 DEF RemoveSharedPrivKey, RemoveShared, DiskStep, NoFault, At, Goto
<1> QED  BY <1>2, <1>3

LEMMA RemovalType ==
    ASSUME TypeInv, NEW p \in Procs, UNCHANGED serverVars,
           RemoveSharedMeInfo(p) \/ RemoveSharedPrivKey(p)
    PROVE  TypeInv'
<1> USE Parts
<1>1. hit' \in SUBSET Procs  BY RemovalFacts DEF ClientTypeOK
<1>2. NetTypeOK'  BY RemovalFacts DEF NetTypeOK, netVars
<1>3. DiskTypeOK'
  BY RemovalFacts, NamesAssumption
  DEF removeMeInfo, removePrivKey, NoInfo, Info, DiskTypeOK, diskVars, NamesAssumption,
      Markers
<1>4. {"removeMeInfo", "removePrivKey", "register"} \subseteq Plain \cap Running
  BY PointFacts
<1> QED  BY <1>1, <1>2, <1>3, <1>4, RemovalFacts, PlainMoveType

LEMMA RemovalNames ==
    ASSUME TypeInv, IdentityInv, NEW p \in Procs, UNCHANGED serverVars,
           RemoveSharedMeInfo(p) \/ RemoveSharedPrivKey(p)
    PROVE  IdentityInv'
<1> USE Parts
<1>1. Sends(p, {})  BY RemovalFacts, QuietFacts
<1>2. /\ UNCHANGED <<registry, clientName, clientId>>
      /\ pc'[p] \notin Naming \cup {"idle"} /\ \A q \in Procs \ {p} : pc'[q] = pc[q]
  BY RemovalFacts DEF Naming, ClientTypeOK, authVars, jobVars, serverVars
<1>3. meInfo'.uuid \in Procs => registered(meInfo'.uuid, meInfo'.name)
  BY RemovalFacts, NamesAssumption
  DEF removeMeInfo, removePrivKey, NoInfo, Info, IdentityInv, DiskNames, diskVars,
      NamesAssumption, Markers
<1> QED  BY <1>1, <1>2, <1>3, RunNames

-----------------------------------------------------------------------------
(* Types and names *)

LEMMA OverlapTypeStep == TypeInv /\ [OverlapNext]_vars => TypeInv'
<1> SUFFICES ASSUME TypeInv, [OverlapNext]_vars PROVE TypeInv'  OBVIOUS
<1>1. ASSUME NEW p \in Procs, OverlapMoves(p)  PROVE TypeInv'
  <2> DEFINE others == {q \in Procs : pc[q] \in Running}
  <2>1. (IF others = {} THEN {} ELSE others \cup {p}) \in SUBSET Procs  OBVIOUS
  <2>2. CASE StartBeside(p) /\ UNCHANGED serverVars
    BY <2>1, <2>2, StartSteps DEF StartBeside
  <2>3. CASE /\ RemoveSharedMeInfo(p) \/ RemoveSharedPrivKey(p)
             /\ UNCHANGED serverVars
    BY <2>3, RemovalType
  <2>4. CASE RunStep(p) \/ Crash(p) \/ Disconnection(p)
    <3>1. [Next]_vars  BY <1>1, <2>4 DEF OverlapMoves, Next, ClientMoves, ClientStep
    <3> QED  BY <3>1, TypeInvStep
  <2> QED  BY <1>1, <2>2, <2>3, <2>4 DEF OverlapMoves, OverlapStep
<1>2. CASE (\E p \in Procs : ServerMoves(p)) \/ AllDone \/ UNCHANGED vars
  <2>1. [Next]_vars  BY <1>2 DEF Next
  <2> QED  BY <2>1, TypeInvStep
<1> QED  BY <1>1, <1>2 DEF OverlapNext

LEMMA OverlapIdentityStep ==
    ASSUME "faulty" \notin Faults
    PROVE  TypeInv /\ IdentityInv /\ [OverlapNext]_vars => IdentityInv'
<1> SUFFICES ASSUME TypeInv, IdentityInv, [OverlapNext]_vars PROVE IdentityInv'  OBVIOUS
<1>1. ASSUME NEW p \in Procs, OverlapMoves(p)  PROVE IdentityInv'
  <2>1. CASE StartBeside(p) /\ UNCHANGED serverVars
    BY <2>1, LoadNames DEF StartBeside
  <2>2. CASE /\ RemoveSharedMeInfo(p) \/ RemoveSharedPrivKey(p)
             /\ UNCHANGED serverVars
    BY <2>2, RemovalNames
  <2>3. CASE RunStep(p) \/ Crash(p) \/ Disconnection(p)
    <3>1. [Next]_vars  BY <1>1, <2>3 DEF OverlapMoves, Next, ClientMoves, ClientStep
    <3> QED  BY <3>1, IdentityStep
  <2> QED  BY <1>1, <2>1, <2>2, <2>3 DEF OverlapMoves, OverlapStep
<1>2. CASE (\E p \in Procs : ServerMoves(p)) \/ AllDone \/ UNCHANGED vars
  <2>1. [Next]_vars  BY <1>2 DEF Next
  <2> QED  BY <2>1, IdentityStep
<1> QED  BY <1>1, <1>2 DEF OverlapNext

-----------------------------------------------------------------------------
(* Session keys *)

\* Whatever a run decrypts, with whichever key, is the session key of its own
\* connection or nothing.
session(p) ==
    /\ aesKey[p] \in {p, Nil}
    /\ \A r \in Range(inbound[p]) : r.aes \in {p, Nil}
SessionInv == \A p \in Procs : session(p)

\* A run reads its responses and brings none about.
LEMMA ReadsOnly ==
    ASSUME TypeInv, NEW p \in Procs, RunStep(p) \/ Crash(p) \/ Disconnection(p)
    PROVE  /\ Range(inbound'[p]) \subseteq Range(inbound[p])
           /\ \A q \in Procs \ {p} : inbound'[q] = inbound[q] /\ aesKey'[q] = aesKey[q]
<1> USE Parts
<1>1. inbound[p] # <<>> => Range(Tail(inbound[p])) \subseteq Range(inbound[p])
  BY RangeFacts DEF NetTypeOK
<1>2. ASSUME NEW verdict, Exit(p, verdict)
      PROVE  /\ Range(inbound'[p]) \subseteq Range(inbound[p])
             /\ \A q \in Procs \ {p} : inbound'[q] = inbound[q]
  BY <1>2, EmptyRange DEF Exit, disconnect, NetTypeOK
<1>3. ASSUME NEW request, NEW next, NEW unread, Send(p, request, next, unread),
             Range(unread) \subseteq Range(inbound[p])
      PROVE  /\ Range(inbound'[p]) \subseteq Range(inbound[p])
             /\ \A q \in Procs \ {p} : inbound'[q] = inbound[q]
  BY <1>2, <1>3 DEF Send, NetTypeOK
<1>4. ASSUME NEW point, NEW code, NEW next, Receive(p, point, code, next)
      PROVE  /\ Range(inbound'[p]) \subseteq Range(inbound[p])
             /\ \A q \in Procs \ {p} : inbound'[q] = inbound[q]
  BY <1>1, <1>4 DEF Receive, Received, responseArrived, receive, NetTypeOK
<1>5. CASE \/ SaveFails(p) \/ AllFilesSent(p) \/ ContentSizeMismatch(p)
           \/ ReceiveAbortAck(p) \/ ReceiveResponseFails(p) \/ Crash(p)
  BY <1>2, <1>5
  DEF SaveFails, AllFilesSent, ContentSizeMismatch, ReceiveAbortAck,
      ReceiveResponseFails, Crash, authVars
<1>6. CASE \/ Connect(p) \/ Authenticate(p) \/ LoadPrivateKey(p)
           \/ InvalidCredentials(p)
           \/ OpenMeInfo(p) \/ WriteMeInfo(p) \/ OpenPrivKey(p) \/ WritePrivKey(p)
  BY <1>6
  DEF Connect, connect, Authenticate, LoadPrivateKey, InvalidCredentials, OpenMeInfo,
      WriteMeInfo, OpenPrivKey, WritePrivKey, DiskStep, netVars, authVars
<1>7. CASE CheckAesKey(p) \/ PrepareFile(p)
  BY <1>2, <1>7 DEF CheckAesKey, PrepareFile, netVars, authVars
<1>8. CASE SendReconnect(p) \/ SendRegistration(p) \/ SendKey(p) \/ TransmitFile(p)
  BY <1>3, <1>8 DEF SendReconnect, SendRegistration, SendKey, TransmitFile, authVars
<1>9. CASE ConfirmCrc(p) \/ RequestRetry(p) \/ AbortTransfer(p)
  <2>1. inbound[p] # <<>>
    BY <1>9 DEF ConfirmCrc, RequestRetry, AbortTransfer, CrcArrived, Received,
                responseArrived
  <2> QED  BY <1>1, <1>3, <1>9, <2>1
           DEF ConfirmCrc, RequestRetry, AbortTransfer, AnswerCrc, authVars
<1>10. CASE \/ ReceiveReconnectRejected(p) \/ ReceiveReconnectApproved(p)
            \/ ReceiveRegistration(p) \/ ReceiveAesKey(p) \/ ReceiveConfirmation(p)
  BY <1>4, <1>10
  DEF ReceiveReconnectRejected, ReceiveReconnectApproved, ReceiveRegistration,
      ReceiveAesKey, ReceiveConfirmation, ReceiveKey, ClientTypeOK, authVars
<1>11. CASE Disconnection(p)
  BY <1>11, RangeFacts DEF Disconnection, LinkBreaks, NetTypeOK, authVars
<1> QED  BY <1>5, <1>6, <1>7, <1>8, <1>9, <1>10, <1>11 DEF RunStep

\* A run gets a key only from a response to it.
LEMMA DecryptsOwn ==
    ASSUME TypeInv, NEW p \in Procs, session(p),
           RunStep(p) \/ Crash(p) \/ Disconnection(p)
    PROVE  aesKey'[p] \in {p, Nil}
<1> USE Parts
<1>1. ASSUME NEW point, NEW code, ReceiveKey(p, point, code)
      PROVE  aesKey'[p] \in {p, Nil}
  <2>1. nextResponse(p) \in Range(inbound[p])
    BY <1>1, RangeFacts
    DEF ReceiveKey, Receive, Received, responseArrived, nextResponse, NetTypeOK
  <2> QED  BY <1>1, <2>1 DEF ReceiveKey, decryptAesKey, session, ClientTypeOK
<1>2. CASE ~ReceiveReconnectApproved(p) /\ ~ReceiveAesKey(p)
  <2>1. aesKey' = aesKey
    BY <1>2
    DEF RunStep, Connect, Authenticate, LoadPrivateKey, SendReconnect, InvalidCredentials,
        ReceiveReconnectRejected, SendRegistration, ReceiveRegistration, SaveFails,
        OpenMeInfo, WriteMeInfo, OpenPrivKey, WritePrivKey, DiskStep, SendKey, CheckAesKey,
        PrepareFile, AllFilesSent, TransmitFile, ContentSizeMismatch, ConfirmCrc,
        RequestRetry, AbortTransfer, AnswerCrc, ReceiveConfirmation, ReceiveAbortAck,
        ReceiveResponseFails, Crash, Disconnection, authVars
  <2> QED  BY <2>1 DEF session
<1> QED  BY <1>1, <1>2 DEF ReceiveReconnectApproved, ReceiveAesKey

\* The server sends no key but that of the connection it answers on.
LEMMA ServerSession ==
    ASSUME TypeInv, SessionInv, NEW c \in Procs, ServerMoves(c), "faulty" \notin Faults
    PROVE  SessionInv'
<1> USE Parts
<1>1. UNCHANGED aesKey  BY DEF ServerMoves, authVars
<1>2. ASSUME NEW r, r.aes \in {c, Nil}, Respond(c, r)
      PROVE  SessionInv'
  <2>1. \A q \in Procs \ {c} : inbound'[q] = inbound[q]
    BY <1>2 DEF Respond, NetTypeOK
  <2>2. inbound'[c] \in {Append(inbound[c], r), inbound[c]}
    BY <1>2 DEF Respond, NetTypeOK
  <2>3. Range(Append(inbound[c], r)) = Range(inbound[c]) \cup {r}
    <3>1. inbound[c] \in Seq(Response \cup {r})  BY DEF NetTypeOK
    <3> QED  BY <3>1, RangeFacts
  <2> QED  BY <1>1, <1>2, <2>1, <2>2, <2>3 DEF SessionInv, session
<1>3. ASSUME NEW code, NEW id, NEW rsa, NEW content,
             \/ Respond(c, Reply(code, id)) \/ Respond(c, AesReply(code, id, rsa, c))
             \/ Respond(c, CrcReply(id, CipherSize, content))
      PROVE  SessionInv'
  <2>1. /\ Reply(code, id).aes = Nil /\ AesReply(code, id, rsa, c).aes = c
        /\ CrcReply(id, CipherSize, content).aes = Nil
    BY DEF Reply, AesReply, CrcReply, response
  <2> QED  BY <1>2, <1>3, <2>1
<1>4. CASE HandleRetry(c)
  BY <1>1, <1>4 DEF HandleRetry, Done, SessionInv, session
<1>5. CASE HandleRegistration(c) \/ RejectReconnect(c) \/ HandleCrcValid(c)
           \/ HandleAbort(c) \/ Refuse(c)
  BY <1>3, <1>5
  DEF HandleRegistration, RejectReconnect, HandleCrcValid, HandleAbort, Refuse
<1>6. CASE HandlePublicKey(c) \/ ApproveReconnect(c)
  BY <1>3, <1>6 DEF HandlePublicKey, ApproveReconnect
<1>7. ASSUME NEW content, HandleFile(c, content)  PROVE SessionInv'
  BY <1>3, <1>7 DEF HandleFile
<1> QED
  BY <1>4, <1>5, <1>6, <1>7
  DEF ServerMoves, HonestStep, FaultyStep, ServerStep, CorruptFile, Fault

LEMMA SessionStep ==
    ASSUME "faulty" \notin Faults
    PROVE  TypeInv /\ SessionInv /\ [OverlapNext]_vars => SessionInv'
<1> SUFFICES ASSUME TypeInv, SessionInv, [OverlapNext]_vars  PROVE SessionInv'
  OBVIOUS
<1>1. ASSUME NEW p \in Procs, OverlapMoves(p)  PROVE SessionInv'
  <2>1. CASE StartBeside(p)
    BY <2>1 DEF StartBeside, loadTransferInfo, netVars, authVars, SessionInv, session
  <2>2. CASE RemoveSharedMeInfo(p) \/ RemoveSharedPrivKey(p)
    BY <2>2, RemovalFacts DEF netVars, authVars, SessionInv, session
  <2>3. CASE RunStep(p) \/ Crash(p) \/ Disconnection(p)
    BY <2>3, ReadsOnly, DecryptsOwn DEF SessionInv, session
  <2> QED  BY <1>1, <2>1, <2>2, <2>3 DEF OverlapMoves, OverlapStep
<1>2. ASSUME NEW c \in Procs, ServerMoves(c)  PROVE SessionInv'
  BY <1>2, ServerSession
<1>3. CASE UNCHANGED vars
  BY <1>3 DEF vars, clientVars, netVars, SessionInv, session
<1> QED  BY <1>1, <1>2, <1>3 DEF OverlapNext, AllDone

-----------------------------------------------------------------------------
(* Conversations *)

LEMMA OverlapTransferStep ==
    ASSUME TypeInv, TransferInv, [OverlapNext]_vars, "faulty" \notin Faults
    PROVE  TransferInv'
<1>1. ASSUME NEW p \in Procs, OverlapMoves(p)  PROVE TransferInv'
  <2> USE Parts
  <2>1. CASE StartBeside(p) /\ UNCHANGED serverVars
    <3>1. conversation(p)'  BY <2>1, StartConversation DEF StartBeside, TransferInv
    <3>2. ASSUME NEW q \in Procs \ {p}  PROVE view(q)' = view(q)
      BY <2>1
      DEF StartBeside, loadTransferInfo, Goto, ClientTypeOK, netVars, authVars,
          serverVars, view
    <3> QED  BY <3>1, <3>2, SameView DEF TransferInv
  <2>2. CASE /\ RemoveSharedMeInfo(p) \/ RemoveSharedPrivKey(p)
             /\ UNCHANGED serverVars
    <3>1. conversation(p)'
      <4>1. {"removeMeInfo", "removePrivKey", "register"}
                \subseteq Working \ {"sendFile", "connect"}
        BY DEF Working
      <4>2. /\ pc[p] \in {"removeMeInfo", "removePrivKey"}
            /\ pc'[p] \in {"removePrivKey", "register"}
            /\ UNCHANGED <<netVars, files, fileIndex>>
        BY <2>2, RemovalFacts DEF ClientTypeOK, jobVars
      <4> QED  BY <2>2, <4>1, <4>2, Moves DEF TransferInv
    <3>2. ASSUME NEW q \in Procs \ {p}  PROVE view(q)' = view(q)
      BY <2>2, RemovalFacts
      DEF ClientTypeOK, netVars, authVars, jobVars, serverVars, view
    <3> QED  BY <3>1, <3>2, SameView DEF TransferInv
  <2>3. CASE RunStep(p) \/ Crash(p) \/ Disconnection(p)
    <3>1. [Next]_vars  BY <1>1, <2>3 DEF OverlapMoves, Next, ClientMoves, ClientStep
    <3> QED  BY <3>1, TransferInvStep
  <2> QED  BY <1>1, <2>1, <2>2, <2>3 DEF OverlapMoves, OverlapStep
<1>2. CASE (\E p \in Procs : ServerMoves(p)) \/ AllDone \/ UNCHANGED vars
  <2>1. [Next]_vars  BY <1>2 DEF Next
  <2> QED  BY <2>1, TransferInvStep
<1> QED  BY <1>1, <1>2 DEF OverlapNext

-----------------------------------------------------------------------------
\* However runs overlap and whenever they are killed, no file is encrypted under a
\* key that is not the server's: a run that has loaded half of one identity and half
\* of another gets no key at all, and run stops before the first file.
THEOREM OverlapSharesKey ==
    ASSUME "faulty" \notin Faults
    PROVE  OverlapSpec => []TransfersShareKey
<1>1. Init => TypeInv /\ SessionInv
  BY TypeInvInit, EmptyRange DEF Init, ClientInit, NetInit, SessionInv, session
<1>2. TypeInv /\ SessionInv /\ [OverlapNext]_vars => (TypeInv /\ SessionInv)'
  BY OverlapTypeStep, SessionStep
<1>3. TypeInv /\ SessionInv => TransfersShareKey
  <2> SUFFICES ASSUME TypeInv, SessionInv, NEW p \in Procs,
                      pc[p] \in {"nextFile"} \cup Transferring
               PROVE  aesKey[p] = p
    BY DEF TransfersShareKey
  <2>1. aesKey[p] \in Procs  BY Parts DEF inHand
  <2> QED  BY <2>1, NamesAssumption DEF SessionInv, session, NamesAssumption, Markers
<1> QED  BY <1>1, <1>2, <1>3, PTL DEF OverlapSpec

\* However the steps of saveClientInfo, removeClientInfo and tryReconnect of several
\* runs fall between one another, the name and the ID that a reconnect request
\* carries are of one client.
THEOREM OverlapIdentityKept ==
    ASSUME "faulty" \notin Faults
    PROVE  OverlapSpec => []IdentityConsistent
<1>1. Init => TypeInv /\ IdentityInv  BY TypeInvInit, IdentityInit
<1>2. TypeInv /\ IdentityInv /\ [OverlapNext]_vars => (TypeInv /\ IdentityInv)'
  BY OverlapTypeStep, OverlapIdentityStep
<1> QED  BY <1>1, <1>2, NamesFollow, PTL DEF OverlapSpec

\* Runs that overlap deliver their files as runs that follow one another do: what
\* they share is the credentials, and those decide only whether they get a key.
THEOREM OverlapFilesIntact ==
    ASSUME "faulty" \notin Faults
    PROVE  OverlapSpec => [](VerifiedIntact /\ KeptUnlessReplaced)
<1>1. Init => TypeInv /\ TransferInv  BY TypeInvInit, TransferInvInit
<1>2. TypeInv /\ TransferInv /\ [OverlapNext]_vars => TypeInv' /\ TransferInv'
  BY OverlapTypeStep, OverlapTransferStep
<1>3. TypeInv /\ TransferInv => VerifiedIntact /\ KeptUnlessReplaced
  BY IntactFollows
<1> QED  BY <1>1, <1>2, <1>3, PTL DEF OverlapSpec
=============================================================================
