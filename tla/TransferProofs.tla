--------------------------- MODULE TransferProofs ---------------------------
(***************************************************************************)
(* The conversation of a run with the server, and what it keeps of the files *)
(* that were transferred, for every set of runs, lists of files and number   *)
(* of attempts, and every kind of fault but a server that answers with      *)
(* whatever it likes.                                                      *)
(***************************************************************************)
EXTENDS SystemProofs, FiniteSetTheorems

\* The responses that answer nothing.
Refusals == {RegistrationFailed, GeneralError}

\* The request that a run waits at this point for the answer to.
asksAt(point, code) ==
    \/ point = "awaitReconnect"    /\ code = Reconnect
    \/ point = "awaitRegistration" /\ code = Registration
    \/ point = "awaitAesKey"       /\ code = SendPublicKey
    \/ point = "awaitCrc"          /\ code = SendFile
    \/ point = "awaitConfirmation" /\ code = CrcValid
    \/ point = "awaitAbort"        /\ code = CrcInvalidAbort

FileCodes == {SendFile, CrcValid, CrcInvalidRetry, CrcInvalidAbort}

\* A request that the server has not handled belongs to the point at which the run
\* is, or was when it ended, and to the file that the run is, or was, at.
askedBy(p, m) ==
    /\ pc[p] \in Running =>
          IF m.code = CrcInvalidRetry THEN pc[p] \in {"sendFile", "awaitCrc"}
                                      ELSE asksAt(pc[p], m.code)
    /\ m.code # Registration => m.id = clientId[p]
    /\ m.code \in FileCodes =>
          /\ fileIndex[p] <= Len(files[p])
          /\ m.file = FileName[currentFile(p)]
          /\ namesDiffer(p) => m.file \notin verified[p]
    /\ m.code = CrcValid => stored[p][m.file] = currentFile(p)
    /\ m.code = CrcInvalidAbort => m.file \notin verified[p]

\* A response that is not a refusal answers the only request.
answerTo(p, r) ==
    /\ outbound[p] = <<>>
    /\ pc[p] \in Waiting /\ r.code \in acceptedCodes[pc[p]]
    /\ r.code = FileReceivedWithCrc =>
          /\ stored[p][FileName[currentFile(p)]] = r.cksum
          /\ FileName[currentFile(p)] \notin verified[p]
    /\ pc[p] = "awaitConfirmation" => intact(p, currentFile(p))

\* A request to retry comes first, any other request last.
Order(p) ==
    \A i \in 1..Len(outbound[p]) :
        IF outbound[p][i].code = CrcInvalidRetry THEN i = 1 ELSE i = Len(outbound[p])
Requests(p) == \A m \in Range(outbound[p]) : askedBy(p, m)

\* A refusal is a fault; any other response is the last one.
Refused(p) ==
    \A i \in 1..Len(inbound[p]) :
        IF inbound[p][i].code \in Refusals THEN "refuse" \in Faults
                                           ELSE i = Len(inbound[p])
Answers(p) == \A r \in Range(inbound[p]) : r.code \notin Refusals => answerTo(p, r)

\* Something is due to a run that waits on a connection that is up.
Due(p) ==
    socket[p] = "up" /\ pc[p] \in Waiting => inbound[p] # <<>> \/ unanswered(p) # {}

Socket(p) == IF socket[p] = "closed" THEN inbound[p] = <<>>
             ELSE pc[p] \in Running \ {"connect"}

\* A run that has not started has left no trace; one that succeeded is past its list.
Ends(p) ==
    /\ pc[p] = "idle" =>
          outbound[p] = <<>> /\ verified[p] = {} /\ fileIndex[p] = 1 /\ files[p] = <<>>
    /\ pc[p] = "succeeded" => fileIndex[p] > Len(files[p])

\* What the server has confirmed is intact, and what the loop has moved past is
\* confirmed, or another file has its name.
Delivered(p) ==
    /\ fileIndex[p] <= Len(files[p]) + 1
    /\ \A f \in verified[p] : \E i \in 1..Len(files[p]) :
          i <= fileIndex[p] /\ FileName[files[p][i]] = f /\ stored[p][f] = files[p][i]
    /\ \A i \in 1..Len(files[p]) : i < fileIndex[p] =>
          \/ intact(p, files[p][i])
          \/ \E j \in (i + 1)..Len(files[p]) :
                j <= fileIndex[p] /\ FileName[files[p][j]] = FileName[files[p][i]]
    /\ namesDiffer(p) /\ pc[p] \notin {"awaitConfirmation"} \cup Terminated =>
          \A f \in verified[p] : \E i \in 1..Len(files[p]) :
              i < fileIndex[p] /\ FileName[files[p][i]] = f

conversation(p) ==
    /\ Order(p) /\ Requests(p) /\ Refused(p) /\ Answers(p)
    /\ Due(p) /\ Socket(p) /\ Ends(p) /\ Delivered(p)

TransferInv == \A p \in Procs : conversation(p)

-----------------------------------------------------------------------------
(* Steps that do not touch the conversation, or only the files *)

view(p) == <<pc[p], socket[p], outbound[p], inbound[p], files[p], fileIndex[p],
             clientId[p], stored[p], verified[p]>>
fileView(p) == <<files[p], fileIndex[p], stored[p], verified[p]>>

LEMMA SameRequest ==
    ASSUME NEW p \in Procs, NEW m, askedBy(p, m), fileView(p)' = fileView(p),
           clientId'[p] = clientId[p],
           \/ pc'[p] = pc[p]
           \/ pc'[p] \in Terminated
           \/ m.code = CrcInvalidRetry /\ pc'[p] \in {"sendFile", "awaitCrc"}
    PROVE  askedBy(p, m)'
BY PointFacts
DEF askedBy, fileView, FileCodes, currentFile, namesDiffer, asksAt, CrcInvalidRetry

LEMMA SameDelivered ==
    ASSUME NEW p \in Procs, Delivered(p), fileView(p)' = fileView(p),
           \/ pc'[p] \in {"awaitConfirmation"} \cup Terminated
           \/ pc[p] \notin {"awaitConfirmation"} \cup Terminated
           \/ pc'[p] = pc[p]
    PROVE  Delivered(p)'
BY DEF Delivered, fileView, intact, namesDiffer

LEMMA SameView ==
    ASSUME NEW p \in Procs, conversation(p), view(p)' = view(p)
    PROVE  conversation(p)'
<1>1. fileView(p)' = fileView(p) /\ clientId'[p] = clientId[p] /\ pc'[p] = pc[p]
  BY DEF view, fileView
<1>2. Requests(p)'
  <2> SUFFICES ASSUME NEW m \in Range(outbound'[p])  PROVE askedBy(p, m)'
    BY DEF Requests
  <2>1. outbound'[p] = outbound[p]  BY DEF view
  <2>2. askedBy(p, m)  BY <2>1 DEF conversation, Requests
  <2> QED  BY <1>1, <2>2, SameRequest
<1>3. Answers(p)'
  BY DEF conversation, Answers, answerTo, intact, currentFile, view
<1>4. Delivered(p)'  BY <1>1, SameDelivered DEF conversation
<1>5. Order(p)' /\ Refused(p)' /\ Due(p)' /\ Socket(p)' /\ Ends(p)'
  BY DEF conversation, Order, Refused, Due, unanswered, Socket, Ends, view
<1> QED  BY <1>2, <1>3, <1>4, <1>5 DEF conversation

-----------------------------------------------------------------------------
(* What is on the wire *)

LEMMA EmptyRange == Range(<<>>) = {} /\ Len(<<>>) = 0
BY DEF Range

\* The only request of a run that does not wait is one to retry, before the file
\* is sent again, and nothing it has not read is an answer.
LEMMA QuietWire ==
    ASSUME TypeInv, NEW p \in Procs, conversation(p), pc[p] \notin Waiting
    PROVE  /\ \A r \in Range(inbound[p]) : r.code \in Refusals
           /\ pc[p] = "idle" => outbound[p] = <<>>
           /\ pc[p] \in Running => \A i \in 1..Len(outbound[p]) :
                 outbound[p][i].code = CrcInvalidRetry
           /\ pc[p] \in Running \ {"sendFile"} => outbound[p] = <<>>
<1> USE Parts
<1>1. \A r \in Range(inbound[p]) : r.code \in Refusals
  BY DEF conversation, Answers, answerTo
<1>2. outbound[p] \in Seq(Request)  BY DEF NetTypeOK
<1>3. \A m \in Range(outbound[p]) : pc[p] \in Running =>
          m.code = CrcInvalidRetry /\ pc[p] \in {"sendFile", "awaitCrc"}
  BY DEF conversation, Requests, askedBy, asksAt, Waiting, acceptedCodes
<1>4. \A i \in 1..Len(outbound[p]) : outbound[p][i] \in Range(outbound[p])
  BY <1>2, RangeFacts
<1>5. pc[p] \in Running \ {"sendFile"} => Len(outbound[p]) = 0
  <2>1. pc[p] # "awaitCrc"  BY DEF Waiting, acceptedCodes
  <2>2. CASE pc[p] \in Running \ {"sendFile"} /\ Len(outbound[p]) # 0
    <3>1. 1 \in 1..Len(outbound[p])  BY <1>2, <2>2
    <3> QED  BY <1>3, <1>4, <2>1, <2>2, <3>1
  <2> QED  BY <2>2
<1> QED  BY <1>1, <1>2, <1>3, <1>4, <1>5 DEF conversation, Ends

LEMMA CodeFacts ==
    /\ \A point \in Waiting : acceptedCodes[point] \cap Refusals = {}
    /\ \A point :
          /\ asksAt(point, Registration) => point = "awaitRegistration"
          /\ asksAt(point, SendPublicKey) => point = "awaitAesKey"
          /\ asksAt(point, Reconnect) => point = "awaitReconnect"
          /\ asksAt(point, SendFile) => point = "awaitCrc"
          /\ asksAt(point, CrcValid) => point = "awaitConfirmation"
          /\ asksAt(point, CrcInvalidAbort) => point = "awaitAbort"
BY DEF Waiting, acceptedCodes, Refusals, asksAt, Registration, SendPublicKey, Reconnect,
       SendFile, CrcValid, CrcInvalidAbort, RegistrationSuccess, RegistrationFailed,
       AesKeyReceived, FileReceivedWithCrc, MessageConfirmed, ReconnectApproved,
       ReconnectRejected, GeneralError

\* A valid response is the only message on the wire.
LEMMA ReceivedAnswer ==
    ASSUME TypeInv, NEW p \in Procs, conversation(p), NEW point \in Waiting, NEW code,
           Received(p, point, code)
    PROVE  /\ Tail(inbound[p]) = <<>> /\ outbound[p] = <<>>
           /\ pc[p] = point /\ socket[p] # "closed"
           /\ answerTo(p, nextResponse(p)) /\ nextResponse(p).code = code
<1> USE Parts
<1>1. /\ inbound[p] \in Seq(Response) /\ inbound[p] # <<>> /\ nextResponse(p) = inbound[p][1]
      /\ nextResponse(p).code = code /\ code \in acceptedCodes[point] /\ pc[p] = point
      /\ socket[p] # "closed"
  BY DEF Received, At, responseArrived, Valid, nextResponse, NetTypeOK
<1>2. 1 \in 1..Len(inbound[p]) /\ nextResponse(p) \in Range(inbound[p])
  BY <1>1, RangeFacts
<1>3. code \notin Refusals  BY <1>1, CodeFacts
<1>4. Len(inbound[p]) = 1  BY <1>1, <1>2, <1>3 DEF conversation, Refused
<1>5. Tail(inbound[p]) = <<>>
  <2>1. Tail(inbound[p]) \in Seq(Response) /\ Len(Tail(inbound[p])) = 0
    BY <1>1, <1>4, HeadTailProperties
  <2> QED  BY <2>1, EmptySeq
<1>6. answerTo(p, nextResponse(p))  BY <1>1, <1>2, <1>3 DEF conversation, Answers
<1> QED  BY <1>1, <1>5, <1>6 DEF answerTo

-----------------------------------------------------------------------------
(* The kinds of step *)

\* A run ends.
LEMMA ExitConversation ==
    ASSUME NEW p \in Procs, conversation(p), pc'[p] \in Terminated,
           pc'[p] = "succeeded" => fileIndex[p] > Len(files[p]), socket'[p] = "closed",
           inbound'[p] = <<>>, outbound'[p] = outbound[p],
           fileView(p)' = fileView(p), clientId'[p] = clientId[p] \/ outbound[p] = <<>>
    PROVE  conversation(p)'
<1>1. Requests(p)'
  <2> SUFFICES ASSUME NEW m \in Range(outbound'[p])  PROVE askedBy(p, m)'
    BY DEF Requests
  <2>1. askedBy(p, m) /\ clientId'[p] = clientId[p]
    BY EmptyRange DEF conversation, Requests
  <2> QED  BY <2>1, SameRequest
<1>2. Order(p)'  BY DEF conversation, Order
<1>3. Refused(p)' /\ Answers(p)'  BY EmptyRange DEF Refused, Answers
<1>4. Delivered(p)'  BY SameDelivered DEF conversation
<1>5. Due(p)' /\ Socket(p)' /\ Ends(p)'
  BY PointFacts DEF Due, Socket, Ends, Terminated, fileView
<1> QED  BY <1>1, <1>2, <1>3, <1>4, <1>5 DEF conversation

\* A run that has nothing on the wire goes to a point at which it does not wait.
LEMMA MoveConversation ==
    ASSUME NEW p \in Procs, conversation(p), pc'[p] \in Working, outbound'[p] = <<>>,
           \/ inbound'[p] = inbound[p] /\ pc[p] \notin Waiting
           \/ inbound'[p] = <<>>,
           TypeInv, Socket(p)', Delivered(p)'
    PROVE  conversation(p)'
<1>1. Order(p)' /\ Requests(p)'  BY EmptyRange DEF Order, Requests
<1>2. Refused(p)'  BY EmptyRange DEF conversation, Refused
<1>3. Answers(p)'
  <2> SUFFICES ASSUME NEW r \in Range(inbound'[p])  PROVE r.code \in Refusals
    BY DEF Answers
  <2> QED  BY EmptyRange, QuietWire
<1>4. Due(p)' /\ Ends(p)'  BY DEF Due, Ends, Working, Waiting, acceptedCodes
<1> QED  BY <1>1, <1>2, <1>3, <1>4 DEF conversation

\* A run asks for something.
LEMMA AskConversation ==
    ASSUME TypeInv, NEW p \in Procs, conversation(p), NEW request \in Request,
           pc[p] \in Running \ {"awaitConfirmation"}, socket'[p] = socket[p],
           outbound'[p] = IF socket[p] = "up" THEN Append(outbound[p], request)
                                              ELSE outbound[p],
           \/ inbound'[p] = inbound[p] /\ pc[p] \notin Waiting
           \/ inbound'[p] = <<>> /\ outbound[p] = <<>>,
           request.code # CrcInvalidRetry, askedBy(p, request)',
           pc'[p] = "awaitCrc" \/ outbound[p] = <<>>, pc'[p] \in Waiting,
           fileView(p)' = fileView(p), clientId'[p] = clientId[p] \/ outbound[p] = <<>>
    PROVE  conversation(p)'
<1> USE Parts
<1>1. outbound[p] \in Seq(Request) /\ \A i \in 1..Len(outbound[p]) :
          outbound[p][i].code = CrcInvalidRetry /\ i = 1
  BY QuietWire, EmptyRange DEF NetTypeOK, conversation, Order
<1>2. Order(p)'
  BY <1>1 DEF Order
<1>3. Requests(p)'
  <2> SUFFICES ASSUME NEW m \in Range(outbound'[p])  PROVE askedBy(p, m)'
    BY DEF Requests
  <2>1. CASE m = request  BY <2>1
  <2>2. CASE m \in Range(outbound[p])
    <3>1. askedBy(p, m) /\ m.code = CrcInvalidRetry /\ outbound[p] # <<>>
      BY <1>1, <2>2, EmptyRange DEF conversation, Requests, Range
    <3> QED  BY <3>1, SameRequest
  <2> QED  BY <1>1, <2>1, <2>2, RangeFacts
<1>4. Refused(p)'  BY EmptyRange DEF conversation, Refused
<1>5. Answers(p)'
  <2> SUFFICES ASSUME NEW r \in Range(inbound'[p])  PROVE r.code \in Refusals
    BY DEF Answers
  <2> QED  BY EmptyRange, QuietWire
<1>6. Due(p)'
  <2>1. CASE socket[p] = "up"
    <3>1. Len(outbound[p]) + 1 \in unanswered(p)'
      BY <1>1, <2>1 DEF unanswered
    <3> QED  BY <3>1 DEF Due
  <2> QED  BY <2>1 DEF Due
<1>7. Delivered(p)'
  <2>1. Delivered(p)  BY DEF conversation
  <2> QED  BY <2>1, SameDelivered, PointFacts
<1>8. Socket(p)' /\ Ends(p)'
  BY PointFacts DEF conversation, Socket, Ends, Waiting, acceptedCodes
<1> QED  BY <1>2, <1>3, <1>4, <1>5, <1>6, <1>7, <1>8 DEF conversation

-----------------------------------------------------------------------------
(* The steps of a run *)

LEMMA ExitSteps ==
    ASSUME TypeInv, NEW p \in Procs, conversation(p), NEW verdict \in Terminated,
           verdict = "succeeded" => fileIndex[p] > Len(files[p]),
           Exit(p, verdict), UNCHANGED <<serverVars, jobVars>>,
           clientId'[p] = clientId[p] \/ outbound[p] = <<>>
    PROVE  conversation(p)'
<1>1. /\ pc'[p] = verdict /\ socket'[p] = "closed" /\ inbound'[p] = <<>>
      /\ outbound'[p] = outbound[p]
  BY Parts DEF Exit, Goto, disconnect, ClientTypeOK, NetTypeOK
<1>2. fileView(p)' = fileView(p)  BY DEF fileView, serverVars, jobVars
<1> QED  BY <1>1, <1>2, ExitConversation

LEMMA EndConversation ==
    ASSUME TypeInv, NEW p \in Procs, conversation(p), UNCHANGED serverVars,
           \/ SaveFails(p) \/ AllFilesSent(p) \/ ContentSizeMismatch(p)
           \/ ReceiveAbortAck(p) \/ ReceiveResponseFails(p) \/ Crash(p)
    PROVE  conversation(p)'
<1>1. PICK verdict \in Terminated :
          Exit(p, verdict) /\ (verdict = "succeeded" => fileIndex[p] > Len(files[p]))
  BY DEF SaveFails, AllFilesSent, ContentSizeMismatch, ReceiveAbortAck,
         ReceiveResponseFails, Crash, Terminated
<1>2. UNCHANGED <<clientId, jobVars>>
  BY DEF SaveFails, AllFilesSent, ContentSizeMismatch, ReceiveAbortAck,
         ReceiveResponseFails, Crash, authVars
<1> QED  BY <1>1, <1>2, ExitSteps

LEMMA Moves ==
    ASSUME TypeInv, NEW p \in Procs, conversation(p),
           pc[p] \in Working \ {"sendFile", "connect"}, pc'[p] \in Working \ {"connect"},
           UNCHANGED <<netVars, files, fileIndex, serverVars>>
    PROVE  conversation(p)'
<1>1. /\ pc[p] \in Running \ {"sendFile"} /\ pc[p] \notin Waiting
      /\ pc[p] \notin {"awaitConfirmation"} \cup Terminated /\ pc'[p] \in Running
  BY DEF Running, Working, Waiting, acceptedCodes, Terminated
<1>2. outbound'[p] = <<>> /\ inbound'[p] = inbound[p]
  BY <1>1, QuietWire DEF netVars
<1>3. Delivered(p)'
  BY <1>1, SameDelivered DEF conversation, fileView, serverVars
<1>4. Socket(p)'  BY <1>1 DEF conversation, Socket, netVars
<1> QED  BY <1>1, <1>2, <1>3, <1>4, MoveConversation

LEMMA StartConversation ==
    ASSUME TypeInv, NEW p \in Procs, conversation(p), UNCHANGED serverVars,
           NEW exposed, loadTransferInfo(p, exposed)
    PROVE  conversation(p)'
<1> USE Parts DEF At, Goto
<1>1. /\ pc[p] = "idle" /\ pc'[p] \in {"connect", "failed"}
      /\ UNCHANGED <<netVars, clientId, fileIndex>>
      /\ pc'[p] = "failed" => files' = files
  BY DEF loadTransferInfo, ClientTypeOK, authVars
<1>2. /\ outbound[p] = <<>> /\ socket[p] = "closed" /\ inbound[p] = <<>>
      /\ verified[p] = {} /\ fileIndex[p] = 1
  BY <1>1, PointFacts
  DEF conversation, Socket, Ends, Running, Working, Waiting, acceptedCodes
<1>3. CASE pc'[p] = "failed"
  <2>1. fileView(p)' = fileView(p)  BY <1>1, <1>3 DEF fileView, serverVars
  <2> QED  BY <1>1, <1>2, <1>3, <2>1, ExitConversation DEF netVars, Terminated
<1>4. CASE pc'[p] = "connect"
  <2>1. files'[p] \in Seq(Paths)
    BY <1>4, ClientAssumption
    DEF loadTransferInfo, ClientTypeOK, ClientAssumption
  <2>2. Delivered(p)'
    BY <1>1, <1>2, <2>1 DEF Delivered, serverVars
  <2>3. Socket(p)'  BY <1>1, <1>2 DEF Socket, netVars
  <2> QED  BY <1>1, <1>2, <1>4, <2>2, <2>3, MoveConversation DEF netVars, Working
<1> QED  BY <1>1, <1>3, <1>4

LEMMA LocalConversation ==
    ASSUME TypeInv, NEW p \in Procs, conversation(p), UNCHANGED serverVars,
           \/ LoadTransferInfo(p) \/ Connect(p) \/ Authenticate(p) \/ LoadPrivateKey(p)
           \/ InvalidCredentials(p) \/ RemoveMeInfo(p) \/ RemovePrivKey(p)
           \/ OpenMeInfo(p) \/ WriteMeInfo(p) \/ OpenPrivKey(p) \/ WritePrivKey(p)
           \/ CheckAesKey(p) \/ PrepareFile(p)
    PROVE  conversation(p)'
<1> USE Parts DEF At, Goto
<1>1. CASE LoadTransferInfo(p)
  BY <1>1, StartConversation DEF LoadTransferInfo
<1>2. CASE Connect(p)
  <2>1. /\ pc[p] = "connect" /\ fileView(p)' = fileView(p) /\ UNCHANGED clientId
        /\ outbound'[p] = outbound[p] /\ inbound'[p] = inbound[p]
        /\ \/ pc'[p] = "authenticate" /\ socket'[p] = "up"
           \/ pc'[p] = "failed" /\ socket'[p] = socket[p]
    BY <1>2
    DEF Connect, connect, fileView, ClientTypeOK, NetTypeOK, authVars, jobVars, netVars,
        serverVars
  <2>2. socket[p] = "closed" /\ inbound[p] = <<>> /\ outbound[p] = <<>>
    BY <2>1, PointFacts, QuietWire DEF conversation, Socket, Plain, Waiting, acceptedCodes
  <2>3. CASE pc'[p] = "failed"
    BY <2>1, <2>2, <2>3, ExitConversation DEF Terminated
  <2>4. CASE pc'[p] = "authenticate" /\ socket'[p] = "up"
    <3>1. Socket(p)'  BY <2>4 DEF Socket, Running, Working
    <3>2. Delivered(p)'  BY <2>1, SameDelivered DEF conversation, Terminated
    <3> QED  BY <2>1, <2>2, <2>4, <3>1, <3>2, MoveConversation DEF Working
  <2> QED  BY <2>1, <2>3, <2>4
<1>3. CASE Authenticate(p) \/ LoadPrivateKey(p) \/ InvalidCredentials(p)
           \/ RemoveMeInfo(p) \/ RemovePrivKey(p)
           \/ OpenMeInfo(p) \/ WriteMeInfo(p) \/ OpenPrivKey(p) \/ WritePrivKey(p)
  <2>1. /\ pc[p] \in Working \ {"sendFile", "connect"} /\ pc'[p] \in Working \ {"connect"}
        /\ UNCHANGED <<netVars, files, fileIndex>>
    BY <1>3
    DEF Authenticate, LoadPrivateKey, InvalidCredentials, RemoveMeInfo, RemovePrivKey,
        OpenMeInfo, WriteMeInfo, OpenPrivKey, WritePrivKey, DiskStep, ClientTypeOK,
        jobVars, Working
  <2> QED  BY <2>1, Moves
<1>4. CASE CheckAesKey(p) \/ PrepareFile(p)
  <2>1. /\ pc[p] \in {"authenticated", "nextFile"}
        /\ UNCHANGED <<files, fileIndex, clientId>>
        /\ \/ pc'[p] \in {"nextFile", "sendFile"} /\ UNCHANGED netVars
           \/ Exit(p, "failed")
    BY <1>4 DEF CheckAesKey, PrepareFile, ClientTypeOK, authVars, jobVars
  <2>2. CASE Exit(p, "failed")
    <3>1. /\ pc'[p] = "failed" /\ socket'[p] = "closed" /\ inbound'[p] = <<>>
          /\ outbound'[p] = outbound[p]
      BY <2>2 DEF Exit, disconnect, ClientTypeOK, NetTypeOK, Terminated
    <3>2. fileView(p)' = fileView(p)  BY <2>1 DEF fileView, serverVars
    <3> QED  BY <2>1, <3>1, <3>2, ExitConversation DEF Terminated
  <2>3. CASE pc'[p] \in {"nextFile", "sendFile"} /\ UNCHANGED netVars
    BY <2>1, <2>3, Moves DEF Working
  <2> QED  BY <2>1, <2>2, <2>3
<1> QED  BY <1>1, <1>2, <1>3, <1>4

\* What a request to the server says, by its builder.
LEMMA BuiltRequests ==
    ASSUME NEW id, NEW name, NEW pub, NEW path, NEW key,
           NEW code \in {CrcValid, CrcInvalidRetry, CrcInvalidAbort}
    PROVE  /\ buildRegistration(name).code = Registration
           /\ LET m == buildReconnect(id, name) IN m.code = Reconnect /\ m.id = id
           /\ LET m == buildPublicKeyExchange(id, name, pub)
              IN  m.code = SendPublicKey /\ m.id = id
           /\ LET m == buildSendFile(id, path, key)
              IN  m.code = SendFile /\ m.id = id /\ m.file = FileName[path]
           /\ LET m == buildCrcStatus(id, code, path)
              IN  m.code = code /\ m.id = id /\ m.file = FileName[path]
BY DEF buildRegistration, buildReconnect, buildPublicKeyExchange, buildSendFile,
       buildCrcStatus, clientRequest, fileRequest

LEMMA DistinctCodes ==
    /\ {Registration, SendPublicKey, Reconnect} \cap FileCodes = {}
    /\ Registration \notin {SendPublicKey, Reconnect} /\ SendPublicKey # Reconnect
    /\ CrcInvalidRetry \notin {Registration, SendPublicKey, Reconnect, SendFile,
                               CrcValid, CrcInvalidAbort}
    /\ CrcValid \notin {Registration, SendPublicKey, Reconnect, SendFile, CrcInvalidAbort}
    /\ CrcInvalidAbort \notin {Registration, SendPublicKey, Reconnect, SendFile}
BY DEF FileCodes, Registration, SendPublicKey, Reconnect, SendFile, CrcValid,
       CrcInvalidRetry, CrcInvalidAbort

LEMMA Asks ==
    ASSUME TypeInv, NEW p \in Procs, conversation(p), NEW request \in Request, NEW next,
           NEW unread, Send(p, request, next, unread),
           \/ unread = inbound[p] /\ pc[p] \notin Waiting
           \/ unread = <<>> /\ outbound[p] = <<>>,
           pc[p] \in Running \ {"awaitConfirmation"},
           UNCHANGED <<files, fileIndex, serverVars>>,
           clientId'[p] = clientId[p] \/ outbound[p] = <<>>,
           next \in Waiting, next = "awaitCrc" \/ outbound[p] = <<>>,
           request.code # CrcInvalidRetry, pc'[p] = next => askedBy(p, request)'
    PROVE  conversation(p)'
<1> USE Parts
<1>1. fileView(p)' = fileView(p)  BY DEF fileView, serverVars
<1>2. CASE /\ Goto(p, next) /\ send(p, request) /\ UNCHANGED socket
           /\ inbound' = [inbound EXCEPT ![p] = unread]
  <2>1. /\ pc'[p] = next /\ inbound'[p] = unread /\ socket'[p] = socket[p]
        /\ outbound'[p] = IF socket[p] = "up" THEN Append(outbound[p], request)
                                              ELSE outbound[p]
    BY <1>2 DEF Goto, send, ClientTypeOK, NetTypeOK
  <2> QED  BY <1>1, <2>1, AskConversation
<1>3. CASE Exit(p, "failed")
  <2>1. /\ pc'[p] = "failed" /\ socket'[p] = "closed" /\ inbound'[p] = <<>>
        /\ outbound'[p] = outbound[p]
    BY <1>3 DEF Exit, Goto, disconnect, ClientTypeOK, NetTypeOK, Terminated
  <2> QED  BY <1>1, <2>1, ExitConversation DEF Terminated
<1> QED  BY <1>2, <1>3 DEF Send

LEMMA AskPoints ==
    /\ {"register", "loadClientInfo", "sendPublicKey", "sendFile", "awaitCrc"}
          \subseteq Running \ {"awaitConfirmation"}
    /\ {"register", "loadClientInfo", "sendPublicKey", "sendFile"} \cap Waiting = {}
    /\ {"awaitReconnect", "awaitRegistration", "awaitAesKey", "awaitCrc",
        "awaitConfirmation", "awaitAbort"} \subseteq Waiting
    /\ Waiting \subseteq Running
BY DEF Running, Working, Waiting, acceptedCodes

LEMMA AskSteps ==
    ASSUME TypeInv, NEW p \in Procs, conversation(p), UNCHANGED serverVars,
           SendReconnect(p) \/ SendRegistration(p) \/ SendKey(p) \/ TransmitFile(p)
    PROVE  conversation(p)'
<1> USE Parts, AskPoints, DistinctCodes DEF At
<1>1. CASE SendReconnect(p)
  <2>1. PICK request \in Request :
        /\ request = buildReconnect(meInfo.uuid, reconnectName(p)) /\ pc[p] = "loadClientInfo"
        /\ clientId'[p] = meInfo.uuid /\ UNCHANGED <<files, fileIndex>>
        /\ Send(p, request, "awaitReconnect", inbound[p])
    BY <1>1, RequestTypes
    DEF SendReconnect, credentialsLoaded, loadClientInfo, DiskTypeOK, reconnectName,
        ClientTypeOK, jobVars
  <2>2. outbound[p] = <<>>  BY <2>1, QuietWire
  <2>3. request.code = Reconnect /\ request.id = meInfo.uuid  BY <2>1, BuiltRequests
  <2>4. pc'[p] = "awaitReconnect" => askedBy(p, request)'
    BY <2>1, <2>3 DEF askedBy, asksAt
  <2> QED  BY <2>1, <2>2, <2>3, <2>4, Asks
<1>2. CASE SendRegistration(p)
  <2>1. PICK request \in Request :
        /\ request = buildRegistration(clientName[p]) /\ pc[p] = "register" /\ UNCHANGED <<clientId, files, fileIndex>>
        /\ Send(p, request, "awaitRegistration", inbound[p])
    BY <1>2, RequestTypes DEF SendRegistration, authVars, jobVars
  <2>2. outbound[p] = <<>>  BY <2>1, QuietWire
  <2>3. request.code = Registration  BY <2>1, BuiltRequests
  <2>4. pc'[p] = "awaitRegistration" => askedBy(p, request)'
    BY <2>1, <2>3 DEF askedBy, asksAt
  <2> QED  BY <2>1, <2>2, <2>3, <2>4, Asks
<1>3. CASE SendKey(p)
  <2>1. clientName[p] \in Names /\ clientId[p] \in Procs /\ privateKey[p] \in Procs
    BY <1>3 DEF SendKey, inHand, Saving
  <2>2. PICK request \in Request :
        /\ request = buildPublicKeyExchange(clientId[p], clientName[p], privateKey[p])
        /\ pc[p] = "sendPublicKey"
        /\ UNCHANGED <<clientId, files, fileIndex>>
        /\ Send(p, request, "awaitAesKey", inbound[p])
    BY <1>3, <2>1, RequestTypes DEF SendKey, authVars, jobVars
  <2>3. outbound[p] = <<>>  BY <2>2, QuietWire
  <2>4. request.code = SendPublicKey /\ request.id = clientId[p]  BY <2>2, BuiltRequests
  <2>5. pc'[p] = "awaitAesKey" => askedBy(p, request)'
    BY <2>2, <2>4 DEF askedBy, asksAt
  <2> QED  BY <2>2, <2>3, <2>4, <2>5, Asks
<1>4. CASE TransmitFile(p)
  <2>1. /\ pc[p] = "sendFile" /\ fileIndex[p] \in 1..Len(files[p])
        /\ currentFile(p) \in Paths /\ clientId[p] \in Procs \cup {Nil} /\ aesKey[p] \in Procs
    BY <1>4 DEF TransmitFile, inHand, Transferring, currentFile, ClientTypeOK
  <2>2. PICK request \in Request :
        /\ request = buildSendFile(clientId[p], currentFile(p), aesKey[p])
        /\ UNCHANGED <<clientId, files, fileIndex>>
        /\ Send(p, request, "awaitCrc", inbound[p])
    BY <1>4, <2>1, FileRequestTypes DEF TransmitFile, authVars, jobVars
  <2>3. /\ request.code = SendFile /\ request.id = clientId[p]
        /\ request.file = FileName[currentFile(p)]
    BY <2>2, BuiltRequests
  <2>4. namesDiffer(p) => FileName[currentFile(p)] \notin verified[p]
    <3> SUFFICES ASSUME namesDiffer(p), FileName[currentFile(p)] \in verified[p]
                 PROVE  FALSE
      OBVIOUS
    <3>1. PICK i \in 1..Len(files[p]) :
              i < fileIndex[p] /\ FileName[files[p][i]] = FileName[currentFile(p)]
      BY <2>1 DEF conversation, Delivered, Terminated
    <3>2. i = fileIndex[p]  BY <2>1, <3>1 DEF namesDiffer, currentFile
    <3> QED  BY <2>1, <3>1, <3>2
  <2>5. pc'[p] = "awaitCrc" => askedBy(p, request)'
    BY <2>1, <2>2, <2>3, <2>4
    DEF askedBy, asksAt, currentFile, namesDiffer, serverVars
  <2> QED  BY <2>1, <2>2, <2>3, <2>5, Asks
<1> QED  BY <1>1, <1>2, <1>3, <1>4

\* The answer to a CRC.
LEMMA CrcSteps ==
    ASSUME TypeInv, NEW p \in Procs, conversation(p), UNCHANGED serverVars,
           ConfirmCrc(p) \/ RequestRetry(p) \/ AbortTransfer(p)
    PROVE  conversation(p)'
<1> USE Parts, AskPoints, DistinctCodes DEF At
<1>1. /\ Tail(inbound[p]) = <<>> /\ outbound[p] = <<>> /\ pc[p] = "awaitCrc"
      /\ answerTo(p, nextResponse(p)) /\ nextResponse(p).code = FileReceivedWithCrc
      /\ socket[p] # "closed"
  BY ReceivedAnswer DEF ConfirmCrc, RequestRetry, AbortTransfer, CrcArrived
<1>2. /\ fileIndex[p] \in 1..Len(files[p]) /\ currentFile(p) \in Paths
      /\ clientId[p] \in Procs \cup {Nil}
  BY <1>1 DEF inHand, Transferring, currentFile, ClientTypeOK
<1>3. PICK code \in {CrcValid, CrcInvalidRetry, CrcInvalidAbort},
           next \in {"awaitConfirmation", "sendFile", "awaitAbort"} :
          /\ AnswerCrc(p, code, next)
          /\ \/ code = CrcValid /\ next = "awaitConfirmation" /\ crcMatches(p)
             \/ code = CrcInvalidRetry /\ next = "sendFile"
             \/ code = CrcInvalidAbort /\ next = "awaitAbort"
  BY DEF ConfirmCrc, RequestRetry, AbortTransfer
<1>4. PICK request \in Request :
      /\ request = buildCrcStatus(clientId[p], code, currentFile(p)) /\ request.code = code /\ request.id = clientId[p]
      /\ request.file = FileName[currentFile(p)]
  <2>1. buildCrcStatus(clientId[p], code, currentFile(p)) \in Request
    BY <1>2, FileRequestTypes
  <2> QED  BY <2>1, BuiltRequests
<1>5. /\ Send(p, request, next, <<>>) /\ UNCHANGED <<clientId, files, fileIndex>>
  BY <1>1, <1>3, <1>4 DEF AnswerCrc, authVars
<1>6. /\ FileName[currentFile(p)] \notin verified[p]
      /\ stored[p][FileName[currentFile(p)]] = nextResponse(p).cksum
  BY <1>1 DEF answerTo
<1>7. pc'[p] = next => askedBy(p, request)'
  BY <1>2, <1>3, <1>4, <1>5, <1>6
  DEF askedBy, asksAt, currentFile, crcMatches, serverVars
<1>8. CASE code # CrcInvalidRetry
  <2>1. next \in Waiting  BY <1>3, <1>8
  <2> QED  BY <1>1, <1>4, <1>5, <1>7, <1>8, <2>1, Asks
<1>9. CASE code = CrcInvalidRetry
  <2>1. fileView(p)' = fileView(p)  BY <1>5 DEF fileView, serverVars
  <2>2. CASE Exit(p, "failed")
    <3>1. /\ pc'[p] = "failed" /\ socket'[p] = "closed" /\ inbound'[p] = <<>>
          /\ outbound'[p] = outbound[p]
      BY <2>2 DEF Exit, Goto, disconnect, ClientTypeOK, NetTypeOK, Terminated
    <3> QED  BY <1>1, <2>1, <3>1, ExitConversation DEF Terminated
  <2>3. CASE /\ Goto(p, next) /\ send(p, request) /\ UNCHANGED socket
             /\ inbound' = [inbound EXCEPT ![p] = <<>>]
    <3>1. /\ pc'[p] = "sendFile" /\ inbound'[p] = <<>> /\ socket'[p] = socket[p]
          /\ outbound'[p] = IF socket[p] = "up" THEN <<request>> ELSE <<>>
      BY <1>1, <1>3, <1>9, <2>3 DEF Goto, send, ClientTypeOK, NetTypeOK
    <3>2. Order(p)'  BY <1>4, <1>9, <3>1 DEF Order
    <3>3. Requests(p)'
      <4> SUFFICES ASSUME NEW m \in Range(outbound'[p])  PROVE askedBy(p, m)'
        BY DEF Requests
      <4>1. m = request  BY <3>1 DEF Range
      <4> QED  BY <1>3, <1>7, <1>9, <3>1, <4>1
    <3>4. Refused(p)' /\ Answers(p)'  BY <3>1, EmptyRange DEF Refused, Answers
    <3>5. Due(p)' /\ Socket(p)' /\ Ends(p)'
      BY <3>1 DEF Due, Socket, Ends, conversation
    <3>6. Delivered(p)'
      BY <1>1, <2>1, SameDelivered DEF conversation, Terminated
    <3> QED  BY <3>2, <3>3, <3>4, <3>5, <3>6 DEF conversation
  <2> QED  BY <1>5, <2>2, <2>3 DEF Send
<1> QED  BY <1>8, <1>9

\* A valid response moves a run on; what it confirms is intact.
LEMMA Receipts ==
    ASSUME TypeInv, NEW p \in Procs, conversation(p), NEW point \in Waiting, NEW code,
           NEW next \in Working \ {"connect"}, Receive(p, point, code, next),
           UNCHANGED <<files, serverVars>>,
           \/ point # "awaitConfirmation" /\ fileIndex' = fileIndex
           \/ /\ point = "awaitConfirmation"
              /\ fileIndex' = [fileIndex EXCEPT ![p] = @ + 1]
    PROVE  conversation(p)'
<1> USE Parts, AskPoints
<1>2. /\ Tail(inbound[p]) = <<>> /\ outbound[p] = <<>> /\ pc[p] = point
      /\ answerTo(p, nextResponse(p)) /\ socket[p] # "closed"
  BY ReceivedAnswer DEF Receive
<1>3. /\ inbound'[p] = <<>> /\ outbound'[p] = <<>> /\ pc'[p] = next
      /\ socket'[p] = socket[p]
  BY <1>2 DEF Receive, receive, Goto, ClientTypeOK, NetTypeOK
<1>4. Socket(p)'  BY <1>2, <1>3 DEF Socket, Running
<1>5. Delivered(p)'
  <2>1. CASE point # "awaitConfirmation" /\ fileIndex' = fileIndex
    <3>1. fileView(p)' = fileView(p)  BY <1>3, <2>1 DEF fileView, serverVars
    <3> QED  BY <1>2, <2>1, <3>1, SameDelivered, PointFacts DEF conversation
  <2>2. CASE point = "awaitConfirmation" /\ fileIndex' = [fileIndex EXCEPT ![p] = @ + 1]
    <3>1. /\ fileIndex[p] \in 1..Len(files[p]) /\ fileIndex'[p] = fileIndex[p] + 1
          /\ UNCHANGED <<files, stored, verified>>
      BY <1>2, <1>3, <2>2 DEF inHand, Transferring, ClientTypeOK, serverVars
    <3>2. intact(p, files[p][fileIndex[p]])
      BY <1>2, <2>2 DEF answerTo, currentFile
    <3>3. Delivered(p)  BY DEF conversation
    <3>4. \A f \in verified[p] : \E i \in 1..Len(files[p]) :
              i < fileIndex'[p] /\ FileName[files[p][i]] = f /\ stored[p][f] = files[p][i]
      BY <3>1, <3>3 DEF Delivered
    <3>5. ASSUME NEW i \in 1..Len(files[p]), i < fileIndex'[p]
          PROVE  \/ intact(p, files[p][i])
                 \/ \E j \in (i + 1)..Len(files[p]) :
                       j <= fileIndex'[p] /\ FileName[files[p][j]] = FileName[files[p][i]]
      <4>1. i < fileIndex[p] \/ i = fileIndex[p]  BY <3>1, <3>5
      <4>2. CASE i < fileIndex[p]
        BY <3>1, <3>3, <4>2 DEF Delivered
      <4> QED  BY <3>2, <4>1, <4>2
    <3> QED  BY <3>1, <3>4, <3>5 DEF Delivered, intact
  <2> QED  BY <2>1, <2>2
<1> QED  BY <1>3, <1>4, <1>5, MoveConversation

LEMMA ReceiveConversation ==
    ASSUME TypeInv, NEW p \in Procs, conversation(p), UNCHANGED serverVars,
           \/ ReceiveReconnectRejected(p) \/ ReceiveReconnectApproved(p)
           \/ ReceiveRegistration(p) \/ ReceiveAesKey(p) \/ ReceiveConfirmation(p)
    PROVE  conversation(p)'
<1> USE AskPoints
<1>1. {"removeMeInfo", "authenticated", "openMeInfo", "nextFile"}
          \subseteq Working \ {"connect"}
  BY DEF Working
<1>2. CASE ReceiveReconnectRejected(p)
  BY <1>1, <1>2, Receipts DEF ReceiveReconnectRejected, jobVars
<1>3. CASE ReceiveReconnectApproved(p)
  BY <1>1, <1>3, Receipts DEF ReceiveReconnectApproved, ReceiveKey, jobVars
<1>4. CASE ReceiveRegistration(p)
  BY <1>1, <1>4, Receipts DEF ReceiveRegistration, jobVars
<1>5. CASE ReceiveAesKey(p)
  BY <1>1, <1>5, Receipts DEF ReceiveAesKey, ReceiveKey, jobVars
<1>6. CASE ReceiveConfirmation(p)
  BY <1>1, <1>6, Receipts DEF ReceiveConfirmation
<1> QED  BY <1>2, <1>3, <1>4, <1>5, <1>6

\* A connection that breaks loses the end of what is under way.
LEMMA BreakConversation ==
    ASSUME TypeInv, NEW p \in Procs, conversation(p), Disconnection(p),
           UNCHANGED serverVars
    PROVE  conversation(p)'
<1> USE Parts
<1>1. PICK i \in 0..Len(outbound[p]), j \in 0..Len(inbound[p]) :
          /\ outbound'[p] = SubSeq(outbound[p], 1, i)
          /\ inbound'[p] = SubSeq(inbound[p], 1, j)
  BY DEF Disconnection, LinkBreaks, NetTypeOK
<1>2. /\ socket[p] = "up" /\ socket'[p] = "down" /\ pc'[p] = pc[p]
      /\ clientId'[p] = clientId[p] /\ fileView(p)' = fileView(p)
  BY DEF Disconnection, LinkBreaks, NetTypeOK, authVars, jobVars, fileView, serverVars
<1>3. /\ outbound[p] \in Seq(Request) /\ inbound[p] \in Seq(Response)
      /\ Len(outbound[p]) \in Nat /\ Len(inbound[p]) \in Nat
  BY DEF NetTypeOK
<1>4. /\ Len(outbound'[p]) = i /\ \A k \in 1..i : outbound'[p][k] = outbound[p][k]
      /\ Len(inbound'[p]) = j /\ \A k \in 1..j : inbound'[p][k] = inbound[p][k]
  BY <1>1, <1>3
<1>5. Order(p)' /\ Refused(p)'
  BY <1>3, <1>4 DEF conversation, Order, Refused
<1>6. Requests(p)'
  <2> SUFFICES ASSUME NEW m \in Range(outbound'[p])  PROVE askedBy(p, m)'
    BY DEF Requests
  <2>1. m \in Range(outbound[p])  BY <1>1, <1>3, RangeFacts
  <2>2. askedBy(p, m)  BY <2>1 DEF conversation, Requests
  <2> QED  BY <1>2, <2>2, SameRequest
<1>7. Answers(p)'
  <2> SUFFICES ASSUME NEW r \in Range(inbound'[p]), r.code \notin Refusals
               PROVE  answerTo(p, r)'
    BY DEF Answers
  <2>1. r \in Range(inbound[p])  BY <1>1, <1>3, RangeFacts
  <2>2. answerTo(p, r)  BY <2>1 DEF conversation, Answers
  <2>3. outbound'[p] = <<>>
    <3>1. i = 0  BY <1>3, <2>2, EmptyRange DEF answerTo
    <3> QED  BY <1>1, <1>3, <3>1
  <2> QED  BY <1>2, <2>2, <2>3 DEF answerTo, currentFile, intact, fileView
<1>8. Due(p)' /\ Socket(p)' /\ Ends(p)'
  <2>1. pc[p] \in Running \ {"connect"}  BY <1>2 DEF conversation, Socket
  <2> QED  BY <1>2, <2>1, PointFacts DEF Due, Socket, Ends, Running, Working, Waiting, acceptedCodes
<1>9. Delivered(p)'  BY <1>2, SameDelivered DEF conversation
<1> QED  BY <1>5, <1>6, <1>7, <1>8, <1>9 DEF conversation

-----------------------------------------------------------------------------
(* The steps of the server *)

\* The request the server handles next, and what is behind it.
LEMMA NextRequest ==
    ASSUME TypeInv, NEW c \in Procs, conversation(c), outbound[c] # <<>>
    PROVE  /\ nextRequest(c) \in Request /\ askedBy(c, nextRequest(c))
           /\ nextRequest(c).code # CrcInvalidRetry => Tail(outbound[c]) = <<>>
           /\ \A r \in Range(inbound[c]) : r.code \in Refusals
           /\ socket[c] = "up" => pc[c] \in Running
           /\ pc[c] # "idle"
<1> USE Parts
<1>1. /\ outbound[c] \in Seq(Request) /\ nextRequest(c) = outbound[c][1]
      /\ nextRequest(c) \in Request /\ nextRequest(c) \in Range(outbound[c])
      /\ 1 \in 1..Len(outbound[c])
  BY RangeFacts, HeadTailProperties DEF NetTypeOK, nextRequest
<1>2. nextRequest(c).code # CrcInvalidRetry => Tail(outbound[c]) = <<>>
  <2> SUFFICES ASSUME nextRequest(c).code # CrcInvalidRetry
               PROVE  Tail(outbound[c]) = <<>>
    OBVIOUS
  <2>1. Len(outbound[c]) = 1  BY <1>1 DEF conversation, Order
  <2>2. Tail(outbound[c]) \in Seq(Request) /\ Len(Tail(outbound[c])) = 0
    BY <1>1, <2>1, HeadTailProperties
  <2> QED  BY <2>2, EmptySeq
<1>3. askedBy(c, nextRequest(c))  BY <1>1 DEF conversation, Requests
<1>4. \A r \in Range(inbound[c]) : r.code \in Refusals
  BY DEF conversation, Answers, answerTo
<1>5. socket[c] = "up" => pc[c] \in Running  BY DEF conversation, Socket
<1>6. pc[c] # "idle"  BY DEF conversation, Ends
<1> QED  BY <1>1, <1>2, <1>3, <1>4, <1>5, <1>6

\* The server answers a request.
LEMMA ReplyConversation ==
    ASSUME TypeInv, NEW c \in Procs, conversation(c), outbound[c] # <<>>,
           nextRequest(c).code # CrcInvalidRetry,
           NEW r \in Response, Respond(c, r), UNCHANGED <<pc, files, fileIndex>>,
           socket[c] = "up" => r.code \notin Refusals /\ answerTo(c, r)', Delivered(c)'
    PROVE  conversation(c)'
<1> USE Parts
<1>1. /\ outbound'[c] = <<>> /\ socket'[c] = socket[c] /\ pc'[c] = pc[c]
      /\ inbound'[c] = IF socket[c] = "up" THEN Append(inbound[c], r) ELSE inbound[c]
  BY NextRequest DEF Respond, NetTypeOK
<1>2. inbound[c] \in Seq(Response)  BY DEF NetTypeOK
<1>3. \A i \in 1..Len(inbound[c]) : inbound[c][i].code \in Refusals
  BY <1>2, NextRequest, RangeFacts
<1>4. Order(c)' /\ Requests(c)'  BY <1>1, EmptyRange DEF Order, Requests
<1>5. Refused(c)'
  <2>1. CASE socket[c] = "up"
    <3>1. /\ inbound'[c] = Append(inbound[c], r) /\ Len(inbound'[c]) = Len(inbound[c]) + 1
          /\ inbound'[c][Len(inbound'[c])] = r
          /\ \A i \in 1..Len(inbound[c]) : inbound'[c][i] = inbound[c][i]
          /\ 1..Len(inbound'[c]) = 1..Len(inbound[c]) \cup {Len(inbound'[c])}
      BY <1>1, <1>2, <2>1
    <3> QED  BY <1>3, <2>1, <3>1 DEF conversation, Refused
  <2>2. CASE socket[c] # "up"
    BY <1>1, <2>2 DEF conversation, Refused
  <2> QED  BY <2>1, <2>2
<1>6. Answers(c)'
  <2> SUFFICES ASSUME NEW s \in Range(inbound'[c]), s.code \notin Refusals
               PROVE  answerTo(c, s)'
    BY DEF Answers
  <2>1. s \notin Range(inbound[c])  BY NextRequest
  <2>2. socket[c] = "up" /\ s = r  BY <1>1, <1>2, <2>1, RangeFacts
  <2> QED  BY <2>2
<1>7. Due(c)'
  <2>1. socket[c] = "up" => inbound'[c] # <<>>
    BY <1>1, <1>2, AppendProperties, EmptySeq
  <2> QED  BY <1>1, <2>1 DEF Due
<1>8. Socket(c)' /\ Ends(c)'
  BY <1>1, NextRequest DEF conversation, Socket, Ends
<1> QED  BY <1>4, <1>5, <1>6, <1>7, <1>8 DEF conversation

\* The server skips a request, or refuses it.
LEMMA TailConversation ==
    ASSUME TypeInv, NEW c \in Procs, conversation(c), outbound[c] # <<>>,
           outbound'[c] = Tail(outbound[c]), socket'[c] = socket[c],
           UNCHANGED <<pc, files, fileIndex, clientId, serverVars>>,
           \/ inbound'[c] = inbound[c] /\ nextRequest(c).code = CrcInvalidRetry
           \/ inbound'[c] = inbound[c] /\ socket[c] # "up"
           \/ "refuse" \in Faults /\ socket[c] = "up" /\ \E r \in Response :
                 r.code \in Refusals /\ inbound'[c] = Append(inbound[c], r)
    PROVE  conversation(c)'
<1> USE Parts
<1>1. /\ outbound[c] \in Seq(Request) /\ Len(outbound[c]) \in Nat /\ Len(outbound[c]) # 0
      /\ outbound'[c] \in Seq(Request) /\ Len(outbound'[c]) = Len(outbound[c]) - 1
      /\ \A i \in 1..Len(outbound'[c]) : outbound'[c][i] = outbound[c][i + 1]
      /\ Range(outbound'[c]) \subseteq Range(outbound[c])
      /\ nextRequest(c) = outbound[c][1]
  BY HeadTailProperties, RangeFacts, EmptySeq DEF NetTypeOK, nextRequest
<1>2. fileView(c)' = fileView(c) /\ pc'[c] = pc[c] /\ clientId'[c] = clientId[c]
  BY DEF fileView, serverVars
<1>3. Order(c)'
  BY <1>1 DEF conversation, Order
<1>4. Requests(c)'
  <2> SUFFICES ASSUME NEW m \in Range(outbound'[c])  PROVE askedBy(c, m)'
    BY DEF Requests
  <2>1. askedBy(c, m)  BY <1>1 DEF conversation, Requests
  <2> QED  BY <1>2, <2>1, SameRequest
<1>5. inbound[c] \in Seq(Response) /\ \A r \in Range(inbound[c]) : r.code \in Refusals
  BY NextRequest DEF NetTypeOK
<1>6. /\ \A r \in Range(inbound'[c]) : r.code \in Refusals
      /\ Refused(c)'
  <2>1. CASE inbound'[c] = inbound[c]
    BY <1>5, <2>1 DEF conversation, Refused
  <2>2. CASE inbound'[c] # inbound[c]
    <3>1. PICK r \in Response : r.code \in Refusals /\ inbound'[c] = Append(inbound[c], r)
      BY <2>2
    <3>2. \A s \in Range(inbound'[c]) : s.code \in Refusals
      BY <1>5, <3>1, RangeFacts
    <3>3. inbound'[c] \in Seq(Response)  BY <1>5, <3>1
    <3>4. \A i \in 1..Len(inbound'[c]) : inbound'[c][i].code \in Refusals
      BY <3>2, <3>3, RangeFacts
    <3> QED  BY <2>2, <3>2, <3>4 DEF Refused
  <2> QED  BY <2>1, <2>2
<1>7. Answers(c)'  BY <1>6 DEF Answers
<1>8. Due(c)'
  <2> SUFFICES ASSUME socket[c] = "up", pc[c] \in Waiting
               PROVE  inbound'[c] # <<>> \/ unanswered(c)' # {}
    BY <1>2 DEF Due
  <2>1. CASE inbound'[c] = inbound[c] /\ nextRequest(c).code = CrcInvalidRetry
    <3>1. CASE inbound[c] = <<>>
      <4>1. PICK i \in 1..Len(outbound[c]) : outbound[c][i].code # CrcInvalidRetry
        BY <3>1 DEF conversation, Due, unanswered
      <4>2. i - 1 \in 1..Len(outbound'[c]) /\ outbound'[c][i - 1] = outbound[c][i]
        BY <1>1, <2>1, <4>1
      <4> QED  BY <4>1, <4>2 DEF unanswered
    <3> QED  BY <2>1, <3>1
  <2>2. CASE \E r \in Response : inbound'[c] = Append(inbound[c], r)
    BY <1>5, <2>2, AppendProperties, EmptySeq
  <2> QED  BY <2>1, <2>2
<1>9. Socket(c)' /\ Ends(c)'
  BY <1>2, NextRequest DEF conversation, Socket, Ends
<1>10. Delivered(c)'  BY <1>2, SameDelivered DEF conversation
<1> QED  BY <1>3, <1>4, <1>6, <1>7, <1>8, <1>9, <1>10 DEF conversation

LEMMA ReplyFacts ==
    ASSUME NEW code, NEW id, NEW rsa, NEW key, NEW size, NEW content
    PROVE  /\ Reply(code, id).code = code /\ AesReply(code, id, rsa, key).code = code
           /\ CrcReply(id, size, content).code = FileReceivedWithCrc
           /\ CrcReply(id, size, content).cksum = content
BY DEF Reply, AesReply, CrcReply, response

\* The codes a run accepts, and which of them mean what.
LEMMA AcceptedFacts ==
    /\ acceptedCodes["awaitReconnect"] = {ReconnectApproved, ReconnectRejected}
    /\ acceptedCodes["awaitRegistration"] = {RegistrationSuccess}
    /\ acceptedCodes["awaitAesKey"] = {AesKeyReceived}
    /\ acceptedCodes["awaitCrc"] = {FileReceivedWithCrc}
    /\ acceptedCodes["awaitConfirmation"] = {MessageConfirmed}
    /\ acceptedCodes["awaitAbort"] = {MessageConfirmed}
    /\ FileReceivedWithCrc \notin {ReconnectApproved, ReconnectRejected,
                                  RegistrationSuccess, AesKeyReceived, MessageConfirmed}
    /\ Refusals \cap {ReconnectApproved, ReconnectRejected, RegistrationSuccess,
                      AesKeyReceived, MessageConfirmed, FileReceivedWithCrc} = {}
BY DEF acceptedCodes, Refusals, RegistrationSuccess, RegistrationFailed,
       AesKeyReceived, FileReceivedWithCrc, MessageConfirmed, ReconnectApproved,
       ReconnectRejected, GeneralError

\* Requests about the client say nothing of files.
LEMMA ClientReplies ==
    ASSUME TypeInv, NEW c \in Procs, conversation(c),
           UNCHANGED <<pc, files, fileIndex>>,
           \/ HandleRegistration(c) \/ HandlePublicKey(c)
           \/ ApproveReconnect(c) \/ RejectReconnect(c)
    PROVE  conversation(c)'
<1> USE Parts, DistinctCodes
<1>1. outbound[c] # <<>> /\ UNCHANGED <<stored, verified>>
  BY DEF HandleRegistration, HandlePublicKey, ApproveReconnect, RejectReconnect,
         Requested, serverVars
<1>2. Delivered(c)'
  BY <1>1, SameDelivered DEF conversation, fileView
<1> DEFINE m == nextRequest(c)
<1>3. m \in Request /\ askedBy(c, m)  BY <1>1, NextRequest
<1>4. PICK r \in Response :
          /\ Respond(c, r)
          /\ \/ m.code = Registration /\ r.code = RegistrationSuccess
             \/ m.code = SendPublicKey /\ r.code = AesKeyReceived
             \/ m.code = Reconnect /\ r.code \in {ReconnectApproved, ReconnectRejected}
  <2>1. CASE HandleRegistration(c)
    <3>1. Reply(RegistrationSuccess, c) \in Response  BY ResponseCodes, ReplyTypes
    <3> QED  BY <2>1, <3>1, ReplyFacts DEF HandleRegistration, Requested
  <2>2. CASE HandlePublicKey(c)
    <3>1. m.id \in Procs \cup {Nil} /\ m.pub \in Procs \cup {Nil}
      BY <1>3 DEF Request
    <3>2. AesReply(AesKeyReceived, m.id, m.pub, c) \in Response  BY <3>1, ReplyTypes
    <3> QED  BY <2>2, <3>2, ReplyFacts DEF HandlePublicKey, Requested
  <2>3. CASE ApproveReconnect(c)
    <3>1. m.id \in Procs  BY <1>3, <2>3 DEF ApproveReconnect, Requested, Request
    <3>2. registry[m.id].pub \in Procs \cup {Nil}  BY <3>1 DEF ServerTypeOK
    <3>3. AesReply(ReconnectApproved, m.id, registry[m.id].pub, c) \in Response
      BY <3>1, <3>2, ReplyTypes
    <3> QED  BY <2>3, <3>3, ReplyFacts DEF ApproveReconnect, Requested
  <2>4. CASE RejectReconnect(c)
    <3>1. m.id \in Procs  BY <1>3, <2>4 DEF RejectReconnect, Requested, Request
    <3>2. Reply(ReconnectRejected, m.id) \in Response
      BY <3>1, ResponseCodes, ReplyTypes
    <3> QED  BY <2>4, <3>2, ReplyFacts DEF RejectReconnect, Requested
  <2> QED  BY <2>1, <2>2, <2>3, <2>4
<1>5. m.code # CrcInvalidRetry  BY <1>4
<1>6. outbound'[c] = <<>>
  BY <1>1, <1>4, <1>5, NextRequest DEF Respond, NetTypeOK
<1>7. socket[c] = "up" => r.code \notin Refusals /\ answerTo(c, r)'
  <2> SUFFICES ASSUME socket[c] = "up"  PROVE r.code \notin Refusals /\ answerTo(c, r)'
    OBVIOUS
  <2>1. asksAt(pc[c], m.code)  BY <1>1, <1>3, <1>5, NextRequest DEF askedBy
  <2>2. \/ pc[c] = "awaitRegistration" /\ r.code = RegistrationSuccess
        \/ pc[c] = "awaitAesKey" /\ r.code = AesKeyReceived
        \/ pc[c] = "awaitReconnect" /\ r.code \in {ReconnectApproved, ReconnectRejected}
    BY <1>4, <2>1, CodeFacts
  <2> QED  BY <1>6, <2>2, AcceptedFacts, AskPoints DEF answerTo
<1> QED  BY <1>1, <1>2, <1>4, <1>5, <1>7, ReplyConversation

\* A file takes the place of an earlier one of its name, and is unconfirmed.
LEMMA FileReply ==
    ASSUME TypeInv, NEW c \in Procs, conversation(c), NEW content \in Paths \cup {Nil, Garbled},
           UNCHANGED <<pc, files, fileIndex>>, HandleFile(c, content)
    PROVE  conversation(c)'
<1> USE Parts, DistinctCodes
<1> DEFINE m == nextRequest(c)
<1>1. outbound[c] # <<>> /\ m.code = SendFile  BY DEF HandleFile, Requested
<1>2. m \in Request /\ askedBy(c, m)  BY <1>1, NextRequest
<1>3. /\ m.id \in Procs \cup {Nil} /\ m.file \in FileNames
      /\ fileIndex[c] \in 1..Len(files[c]) /\ m.file = FileName[currentFile(c)]
  BY <1>1, <1>2 DEF Request, askedBy, FileCodes, ClientTypeOK
<1>4. /\ stored'[c] = [stored[c] EXCEPT ![m.file] = content]
      /\ verified'[c] = verified[c] \ {m.file}
      /\ stored[c] \in [FileNames -> Paths \cup {Nil, Garbled}]
      /\ verified[c] \subseteq FileNames
  BY DEF HandleFile, ServerTypeOK
<1>5. PICK r \in Response :
          Respond(c, r) /\ r.code = FileReceivedWithCrc /\ r.cksum = content
  <2>1. CrcReply(m.id, CipherSize, content) \in Response  BY <1>3, ReplyTypes
  <2> QED  BY <2>1, ReplyFacts DEF HandleFile
<1>6. outbound'[c] = <<>>
  BY <1>1, <1>5, NextRequest DEF Respond, NetTypeOK
<1>7. Delivered(c)'
  <2>1. Delivered(c)  BY DEF conversation
  <2>2. \A f \in verified'[c] : f \in verified[c] /\ stored'[c][f] = stored[c][f]
    BY <1>4
  <2>3. \A f \in verified'[c] : \E i \in 1..Len(files[c]) :
            i <= fileIndex[c] /\ FileName[files[c][i]] = f /\ stored'[c][f] = files[c][i]
    BY <2>1, <2>2 DEF Delivered
  <2>4. ASSUME NEW i \in 1..Len(files[c]), i < fileIndex[c]
        PROVE  \/ intact(c, files[c][i])'
               \/ \E j \in (i + 1)..Len(files[c]) :
                     j <= fileIndex[c] /\ FileName[files[c][j]] = FileName[files[c][i]]
    <3>1. CASE FileName[files[c][i]] = m.file
      <4>1. fileIndex[c] \in (i + 1)..Len(files[c])  BY <1>3, <2>4
      <4> QED  BY <1>3, <3>1, <4>1 DEF currentFile
    <3>2. CASE FileName[files[c][i]] # m.file
      <4>1. intact(c, files[c][i]) => intact(c, files[c][i])'
        BY <1>4, <3>2 DEF intact
      <4> QED  BY <2>1, <2>4, <4>1 DEF Delivered
    <3> QED  BY <3>1, <3>2
  <2>5. namesDiffer(c)' <=> namesDiffer(c)  BY DEF namesDiffer
  <2> QED  BY <2>1, <2>2, <2>3, <2>4, <2>5 DEF Delivered
<1>8. socket[c] = "up" => r.code \notin Refusals /\ answerTo(c, r)'
  <2> SUFFICES ASSUME socket[c] = "up"  PROVE r.code \notin Refusals /\ answerTo(c, r)'
    OBVIOUS
  <2>1. pc[c] = "awaitCrc"
    BY <1>1, <1>2, CodeFacts, NextRequest DEF askedBy
  <2> QED  BY <1>3, <1>4, <1>5, <1>6, <2>1, AcceptedFacts, AskPoints
           DEF answerTo, currentFile
<1> QED  BY <1>1, <1>5, <1>7, <1>8, ReplyConversation

\* A confirmed file is the one the run is at, and is what the run read.
LEMMA ConfirmReply ==
    ASSUME TypeInv, NEW c \in Procs, conversation(c),
           UNCHANGED <<pc, files, fileIndex>>, HandleCrcValid(c)
    PROVE  conversation(c)'
<1> USE Parts, DistinctCodes
<1> DEFINE m == nextRequest(c)
<1>1. outbound[c] # <<>> /\ m.code = CrcValid  BY DEF HandleCrcValid, Requested
<1>2. m \in Request /\ askedBy(c, m)  BY <1>1, NextRequest
<1>3. /\ m.id \in Procs \cup {Nil} /\ m.file \in FileNames
      /\ fileIndex[c] \in 1..Len(files[c]) /\ m.file = FileName[currentFile(c)]
      /\ stored[c][m.file] = currentFile(c)
  BY <1>1, <1>2 DEF Request, askedBy, FileCodes, ClientTypeOK
<1>4. UNCHANGED stored /\ verified'[c] = verified[c] \cup {m.file}
  BY DEF HandleCrcValid, ServerTypeOK
<1>5. PICK r \in Response : Respond(c, r) /\ r.code = MessageConfirmed
  <2>1. Reply(MessageConfirmed, m.id) \in Response  BY <1>3, ResponseCodes, ReplyTypes
  <2> QED  BY <2>1, ReplyFacts DEF HandleCrcValid
<1>6. outbound'[c] = <<>>
  BY <1>1, <1>5, NextRequest DEF Respond, NetTypeOK
<1>7. intact(c, currentFile(c))'
  BY <1>3, <1>4 DEF intact, currentFile
<1>8. pc[c] \in {"awaitConfirmation"} \cup Terminated
  <2>1. CASE pc[c] \in Running
    BY <1>1, <1>2, <2>1, CodeFacts DEF askedBy
  <2>2. CASE pc[c] \notin Running
    BY <1>1, <2>2, NextRequest DEF ClientTypeOK
  <2> QED  BY <2>1, <2>2
<1>9. Delivered(c)'
  <2>1. Delivered(c)  BY DEF conversation
  <2>2. \A f \in verified'[c] : \E i \in 1..Len(files[c]) :
            i <= fileIndex[c] /\ FileName[files[c][i]] = f /\ stored[c][f] = files[c][i]
    <3> SUFFICES ASSUME NEW f \in verified'[c]
                 PROVE  \E i \in 1..Len(files[c]) :
                            /\ i <= fileIndex[c] /\ FileName[files[c][i]] = f
                            /\ stored[c][f] = files[c][i]
      OBVIOUS
    <3>1. CASE f \in verified[c]  BY <2>1, <3>1 DEF Delivered
    <3>2. CASE f = m.file  BY <1>3, <3>2 DEF currentFile
    <3> QED  BY <1>4, <3>1, <3>2
  <2>3. \A path \in Paths : intact(c, path) => intact(c, path)'
    BY <1>4 DEF intact
  <2>4. \A i \in 1..Len(files[c]) : files[c][i] \in Paths
    BY DEF ClientTypeOK
  <2> QED  BY <1>4, <1>8, <2>1, <2>2, <2>3, <2>4 DEF Delivered
<1>10. socket[c] = "up" => r.code \notin Refusals /\ answerTo(c, r)'
  <2> SUFFICES ASSUME socket[c] = "up"  PROVE r.code \notin Refusals /\ answerTo(c, r)'
    OBVIOUS
  <2>1. pc[c] = "awaitConfirmation"
    BY <1>1, <1>2, CodeFacts, NextRequest DEF askedBy
  <2> QED  BY <1>5, <1>6, <1>7, <2>1, AcceptedFacts, AskPoints DEF answerTo, currentFile
<1> QED  BY <1>1, <1>5, <1>9, <1>10, ReplyConversation

\* An aborted file was not confirmed.
LEMMA AbortReply ==
    ASSUME TypeInv, NEW c \in Procs, conversation(c),
           UNCHANGED <<pc, files, fileIndex>>, HandleAbort(c)
    PROVE  conversation(c)'
<1> USE Parts, DistinctCodes
<1> DEFINE m == nextRequest(c)
<1>1. outbound[c] # <<>> /\ m.code = CrcInvalidAbort  BY DEF HandleAbort, Requested
<1>2. m \in Request /\ askedBy(c, m)  BY <1>1, NextRequest
<1>3. m.id \in Procs \cup {Nil} /\ m.file \in FileNames /\ m.file \notin verified[c]
  BY <1>1, <1>2 DEF Request, askedBy
<1>4. UNCHANGED verified /\ \A f \in FileNames \ {m.file} : stored'[c][f] = stored[c][f]
  BY <1>3 DEF HandleAbort, ServerTypeOK
<1>5. PICK r \in Response : Respond(c, r) /\ r.code = MessageConfirmed
  <2>1. Reply(MessageConfirmed, m.id) \in Response  BY <1>3, ResponseCodes, ReplyTypes
  <2> QED  BY <2>1, ReplyFacts DEF HandleAbort
<1>6. outbound'[c] = <<>>
  BY <1>1, <1>5, NextRequest DEF Respond, NetTypeOK
<1>7. Delivered(c)'
  <2>1. Delivered(c) /\ verified[c] \subseteq FileNames
    BY DEF conversation, ServerTypeOK
  <2>2. \A f \in verified[c] : stored'[c][f] = stored[c][f]
    BY <1>3, <1>4, <2>1
  <2>3. \A path : intact(c, path) => intact(c, path)'
    BY <1>4, <2>2 DEF intact
  <2> QED  BY <1>4, <2>1, <2>2, <2>3 DEF Delivered, namesDiffer
<1>8. socket[c] = "up" => r.code \notin Refusals /\ answerTo(c, r)'
  <2> SUFFICES ASSUME socket[c] = "up"  PROVE r.code \notin Refusals /\ answerTo(c, r)'
    OBVIOUS
  <2>1. pc[c] = "awaitAbort"
    BY <1>1, <1>2, CodeFacts, NextRequest DEF askedBy
  <2> QED  BY <1>5, <1>6, <2>1, AcceptedFacts, AskPoints DEF answerTo
<1> QED  BY <1>1, <1>5, <1>7, <1>8, ReplyConversation

LEMMA ServerConversation ==
    ASSUME TypeInv, NEW c \in Procs, conversation(c), ServerMoves(c),
           "faulty" \notin Faults
    PROVE  conversation(c)'
<1> USE Parts
<1>1. UNCHANGED <<pc, files, fileIndex, clientId>>
  BY DEF ServerMoves, HonestStep, FaultyStep, jobVars, authVars
<1>2. ASSUME outbound[c] # <<>>  PROVE nextRequest(c) \in Request
  BY <1>2, NextRequest
<1>3. CASE HonestStep(c)
  <2>1. CASE \/ HandleRegistration(c) \/ HandlePublicKey(c)
             \/ ApproveReconnect(c) \/ RejectReconnect(c)
    BY <1>1, <2>1, ClientReplies
  <2>2. CASE outbound[c] # <<>> /\ HandleFile(c, decrypted(c, nextRequest(c)))
    <3>1. PICK content \in Paths \cup {Nil, Garbled} : HandleFile(c, content)
      BY <1>2, <2>2 DEF decrypted, Request
    <3> QED  BY <1>1, <3>1, FileReply
  <2>3. CASE HandleCrcValid(c)  BY <1>1, <2>3, ConfirmReply
  <2>4. CASE HandleAbort(c)  BY <1>1, <2>4, AbortReply
  <2>5. CASE HandleRetry(c)
    <3>1. /\ outbound[c] # <<>> /\ nextRequest(c).code = CrcInvalidRetry
          /\ outbound'[c] = Tail(outbound[c]) /\ inbound'[c] = inbound[c]
          /\ socket'[c] = socket[c] /\ UNCHANGED serverVars
      BY <2>5 DEF HandleRetry, Requested, Done, NetTypeOK
    <3> QED  BY <1>1, <3>1, TailConversation
  <2> QED  BY <1>3, <2>1, <2>2, <2>3, <2>4, <2>5 DEF HonestStep, ServerStep
<1>4. CASE FaultyStep(c)
  <2>1. CASE CorruptFile(c)
    BY <1>1, <2>1, FileReply DEF CorruptFile
  <2>2. CASE Refuse(c) /\ "refuse" \in Faults
    <3>1. PICK code \in {RegistrationFailed, GeneralError} : Respond(c, Reply(code, Nil))
      BY <2>2 DEF Refuse
    <3>2. PICK r \in Response : r.code \in Refusals /\ Respond(c, r)
      <4>1. Reply(code, Nil) \in Response  BY ResponseCodes, ReplyTypes
      <4> QED  BY <3>1, <4>1, ReplyFacts DEF Refusals
    <3>3. /\ outbound[c] # <<>> /\ outbound'[c] = Tail(outbound[c])
          /\ socket'[c] = socket[c] /\ UNCHANGED serverVars
          /\ inbound'[c] = IF socket[c] = "up" THEN Append(inbound[c], r) ELSE inbound[c]
      BY <2>2, <3>2 DEF Refuse, Respond, NetTypeOK
    <3> QED  BY <1>1, <2>2, <3>2, <3>3, TailConversation
  <2> QED  BY <1>4, <2>1, <2>2 DEF FaultyStep, Fault
<1> QED  BY <1>3, <1>4 DEF ServerMoves

-----------------------------------------------------------------------------
(* All steps *)

\* A step of one run, or of the server on its connection, is no other run's.
LEMMA OthersKeepView ==
    ASSUME TypeInv, NEW p \in Procs, NEW q \in Procs \ {p}, ClientMoves(p) \/ ServerMoves(p)
    PROVE  view(q)' = view(q)
<1> USE Parts
<1>1. CASE ServerMoves(p)
  <2>1. UNCHANGED <<pc, files, fileIndex, clientId>>
    BY <1>1 DEF ServerMoves, HonestStep, FaultyStep, jobVars, authVars
  <2>2. /\ socket'[q] = socket[q] /\ outbound'[q] = outbound[q] /\ inbound'[q] = inbound[q]
        /\ stored'[q] = stored[q] /\ verified'[q] = verified[q]
    <3>1. ASSUME NEW r, Respond(p, r)
          PROVE  /\ socket'[q] = socket[q] /\ outbound'[q] = outbound[q]
                 /\ inbound'[q] = inbound[q]
      BY <3>1 DEF Respond, NetTypeOK
    <3>2. CASE HandleRegistration(p) \/ HandlePublicKey(p) \/ RejectReconnect(p)
               \/ ApproveReconnect(p) \/ Refuse(p) \/ FaultyReply(p)
      BY <3>1, <3>2 DEF HandleRegistration, HandlePublicKey, RejectReconnect,
                        ApproveReconnect, Refuse, FaultyReply, serverVars
    <3>3. CASE HandleRetry(p)
      BY <3>3 DEF HandleRetry, Done, NetTypeOK, serverVars
    <3>4. ASSUME NEW content, HandleFile(p, content)
          PROVE  /\ socket'[q] = socket[q] /\ outbound'[q] = outbound[q]
                 /\ inbound'[q] = inbound[q]
                 /\ stored'[q] = stored[q] /\ verified'[q] = verified[q]
      BY <3>1, <3>4 DEF HandleFile, ServerTypeOK
    <3>5. CASE HandleCrcValid(p) \/ HandleAbort(p)
      BY <3>1, <3>5 DEF HandleCrcValid, HandleAbort, ServerTypeOK
    <3> QED  BY <1>1, <3>2, <3>3, <3>4, <3>5
             DEF ServerMoves, HonestStep, ServerStep, FaultyStep, CorruptFile
  <2> QED  BY <2>1, <2>2 DEF view
<1>2. CASE ClientMoves(p)
  <2>1. UNCHANGED <<stored, verified>>  BY <1>2 DEF ClientMoves, serverVars
  <2>2. ASSUME NEW verdict, Exit(p, verdict)
        PROVE  /\ pc'[q] = pc[q] /\ socket'[q] = socket[q] /\ inbound'[q] = inbound[q]
               /\ outbound'[q] = outbound[q]
    BY <2>2 DEF Exit, Goto, disconnect, ClientTypeOK, NetTypeOK
  <2>3. ASSUME NEW request, NEW next, NEW unread, Send(p, request, next, unread)
        PROVE  /\ pc'[q] = pc[q] /\ socket'[q] = socket[q] /\ inbound'[q] = inbound[q]
               /\ outbound'[q] = outbound[q]
    BY <2>2, <2>3 DEF Send, send, Goto, ClientTypeOK, NetTypeOK
  <2>4. ASSUME NEW point, NEW code, NEW next, Receive(p, point, code, next)
        PROVE  /\ pc'[q] = pc[q] /\ socket'[q] = socket[q] /\ inbound'[q] = inbound[q]
               /\ outbound'[q] = outbound[q]
    BY <2>4 DEF Receive, receive, Goto, ClientTypeOK, NetTypeOK
  <2>5. CASE \/ SaveFails(p) \/ AllFilesSent(p) \/ ContentSizeMismatch(p)
             \/ ReceiveAbortAck(p) \/ ReceiveResponseFails(p) \/ Crash(p)
    BY <2>1, <2>2, <2>5
    DEF SaveFails, AllFilesSent, ContentSizeMismatch, ReceiveAbortAck,
        ReceiveResponseFails, Crash, authVars, jobVars, view
  <2>6. CASE \/ LoadTransferInfo(p) \/ Connect(p) \/ Authenticate(p) \/ LoadPrivateKey(p)
             \/ InvalidCredentials(p) \/ RemoveMeInfo(p) \/ RemovePrivKey(p)
    BY <2>1, <2>6
    DEF LoadTransferInfo, loadTransferInfo, Connect, connect, Authenticate, LoadPrivateKey,
        InvalidCredentials, RemoveMeInfo, RemovePrivKey, DiskStep, At, Goto, ClientTypeOK,
        NetTypeOK, netVars, authVars, jobVars, view
  <2>7. CASE OpenMeInfo(p) \/ WriteMeInfo(p) \/ OpenPrivKey(p) \/ WritePrivKey(p)
    BY <2>1, <2>7
    DEF OpenMeInfo, WriteMeInfo, OpenPrivKey, WritePrivKey, DiskStep, Goto, ClientTypeOK,
        netVars, authVars, jobVars, view
  <2>8. CASE CheckAesKey(p) \/ PrepareFile(p)
    BY <2>1, <2>2, <2>8
    DEF CheckAesKey, PrepareFile, Goto, ClientTypeOK, netVars, authVars, jobVars, view
  <2>9. CASE SendReconnect(p) \/ SendRegistration(p) \/ SendKey(p) \/ TransmitFile(p)
    BY <2>1, <2>3, <2>9
    DEF SendReconnect, SendRegistration, SendKey, TransmitFile, ClientTypeOK, authVars,
        jobVars, view
  <2>10. CASE ConfirmCrc(p) \/ RequestRetry(p) \/ AbortTransfer(p)
    BY <2>1, <2>3, <2>10
    DEF ConfirmCrc, RequestRetry, AbortTransfer, AnswerCrc, authVars, view
  <2>11. CASE \/ ReceiveReconnectRejected(p) \/ ReceiveReconnectApproved(p)
              \/ ReceiveRegistration(p) \/ ReceiveAesKey(p) \/ ReceiveConfirmation(p)
    BY <2>1, <2>4, <2>11
    DEF ReceiveReconnectRejected, ReceiveReconnectApproved, ReceiveRegistration,
        ReceiveAesKey, ReceiveConfirmation, ReceiveKey, ClientTypeOK, authVars, jobVars,
        view
  <2>12. CASE Disconnection(p)
    BY <2>1, <2>12
    DEF Disconnection, LinkBreaks, NetTypeOK, authVars, jobVars, view
  <2> QED  BY <1>2, <2>5, <2>6, <2>7, <2>8, <2>9, <2>10, <2>11, <2>12
           DEF ClientMoves, ClientStep, RunStep
<1> QED  BY <1>1, <1>2

LEMMA TransferInvInit == Init => TransferInv
<1> SUFFICES ASSUME Init, NEW p \in Procs  PROVE conversation(p)
  BY DEF TransferInv
<1>1. /\ pc[p] = "idle" /\ socket[p] = "closed" /\ outbound[p] = <<>> /\ inbound[p] = <<>>
      /\ files[p] = <<>> /\ fileIndex[p] = 1 /\ verified[p] = {}
  BY DEF Init, ClientInit, NetInit, ServerInit
<1>2. Order(p) /\ Requests(p) /\ Refused(p) /\ Answers(p) /\ Delivered(p)
  BY <1>1, EmptyRange DEF Order, Requests, Refused, Answers, Delivered
<1>3. Due(p) /\ Socket(p) /\ Ends(p)
  BY <1>1 DEF Due, Socket, Ends
<1> QED  BY <1>2, <1>3 DEF conversation

LEMMA TransferInvStep ==
    ASSUME TypeInv, TransferInv, [Next]_vars, "faulty" \notin Faults
    PROVE  TransferInv'
<1>1. ASSUME NEW p \in Procs, ClientMoves(p) \/ ServerMoves(p)  PROVE TransferInv'
  <2> SUFFICES ASSUME NEW q \in Procs  PROVE conversation(q)'
    BY DEF TransferInv
  <2>1. CASE q # p
    BY <1>1, <2>1, OthersKeepView, SameView DEF TransferInv
  <2>2. CASE q = p
    <3>1. conversation(p)  BY DEF TransferInv
    <3>2. CASE ClientMoves(p)
      <4>1. UNCHANGED serverVars  BY <3>2 DEF ClientMoves
      <4> QED  BY <2>2, <3>1, <3>2, <4>1, EndConversation, LocalConversation, AskSteps,
                  CrcSteps, ReceiveConversation, BreakConversation
               DEF ClientMoves, ClientStep, RunStep
    <3>3. CASE ServerMoves(p)  BY <2>2, <3>1, <3>3, ServerConversation
    <3> QED  BY <1>1, <3>2, <3>3
  <2> QED  BY <2>1, <2>2
<1>2. CASE UNCHANGED vars
  <2> SUFFICES ASSUME NEW q \in Procs  PROVE conversation(q)'
    BY DEF TransferInv
  <2>1. view(q)' = view(q)
    BY <1>2 DEF vars, clientVars, netVars, serverVars, view
  <2> QED  BY <2>1, SameView DEF TransferInv
<1> QED  BY <1>1, <1>2 DEF Next, AllDone

-----------------------------------------------------------------------------
(* What follows *)

LEMMA LockstepFollows ==
    ASSUME TypeInv, TransferInv, "refuse" \notin Faults
    PROVE  Lockstep
<1> SUFFICES ASSUME NEW p \in Procs, socket[p] = "up"
             PROVE  Cardinality(unanswered(p)) + Len(inbound[p])
                        = (IF pc[p] \in Waiting THEN 1 ELSE 0)
  BY DEF Lockstep
<1> USE Parts
<1>1. /\ conversation(p) /\ inbound[p] \in Seq(Response) /\ outbound[p] \in Seq(Request)
      /\ Len(outbound[p]) \in Nat
  BY DEF TransferInv, NetTypeOK
<1>2. unanswered(p) \subseteq {Len(outbound[p])}
  BY <1>1 DEF conversation, Order, unanswered
<1>3. Cardinality({}) = 0 /\ Cardinality({Len(outbound[p])}) = 1
  BY FS_EmptySet, FS_Singleton
<1>4. CASE inbound[p] # <<>>
  <2>1. /\ 1 \in 1..Len(inbound[p]) /\ inbound[p][1] \in Range(inbound[p])
        /\ Len(inbound[p]) \in Nat
    BY <1>1, <1>4, EmptySeq, RangeFacts
  <2>2. Refused(p)  BY <1>1 DEF conversation
  <2>3. inbound[p][1].code \notin Refusals /\ Len(inbound[p]) = 1
    BY <2>1, <2>2 DEF Refused
  <2>4. outbound[p] = <<>> /\ pc[p] \in Waiting
    BY <1>1, <2>1, <2>3 DEF conversation, Answers, answerTo
  <2>5. unanswered(p) = {}  BY <2>4 DEF unanswered
  <2> QED  BY <1>3, <2>3, <2>4, <2>5
<1>5. CASE inbound[p] = <<>> /\ pc[p] \in Waiting
  <2>1. unanswered(p) = {Len(outbound[p])}
    BY <1>1, <1>2, <1>5 DEF conversation, Due
  <2> QED  BY <1>3, <1>5, <2>1, EmptyRange
<1>6. CASE inbound[p] = <<>> /\ pc[p] \notin Waiting
  <2>1. pc[p] \in Running  BY <1>1 DEF conversation, Socket
  <2>2. unanswered(p) = {}  BY <1>1, <1>6, <2>1, QuietWire DEF unanswered
  <2> QED  BY <1>3, <1>6, <2>2, EmptyRange
<1> QED  BY <1>4, <1>5, <1>6

LEMMA IntactFollows ==
    ASSUME TypeInv, TransferInv
    PROVE  VerifiedIntact /\ KeptUnlessReplaced
<1>1. ASSUME NEW p \in Procs
      PROVE  Delivered(p) /\ fileIndex[p] \in Nat /\ Len(files[p]) \in Nat
  BY Parts DEF TransferInv, conversation, ClientTypeOK
<1>2. VerifiedIntact
  <2> SUFFICES ASSUME NEW p \in Procs, NEW f \in verified[p]
               PROVE  \E i \in 1..Len(files[p]) :
                          FileName[files[p][i]] = f /\ intact(p, files[p][i])
    BY DEF VerifiedIntact
  <2> QED  BY <1>1 DEF Delivered, intact
<1>3. KeptUnlessReplaced
  <2> SUFFICES ASSUME NEW p \in Procs, NEW i \in 1..(fileIndex[p] - 1)
               PROVE  \/ intact(p, files[p][i])
                      \/ \E j \in (i + 1)..Len(files[p]) :
                            /\ j <= fileIndex[p]
                            /\ FileName[files[p][j]] = FileName[files[p][i]]
    BY DEF KeptUnlessReplaced
  <2>1. i \in 1..Len(files[p]) /\ i < fileIndex[p]  BY <1>1 DEF Delivered
  <2> QED  BY <1>1, <2>1 DEF Delivered
<1> QED  BY <1>2, <1>3

LEMMA TransferInvariant ==
    ASSUME "faulty" \notin Faults
    PROVE  Spec => [](TypeInv /\ TransferInv)
<1>1. Init => TypeInv /\ TransferInv  BY TypeInvInit, TransferInvInit
<1>2. TypeInv /\ TransferInv /\ [Next]_vars => TypeInv' /\ TransferInv'
  BY TypeInvStep, TransferInvStep
<1> QED  BY <1>1, <1>2, PTL DEF Spec

\* While a run waits on a connection that is up, exactly one request or response
\* is under way, and none while it does not wait, a request to retry apart: the
\* 901 that transferAndVerify sends before it transmits the file again has no
\* response.  A server that refuses a request is left out: it may refuse a 901 too.
THEOREM ClientAndServerInLockstep ==
    ASSUME {"faulty", "refuse"} \cap Faults = {}
    PROVE  Spec => []Lockstep
<1>1. "faulty" \notin Faults /\ "refuse" \notin Faults  OBVIOUS
<1>2. TypeInv /\ TransferInv => Lockstep  BY <1>1, LockstepFollows
<1> QED  BY <1>1, <1>2, TransferInvariant, PTL

\* What a run has confirmed with a 900 is on the server as the run read it from its
\* disk, although transmissions get corrupted, are repeated and abandoned.
THEOREM ConfirmedFilesIntact ==
    ASSUME "faulty" \notin Faults
    PROVE  Spec => []VerifiedIntact
<1>1. TypeInv /\ TransferInv => VerifiedIntact  BY IntactFollows
<1> QED  BY <1>1, TransferInvariant, PTL

\* A file that the loop of run has moved past is on the server, confirmed and
\* intact, unless a later file of the list with the same last component of its
\* path has taken its place.
THEOREM PassedFilesKept ==
    ASSUME "faulty" \notin Faults
    PROVE  Spec => []KeptUnlessReplaced
<1>1. TypeInv /\ TransferInv => KeptUnlessReplaced  BY IntactFollows
<1> QED  BY <1>1, TransferInvariant, PTL

-----------------------------------------------------------------------------
(* The promise of a run *)

\* What the refinement mapping of System says of run p.
theJob(p)   == IF namesDiffer(p) THEN files[p] ELSE <<>>
theCount(p) == IF namesDiffer(p) THEN prefixDelivered(p) ELSE 0
barred(p)   == <<transferPhase(p), theJob(p), theCount(p)>>

\* There is one prefix that is delivered and cannot be longer.
LEMMA PrefixUnique ==
    ASSUME NEW p \in Procs, NEW n \in 0..Len(files[p]), Len(files[p]) \in Nat,
           \A i \in 1..n : intact(p, files[p][i]),
           n < Len(files[p]) => ~intact(p, files[p][n + 1])
    PROVE  prefixDelivered(p) = n
<1> DEFINE P(k) == /\ \A i \in 1..k : intact(p, files[p][i])
                   /\ k < Len(files[p]) => ~intact(p, files[p][k + 1])
<1>1. P(n)  OBVIOUS
<1>2. ASSUME NEW k \in 0..Len(files[p]), P(k)  PROVE k = n
  <2>1. CASE k < n  BY <1>1, <1>2, <2>1
  <2>2. CASE n < k  BY <1>1, <1>2, <2>2
  <2> QED  BY <2>1, <2>2
<1>3. prefixDelivered(p) = CHOOSE k \in 0..Len(files[p]) : P(k)
  BY DEF prefixDelivered
<1> HIDE DEF P
<1> QED  BY <1>1, <1>2, <1>3

\* The loop is at the file that the prefix ends with, or at the one after it.
LEMMA PrefixValue ==
    ASSUME TypeInv, NEW p \in Procs, conversation(p), namesDiffer(p)
    PROVE  /\ fileIndex[p] \in 1..(Len(files[p]) + 1) /\ Len(files[p]) \in Nat
           /\ prefixDelivered(p) = IF fileIndex[p] <= Len(files[p])
                                      /\ FileName[currentFile(p)] \in verified[p]
                                   THEN fileIndex[p] ELSE fileIndex[p] - 1
<1>1. /\ Delivered(p) /\ fileIndex[p] \in 1..(Len(files[p]) + 1) /\ Len(files[p]) \in Nat
  BY Parts DEF conversation, Delivered, ClientTypeOK
<1>2. \A i \in 1..Len(files[p]) : i < fileIndex[p] => intact(p, files[p][i])
  BY <1>1 DEF Delivered, namesDiffer
<1>3. \A i \in 1..Len(files[p]) : FileName[files[p][i]] \in verified[p] =>
          i <= fileIndex[p] /\ stored[p][FileName[files[p][i]]] = files[p][i]
  BY <1>1 DEF Delivered, namesDiffer
<1>4. CASE fileIndex[p] <= Len(files[p]) /\ FileName[currentFile(p)] \in verified[p]
  <2>1. fileIndex[p] \in 1..Len(files[p])  BY <1>1, <1>4
  <2>2. intact(p, files[p][fileIndex[p]])
    BY <1>3, <1>4, <2>1 DEF intact, currentFile
  <2>3. \A i \in 1..fileIndex[p] : intact(p, files[p][i])
    BY <1>1, <1>2, <2>1, <2>2
  <2>4. fileIndex[p] < Len(files[p]) => ~intact(p, files[p][fileIndex[p] + 1])
    BY <1>1, <1>3 DEF intact
  <2> QED  BY <1>1, <1>4, <2>3, <2>4, PrefixUnique
<1>5. CASE ~(fileIndex[p] <= Len(files[p]) /\ FileName[currentFile(p)] \in verified[p])
  <2>1. fileIndex[p] - 1 \in 0..Len(files[p])  BY <1>1
  <2>2. \A i \in 1..(fileIndex[p] - 1) : intact(p, files[p][i])
    BY <1>1, <1>2
  <2>3. fileIndex[p] - 1 < Len(files[p]) => ~intact(p, files[p][(fileIndex[p] - 1) + 1])
    BY <1>1, <1>5 DEF intact, currentFile
  <2>4. prefixDelivered(p) = fileIndex[p] - 1
    BY <1>1, <2>1, <2>2, <2>3, PrefixUnique
  <2> QED  BY <1>1, <1>5, <2>4
<1> QED  BY <1>1, <1>4, <1>5

\* The same, of all runs and of the state after a step.
PrefixValues ==
    \A p \in Procs : namesDiffer(p) =>
        prefixDelivered(p) = IF fileIndex[p] <= Len(files[p])
                                /\ FileName[currentFile(p)] \in verified[p]
                             THEN fileIndex[p] ELSE fileIndex[p] - 1

LEMMA PrefixesHold == TypeInv /\ TransferInv => PrefixValues
BY PrefixValue DEF TransferInv, PrefixValues

LEMMA PrefixesHoldNext == TypeInv' /\ TransferInv' => PrefixValues'
BY PrefixesHold, PTL

LEMMA SameBarred ==
    ASSUME NEW p \in Procs, files'[p] = files[p], stored'[p] = stored[p],
           verified'[p] = verified[p], transferPhase(p)' = transferPhase(p)
    PROVE  barred(p)' = barred(p)
<1>1. namesDiffer(p)' <=> namesDiffer(p)  BY DEF namesDiffer
<1>2. prefixDelivered(p)' = prefixDelivered(p)
  BY DEF prefixDelivered, intact
<1> QED  BY <1>1, <1>2 DEF barred, theJob, theCount

LEMMA SameViewBarred ==
    ASSUME NEW p \in Procs, view(p)' = view(p)
    PROVE  barred(p)' = barred(p)
<1>1. /\ files'[p] = files[p] /\ stored'[p] = stored[p] /\ verified'[p] = verified[p]
      /\ pc'[p] = pc[p]
  BY DEF view
<1>2. transferPhase(p)' = transferPhase(p)
  BY <1>1 DEF transferPhase, namesDiffer
<1> QED  BY <1>1, <1>2, SameBarred

-----------------------------------------------------------------------------
(* The steps of FileTransfer that the steps of a run and of the server are *)

promised(p) ==
    \/ barred(p)' = barred(p)
    \/ /\ transferPhase(p) = "idle" /\ transferPhase(p)' = "active"
       /\ theJob(p)' \in FileLists /\ theCount(p)' = theCount(p)
    \/ /\ transferPhase(p) \in {"active", "failed"} /\ transferPhase(p)' = transferPhase(p)
       /\ theJob(p)' = theJob(p)
       /\ theCount(p) < Len(theJob(p)) /\ theCount(p)' = theCount(p) + 1
    \/ /\ transferPhase(p) = "active" /\ transferPhase(p)' = "succeeded"
       /\ theCount(p) = Len(theJob(p))
       /\ theJob(p)' = theJob(p) /\ theCount(p)' = theCount(p)
    \/ /\ transferPhase(p) \in {"idle", "active"} /\ transferPhase(p)' = "failed"
       /\ theJob(p)' = theJob(p) /\ theCount(p)' = theCount(p)

\* A run that was given a list with a name in it twice has promised nothing.
LEMMA NoPromise ==
    ASSUME NEW p \in Procs, ~namesDiffer(p), files'[p] = files[p]
    PROVE  promised(p)
<1>1. ~namesDiffer(p)'  BY DEF namesDiffer
<1>2. transferPhase(p)' = transferPhase(p)  BY <1>1 DEF transferPhase
<1> QED  BY <1>1, <1>2 DEF barred, theJob, theCount, promised

\* The points of a run, and the phase of its promise.
LEMMA Phases ==
    ASSUME NEW p \in Procs, namesDiffer(p)
    PROVE  /\ pc[p] \in Running => transferPhase(p) = "active"
           /\ pc[p] \in {"failed", "crashed"} => transferPhase(p) = "failed"
           /\ pc[p] = "succeeded" => transferPhase(p) = "succeeded"
           /\ pc[p] = "idle" => transferPhase(p) = "idle"
BY DEF transferPhase, Running, Working, Waiting, acceptedCodes

\* Where the steps of a run after its start go.
LEMMA RunPoints ==
    ASSUME TypeInv, NEW p \in Procs, ClientMoves(p), ~LoadTransferInfo(p)
    PROVE  /\ files'[p] = files[p] /\ stored'[p] = stored[p] /\ verified'[p] = verified[p]
           /\ \/ pc'[p] = pc[p]
              \/ /\ pc[p] \in Running
                 /\ pc'[p] \in Running \cup {"failed", "crashed"}
              \/ /\ pc[p] \in Running /\ pc'[p] = "succeeded"
                 /\ fileIndex[p] > Len(files[p])
<1> USE Parts, AskPoints
<1>1. stored' = stored /\ verified' = verified  BY DEF ClientMoves, serverVars
<1>2. ASSUME NEW verdict, Exit(p, verdict)  PROVE pc'[p] = verdict
  BY <1>2 DEF Exit, Goto, ClientTypeOK
<1>3. ASSUME NEW request, NEW next, NEW unread, Send(p, request, next, unread)
      PROVE  pc'[p] \in {next, "failed"}
  BY <1>2, <1>3 DEF Send, Goto, ClientTypeOK
<1>4. CASE \/ SaveFails(p) \/ AllFilesSent(p) \/ ContentSizeMismatch(p)
           \/ ReceiveAbortAck(p) \/ ReceiveResponseFails(p) \/ Crash(p)
  <2>1. pc[p] \in Running /\ UNCHANGED jobVars
    BY <1>4
    DEF SaveFails, AllFilesSent, ContentSizeMismatch, ReceiveAbortAck,
        ReceiveResponseFails, Crash, Received, At, Running, Working
  <2>2. \/ pc'[p] \in {"failed", "crashed"}
        \/ pc'[p] = "succeeded" /\ fileIndex[p] > Len(files[p])
    BY <1>2, <1>4
    DEF SaveFails, AllFilesSent, ContentSizeMismatch, ReceiveAbortAck,
        ReceiveResponseFails, Crash
  <2> QED  BY <1>1, <2>1, <2>2 DEF jobVars
<1>5. CASE \/ Connect(p) \/ Authenticate(p) \/ LoadPrivateKey(p)
           \/ InvalidCredentials(p) \/ RemoveMeInfo(p) \/ RemovePrivKey(p)
           \/ OpenMeInfo(p) \/ WriteMeInfo(p) \/ OpenPrivKey(p) \/ WritePrivKey(p)
  BY <1>1, <1>5
  DEF Connect, Authenticate, LoadPrivateKey, InvalidCredentials, RemoveMeInfo,
      RemovePrivKey, OpenMeInfo, WriteMeInfo, OpenPrivKey, WritePrivKey, DiskStep, At, Goto,
      ClientTypeOK, jobVars, Running, Working
<1>6. CASE CheckAesKey(p) \/ PrepareFile(p)
  BY <1>1, <1>2, <1>6
  DEF CheckAesKey, PrepareFile, At, Goto, ClientTypeOK, jobVars, Running, Working
<1>7. CASE SendReconnect(p) \/ SendRegistration(p) \/ SendKey(p) \/ TransmitFile(p)
  BY <1>1, <1>3, <1>7
  DEF SendReconnect, SendRegistration, SendKey, TransmitFile, At, jobVars
<1>8. CASE ConfirmCrc(p) \/ RequestRetry(p) \/ AbortTransfer(p)
  BY <1>1, <1>3, <1>8
  DEF ConfirmCrc, RequestRetry, AbortTransfer, AnswerCrc, CrcArrived, Received, At
<1>9. CASE \/ ReceiveReconnectRejected(p) \/ ReceiveReconnectApproved(p)
           \/ ReceiveRegistration(p) \/ ReceiveAesKey(p) \/ ReceiveConfirmation(p)
  <2>1. ASSUME NEW point, NEW code, NEW next, Receive(p, point, code, next)
        PROVE  pc[p] = point /\ pc'[p] = next
    BY <2>1 DEF Receive, Received, At, Goto, ClientTypeOK
  <2> QED
    BY <1>1, <1>9, <2>1
    DEF ReceiveReconnectRejected, ReceiveReconnectApproved, ReceiveRegistration,
        ReceiveAesKey, ReceiveConfirmation, ReceiveKey, jobVars, Running, Working
<1>10. CASE Disconnection(p)
  BY <1>1, <1>10 DEF Disconnection, jobVars
<1> QED  BY <1>4, <1>5, <1>6, <1>7, <1>8, <1>9, <1>10 DEF ClientMoves, ClientStep, RunStep

LEMMA ClientPromise ==
    ASSUME TypeInv, NEW p \in Procs, conversation(p), ClientMoves(p)
    PROVE  promised(p)
<1> USE Parts
<1>1. CASE LoadTransferInfo(p)
  <2>1. /\ pc[p] = "idle" /\ pc'[p] \in {"connect", "failed"}
        /\ pc'[p] = "connect" => files'[p] \in FileLists
        /\ pc'[p] = "failed" => files'[p] = files[p]
        /\ stored' = stored /\ verified' = verified
    BY <1>1
    DEF LoadTransferInfo, loadTransferInfo, At, Goto, ClientTypeOK, ClientMoves, serverVars
  <2>2. files[p] = <<>> /\ fileIndex[p] = 1 /\ verified[p] = {}
    BY <2>1 DEF conversation, Ends
  <2>3. namesDiffer(p) /\ transferPhase(p) = "idle" /\ theJob(p) = <<>> /\ theCount(p) = 0
    <3>1. namesDiffer(p)  BY <2>2 DEF namesDiffer
    <3>2. prefixDelivered(p) = 0  BY <2>2, PrefixUnique
    <3> QED  BY <2>1, <2>2, <3>1, <3>2, Phases DEF theJob, theCount
  <2>4. CASE pc'[p] = "failed"
    <3>1. namesDiffer(p)'  BY <2>1, <2>3, <2>4 DEF namesDiffer
    <3>2. prefixDelivered(p)' = prefixDelivered(p)
      BY <2>1, <2>4 DEF prefixDelivered, intact
    <3>3. transferPhase(p)' = "failed"  BY <2>4, <3>1 DEF transferPhase
    <3> QED  BY <2>1, <2>3, <2>4, <3>1, <3>2, <3>3 DEF promised, theJob, theCount
  <2>5. CASE pc'[p] = "connect" /\ ~namesDiffer(p)'
    <3>1. transferPhase(p)' = "idle"  BY <2>5 DEF transferPhase
    <3> QED  BY <2>3, <2>5, <3>1 DEF promised, barred, theJob, theCount
  <2>6. CASE pc'[p] = "connect" /\ namesDiffer(p)'
    <3>1. transferPhase(p)' = "active"  BY <2>6 DEF transferPhase
    <3>2. Len(files'[p]) \in Nat  BY <2>1, <2>6, ClientAssumption DEF ClientAssumption
    <3>3. prefixDelivered(p)' = 0
      <4> DEFINE P(n) == /\ \A i \in 1..n : intact(p, files[p][i])'
                         /\ n < Len(files'[p]) => ~intact(p, files[p][n + 1])'
      <4>1. \A path : ~intact(p, path)'  BY <2>1, <2>2 DEF intact
      <4>2. P(0)  BY <2>1, <2>2 DEF intact
      <4>3. \A n \in 0..Len(files'[p]) : P(n) => n = 0
        BY <2>1, <2>2, <3>2 DEF intact
      <4>4. prefixDelivered(p)' = CHOOSE n \in 0..Len(files'[p]) : P(n)
        BY DEF prefixDelivered
      <4> HIDE DEF P
      <4> QED  BY <3>2, <4>2, <4>3, <4>4
    <3> QED  BY <2>1, <2>3, <2>6, <3>1, <3>3 DEF promised, theJob, theCount
  <2> QED  BY <2>1, <2>4, <2>5, <2>6
<1>2. CASE ~LoadTransferInfo(p) /\ namesDiffer(p)
  <2>1. /\ files'[p] = files[p] /\ stored'[p] = stored[p] /\ verified'[p] = verified[p]
    BY <1>2, RunPoints
  <2>2. namesDiffer(p)' /\ prefixDelivered(p)' = prefixDelivered(p)
    BY <1>2, <2>1 DEF namesDiffer, prefixDelivered, intact
  <2>3. theJob(p)' = theJob(p) /\ theCount(p)' = theCount(p) /\ theJob(p) = files[p]
    BY <1>2, <2>1, <2>2 DEF theJob, theCount
  <2>4. CASE pc'[p] = pc[p] \/ (pc[p] \in Running /\ pc'[p] \in Running)
    <3>1. transferPhase(p)' = transferPhase(p)
      BY <1>2, <2>2, <2>4 DEF transferPhase, Running, Working, Waiting, acceptedCodes
    <3> QED  BY <2>1, <3>1, SameBarred DEF promised
  <2>5. CASE pc[p] \in Running /\ pc'[p] \in {"failed", "crashed"}
    <3>1. transferPhase(p)' = "failed"  BY <2>2, <2>5 DEF transferPhase
    <3> QED  BY <1>2, <2>3, <2>5, <3>1, Phases DEF promised
  <2>6. CASE pc[p] \in Running /\ pc'[p] = "succeeded" /\ fileIndex[p] > Len(files[p])
    <3>1. transferPhase(p)' = "succeeded"  BY <2>2, <2>6 DEF transferPhase
    <3>2. prefixDelivered(p) = Len(files[p])  BY <1>2, <2>6, PrefixValue
    <3> QED  BY <1>2, <2>3, <2>6, <3>1, <3>2, Phases DEF promised, theCount
  <2> QED  BY <1>2, <2>4, <2>5, <2>6, RunPoints
<1>3. CASE ~LoadTransferInfo(p) /\ ~namesDiffer(p)
  BY <1>3, RunPoints, NoPromise
<1> QED  BY <1>1, <1>2, <1>3

\* The server delivers a file when it handles its confirmation, and not before; what
\* replaces or removes a file comes before that.
LEMMA ServerPromise ==
    ASSUME TypeInv, TransferInv, TypeInv', TransferInv', NEW c \in Procs, ServerMoves(c)
    PROVE  promised(c)
<1> USE Parts, DistinctCodes
<1>0. conversation(c)  BY DEF TransferInv
<1>1. UNCHANGED <<pc, files, fileIndex, clientId>>
  BY DEF ServerMoves, HonestStep, FaultyStep, jobVars, authVars
<1>2. (namesDiffer(c)' <=> namesDiffer(c)) /\ transferPhase(c)' = transferPhase(c)
  BY <1>1 DEF transferPhase, namesDiffer
<1>3. currentFile(c)' = currentFile(c)  BY <1>1 DEF currentFile
<1> DEFINE m == nextRequest(c)
           open == fileIndex[c] <= Len(files[c]) /\ FileName[currentFile(c)] \in verified[c]
<1>4. ASSUME namesDiffer(c)
      PROVE  /\ theJob(c) = files[c] /\ theJob(c)' = theJob(c)
             /\ fileIndex[c] \in 1..(Len(files[c]) + 1) /\ Len(files[c]) \in Nat
             /\ theCount(c) = IF open THEN fileIndex[c] ELSE fileIndex[c] - 1
             /\ theCount(c)' = IF open' THEN fileIndex[c] ELSE fileIndex[c] - 1
  <2>1. /\ prefixDelivered(c) = IF open THEN fileIndex[c] ELSE fileIndex[c] - 1
        /\ fileIndex[c] \in 1..(Len(files[c]) + 1) /\ Len(files[c]) \in Nat
    BY <1>0, <1>4, PrefixValue
  <2>2. prefixDelivered(c)' = IF open' THEN fileIndex'[c] ELSE fileIndex'[c] - 1
    BY <1>2, <1>4, PrefixesHoldNext DEF PrefixValues
  <2> QED  BY <1>1, <1>2, <1>4, <2>1, <2>2 DEF theJob, theCount
<1>5. CASE ~namesDiffer(c)  BY <1>1, <1>5, NoPromise
<1>6. CASE namesDiffer(c) /\ UNCHANGED <<stored, verified>>
  BY <1>1, <1>2, <1>6, SameBarred DEF promised
<1>7. ASSUME namesDiffer(c), (open' <=> open)  PROVE promised(c)
  BY <1>2, <1>4, <1>7 DEF promised, barred, theJob, theCount
<1>8. ASSUME outbound[c] # <<>>, m.code \in FileCodes, namesDiffer(c)
      PROVE  /\ ~open /\ fileIndex[c] <= Len(files[c]) /\ m.file = FileName[currentFile(c)]
             /\ verified[c] \subseteq FileNames /\ pc[c] \notin {"idle", "succeeded"}
  <2>1. askedBy(c, m) /\ pc[c] # "idle"  BY <1>0, <1>8, NextRequest
  <2>2. fileIndex[c] <= Len(files[c])  BY <1>8, <2>1 DEF askedBy
  <2>3. pc[c] # "succeeded"
    BY <1>0, <1>4, <1>8, <2>2 DEF conversation, Ends
  <2> QED  BY <1>8, <2>1, <2>2, <2>3 DEF askedBy, ServerTypeOK
<1>9. ASSUME NEW content, HandleFile(c, content), namesDiffer(c)  PROVE promised(c)
  <2>1. outbound[c] # <<>> /\ m.code = SendFile /\ verified'[c] = verified[c] \ {m.file}
    BY <1>9 DEF HandleFile, Requested, ServerTypeOK
  <2>2. ~open /\ ~open'  BY <1>1, <1>3, <1>8, <1>9, <2>1 DEF FileCodes
  <2> QED  BY <1>7, <1>9, <2>2
<1>10. CASE HandleAbort(c) /\ namesDiffer(c)
  <2>1. verified' = verified  BY <1>10 DEF HandleAbort
  <2> QED  BY <1>1, <1>3, <1>7, <1>10, <2>1
<1>11. CASE HandleCrcValid(c) /\ namesDiffer(c)
  <2>1. outbound[c] # <<>> /\ m.code = CrcValid /\ verified'[c] = verified[c] \cup {m.file}
    BY <1>11 DEF HandleCrcValid, Requested, ServerTypeOK
  <2>2. ~open /\ open' /\ fileIndex[c] <= Len(files[c])
    BY <1>1, <1>3, <1>8, <1>11, <2>1 DEF FileCodes
  <2>3. pc[c] \in Running \cup {"failed", "crashed"}
    BY <1>8, <1>11, <2>1 DEF FileCodes, ClientTypeOK, Terminated
  <2>4. transferPhase(c) \in {"active", "failed"}  BY <1>11, <2>3, Phases
  <2>5. /\ theCount(c) = fileIndex[c] - 1 /\ theCount(c)' = fileIndex[c]
        /\ theJob(c) = files[c] /\ theJob(c)' = theJob(c)
        /\ fileIndex[c] <= Len(files[c]) /\ fileIndex[c] \in Nat /\ Len(files[c]) \in Nat
    BY <1>4, <1>11, <2>2
  <2> QED  BY <1>2, <2>4, <2>5 DEF promised
<1>12. CASE \/ HandleRegistration(c) \/ HandlePublicKey(c) \/ ApproveReconnect(c)
            \/ RejectReconnect(c) \/ HandleRetry(c) \/ Refuse(c) \/ FaultyReply(c)
  <2>1. UNCHANGED <<stored, verified>>
    BY <1>12
    DEF HandleRegistration, HandlePublicKey, ApproveReconnect, RejectReconnect,
        HandleRetry, Refuse, FaultyReply, serverVars
  <2> QED  BY <1>5, <1>6, <2>1
<1> QED
  BY <1>5, <1>9, <1>10, <1>11, <1>12
  DEF ServerMoves, HonestStep, FaultyStep, ServerStep, CorruptFile

\* A step is one of the promise of one run.
LEMMA PromiseStep ==
    ASSUME NEW p \in Procs, promised(p), \A q \in Procs \ {p} : barred(q)' = barred(q)
    PROVE  [Transfer!TransferNext]_(Transfer!transferVars)
<1> DEFINE ph == [q \in Procs |-> transferPhase(q)]
           jb == [q \in Procs |-> theJob(q)]
           dl == [q \in Procs |-> theCount(q)]
<1>1. \A q \in Procs \ {p} : /\ transferPhase(q)' = transferPhase(q)
                            /\ theJob(q)' = theJob(q) /\ theCount(q)' = theCount(q)
  BY DEF barred, theJob, theCount
<1>2. CASE barred(p)' = barred(p)
  <2>1. ph' = ph /\ jb' = jb /\ dl' = dl
    BY <1>1, <1>2 DEF barred, theJob, theCount
  <2> QED  BY <2>1 DEF Transfer!transferVars, theJob, theCount
<1>3. CASE /\ transferPhase(p) = "idle" /\ transferPhase(p)' = "active"
           /\ theJob(p)' \in FileLists /\ theCount(p)' = theCount(p)
  <2>1. Transfer!Begin(p)
    <3>1. ph' = [ph EXCEPT ![p] = "active"]  BY <1>1, <1>3
    <3>2. jb' = [jb EXCEPT ![p] = theJob(p)']  BY <1>1, <1>3
    <3>3. dl' = dl  BY <1>1, <1>3
    <3> QED  BY <1>3, <3>1, <3>2, <3>3 DEF Transfer!Begin, theJob, theCount
  <2> QED  BY <2>1 DEF Transfer!TransferNext
<1>4. CASE /\ transferPhase(p) \in {"active", "failed"}
           /\ transferPhase(p)' = transferPhase(p) /\ theJob(p)' = theJob(p)
           /\ theCount(p) < Len(theJob(p)) /\ theCount(p)' = theCount(p) + 1
  <2>1. Transfer!Deliver(p)
    <3>1. ph' = ph /\ jb' = jb  BY <1>1, <1>4
    <3>2. dl' = [dl EXCEPT ![p] = @ + 1]  BY <1>1, <1>4
    <3> QED  BY <1>4, <3>1, <3>2 DEF Transfer!Deliver, theJob, theCount
  <2> QED  BY <2>1 DEF Transfer!TransferNext
<1>5. CASE /\ transferPhase(p) = "active" /\ transferPhase(p)' = "succeeded"
           /\ theCount(p) = Len(theJob(p))
           /\ theJob(p)' = theJob(p) /\ theCount(p)' = theCount(p)
  <2>1. Transfer!Succeed(p)
    <3>1. ph' = [ph EXCEPT ![p] = "succeeded"]  BY <1>1, <1>5
    <3>2. jb' = jb /\ dl' = dl  BY <1>1, <1>5
    <3> QED  BY <1>5, <3>1, <3>2 DEF Transfer!Succeed, theJob, theCount
  <2> QED  BY <2>1 DEF Transfer!TransferNext
<1>6. CASE /\ transferPhase(p) \in {"idle", "active"} /\ transferPhase(p)' = "failed"
           /\ theJob(p)' = theJob(p) /\ theCount(p)' = theCount(p)
  <2>1. Transfer!Fail(p)
    <3>1. ph' = [ph EXCEPT ![p] = "failed"]  BY <1>1, <1>6
    <3>2. jb' = jb /\ dl' = dl  BY <1>1, <1>6
    <3> QED  BY <1>6, <3>1, <3>2 DEF Transfer!Fail, theJob, theCount
  <2> QED  BY <2>1 DEF Transfer!TransferNext
<1> QED  BY <1>2, <1>3, <1>4, <1>5, <1>6 DEF promised

LEMMA PromiseInit == Init => Transfer!TransferInit
<1> SUFFICES ASSUME Init  PROVE Transfer!TransferInit
  OBVIOUS
<1>1. ASSUME NEW p \in Procs
      PROVE  transferPhase(p) = "idle" /\ theJob(p) = <<>> /\ theCount(p) = 0
  <2>1. pc[p] = "idle" /\ files[p] = <<>> /\ verified[p] = {}
    BY DEF Init, ClientInit, ServerInit
  <2>2. namesDiffer(p)  BY <2>1 DEF namesDiffer
  <2>3. prefixDelivered(p) = 0  BY <2>1, PrefixUnique
  <2> QED  BY <2>1, <2>2, <2>3, Phases DEF theJob, theCount
<1> QED  BY <1>1 DEF Transfer!TransferInit, theJob, theCount

LEMMA PromiseNext ==
    ASSUME TypeInv, TransferInv, TypeInv', TransferInv', [Next]_vars
    PROVE  [Transfer!TransferNext]_(Transfer!transferVars)
<1>1. CASE UNCHANGED vars
  <2>1. \A p \in Procs : barred(p)' = barred(p)
    BY <1>1, SameViewBarred DEF view, vars, clientVars, netVars, serverVars
  <2>2. \A p \in Procs : /\ transferPhase(p)' = transferPhase(p)
                        /\ theJob(p)' = theJob(p) /\ theCount(p)' = theCount(p)
    BY <2>1 DEF barred, theJob, theCount
  <2> QED  BY <2>2 DEF Transfer!transferVars, theJob, theCount
<1>2. ASSUME NEW p \in Procs, ClientMoves(p) \/ ServerMoves(p)
      PROVE  [Transfer!TransferNext]_(Transfer!transferVars)
  <2>1. conversation(p)  BY DEF TransferInv
  <2>2. promised(p)  BY <1>2, <2>1, ClientPromise, ServerPromise
  <2>3. \A q \in Procs \ {p} : barred(q)' = barred(q)
    BY <1>2, OthersKeepView, SameViewBarred
  <2> QED  BY <2>2, <2>3, PromiseStep
<1> QED  BY <1>1, <1>2 DEF Next, AllDone

\* A run whose files have names of their own delivers a prefix of its list at any
\* time, one file after the other, and returns true only when that is all of it;
\* TransferClient::run and the server it talks to implement FileTransfer.
THEOREM RunsKeepPromise ==
    ASSUME "faulty" \notin Faults
    PROVE  Spec => PromiseKept
<1>1. Init => Transfer!TransferInit  BY PromiseInit
<1>2. /\ TypeInv /\ TransferInv /\ TypeInv' /\ TransferInv'
      /\ [Next]_vars
      => [Transfer!TransferNext]_(Transfer!transferVars)
  BY PromiseNext
<1> QED  BY <1>1, <1>2, TransferInvariant, PTL DEF Spec, PromiseKept, Transfer!TransferSpec
=============================================================================
