------------------------------- MODULE System -------------------------------
(***************************************************************************)
(* Runs of the client, the credentials they leave to one another on disk,   *)
(* their connections and the server.                                       *)
(***************************************************************************)
EXTENDS TransferClient, Server, FiniteSets

vars == <<clientVars, netVars, diskVars, serverVars>>

Init == ClientInit /\ NetInit /\ DiskInit /\ ServerInit

\* The server does what it should with the next request of connection c.
HonestStep(c) == ServerStep(c) /\ UNCHANGED <<pc, hit>>

\* It does not.
FaultyStep(c) ==
    /\ \/ CorruptFile(c) /\ Fault("corrupt", c)
       \/ Refuse(c) /\ Fault("refuse", c)
       \/ FaultyReply(c) /\ Fault("faulty", c)
    /\ UNCHANGED pc

ServerMoves(c) ==
    /\ HonestStep(c) \/ FaultyStep(c)
    /\ UNCHANGED <<diskVars, authVars, jobVars>>

ClientMoves(p) ==
    /\ ClientStep(p) \/ Crash(p) \/ Disconnection(p)
    /\ UNCHANGED serverVars

\* Every run has come to its end; nothing is left to happen.
AllDone ==
    /\ \A p \in Procs : pc[p] \in Terminated
    /\ UNCHANGED vars

Next == (\E p \in Procs : ClientMoves(p) \/ ServerMoves(p)) \/ AllDone

Spec == Init /\ [][Next]_vars

\* A write to a live connection returns: the kernel has room for the whole request.
\* boost::asio::write has no timeout, so that it takes a server that reads.
WriteReturns(p) == /\ ClientStep(p) /\ UNCHANGED serverVars
                   /\ socket[p] = "up"
                   /\ outbound'[p] # outbound[p]

\* What the system alone sees to: a process that can run runs, and the kernel delivers
\* what arrives and reports what breaks.  A write to a live connection is not among it.
ProcessStep(p) == /\ ClientStep(p) /\ UNCHANGED serverVars
                  /\ socket[p] = "up" => outbound'[p] = outbound[p]

\* Nothing obliges a fault to happen, nor the server to read or to answer.
FairSpec == Spec /\ \A p \in Procs : WF_vars(ProcessStep(p))

-----------------------------------------------------------------------------
(* Properties *)

\* Every variable has a value of its type.
TypeOK == ClientTypeOK /\ NetTypeOK /\ DiskTypeOK /\ ServerTypeOK

\* What a run has in hand at each point: a name once it has loaded its
\* configuration, an ID and a key pair while it saves and announces them, an
\* AES key and a file while it transfers.
Saving == {"openMeInfo", "writeMeInfo", "openPrivKey", "writePrivKey",
           "sendPublicKey"}
Transferring == {"sendFile", "awaitCrc", "awaitConfirmation", "awaitAbort"}
inHand(p, point) ==
    /\ point \in Running => clientName[p] \in Names
    /\ point \in Saving => clientId[p] \in Procs /\ privateKey[p] \in Procs
    /\ point \in {"nextFile"} \cup Transferring => aesKey[p] \in Procs
    /\ point \in Transferring => fileIndex[p] <= Len(files[p])
ControlOK == \A p \in Procs : inHand(p, pc[p])

\* Past authenticate, a run holds the AES key the server uses on its
\* connection, whichever of the stored keys it took to decrypt it with and
\* however the runs before it ended (tryReconnect, saveClientInfo,
\* removeClientInfo).
Authenticated == {"authenticated", "nextFile", "sendFile", "awaitCrc",
                  "awaitConfirmation", "awaitAbort", "succeeded"}
KeyAgreement == \A p \in Procs : pc[p] \in Authenticated => aesKey[p] = p

\* A reconnect request names the client as it registered: the two lines of
\* me.info that saveClientInfo wrote stay together whatever happens to the
\* write, and a changed name in transfer.json does not reach the request.
IdentityConsistent ==
    \A p \in Procs : \A i \in 1..Len(outbound[p]) :
        LET m == outbound[p][i]
        IN  m.code = Reconnect => registry[m.id].name = m.name

\* No run fails because of what an earlier run, crashed or failed at any
\* point, left on the disk: only a fault of its own makes a run fail.
RunRecovers == \A p \in Procs : pc[p] = "failed" => p \in hit

\* While a run waits, exactly one request or response is under way between it
\* and the server, and none while it does not wait.  A request to retry, which
\* has no response, is the exception the client and the server must agree on.
unanswered(p) == {i \in 1..Len(outbound[p]) : outbound[p][i].code # CrcInvalidRetry}
Lockstep ==
    \A p \in Procs : socket[p] = "up" =>
        Cardinality(unanswered(p)) + Len(inbound[p]) = (IF pc[p] \in Waiting THEN 1 ELSE 0)

\* What a client has confirmed to the server is what the client read from its
\* disk, although transmissions get corrupted and files are sent again.
intact(p, path) == /\ FileName[path] \in verified[p]
                   /\ stored[p][FileName[path]] = path
VerifiedIntact ==
    \A p \in Procs : \A f \in verified[p] :
        \E i \in 1..Len(files[p]) : FileName[files[p][i]] = f /\ intact(p, files[p][i])

\* A file the loop of run has moved past is on the server, confirmed, intact.  Paths
\* may share a last component, or be listed twice, and the server knows a file by
\* that component alone (createEncryptedFile sends filename()): the only file of the
\* list that may have taken the place of one is a later one of the same name.
KeptUnlessReplaced ==
    \A p \in Procs : \A i \in 1..(fileIndex[p] - 1) :
        \/ intact(p, files[p][i])
        \/ \E j \in (i + 1)..Len(files[p]) :
              j <= fileIndex[p] /\ FileName[files[p][j]] = FileName[files[p][i]]

\* A usable identity is not thrown away: no run replaces or removes the
\* credentials of a client that the server knows and has never rejected.
usable(u) == /\ meInfo.uuid = u
             /\ privKey = u
             /\ registry[u].pub = u
             /\ pc[u] \notin Running
SavedIdentityKept ==
    [][\A u \in Procs : usable(u) /\ ~usable(u)' => u \in rejected]_vars

\* The promise of a run, FileTransfer, is kept: a prefix of the list is on the
\* server, confirmed and intact, at any time, it only ever grows by the next
\* file, and it is the whole list before run returns true.  It is a promise about
\* lists of files with names of their own; a run of another list is left out.
namesDiffer(p) ==
    \A i, j \in 1..Len(files[p]) : FileName[files[p][i]] = FileName[files[p][j]] => i = j
transferPhase(p) ==
    IF ~namesDiffer(p) THEN "idle"
    ELSE IF pc[p] \in {"idle", "succeeded", "failed"} THEN pc[p]
    ELSE IF pc[p] = "crashed" THEN "failed" ELSE "active"
prefixDelivered(p) ==
    LET whole(n) == \A i \in 1..n : intact(p, files[p][i])
    IN  CHOOSE n \in 0..Len(files[p]) :
            whole(n) /\ (n < Len(files[p]) => ~intact(p, files[p][n + 1]))

Transfer == INSTANCE FileTransfer
    WITH Clients <- Procs,
         Jobs <- FileLists,
         phase <- [p \in Procs |-> transferPhase(p)],
         job <- [p \in Procs |-> IF namesDiffer(p) THEN files[p] ELSE <<>>],
         delivered <- [p \in Procs |-> IF namesDiffer(p) THEN prefixDelivered(p) ELSE 0]

PromiseKept == Transfer!TransferSpec

\* Every run comes to an end if the server works through what it is sent, be it with
\* answers that make no sense: it reads, so that a write under way returns, and it
\* handles each request sooner or later.
ServerWorks(c) == \/ HonestStep(c) /\ UNCHANGED <<diskVars, authVars, jobVars>>
                  \/ WriteReturns(c)
ServerAnswers == \A c \in Procs : WF_vars(ServerWorks(c))
Termination ==
    ServerAnswers => \A p \in Procs : pc[p] \in Running ~> pc[p] \in Terminated

\* Nothing but its server blocks a run: one that never ends stays, from some point on,
\* in one call on an open connection.  Either it is in receiveExact, with nothing to
\* read and a request with the server that has an answer (the two never wait for one
\* another), or in send, whose bytes the server does not take.  Neither has a timeout.
inReceive(p) == /\ pc[p] \in Waiting
                /\ inbound[p] = <<>>
                /\ unanswered(p) # {}
inSend(p) == \/ pc[p] \in {"register", "sendPublicKey", "sendFile"}
             \/ pc[p] = "loadClientInfo" /\ credentialsLoaded(p)
             \/ CrcArrived(p)
OnlySilenceBlocks ==
    \A p \in Procs : \/ <>[](pc[p] \notin Running)
                     \/ <>[](socket[p] = "up" /\ inReceive(p))
                     \/ <>[](socket[p] = "up" /\ inSend(p))
=============================================================================
