--------------------------- MODULE TransferClient ---------------------------
(***************************************************************************)
(* Runs of the client program: TransferClient::run and everything it calls  *)
(* (TransferClient.cpp).  Each element of Procs is one execution of main.   *)
(* Executions follow one another and share me.info and priv.key.  An action *)
(* is the code from one point where the run blocks on the network, or where *)
(* a crash leaves a different disk behind, to the next; pc names that point. *)
(* A definition that follows a comment "Mutation of D" is D with a mistake   *)
(* in it; nothing uses it.                                                 *)
(***************************************************************************)
EXTENDS NetworkClient, ConfigManager, CryptoHelper

CONSTANTS
    FileLists,         \* the "files" lists that transfer.json may hold
    MAX_CRC_ATTEMPTS,  \* transmissions of one file (4 in Protocol.h)
    Faults             \* the kinds of fault that may happen

FaultKinds ==
    {"config",   \* transfer.json is missing or invalid
     "crash",    \* the process dies
     "disk",     \* a file cannot be opened, written to the end or removed
     "file",     \* a listed file is missing or cannot be encrypted
     "link",     \* the server is unreachable, or a connection breaks
     "corrupt",  \* the server ends up with other content than was sent
     "refuse",   \* the server answers a request with 1601 or 1607
     "faulty"}   \* the server answers with any response at all

ASSUME ClientAssumption ==
    /\ FileLists \subseteq Seq(Paths)
    /\ MAX_CRC_ATTEMPTS \in Nat \ {0}
    /\ Faults \subseteq FaultKinds

VARIABLES
    pc,          \* where each run stands
    clientName,  \* transferInfo.clientName
    files,       \* transferInfo.files
    clientId,    \* TransferClient::clientId
    privKeyOpt,  \* local of tryReconnect
    privateKey,  \* CryptoHelper::privateKey
    aesKey,      \* decryptedAesKey
    fileIndex,   \* position in files of the loop in run
    attempt,     \* local of transferAndVerify
    hit          \* observation: the runs that met a fault

authVars == <<clientId, privKeyOpt, privateKey, aesKey>>
jobVars  == <<clientName, files, fileIndex, attempt>>
clientVars == <<pc, clientName, files, clientId, privKeyOpt, privateKey,
                aesKey, fileIndex, attempt, hit>>

\* Where a run waits for a response, and the codes it accepts there.
acceptedCodes ==
    [awaitReconnect    |-> {ReconnectApproved, ReconnectRejected},
     awaitRegistration |-> {RegistrationSuccess},
     awaitAesKey       |-> {AesKeyReceived},
     awaitCrc          |-> {FileReceivedWithCrc},
     awaitConfirmation |-> {MessageConfirmed},
     awaitAbort        |-> {MessageConfirmed}]

Waiting    == DOMAIN acceptedCodes
Terminated == {"succeeded", "failed", "crashed"}
Working    == {"connect", "authenticate", "tryReconnect", "loadClientInfo",
               "removeMeInfo", "removePrivKey", "register", "openMeInfo",
               "writeMeInfo", "openPrivKey", "writePrivKey", "sendPublicKey",
               "authenticated", "nextFile", "sendFile"}
Running    == Working \cup Waiting

ClientTypeOK ==
    /\ pc \in [Procs -> {"idle"} \cup Running \cup Terminated]
    /\ clientName \in [Procs -> Names \cup {Nil}]
    /\ files \in [Procs -> Seq(Paths)]
    /\ clientId \in [Procs -> Procs \cup {Nil}]
    /\ privKeyOpt \in [Procs -> Procs \cup {Nil, Torn}]
    /\ privateKey \in [Procs -> Procs \cup {Nil}]
    /\ aesKey \in [Procs -> Procs \cup {Nil, ShortKey}]
    /\ fileIndex \in [Procs -> Nat \ {0}]
    /\ attempt \in [Procs -> 1..MAX_CRC_ATTEMPTS]
    /\ hit \subseteq Procs

ClientInit ==
    /\ pc = [p \in Procs |-> "idle"]
    /\ clientName = [p \in Procs |-> Nil]
    /\ files = [p \in Procs |-> <<>>]
    /\ clientId = [p \in Procs |-> Nil]
    /\ privKeyOpt = [p \in Procs |-> Nil]
    /\ privateKey = [p \in Procs |-> Nil]
    /\ aesKey = [p \in Procs |-> Nil]
    /\ fileIndex = [p \in Procs |-> 1]
    /\ attempt = [p \in Procs |-> 1]
    /\ hit = {}

-----------------------------------------------------------------------------
(* Building blocks *)

At(p, point)   == pc[p] = point
Goto(p, point) == pc' = [pc EXCEPT ![p] = point]

\* A fault of this kind happens to run p.
Fault(kind, p) == kind \in Faults /\ hit' = hit \cup {p}
NoFault == UNCHANGED hit

\* Every way out of main closes the socket: run itself after the last file,
\* the destructor of NetworkClient on all the others.
Exit(p, verdict) == Goto(p, verdict) /\ disconnect(p)

\* if (!client.send(packet)) return false;   unread is left of the input.
Send(p, request, next, unread) ==
    /\ \/ /\ Goto(p, next)
          /\ send(p, request)
          /\ inbound' = [inbound EXCEPT ![p] = unread]
          /\ UNCHANGED socket
       \/ sendFails(p) /\ Exit(p, "failed")
    /\ NoFault /\ UNCHANGED diskVars

\* A step on the disk, which goes wrong in the way of bad.
DiskStep(p, point, next, good, bad) ==
    /\ At(p, point)
    /\ \/ good /\ NoFault
       \/ bad /\ Fault("disk", p)
    /\ Goto(p, next)
    /\ UNCHANGED <<netVars, authVars, jobVars>>

-----------------------------------------------------------------------------
(* receiveResponse *)

nextResponse(p) == Head(inbound[p])

\* The checks a response passes: its size is the one the protocol defines for
\* its code, its code is expected here, and it echoes the client ID.
Valid(p, m) ==
    /\ m.code \in ResponseCode
    /\ m.payloadSize = expectedPayloadSize(m.code)
    /\ m.code \in acceptedCodes[pc[p]]
    /\ m.code \notin {RegistrationSuccess, ReconnectRejected} => m.id = clientId[p]

\* Run p waits at point, and the response it reads there is valid.
Received(p, point, code) == /\ At(p, point)
                            /\ responseArrived(p)
                            /\ Valid(p, nextResponse(p))
                            /\ nextResponse(p).code = code

\* ... and moves on to next.
Receive(p, point, code, next) ==
    /\ Received(p, point, code)
    /\ receive(p)
    /\ Goto(p, next)
    /\ NoFault /\ UNCHANGED diskVars

\* receiveResponse returns nullopt: the response is not valid, or the stream
\* ended.  Every caller gives up.
ReceiveResponseFails(p) ==
    /\ pc[p] \in Waiting
    /\ \/ receiveFails(p)
       \/ responseArrived(p) /\ ~Valid(p, nextResponse(p))
    /\ Exit(p, "failed")
    /\ NoFault /\ UNCHANGED <<diskVars, authVars, jobVars>>

-----------------------------------------------------------------------------
(* run and authenticate *)

\* config.loadTransferInfo(), which makes the runs in exposed fault-prone.
loadTransferInfo(p, exposed) ==
    /\ At(p, "idle")
    /\ \/ /\ clientName' \in {[clientName EXCEPT ![p] = n] : n \in Names}
          /\ files' \in {[files EXCEPT ![p] = list] : list \in FileLists}
          /\ Goto(p, "connect")
          /\ hit' = hit \cup exposed
       \/ /\ "config" \in Faults
          /\ hit' = hit \cup exposed \cup {p}
          /\ Goto(p, "failed")
          /\ UNCHANGED <<clientName, files>>
    /\ UNCHANGED <<netVars, diskVars, authVars, fileIndex, attempt>>

\* Runs follow one another: they share the directory.
LoadTransferInfo(p) ==
    /\ \A q \in Procs : pc[q] \notin Running
    /\ loadTransferInfo(p, {})

Connect(p) ==
    /\ At(p, "connect")
    /\ \/ Goto(p, "authenticate") /\ connect(p) /\ NoFault
       \/ Goto(p, "failed") /\ UNCHANGED netVars /\ Fault("link", p)
    /\ UNCHANGED <<diskVars, authVars, jobVars>>

\* Mutation of Authenticate: a client whose name has changed registers.
AuthenticateByName(p) ==
    /\ At(p, "authenticate")
    /\ Goto(p, IF hasClientInfo /\ meInfo.name = clientName[p]
               THEN "tryReconnect" ELSE "register")
    /\ NoFault /\ UNCHANGED <<netVars, diskVars, authVars, jobVars>>

\* Reconnect if me.info exists, register if not.
Authenticate(p) ==
    /\ At(p, "authenticate")
    /\ Goto(p, IF hasClientInfo THEN "tryReconnect" ELSE "register")
    /\ NoFault /\ UNCHANGED <<netVars, diskVars, authVars, jobVars>>

-----------------------------------------------------------------------------
(* tryReconnect *)

LoadPrivateKey(p) ==
    /\ At(p, "tryReconnect")
    /\ privKeyOpt' = [privKeyOpt EXCEPT ![p] = loadPrivateKey]
    /\ Goto(p, "loadClientInfo")
    /\ NoFault
    /\ UNCHANGED <<netVars, diskVars, clientId, privateKey, aesKey, jobVars>>

\* Mutation of credentialsLoaded: nobody looks whether the key can be parsed.
credentialsUnparsed(p) == loadClientInfo

credentialsLoaded(p) == /\ loadClientInfo
                        /\ loadPrivateKeyBase64(chosenKey(privKeyOpt[p]))

\* Mutation of reconnectName: the name in transfer.json.
configuredName(p) == clientName[p]

\* The name stored with the identity, not the one in transfer.json.
reconnectName(p) == meInfo.name

\* The stored credentials are usable: reconnect.
SendReconnect(p) ==
    /\ At(p, "loadClientInfo")
    /\ credentialsLoaded(p)
    /\ clientId' = [clientId EXCEPT ![p] = meInfo.uuid]
    /\ privateKey' = [privateKey EXCEPT ![p] = chosenKey(privKeyOpt[p])]
    /\ Send(p, buildReconnect(meInfo.uuid, reconnectName(p)), "awaitReconnect", inbound[p])
    /\ UNCHANGED <<privKeyOpt, aesKey, jobVars>>

\* They are not: remove them and register.
InvalidCredentials(p) ==
    /\ At(p, "loadClientInfo")
    /\ ~credentialsLoaded(p)
    /\ Goto(p, "removeMeInfo")
    /\ NoFault /\ UNCHANGED <<netVars, diskVars, authVars, jobVars>>

\* Mutation of ReceiveReconnectRejected: try again.
ReceiveReconnectRejectedRetries(p) ==
    /\ Receive(p, "awaitReconnect", ReconnectRejected, "tryReconnect")
    /\ UNCHANGED <<authVars, jobVars>>

ReceiveReconnectRejected(p) ==
    /\ Receive(p, "awaitReconnect", ReconnectRejected, "removeMeInfo")
    /\ UNCHANGED <<authVars, jobVars>>

\* Decrypt the AES key of the response.  A key that cannot be decrypted is the
\* empty vector, and no failure.
ReceiveKey(p, point, code) ==
    /\ Receive(p, point, code, "authenticated")
    /\ aesKey' = [aesKey EXCEPT ![p] = decryptAesKey(privateKey[p], nextResponse(p))]
    /\ UNCHANGED <<clientId, privKeyOpt, privateKey, jobVars>>

ReceiveReconnectApproved(p) == ReceiveKey(p, "awaitReconnect", ReconnectApproved)

\* removeClientInfo, file by file.
RemoveMeInfo(p) ==
    DiskStep(p, "removeMeInfo", "removePrivKey", removeMeInfo, UNCHANGED diskVars)
RemovePrivKey(p) ==
    DiskStep(p, "removePrivKey", "register", removePrivKey, UNCHANGED diskVars)

-----------------------------------------------------------------------------
(* registerAndExchangeKeys *)

SendRegistration(p) ==
    /\ At(p, "register")
    /\ Send(p, buildRegistration(clientName[p]), "awaitRegistration", inbound[p])
    /\ UNCHANGED <<authVars, jobVars>>

\* Take the assigned ID and generate the key pair.
ReceiveRegistration(p) ==
    /\ Receive(p, "awaitRegistration", RegistrationSuccess, "openMeInfo")
    /\ clientId' = [clientId EXCEPT ![p] = nextResponse(p).id]
    /\ privateKey' = [privateKey EXCEPT ![p] = p]
    /\ UNCHANGED <<privKeyOpt, aesKey, jobVars>>

\* saveClientInfo: a file that cannot be opened ends the run, a write that
\* fails goes unnoticed.
OpenMeInfo(p) == DiskStep(p, "openMeInfo", "writeMeInfo", openMeInfo, FALSE)
WriteMeInfo(p) ==
    DiskStep(p, "writeMeInfo", "openPrivKey",
             writeMeInfo(clientName[p], clientId[p], privateKey[p]),
             tearMeInfo(clientName[p], clientId[p]))

\* Mutation of OpenPrivKey: a priv.key that cannot be opened is ignored.
OpenPrivKeyUnchecked(p) ==
    \/ DiskStep(p, "openPrivKey", "writePrivKey", openPrivKey, FALSE)
    \/ DiskStep(p, "openPrivKey", "sendPublicKey", FALSE, UNCHANGED diskVars)

OpenPrivKey(p) == DiskStep(p, "openPrivKey", "writePrivKey", openPrivKey, FALSE)
WritePrivKey(p) ==
    DiskStep(p, "writePrivKey", "sendPublicKey", writePrivKey(privateKey[p]),
             tearPrivKey)

SaveFails(p) ==
    /\ pc[p] \in {"openMeInfo", "openPrivKey"}
    /\ Fault("disk", p)
    /\ Exit(p, "failed")
    /\ UNCHANGED <<diskVars, authVars, jobVars>>

SendKey(p) ==
    /\ At(p, "sendPublicKey")
    /\ Send(p, buildPublicKeyExchange(clientId[p], clientName[p], privateKey[p]),
            "awaitAesKey", inbound[p])
    /\ UNCHANGED <<authVars, jobVars>>

ReceiveAesKey(p) == ReceiveKey(p, "awaitAesKey", AesKeyReceived)

-----------------------------------------------------------------------------
(* run, after authentication, and sendSingleFile *)

\* Only a 32-byte key gets any further.
CheckAesKey(p) ==
    /\ At(p, "authenticated")
    /\ IF isAes256Key(aesKey[p])
       THEN Goto(p, "nextFile") /\ UNCHANGED netVars
       ELSE Exit(p, "failed")
    /\ NoFault /\ UNCHANGED <<diskVars, authVars, jobVars>>

currentFile(p) == files[p][fileIndex[p]]

\* Read and encrypt the next file.
PrepareFile(p) ==
    /\ At(p, "nextFile")
    /\ fileIndex[p] <= Len(files[p])
    /\ \/ /\ Goto(p, "sendFile")
          /\ attempt' = [attempt EXCEPT ![p] = 1]
          /\ NoFault /\ UNCHANGED netVars
       \/ Fault("file", p) /\ Exit(p, "failed") /\ UNCHANGED attempt
    /\ UNCHANGED <<diskVars, authVars, clientName, files, fileIndex>>

\* Mutation of AllFilesSent: the last file is forgotten.
AllButOneSent(p) ==
    /\ At(p, "nextFile")
    /\ fileIndex[p] >= Len(files[p])
    /\ Exit(p, "succeeded")
    /\ NoFault /\ UNCHANGED <<diskVars, authVars, jobVars>>

AllFilesSent(p) ==
    /\ At(p, "nextFile")
    /\ fileIndex[p] > Len(files[p])
    /\ Exit(p, "succeeded")
    /\ NoFault /\ UNCHANGED <<diskVars, authVars, jobVars>>

-----------------------------------------------------------------------------
(* transferAndVerify *)

TransmitFile(p) ==
    /\ At(p, "sendFile")
    /\ Send(p, buildSendFile(clientId[p], currentFile(p), aesKey[p]), "awaitCrc",
            inbound[p])
    /\ UNCHANGED <<authVars, jobVars>>

\* (crcMatches has the mutation sizeMatches: the CRC is not compared.)
sizeMatches(p) == nextResponse(p).contentSize = CipherSize
crcMatches(p)  == nextResponse(p).cksum = currentFile(p)

\* A 1603 has arrived for a file of the size that was sent.
CrcArrived(p) == Received(p, "awaitCrc", FileReceivedWithCrc) /\ sizeMatches(p)

\* The answer is a CRC status request.
AnswerCrc(p, code, next) ==
    /\ Send(p, buildCrcStatus(clientId[p], code, currentFile(p)), next,
            Tail(inbound[p]))
    /\ UNCHANGED <<authVars, clientName, files, fileIndex>>

ConfirmCrc(p) ==
    /\ CrcArrived(p) /\ crcMatches(p)
    /\ AnswerCrc(p, CrcValid, "awaitConfirmation")
    /\ UNCHANGED attempt

\* Mutation of RequestRetry: the client waits for a response to it.
RequestRetryAndWait(p) ==
    /\ CrcArrived(p) /\ ~crcMatches(p)
    /\ attempt[p] < MAX_CRC_ATTEMPTS
    /\ AnswerCrc(p, CrcInvalidRetry, "awaitCrc")
    /\ attempt' = [attempt EXCEPT ![p] = @ + 1]

\* Mutation of RequestRetry: the attempts are not counted.
RequestRetryForever(p) ==
    /\ CrcArrived(p) /\ ~crcMatches(p)
    /\ AnswerCrc(p, CrcInvalidRetry, "sendFile")
    /\ UNCHANGED attempt

\* The request to retry has no response of its own: the file follows at once.
RequestRetry(p) ==
    /\ CrcArrived(p) /\ ~crcMatches(p)
    /\ attempt[p] < MAX_CRC_ATTEMPTS
    /\ AnswerCrc(p, CrcInvalidRetry, "sendFile")
    /\ attempt' = [attempt EXCEPT ![p] = @ + 1]

AbortTransfer(p) ==
    /\ CrcArrived(p) /\ ~crcMatches(p)
    /\ attempt[p] >= MAX_CRC_ATTEMPTS
    /\ AnswerCrc(p, CrcInvalidAbort, "awaitAbort")
    /\ UNCHANGED attempt

ContentSizeMismatch(p) ==
    /\ Received(p, "awaitCrc", FileReceivedWithCrc)
    /\ ~sizeMatches(p)
    /\ Exit(p, "failed")
    /\ NoFault /\ UNCHANGED <<diskVars, authVars, jobVars>>

ReceiveConfirmation(p) ==
    /\ Receive(p, "awaitConfirmation", MessageConfirmed, "nextFile")
    /\ fileIndex' = [fileIndex EXCEPT ![p] = @ + 1]
    /\ UNCHANGED <<authVars, clientName, files, attempt>>

\* Mutation of ReceiveAbortAck: the run goes on with the next file.
ReceiveAbortAckSkips(p) ==
    /\ Receive(p, "awaitAbort", MessageConfirmed, "nextFile")
    /\ fileIndex' = [fileIndex EXCEPT ![p] = @ + 1]
    /\ UNCHANGED <<authVars, clientName, files, attempt>>

\* Acknowledged or not, an aborted transfer fails the run.
ReceiveAbortAck(p) ==
    /\ Received(p, "awaitAbort", MessageConfirmed)
    /\ Exit(p, "failed")
    /\ NoFault /\ UNCHANGED <<diskVars, authVars, jobVars>>

-----------------------------------------------------------------------------
\* What a run does between its start and its end, removals apart.
RunStep(p) ==
    \/ Connect(p) \/ Authenticate(p)
    \/ LoadPrivateKey(p) \/ SendReconnect(p) \/ InvalidCredentials(p)
    \/ ReceiveReconnectRejected(p) \/ ReceiveReconnectApproved(p)
    \/ SendRegistration(p) \/ ReceiveRegistration(p) \/ SaveFails(p)
    \/ OpenMeInfo(p) \/ WriteMeInfo(p) \/ OpenPrivKey(p) \/ WritePrivKey(p)
    \/ SendKey(p) \/ ReceiveAesKey(p)
    \/ CheckAesKey(p) \/ PrepareFile(p) \/ AllFilesSent(p)
    \/ TransmitFile(p) \/ ContentSizeMismatch(p) \/ ConfirmCrc(p)
    \/ RequestRetry(p) \/ AbortTransfer(p)
    \/ ReceiveConfirmation(p) \/ ReceiveAbortAck(p)
    \/ ReceiveResponseFails(p)

ClientStep(p) ==
    \/ LoadTransferInfo(p) \/ RemoveMeInfo(p) \/ RemovePrivKey(p) \/ RunStep(p)

\* The process dies; its memory is gone, the disk is as it was.
Crash(p) ==
    /\ pc[p] \in Running
    /\ Fault("crash", p)
    /\ Exit(p, "crashed")
    /\ UNCHANGED <<diskVars, authVars, jobVars>>

\* The connection of run p breaks.
Disconnection(p) ==
    /\ Fault("link", p)
    /\ LinkBreaks(p)
    /\ UNCHANGED <<pc, diskVars, authVars, jobVars>>
=============================================================================
