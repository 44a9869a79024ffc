------------------------------- MODULE Server -------------------------------
(***************************************************************************)
(* The server, which is not part of the repository: it is modelled from how *)
(* the client uses it.  It handles the requests of one connection in order  *)
(* and those of different connections in any order, including requests of a *)
(* client that is gone by then.  It approves a reconnect exactly when it    *)
(* knows the ID under that name and holds a public key for it, and answers  *)
(* every request but the request to retry.                                 *)
(***************************************************************************)
EXTENDS NetworkClient

VARIABLES
    registry,  \* registry[u]: name and public key of the client with ID u
    stored,    \* stored[c][f]: what the server holds as file f of connection c
    verified,  \* verified[c]: the names of the files that c has confirmed
    rejected   \* observation: the IDs whose reconnect was ever rejected

serverVars == <<registry, stored, verified, rejected>>

ServerTypeOK ==
    /\ registry \in [Procs -> [name : Names \cup {Nil}, pub : Procs \cup {Nil}]]
    /\ stored \in [Procs -> [FileNames -> Paths \cup {Nil, Garbled}]]
    /\ verified \in [Procs -> SUBSET FileNames]
    /\ rejected \subseteq Procs \cup {Nil}

ServerInit ==
    /\ registry = [u \in Procs |-> [name |-> Nil, pub |-> Nil]]
    /\ stored = [c \in Procs |-> [f \in FileNames |-> Nil]]
    /\ verified = [c \in Procs |-> {}]
    /\ rejected = {}

-----------------------------------------------------------------------------
nextRequest(c) == Head(outbound[c])

Requested(c, code) == outbound[c] # <<>> /\ nextRequest(c).code = code

\* The next request is done; nobody reads the response of a client that is gone.
Done(c) ==
    /\ outbound' = [outbound EXCEPT ![c] = Tail(@)]
    /\ UNCHANGED <<socket, inbound>>

Respond(c, m) ==
    /\ outbound' = [outbound EXCEPT ![c] = Tail(@)]
    /\ inbound' = IF socket[c] = "up"
                  THEN [inbound EXCEPT ![c] = Append(@, m)]
                  ELSE inbound
    /\ UNCHANGED socket

\* A registration is assigned a fresh ID.
HandleRegistration(c) ==
    /\ Requested(c, Registration)
    /\ registry' = [registry EXCEPT ![c].name = nextRequest(c).name]
    /\ Respond(c, Reply(RegistrationSuccess, c))
    /\ UNCHANGED <<stored, verified, rejected>>

\* The session key is sent under the public key.
HandlePublicKey(c) ==
    /\ Requested(c, SendPublicKey)
    /\ LET m == nextRequest(c)
       IN  /\ registry' = [registry EXCEPT ![m.id].pub = m.pub]
           /\ Respond(c, AesReply(AesKeyReceived, m.id, m.pub, c))
    /\ UNCHANGED <<stored, verified, rejected>>

known(id, name) == /\ registry[id].pub # Nil
                   /\ registry[id].name = name

ApproveReconnect(c) ==
    /\ Requested(c, Reconnect)
    /\ LET m == nextRequest(c)
       IN  /\ known(m.id, m.name)
           /\ Respond(c, AesReply(ReconnectApproved, m.id, registry[m.id].pub, c))
    /\ UNCHANGED serverVars

RejectReconnect(c) ==
    /\ Requested(c, Reconnect)
    /\ ~known(nextRequest(c).id, nextRequest(c).name)
    /\ Respond(c, Reply(ReconnectRejected, nextRequest(c).id))
    /\ rejected' = rejected \cup {nextRequest(c).id}
    /\ UNCHANGED <<registry, stored, verified>>

\* What the server gets when it decrypts the file with the connection's key.
decrypted(c, m) == IF m.aes = c THEN m.content ELSE Garbled

\* A file replaces one of the same name; content is what the server makes of it.
HandleFile(c, content) ==
    /\ Requested(c, SendFile)
    /\ LET m == nextRequest(c)
       IN  /\ stored' = [stored EXCEPT ![c][m.file] = content]
           /\ verified' = [verified EXCEPT ![c] = @ \ {m.file}]
           /\ Respond(c, CrcReply(m.id, CipherSize, content))
    /\ UNCHANGED <<registry, rejected>>

HandleCrcValid(c) ==
    /\ Requested(c, CrcValid)
    /\ verified' = [verified EXCEPT ![c] = @ \cup {nextRequest(c).file}]
    /\ Respond(c, Reply(MessageConfirmed, nextRequest(c).id))
    /\ UNCHANGED <<registry, stored, rejected>>

\* The file that follows replaces the one that is wrong.
HandleRetry(c) ==
    /\ Requested(c, CrcInvalidRetry)
    /\ Done(c)
    /\ UNCHANGED serverVars

HandleAbort(c) ==
    /\ Requested(c, CrcInvalidAbort)
    /\ stored' = [stored EXCEPT ![c][nextRequest(c).file] = Nil]
    /\ Respond(c, Reply(MessageConfirmed, nextRequest(c).id))
    /\ UNCHANGED <<registry, verified, rejected>>

ServerStep(c) ==
    \/ HandleRegistration(c) \/ HandlePublicKey(c)
    \/ ApproveReconnect(c) \/ RejectReconnect(c)
    \/ outbound[c] # <<>> /\ HandleFile(c, decrypted(c, nextRequest(c)))
    \/ HandleCrcValid(c) \/ HandleRetry(c) \/ HandleAbort(c)

-----------------------------------------------------------------------------
(* A server that does not do that *)

\* It ends up with other content than was sent.
CorruptFile(c) == HandleFile(c, Garbled)

\* It refuses the request.
Refuse(c) ==
    /\ outbound[c] # <<>>
    /\ \E code \in {RegistrationFailed, GeneralError} : Respond(c, Reply(code, Nil))
    /\ UNCHANGED serverVars

\* It answers, where a response is due, with anything: any code, any ID, a
\* payload of the wrong size, a key that is too short or encrypted under
\* another RSA key, any CRC.
AnyResponse ==
    {Reply(code, id) : code \in ResponseCode \ {RegistrationSuccess},
                       id \in Procs \cup {Nil}}
    \cup {Reply(RegistrationSuccess, id) : id \in Procs}
    \cup {[Reply(code, id) EXCEPT !.payloadSize = @ + 1] :
            code \in ResponseCode, id \in Procs}
    \cup {[Reply(GeneralError, Nil) EXCEPT !.code = UnknownCode]}
    \cup {AesReply(code, id, rsa, key) :
            code \in {AesKeyReceived, ReconnectApproved}, id \in Procs,
            rsa \in Procs, key \in Procs \cup {ShortKey}}
    \cup {CrcReply(id, size, content) :
            id \in Procs, size \in {0, CipherSize}, content \in Paths \cup {Garbled}}

FaultyReply(c) ==
    /\ outbound[c] # <<>> /\ nextRequest(c).code # CrcInvalidRetry
    /\ \E m \in AnyResponse : Respond(c, m)
    /\ UNCHANGED serverVars
=============================================================================
