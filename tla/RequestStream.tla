--------------------------- MODULE RequestStream ---------------------------
(***************************************************************************)
(* The client's requests as bytes on one connection, and a server that     *)
(* reads them by the book: 23 bytes of header, then as many bytes as the    *)
(* header says.                                                            *)
(***************************************************************************)
EXTENDS Packets

CONSTANTS
    ClientIds,    \* UUIDs
    ClientNames,  \* what loadTransferInfo takes for a name
    PublicKeys,   \* what getPublicKeyDER returns
    Files,        \* files: [name, size, content], the latter the ciphertext's length
    MAX_REQUESTS  \* bound on the requests of a connection

ASSUME RequestStreamAssumption ==
    /\ \A id \in ClientIds : id \in Seq(Byte) /\ Len(id) = UUID_SIZE
    /\ \A name \in ClientNames : name \in Seq(Byte)
    /\ \A key \in PublicKeys : key \in Seq(Byte) /\ Len(key) = PUBLIC_KEY_SIZE
    /\ \A file \in Files : file \in [name : Seq(Byte), size : Nat, content : Nat]
    /\ MAX_REQUESTS \in Nat

VARIABLES
    requests,       \* how many the client has sent
    asked,          \* those that the server has not handled, as the client means them
    wire,           \* the packets the server has not read
    heard,          \* the request that the server handles, as it understands it
    lost            \* the server has read a header that does not end with its packet

requestVars == <<requests, asked, wire, heard, lost>>

NoRequest == [code |-> 0]

RequestInit ==
    /\ requests = 0 /\ asked = <<>> /\ wire = <<>>
    /\ heard = NoRequest
    /\ lost = FALSE

-----------------------------------------------------------------------------
(* The client *)

\* What the server should make of a name: the field has room for all but its
\* last byte, and a zero ends it.
cut(str, fieldSize) ==
    readString(SubSeq(str, 1, IF Len(str) < fieldSize THEN Len(str) ELSE fieldSize - 1))

send(request, bytes) ==
    /\ requests < MAX_REQUESTS
    /\ requests' = requests + 1
    /\ asked' = Append(asked, request)
    /\ wire' = Append(wire, bytes)
    /\ UNCHANGED <<heard, lost>>

SendsRegistration(name) ==
    send([code |-> Registration, id |-> NoId, name |-> cut(name, NAME_FIELD_SIZE)],
         buildRegistration(name))

SendsPublicKey(id, name, key) ==
    send([code |-> SendPublicKey, id |-> id, name |-> cut(name, NAME_FIELD_SIZE), key |-> key],
         buildPublicKeyExchange(id, name, key))

SendsReconnect(id, name) ==
    send([code |-> Reconnect, id |-> id, name |-> cut(name, NAME_FIELD_SIZE)],
         buildReconnect(id, name))

SendsFile(id, file) ==
    send([code |-> SendFile, id |-> id, name |-> cut(file.name, FILE_NAME_FIELD_SIZE),
          origFileSize |-> file.size, contentSize |-> file.content],
         buildSendFile(id, file.size, 1, 1, file.name, file.content))

SendsCrcStatus(code, id, file) ==
    send([code |-> code, id |-> id, name |-> cut(file.name, FILE_NAME_FIELD_SIZE)],
         buildCrcStatus(id, code, file.name))

Sends(code) ==
    \E id \in ClientIds :
        \/ code = SendFile /\ \E file \in Files : SendsFile(id, file)
        \/ code \in {CrcValid, CrcInvalidRetry, CrcInvalidAbort}
           /\ \E file \in Files : SendsCrcStatus(code, id, file)
        \/ code = Registration /\ \E name \in ClientNames : SendsRegistration(name)
        \/ code = Reconnect /\ \E name \in ClientNames : SendsReconnect(id, name)
        \/ code = SendPublicKey
           /\ \E name \in ClientNames, key \in PublicKeys : SendsPublicKey(id, name, key)

-----------------------------------------------------------------------------
(* The server *)

requestHeader(bytes) ==
    [id          |-> from(bytes, 0, UUID_SIZE),
     version     |-> bytes[UUID_SIZE + 1],
     code        |-> readUint16LE(from(bytes, UUID_SIZE + 1, 2)),
     payloadSize |-> readUint32LE(from(bytes, UUID_SIZE + 3, 4))]

\* The request in a payload of bytes, followed by `content` bytes of a file.
understood(h, bytes, content) ==
    IF h.code \in {Registration, Reconnect, CrcValid, CrcInvalidRetry, CrcInvalidAbort}
    THEN [code |-> h.code, id |-> h.id, name |-> readString(bytes)]
    ELSE IF h.code = SendPublicKey
    THEN [code |-> SendPublicKey, id |-> h.id,
          name |-> readString(from(bytes, 0, NAME_FIELD_SIZE)),
          key  |-> from(bytes, NAME_FIELD_SIZE, PUBLIC_KEY_SIZE)]
    ELSE IF h.code = SendFile /\ readUint32LE(bytes) = content
    THEN [code |-> SendFile, id |-> h.id,
          name |-> readString(from(bytes, 12, FILE_NAME_FIELD_SIZE)),
          origFileSize |-> readUint32LE(from(bytes, 4, 4)),
          contentSize  |-> content]
    ELSE NoRequest

\* A header, and as many bytes behind it as it says.
ReadRequest ==
    /\ ~lost /\ heard = NoRequest /\ wire # <<>>
    /\ LET head == Head(wire).head
           bytes == SubSeq(head, REQUEST_HEADER_SIZE + 1, Len(head))
           content == Head(wire).content
           h == requestHeader(head)
       IN  IF h.version = CLIENT_VERSION /\ h.payloadSize = Len(bytes) + content
           THEN heard' = understood(h, bytes, content) /\ UNCHANGED lost
           ELSE lost' = TRUE /\ UNCHANGED heard
    /\ wire' = Tail(wire)
    /\ UNCHANGED <<requests, asked>>

\* The server has done what the request asks for.
Handled ==
    /\ heard # NoRequest
    /\ heard' = NoRequest
    /\ asked' = Tail(asked)
    /\ UNCHANGED <<requests, wire, lost>>

-----------------------------------------------------------------------------
(* Properties *)

\* The server understands every request as the client means it, in order, whatever
\* the lengths of names and keys and the sizes of files: the builders agree with
\* one another on fields, byte order and padding.
RequestsUnderstood == heard # NoRequest => asked # <<>> /\ heard = Head(asked)

\* The server is never put out of step: the size in a header is that of the payload
\* that follows, "Payload Size (4B, LE)" (Protocol.cpp).  Files whose size plus
\* metadata takes more than 32 bits break it.
Framed == ~lost
=============================================================================
