--------------------------- MODULE ResponseStream ---------------------------
(***************************************************************************)
(* The server's responses as bytes on one connection, and the client that  *)
(* reads them (TransferClient::receiveResponse, NetworkClient::receiveExact):*)
(* TCP hands the bytes over in segments that have nothing to do with the    *)
(* responses, and the connection may break between any two of them.         *)
(*                                                                         *)
(* The server writes as many bytes of payload as it announces, but may       *)
(* announce any code and any size.                                         *)
(***************************************************************************)
EXTENDS Packets, FiniteSetsExt

CONSTANTS
    Responses,  \* server responses: [version, code, payload]
    Reports,    \* what the payloads of 1602, 1603 and 1605 say
    MAX_RESPONSES,  \* bound on the responses of a connection
    Segments,   \* the sizes of TCP segments: how many bytes one read may return at most
    ClientId    \* clientId

ASSUME ResponseStreamAssumption ==
    /\ \A r \in Responses :
           /\ r \in [version : Byte, code : 0..(UINT16 - 1), payload : Seq(Byte)]
           /\ Len(r.payload) < UINT32
    /\ MAX_RESPONSES \in Nat
    /\ Segments \subseteq Nat \ {0}

\* A response as the server puts it on the wire.
bytesOf(r) ==
    <<r.version>> \o appendUint16LE(r.code) \o appendUint32LE(Len(r.payload)) \o r.payload

\* The payloads of 1603, and of 1602 and 1605, as the server writes them.
crcPayload(report) ==
    report.clientId \o appendUint32LE(report.contentSize)
        \o appendFixedString(report.fileName, FILE_NAME_FIELD_SIZE)
        \o appendUint32LE(report.cksum)

aesKeyPayload(report) == report.clientId \o report.encryptedAesKey

VARIABLES
    responses,  \* what the server has written and the client has not read to the end
    pos,        \* bytes that have been read of the first of them
    written,    \* how many responses the server has written
    link,       \* "up" | "down": the peer has closed or the connection has broken
    isOpen,     \* isConnected()
    stage,      \* "idle" | "header" | "payload": where receiveResponse stands
    accepted,   \* acceptedCodes of the call
    buffer,     \* what receiveExact has read
    wanted,     \* numberOfBytes of receiveExact
    header,     \* the parsed header
    taken,      \* observation: the responses that the call has read to the end
    result      \* what the last call returned

callVars == <<stage, accepted, buffer, wanted, header, taken, result>>
responseVars == <<responses, pos, written, link, isOpen, callVars>>

NoHeader == [code |-> 0]

ResponseInit ==
    /\ responses = <<>> /\ taken = <<>>
    /\ pos = 0 /\ written = 0
    /\ link = "up" /\ isOpen = TRUE
    /\ stage = "idle" /\ accepted = {}
    /\ buffer = <<>> /\ wanted = 0
    /\ header = NoHeader
    /\ result = <<>>

-----------------------------------------------------------------------------
\* The requests and the codes that the callers of receiveResponse accept after
\* them; a request to send a file again has no response.
answers ==
    {<<Registration, RegistrationSuccess>>, <<SendPublicKey, AesKeyReceived>>,
     <<Reconnect, ReconnectApproved>>, <<Reconnect, ReconnectRejected>>,
     <<SendFile, FileReceivedWithCrc>>,
     <<CrcValid, MessageConfirmed>>, <<CrcInvalidAbort, MessageConfirmed>>}

\* Mutation of acceptedCodes: a refused registration is an answer like any other.
acceptedCodesOrRefusal ==
    [code \in RequestCode \ {CrcInvalidRetry} |->
        {r \in ResponseCode :
            <<code, r>> \in answers \cup {<<Registration, RegistrationFailed>>}}]

acceptedCodes ==
    [code \in RequestCode \ {CrcInvalidRetry} |->
        {r \in ResponseCode : <<code, r>> \in answers}]

\* Everything of a call but what it has read ends with it.
Return(outcome) ==
    /\ stage' = "idle" /\ result' = outcome
    /\ buffer' = <<>> /\ wanted' = 0 /\ header' = NoHeader /\ accepted' = {}
    /\ taken' = <<>>
    /\ UNCHANGED <<responses, pos, written, link>>

\* The server writes one more response.
Respond(r) ==
    /\ link = "up" /\ written < MAX_RESPONSES
    /\ written' = written + 1
    /\ responses' = Append(responses, r)
    /\ UNCHANGED <<pos, link, isOpen, callVars>>

\* receiveResponse(codes) asks receiveExact for a header; a closed socket yields none.
ReceiveResponse(codes) ==
    /\ stage = "idle"
    /\ IF isOpen
       THEN /\ stage' = "header"
            /\ accepted' = codes
            /\ wanted' = RESPONSE_HEADER_SIZE
            /\ result' = <<>>
            /\ UNCHANGED <<responses, pos, written, link, isOpen, buffer, header, taken>>
       ELSE Return(<<>>) /\ UNCHANGED isOpen

\* What the next read from the socket may bring: what is left of the first response,
\* since a call wants a header, and then the payload that the header announces.
available ==
    IF responses = <<>> THEN <<>>
    ELSE LET bytes == bytesOf(Head(responses)) IN SubSeq(bytes, pos + 1, Len(bytes))

\* boost::asio::read takes what a segment holds, and no more than it lacks.
ReadSome(segment) ==
    LET size == Min({segment, wanted - Len(buffer), Len(available)})
        whole == pos + size = Len(bytesOf(Head(responses)))
    IN  /\ stage # "idle" /\ size > 0
        /\ buffer' = buffer \o SubSeq(available, 1, size)
        /\ pos' = IF whole THEN 0 ELSE pos + size
        /\ responses' = IF whole THEN Tail(responses) ELSE responses
        /\ taken' = IF whole THEN Append(taken, Head(responses)) ELSE taken
        /\ UNCHANGED <<written, link, isOpen, stage, accepted, wanted, header, result>>

\* receiveExact returns its buffer; at once if no bytes are wanted.
received == Len(buffer) = wanted

\* receiveExact meets the end of the stream or an error and disconnects.
ReceiveFails ==
    /\ stage # "idle" /\ link = "down" /\ ~received
    /\ isOpen' = FALSE
    /\ Return(<<>>)

\* Mutation of sizeAgrees: the server is trusted with the size.
codeKnown(h) == h.code \in ResponseCode

\* The code is known and the size the one that it has.
sizeAgrees(h) == h.code \in ResponseCode /\ h.payloadSize = expectedPayloadSize(h.code)

\* Mutation of HeaderReceived: the connection stays open, with the payload unread.
HeaderRefused ==
    /\ stage = "header" /\ received
    /\ LET h == parseHeader(buffer)
       IN  IF sizeAgrees(h)
           THEN /\ stage' = "payload" /\ header' = h
                /\ wanted' = h.payloadSize /\ buffer' = <<>>
                /\ UNCHANGED <<responses, pos, written, link, isOpen, accepted, taken, result>>
           ELSE Return(<<>>) /\ UNCHANGED isOpen

HeaderReceived ==
    /\ stage = "header" /\ received
    /\ LET h == parseHeader(buffer)
       IN  IF sizeAgrees(h)
           THEN /\ stage' = "payload" /\ header' = h
                /\ wanted' = h.payloadSize /\ buffer' = <<>>
                /\ UNCHANGED <<responses, pos, written, link, isOpen, accepted, taken, result>>
           ELSE isOpen' = FALSE /\ Return(<<>>)

\* Every accepted response but two must echo the client's ID.
echoesClientId(code) == code \notin {RegistrationSuccess, ReconnectRejected}

PayloadReceived ==
    /\ stage = "payload" /\ received
    /\ LET takes == /\ header.code \in accepted
                    /\ echoesClientId(header.code) =>
                           parseClientIdPayload(buffer) = ClientId
       IN  Return(IF takes THEN <<[version |-> header.version, code |-> header.code,
                                   payload |-> buffer]>>
                  ELSE <<>>)
    /\ UNCHANGED isOpen

LinkFails ==
    /\ link = "up" /\ link' = "down"
    /\ UNCHANGED <<responses, pos, written, isOpen, callVars>>

\* receiveResponse goes on.
ReceiveStep ==
    \/ ReceiveFails \/ HeaderReceived \/ PayloadReceived
    \/ \E segment \in Segments : ReadSome(segment)

ResponseNext ==
    \/ \E r \in Responses : Respond(r)
    \/ \E code \in DOMAIN acceptedCodes : ReceiveResponse(acceptedCodes[code])
    \/ ReceiveStep \/ LinkFails

ResponseSpec == ResponseInit /\ [][ResponseNext]_responseVars

-----------------------------------------------------------------------------
(* Properties *)

\* A call never waits for more bytes than the largest response has, whatever size
\* a server announces: "Never trust the size sent by the server: validate it before
\* allocating anything" (TransferClient.cpp).
NoHugeRead == wanted <= CRC_PAYLOAD_EXPECTED_SIZE

\* The ID is only looked for in payloads that have one: std::equal would read past
\* the end of a shorter one.
EchoWithinPayload ==
    stage = "payload" /\ header.code \in accepted /\ echoesClientId(header.code) =>
        header.payloadSize >= UUID_SIZE

\* What the parsers make of the payload of a response that is returned is what the
\* server reported: they agree with it on fields, byte order and padding.
PayloadsUnderstood ==
    \A k \in DOMAIN result :
        /\ result[k].code = FileReceivedWithCrc =>
               parseFileCrcPayload(result[k].payload) \in Reports
        /\ result[k].code \in {AesKeyReceived, ReconnectApproved} =>
               parseAesKeyPayload(result[k].payload) \in Reports

valid(r) == r.code \in ResponseCode /\ Len(r.payload) = expectedPayloadSize(r.code)

Fifo == INSTANCE ResponseFifo WITH
    Valid <- valid,
    queue <- IF isOpen THEN taken \o responses ELSE <<>>,
    open <- isOpen

\* However the bytes are cut into segments, receiveResponse returns the server's
\* responses whole, in order and each at most once, and none after one that
\* announces a wrong size or after the connection has failed.
IsFifo == Fifo!Spec
=============================================================================
