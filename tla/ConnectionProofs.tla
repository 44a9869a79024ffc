-------------------------- MODULE ConnectionProofs --------------------------
(***************************************************************************)
(* receiveResponse keeps its promises about sizes for any server, any       *)
(* segments and any number of responses; the server understands every       *)
(* request, for names of any length and files of any size that fits.        *)
(***************************************************************************)
EXTENDS Connection, WellFoundedInduction, SequenceTheorems, TLAPS

\* What a call knows at each point: the codes it accepts, and, once it has a
\* header, that the size in it is the one the code has.
CallInv ==
    /\ stage \in {"idle", "header", "payload"}
    /\ stage # "idle" => accepted \in {acceptedCodes[c] : c \in DOMAIN acceptedCodes}
    /\ stage = "idle" => wanted = 0
    /\ stage = "header" => wanted = RESPONSE_HEADER_SIZE
    /\ stage = "payload" => sizeAgrees(header) /\ wanted = header.payloadSize

LEMMA ResponseCodes ==
    ResponseCode = {RegistrationSuccess, RegistrationFailed, AesKeyReceived,
                    FileReceivedWithCrc, MessageConfirmed, ReconnectApproved,
                    ReconnectRejected, GeneralError}
BY DEF ResponseCode, RegistrationSuccess, RegistrationFailed, AesKeyReceived,
       FileReceivedWithCrc, MessageConfirmed, ReconnectApproved, ReconnectRejected,
       GeneralError

LEMMA PayloadBounds ==
    \A code \in ResponseCode : expectedPayloadSize(code) \in 0..CRC_PAYLOAD_EXPECTED_SIZE
BY ResponseCodes DEF expectedPayloadSize, UUID_SIZE, AES_KEY_PAYLOAD_SIZE,
       ENCRYPTED_AES_KEY_SIZE, CRC_PAYLOAD_EXPECTED_SIZE, FILE_NAME_FIELD_SIZE,
       RegistrationSuccess, RegistrationFailed, AesKeyReceived, FileReceivedWithCrc,
       MessageConfirmed, ReconnectApproved, ReconnectRejected, GeneralError

LEMMA CallInvInit == ResponseInit => CallInv
BY DEF ResponseInit, CallInv

LEMMA CallInvNext == CallInv /\ [ResponseNext]_responseVars => CallInv'
<1> SUFFICES ASSUME CallInv, [ResponseNext]_responseVars PROVE CallInv'
  OBVIOUS
<1> USE DEF CallInv
<1>8. ASSUME NEW r \in Responses, Respond(r) PROVE CallInv'
  BY <1>8 DEF Respond, callVars
<1>1. ASSUME NEW c \in DOMAIN acceptedCodes, ReceiveResponse(acceptedCodes[c]) PROVE CallInv'
  BY <1>1 DEF ReceiveResponse, Return
<1>2. ASSUME NEW segment \in Segments, ReadSome(segment) PROVE CallInv'
  BY <1>2 DEF ReadSome
<1>3. CASE ReceiveFails
  BY <1>3 DEF ReceiveFails, Return
<1>4. CASE HeaderReceived
  <2>1. PICK h : h = parseHeader(buffer)
    OBVIOUS
  <2>2. CASE sizeAgrees(h)
    <3>1. stage' = "payload" /\ header' = h /\ wanted' = h.payloadSize /\ accepted' = accepted
      BY <1>4, <2>1, <2>2 DEF HeaderReceived
    <3>2. stage = "header"
      BY <1>4 DEF HeaderReceived
    <3> QED BY <2>2, <3>1, <3>2 DEF sizeAgrees
  <2>3. CASE ~sizeAgrees(h)
    BY <1>4, <2>1, <2>3 DEF HeaderReceived, Return
  <2> QED BY <2>2, <2>3
<1>5. CASE PayloadReceived
  BY <1>5 DEF PayloadReceived, Return
<1>6. CASE LinkFails
  BY <1>6 DEF LinkFails, callVars
<1>7. CASE UNCHANGED responseVars
  BY <1>7 DEF responseVars, callVars
<1> QED BY <1>1, <1>2, <1>3, <1>4, <1>5, <1>6, <1>7, <1>8 DEF ResponseNext, ReceiveStep

\* A code that is accepted and must echo the ID comes with a payload that has one.
LEMMA EchoedHaveIds ==
    ASSUME NEW c \in DOMAIN acceptedCodes, NEW code \in acceptedCodes[c], echoesClientId(code)
    PROVE  code \in ResponseCode /\ expectedPayloadSize(code) >= UUID_SIZE
<1>1. code \in {AesKeyReceived, ReconnectApproved, FileReceivedWithCrc, MessageConfirmed}
  BY ResponseCodes DEF acceptedCodes, answers, echoesClientId, Registration, SendPublicKey,
       Reconnect, SendFile, CrcValid, CrcInvalidAbort,
       RegistrationSuccess, RegistrationFailed, AesKeyReceived, FileReceivedWithCrc,
       MessageConfirmed, ReconnectApproved, ReconnectRejected, GeneralError
<1> QED BY <1>1, ResponseCodes DEF expectedPayloadSize, UUID_SIZE, AES_KEY_PAYLOAD_SIZE,
       ENCRYPTED_AES_KEY_SIZE, CRC_PAYLOAD_EXPECTED_SIZE, FILE_NAME_FIELD_SIZE,
       RegistrationSuccess, RegistrationFailed, AesKeyReceived, FileReceivedWithCrc,
       MessageConfirmed, ReconnectApproved, ReconnectRejected, GeneralError

LEMMA CallInvImplies == CallInv => NoHugeRead /\ EchoWithinPayload
<1> SUFFICES ASSUME CallInv PROVE NoHugeRead /\ EchoWithinPayload
  OBVIOUS
<1>1. NoHugeRead
  <2>1. CASE stage = "payload"
    BY <2>1, PayloadBounds DEF CallInv, sizeAgrees, NoHugeRead, CRC_PAYLOAD_EXPECTED_SIZE,
         UUID_SIZE, FILE_NAME_FIELD_SIZE
  <2>2. CASE stage # "payload"
    BY <2>2 DEF CallInv, NoHugeRead, RESPONSE_HEADER_SIZE, CRC_PAYLOAD_EXPECTED_SIZE,
         UUID_SIZE, FILE_NAME_FIELD_SIZE
  <2> QED BY <2>1, <2>2
<1>2. EchoWithinPayload
  BY EchoedHaveIds DEF CallInv, sizeAgrees, EchoWithinPayload
<1> QED BY <1>1, <1>2

\* A client that waits has sent a request with a response, so that every step of a
\* connection is one of the response stream or leaves that stream alone.
AwaitingInv == awaiting # Nothing => awaiting \in DOMAIN acceptedCodes

LEMMA AwaitingInvNext == AwaitingInv /\ [Next]_vars => AwaitingInv'
BY DEF AwaitingInv, Next, vars, SendRequest, Call, Receive, ServerReads, ServerAnswers,
       Failure, Over, Nothing

LEMMA StreamStep == AwaitingInv /\ [Next]_vars => [ResponseNext]_responseVars
<1> SUFFICES ASSUME AwaitingInv, [Next]_vars PROVE [ResponseNext]_responseVars
  OBVIOUS
<1>1. CASE Call
  BY <1>1 DEF Call, AwaitingInv, ResponseNext
<1>2. CASE Receive
  BY <1>2 DEF Receive, ResponseNext
<1>3. CASE ServerAnswers
  BY <1>3 DEF ServerAnswers, ResponseNext
<1>4. CASE Failure
  BY <1>4 DEF Failure, ResponseNext
<1>5. CASE SendRequest \/ ServerReads \/ Over \/ UNCHANGED vars
  BY <1>5 DEF SendRequest, ServerReads, Over, vars
<1> QED BY <1>1, <1>2, <1>3, <1>4, <1>5 DEF Next

LEMMA CallInvariant == Spec => []CallInv
<1>1. Init => AwaitingInv /\ CallInv
  BY CallInvInit DEF Init, AwaitingInv
<1>2. AwaitingInv /\ CallInv /\ [Next]_vars => AwaitingInv' /\ CallInv'
  BY AwaitingInvNext, StreamStep, CallInvNext
<1> QED BY <1>1, <1>2, PTL DEF Spec

\* Whatever a server announces, in whatever segments it arrives and wherever the
\* connection breaks, a call waits for no more bytes than the largest response of the
\* protocol has (receiveResponse, receiveExact).
THEOREM SizesTrusted == Spec => []NoHugeRead
BY CallInvariant, CallInvImplies, PTL

\* The client's ID is looked for only in payloads that are long enough for one: the
\* std::equal of receiveResponse stays within its buffer.
THEOREM EchoFits == Spec => []EchoWithinPayload
BY CallInvariant, CallInvImplies, PTL

-----------------------------------------------------------------------------
(* Integers, little endian *)

LEMMA Division ==
    ASSUME NEW n \in Nat, NEW b \in Nat \ {0}
    PROVE  n % b \in 0..(b - 1) /\ n \div b \in Nat /\ n = b * (n \div b) + (n % b)
OBVIOUS

LEMMA QuotientBound ==
    ASSUME NEW n \in Nat, NEW b \in Nat \ {0}, NEW c \in Nat, n < b * c
    PROVE  n \div b \in 0..(c - 1)
<1>1. PICK q \in Nat : q = n \div b
  BY Division
<1>2. b * q <= n
  BY <1>1, Division
<1>3. CASE q >= c
  <2>1. b * q >= b * c
    BY <1>3
  <2> QED BY <1>2, <2>1
<1> QED BY <1>1, <1>3

LEMMA SmallRemainder ==
    ASSUME NEW b \in Nat \ {0}, NEW n \in 0..(b - 1)
    PROVE  n % b = n
BY Z3

LEMMA Sizes == /\ UINT16 \in Nat \ {0} /\ UINT32 \in Nat \ {0} /\ BYTE \in Nat \ {0}
               /\ UINT16 >= 42 * 42
               /\ UINT32 >= UINT16
<1>1. BYTE \in Nat /\ BYTE >= 42
  BY ByteAssumption
<1>2. UINT16 \in Nat /\ UINT16 >= 42 * 42
  BY <1>1 DEF UINT16
<1>3. UINT32 \in Nat /\ UINT32 >= UINT16
  BY <1>2 DEF UINT32
<1> QED BY <1>1, <1>2, <1>3

\* What is written as an integer of two bytes is two bytes, and read as that integer.
LEMMA Uint16Read ==
    ASSUME NEW n \in Nat
    PROVE  /\ appendUint16LE(n) \in Seq(Byte) /\ Len(appendUint16LE(n)) = 2
           /\ n < UINT16 => readUint16LE(appendUint16LE(n)) = n
<1>1. n % BYTE \in Byte /\ n \div BYTE \in Nat /\ n = BYTE * (n \div BYTE) + (n % BYTE)
  BY Division, Sizes DEF Byte
<1>2. (n \div BYTE) % BYTE \in Byte
  BY <1>1, Division, Sizes DEF Byte
<1>3. ASSUME n < UINT16 PROVE readUint16LE(appendUint16LE(n)) = n
  <2>1. n \div BYTE \in 0..(BYTE - 1)
    BY <1>3, QuotientBound, Sizes DEF UINT16
  <2>2. (n \div BYTE) % BYTE = n \div BYTE
    BY <2>1, SmallRemainder, Sizes
  <2>3. /\ appendUint16LE(n)[1] = n % BYTE
        /\ appendUint16LE(n)[2] = n \div BYTE
    BY <2>2 DEF appendUint16LE
  <2>4. readUint16LE(appendUint16LE(n)) = (n % BYTE) + BYTE * (n \div BYTE)
    BY <2>3, Zenon DEF readUint16LE
  <2>5. PICK q \in Nat, r \in 0..(BYTE - 1) : q = BYTE * (n \div BYTE) /\ r = n % BYTE
    BY <1>1, Sizes DEF Byte
  <2>6. n = q + r /\ r + q = n
    BY <1>1, <2>5, Sizes
  <2> QED BY <2>4, <2>5, <2>6, Zenon
<1> QED BY <1>1, <1>2, <1>3 DEF appendUint16LE

\* The same for four bytes.
LEMMA Uint32Read ==
    ASSUME NEW n \in Nat
    PROVE  /\ appendUint32LE(n) \in Seq(Byte) /\ Len(appendUint32LE(n)) = 4
           /\ n < UINT32 => readUint32LE(appendUint32LE(n)) = n
<1>1. /\ n % UINT16 \in 0..(UINT16 - 1) /\ n \div UINT16 \in Nat
      /\ n = UINT16 * (n \div UINT16) + (n % UINT16)
  BY Division, Sizes
<1>2. PICK low, high : low = appendUint16LE(n % UINT16) /\ high = appendUint16LE(n \div UINT16)
  OBVIOUS
<1>3. low \in Seq(Byte) /\ Len(low) = 2 /\ readUint16LE(low) = n % UINT16
  BY <1>1, <1>2, Uint16Read, Sizes
<1>4. high \in Seq(Byte) /\ Len(high) = 2
  BY <1>1, <1>2, Uint16Read
<1>5. appendUint32LE(n) = low \o high
  BY <1>2 DEF appendUint32LE
<1>6. /\ low \o high \in Seq(Byte) /\ Len(low \o high) = 4
      /\ (low \o high)[1] = low[1] /\ (low \o high)[2] = low[2]
      /\ (low \o high)[3] = high[1] /\ (low \o high)[4] = high[2]
  <2>1. /\ low \o high \in Seq(Byte) /\ Len(low \o high) = Len(low) + Len(high)
        /\ \A k \in 1..(Len(low) + Len(high)) :
               (low \o high)[k] = IF k <= Len(low) THEN low[k] ELSE high[k - Len(low)]
    BY <1>3, <1>4, ConcatProperties, Zenon
  <2>2. PICK both : both = low \o high
    OBVIOUS
  <2> QED BY <1>3, <1>4, <2>1, <2>2
<1>7. ASSUME n < UINT32 PROVE readUint32LE(low \o high) = n
  <2>1. n \div UINT16 < UINT16
    BY <1>7, QuotientBound, Sizes DEF UINT32
  <2>2. readUint16LE(high) = n \div UINT16
    BY <1>1, <1>2, <2>1, Uint16Read
  <2>3. readUint16LE(low \o high) = readUint16LE(low)
    BY <1>6 DEF readUint16LE
  <2>4. readUint16LE(<<(low \o high)[3], (low \o high)[4]>>) = readUint16LE(high)
    BY <1>6 DEF readUint16LE
  <2>5. readUint32LE(low \o high) = (n % UINT16) + UINT16 * (n \div UINT16)
    BY <1>3, <2>2, <2>3, <2>4, Zenon DEF readUint32LE
  <2>6. PICK q \in Nat, r \in 0..(UINT16 - 1) : q = UINT16 * (n \div UINT16) /\ r = n % UINT16
    BY <1>1, Sizes
  <2>7. n = q + r /\ r + q = n
    BY <1>1, <2>6, Sizes
  <2> QED BY <2>5, <2>6, <2>7, Zenon
<1> QED BY <1>5, <1>6, <1>7

-----------------------------------------------------------------------------
(* Strings in fields of fixed size *)

\* The string in these bytes has n characters.
Ends(bytes, n) ==
    /\ n \in 0..Len(bytes)
    /\ \A k \in 1..n : bytes[k] # 0
    /\ n < Len(bytes) => bytes[n + 1] = 0

LEMMA EndExists == ASSUME NEW bytes \in Seq(Byte) PROVE \E n \in 0..Len(bytes) : Ends(bytes, n)
<1> DEFINE zeros == {k \in 1..Len(bytes) : bytes[k] = 0}
<1>1. CASE zeros = {}
  <2>1. Ends(bytes, Len(bytes))
    BY <1>1 DEF Ends
  <2> QED BY <2>1
<1>2. CASE zeros # {}
  <2>1. zeros \subseteq Nat
    OBVIOUS
  <2>2. PICK R : R = {ss \in Nat \X Nat : ss[1] < ss[2]}
    OBVIOUS
  <2>3. IsWellFoundedOn(R, Nat)
    BY <2>2, NatLessThanWellFounded, Zenon DEF OpToRel
  <2>4. PICK first \in zeros : \A k \in zeros : ~ (<<k, first>> \in R)
    <3> HIDE DEF zeros
    <3> QED BY <1>2, <2>1, <2>3, WFMin
  <2>5. \A k \in zeros : ~ (k < first)
    BY <2>1, <2>2, <2>4
  <2>6. Ends(bytes, first - 1)
    BY <2>5 DEF Ends
  <2> QED BY <2>6
<1> QED BY <1>1, <1>2

LEMMA EndUnique ==
    ASSUME NEW bytes \in Seq(Byte), NEW n \in Nat, NEW m \in Nat, Ends(bytes, n), Ends(bytes, m)
    PROVE  n = m
<1>1. CASE n < m
  BY <1>1 DEF Ends
<1>2. CASE m < n
  BY <1>2 DEF Ends
<1> QED BY <1>1, <1>2

LEMMA StringRead ==
    ASSUME NEW bytes \in Seq(Byte), NEW n \in Nat, Ends(bytes, n)
    PROVE  readString(bytes) = SubSeq(bytes, 1, n)
<1> DEFINE end(m) == /\ \A k \in 1..m : bytes[k] # 0
                     /\ m < Len(bytes) => bytes[m + 1] = 0
<1>1. PICK m : m = CHOOSE k \in 0..Len(bytes) : end(k)
  OBVIOUS
<1>2. n \in 0..Len(bytes) /\ end(n)
  BY DEF Ends
<1>3. m \in 0..Len(bytes) /\ end(m)
  <2> HIDE DEF end
  <2> QED BY <1>1, <1>2
<1>4. m = n
  BY <1>3, EndUnique DEF Ends
<1>5. readString(bytes) = SubSeq(bytes, 1, m)
  BY <1>1 DEF readString
<1> QED BY <1>4, <1>5

\* A string in a field is read as what fits of it, up to its first zero.
LEMMA FieldRead ==
    ASSUME NEW str \in Seq(Byte), NEW size \in Nat \ {0}
    PROVE  /\ appendFixedString(str, size) \in Seq(Byte)
           /\ Len(appendFixedString(str, size)) = size
           /\ cut(str, size) \in Seq(Byte)
           /\ readString(appendFixedString(str, size)) = cut(str, size)
<1>1. PICK field, text, len :
          /\ field = appendFixedString(str, size)
          /\ len = IF Len(str) < size THEN Len(str) ELSE size - 1
          /\ text = SubSeq(str, 1, len)
  OBVIOUS
<1>2. len \in 0..Len(str) /\ len < size
  BY <1>1
<1>3. text \in Seq(Byte) /\ Len(text) = len /\ \A k \in 1..len : text[k] = str[k]
  BY <1>1, <1>2
<1>4. /\ field \in Seq(Byte) /\ Len(field) = size
      /\ \A k \in 1..size : field[k] = IF k <= len THEN str[k] ELSE 0
  BY <1>1, Sizes DEF appendFixedString, Byte
<1>5. PICK n \in 0..len : Ends(text, n)
  BY <1>3, EndExists
<1>6. Ends(field, n)
  BY <1>2, <1>3, <1>4, <1>5 DEF Ends
<1>7. readString(text) = SubSeq(text, 1, n)
  BY <1>3, <1>5, StringRead
<1>8. readString(field) = SubSeq(field, 1, n)
  BY <1>4, <1>6, StringRead
<1>9. SubSeq(text, 1, n) \in Seq(Byte) /\ SubSeq(field, 1, n) = SubSeq(text, 1, n)
  BY <1>2, <1>3, <1>4
<1>10. cut(str, size) = readString(text)
  BY <1>1 DEF cut
<1> QED BY <1>1, <1>4, <1>7, <1>8, <1>9, <1>10

regroups(s, t, u) == (s \o t) \o u = s \o (t \o u)

LEMMA Regroups ==
    ASSUME NEW s \in Seq(Byte), NEW t \in Seq(Byte), NEW u \in Seq(Byte)
    PROVE  regroups(s, t, u)
BY ConcatAssociative DEF regroups

\* Every field of the protocol has this size.
LEMMA NameRead ==
    ASSUME NEW str \in Seq(Byte), NEW field, field = appendFixedString(str, 255)
    PROVE  field \in Seq(Byte) /\ Len(field) = 255 /\ readString(field) = cut(str, 255)
<1>1. 255 \in Nat \ {0}
  OBVIOUS
<1>2. field \in Seq(Byte)
  BY <1>1, FieldRead
<1>3. Len(appendFixedString(str, 255)) = 255
  BY <1>1, FieldRead, Zenon
<1>4. readString(field) = cut(str, 255)
  BY <1>1, FieldRead
<1> QED BY <1>2, <1>3, <1>4

\* A text without a zero that leaves room for one in its field is read as it is.
LEMMA WholeTextRead ==
    ASSUME NEW str \in Seq(Byte), NEW size \in Nat, Len(str) < size,
           \A k \in 1..Len(str) : str[k] # 0
    PROVE  readString(appendFixedString(str, size)) = str
<1>1. cut(str, size) = readString(str)
  <2>1. SubSeq(str, 1, Len(str)) = str
    OBVIOUS
  <2> QED BY <2>1 DEF cut
<1>2. Ends(str, Len(str))
  BY DEF Ends
<1>3. readString(str) = str
  BY <1>2, StringRead
<1> QED BY <1>1, <1>3, FieldRead

-----------------------------------------------------------------------------
(* Packets *)

LEMMA FromRead ==
    ASSUME NEW S, NEW s \in Seq(S), NEW k \in Nat, NEW n \in Nat, k + n <= Len(s)
    PROVE  /\ from(s, k, n) \in Seq(S) /\ Len(from(s, k, n)) = n
           /\ \A i \in 1..n : from(s, k, n)[i] = s[k + i]
BY DEF from

LEMMA FromAll == ASSUME NEW S, NEW s \in Seq(S) PROVE from(s, 0, Len(s)) = s
BY DEF from

\* What there is to know of bytes followed by more bytes.
joins(st, s, t) ==
    /\ st \in Seq(Byte) /\ Len(st) = Len(s) + Len(t)
    /\ \A k \in 1..(Len(s) + Len(t)) : st[k] = IF k <= Len(s) THEN s[k] ELSE t[k - Len(s)]
    /\ \A k \in Nat, n \in Nat : k + n <= Len(s) => from(st, k, n) = from(s, k, n)
    /\ \A k \in Nat, n \in Nat :
           k >= Len(s) /\ k + n <= Len(s) + Len(t) => from(st, k, n) = from(t, k - Len(s), n)

LEMMA Joined ==
    ASSUME NEW s \in Seq(Byte), NEW t \in Seq(Byte), NEW st, st = s \o t
    PROVE  joins(st, s, t)
<1>1. /\ st \in Seq(Byte) /\ Len(st) = Len(s) + Len(t)
      /\ \A k \in 1..(Len(s) + Len(t)) : st[k] = IF k <= Len(s) THEN s[k] ELSE t[k - Len(s)]
  BY ConcatProperties, Zenon
<1>2. ASSUME NEW k \in Nat, NEW n \in Nat, k + n <= Len(s) PROVE from(st, k, n) = from(s, k, n)
  BY <1>1, <1>2 DEF from
<1>3. ASSUME NEW k \in Nat, NEW n \in Nat, k >= Len(s), k + n <= Len(s) + Len(t)
      PROVE  from(st, k, n) = from(t, k - Len(s), n)
  BY <1>1, <1>3 DEF from
<1> QED BY <1>1, <1>2, <1>3 DEF joins

LEMMA Codes == \A code \in RequestCode : code \in 0..(UINT16 - 1)
BY Sizes DEF RequestCode, Registration, SendPublicKey, Reconnect, SendFile,
             CrcValid, CrcInvalidRetry, CrcInvalidAbort

LEMMA HeaderTyped ==
    ASSUME NEW id \in Seq(Byte), NEW code \in RequestCode, NEW size \in 0..(UINT32 - 1)
    PROVE  appendRequestHeader(id, code, size) \in Seq(Byte)
<1>1. PICK version, c, n, s1, s2 :
          /\ version = <<CLIENT_VERSION>> /\ c = appendUint16LE(code)
          /\ n = appendUint32LE(size % UINT32)
          /\ s1 = id \o version /\ s2 = s1 \o c
  OBVIOUS
<1>2. version \in Seq(Byte)
  BY <1>1, Sizes, ByteAssumption DEF CLIENT_VERSION, Byte
<1>3. c \in Seq(Byte)
  BY <1>1, Codes, Uint16Read, Sizes
<1>4. n \in Seq(Byte)
  <2>1. size % UINT32 \in Nat
    BY Sizes, SmallRemainder
  <2> QED BY <1>1, <2>1, Uint32Read
<1>5. s1 \in Seq(Byte)
  BY <1>1, <1>2, ConcatProperties, Zenon
<1>6. s2 \in Seq(Byte)
  BY <1>1, <1>3, <1>5, ConcatProperties, Zenon
<1>7. s2 \o n \in Seq(Byte)
  BY <1>4, <1>6, ConcatProperties, Zenon
<1> QED BY <1>1, <1>7, Zenon DEF appendRequestHeader

\* The header of a request is read as it was written, whatever follows it.
LEMMA HeaderRead ==
    ASSUME NEW id \in Seq(Byte), Len(id) = UUID_SIZE, NEW code \in RequestCode,
           NEW size \in 0..(UINT32 - 1), NEW payload \in Seq(Byte),
           NEW head, joins(head, appendRequestHeader(id, code, size), payload)
    PROVE  /\ head \in Seq(Byte) /\ Len(head) = REQUEST_HEADER_SIZE + Len(payload)
           /\ SubSeq(head, REQUEST_HEADER_SIZE + 1, Len(head)) = payload
           /\ requestHeader(head) = [id |-> id, version |-> CLIENT_VERSION, code |-> code,
                                     payloadSize |-> size]
<1>1. PICK version, c, n : /\ version = <<CLIENT_VERSION>>
                           /\ c = appendUint16LE(code) /\ n = appendUint32LE(size)
  OBVIOUS
<1>2. version \in Seq(Byte) /\ Len(version) = 1 /\ version[1] = CLIENT_VERSION
  BY <1>1, Sizes, ByteAssumption DEF CLIENT_VERSION, Byte
<1>3. c \in Seq(Byte) /\ Len(c) = 2 /\ readUint16LE(c) = code
  BY <1>1, Codes, Uint16Read, Sizes
<1>4. n \in Seq(Byte) /\ Len(n) = 4 /\ readUint32LE(n) = size
  BY <1>1, Uint32Read, Sizes
<1>5. PICK s1, s2, s3 : s1 = id \o version /\ s2 = s1 \o c /\ s3 = s2 \o n
  OBVIOUS
<1>6. joins(s1, id, version)
  BY <1>2, <1>5, Joined
<1>7. s1 \in Seq(Byte) /\ Len(s1) = 17
  <2>1. s1 \in Seq(Byte) /\ Len(s1) = Len(id) + Len(version)
    BY <1>6 DEF joins
  <2> QED BY <1>2, <2>1 DEF UUID_SIZE
<1>8. joins(s2, s1, c)
  BY <1>3, <1>5, <1>7, Joined
<1>9. s2 \in Seq(Byte) /\ Len(s2) = 19
  <2>1. s2 \in Seq(Byte) /\ Len(s2) = Len(s1) + Len(c)
    BY <1>8 DEF joins
  <2> QED BY <1>3, <1>7, <2>1
<1>10. joins(s3, s2, n)
  BY <1>4, <1>5, <1>9, Joined
<1>11. s3 \in Seq(Byte) /\ Len(s3) = 23
  <2>1. s3 \in Seq(Byte) /\ Len(s3) = Len(s2) + Len(n)
    BY <1>10 DEF joins
  <2> QED BY <1>4, <1>9, <2>1
<1>12. s3 = appendRequestHeader(id, code, size)
  <2>1. size % UINT32 = size
    BY SmallRemainder, Sizes
  <2> QED BY <1>1, <1>5, <2>1, Zenon DEF appendRequestHeader
<1>13. joins(head, s3, payload)
  BY <1>12
<1>14. head \in Seq(Byte) /\ Len(head) = 23 + Len(payload)
  BY <1>11, <1>13 DEF joins
<1>15. from(head, 0, 16) = id
  <2>1. from(head, 0, 16) = from(s3, 0, 16)
    BY <1>11, <1>13 DEF joins
  <2>2. from(s3, 0, 16) = from(s2, 0, 16)
    BY <1>9, <1>10 DEF joins
  <2>3. from(s2, 0, 16) = from(s1, 0, 16)
    BY <1>7, <1>8 DEF joins
  <2>4. from(s1, 0, 16) = from(id, 0, 16)
    BY <1>6 DEF joins, UUID_SIZE
  <2> QED BY <2>1, <2>2, <2>3, <2>4, FromAll DEF UUID_SIZE
<1>16. head[17] = CLIENT_VERSION
  <2>1. head[17] = s3[17]
    BY <1>11, <1>13 DEF joins
  <2>2. s3[17] = s2[17]
    BY <1>4, <1>9, <1>10 DEF joins
  <2>3. s2[17] = s1[17]
    BY <1>3, <1>7, <1>8 DEF joins
  <2>4. s1[17] = version[1]
    BY <1>2, <1>6 DEF joins, UUID_SIZE
  <2> QED BY <1>2, <2>1, <2>2, <2>3, <2>4
<1>17. from(head, 17, 2) = c
  <2>1. from(head, 17, 2) = from(s3, 17, 2)
    BY <1>11, <1>13 DEF joins
  <2>2. from(s3, 17, 2) = from(s2, 17, 2)
    BY <1>9, <1>10 DEF joins
  <2>3. from(s2, 17, 2) = from(c, 0, 2)
    BY <1>3, <1>7, <1>8 DEF joins
  <2> QED BY <1>3, <2>1, <2>2, <2>3, FromAll
<1>18. from(head, 19, 4) = n
  <2>1. from(head, 19, 4) = from(s3, 19, 4)
    BY <1>11, <1>13 DEF joins
  <2>2. from(s3, 19, 4) = from(n, 0, 4)
    BY <1>4, <1>9, <1>10 DEF joins
  <2> QED BY <1>4, <2>1, <2>2, FromAll
<1>19. SubSeq(head, 24, Len(head)) = payload
  <2>1. from(head, 23, Len(payload)) = from(payload, 0, Len(payload))
    BY <1>11, <1>13 DEF joins
  <2> QED BY <1>14, <2>1, FromAll DEF from
<1> QED BY <1>3, <1>4, <1>14, <1>15, <1>16, <1>17, <1>18, <1>19
        DEF requestHeader, UUID_SIZE, REQUEST_HEADER_SIZE

\* The server makes this request of what was sent.
reads(request, sent) ==
    LET head  == sent.head
        bytes == SubSeq(head, REQUEST_HEADER_SIZE + 1, Len(head))
        h     == requestHeader(head)
    IN  /\ h.version = CLIENT_VERSION /\ h.payloadSize = Len(bytes) + sent.content
        /\ understood(h, bytes, sent.content) = request

Ids == {id \in Seq(Byte) : Len(id) = UUID_SIZE}

Named == {Registration, Reconnect, CrcValid, CrcInvalidRetry, CrcInvalidAbort}

LEMMA ReadsIs ==
    ASSUME NEW id \in Ids, NEW code \in RequestCode, NEW size \in 0..(UINT32 - 1),
           NEW payload \in Seq(Byte), NEW content \in Nat, size = Len(payload) + content,
           NEW head, joins(head, appendRequestHeader(id, code, size), payload),
           NEW h, h = [id |-> id, version |-> CLIENT_VERSION, code |-> code,
                       payloadSize |-> size]
    PROVE  /\ head \in Seq(Byte)
           /\ reads(understood(h, payload, content), packet(head, content))
<1>1. id \in Seq(Byte) /\ Len(id) = UUID_SIZE
  BY DEF Ids
<1>2. /\ head \in Seq(Byte) /\ SubSeq(head, REQUEST_HEADER_SIZE + 1, Len(head)) = payload
      /\ requestHeader(head) = h
  BY <1>1, HeaderRead
<1>3. packet(head, content).head = head /\ packet(head, content).content = content
  BY DEF packet
<1>4. h.version = CLIENT_VERSION /\ h.payloadSize = Len(payload) + content
  OBVIOUS
<1> QED BY <1>2, <1>3, <1>4, Zenon DEF reads

LEMMA NamedRead ==
    ASSUME NEW id \in Ids, NEW code \in Named, NEW str \in Seq(Byte), NEW head,
           joins(head, appendRequestHeader(id, code, 255), appendFixedString(str, 255))
    PROVE  /\ head \in Seq(Byte)
           /\ reads([code |-> code, id |-> id, name |-> cut(str, 255)], packet(head, 0))
<1>1. PICK field : field = appendFixedString(str, 255)
  OBVIOUS
<1>2. field \in Seq(Byte) /\ Len(field) = 255 /\ readString(field) = cut(str, 255)
  BY <1>1, NameRead
<1>3. PICK size \in 0..(UINT32 - 1), none \in Nat : size = 255 /\ none = 0
  BY Sizes
<1>4. PICK h : h = [id |-> id, version |-> CLIENT_VERSION, code |-> code, payloadSize |-> size]
  OBVIOUS
<1>5. understood(h, field, none) = [code |-> code, id |-> id, name |-> cut(str, 255)]
  BY <1>2, <1>4 DEF understood, Named
<1>6. code \in RequestCode
  BY DEF Named, RequestCode
<1>7. joins(head, appendRequestHeader(id, code, size), field)
  BY <1>1, <1>3
<1>8. size = Len(field) + none /\ size \in 0..(UINT32 - 1) /\ none \in Nat
  BY <1>2, <1>3
<1>9. field \in Seq(Byte)
  BY <1>2
<1>10. size \in 0..(UINT32 - 1)
  BY <1>8
<1>11. none \in Nat
  BY <1>8
<1>12. size = Len(field) + none
  BY <1>8
<1>13. /\ head \in Seq(Byte)
       /\ reads(understood(h, field, none), packet(head, none))
  BY <1>4, <1>6, <1>7, <1>9, <1>10, <1>11, <1>12, ReadsIs, Zenon
<1> QED BY <1>3, <1>5, <1>13

LEMMA KeyRead ==
    ASSUME NEW id \in Ids, NEW str \in Seq(Byte), NEW key \in Seq(Byte),
           Len(key) = PUBLIC_KEY_SIZE
    PROVE  /\ buildPublicKeyExchange(id, str, key).head \in Seq(Byte)
           /\ reads([code |-> SendPublicKey, id |-> id, name |-> cut(str, NAME_FIELD_SIZE),
                     key |-> key],
                    buildPublicKeyExchange(id, str, key))
<1>1. PICK field, begin : /\ field = appendFixedString(str, 255)
                          /\ begin = appendRequestHeader(id, SendPublicKey, 415)
  OBVIOUS
<1>2. field \in Seq(Byte) /\ Len(field) = 255 /\ readString(field) = cut(str, 255)
  BY <1>1, NameRead
<1>3. PICK payload, head : payload = field \o key /\ head = begin \o payload
  OBVIOUS
<1>4. joins(payload, field, key)
  BY <1>2, <1>3, Joined
<1>5. Len(key) = 160
  BY DEF PUBLIC_KEY_SIZE
<1>6. payload \in Seq(Byte) /\ Len(payload) = 415
  <2>1. payload \in Seq(Byte) /\ Len(payload) = Len(field) + Len(key)
    BY <1>4 DEF joins
  <2> QED BY <1>2, <1>5, <2>1
<1>7. from(payload, 0, 255) = field
  <2>1. from(payload, 0, 255) = from(field, 0, 255)
    BY <1>2, <1>4 DEF joins
  <2> QED BY <1>2, <2>1, FromAll
<1>8. from(payload, 255, 160) = key
  <2>1. from(payload, 255, 160) = from(key, 0, 160)
    <3>1. \A k \in Nat, n \in Nat : k >= 255 /\ k + n <= 415 => from(payload, k, n) = from(key, k - 255, n)
      <4>1. Len(field) + Len(key) = 415
        BY <1>2, <1>5
      <4> QED BY <1>2, <1>4, <4>1 DEF joins
    <3> QED BY <3>1
  <2> QED BY <1>5, <2>1, FromAll
<1>9. PICK size \in 0..(UINT32 - 1), none \in Nat : size = 415 /\ none = 0
  BY Sizes
<1>10. PICK h : h = [id |-> id, version |-> CLIENT_VERSION, code |-> SendPublicKey,
                     payloadSize |-> size]
  OBVIOUS
<1>11. understood(h, payload, none)
          = [code |-> SendPublicKey, id |-> id, name |-> cut(str, 255), key |-> key]
  <2>1. h.code \notin {Registration, Reconnect, CrcValid, CrcInvalidRetry, CrcInvalidAbort}
    BY <1>10 DEF Registration, SendPublicKey, Reconnect, CrcValid, CrcInvalidRetry, CrcInvalidAbort
  <2>2. h.code = SendPublicKey /\ h.id = id
    BY <1>10
  <2> QED BY <1>2, <1>7, <1>8, <2>1, <2>2 DEF understood, NAME_FIELD_SIZE, PUBLIC_KEY_SIZE
<1>12. SendPublicKey \in RequestCode
  BY DEF RequestCode
<1>13. begin \in Seq(Byte)
  <2>1. id \in Seq(Byte)
    BY DEF Ids
  <2>2. begin = appendRequestHeader(id, SendPublicKey, size)
    BY <1>1, <1>9
  <2>3. size \in 0..(UINT32 - 1)
    BY <1>9
  <2> QED BY <1>12, <2>1, <2>2, <2>3, HeaderTyped
<1>14. joins(head, begin, payload)
  BY <1>3, <1>6, <1>13, Joined
<1>15. joins(head, appendRequestHeader(id, SendPublicKey, size), payload)
  BY <1>1, <1>9, <1>14
<1>16. size = Len(payload) + none /\ size \in 0..(UINT32 - 1) /\ none \in Nat
  BY <1>6, <1>9
<1>17. /\ head \in Seq(Byte)
       /\ reads(understood(h, payload, none), packet(head, none))
  <2>1. payload \in Seq(Byte)
    BY <1>6
  <2>2. size \in 0..(UINT32 - 1)
    BY <1>16
  <2>3. none \in Nat
    BY <1>16
  <2>4. size = Len(payload) + none
    BY <1>16
  <2> QED BY <1>10, <1>12, <1>15, <2>1, <2>2, <2>3, <2>4, ReadsIs, Zenon
<1>18. buildPublicKeyExchange(id, str, key) = packet(head, 0)
  <2>1. [k \in 1..PUBLIC_KEY_SIZE |-> IF k <= Len(key) THEN key[k] ELSE 0] = key
    BY DEF PUBLIC_KEY_SIZE
  <2>2. (begin \o field) \o key = begin \o (field \o key)
    <3>1. regroups(begin, field, key)
      BY <1>2, <1>13, Regroups
    <3> QED BY <3>1, Zenon DEF regroups
  <2>3. NAME_FIELD_SIZE + PUBLIC_KEY_SIZE = 415 /\ NAME_FIELD_SIZE = 255
    BY DEF NAME_FIELD_SIZE, PUBLIC_KEY_SIZE
  <2> QED BY <1>1, <1>3, <2>1, <2>2, <2>3, Zenon DEF buildPublicKeyExchange
<1>19. packet(head, 0).head = head
  BY DEF packet
<1> QED BY <1>9, <1>11, <1>17, <1>18, <1>19 DEF NAME_FIELD_SIZE

\* Where the fields of a file's metadata are.
metadata(payload, n1, n2, field) ==
    /\ payload \in Seq(Byte) /\ Len(payload) = 12 + Len(field)
    /\ payload[1] = n1[1] /\ payload[2] = n1[2] /\ payload[3] = n1[3] /\ payload[4] = n1[4]
    /\ from(payload, 4, 4) = n2 /\ from(payload, 12, Len(field)) = field

LEMMA MetadataParts ==
    ASSUME NEW n1 \in Seq(Byte), NEW n2 \in Seq(Byte), NEW n3 \in Seq(Byte),
           NEW n4 \in Seq(Byte), NEW field \in Seq(Byte),
           Len(n1) = 4, Len(n2) = 4, Len(n3) = 2, Len(n4) = 2,
           NEW payload, payload = n1 \o (n2 \o (n3 \o (n4 \o field)))
    PROVE  metadata(payload, n1, n2, field)
<1>1. PICK w \in Nat : w = Len(field)
  OBVIOUS
<1>2. PICK t4, t3, t2 : t4 = n4 \o field /\ t3 = n3 \o t4 /\ t2 = n2 \o t3
  OBVIOUS
<1>3. payload = n1 \o t2
  BY <1>2, Zenon
<1>4. joins(t4, n4, field)
  BY <1>2, Joined
<1>5. t4 \in Seq(Byte) /\ Len(t4) = 2 + w
  BY <1>1, <1>4 DEF joins
<1>6. joins(t3, n3, t4)
  BY <1>2, <1>5, Joined
<1>7. t3 \in Seq(Byte) /\ Len(t3) = 4 + w
  BY <1>5, <1>6 DEF joins
<1>8. joins(t2, n2, t3)
  BY <1>2, <1>7, Joined
<1>9. t2 \in Seq(Byte) /\ Len(t2) = 8 + w
  BY <1>7, <1>8 DEF joins
<1>10. joins(payload, n1, t2)
  BY <1>3, <1>9, Joined
<1>11. payload \in Seq(Byte) /\ Len(payload) = 12 + w
  BY <1>9, <1>10 DEF joins
<1>12. /\ payload[1] = n1[1] /\ payload[2] = n1[2]
       /\ payload[3] = n1[3] /\ payload[4] = n1[4]
  <2>1. \A k \in 1..(4 + Len(t2)) : payload[k] = IF k <= 4 THEN n1[k] ELSE t2[k - 4]
    BY <1>10 DEF joins
  <2>2. \A k \in {1, 2, 3, 4} : k \in 1..(4 + Len(t2)) /\ k <= 4
    BY <1>9
  <2>3. \A k \in {1, 2, 3, 4} : payload[k] = n1[k]
    BY <2>1, <2>2
  <2> QED BY <2>3, Zenon
<1>13. from(payload, 4, 4) = n2
  <2>1. from(payload, 4, 4) = from(t2, 0, 4)
    BY <1>9, <1>10 DEF joins
  <2>2. from(t2, 0, 4) = from(n2, 0, 4)
    BY <1>8 DEF joins
  <2> QED BY <2>1, <2>2, FromAll
<1>14. from(payload, 12, w) = field
  <2>1. from(payload, 12, w) = from(t2, 8, w)
    BY <1>9, <1>10 DEF joins
  <2>2. from(t2, 8, w) = from(t3, 4, w)
    BY <1>7, <1>8 DEF joins
  <2>3. from(t3, 4, w) = from(t4, 2, w)
    BY <1>5, <1>6 DEF joins
  <2>4. from(t4, 2, w) = from(field, 0, w)
    BY <1>1, <1>4 DEF joins
  <2> QED BY <1>1, <2>1, <2>2, <2>3, <2>4, FromAll
<1> QED BY <1>1, <1>11, <1>12, <1>13, <1>14, Zenon DEF metadata

\* The builder writes the fields one behind the other; the reader splits off the first.
regrouped(first, n1, n2, n3, n4, field) ==
    ((((first \o n1) \o n2) \o n3) \o n4) \o field
        = first \o (n1 \o (n2 \o (n3 \o (n4 \o field))))

LEMMA MetadataRegrouped ==
    ASSUME NEW first \in Seq(Byte), NEW n1 \in Seq(Byte), NEW n2 \in Seq(Byte),
           NEW n3 \in Seq(Byte), NEW n4 \in Seq(Byte), NEW field \in Seq(Byte)
    PROVE  regrouped(first, n1, n2, n3, n4, field)
<1>1. PICK t4, t3, t2 : t4 = n4 \o field /\ t3 = n3 \o t4 /\ t2 = n2 \o t3
  OBVIOUS
<1>2. PICK b1, b2, b3 : b1 = first \o n1 /\ b2 = b1 \o n2 /\ b3 = b2 \o n3
  OBVIOUS
<1>3. t4 \in Seq(Byte)
  BY <1>1, ConcatProperties, Zenon
<1>4. t3 \in Seq(Byte)
  BY <1>1, <1>3, ConcatProperties, Zenon
<1>5. t2 \in Seq(Byte)
  BY <1>1, <1>4, ConcatProperties, Zenon
<1>6. b1 \in Seq(Byte)
  BY <1>2, ConcatProperties, Zenon
<1>7. b2 \in Seq(Byte)
  BY <1>2, <1>6, ConcatProperties, Zenon
<1>8. b3 \in Seq(Byte)
  BY <1>2, <1>7, ConcatProperties, Zenon
<1>9. (b3 \o n4) \o field = b3 \o t4
  <2>1. regroups(b3, n4, field)
    BY <1>8, Regroups
  <2> QED BY <1>1, <2>1, Zenon DEF regroups
<1>10. b3 \o t4 = b2 \o t3
  <2>1. regroups(b2, n3, t4)
    BY <1>3, <1>7, Regroups
  <2> QED BY <1>1, <1>2, <2>1, Zenon DEF regroups
<1>11. b2 \o t3 = b1 \o t2
  <2>1. regroups(b1, n2, t3)
    BY <1>4, <1>6, Regroups
  <2> QED BY <1>1, <1>2, <2>1, Zenon DEF regroups
<1>12. b1 \o t2 = first \o (n1 \o t2)
  <2>1. regroups(first, n1, t2)
    BY <1>5, Regroups
  <2> QED BY <1>2, <2>1, Zenon DEF regroups
<1> QED BY <1>1, <1>2, <1>9, <1>10, <1>11, <1>12, Zenon DEF regrouped

\* The file's content still fits when the metadata before it is counted.
LEMMA FileRead ==
    ASSUME NEW id \in Ids, NEW str \in Seq(Byte),
           NEW origFileSize \in Nat, origFileSize < UINT32,
           NEW content \in Nat, content + 267 < UINT32,
           NEW packetNum \in Nat, NEW totalPackets \in Nat,
           NEW sent, sent = buildSendFile(id, origFileSize, packetNum, totalPackets, str, content)
    PROVE  /\ sent.head \in Seq(Byte) /\ sent.content = content
           /\ reads([code |-> SendFile, id |-> id, name |-> cut(str, 255),
                     origFileSize |-> origFileSize, contentSize |-> content], sent)
<1>1. PICK field, n1, n2, n3, n4, first :
          /\ field = appendFixedString(str, 255)
          /\ n1 = appendUint32LE(content) /\ n2 = appendUint32LE(origFileSize)
          /\ n3 = appendUint16LE(packetNum) /\ n4 = appendUint16LE(totalPackets)
          /\ first = appendRequestHeader(id, SendFile, 267 + content)
  OBVIOUS
<1>2. field \in Seq(Byte) /\ Len(field) = 255 /\ readString(field) = cut(str, 255)
  BY <1>1, NameRead
<1>3. n1 \in Seq(Byte) /\ Len(n1) = 4 /\ readUint32LE(n1) = content
  <2>1. content < UINT32
    BY Sizes
  <2> QED BY <1>1, <2>1, Uint32Read
<1>4. n2 \in Seq(Byte) /\ Len(n2) = 4 /\ readUint32LE(n2) = origFileSize
  BY <1>1, Uint32Read
<1>5. n3 \in Seq(Byte) /\ Len(n3) = 2 /\ n4 \in Seq(Byte) /\ Len(n4) = 2
  BY <1>1, Uint16Read
<1>6. PICK payload : payload = n1 \o (n2 \o (n3 \o (n4 \o field)))
  OBVIOUS
<1>7. metadata(payload, n1, n2, field)
  BY <1>2, <1>3, <1>4, <1>5, <1>6, MetadataParts, Zenon
<1>8. PICK head : head = first \o payload
  OBVIOUS
<1>9. payload \in Seq(Byte)
  BY <1>7, Zenon DEF metadata
<1>10. Len(payload) = 267
  <2>1. Len(payload) = 12 + Len(field)
    BY <1>7, Zenon DEF metadata
  <2> QED BY <1>2, <2>1
<1>11. from(payload, 4, 4) = n2
  BY <1>7, Zenon DEF metadata
<1>12. from(payload, 12, 255) = field
  BY <1>2, <1>7, Zenon DEF metadata
<1>15. readUint32LE(payload) = content
  <2>1. readUint32LE(payload) = readUint32LE(n1)
    BY <1>7, Zenon DEF readUint32LE, readUint16LE, metadata
  <2> QED BY <1>3, <2>1
<1>18. PICK size : size = 267 + content
  OBVIOUS
<1>19. size \in 0..(UINT32 - 1) /\ size = Len(payload) + content
  BY <1>10, <1>18, Sizes
<1>20. PICK h : h = [id |-> id, version |-> CLIENT_VERSION, code |-> SendFile,
                     payloadSize |-> size]
  OBVIOUS
<1>21. understood(h, payload, content)
          = [code |-> SendFile, id |-> id, name |-> cut(str, 255),
             origFileSize |-> origFileSize, contentSize |-> content]
  <2>1. h.code \notin {Registration, Reconnect, CrcValid, CrcInvalidRetry, CrcInvalidAbort}
    BY <1>20 DEF Registration, SendFile, Reconnect, CrcValid, CrcInvalidRetry, CrcInvalidAbort
  <2>2. h.code = SendFile /\ h.id = id /\ h.code # SendPublicKey
    BY <1>20 DEF SendFile, SendPublicKey
  <2>3. readString(from(payload, 12, 255)) = cut(str, 255)
    BY <1>2, <1>12
  <2>4. readUint32LE(from(payload, 4, 4)) = origFileSize
    BY <1>4, <1>11
  <2> QED BY <1>15, <2>1, <2>2, <2>3, <2>4, Zenon DEF understood, FILE_NAME_FIELD_SIZE
<1>22. SendFile \in RequestCode
  BY DEF RequestCode
<1>23. first \in Seq(Byte)
  <2>1. id \in Seq(Byte)
    BY DEF Ids
  <2>2. first = appendRequestHeader(id, SendFile, size)
    BY <1>1, <1>18
  <2>3. size \in 0..(UINT32 - 1)
    BY <1>19
  <2> QED BY <1>22, <2>1, <2>2, <2>3, HeaderTyped
<1>24. joins(head, appendRequestHeader(id, SendFile, size), payload)
  <2>1. joins(head, first, payload)
    BY <1>8, <1>9, <1>23, Joined
  <2> QED BY <1>1, <1>18, <2>1
<1>25. /\ head \in Seq(Byte)
       /\ reads(understood(h, payload, content), packet(head, content))
  <2>1. payload \in Seq(Byte)
    BY <1>9
  <2>2. size \in 0..(UINT32 - 1)
    BY <1>19
  <2>3. size = Len(payload) + content
    BY <1>19
  <2> QED BY <1>20, <1>22, <1>24, <2>1, <2>2, <2>3, ReadsIs, Zenon
<1>26. sent = packet(head, content)
  <2>1. content % UINT32 = content
    <3>1. content \in 0..(UINT32 - 1)
      BY Sizes
    <3> QED BY <3>1, SmallRemainder, Sizes
  <2>2. head = ((((first \o n1) \o n2) \o n3) \o n4) \o field
    <3>1. /\ first \in Seq(Byte) /\ field \in Seq(Byte)
          /\ n1 \in Seq(Byte) /\ n2 \in Seq(Byte) /\ n3 \in Seq(Byte) /\ n4 \in Seq(Byte)
      BY <1>2, <1>3, <1>4, <1>5, <1>23
    <3>2. regrouped(first, n1, n2, n3, n4, field)
      BY <3>1, MetadataRegrouped
    <3> QED BY <1>6, <1>8, <3>2, Zenon DEF regrouped
  <2>3. FILE_METADATA_SIZE + content = 267 + content /\ FILE_NAME_FIELD_SIZE = 255
    BY DEF FILE_METADATA_SIZE, FILE_NAME_FIELD_SIZE
  <2> QED BY <1>1, <2>1, <2>2, <2>3, Zenon DEF buildSendFile
<1>27. packet(head, content).head = head /\ packet(head, content).content = content
  BY DEF packet
<1> QED BY <1>21, <1>25, <1>26, <1>27

-----------------------------------------------------------------------------
(* The requests of a connection *)

Packet == [head : Seq(Byte), content : Nat]

Request ==
    [code : RequestCode, id : Ids, name : Seq(Byte)]
    \cup [code : RequestCode, id : Ids, name : Seq(Byte), key : Seq(Byte)]
    \cup [code : RequestCode, id : Ids, name : Seq(Byte), origFileSize : Nat, contentSize : Nat]

\* What nothing in the client checks: a file's size fits in 32 bits, and its
\* ciphertext's size does even with the metadata added.
FilesFit == \A file \in Files : /\ file.size < UINT32
                                /\ file.content + FILE_METADATA_SIZE < UINT32

\* The packets are the requests, one for one.
matched(meant, packets) ==
    /\ Len(meant) = Len(packets)
    /\ \A k \in 1..Len(packets) : reads(meant[k], packets[k])

\* The requests that the server has not handled are those in the packets that it has
\* not read, behind the one it works on.
StreamInv ==
    /\ lost = FALSE
    /\ asked \in Seq(Request) /\ wire \in Seq(Packet)
    /\ heard = NoRequest => matched(asked, wire)
    /\ heard # NoRequest =>
           asked # <<>> /\ heard = Head(asked) /\ matched(Tail(asked), wire)

LEMMA MatchedAppend ==
    ASSUME NEW S, NEW T, NEW meant \in Seq(S), NEW packets \in Seq(T), NEW r \in S, NEW p \in T,
           matched(meant, packets), reads(r, p)
    PROVE  matched(Append(meant, r), Append(packets, p))
BY DEF matched

LEMMA MatchedHead ==
    ASSUME NEW S, NEW T, NEW meant \in Seq(S), NEW packets \in Seq(T),
           matched(meant, packets), packets # <<>>
    PROVE  /\ meant # <<>> /\ reads(Head(meant), Head(packets))
           /\ matched(Tail(meant), Tail(packets))
BY DEF matched

LEMMA CutTyped ==
    ASSUME NEW str \in Seq(Byte) PROVE cut(str, 255) \in Seq(Byte)
<1>1. PICK field : field = appendFixedString(str, 255)
  OBVIOUS
<1>2. field \in Seq(Byte) /\ readString(field) = cut(str, 255)
  BY <1>1, NameRead
<1>3. PICK n \in 0..Len(field) : Ends(field, n)
  BY <1>2, EndExists
<1>4. readString(field) = SubSeq(field, 1, n)
  BY <1>2, <1>3, StringRead
<1>5. SubSeq(field, 1, n) \in Seq(Byte)
  BY <1>2
<1> QED BY <1>2, <1>4, <1>5

LEMMA PacketTyped ==
    ASSUME NEW head \in Seq(Byte), NEW content \in Nat PROVE packet(head, content) \in Packet
BY DEF packet, Packet

LEMMA SendKeeps ==
    ASSUME StreamInv, NEW r \in Request, NEW p \in Packet, reads(r, p), send(r, p)
    PROVE  StreamInv'
<1>1. /\ lost' = FALSE /\ heard' = heard
      /\ asked' = Append(asked, r) /\ wire' = Append(wire, p)
  BY DEF send, StreamInv
<1>2. asked \in Seq(Request) /\ wire \in Seq(Packet)
  BY DEF StreamInv
<1>3. asked' \in Seq(Request) /\ wire' \in Seq(Packet)
  BY <1>1, <1>2
<1>4. CASE heard = NoRequest
  <2>1. matched(asked, wire)
    BY <1>4 DEF StreamInv
  <2>2. matched(asked', wire')
    BY <1>1, <1>2, <2>1, MatchedAppend
  <2> QED BY <1>1, <1>3, <1>4, <2>2 DEF StreamInv
<1>5. CASE heard # NoRequest
  <2>1. asked # <<>> /\ heard = Head(asked) /\ matched(Tail(asked), wire)
    BY <1>5 DEF StreamInv
  <2>2. Tail(asked) \in Seq(Request)
    BY <1>2, <2>1
  <2>3. matched(Append(Tail(asked), r), Append(wire, p))
    BY <1>2, <2>1, <2>2, MatchedAppend
  <2>4. /\ asked' # <<>> /\ Head(asked') = Head(asked)
        /\ Tail(asked') = Append(Tail(asked), r)
    BY <1>1, <1>2, <2>1
  <2> QED BY <1>1, <1>3, <1>5, <2>1, <2>3, <2>4 DEF StreamInv
<1> QED BY <1>4, <1>5

LEMMA NoIdTyped == NoId \in Ids
<1>1. \A k \in 1..UUID_SIZE : 0 \in Byte
  BY ByteAssumption DEF Byte
<1>2. UUID_SIZE \in Nat
  BY DEF UUID_SIZE
<1> QED BY <1>1, <1>2 DEF NoId, Ids

\* Requests whose payload is one field.
LEMMA NamedSent ==
    ASSUME NEW id \in Ids, NEW code \in Named, NEW str \in Seq(Byte), NEW sent,
           sent = packet(appendRequestHeader(id, code, 255) \o appendFixedString(str, 255), 0),
           NEW request, request = [code |-> code, id |-> id, name |-> cut(str, 255)]
    PROVE  request \in Request /\ sent \in Packet /\ reads(request, sent)
<1>1. PICK field : field = appendFixedString(str, 255)
  OBVIOUS
<1>2. field \in Seq(Byte)
  BY <1>1, NameRead
<1>3. code \in RequestCode
  BY DEF Named, RequestCode
<1>4. PICK size \in 0..(UINT32 - 1) : size = 255
  BY Sizes
<1>5. PICK first : first = appendRequestHeader(id, code, size)
  OBVIOUS
<1>6. first \in Seq(Byte)
  <2>1. id \in Seq(Byte)
    BY DEF Ids
  <2> QED BY <1>3, <1>5, <2>1, HeaderTyped
<1>7. PICK head : head = first \o field
  OBVIOUS
<1>8. joins(head, first, field)
  BY <1>2, <1>6, <1>7, Joined
<1>9. joins(head, appendRequestHeader(id, code, 255), appendFixedString(str, 255))
  BY <1>1, <1>4, <1>5, <1>8
<1>10. head \in Seq(Byte) /\ reads(request, packet(head, 0))
  BY <1>9, NamedRead
<1>11. sent = packet(head, 0)
  BY <1>1, <1>4, <1>5, <1>7, Zenon
<1>12. sent \in Packet
  BY <1>10, <1>11, PacketTyped
<1>13. request \in Request
  <2>1. cut(str, 255) \in Seq(Byte)
    BY CutTyped
  <2> QED BY <1>3, <2>1 DEF Request
<1> QED BY <1>10, <1>11, <1>12, <1>13

\* The client's steps, one for each request.
LEMMA RegistrationKeeps ==
    ASSUME StreamInv, NEW name \in ClientNames, SendsRegistration(name) PROVE StreamInv'
<1>1. PICK request, sent :
          /\ request = [code |-> Registration, id |-> NoId, name |-> cut(name, 255)]
          /\ sent = buildRegistration(name)
  OBVIOUS
<1>2. send(request, sent)
  BY <1>1 DEF SendsRegistration, NAME_FIELD_SIZE
<1>3. sent = packet(appendRequestHeader(NoId, Registration, 255)
                        \o appendFixedString(name, 255), 0)
  BY <1>1 DEF buildRegistration, NAME_FIELD_SIZE
<1>4. name \in Seq(Byte) /\ NoId \in Ids /\ Registration \in Named
  BY RequestStreamAssumption, NoIdTyped DEF Named
<1>5. request \in Request /\ sent \in Packet /\ reads(request, sent)
  BY <1>1, <1>3, <1>4, NamedSent
<1> QED BY <1>2, <1>5, SendKeeps

LEMMA ReconnectKeeps ==
    ASSUME StreamInv, NEW id \in ClientIds, NEW name \in ClientNames, SendsReconnect(id, name)
    PROVE  StreamInv'
<1>1. PICK request, sent :
          /\ request = [code |-> Reconnect, id |-> id, name |-> cut(name, 255)]
          /\ sent = buildReconnect(id, name)
  OBVIOUS
<1>2. send(request, sent)
  BY <1>1 DEF SendsReconnect, NAME_FIELD_SIZE
<1>3. sent = packet(appendRequestHeader(id, Reconnect, 255)
                        \o appendFixedString(name, 255), 0)
  BY <1>1 DEF buildReconnect, NAME_FIELD_SIZE
<1>4. name \in Seq(Byte) /\ id \in Ids /\ Reconnect \in Named
  BY RequestStreamAssumption DEF Named, Ids
<1>5. request \in Request /\ sent \in Packet /\ reads(request, sent)
  BY <1>1, <1>3, <1>4, NamedSent
<1> QED BY <1>2, <1>5, SendKeeps

LEMMA CrcStatusKeeps ==
    ASSUME StreamInv, NEW code \in {CrcValid, CrcInvalidRetry, CrcInvalidAbort},
           NEW id \in ClientIds, NEW file \in Files, SendsCrcStatus(code, id, file)
    PROVE  StreamInv'
<1>1. PICK request, sent, str :
          /\ str = file.name
          /\ request = [code |-> code, id |-> id, name |-> cut(str, 255)]
          /\ sent = buildCrcStatus(id, code, str)
  OBVIOUS
<1>2. send(request, sent)
  BY <1>1 DEF SendsCrcStatus, FILE_NAME_FIELD_SIZE
<1>3. sent = packet(appendRequestHeader(id, code, 255) \o appendFixedString(str, 255), 0)
  BY <1>1 DEF buildCrcStatus, FILE_NAME_FIELD_SIZE
<1>4. str \in Seq(Byte) /\ id \in Ids /\ code \in Named
  <2>1. file \in [name : Seq(Byte), size : Nat, content : Nat]
    BY RequestStreamAssumption
  <2>2. str \in Seq(Byte)
    BY <1>1, <2>1
  <2> QED BY <2>2, RequestStreamAssumption DEF Named, Ids
<1>5. request \in Request /\ sent \in Packet /\ reads(request, sent)
  BY <1>1, <1>3, <1>4, NamedSent
<1> QED BY <1>2, <1>5, SendKeeps

LEMMA PublicKeyKeeps ==
    ASSUME StreamInv, NEW id \in ClientIds, NEW name \in ClientNames, NEW key \in PublicKeys,
           SendsPublicKey(id, name, key)
    PROVE  StreamInv'
<1>1. PICK request, sent :
          /\ request = [code |-> SendPublicKey, id |-> id, name |-> cut(name, NAME_FIELD_SIZE),
                        key |-> key]
          /\ sent = buildPublicKeyExchange(id, name, key)
  OBVIOUS
<1>2. send(request, sent)
  BY <1>1 DEF SendsPublicKey
<1>3. name \in Seq(Byte) /\ key \in Seq(Byte) /\ Len(key) = PUBLIC_KEY_SIZE /\ id \in Ids
  BY RequestStreamAssumption DEF Ids
<1>4. sent.head \in Seq(Byte) /\ reads(request, sent)
  BY <1>1, <1>3, KeyRead
<1>5. sent \in Packet
  <2>1. PICK head : sent = packet(head, 0)
    BY <1>1 DEF buildPublicKeyExchange
  <2>2. sent.head = head
    BY <2>1 DEF packet
  <2> QED BY <1>4, <2>1, <2>2, PacketTyped
<1>6. request \in Request
  <2>1. cut(name, NAME_FIELD_SIZE) \in Seq(Byte)
    BY <1>3, CutTyped DEF NAME_FIELD_SIZE
  <2>2. SendPublicKey \in RequestCode
    BY DEF RequestCode
  <2> QED BY <1>1, <1>3, <2>1, <2>2 DEF Request
<1> QED BY <1>2, <1>4, <1>5, <1>6, SendKeeps

LEMMA FileKeeps ==
    ASSUME FilesFit, StreamInv, NEW id \in ClientIds, NEW file \in Files, SendsFile(id, file)
    PROVE  StreamInv'
<1>1. PICK size, content, str :
          size = file.size /\ content = file.content /\ str = file.name
  OBVIOUS
<1>2. PICK request, sent :
          /\ request = [code |-> SendFile, id |-> id, name |-> cut(str, FILE_NAME_FIELD_SIZE),
                        origFileSize |-> size, contentSize |-> content]
          /\ sent = buildSendFile(id, size, 1, 1, str, content)
  OBVIOUS
<1>3. send(request, sent)
  BY <1>1, <1>2 DEF SendsFile
<1>4. str \in Seq(Byte) /\ size \in Nat /\ content \in Nat /\ id \in Ids
  <2>1. file \in [name : Seq(Byte), size : Nat, content : Nat]
    BY RequestStreamAssumption
  <2>2. str \in Seq(Byte) /\ size \in Nat /\ content \in Nat
    BY <1>1, <2>1
  <2> QED BY <2>2, RequestStreamAssumption DEF Ids
<1>5. size < UINT32 /\ content + 267 < UINT32
  <2>1. file.size < UINT32 /\ file.content + FILE_METADATA_SIZE < UINT32
    BY DEF FilesFit
  <2> QED BY <1>1, <2>1 DEF FILE_METADATA_SIZE, FILE_NAME_FIELD_SIZE
<1>6. /\ sent.head \in Seq(Byte)
      /\ reads([code |-> SendFile, id |-> id, name |-> cut(str, 255),
                origFileSize |-> size, contentSize |-> content], sent)
  <2>1. 1 \in Nat
    OBVIOUS
  <2> QED BY <1>2, <1>4, <1>5, <2>1, FileRead
<1>7. reads(request, sent)
  BY <1>2, <1>6 DEF FILE_NAME_FIELD_SIZE
<1>8. sent \in Packet
  <2>1. PICK head : sent = packet(head, content)
    BY <1>2 DEF buildSendFile
  <2>2. sent.head = head
    BY <2>1 DEF packet
  <2> QED BY <1>4, <1>6, <2>1, <2>2, PacketTyped
<1>9. request \in Request
  <2>1. cut(str, FILE_NAME_FIELD_SIZE) \in Seq(Byte)
    BY <1>4, CutTyped DEF FILE_NAME_FIELD_SIZE
  <2>2. SendFile \in RequestCode
    BY DEF RequestCode
  <2> QED BY <1>2, <1>4, <2>1, <2>2 DEF Request
<1> QED BY <1>3, <1>7, <1>8, <1>9, SendKeeps

\* The server reads the packet that the first request not handled went out in.
LEMMA ReadKeeps == StreamInv /\ ReadRequest => StreamInv'
<1> SUFFICES ASSUME StreamInv, ReadRequest PROVE StreamInv'
  OBVIOUS
<1>1. /\ asked \in Seq(Request) /\ wire \in Seq(Packet) /\ lost = FALSE
      /\ matched(asked, wire) /\ wire # <<>>
  BY DEF StreamInv, ReadRequest
<1>2. /\ asked # <<>> /\ reads(Head(asked), Head(wire))
      /\ matched(Tail(asked), Tail(wire))
  BY <1>1, MatchedHead
<1>3. asked' = asked /\ wire' = Tail(wire)
  BY DEF ReadRequest
<1>4. lost' = FALSE /\ heard' = Head(asked)
  BY <1>1, <1>2, Zenon DEF ReadRequest, reads
<1>5. Head(asked) # NoRequest
  <2>1. Head(asked) \in Request
    BY <1>1, <1>2
  <2>2. Head(asked).code \in RequestCode
    BY <2>1 DEF Request
  <2>3. 0 \notin RequestCode
    BY DEF RequestCode, Registration, SendPublicKey, Reconnect, SendFile, CrcValid,
           CrcInvalidRetry, CrcInvalidAbort
  <2> QED BY <2>2, <2>3 DEF NoRequest
<1>6. wire' \in Seq(Packet)
  BY <1>1, <1>3
<1> QED BY <1>1, <1>2, <1>3, <1>4, <1>5, <1>6 DEF StreamInv

LEMMA HandledKeeps == StreamInv /\ Handled => StreamInv'
<1> SUFFICES ASSUME StreamInv, Handled PROVE StreamInv'
  OBVIOUS
<1>1. /\ asked \in Seq(Request) /\ asked # <<>> /\ lost = FALSE
      /\ wire \in Seq(Packet) /\ matched(Tail(asked), wire)
  BY DEF StreamInv, Handled
<1>2. heard' = NoRequest /\ asked' = Tail(asked) /\ wire' = wire /\ lost' = lost
  BY DEF Handled
<1>3. asked' \in Seq(Request)
  BY <1>1, <1>2
<1> QED BY <1>1, <1>2, <1>3 DEF StreamInv

LEMMA StreamInvNext == FilesFit /\ StreamInv /\ [Next]_vars => StreamInv'
<1> SUFFICES ASSUME FilesFit, StreamInv, [Next]_vars PROVE StreamInv'
  OBVIOUS
<1>1. CASE SendRequest
  <2>1. PICK code : Sends(code)
    BY <1>1 DEF SendRequest
  <2> QED BY <2>1, RegistrationKeeps, ReconnectKeeps, CrcStatusKeeps, PublicKeyKeeps,
             FileKeeps, Zenon DEF Sends
<1>2. CASE ServerReads
  BY <1>2, ReadKeeps DEF ServerReads
<1>3. CASE ServerAnswers
  <2>1. CASE Handled
    BY <2>1, HandledKeeps
  <2>2. CASE UNCHANGED requestVars
    BY <2>2 DEF StreamInv, requestVars
  <2> QED BY <1>3, <2>1, <2>2 DEF ServerAnswers
<1>4. CASE Call \/ Receive \/ Failure \/ Over \/ UNCHANGED vars
  <2>1. UNCHANGED requestVars
    BY <1>4 DEF Call, Receive, Failure, Over, vars
  <2> QED BY <2>1 DEF StreamInv, requestVars
<1> QED BY <1>1, <1>2, <1>3, <1>4 DEF Next

LEMMA StreamInvariant == FilesFit /\ Spec => []StreamInv
<1> SUFFICES ASSUME FilesFit PROVE Spec => []StreamInv
  OBVIOUS
<1>1. Init => StreamInv
  BY DEF Init, RequestInit, StreamInv, matched
<1>2. StreamInv /\ [Next]_vars => StreamInv'
  BY StreamInvNext
<1> QED BY <1>1, <1>2, PTL DEF Spec

\* A server that reads by the sizes in the headers never loses the stream, for names
\* of any length, keys of the right size and files whose size and ciphertext fit in
\* 32 bits (PacketBuilder); nothing in the client checks that they do.
THEOREM RequestsFramed == FilesFit /\ Spec => []Framed
<1>1. StreamInv => Framed
  BY DEF StreamInv, Framed
<1> QED BY <1>1, StreamInvariant, PTL

\* It makes of every request what the client means by it, and of all of them in order
\* (the build functions of PacketBuilder agree on fields, byte order and padding).
THEOREM RequestsAsMeant == FilesFit /\ Spec => []RequestsUnderstood
<1>1. StreamInv => RequestsUnderstood
  BY DEF StreamInv, RequestsUnderstood
<1> QED BY <1>1, StreamInvariant, PTL

-----------------------------------------------------------------------------
(* Responses as bytes *)

total(r) == RESPONSE_HEADER_SIZE + Len(r.payload)

headerOf(r) == [version |-> r.version, code |-> r.code, payloadSize |-> Len(r.payload)]

LEMMA ResponseTyped ==
    ASSUME NEW r \in Responses
    PROVE  /\ r.version \in Byte /\ r.code \in 0..(UINT16 - 1) /\ r.payload \in Seq(Byte)
           /\ r = [version |-> r.version, code |-> r.code, payload |-> r.payload]
           /\ Len(r.payload) \in 0..(UINT32 - 1)
<1>1. r \in [version : Byte, code : 0..(UINT16 - 1), payload : Seq(Byte)]
  BY ResponseStreamAssumption
<1>2. Len(r.payload) < UINT32
  BY ResponseStreamAssumption
<1>3. r.payload \in Seq(Byte)
  BY <1>1
<1>4. Len(r.payload) \in 0..(UINT32 - 1)
  BY <1>2, <1>3, Sizes
<1> QED BY <1>1, <1>3, <1>4

\* What the parser makes of the first bytes of a response, and what is behind them.
LEMMA ResponseRead ==
    ASSUME NEW r \in Responses
    PROVE  /\ bytesOf(r) \in Seq(Byte) /\ Len(bytesOf(r)) = total(r)
           /\ parseHeader(from(bytesOf(r), 0, RESPONSE_HEADER_SIZE)) = headerOf(r)
           /\ from(bytesOf(r), RESPONSE_HEADER_SIZE, Len(r.payload)) = r.payload
<1>1. PICK version, c, n, payload :
          /\ version = <<r.version>> /\ c = appendUint16LE(r.code)
          /\ n = appendUint32LE(Len(r.payload)) /\ payload = r.payload
  OBVIOUS
<1>2. version \in Seq(Byte) /\ Len(version) = 1 /\ version[1] = r.version
  BY <1>1, ResponseTyped
<1>3. c \in Seq(Byte) /\ Len(c) = 2 /\ readUint16LE(c) = r.code
  BY <1>1, ResponseTyped, Uint16Read, Sizes
<1>4. n \in Seq(Byte) /\ Len(n) = 4 /\ readUint32LE(n) = Len(r.payload)
  BY <1>1, ResponseTyped, Uint32Read, Sizes
<1>5. payload \in Seq(Byte)
  BY <1>1, ResponseTyped
<1>6. PICK s1, s2, all : s1 = version \o c /\ s2 = s1 \o n /\ all = s2 \o payload
  OBVIOUS
<1>7. joins(s1, version, c)
  BY <1>2, <1>3, <1>6, Joined
<1>8. s1 \in Seq(Byte) /\ Len(s1) = 3
  BY <1>2, <1>3, <1>7 DEF joins
<1>9. joins(s2, s1, n)
  BY <1>4, <1>6, <1>8, Joined
<1>10. s2 \in Seq(Byte) /\ Len(s2) = 7
  BY <1>4, <1>8, <1>9 DEF joins
<1>11. joins(all, s2, payload)
  BY <1>5, <1>6, <1>10, Joined
<1>12. all = bytesOf(r)
  BY <1>1, <1>6, Zenon DEF bytesOf
<1>13. all \in Seq(Byte) /\ Len(all) = 7 + Len(payload)
  BY <1>10, <1>11 DEF joins
<1>14. from(all, 0, 7) = s2
  <2>1. from(all, 0, 7) = from(s2, 0, 7)
    BY <1>10, <1>11 DEF joins
  <2> QED BY <1>10, <2>1, FromAll
<1>15. s2[1] = r.version
  <2>1. s2[1] = s1[1]
    BY <1>4, <1>8, <1>9 DEF joins
  <2>2. s1[1] = version[1]
    BY <1>2, <1>3, <1>7 DEF joins
  <2> QED BY <1>2, <2>1, <2>2
<1>16. from(s2, 1, 2) = c
  <2>1. from(s2, 1, 2) = from(s1, 1, 2)
    BY <1>8, <1>9 DEF joins
  <2>2. from(s1, 1, 2) = from(c, 0, 2)
    BY <1>2, <1>3, <1>7 DEF joins
  <2> QED BY <1>3, <2>1, <2>2, FromAll
<1>17. from(s2, 3, 4) = n
  <2>1. from(s2, 3, 4) = from(n, 0, 4)
    BY <1>4, <1>8, <1>9 DEF joins
  <2> QED BY <1>4, <2>1, FromAll
<1>18. parseHeader(s2) = headerOf(r)
  BY <1>3, <1>4, <1>15, <1>16, <1>17 DEF parseHeader, headerOf
<1>19. from(all, 7, Len(payload)) = payload
  <2>1. from(all, 7, Len(payload)) = from(payload, 0, Len(payload))
    BY <1>10, <1>11 DEF joins
  <2> QED BY <1>5, <2>1, FromAll
<1> QED BY <1>1, <1>12, <1>13, <1>14, <1>18, <1>19 DEF RESPONSE_HEADER_SIZE, total

\* A part of a text and the part behind it are a part of the text.
continues(s, k, n, m) == from(s, k, n) \o from(s, k + n, m) = from(s, k, n + m)

LEMMA FromJoined ==
    ASSUME NEW s \in Seq(Byte), NEW k \in Nat, NEW n \in Nat, NEW m \in Nat, k + n + m <= Len(s)
    PROVE  continues(s, k, n, m)
<1>1. PICK a, b, c : a = from(s, k, n) /\ b = from(s, k + n, m) /\ c = from(s, k, n + m)
  OBVIOUS
<1>2. a \in Seq(Byte) /\ Len(a) = n /\ \A i \in 1..n : a[i] = s[k + i]
  BY <1>1, FromRead
<1>3. b \in Seq(Byte) /\ Len(b) = m /\ \A i \in 1..m : b[i] = s[(k + n) + i]
  <2>1. PICK j \in Nat : j = k + n
    OBVIOUS
  <2>2. b = from(s, j, m) /\ j + m <= Len(s)
    BY <1>1, <2>1
  <2>3. b \in Seq(Byte) /\ Len(b) = m /\ \A i \in 1..m : b[i] = s[j + i]
    BY <2>2, FromRead
  <2> QED BY <2>1, <2>3
<1>4. c \in Seq(Byte) /\ Len(c) = n + m /\ \A i \in 1..(n + m) : c[i] = s[k + i]
  BY <1>1, FromRead
<1>5. PICK ab : ab = a \o b
  OBVIOUS
<1>6. joins(ab, a, b)
  BY <1>2, <1>3, <1>5, Joined
<1>7. ab \in Seq(Byte) /\ Len(ab) = n + m
  BY <1>2, <1>3, <1>6 DEF joins
<1>8. ASSUME NEW i \in 1..(n + m) PROVE ab[i] = c[i]
  <2>1. ab[i] = IF i <= n THEN a[i] ELSE b[i - n]
    BY <1>2, <1>3, <1>6 DEF joins
  <2>2. CASE i <= n
    <3>1. i \in 1..n
      BY <2>2
    <3>2. a[i] = s[k + i]
      BY <1>2, <3>1
    <3>3. c[i] = s[k + i]
      BY <1>4
    <3>4. ab[i] = a[i]
      BY <2>1, <2>2
    <3> QED BY <3>2, <3>3, <3>4
  <2>3. CASE i > n
    <3>1. i - n \in 1..m
      BY <2>3
    <3>2. b[i - n] = s[(k + n) + (i - n)]
      BY <1>3, <3>1
    <3>3. (k + n) + (i - n) = k + i
      OBVIOUS
    <3>4. b[i - n] = s[k + i]
      BY <3>2, <3>3
    <3>5. c[i] = s[k + i]
      BY <1>4
    <3>6. ab[i] = b[i - n]
      BY <2>1, <2>3
    <3> QED BY <3>4, <3>5, <3>6
  <2> QED BY <2>2, <2>3
<1>9. ab = c
  BY <1>4, <1>7, <1>8, SeqEqual
<1> QED BY <1>1, <1>5, <1>9, Zenon DEF continues

-----------------------------------------------------------------------------
(* Responses one by one *)

\* The responses of which the call in progress, or the next one, reads the first.
pending == taken \o responses

\* Where in its response the buffer begins.
base == IF stage = "header" THEN 0 ELSE RESPONSE_HEADER_SIZE

\* The buffer holds what follows there.
holds(r) ==
    /\ base + Len(buffer) <= total(r)
    /\ buffer = from(bytesOf(r), base, Len(buffer))

\* A call begins at the first byte of a response and reads nothing behind it.
FifoInv ==
    /\ responses \in Seq(Responses) /\ taken \in Seq(Responses) /\ buffer \in Seq(Byte)
    /\ stage = "idle" => buffer = <<>> /\ taken = <<>> /\ (isOpen => pos = 0)
    /\ stage # "idle" =>
           /\ isOpen /\ Len(buffer) <= wanted
           /\ taken = <<>> => pos = base + Len(buffer)
           /\ taken = <<>> /\ responses = <<>> => pos = 0
           /\ taken = <<>> /\ responses # <<>> =>
                  pos < total(Head(responses)) /\ holds(Head(responses))
           /\ taken # <<>> => /\ taken = <<Head(taken)>> /\ pos = 0 /\ holds(Head(taken))
                              /\ base + Len(buffer) = total(Head(taken))
    /\ stage = "payload" => pending # <<>> /\ header = headerOf(Head(pending))

LEMMA MinOfThree ==
    ASSUME NEW a \in Int, NEW b \in Int, NEW c \in Int
    PROVE  /\ Min({a, b, c}) \in {a, b, c}
           /\ Min({a, b, c}) <= a /\ Min({a, b, c}) <= b /\ Min({a, b, c}) <= c
<1>1. \E x \in {a, b, c} : \A y \in {a, b, c} : x <= y
  <2>1. CASE a <= b /\ a <= c
    BY <2>1
  <2>2. CASE b <= a /\ b <= c
    BY <2>2
  <2>3. CASE c <= a /\ c <= b
    BY <2>3
  <2> QED BY <2>1, <2>2, <2>3
<1> QED BY <1>1 DEF Min

LEMMA FromRest ==
    ASSUME NEW s \in Seq(Byte), NEW k \in Nat, NEW n \in Nat, k + n <= Len(s)
    PROVE  SubSeq(SubSeq(s, k + 1, Len(s)), 1, n) = from(s, k, n)
BY DEF from

LEMMA RestLength ==
    ASSUME NEW s \in Seq(Byte), NEW k \in Nat, k <= Len(s)
    PROVE  Len(SubSeq(s, k + 1, Len(s))) = Len(s) - k
OBVIOUS

LEMMA FifoInvInit == ResponseInit => FifoInv
BY DEF ResponseInit, FifoInv

LEMMA FirstPending ==
    ASSUME taken \in Seq(Responses), responses \in Seq(Responses)
    PROVE  /\ taken # <<>> => pending # <<>> /\ Head(pending) = Head(taken)
           /\ taken = <<>> => pending = responses
           /\ taken = <<Head(taken)>> => Tail(pending) = responses
<1>1. ASSUME taken # <<>> PROVE pending # <<>> /\ Head(pending) = Head(taken)
  BY <1>1 DEF pending
<1>2. ASSUME taken = <<>> PROVE pending = responses
  BY <1>2 DEF pending
<1>3. ASSUME taken = <<Head(taken)>> PROVE Tail(pending) = responses
  <2> DEFINE first == Head(taken)
  <2>1. taken # <<>>
    <3>1. \A x : <<x>> # <<>>
      OBVIOUS
    <3> QED BY <1>3, <3>1, Zenon
  <2>2. first \in Responses
    BY <2>1
  <2> HIDE DEF first
  <2>3. PICK x, s : x \in Responses /\ x = first /\ s = <<x>> \o responses
    BY <2>2
  <2>4. s \in Seq(Responses) /\ Len(s) = 1 + Len(responses)
    BY <2>3
  <2>5. \A i \in 1..Len(responses) : Tail(s)[i] = responses[i]
    BY <2>3, <2>4
  <2>6. Tail(s) \in Seq(Responses) /\ Len(Tail(s)) = Len(responses)
    BY <2>4
  <2>7. Tail(s) = responses
    BY <2>5, <2>6, SeqEqual
  <2> QED BY <1>3, <2>3, <2>7 DEF pending, first
<1> QED BY <1>1, <1>2, <1>3

\* A call that is not done with a response has not read it to the end.
LEMMA ReadsUntaken ==
    ASSUME CallInv, FifoInv, stage # "idle", Len(buffer) < wanted
    PROVE  taken = <<>>
<1> SUFFICES ASSUME taken # <<>> PROVE FALSE
  OBVIOUS
<1>1. /\ taken \in Seq(Responses) /\ responses \in Seq(Responses) /\ buffer \in Seq(Byte)
      /\ base + Len(buffer) = total(Head(taken))
  BY DEF FifoInv
<1>2. PICK r \in Responses : r = Head(taken)
  BY <1>1
<1>3. Len(r.payload) \in Nat
  BY ResponseTyped
<1>4. CASE stage = "header"
  BY <1>1, <1>2, <1>3, <1>4 DEF CallInv, base, total, RESPONSE_HEADER_SIZE
<1>5. CASE stage = "payload"
  <2>1. header = headerOf(r)
    BY <1>1, <1>2, <1>5, FirstPending DEF FifoInv
  <2>2. wanted = Len(r.payload)
    BY <1>5, <2>1 DEF CallInv, headerOf
  <2> QED BY <1>1, <1>2, <1>3, <1>5, <2>2 DEF base, total, RESPONSE_HEADER_SIZE
<1> QED BY <1>4, <1>5 DEF CallInv

\* One read from the socket takes bytes of the response whose turn it is.
LEMMA ReadSomeKeeps ==
    ASSUME CallInv, FifoInv, NEW segment \in Segments, ReadSome(segment)
    PROVE  /\ FifoInv' /\ pending' = pending
<1>1. PICK size : size = Min({segment, wanted - Len(buffer), Len(available)})
  OBVIOUS
<1>2. /\ stage # "idle" /\ size > 0
      /\ buffer' = buffer \o SubSeq(available, 1, size)
      /\ isOpen' = isOpen /\ stage' = stage /\ wanted' = wanted /\ header' = header
  BY <1>1 DEF ReadSome
<1>3. PICK r, bytes, n : r = Head(responses) /\ bytes = bytesOf(r) /\ n = Len(buffer)
  OBVIOUS
<1>4. /\ responses \in Seq(Responses) /\ taken \in Seq(Responses) /\ buffer \in Seq(Byte)
      /\ isOpen /\ n \in Nat
  BY <1>2, <1>3 DEF FifoInv
<1>5. wanted \in Nat
  <2>1. CASE stage = "header"
    BY <2>1 DEF CallInv, RESPONSE_HEADER_SIZE
  <2>2. CASE stage = "payload"
    <3>1. wanted = expectedPayloadSize(header.code) /\ header.code \in ResponseCode
      BY <2>2 DEF CallInv, sizeAgrees
    <3> QED BY <3>1, PayloadBounds DEF CRC_PAYLOAD_EXPECTED_SIZE, UUID_SIZE, FILE_NAME_FIELD_SIZE
  <2> QED BY <1>2, <2>1, <2>2 DEF CallInv
<1>6. responses # <<>> => r \in Responses /\ bytes \in Seq(Byte) /\ Len(bytes) = total(r)
  BY <1>3, <1>4, ResponseRead
<1>7. Len(available) \in Nat
  <2>1. CASE responses = <<>>
    BY <2>1 DEF available
  <2>2. CASE responses # <<>>
    <3>1. taken = <<>> => pos < total(r)
      BY <1>2, <1>3, <2>2 DEF FifoInv
    <3>2. pos \in Nat
      <4>1. taken = <<>> => pos = base + n
        BY <1>2, <1>3 DEF FifoInv
      <4>2. taken # <<>> => pos = 0
        BY <1>2 DEF FifoInv
      <4> QED BY <1>4, <4>1, <4>2 DEF base, RESPONSE_HEADER_SIZE
    <3>3. available = SubSeq(bytes, pos + 1, Len(bytes))
      BY <1>3, <2>2 DEF available
    <3>4. available \in Seq(Byte)
      BY <1>6, <2>2, <3>2, <3>3
    <3> QED BY <3>4
  <2> QED BY <2>1, <2>2
<1>8. size \in Nat /\ size <= wanted - n /\ size <= Len(available)
  <2>1. segment \in Int /\ wanted - n \in Int /\ Len(available) \in Int
    BY <1>4, <1>5, <1>7, ResponseStreamAssumption
  <2>2. size = Min({segment, wanted - n, Len(available)})
    BY <1>1, <1>3
  <2>3. size \in {segment, wanted - n, Len(available)}
    BY <2>1, <2>2, MinOfThree
  <2>4. size <= wanted - n /\ size <= Len(available)
    BY <2>1, <2>2, MinOfThree
  <2> QED BY <1>2, <2>1, <2>3, <2>4
<1>9. taken = <<>>
  <2>1. Len(buffer) < wanted
    BY <1>2, <1>3, <1>4, <1>5, <1>8
  <2> QED BY <1>2, <2>1, ReadsUntaken
<1>10. responses # <<>>
  BY <1>2, <1>8 DEF available
<1>11. PICK b \in Nat : b = base
  BY DEF base, RESPONSE_HEADER_SIZE
<1>12. pos = b + n /\ pos < total(r) /\ buffer = from(bytes, b, n)
  BY <1>2, <1>3, <1>9, <1>10, <1>11 DEF FifoInv, holds
<1>13. total(r) \in Nat /\ Len(bytes) = total(r) /\ bytes \in Seq(Byte)
  BY <1>6, <1>10
<1>14. SubSeq(available, 1, size) = from(bytes, b + n, size) /\ b + n + size <= total(r)
  <2>1. available = SubSeq(bytes, pos + 1, Len(bytes))
    BY <1>3, <1>10 DEF available
  <2>2. pos \in Nat /\ pos <= Len(bytes)
    BY <1>4, <1>11, <1>12, <1>13
  <2>3. Len(available) = Len(bytes) - pos
    BY <1>13, <2>1, <2>2, RestLength
  <2>4. pos + size <= Len(bytes)
    BY <1>8, <1>13, <2>2, <2>3
  <2>5. SubSeq(available, 1, size) = from(bytes, pos, size)
    BY <1>8, <1>13, <2>1, <2>2, <2>4, FromRest
  <2> QED BY <1>12, <1>13, <2>4, <2>5
<1>15. buffer' = from(bytes, b, n + size)
  <2>1. b + n + size <= Len(bytes)
    BY <1>13, <1>14
  <2>2. continues(bytes, b, n, size)
    BY <1>4, <1>8, <1>11, <1>13, <2>1, FromJoined
  <2>3. SubSeq(available, 1, size) = from(bytes, b + n, size)
    BY <1>14, Zenon
  <2> QED BY <1>2, <1>12, <2>2, <2>3, Zenon DEF continues
<1>16. buffer' \in Seq(Byte) /\ Len(buffer') = n + size
  <2>1. n + size \in Nat /\ b + (n + size) <= Len(bytes)
    BY <1>4, <1>8, <1>11, <1>13, <1>14
  <2> QED BY <1>13, <1>15, <2>1, FromRead
<1>17. base' = b
  BY <1>2, <1>11 DEF base
<1>18. b + Len(buffer') <= total(r) /\ buffer' = from(bytesOf(r), b, Len(buffer'))
  <2>1. PICK m : m = n + size
    OBVIOUS
  <2>2. b + m <= total(r)
    BY <1>4, <1>8, <1>11, <1>13, <1>14, <2>1
  <2>3. Len(buffer') = m /\ buffer' = from(bytesOf(r), b, m)
    BY <1>3, <1>15, <1>16, <2>1
  <2> QED BY <2>2, <2>3
<1>19. Len(buffer') <= wanted'
  BY <1>2, <1>4, <1>5, <1>8, <1>16
<1>20. pos + size = b + Len(buffer')
  BY <1>4, <1>8, <1>11, <1>12, <1>16
<1>21. r \in Responses
  BY <1>6, <1>10
<1>22. pending = responses
  BY <1>4, <1>9, FirstPending
<1>23. CASE pos + size = total(r)
  <2>1. pos' = 0 /\ responses' = Tail(responses) /\ taken' = Append(taken, r)
    BY <1>1, <1>3, <1>13, <1>23 DEF ReadSome
  <2>2. taken' = <<r>>
    BY <1>9, <2>1
  <2>3. /\ taken' \in Seq(Responses) /\ responses' \in Seq(Responses)
        /\ taken' # <<>> /\ Head(taken') = r
    BY <1>4, <1>10, <1>21, <2>1, <2>2
  <2>4. taken' \o responses' = responses
    <3>1. <<r>> \o Tail(responses) \in Seq(Responses)
      BY <1>4, <1>10, <1>21
    <3>2. Len(<<r>> \o Tail(responses)) = Len(responses)
      BY <1>4, <1>10, <1>21
    <3>3. \A i \in 1..Len(responses) : (<<r>> \o Tail(responses))[i] = responses[i]
      BY <1>3, <1>4, <1>10, <1>21
    <3>4. <<r>> \o Tail(responses) = responses
      BY <1>4, <3>1, <3>2, <3>3, SeqEqual
    <3> QED BY <2>1, <2>2, <3>4
  <2>5. pending' = pending
    BY <1>22, <2>4 DEF pending
  <2>6. taken' = <<Head(taken')>> /\ holds(Head(taken))' /\ base' + Len(buffer') = total(Head(taken'))
    BY <1>17, <1>18, <1>20, <1>23, <2>2, <2>3 DEF holds
  <2>7. stage' = "payload" => pending' # <<>> /\ header' = headerOf(Head(pending'))
    BY <1>2, <2>5 DEF FifoInv
  <2> QED BY <1>2, <1>4, <1>16, <1>19, <2>1, <2>3, <2>5, <2>6, <2>7 DEF FifoInv
<1>24. CASE pos + size # total(r)
  <2>1. pos' = pos + size /\ responses' = responses /\ taken' = taken
    BY <1>1, <1>3, <1>13, <1>24 DEF ReadSome
  <2>2. pending' = pending
    BY <2>1 DEF pending
  <2>3. pos' < total(Head(responses')) /\ holds(Head(responses))' /\ pos' = base' + Len(buffer')
    <3>1. pos + size < total(r)
      <4>1. PICK whole \in Nat : whole = total(r)
        BY <1>13
      <4>2. b + n + size <= whole /\ pos = b + n /\ pos + size # whole
        BY <1>12, <1>14, <1>24, <4>1
      <4>3. b \in Nat /\ n \in Nat /\ size \in Nat
        BY <1>4, <1>8
      <4>4. pos + size < whole
        BY <4>2, <4>3
      <4> QED BY <4>1, <4>4
    <3> QED BY <1>3, <1>17, <1>18, <1>20, <2>1, <3>1 DEF holds
  <2>4. stage' = "payload" => pending' # <<>> /\ header' = headerOf(Head(pending'))
    BY <1>2, <2>2 DEF FifoInv
  <2> QED BY <1>2, <1>4, <1>9, <1>10, <1>16, <1>19, <2>1, <2>2, <2>3, <2>4 DEF FifoInv
<1> QED BY <1>23, <1>24

\* A header is the one of the response whose turn it is.
LEMMA HeaderExact ==
    ASSUME CallInv, FifoInv, stage = "header", received
    PROVE  /\ pending # <<>> /\ Head(pending) \in Responses
           /\ parseHeader(buffer) = headerOf(Head(pending))
           /\ taken = <<>> => pos = RESPONSE_HEADER_SIZE
<1>1. /\ Len(buffer) = RESPONSE_HEADER_SIZE /\ base = 0
      /\ taken \in Seq(Responses) /\ responses \in Seq(Responses)
  BY DEF CallInv, FifoInv, received, base
<1>2. pending # <<>> /\ holds(Head(pending)) /\ (taken = <<>> => pos = RESPONSE_HEADER_SIZE)
  <2>1. CASE taken = <<>>
    <3>1. pos = 7
      BY <1>1, <2>1 DEF FifoInv, RESPONSE_HEADER_SIZE
    <3>2. responses # <<>>
      BY <2>1, <3>1 DEF FifoInv
    <3> QED BY <1>1, <2>1, <3>1, <3>2, FirstPending DEF FifoInv, RESPONSE_HEADER_SIZE
  <2>2. CASE taken # <<>>
    BY <1>1, <2>2, FirstPending DEF FifoInv
  <2> QED BY <2>1, <2>2
<1>3. PICK r : r = Head(pending)
  OBVIOUS
<1>4. r \in Responses
  <2>1. pending \in Seq(Responses)
    BY <1>1, ConcatProperties DEF pending
  <2> QED BY <1>2, <1>3, <2>1
<1>5. buffer = from(bytesOf(r), 0, RESPONSE_HEADER_SIZE)
  BY <1>1, <1>2, <1>3 DEF holds
<1>6. parseHeader(buffer) = headerOf(r)
  BY <1>4, <1>5, ResponseRead
<1> QED BY <1>2, <1>3, <1>4, <1>6

LEMMA HeaderKeeps ==
    ASSUME CallInv, FifoInv, HeaderReceived
    PROVE  /\ FifoInv'
           /\ \/ isOpen' = isOpen /\ pending' = pending /\ result' = result
              \/ isOpen' = FALSE /\ result' = <<>>
<1>1. stage = "header" /\ received
  BY DEF HeaderReceived
<1>2. PICK r, h : r = Head(pending) /\ h = parseHeader(buffer)
  OBVIOUS
<1>3. pending # <<>> /\ r \in Responses /\ h = headerOf(r)
      /\ (taken = <<>> => pos = RESPONSE_HEADER_SIZE)
  BY <1>1, <1>2, HeaderExact
<1>4. responses \in Seq(Responses) /\ taken \in Seq(Responses) /\ isOpen
  BY <1>1 DEF FifoInv
<1>5. CASE sizeAgrees(h)
  <2>1. /\ stage' = "payload" /\ header' = h /\ wanted' = h.payloadSize /\ buffer' = <<>>
        /\ UNCHANGED <<responses, pos, isOpen, taken, result>>
    BY <1>2, <1>5 DEF HeaderReceived
  <2>2. pending' = pending
    BY <2>1 DEF pending
  <2>3. Len(buffer') = 0 /\ buffer' \in Seq(Byte) /\ base' = RESPONSE_HEADER_SIZE
    BY <2>1 DEF base
  <2>4. Len(r.payload) \in Nat /\ bytesOf(r) \in Seq(Byte)
    BY <1>3, ResponseTyped, ResponseRead
  <2>5. holds(r)'
    <3>1. from(bytesOf(r), RESPONSE_HEADER_SIZE, 0) = <<>>
      BY <2>4 DEF from, RESPONSE_HEADER_SIZE
    <3>2. RESPONSE_HEADER_SIZE + 0 <= total(r)
      BY <2>4 DEF total, RESPONSE_HEADER_SIZE
    <3> QED BY <2>1, <2>3, <3>1, <3>2 DEF holds
  <2>6. wanted' \in Nat
    BY <1>3, <2>1, <2>4 DEF headerOf
  <2>7. ASSUME taken = <<>> PROVE FifoInv'
    <3>1. responses # <<>> /\ Head(responses) = r /\ pos < total(r) /\ pos = RESPONSE_HEADER_SIZE
      BY <1>1, <1>2, <1>3, <1>4, <2>7, FirstPending DEF FifoInv
    <3>2. pos' = base' + Len(buffer')
      BY <2>1, <2>3, <3>1 DEF RESPONSE_HEADER_SIZE
    <3> QED BY <1>2, <1>3, <1>4, <2>1, <2>2, <2>3, <2>5, <2>6, <2>7, <3>1, <3>2 DEF FifoInv
  <2>8. ASSUME taken # <<>> PROVE FifoInv'
    <3>1. /\ Head(taken) = r /\ taken = <<Head(taken)>> /\ pos = 0
          /\ base + Len(buffer) = total(r)
      BY <1>1, <1>2, <1>4, <2>8, FirstPending DEF FifoInv
    <3>2. base' + Len(buffer') = total(r)
      BY <1>1, <2>3, <3>1 DEF CallInv, received, base, RESPONSE_HEADER_SIZE
    <3> QED BY <1>2, <1>3, <1>4, <2>1, <2>2, <2>3, <2>5, <2>6, <2>8, <3>1, <3>2 DEF FifoInv
  <2>9. isOpen' = isOpen /\ result' = result
    BY <2>1
  <2> QED BY <2>2, <2>7, <2>8, <2>9, Zenon
<1>6. CASE ~sizeAgrees(h)
  <2>1. /\ isOpen' = FALSE /\ stage' = "idle" /\ result' = <<>> /\ buffer' = <<>>
        /\ taken' = <<>> /\ responses' = responses
    BY <1>2, <1>6 DEF HeaderReceived, Return
  <2>2. FifoInv'
    BY <1>4, <2>1 DEF FifoInv
  <2> QED BY <2>1, <2>2, Zenon
<1> QED BY <1>5, <1>6

\* A payload is the one of the response whose turn it is, and completes it.
LEMMA PayloadExact ==
    ASSUME CallInv, FifoInv, stage = "payload", received
    PROVE  /\ taken = <<Head(taken)>> /\ Head(taken) \in Responses /\ valid(Head(taken))
           /\ pending # <<>> /\ Head(pending) = Head(taken) /\ Tail(pending) = responses
           /\ buffer = Head(taken).payload /\ header = headerOf(Head(taken))
<1>1. /\ taken \in Seq(Responses) /\ responses \in Seq(Responses) /\ base = RESPONSE_HEADER_SIZE
      /\ pending # <<>> /\ header = headerOf(Head(pending)) /\ sizeAgrees(header)
      /\ Len(buffer) = header.payloadSize
  BY DEF CallInv, FifoInv, received, base
<1>2. PICK r : r = Head(pending)
  OBVIOUS
<1>3. r \in Responses
  <2>1. pending \in Seq(Responses)
    BY <1>1, ConcatProperties DEF pending
  <2> QED BY <1>1, <1>2, <2>1
<1>4. Len(r.payload) \in Nat /\ Len(buffer) = Len(r.payload)
  BY <1>1, <1>2, <1>3, ResponseTyped DEF headerOf
<1>5. taken # <<>>
  <2>1. SUFFICES ASSUME taken = <<>> PROVE FALSE
    OBVIOUS
  <2>2. responses # <<>> /\ Head(responses) = r
    BY <1>1, <1>2, <2>1, FirstPending
  <2>3. pos < total(r) /\ pos = RESPONSE_HEADER_SIZE + Len(buffer)
    BY <1>1, <2>1, <2>2 DEF FifoInv
  <2> QED BY <1>4, <2>3 DEF total, RESPONSE_HEADER_SIZE
<1>6. Head(taken) = r /\ taken = <<Head(taken)>> /\ holds(Head(taken)) /\ Tail(pending) = responses
  BY <1>1, <1>2, <1>5, FirstPending DEF FifoInv
<1>7. buffer = r.payload
  <2>1. buffer = from(bytesOf(r), RESPONSE_HEADER_SIZE, Len(r.payload))
    BY <1>1, <1>4, <1>6 DEF holds
  <2> QED BY <1>3, <2>1, ResponseRead
<1>8. valid(r)
  BY <1>1, <1>2 DEF sizeAgrees, headerOf, valid
<1> QED BY <1>1, <1>2, <1>3, <1>6, <1>7, <1>8

LEMMA PayloadKeeps ==
    ASSUME CallInv, FifoInv, PayloadReceived
    PROVE  /\ FifoInv' /\ isOpen /\ isOpen' /\ pending # <<>> /\ valid(Head(pending))
           /\ Head(pending) \in Responses /\ pending' = Tail(pending)
           /\ result' = <<Head(pending)>> \/ result' = <<>>
<1>1. stage = "payload" /\ received
  BY DEF PayloadReceived
<1>2. PICK r : r = Head(taken)
  OBVIOUS
<1>3. /\ r \in Responses /\ valid(r) /\ pending # <<>> /\ Head(pending) = r
      /\ Tail(pending) = responses /\ buffer = r.payload /\ header = headerOf(r)
  BY <1>1, <1>2, PayloadExact
<1>4. responses \in Seq(Responses) /\ isOpen
  BY <1>1 DEF FifoInv
<1>5. /\ stage' = "idle" /\ buffer' = <<>> /\ taken' = <<>> /\ isOpen' = isOpen
      /\ responses' = responses /\ pos' = pos
  BY DEF PayloadReceived, Return
<1>6. pos = 0
  <2>1. taken # <<>>
    <3>1. taken = <<r>>
      BY <1>1, <1>2, PayloadExact
    <3> QED BY <3>1
  <2> QED BY <1>1, <2>1 DEF FifoInv
<1>7. FifoInv'
  BY <1>4, <1>5, <1>6 DEF FifoInv
<1>8. pending' = Tail(pending)
  <2>1. pending' = responses
    BY <1>4, <1>5 DEF pending
  <2> QED BY <1>3, <2>1
<1>9. result' = <<[version |-> header.version, code |-> header.code, payload |-> buffer]>>
      \/ result' = <<>>
  BY DEF PayloadReceived, Return
<1>10. [version |-> header.version, code |-> header.code, payload |-> buffer] = r
  <2>1. r = [version |-> r.version, code |-> r.code, payload |-> r.payload]
    BY <1>3, ResponseTyped
  <2> QED BY <1>3, <2>1 DEF headerOf
<1> QED BY <1>3, <1>4, <1>5, <1>7, <1>8, <1>9, <1>10

-----------------------------------------------------------------------------
(* The abstract queue *)

queued == IF isOpen THEN pending ELSE <<>>

LEMMA FifoPuts ==
    ASSUME NEW r \in Responses,
           queued' = Append(queued, r) /\ isOpen' = isOpen /\ result' = result
    PROVE  Fifo!Put
BY Zenon DEF Fifo!Put, queued, pending

LEMMA FifoTakes ==
    ASSUME /\ isOpen /\ queued # <<>> /\ valid(Head(queued)) /\ isOpen' = isOpen
           /\ result' = <<Head(queued)>> \/ result' = <<>>
           /\ queued' = Tail(queued)
    PROVE  Fifo!Take
BY Zenon DEF Fifo!Take, queued, pending

LEMMA FifoBreaks ==
    ASSUME isOpen' = FALSE, result' = <<>> PROVE Fifo!Break
BY DEF Fifo!Break, queued, pending

LEMMA FifoCalls ==
    ASSUME result' = <<>>, queued' = queued, isOpen' = isOpen PROVE Fifo!Call
BY Zenon DEF Fifo!Call, queued, pending

LEMMA FifoStutters ==
    ASSUME result' = result, queued' = queued, isOpen' = isOpen PROVE UNCHANGED Fifo!vars
BY Zenon DEF Fifo!vars, queued, pending

\* A response that arrives during a call goes behind those that are there.
LEMMA RespondKeeps ==
    ASSUME CallInv, FifoInv, NEW r \in Responses, Respond(r)
    PROVE  FifoInv' /\ pending' = Append(pending, r)
<1>1. /\ responses' = Append(responses, r) /\ pos' = pos /\ isOpen' = isOpen /\ taken' = taken
      /\ stage' = stage /\ buffer' = buffer /\ wanted' = wanted /\ header' = header
  BY DEF Respond, callVars
<1>2. responses \in Seq(Responses) /\ taken \in Seq(Responses) /\ buffer \in Seq(Byte)
  BY DEF FifoInv
<1>3. pending' = Append(pending, r)
  <2>1. (taken \o responses) \o <<r>> = taken \o (responses \o <<r>>)
    BY <1>2, ConcatAssociative
  <2>2. taken \o responses \in Seq(Responses)
    BY <1>2, ConcatProperties
  <2>3. Append(responses, r) = responses \o <<r>>
    BY <1>2
  <2>4. Append(taken \o responses, r) = (taken \o responses) \o <<r>>
    BY <2>2
  <2> QED BY <1>1, <2>1, <2>3, <2>4, Zenon DEF pending
<1>4. responses' \in Seq(Responses) /\ taken' \in Seq(Responses) /\ buffer' \in Seq(Byte)
  BY <1>1, <1>2
<1>5. base' = base
  BY <1>1 DEF base
<1>6. responses # <<>> => Head(responses') = Head(responses)
  BY <1>1, <1>2
<1>7. stage = "idle" => buffer' = <<>> /\ taken' = <<>> /\ (isOpen' => pos' = 0)
  BY <1>1 DEF FifoInv
<1>8. ASSUME stage # "idle" PROVE isOpen' /\ Len(buffer') <= wanted'
  BY <1>1, <1>8 DEF FifoInv
<1>9. ASSUME stage # "idle", taken = <<>>
      PROVE  pos' = base' + Len(buffer') /\ pos' < total(Head(responses')) /\ holds(Head(responses))'
  <2>1. pos' = base' + Len(buffer')
    BY <1>1, <1>5, <1>9 DEF FifoInv
  <2>2. CASE responses # <<>>
    BY <1>1, <1>5, <1>6, <1>9, <2>1, <2>2 DEF FifoInv, holds
  <2>3. CASE responses = <<>>
    <3>1. Len(r.payload) \in Nat /\ bytesOf(r) \in Seq(Byte) /\ Head(responses') = r
      BY <1>1, <2>3, ResponseTyped, ResponseRead
    <3>2. pos = 0 /\ base + Len(buffer) = 0
      BY <1>9, <2>3 DEF FifoInv
    <3>3. base = 0 /\ Len(buffer) = 0 /\ buffer = <<>>
      BY <1>2, <3>2 DEF base, RESPONSE_HEADER_SIZE
    <3>4. from(bytesOf(r), 0, 0) = <<>>
      BY <3>1 DEF from
    <3>5. 0 < total(r)
      BY <3>1 DEF total, RESPONSE_HEADER_SIZE
    <3>6. holds(Head(responses))'
      <4>1. base' = 0 /\ buffer' = <<>> /\ Len(buffer') = 0 /\ Head(responses') = r
        BY <1>1, <1>5, <3>1, <3>3
      <4>2. 0 + 0 <= total(r)
        BY <3>1 DEF total, RESPONSE_HEADER_SIZE
      <4> QED BY <3>4, <4>1, <4>2 DEF holds
    <3> QED BY <1>1, <2>1, <3>1, <3>2, <3>5, <3>6
  <2> QED BY <2>2, <2>3
<1>10. responses' # <<>>
  BY <1>1, <1>2
<1>11. ASSUME stage # "idle", taken # <<>>
       PROVE  /\ taken' = <<Head(taken')>> /\ pos' = 0 /\ holds(Head(taken))'
              /\ base' + Len(buffer') = total(Head(taken'))
  BY <1>1, <1>5, <1>11 DEF FifoInv, holds
<1>12. stage = "payload" => pending' # <<>> /\ header' = headerOf(Head(pending'))
  <2>1. SUFFICES ASSUME stage = "payload" PROVE pending' # <<>> /\ header' = headerOf(Head(pending'))
    OBVIOUS
  <2>2. pending \in Seq(Responses)
    BY <1>2, ConcatProperties DEF pending
  <2>3. pending # <<>> /\ header = headerOf(Head(pending))
    BY <2>1 DEF FifoInv
  <2>4. pending' # <<>> /\ Head(pending') = Head(pending)
    BY <1>3, <2>2, <2>3
  <2> QED BY <1>1, <2>3, <2>4
<1> QED BY <1>1, <1>3, <1>4, <1>7, <1>8, <1>9, <1>10, <1>11, <1>12 DEF FifoInv

\* A call begins where the last one ended; on a closed socket nothing happens.
LEMMA CallKeeps ==
    ASSUME FifoInv, NEW codes, ReceiveResponse(codes)
    PROVE  FifoInv' /\ [Fifo!Next]_(Fifo!vars)
<1>1. /\ taken = <<>> /\ responses \in Seq(Responses) /\ stage = "idle" /\ (isOpen => pos = 0)
  BY DEF ReceiveResponse, FifoInv
<1>2. /\ isOpen' = isOpen /\ pos' = pos /\ responses' = responses /\ result' = <<>>
      /\ taken' = <<>>
  BY <1>1 DEF ReceiveResponse, Return
<1>3. queued' = queued
  BY <1>1, <1>2 DEF queued, pending
<1>4. Fifo!Call
  BY <1>2, <1>3, FifoCalls
<1>5. CASE ~isOpen
  <2>1. stage' = "idle" /\ buffer' = <<>>
    BY <1>5 DEF ReceiveResponse, Return
  <2>2. FifoInv'
    BY <1>1, <1>2, <1>5, <2>1 DEF FifoInv
  <2> QED BY <1>4, <2>2, Zenon DEF Fifo!Next
<1>6. CASE isOpen
  <2>1. stage' = "header" /\ wanted' = RESPONSE_HEADER_SIZE /\ buffer' = buffer
    BY <1>6 DEF ReceiveResponse
  <2>2. buffer = <<>>
    BY <1>1 DEF FifoInv, ReceiveResponse
  <2>3. base' = 0 /\ Len(buffer') = 0 /\ pos' = 0 /\ buffer' = <<>>
    BY <1>1, <1>2, <1>6, <2>1, <2>2 DEF base
  <2>4. responses' # <<>> => pos' < total(Head(responses')) /\ holds(Head(responses))'
    <3>1. SUFFICES ASSUME responses # <<>>
                   PROVE  pos' < total(Head(responses')) /\ holds(Head(responses))'
      BY <1>2
    <3>2. PICK r \in Responses : r = Head(responses)
      BY <1>1, <3>1
    <3>3. Len(r.payload) \in Nat /\ bytesOf(r) \in Seq(Byte)
      BY ResponseTyped, ResponseRead
    <3>4. from(bytesOf(r), 0, 0) = <<>>
      BY <3>3 DEF from
    <3>5. 0 < total(r) /\ 0 + 0 <= total(r)
      BY <3>3 DEF total, RESPONSE_HEADER_SIZE
    <3> QED BY <1>2, <2>3, <3>2, <3>4, <3>5 DEF holds
  <2>5. FifoInv'
    <3>1. /\ responses' \in Seq(Responses) /\ taken' \in Seq(Responses)
          /\ buffer' \in Seq(Byte) /\ Len(buffer') <= wanted' /\ pos' = base' + Len(buffer')
      BY <1>1, <1>2, <2>1, <2>3 DEF RESPONSE_HEADER_SIZE
    <3> QED BY <1>2, <1>6, <2>1, <2>3, <2>4, <3>1 DEF FifoInv
  <2> QED BY <1>4, <2>5, Zenon DEF Fifo!Next
<1> QED BY <1>5, <1>6

\* Each step of the byte stream keeps its invariant and is one of the queue or none.
LEMMA FifoStep ==
    CallInv /\ FifoInv /\ [ResponseNext]_responseVars => FifoInv' /\ [Fifo!Next]_(Fifo!vars)
<1> SUFFICES ASSUME CallInv, FifoInv, [ResponseNext]_responseVars
             PROVE  FifoInv' /\ [Fifo!Next]_(Fifo!vars)
  OBVIOUS
<1>1. ASSUME NEW r \in Responses, Respond(r) PROVE FifoInv' /\ [Fifo!Next]_(Fifo!vars)
  <2>1. FifoInv' /\ pending' = Append(pending, r)
    BY <1>1, RespondKeeps
  <2>2. isOpen' = isOpen /\ result' = result
    BY <1>1 DEF Respond, callVars
  <2>3. CASE isOpen
    <3>1. queued' = Append(queued, r)
      BY <2>1, <2>2, <2>3 DEF queued
    <3> QED BY <2>1, <2>2, <3>1, FifoPuts, Zenon DEF Fifo!Next
  <2>4. CASE ~isOpen
    <3>1. queued' = queued
      BY <2>2, <2>4 DEF queued
    <3> QED BY <2>1, <2>2, <3>1, FifoStutters, Zenon
  <2> QED BY <2>3, <2>4
<1>2. ASSUME NEW c \in DOMAIN acceptedCodes, ReceiveResponse(acceptedCodes[c])
      PROVE  FifoInv' /\ [Fifo!Next]_(Fifo!vars)
  BY <1>2, CallKeeps
<1>3. ASSUME NEW segment \in Segments, ReadSome(segment) PROVE FifoInv' /\ [Fifo!Next]_(Fifo!vars)
  <2>1. FifoInv' /\ pending' = pending
    BY <1>3, ReadSomeKeeps
  <2>2. isOpen' = isOpen /\ result' = result
    BY <1>3 DEF ReadSome
  <2>3. queued' = queued
    BY <2>1, <2>2 DEF queued
  <2> QED BY <2>1, <2>2, <2>3, FifoStutters, Zenon
<1>4. CASE ReceiveFails
  <2>1. isOpen' = FALSE /\ result' = <<>> /\ FifoInv'
    BY <1>4 DEF ReceiveFails, Return, FifoInv
  <2> QED BY <2>1, FifoBreaks, Zenon DEF Fifo!Next
<1>5. CASE HeaderReceived
  <2>1. /\ FifoInv'
        /\ \/ isOpen' = isOpen /\ pending' = pending /\ result' = result
           \/ isOpen' = FALSE /\ result' = <<>>
    BY <1>5, HeaderKeeps
  <2>2. CASE isOpen' = isOpen /\ pending' = pending /\ result' = result
    <3>1. queued' = queued
      BY <2>2 DEF queued
    <3> QED BY <2>1, <2>2, <3>1, FifoStutters, Zenon
  <2>3. CASE isOpen' = FALSE /\ result' = <<>>
    BY <2>1, <2>3, FifoBreaks, Zenon DEF Fifo!Next
  <2> QED BY <2>1, <2>2, <2>3
<1>6. CASE PayloadReceived
  <2>1. /\ FifoInv' /\ isOpen /\ isOpen' = isOpen /\ pending # <<>> /\ valid(Head(pending))
        /\ pending' = Tail(pending) /\ (result' = <<Head(pending)>> \/ result' = <<>>)
    BY <1>6, PayloadKeeps DEF PayloadReceived
  <2>2. queued = pending /\ queued' = pending'
    BY <2>1 DEF queued
  <2>3. /\ isOpen /\ queued # <<>> /\ valid(Head(queued)) /\ isOpen' = isOpen
        /\ result' = <<Head(queued)>> \/ result' = <<>>
        /\ queued' = Tail(queued)
    BY <2>1, <2>2, Zenon
  <2> QED BY <2>1, <2>3, FifoTakes, Zenon DEF Fifo!Next
<1>7. CASE LinkFails \/ UNCHANGED responseVars
  <2>1. /\ responses' = responses /\ pos' = pos /\ isOpen' = isOpen /\ taken' = taken
        /\ stage' = stage /\ buffer' = buffer /\ wanted' = wanted /\ header' = header
        /\ result' = result
    BY <1>7 DEF LinkFails, responseVars, callVars
  <2>2. FifoInv'
    BY <2>1 DEF FifoInv, base, holds, pending
  <2>3. queued' = queued
    BY <2>1 DEF queued, pending
  <2> QED BY <2>1, <2>2, <2>3, FifoStutters, Zenon
<1> QED BY <1>1, <1>2, <1>3, <1>4, <1>5, <1>6, <1>7 DEF ResponseNext, ReceiveStep

LEMMA FifoInit == ResponseInit => Fifo!Init
<1> SUFFICES ASSUME ResponseInit PROVE Fifo!Init
  OBVIOUS
<1>1. taken = <<>> /\ responses = <<>> /\ isOpen = TRUE /\ result = <<>>
  BY DEF ResponseInit
<1>2. taken \o responses = <<>>
  BY <1>1
<1> QED BY <1>1, <1>2, Zenon DEF Fifo!Init

LEMMA FifoInvariant == Spec => []FifoInv /\ IsFifo
<1>1. Init => AwaitingInv /\ CallInv /\ FifoInv /\ Fifo!Init
  BY CallInvInit, FifoInvInit, FifoInit DEF Init, AwaitingInv
<1>2. AwaitingInv /\ CallInv /\ FifoInv /\ [Next]_vars
          => AwaitingInv' /\ CallInv' /\ FifoInv' /\ [Fifo!Next]_(Fifo!vars)
  BY AwaitingInvNext, StreamStep, CallInvNext, FifoStep
<1> QED BY <1>1, <1>2, PTL DEF Spec, IsFifo, Fifo!Spec

\* The byte stream implements the queue of responses, for segments of any length and
\* responses of any code and size: a call of receiveResponse returns the server's next
\* response whole, or gives up and disconnects.
THEOREM ResponsesInOrder == Spec => IsFifo
BY FifoInvariant, PTL

-----------------------------------------------------------------------------
(* Payloads *)

\* What a server has to report; a file name is text that leaves room in its field.
CrcReports == [clientId : Ids, contentSize : 0..(UINT32 - 1),
               fileName : {text \in Seq(Byte) : /\ Len(text) < FILE_NAME_FIELD_SIZE
                                                /\ \A k \in 1..Len(text) : text[k] # 0},
               cksum : 0..(UINT32 - 1)]

KeyReports == [clientId : Ids, encryptedAesKey : Seq(Byte)]

\* The server writes its reports in payloads of the right size as the protocol says.
ServerReports == \A r \in Responses : valid(r) =>
    /\ r.code = FileReceivedWithCrc =>
           \E report \in Reports \cap CrcReports : r.payload = crcPayload(report)
    /\ r.code \in {AesKeyReceived, ReconnectApproved} =>
           \E report \in Reports \cap KeyReports : r.payload = aesKeyPayload(report)

LEMMA CrcReportRead ==
    ASSUME NEW report \in CrcReports PROVE parseFileCrcPayload(crcPayload(report)) = report
<1>1. PICK id, n, field, c :
          /\ id = report.clientId /\ n = appendUint32LE(report.contentSize)
          /\ field = appendFixedString(report.fileName, FILE_NAME_FIELD_SIZE)
          /\ c = appendUint32LE(report.cksum)
  OBVIOUS
<1>2. /\ report = [clientId |-> report.clientId, contentSize |-> report.contentSize,
                   fileName |-> report.fileName, cksum |-> report.cksum]
      /\ report.clientId \in Ids /\ report.contentSize \in 0..(UINT32 - 1)
      /\ report.cksum \in 0..(UINT32 - 1)
      /\ report.fileName \in Seq(Byte) /\ Len(report.fileName) < FILE_NAME_FIELD_SIZE
      /\ \A k \in 1..Len(report.fileName) : report.fileName[k] # 0
  BY DEF CrcReports
<1>3. id \in Seq(Byte) /\ Len(id) = 16
  BY <1>1, <1>2 DEF Ids, UUID_SIZE
<1>4. n \in Seq(Byte) /\ Len(n) = 4 /\ readUint32LE(n) = report.contentSize
  BY <1>1, <1>2, Uint32Read, Sizes
<1>5. c \in Seq(Byte) /\ Len(c) = 4 /\ readUint32LE(c) = report.cksum
  BY <1>1, <1>2, Uint32Read, Sizes
<1>6. field = appendFixedString(report.fileName, 255) /\ FILE_NAME_FIELD_SIZE = 255
  BY <1>1 DEF FILE_NAME_FIELD_SIZE
<1>7. field \in Seq(Byte) /\ Len(field) = 255
  BY <1>2, <1>6, NameRead
<1>8. readString(field) = report.fileName
  <2>1. 255 \in Nat
    OBVIOUS
  <2> QED BY <1>2, <1>6, <2>1, WholeTextRead
<1>9. PICK w \in Nat : w = 255
  OBVIOUS
<1>10. PICK s1, s2, payload : s1 = id \o n /\ s2 = s1 \o field /\ payload = s2 \o c
  OBVIOUS
<1>11. joins(s1, id, n)
  BY <1>3, <1>4, <1>10, Joined
<1>12. s1 \in Seq(Byte) /\ Len(s1) = 20
  BY <1>3, <1>4, <1>11 DEF joins
<1>13. joins(s2, s1, field)
  BY <1>7, <1>10, <1>12, Joined
<1>14. Len(field) = w
  BY <1>7, <1>9
<1>15. s2 \in Seq(Byte) /\ Len(s2) = 20 + w
  BY <1>12, <1>13, <1>14 DEF joins
<1>16. joins(payload, s2, c)
  BY <1>5, <1>10, <1>15, Joined
<1>17. from(payload, 0, 16) = id
  <2>1. from(payload, 0, 16) = from(s2, 0, 16)
    BY <1>15, <1>16 DEF joins
  <2>2. from(s2, 0, 16) = from(s1, 0, 16)
    BY <1>12, <1>13 DEF joins
  <2>3. from(s1, 0, 16) = from(id, 0, 16)
    BY <1>3, <1>11 DEF joins
  <2> QED BY <1>3, <2>1, <2>2, <2>3, FromAll
<1>18. from(payload, 16, 4) = n
  <2>1. from(payload, 16, 4) = from(s2, 16, 4)
    BY <1>15, <1>16 DEF joins
  <2>2. from(s2, 16, 4) = from(s1, 16, 4)
    BY <1>12, <1>13 DEF joins
  <2>3. from(s1, 16, 4) = from(n, 0, 4)
    BY <1>3, <1>4, <1>11 DEF joins
  <2> QED BY <1>4, <2>1, <2>2, <2>3, FromAll
<1>19. from(payload, 20, w) = field
  <2>1. from(payload, 20, w) = from(s2, 20, w)
    BY <1>15, <1>16 DEF joins
  <2>2. from(s2, 20, w) = from(field, 0, w)
    BY <1>12, <1>13, <1>14 DEF joins
  <2> QED BY <1>7, <1>14, <2>1, <2>2, FromAll
<1>20. from(payload, 20 + w, 4) = c
  <2>1. from(payload, 20 + w, 4) = from(c, 0, 4)
    BY <1>5, <1>15, <1>16 DEF joins
  <2> QED BY <1>5, <2>1, FromAll
<1>21. payload = crcPayload(report)
  BY <1>1, <1>10, Zenon DEF crcPayload
<1>22. UUID_SIZE = 16 /\ UUID_SIZE + 4 = 20 /\ UUID_SIZE + 4 + FILE_NAME_FIELD_SIZE = 20 + w
       /\ FILE_NAME_FIELD_SIZE = w
  BY <1>9 DEF UUID_SIZE, FILE_NAME_FIELD_SIZE
<1>23. parseFileCrcPayload(payload)
          = [clientId |-> id, contentSize |-> report.contentSize,
             fileName |-> report.fileName, cksum |-> report.cksum]
  BY <1>4, <1>5, <1>8, <1>17, <1>18, <1>19, <1>20, <1>22, Zenon DEF parseFileCrcPayload
<1> QED BY <1>1, <1>2, <1>21, <1>23, Zenon

LEMMA KeyReportRead ==
    ASSUME NEW report \in KeyReports PROVE parseAesKeyPayload(aesKeyPayload(report)) = report
<1>1. PICK id, key, payload : /\ id = report.clientId /\ key = report.encryptedAesKey
                              /\ payload = id \o key
  OBVIOUS
<1>2. /\ report = [clientId |-> id, encryptedAesKey |-> key]
      /\ id \in Seq(Byte) /\ Len(id) = 16 /\ key \in Seq(Byte)
  BY <1>1 DEF KeyReports, Ids, UUID_SIZE
<1>3. joins(payload, id, key)
  BY <1>1, <1>2, Joined
<1>4. PICK w \in Nat : w = Len(key)
  BY <1>2
<1>5. from(payload, 0, 16) = id
  <2>1. from(payload, 0, 16) = from(id, 0, 16)
    BY <1>2, <1>3 DEF joins
  <2> QED BY <1>2, <2>1, FromAll
<1>6. from(payload, 16, w) = key
  <2>1. from(payload, 16, w) = from(key, 0, w)
    BY <1>2, <1>3, <1>4 DEF joins
  <2> QED BY <1>2, <1>4, <2>1, FromAll
<1>7. Len(payload) - 16 = w
  BY <1>2, <1>3, <1>4 DEF joins
<1>8. parseAesKeyPayload(payload) = report
  BY <1>2, <1>5, <1>6, <1>7 DEF parseAesKeyPayload, UUID_SIZE
<1> QED BY <1>1, <1>8 DEF aesKeyPayload

\* What a call returns is a response of the server.
ResultInv ==
    \/ result = <<>>
    \/ \E r \in Responses : valid(r) /\ result = <<r>>

LEMMA ResultStep ==
    CallInv /\ FifoInv /\ ResultInv /\ [ResponseNext]_responseVars => ResultInv'
<1> SUFFICES ASSUME CallInv, FifoInv, ResultInv, [ResponseNext]_responseVars
             PROVE  ResultInv'
  OBVIOUS
<1>1. CASE PayloadReceived
  BY <1>1, PayloadKeeps DEF ResultInv
<1>2. CASE HeaderReceived
  BY <1>2, HeaderKeeps DEF ResultInv
<1>3. CASE ReceiveFails
  BY <1>3 DEF ReceiveFails, Return, ResultInv
<1>4. ASSUME NEW c \in DOMAIN acceptedCodes, ReceiveResponse(acceptedCodes[c]) PROVE ResultInv'
  BY <1>4 DEF ReceiveResponse, Return, ResultInv
<1>5. ASSUME NEW segment \in Segments, ReadSome(segment) PROVE ResultInv'
  BY <1>5 DEF ReadSome, ResultInv
<1>6. ASSUME NEW r \in Responses, Respond(r) PROVE ResultInv'
  BY <1>6 DEF Respond, callVars, ResultInv
<1>7. CASE LinkFails \/ UNCHANGED responseVars
  BY <1>7 DEF LinkFails, responseVars, callVars, ResultInv
<1> QED BY <1>1, <1>2, <1>3, <1>4, <1>5, <1>6, <1>7 DEF ResponseNext, ReceiveStep

LEMMA ResultImplies == ServerReports /\ ResultInv => PayloadsUnderstood
<1> SUFFICES ASSUME ServerReports, NEW r \in Responses, valid(r), result = <<r>>
             PROVE  PayloadsUnderstood
  BY DEF ResultInv, PayloadsUnderstood
<1>1. r.code = FileReceivedWithCrc => parseFileCrcPayload(r.payload) \in Reports
  BY CrcReportRead DEF ServerReports
<1>2. r.code \in {AesKeyReceived, ReconnectApproved} => parseAesKeyPayload(r.payload) \in Reports
  BY KeyReportRead DEF ServerReports
<1>3. \A k \in DOMAIN result : result[k] = r
  OBVIOUS
<1> QED BY <1>1, <1>2, <1>3, Zenon DEF PayloadsUnderstood

\* What the parsers make of the payload of a response that receiveResponse returns is
\* what the server reported, for every key and CRC report: the offsets, widths and byte
\* order of PacketParser are those of the protocol.
THEOREM ReportsAsMeant == ServerReports /\ Spec => []PayloadsUnderstood
<1> SUFFICES ASSUME ServerReports PROVE Spec => []PayloadsUnderstood
  OBVIOUS
<1>1. Init => AwaitingInv /\ CallInv /\ FifoInv /\ ResultInv
  BY CallInvInit, FifoInvInit DEF Init, ResponseInit, AwaitingInv, ResultInv
<1>2. AwaitingInv /\ CallInv /\ FifoInv /\ ResultInv /\ [Next]_vars
          => AwaitingInv' /\ CallInv' /\ FifoInv' /\ ResultInv'
  BY AwaitingInvNext, StreamStep, CallInvNext, FifoStep, ResultStep
<1>3. ResultInv => PayloadsUnderstood
  BY ResultImplies
<1> QED BY <1>1, <1>2, <1>3, PTL DEF Spec
=============================================================================
