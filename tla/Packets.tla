------------------------------ MODULE Packets ------------------------------
(***************************************************************************)
(* The bytes of the wire protocol (Protocol.cpp): what the PacketBuilder    *)
(* writes and how the PacketParser reads.                                  *)
(*                                                                         *)
(* A packet is its bytes up to the content of the file and the number of    *)
(* bytes of that content, which comes last.                                *)
(***************************************************************************)
EXTENDS ProtocolCodes, Sequences

CONSTANT BYTE   \* values of a byte: 256, or less to stay within TLC's integers

\* Every code fits in two bytes.
ASSUME ByteAssumption == BYTE \in Nat /\ BYTE > 41

Byte == 0..(BYTE - 1)
UINT16 == BYTE * BYTE
UINT32 == UINT16 * UINT16

-----------------------------------------------------------------------------
(* Integers, little endian *)

appendUint16LE(value) == <<value % BYTE, (value \div BYTE) % BYTE>>

appendUint32LE(value) ==
    appendUint16LE(value % UINT16) \o appendUint16LE(value \div UINT16)

readUint16LE(bytes) == bytes[1] + BYTE * bytes[2]

readUint32LE(bytes) ==
    readUint16LE(bytes) + UINT16 * readUint16LE(<<bytes[3], bytes[4]>>)

-----------------------------------------------------------------------------
(* Strings in fields of fixed size *)

\* Mutation of appendFixedString: the last byte is not kept free.
appendFullString(str, fieldSize) ==
    [k \in 1..fieldSize |-> IF k <= Len(str) THEN str[k] ELSE 0]

\* Mutation of appendFixedString: the field is as long as the string.
appendUnpadded(str, fieldSize) == str

\* std::min(str.length(), fieldSize - 1) bytes of the string, then zeros
appendFixedString(str, fieldSize) ==
    [k \in 1..fieldSize |-> IF k <= Len(str) /\ k < fieldSize THEN str[k] ELSE 0]

\* strnlen and assign: the string that ends before the first zero.
readString(bytes) ==
    LET full(n) == \A k \in 1..n : bytes[k] # 0
    IN  SubSeq(bytes, 1, CHOOSE n \in 0..Len(bytes) :
                            full(n) /\ (n < Len(bytes) => bytes[n + 1] = 0))

-----------------------------------------------------------------------------
(* PacketBuilder *)

NoId == [k \in 1..UUID_SIZE |-> 0]

appendRequestHeader(clientId, code, payloadSize) ==
    clientId \o <<CLIENT_VERSION>> \o appendUint16LE(code)
             \o appendUint32LE(payloadSize % UINT32)

packet(head, contentLength) == [head |-> head, content |-> contentLength]

buildRegistration(name) ==
    packet(appendRequestHeader(NoId, Registration, NAME_FIELD_SIZE)
             \o appendFixedString(name, NAME_FIELD_SIZE), 0)

buildPublicKeyExchange(clientId, name, publicKey) ==
    packet(appendRequestHeader(clientId, SendPublicKey, NAME_FIELD_SIZE + PUBLIC_KEY_SIZE)
             \o appendFixedString(name, NAME_FIELD_SIZE)
             \o [k \in 1..PUBLIC_KEY_SIZE |->
                     IF k <= Len(publicKey) THEN publicKey[k] ELSE 0], 0)

\* contentSize is cut to 32 bits, and so is the sum.
buildSendFile(clientId, origFileSize, packetNum, totalPackets, fileName, contentLength) ==
    LET contentSize == contentLength % UINT32
    IN  packet(appendRequestHeader(clientId, SendFile, FILE_METADATA_SIZE + contentSize)
                 \o appendUint32LE(contentSize) \o appendUint32LE(origFileSize)
                 \o appendUint16LE(packetNum) \o appendUint16LE(totalPackets)
                 \o appendFixedString(fileName, FILE_NAME_FIELD_SIZE), contentLength)

buildCrcStatus(clientId, code, fileName) ==
    packet(appendRequestHeader(clientId, code, FILE_NAME_FIELD_SIZE)
             \o appendFixedString(fileName, FILE_NAME_FIELD_SIZE), 0)

buildReconnect(clientId, name) ==
    packet(appendRequestHeader(clientId, Reconnect, NAME_FIELD_SIZE)
             \o appendFixedString(name, NAME_FIELD_SIZE), 0)

-----------------------------------------------------------------------------
(* PacketParser; the sizes of its buffers are checked before it is called *)

from(bytes, offset, size) == SubSeq(bytes, offset + 1, offset + size)

parseHeader(bytes) ==
    [version     |-> bytes[1],
     code        |-> readUint16LE(from(bytes, 1, 2)),
     payloadSize |-> readUint32LE(from(bytes, 3, 4))]

parseClientIdPayload(bytes) == from(bytes, 0, UUID_SIZE)

\* The ID and everything behind it.
parseAesKeyPayload(bytes) ==
    [clientId |-> from(bytes, 0, UUID_SIZE),
     encryptedAesKey |-> from(bytes, UUID_SIZE, Len(bytes) - UUID_SIZE)]

\* Mutation of parseFileCrcPayload: the name is not skipped.
parseFileCrcPayloadUnskipped(bytes) ==
    [clientId    |-> from(bytes, 0, UUID_SIZE),
     contentSize |-> readUint32LE(from(bytes, UUID_SIZE, 4)),
     fileName    |-> readString(from(bytes, UUID_SIZE + 4, FILE_NAME_FIELD_SIZE)),
     cksum       |-> readUint32LE(from(bytes, UUID_SIZE + 4, 4))]

parseFileCrcPayload(bytes) ==
    [clientId    |-> from(bytes, 0, UUID_SIZE),
     contentSize |-> readUint32LE(from(bytes, UUID_SIZE, 4)),
     fileName    |-> readString(from(bytes, UUID_SIZE + 4, FILE_NAME_FIELD_SIZE)),
     cksum       |-> readUint32LE(from(bytes, UUID_SIZE + 4 + FILE_NAME_FIELD_SIZE, 4))]
=============================================================================
