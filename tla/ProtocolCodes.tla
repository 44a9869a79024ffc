--------------------------- MODULE ProtocolCodes ---------------------------
(***************************************************************************)
(* The codes and the field sizes of the wire protocol (Protocol.h).         *)
(***************************************************************************)
EXTENDS Naturals

(* enum class RequestCode *)
Registration    == 825
SendPublicKey   == 826
Reconnect       == 827
SendFile        == 828
CrcValid        == 900
CrcInvalidRetry == 901
CrcInvalidAbort == 902

RequestCode == {Registration, SendPublicKey, Reconnect, SendFile,
                CrcValid, CrcInvalidRetry, CrcInvalidAbort}

(* enum class ResponseCode *)
RegistrationSuccess == 1600
RegistrationFailed  == 1601
AesKeyReceived      == 1602
FileReceivedWithCrc == 1603
MessageConfirmed    == 1604
ReconnectApproved   == 1605
ReconnectRejected   == 1606
GeneralError        == 1607

ResponseCode == RegistrationSuccess .. GeneralError

CLIENT_VERSION == 3
SERVER_VERSION == 3

(* Field sizes, in bytes *)
UUID_SIZE                 == 16
FILE_NAME_FIELD_SIZE      == 255
FILE_METADATA_SIZE        == 2 * (4 + 2) + FILE_NAME_FIELD_SIZE
NAME_FIELD_SIZE           == 255
PUBLIC_KEY_SIZE           == 160
REQUEST_HEADER_SIZE       == 23
RESPONSE_HEADER_SIZE      == 7
ENCRYPTED_AES_KEY_SIZE    == 128
CRC_PAYLOAD_EXPECTED_SIZE == UUID_SIZE + 4 + FILE_NAME_FIELD_SIZE + 4
AES_KEY_PAYLOAD_SIZE      == UUID_SIZE + ENCRYPTED_AES_KEY_SIZE

\* PacketParser::expectedPayloadSize, for a code of ResponseCode.
expectedPayloadSize(code) ==
    IF code \in {RegistrationSuccess, MessageConfirmed, ReconnectRejected} THEN UUID_SIZE
    ELSE IF code \in {AesKeyReceived, ReconnectApproved} THEN AES_KEY_PAYLOAD_SIZE
    ELSE IF code = FileReceivedWithCrc THEN CRC_PAYLOAD_EXPECTED_SIZE
    ELSE 0
=============================================================================
