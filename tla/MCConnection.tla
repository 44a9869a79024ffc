---------------------------- MODULE MCConnection ----------------------------
(***************************************************************************)
(* Instances of Connection for TLC.                                        *)
(***************************************************************************)
EXTENDS Connection

\* Text whose bytes differ from one another and reach the largest value.
text(len) == [k \in 1..len |-> BYTE - 1 - (k % 40)]

Id == [k \in 1..UUID_SIZE |-> k]
OtherId == [k \in 1..UUID_SIZE |-> BYTE - k]
OneId == {Id}
Names == {text(100)}
Keys == {text(PUBLIC_KEY_SIZE)}

File(len, size, content) == [name |-> text(len), size |-> size, content |-> content]

\* Names that fill their field and that do not fit; sizes at the limits of 16 bits and
\* of what a header can announce.
MaxContent == UINT32 - 1 - FILE_METADATA_SIZE
FilesInRange == {File(255, MaxContent - 1, MaxContent), File(254, UINT16 - 1, UINT16)}

\* Payload bytes behind the ID tell every position from its neighbours.
reply(code, id, size) ==
    [version |-> SERVER_VERSION, code |-> code,
     payload |-> SubSeq(id \o [k \in 1..300 |-> 1 + (k % 7)], 1, size)]

\* Every byte of every number is another one.
CrcReport == [clientId |-> Id, contentSize |-> 4 + 5 * BYTE, fileName |-> text(20),
              cksum |-> 1 + 2 * BYTE + 3 * UINT16]
KeyReport == [clientId |-> Id, encryptedAesKey |-> text(ENCRYPTED_AES_KEY_SIZE)]
SomeReports == {CrcReport, KeyReport}

\* Right responses of every size, one for another client, one of an unknown code
\* and one that announces too much.
SomeResponses ==
    {[version |-> SERVER_VERSION, code |-> FileReceivedWithCrc,
      payload |-> crcPayload(CrcReport)],
     [version |-> SERVER_VERSION, code |-> ReconnectApproved,
      payload |-> aesKeyPayload(KeyReport)],
     reply(RegistrationSuccess, OtherId, 16), reply(RegistrationFailed, Id, 0),
     reply(MessageConfirmed, Id, 16), reply(MessageConfirmed, OtherId, 16),
     reply(1599, Id, 16), reply(AesKeyReceived, Id, 300)}
=============================================================================
