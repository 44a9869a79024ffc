------------------------------ MODULE Protocol ------------------------------
(***************************************************************************)
(* The wire protocol of the transfer client: the messages the PacketBuilder *)
(* and the PacketParser exchange with the network layer (Protocol.h,        *)
(* Protocol.cpp), field by field; Packets has their bytes.                  *)
(*                                                                         *)
(* Data is abstracted to what the properties tell apart.  A run of the     *)
(* program opens one connection, registers at most once and generates at   *)
(* most one RSA key pair, so one name, an element of Procs, stands for a    *)
(* run, for its connection, for the UUID assigned on that connection, for  *)
(* the RSA key pair generated by that run and for the AES session key of    *)
(* that connection.  A file's path stands for its content, its ciphertext   *)
(* and its CRC, which makes the CRC collision free.                        *)
(***************************************************************************)
EXTENDS ProtocolCodes

CONSTANTS
    Procs,      \* runs of the client program
    Names,      \* client names that transfer.json may hold
    Paths,      \* files that transfer.json may list
    FileNames,  \* the last components of those paths
    FileName    \* FileName[path] = fpath.filename().string()

Nil      == "nil"       \* std::nullopt, an empty vector, an all-zero UUID
Torn     == "torn"      \* text cut short by a failed or interrupted write
Absent   == "absent"    \* there is no such file
Empty    == "empty"     \* the file exists and has no content
ShortKey == "shortkey"  \* a decrypted AES key that is not 32 bytes long
Garbled  == "garbled"   \* content that is not the content of any listed file

Markers == {Nil, Torn, Absent, Empty, ShortKey, Garbled}

\* The names the model invents are none of the program's own values.
ASSUME NamesAssumption ==
    /\ Procs \cap Markers = {}
    /\ Names \cap Markers = {}
    /\ Paths \cap Markers = {}
    /\ FileNames \cap Markers = {}
    /\ FileName \in [Paths -> FileNames]

-----------------------------------------------------------------------------
\* encryptedContent.size() of every modelled file: one AES block.
CipherSize == 16

-----------------------------------------------------------------------------
(* Requests (PacketBuilder) *)

Request ==
    {m \in [code    : RequestCode,
            id      : Procs \cup {Nil},
            name    : Names \cup {Nil},            \* 825, 826, 827
            pub     : Procs \cup {Nil},            \* 826: the public key
            file    : FileNames \cup {Nil},        \* 828, 900, 901, 902
            content : Paths \cup {Nil},            \* 828: the ciphertext ...
            aes     : Procs \cup {Nil}] :          \* ... under this AES key
        /\ m.code \in {SendPublicKey, Reconnect} => m.id \in Procs
        /\ m.code \in {SendFile, CrcValid, CrcInvalidRetry, CrcInvalidAbort}
            => m.file \in FileNames}

\* The 23-byte header and the payload of the requests about a client ...
clientRequest(code, id, name, pub) ==
    [code |-> code, id |-> id, name |-> name, pub |-> pub,
     file |-> Nil, content |-> Nil, aes |-> Nil]

\* ... and about a file.
fileRequest(code, id, file, content, aes) ==
    [code |-> code, id |-> id, name |-> Nil, pub |-> Nil,
     file |-> file, content |-> content, aes |-> aes]

\* A registration carries no client ID: the header is value initialised.
buildRegistration(name) == clientRequest(Registration, Nil, name, Nil)
buildPublicKeyExchange(id, name, pub) == clientRequest(SendPublicKey, id, name, pub)
buildReconnect(id, name) == clientRequest(Reconnect, id, name, Nil)
buildSendFile(id, path, key) == fileRequest(SendFile, id, FileName[path], path, key)
buildCrcStatus(id, code, path) == fileRequest(code, id, FileName[path], Nil, Nil)

-----------------------------------------------------------------------------
(* Responses (PacketParser) *)

UnknownCode == 0

Response ==
    {m \in [code        : ResponseCode \cup {UnknownCode},
            payloadSize : Nat,                          \* as the header says
            id          : Procs \cup {Nil},
            aesFor      : Procs \cup {Nil},             \* 1602, 1605: the AES
            aes         : Procs \cup {Nil, ShortKey},   \* key under an RSA key
            contentSize : {0, CipherSize},              \* 1603
            cksum       : Paths \cup {Nil, Garbled}] :  \* 1603
        m.code = RegistrationSuccess => m.id \in Procs}

\* A response whose payload has the size the protocol defines.
response(code, id, aesFor, aes, contentSize, cksum) ==
    [code |-> code, payloadSize |-> expectedPayloadSize(code), id |-> id,
     aesFor |-> aesFor, aes |-> aes, contentSize |-> contentSize, cksum |-> cksum]

Reply(code, id) == response(code, id, Nil, Nil, 0, Nil)
AesReply(code, id, rsa, key) == response(code, id, rsa, key, 0, Nil)
CrcReply(id, size, content) == response(FileReceivedWithCrc, id, Nil, Nil, size, content)
=============================================================================
