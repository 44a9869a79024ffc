------------------------------ MODULE JobFile ------------------------------
(***************************************************************************)
(* loadTransferInfo (ConfigManager.cpp): what it takes from transfer.json,   *)
(* check by check.  The state holds the values that the library hands out of *)
(* the parsed text, and get<int> cuts an integer to the width of an int.      *)
(* Other types than the expected one are all alike.                         *)
(***************************************************************************)
EXTENDS Integers, Sequences, FiniteSets

CONSTANTS
    Ips,        \* strings that the file may hold for the address
    INT,        \* values of an int: 2^32, or less to stay within TLC's integers
    Ports,      \* integers that the file may hold for the port
    NameSizes,  \* lengths that the client name may have
    Entries,    \* paths that may be listed as files
    Other,      \* a value of another type than the expected one
    Missing,    \* a key that is not there, or no text that can be parsed
    MAX_FILES   \* bound on the entries of the list

EmptyEntry == ""

ASSUME JobFileAssumption ==
    /\ INT \in Nat /\ INT % 2 = 0 /\ INT > 2 * 65535
    /\ Ports \subseteq Int /\ NameSizes \subseteq Nat /\ MAX_FILES \in Nat
    /\ Other \notin Int \cup Entries \cup {EmptyEntry, "array"}
    /\ Missing \notin Int \cup {"array"}
    /\ EmptyEntry \notin Entries

VARIABLES
    json,          \* configData: the root of the file
    stage,         \* the check that comes next; "true" or "false" in the end
    rawPort,       \* local of loadTransferInfo
    items,         \* how far the loop over the list has come
    fileList,      \* local of loadTransferInfo
    transferInfo   \* the member

vars == <<json, stage, rawPort, items, fileList, transferInfo>>

FileLists == UNION {[1..n -> Entries \cup {EmptyEntry, Other}] : n \in 0..MAX_FILES}

\* TransferInfo() = default
NoInfo == [ip |-> "", port |-> 0, clientName |-> 0, files |-> <<>>]

\* Objects that "server" may name, and roots of the file.
Sections ==
    [ip     : Ips \cup {Other, Missing},
     port   : Ports \cup {Other, Missing},
     client : NameSizes \cup {Other, Missing}]
Json ==
    {Other, Missing} \cup
    [server : Sections \cup {Other, Missing},
     files  : {<<"array", list>> : list \in FileLists} \cup {<<Other>>, <<Missing>>}]

Init ==
    /\ json \in Json
    /\ stage = "parse"
    /\ rawPort = 0 /\ items = 0 /\ fileList = <<>>
    /\ transferInfo = NoInfo

-----------------------------------------------------------------------------
\* The next check, or false.
proceed(check, next) ==
    stage' = IF check THEN next ELSE "false"

\* The key is there, and its value has the type that is asked for: contains, and
\* is_object, is_string or is_number_integer.
given(value) == value \notin {Other, Missing}

\* The file exists, can be opened and holds JSON.
ParseFile ==
    /\ stage = "parse"
    /\ proceed(json # Missing, "server")
    /\ UNCHANGED <<json, rawPort, items, fileList, transferInfo>>

\* The root is an object with the object "server".
CheckServer ==
    /\ stage = "server"
    /\ proceed(given(json) /\ given(json.server), "schema")
    /\ UNCHANGED <<json, rawPort, items, fileList, transferInfo>>

section == json.server

CheckSchema ==
    /\ stage = "schema"
    /\ proceed(given(section.ip) /\ given(section.port) /\ given(section.client), "port")
    /\ UNCHANGED <<json, rawPort, items, fileList, transferInfo>>

\* get<int>: the value modulo the width of an int
getInt(value) == ((value + INT \div 2) % INT) - INT \div 2

\* Mutation of portInRange: the lower bound is forgotten.
portSmall(port) == port <= 65535

portInRange(port) == 0 < port /\ port <= 65535

CheckPort ==
    /\ stage = "port"
    /\ rawPort' = getInt(section.port)
    /\ proceed(portInRange(rawPort'), "files")
    /\ UNCHANGED <<json, items, fileList, transferInfo>>

\* Mutation of isFile: an empty string is taken for a path.
isString(item) == item # Other

isFile(item) == item # Other /\ item # EmptyEntry

\* Without an array of that name there is nothing to loop over.
list == IF given(json) /\ json.files[1] = "array" THEN json.files[2] ELSE <<>>

ReadFile ==
    /\ stage = "files" /\ items < Len(list)
    /\ items' = items + 1
    /\ fileList' = IF isFile(list[items + 1]) THEN Append(fileList, list[items + 1])
                                             ELSE fileList
    /\ UNCHANGED <<json, stage, rawPort, transferInfo>>

FilesRead ==
    /\ stage = "files" /\ items = Len(list)
    /\ stage' = "name"
    /\ UNCHANGED <<json, rawPort, items, fileList, transferInfo>>

NameLengths == 1..100

\* static_cast<uint16_t>
uint16(value) == value % 65536

SetInfo ==
    /\ stage = "name"
    /\ proceed(section.client \in NameLengths, "true")
    /\ transferInfo' = IF section.client \in NameLengths
                       THEN [ip |-> section.ip, port |-> uint16(rawPort),
                             clientName |-> section.client, files |-> fileList]
                       ELSE transferInfo
    /\ UNCHANGED <<json, rawPort, items, fileList>>

Returned == stage \in {"true", "false"} /\ UNCHANGED vars

Next ==
    \/ ParseFile \/ CheckServer \/ CheckSchema \/ CheckPort
    \/ ReadFile \/ FilesRead \/ SetInfo \/ Returned

Spec == Init /\ [][Next]_vars

-----------------------------------------------------------------------------
(* Properties *)

PortNumbers == 1..65535

fitsInt(port) == -(INT \div 2) <= port /\ port < INT \div 2

\* Every key that is needed is there and has its type ...
wellTyped ==
    /\ given(json) /\ given(section)
    /\ given(section.ip) /\ given(section.port) /\ given(section.client)

\* ... and a value in its range.
wellFormed ==
    wellTyped /\ section.port \in PortNumbers /\ section.client \in NameLengths

\* For a port that fits an int the verdict is the right one, whatever keys are missing
\* or of another type and at the limits of both ranges, and the run gets the address,
\* the port and the name of the file.
VerdictExact ==
    (wellTyped => fitsInt(section.port)) =>
        /\ stage = "true" => /\ wellFormed
                             /\ transferInfo.ip = section.ip
                             /\ transferInfo.port = section.port
                             /\ transferInfo.clientName = section.client
        /\ stage = "false" => ~wellFormed

\* The paths of the list are sent, all of them and in its order; an empty one, which
\* names no file, and what is no string are not.
PathsListed ==
    stage = "true" =>
        LET kept == {k \in DOMAIN list : list[k] \in Entries}
        IN  /\ Len(transferInfo.files) = Cardinality(kept)
            /\ \A k \in kept :
                   transferInfo.files[Cardinality({m \in kept : m <= k})] = list[k]

\* [violated] The port of a file that is accepted is one: "Port boundary validation (1
\* to 65535)" (ConfigManager.cpp).
PortValidated == stage = "true" => section.port \in PortNumbers
=============================================================================
