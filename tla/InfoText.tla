------------------------------ MODULE InfoText ------------------------------
(***************************************************************************)
(* me.info and priv.key as text (ConfigManager.cpp): saveClientInfo writes  *)
(* them character by character, a crash or a full disk may end it anywhere, *)
(* and loadClientInfo reads lines.  ConfigManager has the same files as     *)
(* records; this module shows that the text gives no other ones.            *)
(***************************************************************************)
EXTENDS HexCodec

CONSTANTS
    Procs,      \* identities, each of a run of the client
    Names,      \* client names
    Chars,      \* the characters that a file may hold
    NameText,   \* NameText[n]: a name in characters
    Uuid,       \* Uuid[p]: the UUID of an identity
    KeyText,    \* KeyText[p]: its private key in Base64, on one line
    NoFile,     \* the file does not exist
    MAX_SAVES   \* bound: calls of saveClientInfo

NewLine == "\n"

free(text, c) == \A k \in DOMAIN text : text[k] # c

distinct(texts, all) == \A x, y \in all : texts[x] = texts[y] => x = y

\* A private key is a DER sequence, which begins with its own length: none is the
\* beginning of another.
ASSUME InfoTextAssumption ==
    /\ {NewLine} \cup {Digits[k] : k \in 1..16} \subseteq Chars
    /\ Uuid \in [Procs -> UuidBytes] /\ distinct(Uuid, Procs)
    /\ NameText \in [Names -> Seq(Chars) \ {<<>>}] /\ distinct(NameText, Names)
    /\ KeyText \in [Procs -> Seq(Chars) \ {<<>>}]
    /\ \A p \in Procs : free(KeyText[p], NewLine)
    /\ \A p, q \in Procs : \A n \in 0..Len(KeyText[q]) :
           KeyText[p] = SubSeq(KeyText[q], 1, n) => p = q
    /\ NoFile \notin Seq(Chars)
    /\ MAX_SAVES \in Nat

VARIABLES
    meText, keyText,  \* the files: texts, or NoFile
    stage,            \* "idle" | "me.info" | "priv.key": where saveClientInfo stands
    name, id,         \* what it saves
    done,             \* characters written of the current file
    saved,            \* observation: me.info holds all of the last save
    saves             \* calls so far

vars == <<meText, keyText, stage, name, id, done, saved, saves>>

Init ==
    /\ meText = NoFile /\ keyText = NoFile
    /\ stage = "idle" /\ name \in Names /\ id \in Procs
    /\ done = 0 /\ saves = 0
    /\ saved = FALSE

-----------------------------------------------------------------------------
(* loadClientInfo and loadPrivateKey *)

\* std::getline from position start takes the characters before the next newline ...
lineEnd(text, start) ==
    LET ends == {k \in start..Len(text) : text[k] = NewLine}
    IN  IF ends = {} THEN Len(text) + 1 ELSE CHOOSE e \in ends : \A k \in ends : e <= k

line(text, start) == SubSeq(text, start, lineEnd(text, start) - 1)

\* ... and fails if nothing is left.
next(text, start) == lineEnd(text, start) + 1
uuidAt(text) == next(text, 1)
keyAt(text) == next(text, uuidAt(text))

\* Three lines, the second one a UUID.
loads(text) ==
    /\ text # <<>> /\ uuidAt(text) <= Len(text) /\ keyAt(text) <= Len(text)
    /\ LET uuid == line(text, uuidAt(text)) IN isUuid(uuid)

loadClientInfo(text) ==
    [name |-> line(text, 1), uuid |-> toBytes(line(text, uuidAt(text))),
     key  |-> line(text, keyAt(text))]

-----------------------------------------------------------------------------
(* saveClientInfo *)

\* me.info to its end.  (It is opened in text mode; neither the line ends of Windows nor a
\* name with a 0x1A, which would end the text there, are modelled.)
contents(n, p) == NameText[n] \o <<NewLine>> \o toHex(Uuid[p]) \o <<NewLine>>
                    \o KeyText[p] \o <<NewLine>>

\* The text with its character at `at` written over, or one more behind its end.
overwritten(text, at, c) ==
    SubSeq(text, 1, at - 1) \o <<c>> \o SubSeq(text, at + 1, Len(text))

\* Mutation of OpenMeInfo: the old text stays until it is written over.
OpenMeInfoInPlace ==
    /\ stage = "idle" /\ saves < MAX_SAVES
    /\ name' \in Names /\ id' \in Procs
    /\ meText' = (IF meText = NoFile THEN <<>> ELSE meText)
    /\ stage' = "me.info" /\ done' = 0 /\ saved' = FALSE /\ saves' = saves + 1
    /\ UNCHANGED keyText

\* std::ofstream meFile(meInfoPath, trunc)
OpenMeInfo ==
    /\ stage = "idle" /\ saves < MAX_SAVES
    /\ name' \in Names /\ id' \in Procs
    /\ meText' = <<>>
    /\ stage' = "me.info" /\ done' = 0 /\ saved' = FALSE /\ saves' = saves + 1
    /\ UNCHANGED keyText

WriteMeInfo ==
    /\ stage = "me.info" /\ done < Len(contents(name, id))
    /\ meText' = overwritten(meText, done + 1, contents(name, id)[done + 1])
    /\ done' = done + 1
    /\ UNCHANGED <<keyText, stage, name, id, saved, saves>>

\* meFile.close(), whose failure nobody looks at: not all may have been written.
\* Then std::ofstream keyFile(privKeyPath, trunc).
OpenPrivKey ==
    /\ stage = "me.info"
    /\ keyText' = <<>>
    /\ stage' = "priv.key" /\ done' = 0
    /\ saved' = (done = Len(contents(name, id)))
    /\ UNCHANGED <<meText, name, id, saves>>

WritePrivKey ==
    /\ stage = "priv.key" /\ done < Len(KeyText[id])
    /\ keyText' = overwritten(keyText, done + 1, KeyText[id][done + 1])
    /\ done' = done + 1
    /\ UNCHANGED <<meText, stage, name, id, saved, saves>>

\* keyFile.close(), an early return, or the death of the process.
SaveEnds ==
    /\ stage # "idle" /\ stage' = "idle"
    /\ UNCHANGED <<meText, keyText, name, id, done, saved, saves>>

\* removeClientInfo, of which each half may fail.
RemoveMeInfo ==
    /\ stage = "idle" /\ meText # NoFile /\ meText' = NoFile /\ saved' = FALSE
    /\ UNCHANGED <<keyText, stage, name, id, done, saves>>

RemovePrivKey ==
    /\ stage = "idle" /\ keyText # NoFile /\ keyText' = NoFile
    /\ UNCHANGED <<meText, stage, name, id, done, saved, saves>>

\* All saves have been made.
Rest == stage = "idle" /\ saves = MAX_SAVES /\ UNCHANGED vars

Next ==
    \/ OpenMeInfo \/ WriteMeInfo \/ OpenPrivKey \/ WritePrivKey \/ SaveEnds
    \/ RemoveMeInfo \/ RemovePrivKey \/ Rest

Spec == Init /\ [][Next]_vars

-----------------------------------------------------------------------------
(* Properties *)

\* Every whole me.info is loaded as what was saved, down to the bytes of the UUID, as
\* long as the name has no newline, of which loadTransferInfo says nothing.
WholeLoads ==
    saved /\ free(NameText[name], NewLine) =>
        /\ loads(meText)
        /\ loadClientInfo(meText) =
               [name |-> NameText[name], uuid |-> Uuid[id], key |-> KeyText[id]]

-----------------------------------------------------------------------------
(* The files as the records of ConfigManager *)

\* The identity with this text, a torn one, or something that nobody has saved.
identity(text, texts, all) ==
    IF \E x \in all : texts[x] = text THEN CHOOSE x \in all : texts[x] = text
    ELSE IF \E x \in all : \E n \in 0..Len(texts[x]) : text = SubSeq(texts[x], 1, n)
         THEN "torn" ELSE "misread"

infoRecord ==
    IF meText = NoFile THEN [name |-> "absent", uuid |-> "absent", key |-> "absent"]
    ELSE IF ~loads(meText) THEN [name |-> "torn", uuid |-> "torn", key |-> "torn"]
    ELSE LET info == loadClientInfo(meText)
         IN  [name |-> identity(info.name, NameText, Names),
              uuid |-> identity(info.uuid, Uuid, Procs),
              key  |-> identity(info.key, KeyText, Procs)]

keyRecord ==
    CASE keyText = NoFile -> "absent"
      [] keyText = <<>>   -> "empty"
      [] OTHER            -> identity(keyText, KeyText, Procs)

Disk == INSTANCE ConfigManager WITH
    meInfo <- infoRecord, privKey <- keyRecord,
    Paths <- {}, FileNames <- {}, FileName <- <<>>

\* A step on the files is one of ConfigManager's, with what is being saved, or none.
DiskStep ==
    \/ Disk!openMeInfo  \/ Disk!writeMeInfo(name, id, id) \/ Disk!tearMeInfo(name, id)
    \/ Disk!openPrivKey \/ Disk!writePrivKey(id)          \/ Disk!tearPrivKey
    \/ Disk!removeMeInfo \/ Disk!removePrivKey

\* The text of the files is never read as anything but the records of ConfigManager:
\* wherever a write ends, me.info is refused or yields the name and the UUID of the
\* save, with its key or a part of it.
IsConfigManager == Disk!DiskInit /\ [][DiskStep]_(Disk!diskVars)
=============================================================================
