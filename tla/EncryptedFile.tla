--------------------------- MODULE EncryptedFile ---------------------------
(***************************************************************************)
(* One call of createEncryptedFile (EncryptedFile.cpp), from the check of  *)
(* the AES key that precedes the loop over the files to the ciphertext,     *)
(* while another program may change the file at any time.                  *)
(*                                                                         *)
(* A file is a sequence of bytes, or of larger pieces that are read at     *)
(* once.  The ciphertext of a content is written as the pair of the content *)
(* and the number of padding pieces behind it.                             *)
(***************************************************************************)
EXTENDS Naturals, SequencesExt

CONSTANTS
    Contents,     \* what the file may hold at first: sequences of pieces
    Rewritten(_), \* what another program may make of a content: more of the same
    Absent,       \* there is no file
    Zero,         \* a piece of zeros
    BLOCK,        \* pieces in an AES block
    MAX_CHANGES   \* bound: how often the file changes

Pieces == {Zero} \cup UNION {{c[k] : k \in DOMAIN c} : c \in Contents}

ASSUME EncryptedFileAssumption ==
    /\ Contents \subseteq Seq(Pieces)
    /\ \A c \in Contents \cup {Absent} : Rewritten(c) \subseteq Contents
    /\ Absent \notin Contents
    /\ BLOCK \in Nat \ {0}
    /\ MAX_CHANGES \in Nat

\* The values of decryptedAesKey.size() that matter: none, too short, right.
KeySizes == {0, 16, 32}

None == [content |-> <<>>, padding |-> 0]

VARIABLES
    file,        \* the content of the file, or Absent
    stage,       \* where the call stands
    aesKeySize,  \* decryptedAesKey.size()
    fileSize,    \* local of createEncryptedFile
    rawBuffer,   \* local of createEncryptedFile
    pos,         \* pieces read so far
    encrypted,   \* result.encryptedContent
    seen,        \* observation: every content the file has had
    sizedAs,     \* observation: the one it had when its size was taken
    kept,        \* observation: until it was read, it has begun with that one
    changes      \* changes so far

fileVars == <<file, stage, aesKeySize, fileSize, rawBuffer, pos, encrypted, seen,
              sizedAs, kept, changes>>
locals == <<fileSize, rawBuffer, pos, encrypted>>

FileInit ==
    /\ file \in Contents \cup {Absent}
    /\ stage = "checkKey"
    /\ aesKeySize \in KeySizes
    /\ fileSize = 0 /\ rawBuffer = <<>> /\ pos = 0 /\ encrypted = None
    /\ seen = {file} /\ sizedAs = <<>> /\ kept = TRUE
    /\ changes = 0

-----------------------------------------------------------------------------
Goto(point) == stage' = point
Same == UNCHANGED <<file, aesKeySize, seen, sizedAs, kept, changes>>

\* run: decryptedAesKey.size() != 32
CheckAesKey ==
    /\ stage = "checkKey"
    /\ Goto(IF aesKeySize = 32 THEN "exists" ELSE "failed")
    /\ Same /\ UNCHANGED locals

\* exists, in sendSingleFile and again here
CheckExists ==
    /\ stage = "exists"
    /\ Goto(IF file # Absent THEN "size" ELSE "failed")
    /\ Same /\ UNCHANGED locals

\* file_size, which throws when the file has gone; a buffer of zeros
TakeSize ==
    /\ stage = "size"
    /\ IF file = Absent
       THEN Goto("failed") /\ UNCHANGED <<fileSize, rawBuffer, sizedAs>>
       ELSE /\ Goto("open")
            /\ fileSize' = Len(file)
            /\ rawBuffer' = [k \in 1..Len(file) |-> Zero]
            /\ sizedAs' = file
    /\ UNCHANGED <<file, aesKeySize, seen, kept, changes, pos, encrypted>>

\* Another program may keep the file from being opened.
OpenFile ==
    /\ stage = "open"
    /\ Goto("failed") \/ (file # Absent /\ Goto("read"))
    /\ Same /\ UNCHANGED locals

\* Mutation of wanted: the last piece is forgotten.
wantedButLast == IF fileSize = 0 THEN 0 ELSE fileSize - 1

\* How much fileStream.read is asked for.
wanted == fileSize

\* Mutation of ReadPiece: everything the file has now is read.
ReadPieceUnbounded ==
    /\ stage = "read" /\ pos < Len(file)
    /\ rawBuffer' = [rawBuffer EXCEPT ![pos + 1] = file[pos + 1]]
    /\ pos' = pos + 1
    /\ Same /\ UNCHANGED <<stage, fileSize, encrypted>>

ReadPiece ==
    /\ stage = "read" /\ pos < wanted /\ pos < Len(file)
    /\ rawBuffer' = [rawBuffer EXCEPT ![pos + 1] = file[pos + 1]]
    /\ pos' = pos + 1
    /\ Same /\ UNCHANGED <<stage, fileSize, encrypted>>

\* fileStream.read comes back: it has all it wanted, or met the end of the
\* file, which nobody looks at.
ReadDone ==
    /\ stage = "read" /\ (pos = wanted \/ pos >= Len(file))
    /\ Goto("memcrc")
    /\ Same /\ UNCHANGED locals

\* memcrc returns.
Checksummed ==
    /\ stage = "memcrc"
    /\ Goto("encrypt")
    /\ Same /\ UNCHANGED locals

\* What encryptAesCbc may return: nothing without a key of 32 bytes; with one, the
\* ciphertext, a full block of padding included if the content ends with a block, or
\* nothing if Crypto++ throws.
encryptAesCbc(keySize, content) ==
    {None} \cup
    (IF keySize = 32
     THEN {[content |-> content, padding |-> BLOCK - (Len(content) % BLOCK)]}
     ELSE {})

\* Mutation of Encrypt: a ciphertext is not looked at.
EncryptUnchecked ==
    /\ stage = "encrypt"
    /\ encrypted' \in encryptAesCbc(aesKeySize, rawBuffer)
    /\ Goto("prepared")
    /\ Same /\ UNCHANGED <<fileSize, rawBuffer, pos>>

\* An empty ciphertext is a failure, but not for an empty file.
Encrypt ==
    /\ stage = "encrypt"
    /\ \E c \in encryptAesCbc(aesKeySize, rawBuffer) :
          IF c = None /\ fileSize > 0
          THEN Goto("failed") /\ UNCHANGED encrypted
          ELSE Goto("prepared") /\ encrypted' = c
    /\ Same /\ UNCHANGED <<fileSize, rawBuffer, pos>>

\* Another program writes, replaces or removes the file; Windows does not
\* remove one that is open.
Change ==
    /\ changes < MAX_CHANGES
    /\ file' \in (Rewritten(file) \cup (IF stage \in {"read", "memcrc", "encrypt"} THEN {} ELSE {Absent})) \ {file}
    /\ seen' = seen \cup {file'}
    /\ kept' = (/\ kept
                /\ stage \in {"open", "read"} => file' # Absent /\ IsPrefix(sizedAs, file'))
    /\ changes' = changes + 1
    /\ UNCHANGED <<stage, aesKeySize, sizedAs, locals>>

Returned == stage \in {"prepared", "failed"} /\ UNCHANGED fileVars

FileNext ==
    \/ CheckAesKey \/ CheckExists \/ TakeSize \/ OpenFile
    \/ ReadPiece \/ ReadDone \/ Checksummed \/ Encrypt \/ Change \/ Returned

FileSpec == FileInit /\ [][FileNext]_fileVars

-----------------------------------------------------------------------------
(* Properties *)

\* Every local variable has a value of its type; what is read fits the buffer.
TypeOK ==
    /\ stage \in {"checkKey", "exists", "size", "open", "read", "memcrc", "encrypt",
                  "prepared", "failed"}
    /\ pos <= fileSize /\ Len(rawBuffer) = fileSize /\ fileSize \in Nat

\* What is encrypted is what the file had when its size was taken, whatever happened to
\* it before and although more may be written behind it before it is read: as long as
\* that much of it stays, neither a piece less nor one more gets into the ciphertext.
StableFileExact == stage = "prepared" /\ kept => encrypted.content = sizedAs

\* A ciphertext is whole blocks of a content as long as the file was, and at least one
\* piece longer, so that an empty file is sent as one block.  A file is sent without
\* one only if it is empty and its encryption fails with a key of the right size.
WholeBlocks ==
    stage = "prepared" =>
        /\ aesKeySize = 32
        /\ \/ /\ Len(encrypted.content) = fileSize
              /\ encrypted.padding \in 1..BLOCK
              /\ (fileSize + encrypted.padding) % BLOCK = 0
           \/ fileSize = 0 /\ encrypted = None

\* [violated] What is encrypted is a content that the file has had:
\* EncryptedFile.cpp, "Read full file content".
FullContentRead == stage = "prepared" => encrypted.content \in seen
=============================================================================
