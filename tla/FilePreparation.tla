-------------------------- MODULE FilePreparation --------------------------
(***************************************************************************)
(* createEncryptedFile with the checksum it computes of its buffer: the     *)
(* steps of EncryptedFile, and those of memcrc while it runs.              *)
(***************************************************************************)
EXTENDS EncryptedFile, Cksum

\* A piece is a byte.
ASSUME FilePreparationAssumption == Pieces \subseteq 0..255

vars == <<fileVars, memcrcVars>>

Init == FileInit /\ MemcrcInit

\* memcrc(rawBuffer.data(), fileSize)
CallMemcrc == ReadDone /\ memcrc(rawBuffer)

\* result.crc
TakeChecksum == Checksummed /\ phase = "done" /\ UNCHANGED memcrcVars

FileStep ==
    \/ CheckAesKey \/ CheckExists \/ TakeSize \/ OpenFile \/ ReadPiece \/ Encrypt
    \/ Change \/ Returned

Next ==
    \/ CallMemcrc \/ TakeChecksum
    \/ FileStep /\ UNCHANGED memcrcVars
    \/ MemcrcStep /\ UNCHANGED fileVars

Spec == Init /\ [][Next]_vars
=============================================================================
