------------------------- MODULE MCFilePreparation -------------------------
(***************************************************************************)
(* Instances of FilePreparation for TLC.                                   *)
(***************************************************************************)
EXTENDS FilePreparation

filled(len, byte) == [k \in 1..len |-> byte]

\* Two versions of a file, of up to three bytes.
Versions == {<<>>} \cup {[k \in 1..len |-> 100 * version + k] : len \in 1..3, version \in 1..2}

\* Every buffer of at most one byte (and with it every entry of the table), every
\* buffer of at most three bytes at the boundaries, and buffers about one block and
\* about the size whose length takes two bytes.
AllBuffers ==
    Versions
    \cup BoundedSeq(0..255, 1)
    \cup BoundedSeq({0, 1, 127, 128, 255}, 3)
    \cup {filled(len, byte) : len \in {15, 16, 255, 256, 257}, byte \in {0, 255}}

NewVersion(content) == IF content \in Versions \cup {Absent} THEN Versions ELSE {}
=============================================================================
