----------------------------- MODULE MCJobFile -----------------------------
(***************************************************************************)
(* Instances of JobFile for TLC: an int has 18 bits.                       *)
(***************************************************************************)
EXTENDS JobFile

Int18 == 262144

\* Any string will do for an address.
Addresses == {"", "127.0.0.1"}

\* The limits of the range, of 16 bits and of an int, on both sides.
PortsOfAnInt == {-(Int18 \div 2), -65535, -1, 0, 1, 80, 65534, 65535, 65536, (Int18 \div 2) - 1}
PortsBeyond == {Int18 - 1, Int18, Int18 + 1, Int18 + 65535, 80 - Int18}
Sizes == {0, 1, 50, 100, 101, 300}
=============================================================================
