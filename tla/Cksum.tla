------------------------------- MODULE Cksum -------------------------------
(***************************************************************************)
(* memcrc (EncryptedFile.cpp), the checksum that decides whether a transfer *)
(* is confirmed, step by step: the loop over the content, the loop over the *)
(* bytes of its length, the complement.  It is meant to be the POSIX cksum, *)
(* which is stated here as a division of polynomials over GF(2).            *)
(*                                                                         *)
(* An unsigned long is the set of the positions of its bits that are set.   *)
(***************************************************************************)
EXTENDS Naturals, SequencesExt

CONSTANT LongBits  \* the widths that unsigned long may have: 32 on Windows, elsewhere 64

ASSUME CksumAssumption == LongBits \subseteq {32, 64}

VARIABLES
    longBits, \* its width in this build
    b,        \* the buffer
    i,        \* position of the first loop
    n,        \* its length, shifted out by the second loop
    s,        \* the register; in the end, the result
    phase,    \* "idle" | "content" | "length" | "done"
    rest      \* observation: the remainder of the content, and of all bytes, up to here

memcrcVars == <<longBits, b, i, n, s, phase, rest>>

-----------------------------------------------------------------------------
(* Words *)

Weight == <<1, 2, 4, 8, 16, 32, 64, 128, 256, 512, 1024, 2048, 4096, 8192, 16384, 32768>>

\* The bits of a number below 2^16, and the number that has the given ones of the first 8.
bits(v) == {e \in 0..15 : (v \div Weight[e + 1]) % 2 = 1}

number(w) ==
    LET value(e) == IF e \in w THEN Weight[e + 1] ELSE 0
    IN  value(0) + value(1) + value(2) + value(3) + value(4) + value(5) + value(6) + value(7)

xored(v, w) == {e \in v \cup w : ~(e \in v /\ e \in w)}

\* w << 8
shiftedLeft(w) == {e \in 8..(longBits - 1) : e - 8 \in w}

\* w & 0xFFFFFFFF
UNSIGNED(w) == w \cap 0..31

\* ~w
Inverted(w) == 0..(longBits - 1) \ w

\* w >> 24, which is a byte as long as the bits above it are not set.
topByte(w)  == {e \in 0..7 : 24 + e \in w}
fitsByte(w) == w \subseteq 0..31

-----------------------------------------------------------------------------
(* crctab[0], as upper and lower halves *)

crctabUpper ==
    <<\h0000, \h04c1, \h0982, \h0d43, \h1304, \h17c5, \h1a86, \h1e47, \h2608, \h22c9, \h2f8a, \h2b4b,
      \h350c, \h31cd, \h3c8e, \h384f, \h4c11, \h48d0, \h4593, \h4152, \h5f15, \h5bd4, \h5697, \h5256,
      \h6a19, \h6ed8, \h639b, \h675a, \h791d, \h7ddc, \h709f, \h745e, \h9823, \h9ce2, \h91a1, \h9560,
      \h8b27, \h8fe6, \h82a5, \h8664, \hbe2b, \hbaea, \hb7a9, \hb368, \had2f, \ha9ee, \ha4ad, \ha06c,
      \hd432, \hd0f3, \hddb0, \hd971, \hc736, \hc3f7, \hceb4, \hca75, \hf23a, \hf6fb, \hfbb8, \hff79,
      \he13e, \he5ff, \he8bc, \hec7d, \h3486, \h3047, \h3d04, \h39c5, \h2782, \h2343, \h2e00, \h2ac1,
      \h128e, \h164f, \h1b0c, \h1fcd, \h018a, \h054b, \h0808, \h0cc9, \h7897, \h7c56, \h7115, \h75d4,
      \h6b93, \h6f52, \h6211, \h66d0, \h5e9f, \h5a5e, \h571d, \h53dc, \h4d9b, \h495a, \h4419, \h40d8,
      \haca5, \ha864, \ha527, \ha1e6, \hbfa1, \hbb60, \hb623, \hb2e2, \h8aad, \h8e6c, \h832f, \h87ee,
      \h99a9, \h9d68, \h902b, \h94ea, \he0b4, \he475, \he936, \hedf7, \hf3b0, \hf771, \hfa32, \hfef3,
      \hc6bc, \hc27d, \hcf3e, \hcbff, \hd5b8, \hd179, \hdc3a, \hd8fb, \h690c, \h6dcd, \h608e, \h644f,
      \h7a08, \h7ec9, \h738a, \h774b, \h4f04, \h4bc5, \h4686, \h4247, \h5c00, \h58c1, \h5582, \h5143,
      \h251d, \h21dc, \h2c9f, \h285e, \h3619, \h32d8, \h3f9b, \h3b5a, \h0315, \h07d4, \h0a97, \h0e56,
      \h1011, \h14d0, \h1993, \h1d52, \hf12f, \hf5ee, \hf8ad, \hfc6c, \he22b, \he6ea, \heba9, \hef68,
      \hd727, \hd3e6, \hdea5, \hda64, \hc423, \hc0e2, \hcda1, \hc960, \hbd3e, \hb9ff, \hb4bc, \hb07d,
      \hae3a, \haafb, \ha7b8, \ha379, \h9b36, \h9ff7, \h92b4, \h9675, \h8832, \h8cf3, \h81b0, \h8571,
      \h5d8a, \h594b, \h5408, \h50c9, \h4e8e, \h4a4f, \h470c, \h43cd, \h7b82, \h7f43, \h7200, \h76c1,
      \h6886, \h6c47, \h6104, \h65c5, \h119b, \h155a, \h1819, \h1cd8, \h029f, \h065e, \h0b1d, \h0fdc,
      \h3793, \h3352, \h3e11, \h3ad0, \h2497, \h2056, \h2d15, \h29d4, \hc5a9, \hc168, \hcc2b, \hc8ea,
      \hd6ad, \hd26c, \hdf2f, \hdbee, \he3a1, \he760, \hea23, \heee2, \hf0a5, \hf464, \hf927, \hfde6,
      \h89b8, \h8d79, \h803a, \h84fb, \h9abc, \h9e7d, \h933e, \h97ff, \hafb0, \hab71, \ha632, \ha2f3,
      \hbcb4, \hb875, \hb536, \hb1f7>>

crctabLower ==
    <<\h0000, \h1db7, \h3b6e, \h26d9, \h76dc, \h6b6b, \h4db2, \h5005, \hedb8, \hf00f, \hd6d6, \hcb61,
      \h9b64, \h86d3, \ha00a, \hbdbd, \hdb70, \hc6c7, \he01e, \hfda9, \hadac, \hb01b, \h96c2, \h8b75,
      \h36c8, \h2b7f, \h0da6, \h1011, \h4014, \h5da3, \h7b7a, \h66cd, \hb6e0, \hab57, \h8d8e, \h9039,
      \hc03c, \hdd8b, \hfb52, \he6e5, \h5b58, \h46ef, \h6036, \h7d81, \h2d84, \h3033, \h16ea, \h0b5d,
      \h6d90, \h7027, \h56fe, \h4b49, \h1b4c, \h06fb, \h2022, \h3d95, \h8028, \h9d9f, \hbb46, \ha6f1,
      \hf6f4, \heb43, \hcd9a, \hd02d, \h7077, \h6dc0, \h4b19, \h56ae, \h06ab, \h1b1c, \h3dc5, \h2072,
      \h9dcf, \h8078, \ha6a1, \hbb16, \heb13, \hf6a4, \hd07d, \hcdca, \hab07, \hb6b0, \h9069, \h8dde,
      \hdddb, \hc06c, \he6b5, \hfb02, \h46bf, \h5b08, \h7dd1, \h6066, \h3063, \h2dd4, \h0b0d, \h16ba,
      \hc697, \hdb20, \hfdf9, \he04e, \hb04b, \hadfc, \h8b25, \h9692, \h2b2f, \h3698, \h1041, \h0df6,
      \h5df3, \h4044, \h669d, \h7b2a, \h1de7, \h0050, \h2689, \h3b3e, \h6b3b, \h768c, \h5055, \h4de2,
      \hf05f, \hede8, \hcb31, \hd686, \h8683, \h9b34, \hbded, \ha05a, \he0ee, \hfd59, \hdb80, \hc637,
      \h9632, \h8b85, \had5c, \hb0eb, \h0d56, \h10e1, \h3638, \h2b8f, \h7b8a, \h663d, \h40e4, \h5d53,
      \h3b9e, \h2629, \h00f0, \h1d47, \h4d42, \h50f5, \h762c, \h6b9b, \hd626, \hcb91, \hed48, \hf0ff,
      \ha0fa, \hbd4d, \h9b94, \h8623, \h560e, \h4bb9, \h6d60, \h70d7, \h20d2, \h3d65, \h1bbc, \h060b,
      \hbbb6, \ha601, \h80d8, \h9d6f, \hcd6a, \hd0dd, \hf604, \hebb3, \h8d7e, \h90c9, \hb610, \haba7,
      \hfba2, \he615, \hc0cc, \hdd7b, \h60c6, \h7d71, \h5ba8, \h461f, \h161a, \h0bad, \h2d74, \h30c3,
      \h9099, \h8d2e, \habf7, \hb640, \he645, \hfbf2, \hdd2b, \hc09c, \h7d21, \h6096, \h464f, \h5bf8,
      \h0bfd, \h164a, \h3093, \h2d24, \h4be9, \h565e, \h7087, \h6d30, \h3d35, \h2082, \h065b, \h1bec,
      \ha651, \hbbe6, \h9d3f, \h8088, \hd08d, \hcd3a, \hebe3, \hf654, \h2679, \h3bce, \h1d17, \h00a0,
      \h50a5, \h4d12, \h6bcb, \h767c, \hcbc1, \hd676, \hf0af, \hed18, \hbd1d, \ha0aa, \h8673, \h9bc4,
      \hfd09, \he0be, \hc667, \hdbd0, \h8bd5, \h9662, \hb0bb, \had0c, \h10b1, \h0d06, \h2bdf, \h3668,
      \h666d, \h7bda, \h5d03, \h40b4>>

crctab(index) == bits(crctabLower[index + 1]) \cup {16 + e : e \in bits(crctabUpper[index + 1])}
-----------------------------------------------------------------------------
(* The reference: cksum as POSIX defines it.  A polynomial of degree below 32 *)
(* over GF(2) is the set of its exponents.                                 *)

Generator == {26, 23, 22, 16, 12, 11, 10, 8, 7, 5, 4, 2, 1, 0}  \* and x^32

\* The remainder for a message to which one more bit is appended ...
withBit(r, isSet) ==
    LET shifted == {e \in 1..31 : e - 1 \in r}
    IN  IF 31 \in r <=> isSet THEN shifted ELSE xored(shifted, Generator)

\* ... or one more byte, the most significant bit first.
withByte(r, byte) ==
    LET then(q, e) == withBit(q, e \in bits(byte))
    IN  then(then(then(then(then(then(then(then(r, 7), 6), 5), 4), 3), 2), 1), 0)

\* The length, least significant byte first, in as few bytes as possible.
lengthBytes(len) ==
    LET size == CHOOSE m \in 0..3 : len < 256^m /\ (m > 0 => len >= 256^(m - 1))
    IN  [k \in 1..size |-> (len \div 256^(k - 1)) % 256]

\* The checksum of a content of length len with remainder r.
posixCksum(r, len) == 0..31 \ FoldLeft(withByte, r, lengthBytes(len))

-----------------------------------------------------------------------------
(* memcrc *)

MemcrcInit ==
    /\ longBits \in LongBits
    /\ b = <<>> /\ i = 0 /\ n = 0 /\ s = {}
    /\ phase = "idle"
    /\ rest = [content |-> {}, all |-> {}]

\* The call memcrc(buffer, buffer.size()).
memcrc(buffer) ==
    /\ b' = buffer /\ i' = 0 /\ n' = Len(buffer) /\ s' = {}
    /\ phase' = "content"
    /\ rest' = [content |-> {}, all |-> {}]
    /\ UNCHANGED longBits

\* Mutation of updated: the register is not cut to 32 bits.
updatedUncut(w, byte) ==
    LET tabidx == number(xored(topByte(w), bits(byte)))
    IN  xored(shiftedLeft(w), crctab(tabidx))

\* Mutation of updated: the byte is appended to the register, not added to its top.
updatedBehind(w, byte) ==
    xored(UNSIGNED(shiftedLeft(w)) \cup bits(byte), crctab(number(topByte(w))))

\* s = UNSIGNED(s << 8) ^ crctab[0][(s >> 24) ^ byte]
updated(w, byte) ==
    LET tabidx == number(xored(topByte(w), bits(byte)))
    IN  xored(UNSIGNED(shiftedLeft(w)), crctab(tabidx))

ContentByte ==
    /\ phase = "content" /\ i < Len(b)
    /\ s' = updated(s, b[i + 1])
    /\ i' = i + 1
    /\ LET r == withByte(rest.all, b[i + 1]) IN rest' = [content |-> r, all |-> r]
    /\ UNCHANGED <<longBits, b, n, phase>>

ContentDone ==
    /\ phase = "content" /\ i = Len(b)
    /\ phase' = "length"
    /\ UNCHANGED <<longBits, b, i, n, s, rest>>

\* Mutation of LengthByte: the length is not part of the checksum.
LengthDropped ==
    /\ phase = "length" /\ n # 0
    /\ n' = 0
    /\ UNCHANGED <<longBits, b, i, s, phase, rest>>

LengthByte ==
    /\ phase = "length" /\ n # 0
    /\ s' = updated(s, n % 256)
    /\ n' = n \div 256
    /\ rest' = [rest EXCEPT !.all = withByte(@, n % 256)]
    /\ UNCHANGED <<longBits, b, i, phase>>

Return ==
    /\ phase = "length" /\ n = 0
    /\ s' = UNSIGNED(Inverted(s))
    /\ phase' = "done"
    /\ UNCHANGED <<longBits, b, i, n, rest>>

MemcrcStep == ContentByte \/ ContentDone \/ LengthByte \/ Return

-----------------------------------------------------------------------------
(* Properties *)

\* memcrc computes the POSIX cksum, whatever the width of unsigned long: the
\* table, the masks and the bytes of the length are right.
IsPosixCksum == phase = "done" => s = posixCksum(rest.content, Len(b))

\* With every byte that memcrc takes, its table and its masks make of the register what
\* the division makes of the remainder, and the complement of that is returned.
RegisterIsRemainder == s = IF phase = "done" THEN 0..31 \ rest.all ELSE rest.all

\* The table is never read past its 256 entries, also where an unsigned long
\* has bits above the 32 of the checksum.
IndexInTable == fitsByte(s)
=============================================================================
