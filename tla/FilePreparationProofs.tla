----------------------- MODULE FilePreparationProofs -----------------------
(***************************************************************************)
(* What createEncryptedFile promises of a file that may change at any time, *)
(* for files of any length, blocks of any size and any number of changes;   *)
(* and that memcrc divides as POSIX says, for every content.                *)
(***************************************************************************)
EXTENDS FilePreparation, TLAPS

-----------------------------------------------------------------------------
(* createEncryptedFile *)

\* The call has taken the size of the file.
Sized == {"open", "read", "memcrc", "encrypt", "prepared"}

LocalsInv ==
    /\ TypeOK
    /\ file \in Contents \cup {Absent}
    /\ rawBuffer \in Seq(Pieces)
    /\ pos \in Nat
    /\ stage \in {"checkKey", "exists", "size", "open"} => pos = 0
    /\ kept \in BOOLEAN /\ changes \in Nat
    /\ stage \in Sized => sizedAs \in Contents /\ fileSize = Len(sizedAs)
    /\ stage \in {"read", "memcrc", "encrypt"} => file # Absent

\* The check in run comes before everything else.
KeyInv == stage \notin {"checkKey", "failed"} => aesKeySize = 32

\* As long as the file begins with what it had when its size was taken, the buffer has,
\* as far as it has been filled, the pieces of that.
StableInv ==
    stage \in Sized /\ kept =>
        /\ stage \in {"open", "read"} => file # Absent /\ IsPrefix(sizedAs, file)
        /\ stage = "read" => \A k \in 1..pos : rawBuffer[k] = sizedAs[k]
        /\ stage \in {"memcrc", "encrypt"} => rawBuffer = sizedAs
        /\ stage = "prepared" => encrypted.content = sizedAs

PaddingInv ==
    stage = "prepared" =>
        \/ /\ Len(encrypted.content) = fileSize
           /\ encrypted.padding = BLOCK - (fileSize % BLOCK)
        \/ fileSize = 0 /\ encrypted = None

FileInv == LocalsInv /\ KeyInv /\ StableInv /\ PaddingInv

LEMMA PrefixFacts ==
    ASSUME NEW S, NEW part \in Seq(S), NEW whole \in Seq(S)
    PROVE  /\ IsPrefix(part, part)
           /\ IsPrefix(part, whole) =>
                  /\ Len(part) <= Len(whole)
                  /\ \A k \in 1..Len(part) : part[k] = whole[k]
<1>1. ASSUME IsPrefix(part, whole), NEW k \in 1..Len(part)
      PROVE  part[k] = whole[k]
  <2>1. Len(part) <= Len(whole) /\ SubSeq(part, 1, Len(part)) = SubSeq(whole, 1, Len(part))
    BY <1>1 DEF IsPrefix
  <2>2. SubSeq(part, 1, Len(part))[k] = part[k] /\ SubSeq(whole, 1, Len(part))[k] = whole[k]
    BY <2>1
  <2> QED BY <2>1, <2>2
<1> QED BY <1>1 DEF IsPrefix

LEMMA FileInvInit == FileInit => FileInv
BY DEF FileInit, FileInv, LocalsInv, TypeOK, KeyInv, StableInv, PaddingInv, Sized

LEMMA FileInvNext == FileInv /\ [FileNext]_fileVars => FileInv'
<1> SUFFICES ASSUME FileInv, [FileNext]_fileVars PROVE FileInv'
  OBVIOUS
<1> USE DEF FileInv, LocalsInv, TypeOK, KeyInv, StableInv, PaddingInv, Sized, Goto, Same, locals
<1>1. CASE CheckAesKey
  BY <1>1 DEF CheckAesKey
<1>2. CASE CheckExists
  BY <1>2 DEF CheckExists
<1>3. CASE TakeSize
  <2>1. file # Absent => file \in Seq(Pieces) /\ IsPrefix(file, file)
    BY PrefixFacts, EncryptedFileAssumption
  <2> QED BY <1>3, <2>1, EncryptedFileAssumption DEF TakeSize, Pieces
<1>4. CASE OpenFile
  BY <1>4 DEF OpenFile
<1>5. CASE ReadPiece
  <2>1. kept => sizedAs[pos + 1] = file[pos + 1]
    BY <1>5, PrefixFacts, EncryptedFileAssumption DEF ReadPiece, wanted
  <2>2. /\ file \in Seq(Pieces) /\ pos + 1 \in 1..Len(file)
        /\ stage' = stage /\ stage = "read"
        /\ rawBuffer' = [rawBuffer EXCEPT ![pos + 1] = file[pos + 1]]
        /\ pos' = pos + 1 /\ pos < fileSize
    BY <1>5, EncryptedFileAssumption DEF ReadPiece, wanted
  <2>3. rawBuffer' \in Seq(Pieces) /\ Len(rawBuffer') = fileSize
    BY <2>2
  <2>4. ASSUME kept, NEW k \in 1..(pos + 1) PROVE rawBuffer'[k] = sizedAs[k]
    BY <2>1, <2>2, <2>4
  <2> QED BY <1>5, <2>2, <2>3, <2>4 DEF ReadPiece
<1>6. CASE ReadDone
  <2>1. ASSUME kept PROVE rawBuffer = sizedAs
    <3>1. sizedAs \in Seq(Pieces) /\ rawBuffer \in Seq(Pieces) /\ file \in Seq(Pieces)
      BY <1>6, <2>1, EncryptedFileAssumption DEF ReadDone
    <3>2. pos = Len(sizedAs)
      BY <1>6, <2>1, <3>1, PrefixFacts DEF ReadDone, wanted
    <3>3. Len(rawBuffer) = Len(sizedAs) /\ \A k \in 1..Len(sizedAs) : rawBuffer[k] = sizedAs[k]
      BY <1>6, <2>1, <3>2 DEF ReadDone
    <3> QED BY <3>1, <3>3
  <2> QED BY <1>6, <2>1 DEF ReadDone
<1>7. CASE Checksummed
  BY <1>7 DEF Checksummed
<1>8. CASE Encrypt
  BY <1>8, EncryptedFileAssumption DEF Encrypt, encryptAesCbc, None
<1>9. CASE Change
  BY <1>9, EncryptedFileAssumption DEF Change
<1>10. CASE Returned
  BY <1>10 DEF Returned, fileVars
<1>11. CASE UNCHANGED fileVars
  BY <1>11 DEF fileVars
<1> QED BY <1>1, <1>2, <1>3, <1>4, <1>5, <1>6, <1>7, <1>8, <1>9, <1>10, <1>11 DEF FileNext

\* Padding to the next block.
LEMMA Padded ==
    ASSUME NEW len \in Nat, NEW size \in Nat \ {0}
    PROVE  /\ size - (len % size) \in 1..size
           /\ (len + (size - (len % size))) % size = 0
<1>1. len % size \in 0..(size - 1) /\ len \div size \in Nat /\ len = size * (len \div size) + (len % size)
  OBVIOUS
<1>2. len + (size - (len % size)) = size * (len \div size + 1)
  BY <1>1
<1>3. ASSUME NEW q \in Nat PROVE (size * q) % size = 0
  <2>1. PICK m \in 0..(size - 1) : m = (size * q) % size
    OBVIOUS
  <2>2. PICK d \in Nat : size * q = size * d + m
    <3>1. size * q \in Nat
      OBVIOUS
    <3>2. ASSUME NEW x \in Nat PROVE x = size * (x \div size) + (x % size) /\ x \div size \in Nat
      OBVIOUS
    <3> QED BY <2>1, <3>1, <3>2
  <2>3. CASE q > d
    <3>1. size * q >= size * (d + 1)
      BY <2>3
    <3> QED BY <2>2, <3>1
  <2>4. CASE q < d
    <3>1. size * d >= size * (q + 1)
      BY <2>4
    <3> QED BY <2>2, <3>1
  <2> QED BY <2>1, <2>2, <2>3, <2>4
<1>4. len \div size + 1 \in Nat
  BY <1>1
<1>5. size - (len % size) \in 1..size
  BY <1>1
<1> QED BY <1>2, <1>3, <1>4, <1>5

LEMMA FileInvImplies == FileInv => TypeOK /\ StableFileExact /\ WholeBlocks
<1> SUFFICES ASSUME FileInv PROVE TypeOK /\ StableFileExact /\ WholeBlocks
  OBVIOUS
<1>1. TypeOK
  BY DEF FileInv, LocalsInv
<1>2. StableFileExact
  BY DEF FileInv, StableInv, Sized, StableFileExact
<1>3. WholeBlocks
  <2>1. /\ BLOCK - (fileSize % BLOCK) \in 1..BLOCK
        /\ (fileSize + (BLOCK - (fileSize % BLOCK))) % BLOCK = 0
    BY Padded, EncryptedFileAssumption DEF FileInv, LocalsInv, TypeOK
  <2>2. ASSUME stage = "prepared", encrypted.padding = BLOCK - (fileSize % BLOCK)
        PROVE  /\ encrypted.padding \in 1..BLOCK
               /\ (fileSize + encrypted.padding) % BLOCK = 0
    BY <2>1, <2>2
  <2> QED BY <2>2, Zenon DEF FileInv, PaddingInv, KeyInv, WholeBlocks
<1> QED BY <1>1, <1>2, <1>3

-----------------------------------------------------------------------------
(* Bytes and words *)

LEMMA ByteBits == \A v \in 0..255 : bits(v) \subseteq 0..7
<1> SUFFICES ASSUME NEW v \in 0..255, NEW e \in 8..15 PROVE e \notin bits(v)
  BY DEF bits
<1>1. v \div 256 = 0 /\ v \div 512 = 0 /\ v \div 1024 = 0 /\ v \div 2048 = 0
      /\ v \div 4096 = 0 /\ v \div 8192 = 0 /\ v \div 16384 = 0 /\ v \div 32768 = 0
  OBVIOUS
<1> QED BY <1>1 DEF bits, Weight

\* A number has the bits it was made of.
LEMMA NumberBits ==
    ASSUME NEW w, w \subseteq 0..7
    PROVE  number(w) \in 0..255 /\ bits(number(w)) = w
<1> DEFINE value(e) == IF e \in w THEN 1 ELSE 0
<1>1. \A e \in 0..7 : value(e) \in 0..1 /\ (value(e) = 1 <=> e \in w)
  OBVIOUS
<1>2. number(w) = value(0) + 2 * value(1) + 4 * value(2) + 8 * value(3) + 16 * value(4)
                    + 32 * value(5) + 64 * value(6) + 128 * value(7)
  BY DEF number, Weight
<1> HIDE DEF value
<1>3. PICK a, b1, c, d, f, g, h, k \in 0..1 :
        /\ a = value(0) /\ b1 = value(1) /\ c = value(2) /\ d = value(3)
        /\ f = value(4) /\ g = value(5) /\ h = value(6) /\ k = value(7)
  BY <1>1
<1>4. PICK v \in 0..255 : /\ v = number(w)
                         /\ v = a + 2 * b1 + 4 * c + 8 * d + 16 * f + 32 * g + 64 * h + 128 * k
  <2>1. number(w) = a + 2 * b1 + 4 * c + 8 * d + 16 * f + 32 * g + 64 * h + 128 * k
    BY <1>2, <1>3, Zenon
  <2>2. a + 2 * b1 + 4 * c + 8 * d + 16 * f + 32 * g + 64 * h + 128 * k \in 0..255
    OBVIOUS
  <2> QED BY <2>1, <2>2, Zenon
<1>5. /\ v % 2 = a /\ (v \div 2) % 2 = b1 /\ (v \div 4) % 2 = c /\ (v \div 8) % 2 = d
      /\ (v \div 16) % 2 = f /\ (v \div 32) % 2 = g /\ (v \div 64) % 2 = h
      /\ (v \div 128) % 2 = k
  <2>1. v % 2 = a
    BY <1>4
  <2>2. v \div 2 = b1 + 2 * c + 4 * d + 8 * f + 16 * g + 32 * h + 64 * k
    BY <1>4
  <2>3. v \div 4 = c + 2 * d + 4 * f + 8 * g + 16 * h + 32 * k
    BY <1>4
  <2>4. v \div 8 = d + 2 * f + 4 * g + 8 * h + 16 * k
    BY <1>4
  <2>5. v \div 16 = f + 2 * g + 4 * h + 8 * k
    BY <1>4
  <2>6. v \div 32 = g + 2 * h + 4 * k
    BY <1>4
  <2>7. v \div 64 = h + 2 * k /\ v \div 128 = k
    BY <1>4
  <2> QED BY <2>1, <2>2, <2>3, <2>4, <2>5, <2>6, <2>7
<1>6. v \div 1 = v
  OBVIOUS
<1>7. \A e \in 0..7 : e \in bits(v) <=> e \in w
  BY <1>1, <1>3, <1>5, <1>6 DEF bits, Weight
<1>8. bits(v) \subseteq 0..7
  BY ByteBits
<1> QED BY <1>4, <1>7, <1>8

LEMMA EntryBits == \A v \in 0..255 : crctab(v) \subseteq 0..31
BY DEF crctab, bits
-----------------------------------------------------------------------------
(* Eight steps of the division *)

differ(x, y) == ~(x <=> y)

\* The carries of the eight steps, the quotient, when x is the top byte of the remainder
\* with the new one added; carries 7 and 6 come back as the two lowest ones.
quotient(x) == {e \in 0..7 : \/ e \in 2..7 /\ e \in x
                             \/ e = 1 /\ differ(1 \in x, 7 \in x)
                             \/ e = 0 /\ differ(0 \in x, 6 \in x)}

\* Exponent e of the product of a quotient and Generator.
term(q, e, k) == k \in q /\ e - k \in Generator

inProduct(q, e) ==
    differ(term(q, e, 0), differ(term(q, e, 1), differ(term(q, e, 2), differ(term(q, e, 3),
    differ(term(q, e, 4), differ(term(q, e, 5), differ(term(q, e, 6), term(q, e, 7))))))))

\* The remainder r after the steps for the bits 7 to k of the next byte.
isDivided(p, r, q, k) ==
    /\ p \subseteq 0..31
    /\ \A e \in 0..31 : e \in p <=> differ(e + k - 8 \in r, inProduct(q \cap k..7, e + k))

LEMMA ProductStep ==
    ASSUME NEW q, NEW k \in 0..7, NEW e \in Int
    PROVE  inProduct(q \cap k..7, e) <=> differ(term(q, e, k), inProduct(q \cap (k + 1)..7, e))
<1>1. \A j \in 0..7 : /\ j < k => ~term(q \cap k..7, e, j)
                      /\ j >= k => (term(q \cap k..7, e, j) <=> term(q, e, j))
                      /\ j < k + 1 => ~term(q \cap (k + 1)..7, e, j)
                      /\ j >= k + 1 => (term(q \cap (k + 1)..7, e, j) <=> term(q, e, j))
  BY DEF term
<1> QED BY <1>1 DEF inProduct, differ

LEMMA WithBit ==
    ASSUME NEW p, p \subseteq 0..31, NEW isSet \in BOOLEAN
    PROVE  /\ withBit(p, isSet) \subseteq 0..31
           /\ \A e \in 0..31 : e \in withBit(p, isSet)
                  <=> differ(e > 0 /\ e - 1 \in p, e \in Generator /\ differ(31 \in p, isSet))
<1>1. Generator \subseteq 0..31
  BY DEF Generator
<1> DEFINE shifted == {e \in 1..31 : e - 1 \in p}
<1>2. \A e \in 0..31 : e \in shifted <=> e > 0 /\ e - 1 \in p
  OBVIOUS
<1>3. shifted \subseteq 0..31
  OBVIOUS
<1> HIDE DEF shifted
<1>4. CASE 31 \in p <=> isSet
  <2>1. withBit(p, isSet) = shifted
    BY <1>4 DEF withBit, shifted
  <2> QED BY <1>2, <1>3, <1>4, <2>1 DEF differ
<1>5. CASE ~(31 \in p <=> isSet)
  <2>1. withBit(p, isSet) = xored(shifted, Generator)
    BY <1>5 DEF withBit, shifted
  <2> QED BY <1>1, <1>2, <1>3, <1>5, <2>1 DEF xored, differ
<1> QED BY <1>4, <1>5

\* One step shifts the remainder and adds the generator if there is a carry.
LEMMA DivisionStep ==
    ASSUME NEW r, r \subseteq 0..31, NEW q, q \subseteq 0..7, NEW k \in 0..7,
           NEW p, isDivided(p, r, q, k + 1),
           NEW isSet \in BOOLEAN, k \in q <=> differ(31 \in p, isSet)
    PROVE  isDivided(withBit(p, isSet), r, q, k)
<1>1. p \subseteq 0..31
  BY DEF isDivided
<1>2. SUFFICES ASSUME NEW e \in 0..31
               PROVE  differ(e > 0 /\ e - 1 \in p, e \in Generator /\ k \in q)
                        <=> differ(e + k - 8 \in r, inProduct(q \cap k..7, e + k))
  <2>1. /\ withBit(p, isSet) \subseteq 0..31
        /\ \A e \in 0..31 : e \in withBit(p, isSet)
               <=> differ(e > 0 /\ e - 1 \in p, e \in Generator /\ k \in q)
    BY <1>1, WithBit DEF differ
  <2> QED BY <2>1 DEF isDivided, differ
<1>3. inProduct(q \cap k..7, e + k)
        <=> differ(e \in Generator /\ k \in q, inProduct(q \cap (k + 1)..7, e + k))
  <2>1. (e + k) - k = e
    OBVIOUS
  <2>2. inProduct(q \cap k..7, e + k)
          <=> differ(term(q, e + k, k), inProduct(q \cap (k + 1)..7, e + k))
    <3>1. PICK f \in Int : f = e + k
      OBVIOUS
    <3>2. inProduct(q \cap k..7, f) <=> differ(term(q, f, k), inProduct(q \cap (k + 1)..7, f))
      BY ProductStep
    <3> QED BY <3>1, <3>2
  <2> QED BY <2>1, <2>2 DEF term, differ
<1>4. (e > 0 /\ e - 1 \in p)
        <=> differ(e + k - 8 \in r, inProduct(q \cap (k + 1)..7, e + k))
  <2>1. CASE e > 0
    <3>1. e - 1 \in 0..31 /\ (e - 1) + (k + 1) - 8 = e + k - 8 /\ (e - 1) + (k + 1) = e + k
      BY <2>1
    <3> QED BY <2>1, <3>1 DEF isDivided
  <2>2. CASE e = 0
    <3>1. e + k - 8 \notin r
      BY <2>2
    <3>2. \A j \in 0..7 : ~term(q \cap (k + 1)..7, e + k, j)
      BY <2>2 DEF term, Generator
    <3> QED BY <2>2, <3>1, <3>2 DEF inProduct, differ
  <2> QED BY <2>1, <2>2
<1> QED BY <1>3, <1>4 DEF differ

\* Bit 31 of the remainder, which only the carries 7 and 6 have come back to.
LEMMA Carry ==
    ASSUME NEW r, r \subseteq 0..31, NEW q, q \subseteq 0..7, NEW k \in 0..7,
           NEW p, isDivided(p, r, q, k + 1)
    PROVE  31 \in p <=> differ(24 + k \in r, (k = 0 /\ 6 \in q) \/ (k = 1 /\ 7 \in q))
<1>1. 31 \in p <=> differ(24 + k \in r, inProduct(q \cap (k + 1)..7, 32 + k))
  <2>1. 31 + (k + 1) - 8 = 24 + k /\ 31 + (k + 1) = 32 + k /\ 31 \in 0..31
    OBVIOUS
  <2> QED BY <2>1 DEF isDivided
<1>2. \A j \in 0..7 : term(q \cap (k + 1)..7, 32 + k, j)
                        <=> j = k + 6 /\ j \in q
  BY DEF term, Generator
<1>3. inProduct(q \cap (k + 1)..7, 32 + k) <=> ((k = 0 /\ 6 \in q) \/ (k = 1 /\ 7 \in q))
  BY <1>2 DEF inProduct, differ
<1> QED BY <1>1, <1>3 DEF differ

\* The remainder after one more byte.
LEMMA ByteDivided ==
    ASSUME NEW r, r \subseteq 0..31, NEW byte \in 0..255
    PROVE  isDivided(withByte(r, byte), r, quotient(xored(topByte(r), bits(byte))), 0)
<1> DEFINE x == xored(topByte(r), bits(byte))
           q == quotient(x)
<1>1. \A k \in 0..7 : k \in x <=> differ(24 + k \in r, k \in bits(byte))
  BY DEF xored, topByte, differ
<1>2. q \subseteq 0..7
  BY DEF quotient
<1>3. \A k \in 2..7 : k \in q <=> k \in x
  BY DEF quotient
<1>4. (1 \in q <=> differ(1 \in x, 7 \in q)) /\ (0 \in q <=> differ(0 \in x, 6 \in q))
  BY DEF quotient
<1> HIDE DEF x, q
<1>5. \A k \in 0..7 : k \in q <=> differ(k \in x, (k = 0 /\ 6 \in q) \/ (k = 1 /\ 7 \in q))
  BY <1>3, <1>4 DEF differ
<1>6. ASSUME NEW k \in 0..7, NEW p, isDivided(p, r, q, k + 1)
      PROVE  isDivided(withBit(p, k \in bits(byte)), r, q, k)
  <2>1. 31 \in p <=> differ(24 + k \in r, (k = 0 /\ 6 \in q) \/ (k = 1 /\ 7 \in q))
    BY <1>2, <1>6, Carry
  <2>2. k \in q <=> differ(31 \in p, k \in bits(byte))
    BY <1>1, <1>5, <2>1 DEF differ
  <2>3. (k \in bits(byte)) \in BOOLEAN
    OBVIOUS
  <2> QED BY <1>2, <1>6, <2>2, <2>3, DivisionStep
<1>7. isDivided(r, r, q, 8)
  <2>1. \A e : ~inProduct(q \cap 8..7, e)
    BY DEF inProduct, term, differ
  <2>2. \A e \in 0..31 : e + 8 - 8 = e
    OBVIOUS
  <2> QED BY <2>1, <2>2 DEF isDivided, differ
<1> DEFINE then(p, e) == withBit(p, e \in bits(byte))
<1>8. \A k \in 0..7 : \A p : isDivided(p, r, q, k + 1) => isDivided(then(p, k), r, q, k)
  BY <1>6
<1> QED
  <2>1. PICK p7 : p7 = then(r, 7) /\ isDivided(p7, r, q, 7)
    BY <1>7, <1>8
  <2>2. PICK p6 : p6 = then(p7, 6) /\ isDivided(p6, r, q, 6)
    BY <1>8, <2>1
  <2>3. PICK p5 : p5 = then(p6, 5) /\ isDivided(p5, r, q, 5)
    BY <1>8, <2>2
  <2>4. PICK p4 : p4 = then(p5, 4) /\ isDivided(p4, r, q, 4)
    BY <1>8, <2>3
  <2>5. PICK p3 : p3 = then(p4, 3) /\ isDivided(p3, r, q, 3)
    BY <1>8, <2>4
  <2>6. PICK p2 : p2 = then(p3, 2) /\ isDivided(p2, r, q, 2)
    BY <1>8, <2>5
  <2>7. PICK p1 : p1 = then(p2, 1) /\ isDivided(p1, r, q, 1)
    BY <1>8, <2>6
  <2>8. PICK p0 : p0 = then(p1, 0) /\ isDivided(p0, r, q, 0)
    BY <1>8, <2>7
  <2>9. withByte(r, byte) = p0
    BY <2>1, <2>2, <2>3, <2>4, <2>5, <2>6, <2>7, <2>8 DEF withByte
  <2> QED BY <2>8, <2>9 DEF q, x

-----------------------------------------------------------------------------
(* The table *)

\* An entry is the product of Generator and the quotient for the byte of its index.
entryRight(v) == \A e \in 0..31 : e \in crctab(v) <=> inProduct(quotient(bits(v)), e)

\* Each of the 256 entries, by evaluation.
LEMMA TableRight == \A v \in 0..255 : entryRight(v)
<1> USE DEF crctab, crctabLower, crctabUpper, bits, Weight, quotient, inProduct, term, differ, Generator
<1>0. \A v \in 0..15 : entryRight(v)
  <2>0. entryRight(0)  BY DEF entryRight
  <2>1. entryRight(1)  BY DEF entryRight
  <2>2. entryRight(2)  BY DEF entryRight
  <2>3. entryRight(3)  BY DEF entryRight
  <2>4. entryRight(4)  BY DEF entryRight
  <2>5. entryRight(5)  BY DEF entryRight
  <2>6. entryRight(6)  BY DEF entryRight
  <2>7. entryRight(7)  BY DEF entryRight
  <2>8. entryRight(8)  BY DEF entryRight
  <2>9. entryRight(9)  BY DEF entryRight
  <2>10. entryRight(10)  BY DEF entryRight
  <2>11. entryRight(11)  BY DEF entryRight
  <2>12. entryRight(12)  BY DEF entryRight
  <2>13. entryRight(13)  BY DEF entryRight
  <2>14. entryRight(14)  BY DEF entryRight
  <2>15. entryRight(15)  BY DEF entryRight
  <2> QED BY <2>0, <2>1, <2>2, <2>3, <2>4, <2>5, <2>6, <2>7,
            <2>8, <2>9, <2>10, <2>11, <2>12, <2>13, <2>14, <2>15
<1>1. \A v \in 16..31 : entryRight(v)
  <2>16. entryRight(16)  BY DEF entryRight
  <2>17. entryRight(17)  BY DEF entryRight
  <2>18. entryRight(18)  BY DEF entryRight
  <2>19. entryRight(19)  BY DEF entryRight
  <2>20. entryRight(20)  BY DEF entryRight
  <2>21. entryRight(21)  BY DEF entryRight
  <2>22. entryRight(22)  BY DEF entryRight
  <2>23. entryRight(23)  BY DEF entryRight
  <2>24. entryRight(24)  BY DEF entryRight
  <2>25. entryRight(25)  BY DEF entryRight
  <2>26. entryRight(26)  BY DEF entryRight
  <2>27. entryRight(27)  BY DEF entryRight
  <2>28. entryRight(28)  BY DEF entryRight
  <2>29. entryRight(29)  BY DEF entryRight
  <2>30. entryRight(30)  BY DEF entryRight
  <2>31. entryRight(31)  BY DEF entryRight
  <2> QED BY <2>16, <2>17, <2>18, <2>19, <2>20, <2>21, <2>22, <2>23,
            <2>24, <2>25, <2>26, <2>27, <2>28, <2>29, <2>30, <2>31
<1>2. \A v \in 32..47 : entryRight(v)
  <2>32. entryRight(32)  BY DEF entryRight
  <2>33. entryRight(33)  BY DEF entryRight
  <2>34. entryRight(34)  BY DEF entryRight
  <2>35. entryRight(35)  BY DEF entryRight
  <2>36. entryRight(36)  BY DEF entryRight
  <2>37. entryRight(37)  BY DEF entryRight
  <2>38. entryRight(38)  BY DEF entryRight
  <2>39. entryRight(39)  BY DEF entryRight
  <2>40. entryRight(40)  BY DEF entryRight
  <2>41. entryRight(41)  BY DEF entryRight
  <2>42. entryRight(42)  BY DEF entryRight
  <2>43. entryRight(43)  BY DEF entryRight
  <2>44. entryRight(44)  BY DEF entryRight
  <2>45. entryRight(45)  BY DEF entryRight
  <2>46. entryRight(46)  BY DEF entryRight
  <2>47. entryRight(47)  BY DEF entryRight
  <2> QED BY <2>32, <2>33, <2>34, <2>35, <2>36, <2>37, <2>38, <2>39,
            <2>40, <2>41, <2>42, <2>43, <2>44, <2>45, <2>46, <2>47
<1>3. \A v \in 48..63 : entryRight(v)
  <2>48. entryRight(48)  BY DEF entryRight
  <2>49. entryRight(49)  BY DEF entryRight
  <2>50. entryRight(50)  BY DEF entryRight
  <2>51. entryRight(51)  BY DEF entryRight
  <2>52. entryRight(52)  BY DEF entryRight
  <2>53. entryRight(53)  BY DEF entryRight
  <2>54. entryRight(54)  BY DEF entryRight
  <2>55. entryRight(55)  BY DEF entryRight
  <2>56. entryRight(56)  BY DEF entryRight
  <2>57. entryRight(57)  BY DEF entryRight
  <2>58. entryRight(58)  BY DEF entryRight
  <2>59. entryRight(59)  BY DEF entryRight
  <2>60. entryRight(60)  BY DEF entryRight
  <2>61. entryRight(61)  BY DEF entryRight
  <2>62. entryRight(62)  BY DEF entryRight
  <2>63. entryRight(63)  BY DEF entryRight
  <2> QED BY <2>48, <2>49, <2>50, <2>51, <2>52, <2>53, <2>54, <2>55,
            <2>56, <2>57, <2>58, <2>59, <2>60, <2>61, <2>62, <2>63
<1>4. \A v \in 64..79 : entryRight(v)
  <2>64. entryRight(64)  BY DEF entryRight
  <2>65. entryRight(65)  BY DEF entryRight
  <2>66. entryRight(66)  BY DEF entryRight
  <2>67. entryRight(67)  BY DEF entryRight
  <2>68. entryRight(68)  BY DEF entryRight
  <2>69. entryRight(69)  BY DEF entryRight
  <2>70. entryRight(70)  BY DEF entryRight
  <2>71. entryRight(71)  BY DEF entryRight
  <2>72. entryRight(72)  BY DEF entryRight
  <2>73. entryRight(73)  BY DEF entryRight
  <2>74. entryRight(74)  BY DEF entryRight
  <2>75. entryRight(75)  BY DEF entryRight
  <2>76. entryRight(76)  BY DEF entryRight
  <2>77. entryRight(77)  BY DEF entryRight
  <2>78. entryRight(78)  BY DEF entryRight
  <2>79. entryRight(79)  BY DEF entryRight
  <2> QED BY <2>64, <2>65, <2>66, <2>67, <2>68, <2>69, <2>70, <2>71,
            <2>72, <2>73, <2>74, <2>75, <2>76, <2>77, <2>78, <2>79
<1>5. \A v \in 80..95 : entryRight(v)
  <2>80. entryRight(80)  BY DEF entryRight
  <2>81. entryRight(81)  BY DEF entryRight
  <2>82. entryRight(82)  BY DEF entryRight
  <2>83. entryRight(83)  BY DEF entryRight
  <2>84. entryRight(84)  BY DEF entryRight
  <2>85. entryRight(85)  BY DEF entryRight
  <2>86. entryRight(86)  BY DEF entryRight
  <2>87. entryRight(87)  BY DEF entryRight
  <2>88. entryRight(88)  BY DEF entryRight
  <2>89. entryRight(89)  BY DEF entryRight
  <2>90. entryRight(90)  BY DEF entryRight
  <2>91. entryRight(91)  BY DEF entryRight
  <2>92. entryRight(92)  BY DEF entryRight
  <2>93. entryRight(93)  BY DEF entryRight
  <2>94. entryRight(94)  BY DEF entryRight
  <2>95. entryRight(95)  BY DEF entryRight
  <2> QED BY <2>80, <2>81, <2>82, <2>83, <2>84, <2>85, <2>86, <2>87,
            <2>88, <2>89, <2>90, <2>91, <2>92, <2>93, <2>94, <2>95
<1>6. \A v \in 96..111 : entryRight(v)
  <2>96. entryRight(96)  BY DEF entryRight
  <2>97. entryRight(97)  BY DEF entryRight
  <2>98. entryRight(98)  BY DEF entryRight
  <2>99. entryRight(99)  BY DEF entryRight
  <2>100. entryRight(100)  BY DEF entryRight
  <2>101. entryRight(101)  BY DEF entryRight
  <2>102. entryRight(102)  BY DEF entryRight
  <2>103. entryRight(103)  BY DEF entryRight
  <2>104. entryRight(104)  BY DEF entryRight
  <2>105. entryRight(105)  BY DEF entryRight
  <2>106. entryRight(106)  BY DEF entryRight
  <2>107. entryRight(107)  BY DEF entryRight
  <2>108. entryRight(108)  BY DEF entryRight
  <2>109. entryRight(109)  BY DEF entryRight
  <2>110. entryRight(110)  BY DEF entryRight
  <2>111. entryRight(111)  BY DEF entryRight
  <2> QED BY <2>96, <2>97, <2>98, <2>99, <2>100, <2>101, <2>102, <2>103,
            <2>104, <2>105, <2>106, <2>107, <2>108, <2>109, <2>110, <2>111
<1>7. \A v \in 112..127 : entryRight(v)
  <2>112. entryRight(112)  BY DEF entryRight
  <2>113. entryRight(113)  BY DEF entryRight
  <2>114. entryRight(114)  BY DEF entryRight
  <2>115. entryRight(115)  BY DEF entryRight
  <2>116. entryRight(116)  BY DEF entryRight
  <2>117. entryRight(117)  BY DEF entryRight
  <2>118. entryRight(118)  BY DEF entryRight
  <2>119. entryRight(119)  BY DEF entryRight
  <2>120. entryRight(120)  BY DEF entryRight
  <2>121. entryRight(121)  BY DEF entryRight
  <2>122. entryRight(122)  BY DEF entryRight
  <2>123. entryRight(123)  BY DEF entryRight
  <2>124. entryRight(124)  BY DEF entryRight
  <2>125. entryRight(125)  BY DEF entryRight
  <2>126. entryRight(126)  BY DEF entryRight
  <2>127. entryRight(127)  BY DEF entryRight
  <2> QED BY <2>112, <2>113, <2>114, <2>115, <2>116, <2>117, <2>118, <2>119,
            <2>120, <2>121, <2>122, <2>123, <2>124, <2>125, <2>126, <2>127
<1>8. \A v \in 128..143 : entryRight(v)
  <2>128. entryRight(128)  BY DEF entryRight
  <2>129. entryRight(129)  BY DEF entryRight
  <2>130. entryRight(130)  BY DEF entryRight
  <2>131. entryRight(131)  BY DEF entryRight
  <2>132. entryRight(132)  BY DEF entryRight
  <2>133. entryRight(133)  BY DEF entryRight
  <2>134. entryRight(134)  BY DEF entryRight
  <2>135. entryRight(135)  BY DEF entryRight
  <2>136. entryRight(136)  BY DEF entryRight
  <2>137. entryRight(137)  BY DEF entryRight
  <2>138. entryRight(138)  BY DEF entryRight
  <2>139. entryRight(139)  BY DEF entryRight
  <2>140. entryRight(140)  BY DEF entryRight
  <2>141. entryRight(141)  BY DEF entryRight
  <2>142. entryRight(142)  BY DEF entryRight
  <2>143. entryRight(143)  BY DEF entryRight
  <2> QED BY <2>128, <2>129, <2>130, <2>131, <2>132, <2>133, <2>134, <2>135,
            <2>136, <2>137, <2>138, <2>139, <2>140, <2>141, <2>142, <2>143
<1>9. \A v \in 144..159 : entryRight(v)
  <2>144. entryRight(144)  BY DEF entryRight
  <2>145. entryRight(145)  BY DEF entryRight
  <2>146. entryRight(146)  BY DEF entryRight
  <2>147. entryRight(147)  BY DEF entryRight
  <2>148. entryRight(148)  BY DEF entryRight
  <2>149. entryRight(149)  BY DEF entryRight
  <2>150. entryRight(150)  BY DEF entryRight
  <2>151. entryRight(151)  BY DEF entryRight
  <2>152. entryRight(152)  BY DEF entryRight
  <2>153. entryRight(153)  BY DEF entryRight
  <2>154. entryRight(154)  BY DEF entryRight
  <2>155. entryRight(155)  BY DEF entryRight
  <2>156. entryRight(156)  BY DEF entryRight
  <2>157. entryRight(157)  BY DEF entryRight
  <2>158. entryRight(158)  BY DEF entryRight
  <2>159. entryRight(159)  BY DEF entryRight
  <2> QED BY <2>144, <2>145, <2>146, <2>147, <2>148, <2>149, <2>150, <2>151,
            <2>152, <2>153, <2>154, <2>155, <2>156, <2>157, <2>158, <2>159
<1>10. \A v \in 160..175 : entryRight(v)
  <2>160. entryRight(160)  BY DEF entryRight
  <2>161. entryRight(161)  BY DEF entryRight
  <2>162. entryRight(162)  BY DEF entryRight
  <2>163. entryRight(163)  BY DEF entryRight
  <2>164. entryRight(164)  BY DEF entryRight
  <2>165. entryRight(165)  BY DEF entryRight
  <2>166. entryRight(166)  BY DEF entryRight
  <2>167. entryRight(167)  BY DEF entryRight
  <2>168. entryRight(168)  BY DEF entryRight
  <2>169. entryRight(169)  BY DEF entryRight
  <2>170. entryRight(170)  BY DEF entryRight
  <2>171. entryRight(171)  BY DEF entryRight
  <2>172. entryRight(172)  BY DEF entryRight
  <2>173. entryRight(173)  BY DEF entryRight
  <2>174. entryRight(174)  BY DEF entryRight
  <2>175. entryRight(175)  BY DEF entryRight
  <2> QED BY <2>160, <2>161, <2>162, <2>163, <2>164, <2>165, <2>166, <2>167,
            <2>168, <2>169, <2>170, <2>171, <2>172, <2>173, <2>174, <2>175
<1>11. \A v \in 176..191 : entryRight(v)
  <2>176. entryRight(176)  BY DEF entryRight
  <2>177. entryRight(177)  BY DEF entryRight
  <2>178. entryRight(178)  BY DEF entryRight
  <2>179. entryRight(179)  BY DEF entryRight
  <2>180. entryRight(180)  BY DEF entryRight
  <2>181. entryRight(181)  BY DEF entryRight
  <2>182. entryRight(182)  BY DEF entryRight
  <2>183. entryRight(183)  BY DEF entryRight
  <2>184. entryRight(184)  BY DEF entryRight
  <2>185. entryRight(185)  BY DEF entryRight
  <2>186. entryRight(186)  BY DEF entryRight
  <2>187. entryRight(187)  BY DEF entryRight
  <2>188. entryRight(188)  BY DEF entryRight
  <2>189. entryRight(189)  BY DEF entryRight
  <2>190. entryRight(190)  BY DEF entryRight
  <2>191. entryRight(191)  BY DEF entryRight
  <2> QED BY <2>176, <2>177, <2>178, <2>179, <2>180, <2>181, <2>182, <2>183,
            <2>184, <2>185, <2>186, <2>187, <2>188, <2>189, <2>190, <2>191
<1>12. \A v \in 192..207 : entryRight(v)
  <2>192. entryRight(192)  BY DEF entryRight
  <2>193. entryRight(193)  BY DEF entryRight
  <2>194. entryRight(194)  BY DEF entryRight
  <2>195. entryRight(195)  BY DEF entryRight
  <2>196. entryRight(196)  BY DEF entryRight
  <2>197. entryRight(197)  BY DEF entryRight
  <2>198. entryRight(198)  BY DEF entryRight
  <2>199. entryRight(199)  BY DEF entryRight
  <2>200. entryRight(200)  BY DEF entryRight
  <2>201. entryRight(201)  BY DEF entryRight
  <2>202. entryRight(202)  BY DEF entryRight
  <2>203. entryRight(203)  BY DEF entryRight
  <2>204. entryRight(204)  BY DEF entryRight
  <2>205. entryRight(205)  BY DEF entryRight
  <2>206. entryRight(206)  BY DEF entryRight
  <2>207. entryRight(207)  BY DEF entryRight
  <2> QED BY <2>192, <2>193, <2>194, <2>195, <2>196, <2>197, <2>198, <2>199,
            <2>200, <2>201, <2>202, <2>203, <2>204, <2>205, <2>206, <2>207
<1>13. \A v \in 208..223 : entryRight(v)
  <2>208. entryRight(208)  BY DEF entryRight
  <2>209. entryRight(209)  BY DEF entryRight
  <2>210. entryRight(210)  BY DEF entryRight
  <2>211. entryRight(211)  BY DEF entryRight
  <2>212. entryRight(212)  BY DEF entryRight
  <2>213. entryRight(213)  BY DEF entryRight
  <2>214. entryRight(214)  BY DEF entryRight
  <2>215. entryRight(215)  BY DEF entryRight
  <2>216. entryRight(216)  BY DEF entryRight
  <2>217. entryRight(217)  BY DEF entryRight
  <2>218. entryRight(218)  BY DEF entryRight
  <2>219. entryRight(219)  BY DEF entryRight
  <2>220. entryRight(220)  BY DEF entryRight
  <2>221. entryRight(221)  BY DEF entryRight
  <2>222. entryRight(222)  BY DEF entryRight
  <2>223. entryRight(223)  BY DEF entryRight
  <2> QED BY <2>208, <2>209, <2>210, <2>211, <2>212, <2>213, <2>214, <2>215,
            <2>216, <2>217, <2>218, <2>219, <2>220, <2>221, <2>222, <2>223
<1>14. \A v \in 224..239 : entryRight(v)
  <2>224. entryRight(224)  BY DEF entryRight
  <2>225. entryRight(225)  BY DEF entryRight
  <2>226. entryRight(226)  BY DEF entryRight
  <2>227. entryRight(227)  BY DEF entryRight
  <2>228. entryRight(228)  BY DEF entryRight
  <2>229. entryRight(229)  BY DEF entryRight
  <2>230. entryRight(230)  BY DEF entryRight
  <2>231. entryRight(231)  BY DEF entryRight
  <2>232. entryRight(232)  BY DEF entryRight
  <2>233. entryRight(233)  BY DEF entryRight
  <2>234. entryRight(234)  BY DEF entryRight
  <2>235. entryRight(235)  BY DEF entryRight
  <2>236. entryRight(236)  BY DEF entryRight
  <2>237. entryRight(237)  BY DEF entryRight
  <2>238. entryRight(238)  BY DEF entryRight
  <2>239. entryRight(239)  BY DEF entryRight
  <2> QED BY <2>224, <2>225, <2>226, <2>227, <2>228, <2>229, <2>230, <2>231,
            <2>232, <2>233, <2>234, <2>235, <2>236, <2>237, <2>238, <2>239
<1>15. \A v \in 240..255 : entryRight(v)
  <2>240. entryRight(240)  BY DEF entryRight
  <2>241. entryRight(241)  BY DEF entryRight
  <2>242. entryRight(242)  BY DEF entryRight
  <2>243. entryRight(243)  BY DEF entryRight
  <2>244. entryRight(244)  BY DEF entryRight
  <2>245. entryRight(245)  BY DEF entryRight
  <2>246. entryRight(246)  BY DEF entryRight
  <2>247. entryRight(247)  BY DEF entryRight
  <2>248. entryRight(248)  BY DEF entryRight
  <2>249. entryRight(249)  BY DEF entryRight
  <2>250. entryRight(250)  BY DEF entryRight
  <2>251. entryRight(251)  BY DEF entryRight
  <2>252. entryRight(252)  BY DEF entryRight
  <2>253. entryRight(253)  BY DEF entryRight
  <2>254. entryRight(254)  BY DEF entryRight
  <2>255. entryRight(255)  BY DEF entryRight
  <2> QED BY <2>240, <2>241, <2>242, <2>243, <2>244, <2>245, <2>246, <2>247,
            <2>248, <2>249, <2>250, <2>251, <2>252, <2>253, <2>254, <2>255
<1> QED BY <1>0, <1>1, <1>2, <1>3, <1>4, <1>5, <1>6, <1>7, <1>8, <1>9, <1>10, <1>11, <1>12, <1>13, <1>14, <1>15

\* What memcrc makes of its register with one byte is what the division makes of the
\* remainder.
LEMMA ByteUpdated ==
    ASSUME longBits \in LongBits, NEW w, w \subseteq 0..31, NEW byte \in 0..255
    PROVE  updated(w, byte) = withByte(w, byte) /\ withByte(w, byte) \subseteq 0..31
<1> DEFINE x == xored(topByte(w), bits(byte))
<1>1. x \subseteq 0..7
  BY ByteBits DEF xored, topByte
<1>2. isDivided(withByte(w, byte), w, quotient(x), 0)
  BY ByteDivided
<1>3. updated(w, byte) = xored(UNSIGNED(shiftedLeft(w)), crctab(number(x)))
  BY DEF updated
<1> HIDE DEF x
<1>4. PICK v \in 0..255 : v = number(x) /\ bits(v) = x
  BY <1>1, NumberBits
<1>5. \A e \in 0..31 : e \in crctab(v) <=> inProduct(quotient(x), e)
  BY <1>4, TableRight DEF entryRight
<1>6. UNSIGNED(shiftedLeft(w)) = {e \in 8..31 : e - 8 \in w}
  BY CksumAssumption DEF UNSIGNED, shiftedLeft
<1>7. crctab(v) \subseteq 0..31
  BY EntryBits
<1>8. \A e \in 0..31 : e \in withByte(w, byte) <=> differ(e - 8 \in w, inProduct(quotient(x), e))
  <2>1. quotient(x) \cap 0..7 = quotient(x)
    BY DEF quotient
  <2>2. \A e \in 0..31 : e + 0 - 8 = e - 8 /\ e + 0 = e
    OBVIOUS
  <2> QED BY <1>2, <2>1, <2>2 DEF isDivided, differ
<1>9. withByte(w, byte) \subseteq 0..31
  BY <1>2 DEF isDivided
<1>10. updated(w, byte) \subseteq 0..31
  BY <1>3, <1>4, <1>6, <1>7 DEF xored
<1>11. ASSUME NEW e \in 0..31 PROVE e \in updated(w, byte) <=> e \in withByte(w, byte)
  <2>1. e \in {d \in 8..31 : d - 8 \in w} <=> e - 8 \in w
    OBVIOUS
  <2>2. e \in updated(w, byte) <=> differ(e - 8 \in w, e \in crctab(v))
    BY <1>3, <1>4, <1>6, <2>1 DEF xored, differ
  <2> QED BY <1>5, <1>8, <2>2 DEF differ
<1> QED BY <1>9, <1>10, <1>11

-----------------------------------------------------------------------------
(* memcrc *)

Byte == 0..255

\* The invariant: memcrc takes bytes, and its register is the remainder.
CrcInv ==
    /\ longBits \in LongBits
    /\ b \in Seq(Byte) /\ i \in 0..Len(b) /\ n \in Nat
    /\ rest \in [content : SUBSET (0..31), all : SUBSET (0..31)]
    /\ RegisterIsRemainder

LEMMA CrcInvInit == MemcrcInit => CrcInv
BY DEF MemcrcInit, CrcInv, RegisterIsRemainder

LEMMA CrcInvCall ==
    ASSUME CrcInv, NEW buffer \in Seq(Byte), memcrc(buffer) PROVE CrcInv'
BY DEF memcrc, CrcInv, RegisterIsRemainder

LEMMA CrcInvStep == CrcInv /\ (MemcrcStep \/ UNCHANGED memcrcVars) => CrcInv'
<1> SUFFICES ASSUME CrcInv, MemcrcStep \/ UNCHANGED memcrcVars PROVE CrcInv'
  OBVIOUS
<1>1. CASE ContentByte
  <2>1. b[i + 1] \in 0..255 /\ s = rest.all /\ rest.all \subseteq 0..31 /\ longBits \in LongBits
    <3>1. b \in Seq(Byte) /\ i + 1 \in 1..Len(b)
      BY <1>1 DEF ContentByte, CrcInv
    <3>2. b[i + 1] \in Byte
      BY <3>1
    <3> QED BY <1>1, <3>2 DEF Byte, ContentByte, CrcInv, RegisterIsRemainder
  <2>2. PICK r \in SUBSET (0..31) : r = withByte(rest.all, b[i + 1]) /\ r = updated(s, b[i + 1])
    BY <2>1, ByteUpdated
  <2>3. s' = r /\ rest' = [content |-> r, all |-> r]
    BY <1>1, <2>2 DEF ContentByte
  <2>4. b' = b /\ i' \in 0..Len(b)
    BY <1>1 DEF ContentByte, CrcInv
  <2>5. phase' = "content" /\ n' = n /\ longBits' = longBits
    BY <1>1 DEF ContentByte
  <2>6. rest' \in [content : SUBSET (0..31), all : SUBSET (0..31)] /\ rest'.all = r
    BY <2>3
  <2>7. RegisterIsRemainder'
    BY <2>3, <2>5, <2>6 DEF RegisterIsRemainder
  <2> QED BY <2>4, <2>5, <2>6, <2>7 DEF CrcInv
<1>2. CASE ContentDone
  BY <1>2 DEF ContentDone, CrcInv, RegisterIsRemainder
<1>3. CASE LengthByte
  <2>1. n % 256 \in 0..255 /\ n \div 256 \in Nat
    BY DEF CrcInv
  <2>2. s = rest.all /\ rest.all \subseteq 0..31 /\ longBits \in LongBits
    BY <1>3 DEF LengthByte, CrcInv, RegisterIsRemainder
  <2>3. PICK r \in SUBSET (0..31) : r = withByte(rest.all, n % 256) /\ r = updated(s, n % 256)
    BY <2>1, <2>2, ByteUpdated
  <2>4. s' = r /\ rest' = [rest EXCEPT !.all = r]
    BY <1>3, <2>3 DEF LengthByte
  <2> QED BY <1>3, <2>1, <2>4 DEF LengthByte, CrcInv, RegisterIsRemainder
<1>4. CASE Return
  <2>1. s = rest.all /\ rest.all \subseteq 0..31
    BY <1>4 DEF Return, CrcInv, RegisterIsRemainder
  <2>2. UNSIGNED(Inverted(s)) = 0..31 \ rest.all
    <3>1. longBits = 32 \/ longBits = 64
      BY CksumAssumption DEF CrcInv
    <3> QED BY <2>1, <3>1 DEF UNSIGNED, Inverted
  <2> QED BY <1>4, <2>2 DEF Return, CrcInv, RegisterIsRemainder
<1>5. CASE UNCHANGED memcrcVars
  BY <1>5 DEF memcrcVars, CrcInv, RegisterIsRemainder
<1> QED BY <1>1, <1>2, <1>3, <1>4, <1>5 DEF MemcrcStep

LEMMA CrcInvImplies == CrcInv => RegisterIsRemainder /\ IndexInTable
BY DEF CrcInv, RegisterIsRemainder, IndexInTable, fitsByte

-----------------------------------------------------------------------------
(* Both *)

\* The steps of memcrc are none of the call's other variables, and the call does
\* nothing else while it runs.
LEMMA PreparationStep == [Next]_vars => [FileNext]_fileVars
BY DEF Next, vars, CallMemcrc, TakeChecksum, FileStep, FileNext

PreparationInv == FileInv /\ CrcInv

LEMMA PreparationInvHolds == Spec => []PreparationInv
<1>1. Init => PreparationInv
  BY FileInvInit, CrcInvInit DEF Init, PreparationInv
<1>2. PreparationInv /\ [Next]_vars => PreparationInv'
  <2> SUFFICES ASSUME PreparationInv, [Next]_vars PROVE PreparationInv'
    OBVIOUS
  <2>1. FileInv'
    BY FileInvNext, PreparationStep DEF PreparationInv
  <2>2. CrcInv'
    <3>1. CASE CallMemcrc
      <4>1. rawBuffer \in Seq(Byte)
        <5>1. rawBuffer \in Seq(Pieces) /\ Pieces \subseteq Byte
          BY FilePreparationAssumption DEF PreparationInv, FileInv, LocalsInv, Byte
        <5>2. \A k \in 1..Len(rawBuffer) : rawBuffer[k] \in Byte
          BY <5>1
        <5>3. rawBuffer \in [1..Len(rawBuffer) -> Byte] /\ Len(rawBuffer) \in Nat
          BY <5>1, <5>2
        <5> QED BY <5>3
      <4> QED BY <3>1, <4>1, CrcInvCall DEF CallMemcrc, PreparationInv
    <3>2. CASE MemcrcStep \/ UNCHANGED memcrcVars
      BY <3>2, CrcInvStep DEF PreparationInv
    <3> QED BY <3>1, <3>2 DEF Next, TakeChecksum, vars
  <2> QED BY <2>1, <2>2 DEF PreparationInv
<1> QED BY <1>1, <1>2, PTL DEF Spec

\* What is read of a file fits the buffer that was made for the size it had, whatever
\* another program makes of it meanwhile (createEncryptedFile).
THEOREM BufferFits == Spec => []TypeOK
BY PreparationInvHolds, FileInvImplies, PTL DEF PreparationInv

\* A file that keeps what it had when its size was taken, be it with more behind it, is
\* encrypted exactly as it was then (createEncryptedFile).
THEOREM FileExact == Spec => []StableFileExact
BY PreparationInvHolds, FileInvImplies, PTL DEF PreparationInv

\* What createEncryptedFile returns is whole blocks, for files and blocks of any size; the
\* only exception is an empty file whose encryption fails with a key of the right size,
\* which the check of the ciphertext lets pass.
THEOREM CiphertextWhole == Spec => []WholeBlocks
BY PreparationInvHolds, FileInvImplies, PTL DEF PreparationInv

\* The register of memcrc is, after every byte of whatever content and of its length,
\* the remainder of the division by the POSIX generator: all 256 entries of the table,
\* the masks and the shifts are right, for both widths of unsigned long.
THEOREM RegisterDivides == Spec => []RegisterIsRemainder
BY PreparationInvHolds, CrcInvImplies, PTL DEF PreparationInv

\* memcrc never reads behind the end of its table, for contents of any length.
THEOREM TableKept == Spec => []IndexInTable
BY PreparationInvHolds, CrcInvImplies, PTL DEF PreparationInv
=============================================================================
