--------------------------- MODULE InfoTextProofs ---------------------------
(***************************************************************************)
(* A me.info that was written to its end is loaded as what was saved, for    *)
(* every name without a newline, every UUID and every key; and wherever the *)
(* writes end, the texts are the records that ConfigManager has of them.     *)
(***************************************************************************)
EXTENDS InfoText, SequenceTheorems, TLAPS

-----------------------------------------------------------------------------
(* Hex digits *)

LEMMA DigitValues ==
    \A v \in 0..15 : isDigit(Digits[v + 1]) /\ digitValue[Digits[v + 1]] = v
<1> SUFFICES ASSUME NEW v \in 0..15 PROVE isDigit(Digits[v + 1]) /\ digitValue[Digits[v + 1]] = v
  OBVIOUS
<1>1. \A u, w \in 1..16 : Digits[u] \in {Digits[w], UpperDigits[w]} => u = w
  BY DEF Digits, UpperDigits
<1>2. PICK k \in 1..16 : k = v + 1
  OBVIOUS
<1>3. isDigit(Digits[k])
  BY DEF isDigit, digitValue
<1>4. digitValue[Digits[k]]
        = CHOOSE value \in 0..15 : Digits[k] \in {Digits[value + 1], UpperDigits[value + 1]}
  BY DEF digitValue
<1>5. Digits[k] \in {Digits[v + 1], UpperDigits[v + 1]}
  BY <1>2
<1>6. \A value \in 0..15 : Digits[k] \in {Digits[value + 1], UpperDigits[value + 1]} => value = v
  BY <1>1, <1>2
<1>7. digitValue[Digits[k]] = v
  BY <1>4, <1>5, <1>6
<1> QED BY <1>2, <1>3, <1>7

LEMMA DigitsPlain == \A k \in 1..16 : Digits[k] \in Chars /\ Digits[k] # NewLine
<1>1. \A k \in 1..16 : Digits[k] \in {"0", "1", "2", "3", "4", "5", "6", "7",
                                     "8", "9", "a", "b", "c", "d", "e", "f"}
  BY DEF Digits
<1>2. \A c \in {"0", "1", "2", "3", "4", "5", "6", "7",
                "8", "9", "a", "b", "c", "d", "e", "f"} : c # "\n"
  OBVIOUS
<1>3. \A k \in 1..16 : Digits[k] \in Chars
  BY InfoTextAssumption
<1> QED BY <1>1, <1>2, <1>3 DEF NewLine

\* A UUID written in hex and read back is the same.
LEMMA UuidRead ==
    ASSUME NEW bytes \in UuidBytes
    PROVE  /\ toHex(bytes) \in Seq(Chars) /\ Len(toHex(bytes)) = 32
           /\ free(toHex(bytes), NewLine)
           /\ isUuid(toHex(bytes)) /\ toBytes(toHex(bytes)) = bytes
<1>1. PICK hex : hex = toHex(bytes)
  OBVIOUS
<1>2. \A k \in 1..16 : bytes[k] \in 0..255
  BY DEF UuidBytes
<1>3. \A b \in 0..255 : b \div 16 \in 0..15 /\ b % 16 \in 0..15 /\ 16 * (b \div 16) + (b % 16) = b
  OBVIOUS
<1>4. hex = [k \in 1..32 |->
               Digits[1 + (IF k % 2 = 1 THEN bytes[(k + 1) \div 2] \div 16
                                        ELSE bytes[(k + 1) \div 2] % 16)]]
  BY <1>1 DEF toHex
<1>5. \A i \in 1..16 : /\ hex[2 * i - 1] = Digits[1 + (bytes[i] \div 16)]
                       /\ hex[2 * i] = Digits[1 + (bytes[i] % 16)]
  <2>1. SUFFICES ASSUME NEW i \in 1..16
                 PROVE  /\ hex[2 * i - 1] = Digits[1 + (bytes[i] \div 16)]
                        /\ hex[2 * i] = Digits[1 + (bytes[i] % 16)]
    OBVIOUS
  <2>2. /\ 2 * i - 1 \in 1..32 /\ (2 * i - 1) % 2 = 1 /\ (2 * i - 1 + 1) \div 2 = i
        /\ 2 * i \in 1..32 /\ (2 * i) % 2 # 1 /\ (2 * i + 1) \div 2 = i
    OBVIOUS
  <2>3. hex[2 * i - 1] = Digits[1 + (bytes[i] \div 16)]
    <3>1. PICK j \in 1..32 : j = 2 * i - 1 /\ j % 2 = 1 /\ (j + 1) \div 2 = i
      BY <2>2
    <3>2. hex[j] = Digits[1 + (bytes[i] \div 16)]
      BY <1>4, <3>1
    <3> QED BY <3>1, <3>2
  <2>4. hex[2 * i] = Digits[1 + (bytes[i] % 16)]
    <3>1. PICK j \in 1..32 : j = 2 * i /\ j % 2 # 1 /\ (j + 1) \div 2 = i
      BY <2>2
    <3>2. hex[j] = Digits[1 + (bytes[i] % 16)]
      BY <1>4, <3>1
    <3> QED BY <3>1, <3>2
  <2> QED BY <2>3, <2>4
<1>6. \A k \in 1..32 : \E j \in 1..16 : hex[k] = Digits[j]
  <2>1. SUFFICES ASSUME NEW k \in 1..32 PROVE \E j \in 1..16 : hex[k] = Digits[j]
    OBVIOUS
  <2>2. PICK i \in 1..16 : k = 2 * i - 1 \/ k = 2 * i
    OBVIOUS
  <2>3. PICK h, l \in 1..16 : h = 1 + (bytes[i] \div 16) /\ l = 1 + (bytes[i] % 16)
    <3>1. bytes[i] \div 16 \in 0..15 /\ bytes[i] % 16 \in 0..15
      BY <1>2, <1>3
    <3> QED BY <3>1
  <2>4. hex[2 * i - 1] = Digits[h] /\ hex[2 * i] = Digits[l]
    BY <1>5, <2>3, Zenon
  <2> QED BY <2>2, <2>4
<1>7. \A k \in 1..32 : hex[k] \in Chars /\ hex[k] # NewLine
  BY <1>6, DigitsPlain
<1>8. hex \in Seq(Chars) /\ Len(hex) = 32
  BY <1>4, <1>7
<1>9. ASSUME NEW i \in 1..16
      PROVE  /\ isByte(hex[2 * i - 1], hex[2 * i])
             /\ byteValue(hex[2 * i - 1], hex[2 * i]) = bytes[i]
  <2>1. PICK h, l \in 0..15 : /\ h = bytes[i] \div 16 /\ l = bytes[i] % 16
                              /\ 16 * h + l = bytes[i]
    BY <1>2, <1>3
  <2>2. hex[2 * i - 1] = Digits[h + 1] /\ hex[2 * i] = Digits[l + 1]
    <3>1. 1 + h = h + 1 /\ 1 + l = l + 1
      OBVIOUS
    <3> QED BY <1>5, <2>1, <3>1, Zenon
  <2>3. isDigit(Digits[h + 1]) /\ isDigit(Digits[l + 1])
        /\ digitValue[Digits[h + 1]] = h /\ digitValue[Digits[l + 1]] = l
    BY DigitValues
  <2> QED BY <2>1, <2>2, <2>3, Zenon DEF isByte, byteValue
<1>10. isUuid(hex)
  BY <1>8, <1>9 DEF isUuid
<1>11. toBytes(hex) = bytes
  BY <1>9 DEF toBytes, UuidBytes
<1>12. free(hex, NewLine)
  <2>1. DOMAIN hex = 1..32
    BY <1>4
  <2> QED BY <1>7, <2>1 DEF free
<1> QED BY <1>1, <1>8, <1>10, <1>11, <1>12, Zenon

-----------------------------------------------------------------------------
(* Texts and their lines *)

LEMMA Single == ASSUME NEW c \in Chars PROVE <<c>> \in Seq(Chars) /\ Len(<<c>>) = 1 /\ <<c>>[1] = c
OBVIOUS

\* s followed by t.
joined(u, s, t) == u = s \o t

\* part stands in the text, behind its first `at` characters.
holdsAt(text, at, part) ==
    at + Len(part) <= Len(text) /\ \A i \in 1..Len(part) : text[at + i] = part[i]

LEMMA JoinedSeq ==
    ASSUME NEW s \in Seq(Chars), NEW t \in Seq(Chars), NEW u, joined(u, s, t)
    PROVE  u \in Seq(Chars) /\ Len(u) = Len(s) + Len(t)
BY DEF joined

LEMMA JoinedElements ==
    ASSUME NEW s \in Seq(Chars), NEW t \in Seq(Chars), NEW u, joined(u, s, t)
    PROVE  /\ \A i \in 1..Len(s) : u[i] = s[i]
           /\ \A i \in 1..Len(t) : u[Len(s) + i] = t[i]
BY DEF joined

LEMMA Joined ==
    ASSUME NEW s \in Seq(Chars), NEW t \in Seq(Chars), NEW u, joined(u, s, t)
    PROVE  /\ u \in Seq(Chars) /\ Len(u) = Len(s) + Len(t)
           /\ holdsAt(u, Len(s), t)
           /\ \A part \in Seq(Chars), at \in Nat : holdsAt(s, at, part) => holdsAt(u, at, part)
<1>1. u \in Seq(Chars) /\ Len(u) = Len(s) + Len(t)
  BY JoinedSeq
<1>2. holdsAt(u, Len(s), t)
  BY <1>1, JoinedElements DEF holdsAt
<1>3. ASSUME NEW part \in Seq(Chars), NEW at \in Nat, holdsAt(s, at, part)
      PROVE  holdsAt(u, at, part)
  <2>1. at + Len(part) <= Len(s) /\ Len(s) \in Nat /\ Len(t) \in Nat /\ Len(part) \in Nat
    BY <1>3 DEF holdsAt
  <2>2. at + Len(part) <= Len(u)
    BY <1>1, <2>1
  <2>3. \A i \in 1..Len(part) : u[at + i] = part[i]
    <3>1. \A i \in 1..Len(part) : at + i \in 1..Len(s)
      BY <2>1
    <3>2. \A i \in 1..Len(part) : s[at + i] = part[i]
      BY <1>3 DEF holdsAt
    <3>3. \A i \in 1..Len(s) : u[i] = s[i]
      BY JoinedElements
    <3> QED BY <3>1, <3>2, <3>3
  <2> QED BY <2>2, <2>3 DEF holdsAt
<1> QED BY <1>1, <1>2, <1>3

LEMMA Cut ==
    ASSUME NEW text \in Seq(Chars), NEW part \in Seq(Chars), NEW at \in Nat,
           holdsAt(text, at, part)
    PROVE  SubSeq(text, at + 1, at + Len(part)) = part
<1>1. at + Len(part) <= Len(text) /\ \A i \in 1..Len(part) : text[at + i] = part[i]
  BY DEF holdsAt
<1>2. PICK cut : cut = SubSeq(text, at + 1, at + Len(part))
  OBVIOUS
<1>3. cut \in Seq(Chars) /\ Len(cut) = Len(part)
      /\ \A i \in 1..Len(part) : cut[i] = text[at + i]
  <2>1. at + Len(part) <= Len(text) /\ Len(part) \in Nat
    BY <1>1
  <2>2. cut \in Seq(Chars) /\ Len(cut) = Len(part)
    BY <1>2, <2>1
  <2>3. \A i \in 1..Len(part) : cut[i] = text[at + i]
    BY <1>2, <2>1
  <2> QED BY <2>2, <2>3
<1>4. \A i \in 1..Len(part) : cut[i] = part[i]
  BY <1>1, <1>3
<1> QED BY <1>2, <1>3, <1>4, SeqEqual

\* std::getline stops at the first newline.
LEMMA LineEnd ==
    ASSUME NEW text \in Seq(Chars), NEW start \in Nat \ {0}, NEW e \in start..Len(text),
           text[e] = NewLine, \A k \in start..(e - 1) : text[k] # NewLine
    PROVE  lineEnd(text, start) = e
<1> DEFINE ends == {k \in start..Len(text) : text[k] = NewLine}
<1>1. e \in ends /\ ends \subseteq Int
  OBVIOUS
<1>2. \A k \in ends : e <= k
  OBVIOUS
<1>3. \A f \in ends : (\A k \in ends : f <= k) => f = e
  BY <1>1, <1>2
<1>4. (CHOOSE f \in ends : \A k \in ends : f <= k) = e
  <2> HIDE DEF ends
  <2> QED BY <1>1, <1>2, <1>3
<1>5. ends # {}
  BY <1>1
<1> QED BY <1>4, <1>5 DEF lineEnd

\* A line of the text, and where the next one starts.
LEMMA LineRead ==
    ASSUME NEW text \in Seq(Chars), NEW part \in Seq(Chars), NEW at \in Nat,
           free(part, NewLine), holdsAt(text, at, part),
           holdsAt(text, at + Len(part), <<NewLine>>)
    PROVE  line(text, at + 1) = part /\ next(text, at + 1) = at + Len(part) + 2
<1>1. PICK e \in Nat : e = at + Len(part) + 1 /\ at + 1 <= e
  OBVIOUS
<1>2. e <= Len(text) /\ text[e] = NewLine
  <2>1. NewLine \in Chars
    BY InfoTextAssumption
  <2>2. PICK nl : nl = <<NewLine>> /\ Len(nl) = 1 /\ nl[1] = NewLine
    BY <2>1, Single
  <2> QED BY <1>1, <2>2 DEF holdsAt
<1>3. \A i \in 1..Len(part) : text[at + i] # NewLine
  BY DEF holdsAt, free
<1>4. \A j \in (at + 1)..(e - 1) : text[j] # NewLine
  <2>1. \A j \in (at + 1)..(e - 1) : j - at \in 1..Len(part) /\ j = at + (j - at)
    BY <1>1
  <2> QED BY <1>3, <2>1
<1>5. lineEnd(text, at + 1) = e
  <2>1. at + 1 \in Nat \ {0} /\ e \in (at + 1)..Len(text)
    BY <1>1, <1>2
  <2> QED BY <1>2, <1>4, <2>1, LineEnd
<1>6. SubSeq(text, at + 1, e - 1) = part
  <2>1. e - 1 = at + Len(part)
    BY <1>1
  <2> QED BY <2>1, Cut
<1>7. e + 1 = at + Len(part) + 2
  BY <1>1
<1> QED BY <1>5, <1>6, <1>7 DEF line, next

LEMMA KeyType ==
    ASSUME NEW p \in Procs
    PROVE  KeyText[p] \in Seq(Chars) /\ Len(KeyText[p]) > 0 /\ free(KeyText[p], NewLine)
<1>1. KeyText[p] \in Seq(Chars) /\ KeyText[p] # <<>> /\ free(KeyText[p], NewLine)
  BY InfoTextAssumption
<1> QED BY <1>1

LEMMA NameType == ASSUME NEW n \in Names PROVE NameText[n] \in Seq(Chars)
BY InfoTextAssumption

\* Where the lines of me.info stand.
LEMMA Layout ==
    ASSUME NEW n \in Names, NEW p \in Procs
    PROVE  LET text == contents(n, p)
               first == Len(NameText[n])
           IN  /\ text \in Seq(Chars)
               /\ holdsAt(text, 0, NameText[n])
               /\ holdsAt(text, first, <<NewLine>>)
               /\ holdsAt(text, first + 1, toHex(Uuid[p]))
               /\ holdsAt(text, first + 33, <<NewLine>>)
               /\ holdsAt(text, first + 34, KeyText[p])
               /\ holdsAt(text, first + 34 + Len(KeyText[p]), <<NewLine>>)
<1>1. PICK a \in Seq(Chars) : a = NameText[n]
  BY NameType
<1>2. PICK k \in Seq(Chars) : k = KeyText[p]
  BY KeyType
<1>3. PICK h \in Seq(Chars) : h = toHex(Uuid[p]) /\ Len(h) = 32
  BY InfoTextAssumption, UuidRead
<1>4. PICK nl \in Seq(Chars) : nl = <<NewLine>> /\ Len(nl) = 1
  <2>1. NewLine \in Chars
    BY InfoTextAssumption
  <2> QED BY <2>1, Single
<1>5. PICK la \in Nat : la = Len(a)
  OBVIOUS
<1>6. PICK lk \in Nat : lk = Len(k)
  OBVIOUS
<1>7. holdsAt(a, 0, a)
  BY DEF holdsAt
<1>8. PICK t1 : joined(t1, a, nl)
  BY DEF joined
<1>9. PICK t2 : joined(t2, t1, h)
  BY DEF joined
<1>10. PICK t3 : joined(t3, t2, nl)
  BY DEF joined
<1>11. PICK t4 : joined(t4, t3, k)
  BY DEF joined
<1>12. PICK t5 : joined(t5, t4, nl)
  BY DEF joined
<1>13. t5 = contents(n, p)
  BY <1>1, <1>2, <1>3, <1>4, <1>8, <1>9, <1>10, <1>11, <1>12, Zenon DEF contents, joined
<1>14. /\ t1 \in Seq(Chars) /\ Len(t1) = la + 1
       /\ t2 \in Seq(Chars) /\ Len(t2) = la + 33
       /\ t3 \in Seq(Chars) /\ Len(t3) = la + 34
       /\ t4 \in Seq(Chars) /\ Len(t4) = la + 34 + lk
       /\ t5 \in Seq(Chars)
  <2>1. t1 \in Seq(Chars) /\ Len(t1) = la + 1
    BY <1>4, <1>5, <1>8, JoinedSeq
  <2>2. t2 \in Seq(Chars) /\ Len(t2) = la + 33
    <3>1. t2 \in Seq(Chars) /\ Len(t2) = Len(t1) + Len(h)
      BY <1>9, <2>1, JoinedSeq
    <3> QED BY <1>3, <2>1, <3>1
  <2>3. t3 \in Seq(Chars) /\ Len(t3) = la + 34
    <3>1. t3 \in Seq(Chars) /\ Len(t3) = Len(t2) + Len(nl)
      BY <1>10, <2>2, JoinedSeq
    <3> QED BY <1>4, <2>2, <3>1
  <2>4. t4 \in Seq(Chars) /\ Len(t4) = la + 34 + lk
    BY <1>6, <1>11, <2>3, JoinedSeq
  <2>5. t5 \in Seq(Chars)
    BY <1>12, <2>4, JoinedSeq
  <2> QED BY <2>1, <2>2, <2>3, <2>4, <2>5
<1>15. /\ holdsAt(t1, la, nl) /\ holdsAt(t2, la + 1, h) /\ holdsAt(t3, la + 33, nl)
       /\ holdsAt(t4, la + 34, k) /\ holdsAt(t5, la + 34 + lk, nl)
  <2>1. holdsAt(t1, la, nl) /\ holdsAt(t2, la + 1, h)
    BY <1>5, <1>8, <1>9, <1>14, Joined, Zenon
  <2>2. holdsAt(t3, la + 33, nl)
    BY <1>10, <1>14, Joined, Zenon
  <2>3. holdsAt(t4, la + 34, k)
    BY <1>11, <1>14, Joined, Zenon
  <2>4. holdsAt(t5, la + 34 + lk, nl)
    BY <1>12, <1>14, Joined, Zenon
  <2> QED BY <2>1, <2>2, <2>3, <2>4
<1>16. \A part \in Seq(Chars), at \in Nat :
          /\ holdsAt(a, at, part) => holdsAt(t1, at, part)
          /\ holdsAt(t1, at, part) => holdsAt(t2, at, part)
          /\ holdsAt(t2, at, part) => holdsAt(t3, at, part)
          /\ holdsAt(t3, at, part) => holdsAt(t4, at, part)
          /\ holdsAt(t4, at, part) => holdsAt(t5, at, part)
  BY <1>8, <1>9, <1>10, <1>11, <1>12, <1>14, Joined, Zenon
<1>17. la + 1 \in Nat /\ la + 33 \in Nat /\ la + 34 \in Nat /\ 0 \in Nat
  OBVIOUS
<1>18. /\ holdsAt(t5, 0, a) /\ holdsAt(t5, la, nl) /\ holdsAt(t5, la + 1, h)
       /\ holdsAt(t5, la + 33, nl) /\ holdsAt(t5, la + 34, k)
  BY <1>7, <1>15, <1>16, <1>17, Zenon
<1> QED BY <1>1, <1>2, <1>3, <1>4, <1>5, <1>6, <1>13, <1>14, <1>15, <1>18, Zenon

\* A me.info written to its end is loaded as what was saved.
LEMMA ContentsLoad ==
    ASSUME NEW n \in Names, NEW p \in Procs, free(NameText[n], NewLine)
    PROVE  /\ loads(contents(n, p))
           /\ loadClientInfo(contents(n, p)) =
                  [name |-> NameText[n], uuid |-> Uuid[p], key |-> KeyText[p]]
<1>1. PICK text \in Seq(Chars) : text = contents(n, p)
  BY Layout
<1>2. PICK a \in Seq(Chars) : a = NameText[n] /\ free(a, NewLine)
  BY NameType
<1>3. PICK k \in Seq(Chars) : k = KeyText[p] /\ free(k, NewLine) /\ Len(k) > 0
  BY KeyType
<1>4. PICK h \in Seq(Chars) : /\ h = toHex(Uuid[p]) /\ Len(h) = 32 /\ free(h, NewLine)
                            /\ isUuid(h) /\ toBytes(h) = Uuid[p]
  BY InfoTextAssumption, UuidRead
<1>5. PICK first \in Nat : first = Len(a)
  OBVIOUS
<1>6. /\ holdsAt(text, 0, a) /\ holdsAt(text, first, <<NewLine>>)
      /\ holdsAt(text, first + 1, h) /\ holdsAt(text, first + 33, <<NewLine>>)
      /\ holdsAt(text, first + 34, k) /\ holdsAt(text, first + 34 + Len(k), <<NewLine>>)
  BY <1>1, <1>2, <1>3, <1>4, <1>5, Layout, Zenon
<1>7. line(text, 1) = a /\ next(text, 1) = first + 2
  <2>1. 0 + Len(a) = first /\ 0 + 1 = 1 /\ 0 + Len(a) + 2 = first + 2 /\ 0 \in Nat
    BY <1>5
  <2>2. line(text, 0 + 1) = a /\ next(text, 0 + 1) = 0 + Len(a) + 2
    BY <1>2, <1>6, <2>1, LineRead
  <2> QED BY <2>1, <2>2
<1>8. line(text, first + 2) = h /\ next(text, first + 2) = first + 35
  <2>1. /\ first + 1 + Len(h) = first + 33 /\ first + 1 + 1 = first + 2
        /\ first + 1 + Len(h) + 2 = first + 35 /\ first + 1 \in Nat
    BY <1>4
  <2>2. holdsAt(text, first + 1 + Len(h), <<NewLine>>)
    BY <1>6, <2>1
  <2>3. line(text, first + 1 + 1) = h /\ next(text, first + 1 + 1) = first + 1 + Len(h) + 2
    BY <1>4, <1>6, <2>1, <2>2, LineRead, Zenon
  <2> QED BY <2>1, <2>3
<1>9. line(text, first + 35) = k
  <2>1. first + 34 + 1 = first + 35 /\ first + 34 \in Nat
    OBVIOUS
  <2>2. line(text, first + 34 + 1) = k
    BY <1>3, <1>6, <2>1, LineRead, Zenon
  <2> QED BY <2>1, <2>2
<1>10. uuidAt(text) = first + 2 /\ keyAt(text) = first + 35
  BY <1>7, <1>8 DEF uuidAt, keyAt
<1>11. loads(text)
  <2>1. first + 34 + Len(k) <= Len(text)
    BY <1>6 DEF holdsAt
  <2>2. first + 2 <= Len(text) /\ first + 35 <= Len(text) /\ Len(text) # 0
    <3>1. Len(k) \in Nat \ {0} /\ Len(text) \in Nat
      BY <1>3
    <3> QED BY <2>1, <3>1
  <2>3. text # <<>>
    BY <2>2
  <2> QED BY <1>4, <1>8, <1>10, <2>2, <2>3 DEF loads
<1>12. loadClientInfo(text) = [name |-> a, uuid |-> toBytes(h), key |-> k]
  BY <1>7, <1>8, <1>9, <1>10 DEF loadClientInfo
<1> QED BY <1>1, <1>2, <1>3, <1>4, <1>11, <1>12, Zenon

-----------------------------------------------------------------------------
(* A me.info that was cut *)

\* The first k characters of what is written.
isPart(text, goal, k) == text = SubSeq(goal, 1, k)

\* What stands in the part that was written.
LEMMA PartHolds ==
    ASSUME NEW goal \in Seq(Chars), NEW k \in 0..Len(goal),
           NEW text, isPart(text, goal, k)
    PROVE  /\ text \in Seq(Chars) /\ Len(text) = k
           /\ \A i \in 1..k : text[i] = goal[i]
           /\ \A part \in Seq(Chars), at \in Nat :
                  holdsAt(goal, at, part) /\ at + Len(part) <= k => holdsAt(text, at, part)
<1>1. text \in Seq(Chars) /\ Len(text) = k
  BY DEF isPart
<1>2. \A i \in 1..k : text[i] = goal[i]
  BY DEF isPart
<1>3. ASSUME NEW part \in Seq(Chars), NEW at \in Nat, holdsAt(goal, at, part),
             at + Len(part) <= k
      PROVE  holdsAt(text, at, part)
  <2>1. \A i \in 1..Len(part) : at + i \in 1..k
    BY <1>3
  <2>2. \A i \in 1..Len(part) : goal[at + i] = part[i]
    BY <1>3 DEF holdsAt
  <2>3. \A i \in 1..Len(part) : text[at + i] = part[i]
    BY <1>2, <2>1, <2>2
  <2> QED BY <1>1, <1>3, <2>3 DEF holdsAt
<1> QED BY <1>1, <1>2, <1>3

\* Where the write ended in a line, or right behind it, that line is cut and is the last.
LEMMA LastLine ==
    ASSUME NEW goal \in Seq(Chars), NEW k \in 0..Len(goal),
           NEW text, isPart(text, goal, k)
    PROVE  \A part \in Seq(Chars), at \in Nat :
               holdsAt(goal, at, part) /\ free(part, NewLine) /\ k <= at + Len(part) =>
                   /\ next(text, at + 1) = k + 2
                   /\ k > at => line(text, at + 1) = SubSeq(part, 1, k - at)
<1> SUFFICES ASSUME NEW part \in Seq(Chars), NEW at \in Nat,
                    holdsAt(goal, at, part), free(part, NewLine), k <= at + Len(part)
             PROVE  /\ next(text, at + 1) = k + 2
                    /\ k > at => line(text, at + 1) = SubSeq(part, 1, k - at)
  OBVIOUS
<1>1. text \in Seq(Chars) /\ Len(text) = k /\ \A i \in 1..k : text[i] = goal[i]
  BY PartHolds
<1>2. \A i \in 1..Len(part) : goal[at + i] = part[i] /\ part[i] # NewLine
  BY DEF holdsAt, free
<1>3. \A j \in (at + 1)..k : j - at \in 1..Len(part) /\ j = at + (j - at) /\ j \in 1..k
  OBVIOUS
<1>4. \A j \in (at + 1)..k : text[j] # NewLine /\ text[j] = part[j - at]
  BY <1>1, <1>2, <1>3
<1>5. lineEnd(text, at + 1) = k + 1
  BY <1>1, <1>4 DEF lineEnd
<1>6. next(text, at + 1) = k + 2
  BY <1>5 DEF next
<1>7. ASSUME k > at PROVE line(text, at + 1) = SubSeq(part, 1, k - at)
  <2>1. PICK m \in Nat : m = k - at /\ m <= Len(part) /\ k = at + m
    BY <1>7
  <2>2. PICK q : q = SubSeq(part, 1, m)
    OBVIOUS
  <2>3. q \in Seq(Chars) /\ Len(q) = m /\ \A i \in 1..m : q[i] = part[i]
    BY <2>1, <2>2
  <2>4. \A i \in 1..m : text[at + i] = part[i]
    <3>1. \A i \in 1..m : at + i \in (at + 1)..k /\ (at + i) - at = i
      BY <2>1
    <3> QED BY <1>4, <3>1
  <2>5. holdsAt(text, at, q)
    BY <1>1, <2>1, <2>3, <2>4 DEF holdsAt
  <2>6. SubSeq(text, at + 1, at + Len(q)) = q
    BY <1>1, <2>3, <2>5, Cut
  <2>7. at + Len(q) = (k + 1) - 1
    BY <2>1, <2>3
  <2> QED BY <1>5, <2>1, <2>2, <2>6, <2>7 DEF line
<1> QED BY <1>6, <1>7

\* How far the first k characters of contents(n, p) can be read.
isRead(text, n, p, k) ==
    LET first == Len(NameText[n])
    IN  /\ k <= first => uuidAt(text) = k + 2
        /\ k > first => uuidAt(text) = first + 2 /\ line(text, 1) = NameText[n]
        /\ k > first /\ k <= first + 33 => keyAt(text) = k + 2
        /\ k > first + 33 => /\ keyAt(text) = first + 35
                             /\ line(text, first + 2) = toHex(Uuid[p])
        /\ k > first + 34 /\ k <= first + 34 + Len(KeyText[p])
             => line(text, first + 35) = SubSeq(KeyText[p], 1, k - (first + 34))
        /\ k > first + 34 + Len(KeyText[p]) => line(text, first + 35) = KeyText[p]

LEMMA PartRead ==
    ASSUME NEW n \in Names, NEW p \in Procs, free(NameText[n], NewLine),
           NEW k \in 0..Len(contents(n, p)), NEW text, isPart(text, contents(n, p), k)
    PROVE  isRead(text, n, p, k)
<1>1. PICK first \in Nat : first = Len(NameText[n])
  BY NameType
<1>2. PICK goal \in Seq(Chars) : goal = contents(n, p)
  BY Layout
<1>3. PICK a \in Seq(Chars) : a = NameText[n] /\ free(a, NewLine) /\ Len(a) = first
  BY <1>1, NameType
<1>4. PICK key \in Seq(Chars) : key = KeyText[p] /\ free(key, NewLine)
  BY KeyType
<1>5. PICK h \in Seq(Chars) : h = toHex(Uuid[p]) /\ Len(h) = 32 /\ free(h, NewLine)
  BY InfoTextAssumption, UuidRead
<1>6. PICK nl \in Seq(Chars) : nl = <<NewLine>> /\ Len(nl) = 1
  <2>1. NewLine \in Chars
    BY InfoTextAssumption
  <2> QED BY <2>1, Single
<1>7. /\ holdsAt(goal, 0, a) /\ holdsAt(goal, first, nl)
      /\ holdsAt(goal, first + 1, h) /\ holdsAt(goal, first + 33, nl)
      /\ holdsAt(goal, first + 34, key) /\ holdsAt(goal, first + 34 + Len(key), nl)
  BY <1>2, <1>3, <1>4, <1>5, <1>6, <1>1, Layout, Zenon
<1>8. k \in 0..Len(goal) /\ isPart(text, goal, k) /\ k \in Nat
  BY <1>2
<1>9. /\ text \in Seq(Chars)
      /\ \A part \in Seq(Chars), at \in Nat :
            holdsAt(goal, at, part) /\ at + Len(part) <= k => holdsAt(text, at, part)
  BY <1>8, PartHolds
<1>10. \A part \in Seq(Chars), at \in Nat :
          holdsAt(goal, at, part) /\ free(part, NewLine) /\ k <= at + Len(part) =>
              /\ next(text, at + 1) = k + 2
              /\ k > at => line(text, at + 1) = SubSeq(part, 1, k - at)
  BY <1>8, LastLine
<1>11. \A part \in Seq(Chars), at \in Nat :
          holdsAt(text, at, part) /\ free(part, NewLine) /\ holdsAt(text, at + Len(part), nl) =>
              line(text, at + 1) = part /\ next(text, at + 1) = at + Len(part) + 2
  BY <1>6, <1>9, LineRead
<1>12. ASSUME k <= first PROVE uuidAt(text) = k + 2
  <2>1. PICK at \in Nat : at = 0 /\ k <= at + Len(a) /\ holdsAt(goal, at, a) /\ at + 1 = 1
    BY <1>3, <1>7, <1>12
  <2>2. next(text, at + 1) = k + 2
    BY <1>3, <1>10, <2>1
  <2> QED BY <2>1, <2>2 DEF uuidAt
<1>13. ASSUME k > first PROVE uuidAt(text) = first + 2 /\ line(text, 1) = a
  <2>1. PICK at \in Nat : at = 0 /\ at + Len(a) = first /\ at + 1 = 1
    BY <1>3
  <2>2. at + Len(a) <= k /\ first + Len(nl) <= k
    BY <1>6, <1>8, <1>13, <2>1
  <2>3. holdsAt(text, at, a) /\ holdsAt(text, first, nl)
    BY <1>7, <1>9, <2>1, <2>2
  <2>4. line(text, at + 1) = a /\ next(text, at + 1) = at + Len(a) + 2
    BY <1>3, <1>11, <2>1, <2>3
  <2> QED BY <2>1, <2>4 DEF uuidAt
<1>14. ASSUME k > first, k <= first + 33 PROVE keyAt(text) = k + 2
  <2>1. PICK at \in Nat : at = first + 1 /\ at + 1 = first + 2 /\ k <= at + Len(h)
    <3>1. PICK at \in Nat : at = first + 1 /\ k <= at + 32
      BY <1>8, <1>14
    <3> QED BY <1>5, <3>1
  <2>2. next(text, at + 1) = k + 2
    BY <1>5, <1>7, <1>10, <2>1
  <2> QED BY <1>13, <1>14, <2>1, <2>2 DEF keyAt
<1>15. ASSUME k > first + 33
       PROVE  keyAt(text) = first + 35 /\ line(text, first + 2) = h
  <2>1. PICK at \in Nat : /\ at = first + 1 /\ at + 1 = first + 2 /\ at + Len(h) = first + 33
                         /\ at + Len(h) <= k /\ at + Len(h) + 2 = first + 35
    <3>1. PICK at \in Nat : at = first + 1 /\ at + 32 = first + 33 /\ at + 32 <= k
      BY <1>8, <1>15
    <3> QED BY <1>5, <3>1
  <2>2. PICK end \in Nat : end = at + Len(h) /\ end = first + 33 /\ end + Len(nl) <= k
    BY <1>6, <1>8, <1>15, <2>1
  <2>3. holdsAt(text, at, h) /\ holdsAt(text, at + Len(h), nl)
    BY <1>5, <1>7, <1>9, <2>1, <2>2
  <2>4. line(text, at + 1) = h /\ next(text, at + 1) = at + Len(h) + 2
    BY <1>5, <1>11, <2>1, <2>3
  <2>5. k > first
    BY <1>8, <1>15
  <2> QED BY <1>13, <2>1, <2>4, <2>5 DEF keyAt
<1>16. ASSUME k > first + 34, k <= first + 34 + Len(key)
       PROVE  line(text, first + 35) = SubSeq(key, 1, k - (first + 34))
  <2>1. PICK at \in Nat : at = first + 34 /\ at + 1 = first + 35 /\ k > at /\ k <= at + Len(key)
    BY <1>16
  <2>2. line(text, at + 1) = SubSeq(key, 1, k - at)
    BY <1>4, <1>7, <1>10, <2>1
  <2> QED BY <2>1, <2>2
<1>17. ASSUME k > first + 34 + Len(key) PROVE line(text, first + 35) = key
  <2>1. PICK at \in Nat : at = first + 34 /\ at + 1 = first + 35 /\ k > at + Len(key)
    BY <1>17
  <2>2. at + Len(key) \in Nat /\ at + Len(key) <= k /\ at + Len(key) + Len(nl) <= k
    BY <1>6, <1>8, <2>1
  <2>3. holdsAt(text, at, key) /\ holdsAt(text, at + Len(key), nl)
    BY <1>7, <1>9, <2>1, <2>2
  <2>4. line(text, at + 1) = key
    BY <1>4, <1>11, <2>1, <2>3
  <2> QED BY <2>1, <2>4
<1> QED BY <1>3, <1>4, <1>5, <1>12, <1>13, <1>14, <1>15, <1>16, <1>17, <1>1 DEF isRead

-----------------------------------------------------------------------------
(* The write *)

\* The invariant: while me.info is written it holds the first characters of what is
\* saved, and a whole one stays as it is until the next save or its removal.
WriteInv ==
    /\ name \in Names /\ id \in Procs
    /\ stage = "me.info" => /\ done \in 0..Len(contents(name, id))
                            /\ meText = SubSeq(contents(name, id), 1, done)
    /\ saved => stage # "me.info" /\ meText = contents(name, id)

LEMMA ContentsType ==
    ASSUME NEW n \in Names, NEW p \in Procs PROVE contents(n, p) \in Seq(Chars)
BY Layout

LEMMA Written ==
    ASSUME NEW goal \in Seq(Chars), NEW k \in 0..Len(goal), k < Len(goal)
    PROVE  overwritten(SubSeq(goal, 1, k), k + 1, goal[k + 1]) = SubSeq(goal, 1, k + 1)
<1>1. PICK part : part = SubSeq(goal, 1, k)
  OBVIOUS
<1>2. part \in Seq(Chars) /\ Len(part) = k
  BY <1>1
<1>3. \A i \in 1..k : part[i] = goal[i]
  BY <1>1
<1>4. goal[k + 1] \in Chars
  OBVIOUS
<1>5. PICK last \in Seq(Chars) : last = <<goal[k + 1]>> /\ Len(last) = 1 /\ last[1] = goal[k + 1]
  BY <1>4, Single
<1>6. SubSeq(part, 1, (k + 1) - 1) = part
  <2>1. holdsAt(part, 0, part)
    BY <1>2 DEF holdsAt
  <2>2. SubSeq(part, 0 + 1, 0 + Len(part)) = part
    BY <1>2, <2>1, Cut
  <2>3. 0 + 1 = 1 /\ 0 + Len(part) = (k + 1) - 1
    BY <1>2
  <2> QED BY <2>2, <2>3
<1>7. SubSeq(part, k + 1 + 1, Len(part)) = <<>>
  BY <1>2
<1>8. PICK whole : joined(whole, part, last)
  BY DEF joined
<1>9. whole \in Seq(Chars) /\ Len(whole) = k + 1
  BY <1>2, <1>5, <1>8, JoinedSeq
<1>10. \A i \in 1..(k + 1) : whole[i] = goal[i]
  <2>1. \A i \in 1..Len(part) : whole[i] = part[i]
    BY <1>2, <1>8, JoinedElements
  <2>2. whole[k + 1] = last[1]
    <3>1. whole[Len(part) + 1] = last[1]
      <4>1. \A i \in 1..Len(last) : whole[Len(part) + i] = last[i]
        <5>1. holdsAt(whole, Len(part), last)
          BY <1>2, <1>8, Joined
        <5> QED BY <5>1 DEF holdsAt
      <4> QED BY <1>5, <4>1
    <3> QED BY <1>2, <3>1
  <2> QED BY <1>2, <1>3, <1>5, <2>1, <2>2
<1>11. \A u \in Seq(Chars) : u \o <<>> = u
  OBVIOUS
<1>12. overwritten(part, k + 1, goal[k + 1]) = whole
  <2>1. overwritten(part, k + 1, goal[k + 1])
          = SubSeq(part, 1, (k + 1) - 1) \o last \o SubSeq(part, k + 1 + 1, Len(part))
    BY <1>5, Zenon DEF overwritten
  <2>2. part \o last = whole
    BY <1>8 DEF joined
  <2>3. overwritten(part, k + 1, goal[k + 1]) = whole \o <<>>
    BY <1>6, <1>7, <2>1, <2>2, Zenon
  <2> QED BY <1>9, <1>11, <2>3, Zenon
<1>13. SubSeq(goal, 1, k + 1) = whole
  <2>1. holdsAt(goal, 0, whole)
    BY <1>9, <1>10 DEF holdsAt
  <2>2. SubSeq(goal, 0 + 1, 0 + Len(whole)) = whole
    BY <1>9, <2>1, Cut
  <2>3. 0 + 1 = 1 /\ 0 + Len(whole) = k + 1
    BY <1>9
  <2> QED BY <2>2, <2>3
<1> QED BY <1>1, <1>12, <1>13

LEMMA WriteInvInit == Init => WriteInv
BY DEF Init, WriteInv

LEMMA WriteInvStep == WriteInv /\ [Next]_vars => WriteInv'
<1> SUFFICES ASSUME WriteInv, [Next]_vars PROVE WriteInv'
  OBVIOUS
<1>1. ASSUME OpenMeInfo PROVE WriteInv'
  <2>1. name' \in Names /\ id' \in Procs
    BY <1>1 DEF OpenMeInfo
  <2>2. 0 \in 0..Len(contents(name', id')) /\ SubSeq(contents(name', id'), 1, 0) = <<>>
    BY <2>1, ContentsType
  <2>3. stage' = "me.info" /\ done' = 0 /\ meText' = <<>> /\ ~saved'
    BY <1>1 DEF OpenMeInfo
  <2> QED BY <2>1, <2>2, <2>3 DEF WriteInv
<1>2. ASSUME WriteMeInfo PROVE WriteInv'
  <2>1. PICK text \in Seq(Chars) : text = contents(name, id)
    BY ContentsType DEF WriteInv
  <2>2. /\ stage = "me.info" /\ ~saved /\ done \in 0..Len(text) /\ done < Len(text)
        /\ meText = SubSeq(text, 1, done)
    BY <1>2, <2>1 DEF WriteMeInfo, WriteInv
  <2>3. meText' = SubSeq(text, 1, done')
    <3>1. PICK k \in 0..Len(text) : k = done /\ k < Len(text)
      BY <2>2
    <3>2. overwritten(SubSeq(text, 1, k), k + 1, text[k + 1]) = SubSeq(text, 1, k + 1)
      BY <3>1, Written
    <3>3. meText' = overwritten(SubSeq(text, 1, k), k + 1, text[k + 1]) /\ done' = k + 1
      BY <1>2, <2>1, <2>2, <3>1 DEF WriteMeInfo
    <3> QED BY <3>2, <3>3
  <2>4. done' \in 0..Len(text)
    BY <1>2, <2>2 DEF WriteMeInfo
  <2>5. contents(name, id)' = text
    BY <1>2, <2>1 DEF WriteMeInfo, contents
  <2> QED BY <1>2, <2>1, <2>2, <2>3, <2>4, <2>5 DEF WriteMeInfo, WriteInv
<1>3. ASSUME OpenPrivKey PROVE WriteInv'
  <2>1. PICK text \in Seq(Chars) : text = contents(name, id)
    BY ContentsType DEF WriteInv
  <2>2. done \in 0..Len(text) /\ meText = SubSeq(text, 1, done)
    BY <1>3, <2>1 DEF OpenPrivKey, WriteInv
  <2>3. SubSeq(text, 1, Len(text)) = text
    OBVIOUS
  <2>4. contents(name, id)' = text
    BY <1>3, <2>1 DEF OpenPrivKey, contents
  <2>5. saved' => meText' = text
    BY <1>3, <2>1, <2>2, <2>3 DEF OpenPrivKey
  <2> QED BY <1>3, <2>1, <2>4, <2>5 DEF OpenPrivKey, WriteInv
<1>4. ASSUME SaveEnds PROVE WriteInv'
  BY <1>4 DEF SaveEnds, WriteInv, contents
<1>5. ASSUME RemoveMeInfo PROVE WriteInv'
  BY <1>5 DEF RemoveMeInfo, WriteInv
<1>6. ASSUME UNCHANGED <<meText, stage, name, id, done, saved>> PROVE WriteInv'
  BY <1>6 DEF WriteInv, contents
<1>7. ASSUME WritePrivKey PROVE WriteInv'
  BY <1>7 DEF WritePrivKey, WriteInv, contents
<1>8. CASE RemovePrivKey \/ Rest \/ UNCHANGED vars
  BY <1>6, <1>8 DEF RemovePrivKey, Rest, vars
<1> QED BY <1>1, <1>2, <1>3, <1>4, <1>5, <1>7, <1>8 DEF Next

\* However often an identity is saved, over whatever an earlier save left, a me.info
\* written to its end is loaded as the name, the UUID, byte for byte, and the key that
\* were saved, for every name without a newline.
THEOREM WholeInfoLoads == Spec => []WholeLoads
<1>1. WriteInv => WholeLoads
  BY ContentsLoad DEF WriteInv, WholeLoads
<1> QED BY <1>1, WriteInvInit, WriteInvStep, PTL DEF Spec
-----------------------------------------------------------------------------
(* The files as the records of ConfigManager *)

\* No client name has a newline, of which loadTransferInfo says nothing.
NamesOnOneLine == \A n \in Names : free(NameText[n], NewLine)

\* The record of a me.info that exists.
recordOf(text) ==
    IF ~loads(text) THEN [name |-> "torn", uuid |-> "torn", key |-> "torn"]
    ELSE LET info == loadClientInfo(text)
         IN  [name |-> identity(info.name, NameText, Names),
              uuid |-> identity(info.uuid, Uuid, Procs),
              key  |-> identity(info.key, KeyText, Procs)]

\* What a save of name n and identity p may leave.
recordsOf(n, p) ==
    {[name |-> "torn", uuid |-> "torn", key |-> "torn"],
     [name |-> n, uuid |-> p, key |-> "torn"], [name |-> n, uuid |-> p, key |-> p]}

LEMMA KnownIdentity ==
    ASSUME NEW texts, NEW all, distinct(texts, all), NEW x \in all
    PROVE  identity(texts[x], texts, all) = x
<1>1. \A y \in all : texts[y] = texts[x] => y = x
  BY DEF distinct
<1>2. (CHOOSE y \in all : texts[y] = texts[x]) = x
  BY <1>1
<1> QED BY <1>2 DEF identity

\* A private key, or what was written of it, is not taken for another one.
LEMMA KeyPart ==
    ASSUME NEW p \in Procs, NEW k \in 0..Len(KeyText[p])
    PROVE  identity(SubSeq(KeyText[p], 1, k), KeyText, Procs) \in {p, "torn"}
<1>1. PICK text : text = SubSeq(KeyText[p], 1, k)
  OBVIOUS
<1>2. \A q \in Procs : KeyText[q] = text => q = p
  BY <1>1, InfoTextAssumption
<1>3. CASE \E q \in Procs : KeyText[q] = text
  <2>1. KeyText[p] = text
    BY <1>2, <1>3
  <2>2. (CHOOSE q \in Procs : KeyText[q] = text) = p
    BY <1>2, <2>1
  <2> QED BY <1>1, <1>3, <2>2 DEF identity
<1>4. CASE ~ \E q \in Procs : KeyText[q] = text
  <2>1. \E q \in Procs : \E m \in 0..Len(KeyText[q]) : text = SubSeq(KeyText[q], 1, m)
    BY <1>1
  <2> QED BY <1>1, <1>4, <2>1 DEF identity
<1> QED BY <1>3, <1>4

\* Wherever the write of me.info ended, it is refused or has the name and the UUID
\* of the save.
LEMMA PartRecord ==
    ASSUME NamesOnOneLine, NEW n \in Names, NEW p \in Procs,
           NEW k \in 0..Len(contents(n, p)), NEW text, isPart(text, contents(n, p), k)
    PROVE  recordOf(text) \in recordsOf(n, p)
<1>1. free(NameText[n], NewLine)
  BY DEF NamesOnOneLine
<1>2. PICK first \in Nat : first = Len(NameText[n])
  BY NameType
<1>3. Len(text) = k /\ k \in Nat
  BY ContentsType, PartHolds
<1>4. PICK m \in Nat : m = Len(KeyText[p])
  BY KeyType
<1>5. isRead(text, n, p, k)
  BY <1>1, PartRead
<1>6. CASE k <= first
  <2>1. uuidAt(text) = k + 2
    BY <1>2, <1>6, <1>5 DEF isRead
  <2>2. ~(uuidAt(text) <= Len(text))
    BY <1>3, <2>1
  <2> QED BY <2>2 DEF loads, recordOf, recordsOf
<1>7. CASE k > first /\ k <= first + 34
  <2>1. keyAt(text) = k + 2 \/ keyAt(text) = first + 35
    <3>1. CASE k <= first + 33
      BY <1>2, <1>7, <1>5, <3>1 DEF isRead
    <3>2. CASE k > first + 33
      BY <1>2, <1>5, <3>2 DEF isRead
    <3> QED BY <1>3, <3>1, <3>2
  <2>2. ~(keyAt(text) <= Len(text))
    BY <1>3, <1>7, <2>1
  <2> QED BY <2>2 DEF loads, recordOf, recordsOf
<1>8. CASE k > first + 34
  <2>1. k > first /\ k > first + 33
    BY <1>3, <1>8
  <2>2. /\ uuidAt(text) = first + 2 /\ line(text, 1) = NameText[n]
        /\ keyAt(text) = first + 35 /\ line(text, first + 2) = toHex(Uuid[p])
    BY <1>2, <1>5, <2>1 DEF isRead
  <2>3. identity(line(text, first + 35), KeyText, Procs) \in {p, "torn"}
    <3>1. CASE k <= first + 34 + m
      <4>1. line(text, first + 35) = SubSeq(KeyText[p], 1, k - (first + 34))
        BY <1>2, <1>4, <1>8, <1>5, <3>1 DEF isRead
      <4>2. k - (first + 34) \in 0..Len(KeyText[p])
        <5>1. PICK j \in 0..m : j = k - (first + 34)
          BY <1>3, <1>8, <3>1
        <5> QED BY <1>4, <5>1
      <4> QED BY <4>1, <4>2, KeyPart
    <3>2. CASE k > first + 34 + m
      <4>1. line(text, first + 35) = KeyText[p]
        BY <1>2, <1>4, <1>5, <3>2 DEF isRead
      <4>2. KeyText[p] = SubSeq(KeyText[p], 1, m) /\ m \in 0..Len(KeyText[p])
        BY <1>4, KeyType
      <4> QED BY <4>1, <4>2, KeyPart
    <3> QED BY <1>3, <3>1, <3>2
  <2>4. identity(line(text, 1), NameText, Names) = n
    BY <2>2, KnownIdentity, InfoTextAssumption
  <2>5. identity(toBytes(line(text, first + 2)), Uuid, Procs) = p
    <3>1. toBytes(toHex(Uuid[p])) = Uuid[p]
      BY UuidRead, InfoTextAssumption
    <3> QED BY <2>2, <3>1, KnownIdentity, InfoTextAssumption
  <2> QED BY <2>2, <2>3, <2>4, <2>5 DEF recordOf, recordsOf, loadClientInfo
<1> QED BY <1>3, <1>6, <1>7, <1>8
\* While priv.key is written it holds the first characters of the key.
KeyInv ==
    stage = "priv.key" => /\ done \in 0..Len(KeyText[id])
                          /\ keyText = SubSeq(KeyText[id], 1, done)

LEMMA KeyInvStep == WriteInv /\ KeyInv /\ [Next]_vars => KeyInv'
<1> SUFFICES ASSUME WriteInv, KeyInv, [Next]_vars PROVE KeyInv'
  OBVIOUS
<1>1. PICK key \in Seq(Chars) : key = KeyText[id]
  BY KeyType DEF WriteInv
<1>2. ASSUME OpenPrivKey PROVE KeyInv'
  <2>1. 0 \in 0..Len(key) /\ SubSeq(key, 1, 0) = <<>>
    OBVIOUS
  <2> QED BY <1>1, <1>2, <2>1 DEF OpenPrivKey, KeyInv
<1>3. ASSUME WritePrivKey PROVE KeyInv'
  <2>1. done \in 0..Len(key) /\ done < Len(key) /\ keyText = SubSeq(key, 1, done)
    BY <1>1, <1>3 DEF WritePrivKey, KeyInv
  <2>2. PICK k \in 0..Len(key) : k = done /\ k < Len(key)
    BY <2>1
  <2>3. overwritten(SubSeq(key, 1, k), k + 1, key[k + 1]) = SubSeq(key, 1, k + 1)
    BY <2>2, Written
  <2>4. keyText' = overwritten(SubSeq(key, 1, k), k + 1, key[k + 1]) /\ done' = k + 1
    BY <1>1, <1>3, <2>1, <2>2 DEF WritePrivKey
  <2>5. keyText' = SubSeq(key, 1, done') /\ done' = k + 1
    BY <2>3, <2>4
  <2>6. done' \in 0..Len(key)
    BY <2>2, <2>5
  <2> QED BY <1>1, <1>3, <2>5, <2>6 DEF WritePrivKey, KeyInv
<1>4. ASSUME OpenMeInfo \/ WriteMeInfo \/ SaveEnds \/ RemoveMeInfo \/ RemovePrivKey PROVE KeyInv'
  BY <1>4 DEF OpenMeInfo, WriteMeInfo, SaveEnds, RemoveMeInfo, RemovePrivKey, KeyInv
<1>5. ASSUME Rest \/ UNCHANGED vars PROVE KeyInv'
  BY <1>5 DEF Rest, vars, KeyInv
<1> QED BY <1>2, <1>3, <1>4, <1>5 DEF Next

LEMMA NoKey == keyText = NoFile => keyRecord = "absent"
<1>1. NoFile # <<>>
  <2>1. <<>> \in Seq(Chars)
    OBVIOUS
  <2> QED BY <2>1, InfoTextAssumption
<1> QED BY <1>1 DEF keyRecord

LEMMA StartsAbsent == Init => Disk!DiskInit
<1> SUFFICES ASSUME Init PROVE Disk!DiskInit
  OBVIOUS
<1>1. infoRecord = [name |-> "absent", uuid |-> "absent", key |-> "absent"]
  BY DEF Init, infoRecord
<1>2. keyRecord = "absent"
  BY NoKey DEF Init
<1> QED BY <1>1, <1>2 DEF Disk!DiskInit, Disk!NoInfo, Disk!Info, Disk!Absent

\* A text is not a missing file.
LEMMA InfoOfText ==
    ASSUME meText' \in Seq(Chars) PROVE infoRecord' = recordOf(meText')
BY InfoTextAssumption DEF infoRecord, recordOf

LEMMA KeepsInfo == UNCHANGED meText => UNCHANGED infoRecord
BY DEF infoRecord

LEMMA KeepsKey == UNCHANGED keyText => UNCHANGED keyRecord
BY DEF keyRecord

\* Each step of the texts is one of the records.
LEMMA DiskSteps ==
    ASSUME NamesOnOneLine, WriteInv, WriteInv', KeyInv, KeyInv', [Next]_vars
    PROVE  [DiskStep]_(Disk!diskVars)
<1> USE DEF DiskStep, Disk!diskVars
<1>1. CASE OpenMeInfo
  <2>1. meText' = <<>> /\ <<>> \in Seq(Chars)
    BY <1>1 DEF OpenMeInfo
  <2>2. infoRecord' = [name |-> "torn", uuid |-> "torn", key |-> "torn"]
    BY <2>1, InfoOfText DEF recordOf, loads
  <2> QED BY <1>1, <2>2, KeepsKey
          DEF OpenMeInfo, Disk!openMeInfo, Disk!TornInfo, Disk!Info, Disk!Torn
<1>2. CASE WriteMeInfo
  <2>1. isPart(meText', contents(name, id), done') /\ done' \in 0..Len(contents(name, id))
    BY <1>2 DEF WriteMeInfo, WriteInv, isPart, contents
  <2>2. name \in Names /\ id \in Procs
    BY DEF WriteInv
  <2>3. meText' \in Seq(Chars)
    BY <2>1, <2>2, ContentsType, PartHolds
  <2>4. infoRecord' \in recordsOf(name, id)
    BY <2>1, <2>2, <2>3, InfoOfText, PartRecord
  <2>5. UNCHANGED keyRecord
    BY <1>2, KeepsKey DEF WriteMeInfo
  <2> QED BY <2>4, <2>5 DEF recordsOf, Disk!writeMeInfo, Disk!tearMeInfo,
                            Disk!TornInfo, Disk!Info, Disk!Torn
<1>3. CASE OpenPrivKey
  <2>1. keyText' = <<>> /\ <<>> \in Seq(Chars)
    BY <1>3 DEF OpenPrivKey
  <2>2. keyRecord' = "empty"
    BY <2>1, InfoTextAssumption DEF keyRecord
  <2> QED BY <1>3, <2>2, KeepsInfo DEF OpenPrivKey, Disk!openPrivKey, Disk!Empty
<1>4. CASE WritePrivKey
  <2>1. id \in Procs /\ id' = id /\ stage' = "priv.key"
    BY <1>4 DEF WritePrivKey, WriteInv
  <2>2. done' \in 0..Len(KeyText[id]) /\ keyText' = SubSeq(KeyText[id], 1, done')
    BY <1>4, <2>1 DEF WritePrivKey, KeyInv
  <2>3. keyText' \in Seq(Chars)
    BY <2>1, <2>2, KeyType
  <2>4. keyRecord' \in {"empty", "torn", id}
    <3>1. identity(keyText', KeyText, Procs) \in {id, "torn"}
      BY <2>1, <2>2, KeyPart
    <3> QED BY <2>3, <3>1, InfoTextAssumption DEF keyRecord
  <2>5. UNCHANGED infoRecord
    BY <1>4, KeepsInfo DEF WritePrivKey
  <2> QED BY <2>4, <2>5 DEF Disk!writePrivKey, Disk!tearPrivKey, Disk!Empty, Disk!Torn
<1>5. CASE RemoveMeInfo
  BY <1>5, KeepsKey
     DEF RemoveMeInfo, infoRecord, Disk!removeMeInfo, Disk!NoInfo, Disk!Info, Disk!Absent
<1>6. CASE RemovePrivKey
  <2>1. (keyText = NoFile => keyRecord = "absent")'
    BY NoKey, PTL
  <2> QED BY <1>6, <2>1, KeepsInfo DEF RemovePrivKey, Disk!removePrivKey, Disk!Absent
<1>7. CASE SaveEnds \/ Rest \/ UNCHANGED vars
  BY <1>7, KeepsInfo, KeepsKey DEF SaveEnds, Rest, vars
<1> QED BY <1>1, <1>2, <1>3, <1>4, <1>5, <1>6, <1>7 DEF Next

\* The text of the files implements the records that ConfigManager has of them: wherever
\* a write ends, of whatever name without a newline, UUID and key, over whatever an
\* earlier save left, me.info is refused or has the name and the UUID of that save and its
\* key or a part of it, and priv.key is that key or a part of it.
THEOREM TextIsRecords == NamesOnOneLine => (Spec => IsConfigManager)
<1> SUFFICES ASSUME NamesOnOneLine PROVE Spec => IsConfigManager
  OBVIOUS
<1> DEFINE TextInv == WriteInv /\ KeyInv
<1>1. Init => TextInv
  BY WriteInvInit DEF Init, KeyInv
<1>2. TextInv /\ [Next]_vars => TextInv'
  BY WriteInvStep, KeyInvStep
<1>3. TextInv /\ TextInv' /\ [Next]_vars => [DiskStep]_(Disk!diskVars)
  BY DiskSteps
<1> QED BY <1>1, <1>2, <1>3, StartsAbsent, PTL DEF Spec, IsConfigManager
=============================================================================
