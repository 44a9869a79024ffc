------------------------------ MODULE HexCodec ------------------------------
(***************************************************************************)
(* HexConverter (ConfigManager.cpp): UUIDs as text and back.  A text is a   *)
(* sequence of characters, a character a string of length one.             *)
(***************************************************************************)
EXTENDS Naturals, Sequences

Digits      == <<"0", "1", "2", "3", "4", "5", "6", "7",
                 "8", "9", "a", "b", "c", "d", "e", "f">>
UpperDigits == <<"0", "1", "2", "3", "4", "5", "6", "7",
                 "8", "9", "A", "B", "C", "D", "E", "F">>

UuidBytes == [1..16 -> 0..255]

\* Two digits for every byte: std::hex, std::setw(2), std::setfill('0').
toHex(bytes) ==
    [k \in 1..32 |->
        LET byte == bytes[(k + 1) \div 2]
        IN  Digits[1 + (IF k % 2 = 1 THEN byte \div 16 ELSE byte % 16)]]

-----------------------------------------------------------------------------
digitValue ==
    [c \in {Digits[k] : k \in 1..16} \cup {UpperDigits[k] : k \in 1..16} |->
        CHOOSE value \in 0..15 : c \in {Digits[value + 1], UpperDigits[value + 1]}]

isDigit(c) == c \in DOMAIN digitValue

\* What std::strtol skips: the characters that isspace takes for blanks.
VerticalTab == "VT"
Blanks == {" ", "\t", "\n", "\f", "\r", VerticalTab}

\* std::strtol, base 16, reads two characters to the end and finds a byte: two
\* digits, or a digit behind a blank or a plus; a minus leaves only zero.
isByte(a, b) ==
    \/ isDigit(b) /\ (isDigit(a) \/ a \in Blanks \cup {"+"})
    \/ a = "-" /\ b = "0"

byteValue(a, b) == (IF isDigit(a) THEN 16 * digitValue[a] ELSE 0) + digitValue[b]

\* Mutation of isUuid: the largest byte is taken for too large.
isUuidBelow(text) ==
    /\ Len(text) = 32
    /\ \A i \in 1..16 : /\ isByte(text[2 * i - 1], text[2 * i])
                       /\ byteValue(text[2 * i - 1], text[2 * i]) < 255

\* toBytes returns a UUID ...
isUuid(text) ==
    /\ Len(text) = 32
    /\ \A i \in 1..16 : isByte(text[2 * i - 1], text[2 * i])

\* ... and which one.
toBytes(text) == [i \in 1..16 |-> byteValue(text[2 * i - 1], text[2 * i])]
=============================================================================
