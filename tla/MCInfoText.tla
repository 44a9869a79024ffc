----------------------------- MODULE MCInfoText -----------------------------
(***************************************************************************)
(* Instances of InfoText for TLC.                                          *)
(***************************************************************************)
EXTENDS InfoText

\* Two identities whose UUIDs have every kind of byte, and keys of two lengths.
TwoProcs == {"p1", "p2"}
TwoUuids == [p \in TwoProcs |->
    IF p = "p1" THEN <<0, 1, 9, 10, 15, 16, 17, 31, 127, 128, 159, 160, 161, 250, 254, 255>>
                ELSE [k \in 1..16 |-> 255 - 16 * (k - 1)]]
TwoKeys == [p \in TwoProcs |-> IF p = "p1" THEN <<"M", "I", "=">> ELSE <<"N", "/">>]

\* A name that could be taken for digits, and a longer one.
TwoNames == {"n1", "n2"}
TwoTexts == [n \in TwoNames |-> IF n = "n1" THEN <<"0">> ELSE <<"B", " ">>]

Letters == {Digits[k] : k \in 1..16} \cup {NewLine, "M", "I", "=", "N", "/", "B", " "}
=============================================================================
