------------------------------ MODULE TextBase ------------------------------
(***************************************************************************)
(* Text, for the modules about what the program reads and writes.          *)
(*                                                                         *)
(* Text is a sequence of characters.  A character is a string; keywords    *)
(* such as "GET", "HTTP/" or "?xml" that the code only compares are one    *)
(* character.  A C string ends where its sequence does, so reading one past*)
(* the end gives Nul.  Offsets count from 1 here and from 0 in the code.   *)
(***************************************************************************)
EXTENDS Integers, Sequences, FiniteSets, SequencesExt, FiniteSetsExt

Nul == "nul"

At(s, i) == IF i \in DOMAIN s THEN s[i] ELSE Nul
From(s, i) == SubSeq(s, i, Len(s))

(* strcspn() and strspn() from i on: the first offset in, or not in, set.  *)
FirstIn(s, i, set)  == Min({k \in i .. Len(s) : s[k] \in set} \union {Len(s) + 1})
FirstOut(s, i, set) == Min({k \in i .. Len(s) : s[k] \notin set} \union {Len(s) + 1})

(* Numerals.                                                               *)
DecDigits == {"0", "1", "2", "3", "4", "5", "6", "7", "8", "9"}
Numeral(s) ==
    LET Worth(d) == CHOOSE n \in 0 .. 9 : ToString(n) = d
    IN  FoldLeft(LAMBDA n, d : 10 * n + Worth(d), 0, s)

(* The parts of s between characters of set: all but the last end there.   *)
RECURSIVE Parts(_, _)
Parts(s, set) ==
    LET e == FirstIn(s, 1, set)
    IN  <<SubSeq(s, 1, e - 1)>> \o (IF e > Len(s) THEN << >> ELSE Parts(From(s, e + 1), set))
=============================================================================
