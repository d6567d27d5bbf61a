------------------------------- MODULE XmlChars -------------------------------
(***************************************************************************)
(* Below the grammar of TinyXML (src/src/tinyxml): the row and column of a *)
(* place in a text, UTF-8, and the strings that hold names and values.     *)
(* Here a character of a text is a byte; those above 127 are written in    *)
(* hexadecimal.                                                            *)
(***************************************************************************)
EXTENDS TextBase

CONSTANT TabSize

(* utf8ByteTable, for the bytes of this model.                             *)
Utf8Bytes(byte) ==
    CASE byte \in {"c2", "df"} -> 2
      [] byte \in {"e0", "ef"} -> 3
      [] byte \in {"f0", "f4"} -> 4
      [] OTHER -> 1

(* The three characters of UTF-8 that have no width.                       *)
ZeroWidth == {<<"ef", "bb", "bf">>, <<"ef", "bf", "be">>, <<"ef", "bf", "bf">>}

(* Mutant of Break: a pair of line ends is two.                            *)
BreakSingle(s, p) == p + 1

(* The two kinds of line end, one behind the other, are one line end.      *)
Break(s, p) ==
    IF {s[p], At(s, p + 1)} = {"\r", "\n"} THEN p + 2 ELSE p + 1

(* TiXmlParsingData::Stamp(): from the place, row and column it knows to   *)
(* now, or a little further.  Where the lead byte EF has fewer than two    *)
(* bytes behind it, it never gets on: hangs.                               *)
RECURSIVE Stamp(_, _, _, _)
Stamp(s, cursor, now, utf8) ==
    LET p == cursor.at
        c == At(s, p)
    IN  IF cursor.hangs \/ p >= now \/ c = Nul THEN cursor
        ELSE IF c \in {"\r", "\n"}
        THEN Stamp(s, [cursor EXCEPT !.at = Break(s, p), !.row = @ + 1, !.col = 0], now, utf8)
        ELSE IF c = "\t"
        THEN Stamp(s, [cursor EXCEPT !.at = p + 1, !.col = (@ \div TabSize + 1) * TabSize], now, utf8)
        ELSE IF c = "ef" /\ utf8 /\ Nul \in {At(s, p + 1), At(s, p + 2)}
        THEN [cursor EXCEPT !.hangs = TRUE]
        ELSE LET width == IF utf8 /\ <<c, At(s, p + 1), At(s, p + 2)>> \in ZeroWidth THEN 0 ELSE 1
             IN  Stamp(s, [cursor EXCEPT !.at = p + (IF utf8 THEN Utf8Bytes(c) ELSE 1),
                                         !.col = @ + width], now, utf8)

(* ConvertUTF32ToUTF8(): the bytes of a character, none when it is too big.*)
Utf8Length(n) ==
    IF n < 128 THEN 1 ELSE IF n < 2048 THEN 2 ELSE IF n < 65536 THEN 3
    ELSE IF n < 2097152 THEN 4 ELSE 0

Utf8(n) ==
    LET len  == Utf8Length(n)
        Mark == <<0, 192, 224, 240>>
    IN  [i \in 1 .. len |->
            LET rest == n \div 64 ^ (len - i)
            IN  IF i = 1 THEN rest + Mark[len] ELSE (rest % 64) + 128]
-----------------------------------------------------------------------------
(* TiXmlString.  mem.rep maps a block of memory to the text and capacity   *)
(* in it, and mem.of a string to its block.  Strings without memory share  *)
(* the block nullrep_, which is never given back.                          *)

NullRep == 0
Fresh(mem) == Max(DOMAIN mem.rep) + 1
Text(mem, v)     == mem.rep[mem.of[v]].text
Capacity(mem, v) == mem.rep[mem.of[v]].cap

(* init() of a new block, and the end of the one the string had.           *)
Moved(mem, v, text, cap) ==
    LET old  == {mem.of[v]} \ {NullRep}
        rest == [b \in DOMAIN mem.rep \ old |-> mem.rep[b]]
        new  == Fresh(mem)
    IN  IF cap = 0 THEN [rep |-> rest, of |-> [mem.of EXCEPT ![v] = NullRep]]
        ELSE [rep |-> rest @@ (new :> [text |-> text, cap |-> cap]),
              of  |-> [mem.of EXCEPT ![v] = new]]

Written(mem, v, text) == [mem EXCEPT !.rep[mem.of[v]].text = text]

Reserve(mem, v, cap) ==
    IF cap > Capacity(mem, v) THEN Moved(mem, v, Text(mem, v), cap) ELSE mem

(* A block that is much too large is given up by assign().                *)
Shrinks(cap, len) == cap > 3 * (len + 8)

Assign(mem, v, text) ==
    LET cap == Capacity(mem, v)
    IN  IF Len(text) > cap \/ Shrinks(cap, Len(text)) THEN Moved(mem, v, text, Len(text))
        ELSE Written(mem, v, text)

(* Mutant of Grown: only what is needed now.                               *)
GrownJust(newsize, cap) == newsize

Grown(newsize, cap) == newsize + cap

AppendText(mem, v, text) ==
    LET newsize == Len(Text(mem, v)) + Len(text)
        room == IF newsize > Capacity(mem, v)
                THEN Reserve(mem, v, Grown(newsize, Capacity(mem, v))) ELSE mem
    IN  Written(room, v, Text(room, v) \o text)

(* append() of the string's own text: when it moves, its old block is gone *)
(* before it is read, and what was there may be anything.                  *)
AppendSelf(mem, v) ==
    LET text == Text(mem, v)
        lost == 2 * Len(text) > Capacity(mem, v)
    IN  AppendText(mem, v, IF lost THEN [i \in DOMAIN text |-> "lost"] ELSE text)

Clear(mem, v) == Moved(mem, v, << >>, 0)
Swap(mem, v, w) == [mem EXCEPT !.of = [@ EXCEPT ![v] = mem.of[w], ![w] = mem.of[v]]]

(* find(): from an offset, which counts from 0; the length is its npos.    *)
Find(s, c, offset) == IF offset >= Len(s) THEN Len(s) ELSE FirstIn(s, offset + 1, {c}) - 1
=============================================================================
