------------------------------ MODULE HttpText ------------------------------
(***************************************************************************)
(* What the HTTP server (src/src/mongoose.c) does to the text of a request *)
(* before anyone answers it: where the request ends, its head taken apart, *)
(* the path cleaned and matched with patterns, form fields and dates read. *)
(***************************************************************************)
EXTENDS TextBase

CR  == "\r"
LF  == "\n"
Control == {"ctl"}     \* neither printable nor above 127
-----------------------------------------------------------------------------
(* The head of a request.                                                  *)

(* Mutant of GetRequestLen: an empty line wins over a character that is    *)
(* not allowed, wherever the two are.                                      *)
GetRequestLenOn(b) ==
    LET Empty(i) == b[i] = LF /\ b[i + 1] = LF
        ends == {i \in 1 .. Len(b) - 1 : Empty(i)}
    IN  IF ends # {} THEN Min(ends) + 1
        ELSE IF \E i \in 1 .. Len(b) - 1 : b[i] \in Control THEN -1 ELSE 0

(* get_request_len(): the length of the request with the empty line that   *)
(* ends it; 0 while that has not come; -1 for a control character.         *)
GetRequestLen(b) ==
    LET Malformed(i) == b[i] \in Control
        Two(i)   == b[i] = LF /\ b[i + 1] = LF
        Three(i) == b[i] = LF /\ b[i + 1] = CR /\ At(b, i + 2) = LF
        ends == {i \in 1 .. Len(b) - 1 : Malformed(i) \/ Two(i) \/ Three(i)}
    IN  IF ends = {} THEN 0
        ELSE LET i == Min(ends)
             IN  IF Malformed(i) THEN -1 ELSE IF Two(i) THEN i + 1 ELSE i + 2

(* read_request(): s arrives in pieces that end at cuts; after each the    *)
(* buffer is looked at again.                                              *)
ReadRequest(s, cuts) ==
    LET done == {c \in cuts : GetRequestLen(SubSeq(s, 1, c)) # 0}
    IN  IF done = {} THEN 0 ELSE GetRequestLen(SubSeq(s, 1, Min(done)))

(* skip_quoted(): the word from i to the first of delims, and the offset   *)
(* behind it and the white space that follows.  A delimiter after quote    *)
(* belongs to the word.                                                    *)
RECURSIVE Word(_, _, _, _)
Word(s, i, delims, quote) ==
    LET e == FirstIn(s, i, delims)
    IN  IF e = i \/ s[e - 1] # quote THEN [word |-> SubSeq(s, i, e - 1), end |-> e]
        ELSE IF e > Len(s) THEN [word |-> SubSeq(s, i, e - 2), end |-> e]
        ELSE LET more == Word(s, e + 1, delims, quote)
             IN  [more EXCEPT !.word = SubSeq(s, i, e - 2) \o <<s[e]>> \o @]

SkipQuoted(s, i, delims, white, quote) ==
    LET w == Word(s, i, delims, quote)
    IN  [word |-> w.word,
         next |-> IF w.end > Len(s) THEN w.end ELSE FirstOut(s, w.end + 1, white)]

(* Mutant of Skip: one delimiter is skipped, not all.                      *)
SkipOne(s, i, delims) == SkipQuoted(s, i, delims, {}, Nul)

Skip(s, i, delims) == SkipQuoted(s, i, delims, delims, Nul)

(* parse_http_headers(), for at most n more headers.                       *)
RECURSIVE ParseHttpHeaders(_, _, _)
ParseHttpHeaders(s, i, n) ==
    LET name  == SkipQuoted(s, i, {":"}, {" "}, Nul)
        value == Skip(s, name.next, {CR, LF})
    IN  IF n = 0 \/ name.word = << >> THEN << >>
        ELSE <<[name |-> name.word, value |-> value.word]>>
             \o ParseHttpHeaders(s, value.next, n - 1)

Methods == {"GET", "POST", "HEAD", "CONNECT", "PUT", "DELETE", "OPTIONS", "PROPFIND"}

(* parse_http_message() and parse_http_request(): what the request says,   *)
(* or that it is malformed.                                                *)
ParseHttpRequest(b, MaxHeaders) ==
    LET len   == GetRequestLen(b)
        head  == SubSeq(b, 1, len - 1)
        start == FirstOut(head, 1, {" ", CR, LF})
        method  == Skip(head, start, {" "})
        uri     == Skip(head, method.next, {" "})
        version == Skip(head, uri.next, {CR, LF})
    IN  IF \/ len <= 0
           \/ ~ \E m \in Methods : method.word = <<m>>
           \/ At(version.word, 1) # "HTTP/"
        THEN [ok |-> FALSE]
        ELSE [ok |-> TRUE, method |-> method.word[1], uri |-> uri.word,
              version |-> Tail(version.word),
              headers |-> ParseHttpHeaders(head, version.next, MaxHeaders)]
-----------------------------------------------------------------------------
(* Form fields.  Hex has the characters of this model that get escaped.    *)

Hex == [c \in {" ", "%", "&", "+", "/", "="} |->
          CASE c = " " -> <<"2", "0">> [] c = "%" -> <<"2", "5">>
            [] c = "&" -> <<"2", "6">> [] c = "+" -> <<"2", "b">>
            [] c = "/" -> <<"2", "f">> [] c = "=" -> <<"3", "d">>]
HexDigit == {"0", "2", "3", "5", "6", "b", "d", "e", "f"}

(* The character of two hexadecimal digits; "." is not escaped, but may be.*)
UnHex(h, l) ==
    IF <<h, l>> = <<"2", "e">> THEN "."
    ELSE IF \E c \in DOMAIN Hex : Hex[c] = <<h, l>>
         THEN CHOOSE c \in DOMAIN Hex : Hex[c] = <<h, l>>
         ELSE "other"

UrlEncode(s) == FlattenSeq([i \in DOMAIN s |->
    IF s[i] \in DOMAIN Hex THEN <<"%">> \o Hex[s[i]] ELSE <<s[i]>>])

(* Mutant of Unescaped: a plus stays what it is.                           *)
PlusStays(c, form) == c

Unescaped(c, form) == IF form /\ c = "+" THEN " " ELSE c

RECURSIVE UrlDecode(_, _)
UrlDecode(s, form) ==
    IF s = << >> THEN << >>
    ELSE IF s[1] = "%" /\ At(s, 2) \in HexDigit /\ At(s, 3) \in HexDigit
         THEN <<UnHex(s[2], s[3])>> \o UrlDecode(From(s, 4), form)
         ELSE <<Unescaped(s[1], form)>> \o UrlDecode(Tail(s), form)

(* mg_get_var(): << >> is its -1, the variable is not there, or its text   *)
(* as sent does not fit into size characters.                              *)
MgGetVar(buf, name, size) ==
    LET n  == Len(name)
        at == {p \in 1 .. Len(buf) - n :
                 /\ p = 1 \/ buf[p - 1] = "&"
                 /\ SubSeq(buf, p, p + n - 1) = name
                 /\ buf[p + n] = "="}
        from  == Min(at) + n + 1
        value == SubSeq(buf, from, FirstIn(buf, from, {"&"}) - 1)
    IN  IF at = {} \/ Len(value) >= size THEN << >> ELSE <<UrlDecode(value, TRUE)>>

(* get_qsvar() of src/src/http.cpp, where size is 127: a field that is     *)
(* empty, missing or too long has its default.                             *)
GetQsVar(buf, name, default, size) ==
    LET v == MgGetVar(buf, name, size)
    IN  IF v \in {<< >>, << << >> >>} THEN default ELSE v[1]

-----------------------------------------------------------------------------
(* Mutant of MgPrintf: a text that is too long is cut.                     *)
MgPrintfCut(text, size) ==
    IF Len(text) < size THEN text ELSE SubSeq(text, 1, size - 1) \o <<Nul>>

(* mg_printf() by way of a buffer of size: a longer text gets one of its   *)
(* own, but one that is just as long as the buffer ends with the null that *)
(* vsnprintf() put there.                                                  *)
MgPrintf(text, size) ==
    IF Len(text) = size THEN SubSeq(text, 1, size - 1) \o <<Nul>> ELSE text

-----------------------------------------------------------------------------
(* Patterns of the configuration.                                          *)

OneMore(n) == IF n = -1 THEN -1 ELSE n + 1

(* Mutant of Taken: a star takes as little as it can.                      *)
LeastTaken(fits) == Min(fits)

Taken(fits) == Max(fits)

(* match_prefix() without alternatives: the length of what the pattern     *)
(* matches, a star taking as much as leaves the rest a match; else -1.     *)
RECURSIVE MatchOne(_, _)
MatchOne(pattern, str) ==
    IF pattern = << >> THEN 0
    ELSE IF pattern[1] = "?" /\ str # << >> THEN OneMore(MatchOne(Tail(pattern), Tail(str)))
    ELSE IF pattern[1] = "$" THEN IF str = << >> THEN 0 ELSE -1
    ELSE IF pattern[1] = "*"
    THEN LET deep == At(pattern, 2) = "*"
             rest == From(pattern, IF deep THEN 3 ELSE 2)
             len  == IF deep THEN Len(str) ELSE FirstIn(str, 1, {"/"}) - 1
             fits == {k \in 0 .. len : MatchOne(rest, From(str, k + 1)) # -1}
         IN  IF rest = << >> THEN len
             ELSE IF fits = {} THEN -1
             ELSE Taken(fits) + MatchOne(rest, From(str, Taken(fits) + 1))
    ELSE IF At(str, 1) = pattern[1] THEN OneMore(MatchOne(Tail(pattern), Tail(str))) ELSE -1

(* The next alternative is tried also when one matches nothing at all.     *)
RECURSIVE MatchPrefix(_, _)
MatchPrefix(pattern, str) ==
    LET bar == FirstIn(pattern, 1, {"|"})
        one == MatchOne(SubSeq(pattern, 1, bar - 1), str)
    IN  IF bar > Len(pattern) \/ one > 0 THEN one
        ELSE MatchPrefix(From(pattern, bar + 1), str)

(* must_hide_file(): password files, and what the configuration hides.     *)
MustHideFile(path, hidden) ==
    \/ MatchPrefix(<<"*", "*", ".htpasswd", "$">>, path) > 0
    \/ hidden # << >> /\ MatchPrefix(hidden, path) > 0
-----------------------------------------------------------------------------
(* Paths.                                                                  *)

Slash == {"/", "\\"}

(* Mutant of SkipDots: what follows the slash is looked at once.           *)
SkipDotsOnce(s) == IF At(s, 1) = "." /\ At(s, 2) = "." THEN From(s, 3) ELSE s

RECURSIVE SkipDots(_)
SkipDots(s) ==
    IF At(s, 1) \in Slash THEN SkipDots(Tail(s))
    ELSE IF At(s, 1) = "." /\ At(s, 2) = "." THEN SkipDots(From(s, 3))
    ELSE s

(* remove_double_dots_and_double_slashes().                                *)
RECURSIVE RemoveDoubleDots(_)
RemoveDoubleDots(s) ==
    IF s = << >> THEN << >>
    ELSE <<s[1]>> \o RemoveDoubleDots(IF s[1] \in Slash THEN SkipDots(Tail(s)) ELSE Tail(s))

(* Mutant of Overwrite: the end of the new string is not marked.           *)
OverwriteOpen(old, new) == [i \in DOMAIN old |-> IF i <= Len(new) THEN new[i] ELSE old[i]]

(* Writing a shorter string over a longer one leaves the old end behind.   *)
Overwrite(old, new) == [i \in DOMAIN old |->
    IF i <= Len(new) THEN new[i] ELSE IF i = Len(new) + 1 THEN Nul ELSE old[i]]

(* handle_request(): the uri is decoded and cleaned in place, and whether  *)
(* it lacks a last slash is told from the place where it used to end.      *)
CleanUri(uri) == RemoveDoubleDots(UrlDecode(uri, FALSE))
LacksSlash(uri) ==
    LET decoded == UrlDecode(uri, FALSE)
        inPlace == Overwrite(Overwrite(uri, decoded), RemoveDoubleDots(decoded))
    IN  inPlace[Len(uri)] # "/"

(* convert_uri_to_file_name(), which also stats: for a script the rest of  *)
(* the path behind it is its PATH_INFO.  rewrite is a sequence of records. *)
ConvertUriToFileName(root, rewrite, cgi, files, uri) ==
    LET hits == {i \in DOMAIN rewrite : MatchPrefix(rewrite[i].from, uri) > 0}
        rule == rewrite[Min(hits)]
        path == IF hits = {} THEN root \o uri
                ELSE rule.to \o From(uri, MatchPrefix(rule.from, uri) + 1)
        scripts == {k \in 3 .. Len(path) :
                      /\ path[k] = "/"
                      /\ MatchPrefix(cgi, SubSeq(path, 1, k - 1)) > 0
                      /\ SubSeq(path, 1, k - 1) \in files}
    IN  IF path \in files THEN [found |-> TRUE, path |-> path, info |-> << >>]
        ELSE IF scripts = {} THEN [found |-> FALSE, path |-> path, info |-> << >>]
        ELSE [found |-> TRUE, path |-> SubSeq(path, 1, Max(scripts) - 1),
              info |-> From(path, Max(scripts))]
-----------------------------------------------------------------------------
(* Dates.  A date has the fields sscanf() gave; months count from 1.       *)

Day == 24 * 3600
DaysBeforeMonth == <<0, 31, 59, 90, 120, 151, 181, 212, 243, 273, 304, 334>>

(* Mutant of NumLeapYears: 2000 is not one.                                *)
NumLeapYearsShort(year) == year \div 4 - year \div 100

NumLeapYears(year) == year \div 4 - year \div 100 + year \div 400

(* parse_date_string().  It counts in int, which lasts until 2037.         *)
ParseDate(d) ==
    IF d.year <= 1970 \/ d.month \notin 1 .. 12 THEN 0
    ELSE LET leaps == NumLeapYears(d.year) - NumLeapYears(1970)
             days  == (d.year - 1970) * 365 + DaysBeforeMonth[d.month] + d.day - 1 + leaps
         IN  days * Day + d.second

(* is_not_modified() for the header If-Modified-Since.                     *)
IsNotModified(mtime, date) == mtime <= ParseDate(date)
=============================================================================
