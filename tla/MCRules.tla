------------------------------- MODULE MCRules -------------------------------
(***************************************************************************)
(* Inputs for HttpOptions, Settings and XmlChars, and what those operators *)
(* are for, in independent definitions.  MCText makes a specification of   *)
(* the inputs.                                                             *)
(***************************************************************************)
EXTENDS HttpOptions, Settings, XmlChars

VARIABLE input

Upto(set, n) == UNION {[1 .. k -> set] : k \in 0 .. n}
-----------------------------------------------------------------------------
(* Inputs.                                                                 *)

(* Nets as they are written; [size |-> 33] and a missing octet are not.    *)
NetText(n) == n.quad \o (IF n.size = -1 THEN << >> ELSE <<"/">> \o n.sizeText)

Dotted(a, b) == a \o <<".", "0", ".", "0", ".">> \o b
Net == [quad : {Dotted(<<"9">>, <<"0">>), Dotted(<<"9">>, <<"3">>), Dotted(<<"2", "5", "6">>, <<"0">>),
                <<"9", ".", "0", ".", "0">>},
        size : {-1}, sizeText : {<< >>}]
       \union {[quad |-> Dotted(<<"9">>, <<"0">>), size |-> z[1], sizeText |-> z[2]] :
                  z \in {<<0, <<"0">>>>, <<7, <<"7">>>>, <<31, <<"3", "1">>>>, <<32, <<"3", "2">>>>,
                         <<33, <<"3", "3">>>>}}
GoodNet(n) == n.quad \in {Dotted(<<"9">>, <<"0">>), Dotted(<<"9">>, <<"3">>)} /\ n.size <= 32
Size(n)    == IF n.size = -1 THEN 32 ELSE n.size
NetAddr(n) == <<9, 0, 0, IF n.quad = Dotted(<<"9">>, <<"3">>) THEN 3 ELSE 0>>

Commas(items) == FlattenSeq([i \in DOMAIN items |->
    (IF i = 1 THEN << >> ELSE <<",">>) \o items[i]])

PickAcl ==
    \E r \in Upto([flag : {"+", "-"}, net : Net], 2) : input' = [kind |-> "acl", rules |-> r]

ThrottleValue == {<< >>, <<"5">>, <<"2", "k">>, <<"x">>}
PickThrottle ==
    \E r \in Upto([who : {<<"*">>, <<"/", "a">>, <<"a">>} \union {NetText(n) : n \in Net},
                   value : ThrottleValue], 2) :
        input' = [kind |-> "throttle", rules |-> r]

Port == [addr : {<< >>, Dotted(<<"9">>, <<"3">>), Dotted(<<"9">>, <<"0">>)}, ssl : BOOLEAN,
         port : {<<"8", "0">>, <<"6", "5", "6", "1", "6">>, <<"8", "1">>, <<"x">>}]
PickStart ==
    \E p \in Upto(Port, 2), u \in {"none", "known", "unknown"}, a \in {"none", "good", "bad"},
       b \in SUBSET {80}, c \in BOOLEAN :
        input' = [kind |-> "start", ports |-> p, user |-> u, acl |-> a, bound |-> b, cert |-> c]

Cookie == [name : {<<"a">>, <<"b">>, <<"b", "a">>},
           value : {<< >>, <<"x">>, <<"\"", "x", "\"">>, <<"a", "=", "y">>}]
PickCookies ==
    \E c \in Upto(Cookie, 3) : input' = [kind |-> "cookies", cookies |-> c]

Change == [domain : {"d", "e"}, user : {"u", "v"}, pass : {"", "1", "2"}]
PickPasswords ==
    \E c \in Upto(Change, 3) : input' = [kind |-> "passwords", changes |-> c]

Piece == {[is |-> "text", text |-> t] : t \in {<<"x">>, <<"<", "b", ">">>, <<"<", "a", "b">>, <<"a", "b", "c", "d">>}}
         \union {[is |-> "include", how |-> h, name |-> n] :
                    h \in {"virtual=", "file=", "page"}, n \in {<<"f">>, <<"p">>, <<"none">>}}
         \union {[is |-> "exec", name |-> <<"ls">>], [is |-> "unknown"], [is |-> "long"]}
PickPage ==
    \E p \in Upto(Piece, 3), l \in 0 .. MaxLevel : input' = [kind |-> "page", pieces |-> p, level |-> l]

SettingLine ==
    [key : {"map.origin", "checkwait", "syncpoint", "mq.name"},
     value : {<< >>, <<"1", "2">>, <<"-", "3">>, <<"a", "=", "=", " ", "b">>, <<"7", "0", ",", "1">>,
              <<"7", ",", " ", "1">>},
     comment : {"none", "behind", "all"}]
PickSettings ==
    \E l \in Upto(SettingLine, 2), n \in BOOLEAN, e \in {{}, {"log"}, {"database"}} :
        input' = [kind |-> "settings", lines |-> l, newline |-> n, env |-> e]

Utf8Char == {<<"a">>, <<"\n">>, <<"\r", "\n">>, <<"\t">>, <<"c2", "80">>, <<"ef", "bb", "bf">>,
             <<"ef", "80", "80">>, <<"f0", "80", "80", "80">>}
PickPlace ==
    \E c \in Upto(Utf8Char, 4), u \in BOOLEAN : input' = [kind |-> "place", chars |-> c, utf8 |-> u]

PickBytes ==
    \E s \in Upto({"a", "c2", "ef", "\n"}, 4) : input' = [kind |-> "bytes", s |-> s]

PickChar ==
    \E n \in {0, 1, 127, 128, 2047, 2048, 65535, 65536, 2097151, 2097152} :
        input' = [kind |-> "char", n |-> n]

StrText == {<< >>, <<"a", "b">>, [i \in 1 .. 30 |-> "c"]}
StrOp == [op : {"assign", "append"}, v : {"s", "t"}, text : StrText]
         \union [op : {"copy", "self", "clear", "swap", "reserve"}, v : {"s", "t"}]
PickStrings == \E o \in Upto(StrOp, 3) : input' = [kind |-> "strings", ops |-> o]

PickRule ==
    \/ PickAcl \/ PickThrottle \/ PickStart \/ PickCookies \/ PickPasswords \/ PickPage
    \/ PickSettings \/ PickPlace \/ PickBytes \/ PickChar \/ PickStrings
-----------------------------------------------------------------------------
(* What they are for.                                                      *)

(* Whether an address is in a net, and no bit of the net is set behind its *)
(* size: bit by bit.                                                       *)
Bit(addr, i) == (addr[((i - 1) \div 8) + 1] \div 2 ^ (7 - ((i - 1) % 8))) % 2
Matches(ip, n) ==
    /\ \A i \in 1 .. Size(n) : Bit(ip, i) = Bit(NetAddr(n), i)
    /\ \A i \in Size(n) + 1 .. 32 : Bit(NetAddr(n), i) = 0

Ips == {<<9, 0, 0, 0>>, <<9, 0, 0, 3>>, <<9, 0, 0, 1>>, <<8, 0, 0, 0>>, <<137, 0, 0, 0>>}

(* check_acl(): with a list, an address is let in if the last rule for it  *)
(* says so, and nobody is let in by a list with a rule that is malformed.  *)
(* A net that has bits behind its size is the rule of nobody.              *)
AclApplied ==
    input.kind = "acl" =>
        LET r == input.rules
            list == Commas([i \in DOMAIN r |-> <<r[i].flag>> \o NetText(r[i].net)])
        IN  \A ip \in Ips :
                LET mine == {i \in DOMAIN r : Matches(ip, r[i].net)}
                IN  /\ CheckAcl(NoValue, ip) = 1
                    /\ \A res \in {CheckAcl(list, ip)} :
                          /\ res = -1 <=> \E i \in DOMAIN r : ~GoodNet(r[i].net)
                          /\ res = 1 <=> res # -1 /\ mine # {} /\ r[Max(mine)].flag = "+"

(* set_throttle(): the last rule that speaks of the address or the uri and *)
(* has a rate decides; a rule without "=" is the end of the process.  A net*)
(* that is malformed is taken for a pattern of uris.                       *)
ThrottleApplied ==
    input.kind = "throttle" =>
        LET r == input.rules
            Value(v) == IF v = << >> THEN << >> ELSE <<"=">> \o v
            list == Commas([i \in DOMAIN r |-> r[i].who \o Value(r[i].value)])
            Rate(v) == IF v = <<"5">> THEN 5 ELSE 2048
        IN  \A ip \in Ips, uri \in {<<"/", "a", "b">>, <<"/", "b">>} :
                LET Speaks(who) ==
                        \/ who = <<"*">>
                        \/ who = <<"/", "a">> /\ uri[2] = "a"
                        \/ \E n \in Net : GoodNet(n) /\ NetText(n) = who /\ Matches(ip, n)
                    mine == {i \in DOMAIN r : r[i].value # <<"x">> /\ Speaks(r[i].who)}
                IN  SetThrottle(list, ip, uri) =
                        IF \E i \in DOMAIN r : r[i].value = << >> THEN Crash
                        ELSE IF mine = {} THEN 0 ELSE Rate(r[Max(mine)].value)

(* mg_start(), before its threads: it listens where every port of its list *)
(* says or it fails.  Having failed over a port it has closed the others,  *)
(* but over the user or the list of rules for addresses, which are looked  *)
(* at later, it leaves all of them open, for good.  A port above 65535 is  *)
(* another one.                                                            *)
StartApplied ==
    input.kind = "start" =>
        LET p == input.ports
            Addr(a) == IF a = << >> THEN << >> ELSE a \o <<":">>
            list == Commas([i \in DOMAIN p |-> Addr(p[i].addr) \o p[i].port \o (IF p[i].ssl THEN <<"s">> ELSE << >>)])
            env  == [cert |-> input.cert, users |-> {<<"known">>},
                     bound |-> {[addr |-> <<9, 0, 0, 0>>, port |-> q] : q \in input.bound}]
            opts == <<[name |-> "p", value |-> list]>>
                    \o (IF input.user = "none" THEN << >> ELSE <<[name |-> "u", value |-> <<input.user>>]>>)
                    \o (IF input.acl = "none" THEN << >>
                        ELSE <<[name |-> "l", value |-> IF input.acl = "bad" THEN <<"9">>
                                                        ELSE <<"-">> \o Dotted(<<"9">>, <<"0">>)]>>)
            Number(i) == IF p[i].port = <<"8", "1">> THEN 81 ELSE 80
            Same(a, b) == a = << >> \/ b = << >> \/ a = b
            portsOk == \A i \in DOMAIN p :
                          /\ p[i].port # <<"x">> /\ (p[i].ssl => input.cert)
                          /\ \A j \in 1 .. i - 1 : Number(i) = Number(j) => ~Same(p[i].addr, p[j].addr)
                          /\ Number(i) \in input.bound => ~Same(p[i].addr, Dotted(<<"9">>, <<"0">>))
        IN  \A res \in {MgStart(opts, env)} :
                /\ res.started <=> portsOk /\ input.user # "unknown" /\ input.acl # "bad"
                /\ Len(res.sockets) = (IF portsOk THEN Len(p) ELSE 0)
                /\ {s.port : s \in Range(res.sockets)} \subseteq {Number(i) : i \in DOMAIN p}

(* mg_modify_passwords_file() and authorize(): after any changes a user is *)
(* let in with the password last given, and no longer when that was empty; *)
(* no other user's change touches that.                                    *)
PasswordsApplied ==
    input.kind = "passwords" =>
        LET c == input.changes
            first == <<[user |-> NoUser], [user |-> "v", domain |-> "d", ha1 |-> Md5("v", "d", "1")]>>
            file == FoldLeft(LAMBDA f, x : ModifyPasswords(f, x.domain, x.user, x.pass), first, c)
        IN  \A d \in {"d", "e"}, u \in {"u", "v"} :
                LET mine == {i \in DOMAIN c : c[i].domain = d /\ c[i].user = u}
                    now  == IF mine # {} THEN c[Max(mine)].pass
                            ELSE IF u = "v" /\ d = "d" THEN "1" ELSE ""
                IN  {p \in {"1", "2"} : Authorized(file, d, u, p)} = {now} \ {""}

(* mg_get_cookie(): of the cookies a browser sends, one has the value it   *)
(* was given, up to the quotes around it; but if before it comes one whose *)
(* name or value ends like its name and is followed by "=", that one's.    *)
CookieReadBack ==
    input.kind = "cookies" =>
        LET c == input.cookies
            Pair(x) == x.name \o <<"=">> \o x.value
            text == FlattenSeq([i \in DOMAIN c |-> Pair(c[i]) \o (IF i = Len(c) THEN << >> ELSE <<";", " ">>)])
            Inner(v) == IF v # << >> /\ v[1] = "\"" THEN <<"x">> ELSE v
            at == {i \in DOMAIN c : Last(c[i].name) = "a" \/ At(c[i].value, 2) = "="}
            hit == c[Min(at)]
        IN  MgGetCookie(text, <<"a">>, 10) =
                IF at = {} THEN NoValue
                ELSE IF Last(hit.name) = "a" THEN Inner(hit.value) ELSE <<"y">>

(* A page of pieces, and what it should be sent as.                        *)
PieceText(p) ==
    CASE p.is = "text" -> p.text
      [] p.is = "include" -> TagStart \o <<"include", " ">> \o (IF p.how = "page" THEN << >> ELSE <<p.how>>)
                             \o <<"\"">> \o p.name \o <<"\"", ">">>
      [] p.is = "exec" -> TagStart \o <<"exec", " ", "\"">> \o p.name \o <<"\"", ">">>
      [] p.is = "unknown" -> TagStart \o <<"echo", ">">>
      [] p.is = "long" -> TagStart \o [k \in 1 .. MaxTag - 4 |-> "x"] \o <<">">>

PageOf(pieces) == FlattenSeq([i \in DOMAIN pieces |-> PieceText(pieces[i])])
SsiPages(pieces) ==
    (<<"d", "/", "p">> :> PageOf(pieces)) @@ (<<"p">> :> PageOf(pieces)) @@ (<<"d", "/", "f">> :> <<"1">>)
    @@ (<<"f">> :> <<"2">>) @@ (<<"r", "/", "f">> :> <<"3">>)

RECURSIVE Expanded(_, _, _)
Expanded(pieces, dir, level) ==
    LET RECURSIVE Hidden(_)
        Hidden(i) == \E j \in 1 .. i - 1 :
            /\ pieces[j] = [is |-> "text", text |-> <<"<", "a", "b">>] /\ ~Hidden(j)
            /\ Len(PageOf(SubSeq(pieces, j, i - 1))) <= 5
            /\ ">" \notin Range(PageOf(SubSeq(pieces, j, i - 1)))
        File(name) == CASE name = <<"d", "/", "f">> -> <<"1">> [] name = <<"f">> -> <<"2">>
                         [] name = <<"r", "/", "f">> -> <<"3">>
                         [] name = <<"d", "/", "p">> -> Expanded(pieces, <<"d", "/">>, level + 1)
                         [] name = <<"p">> -> Expanded(pieces, <<"p">>, level + 1)
                         [] OTHER -> << >>
        Sent(i) == LET p == pieces[i]
                   IN  CASE p.is = "text" \/ Hidden(i) -> PieceText(p)
                         [] p.is = "exec" /\ ~Hidden(i) -> <<"output">> \o p.name
                         [] p.is = "unknown" /\ ~Hidden(i) -> << >>
                         [] p.is = "long" /\ ~Hidden(i) -> <<"x", "x", "x", ">">>
                         [] p.is = "include" /\ ~Hidden(i) ->
                              File((CASE p.how = "virtual=" -> <<"r", "/">>
                                       [] p.how = "file=" -> << >>
                                       [] p.how = "page" -> dir) \o p.name)
    IN  IF level > MaxLevel THEN << >> ELSE FlattenSeq([i \in DOMAIN pieces |-> Sent(i)])

(* send_ssi_file(): what is sent for a page is the page, with what each of *)
(* its directives stands for, down to the last level of includes; a page   *)
(* that includes itself ends.  A directive behind a "<" that is not the    *)
(* beginning of a tag is not seen if that is fewer than five characters    *)
(* away, and then is sent as text; of a tag that is too large the end is.  *)
PageSent ==
    input.kind = "page" =>
        SendSsiFile(SsiPages(input.pieces), <<"*", "*", "p", "$">>, <<"r">>, <<"d", "/", "p">>, input.level)
        = Expanded(input.pieces, <<"d", "/">>, input.level)

(* PlainConfig and LocServer::init(): a setting has the value of its last  *)
(* line, without the blanks around it and the comment behind it, and "="   *)
(* signs side by side are one; a number that cannot be read silently has   *)
(* its default.  So has one in the last line if that does not end with a   *)
(* newline or a comment, and an origin there keeps the server from         *)
(* starting.                                                               *)
SettingsRead ==
    input.kind = "settings" =>
        LET l == input.lines
            Shown(x) == (IF x.comment = "all" THEN <<"#">> ELSE << >>)
                        \o <<x.key, " ", "=">> \o x.value
                        \o (IF x.comment = "behind" THEN <<" ", "#", "=">> ELSE << >>)
            text == FlattenSeq([i \in DOMAIN l |-> Shown(l[i])
                        \o (IF i = Len(l) /\ ~input.newline THEN << >> ELSE <<"\n">>)])
            Given(key) == {i \in DOMAIN l : l[i].key = key /\ l[i].comment # "all"}
            Cut(i) == i = Len(l) /\ ~input.newline /\ l[i].comment = "none"
            Value(i) == (IF At(l[i].value, 1) = "a" THEN <<"a", "=", " ", "b">> ELSE l[i].value)
                        \o (IF Cut(i) THEN <<Nul>> ELSE << >>)
            IntOf(key, default, minus) ==
                IF Given(key) = {} THEN default
                ELSE CASE Value(Max(Given(key))) = <<"1", "2">> -> 12
                       [] Value(Max(Given(key))) = <<"-", "3">> -> minus
                       [] OTHER -> default
            origin == Given("map.origin")
        IN  \A res \in {ServerInit(text, input.env)} :
            /\ res.end = "running" <=> /\ input.env = {}
                                       /\ origin # {} => Value(Max(origin)) = <<"7", "0", ",", "1">>
            /\ res.end = "running" =>
                   /\ res.origin = (IF origin = {} THEN <<10, 70>> ELSE <<70, 1>>)
                   /\ res.syncwater = IntOf("syncpoint", 20, 2 * MaxInt + 2 - 3)
                   /\ res.checkwait = Max({5, IntOf("checkwait", 5, -3)})
                   /\ res.queue = (IF Given("mq.name") = {} THEN <<"mq_location">>
                                   ELSE Value(Max(Given("mq.name"))))

(* TiXmlParsingData::Stamp(): in a text of whole characters it comes to the*)
(* line and column an editor would show, however often it was asked on the *)
(* way; without UTF-8 it counts the bytes of a line.  It always comes to   *)
(* the end, unless the text breaks off within a character that begins with *)
(* EF.                                                                     *)
PlaceCounted ==
    /\ input.kind = "place" =>
           LET c == input.chars
               s == FlattenSeq(c)
               start == [at |-> 1, row |-> 0, col |-> 0, hangs |-> FALSE]
               end == Len(s) + 1
               breaks == {i \in DOMAIN c : c[i][1] \in {"\n", "\r"}}
               Wide(col, x) ==
                   IF x = <<"\t">> THEN (col \div TabSize + 1) * TabSize
                   ELSE IF ~input.utf8 THEN col + Len(x)
                   ELSE IF x = <<"ef", "bb", "bf">> THEN col ELSE col + 1
               line == SubSeq(c, Max(breaks \union {0}) + 1, Len(c))
               once == Stamp(s, start, end, input.utf8)
           IN  /\ ~once.hangs /\ once.row = Cardinality(breaks)
               /\ once.col = FoldLeft(Wide, 0, line)
               /\ \A k \in 0 .. Len(c) :
                      LET first == Stamp(s, start, Len(FlattenSeq(SubSeq(c, 1, k))) + 1, input.utf8)
                      IN  Stamp(s, first, end, input.utf8) = once
    /\ input.kind = "bytes" =>
           LET s == input.s
               res == Stamp(s, [at |-> 1, row |-> 0, col |-> 0, hangs |-> FALSE], Len(s) + 1, TRUE)
               RECURSIVE Broken(_)
               Broken(t) == t # << >> /\ ((t[1] = "ef" /\ Len(t) < 3) \/ Broken(From(t, Utf8Bytes(t[1]) + 1)))
           IN  /\ "\n" \notin Range(s) => (res.hangs <=> Broken(s))
               /\ res.hangs \/ res.at > Len(s)
    /\ input.kind = "char" =>
           LET b == Utf8(input.n)
               top == b[1] - <<0, 192, 224, 240>>[Len(b)]
           IN  /\ b = << >> <=> input.n >= 2097152
               /\ b # << >> =>
                      /\ FoldLeft(LAMBDA n, x : 64 * n + x - 128, top, Tail(b)) = input.n
                      /\ Range(b) \subseteq 0 .. 255 /\ Range(Tail(b)) \subseteq 128 .. 191
                      /\ Len(b) = 1 <=> b[1] < 128

(* TiXmlString: after any operations strings hold what they were given, no *)
(* two of them share memory, none is lost, and the block that the empty    *)
(* ones share stays empty; only a string added to itself is lost when it   *)
(* has to move.  After an assignment none holds more than three times      *)
(* what it needs and eight, and one built up by adding moves so seldom that*)
(* its room has doubled since the last time.                               *)
StringHolds ==
    input.kind = "strings" =>
        LET Other(v) == IF v = "s" THEN "t" ELSE "s"
            Do(mem, o) ==
                CASE o.op = "assign"  -> Assign(mem, o.v, o.text)
                  [] o.op = "append"  -> AppendText(mem, o.v, o.text)
                  [] o.op = "copy"    -> Assign(mem, o.v, Text(mem, Other(o.v)))
                  [] o.op = "self"    -> AppendSelf(mem, o.v)
                  [] o.op = "clear"   -> Clear(mem, o.v)
                  [] o.op = "swap"    -> Swap(mem, o.v, Other(o.v))
                  [] o.op = "reserve" -> Reserve(mem, o.v, 3)
            Want(t, o) ==
                CASE o.op = "assign"  -> [t EXCEPT ![o.v] = o.text]
                  [] o.op = "append"  -> [t EXCEPT ![o.v] = @ \o o.text]
                  [] o.op = "copy"    -> [t EXCEPT ![o.v] = t[Other(o.v)]]
                  [] o.op = "self"    -> [t EXCEPT ![o.v] = @ \o @]
                  [] o.op = "clear"   -> [t EXCEPT ![o.v] = << >>]
                  [] o.op = "swap"    -> [t EXCEPT !["s"] = t["t"], !["t"] = t["s"]]
                  [] o.op = "reserve" -> t
            empty == [text |-> << >>, cap |-> 0]
            Run(ops) == FoldLeft(Do, [rep |-> (NullRep :> empty), of |-> [v \in {"s", "t"} |-> NullRep]], ops)
            end  == Run(input.ops)
            want == FoldLeft(Want, [v \in {"s", "t"} |-> << >>], input.ops)
            o    == Last(input.ops)
            before == Run(Front(input.ops))
        IN  /\ end.rep[NullRep] = empty
            /\ end.of["s"] # end.of["t"] \/ end.of["s"] = NullRep
            /\ DOMAIN end.rep = Range(end.of) \union {NullRep}
            /\ \A v \in {"s", "t"} : /\ Len(Text(end, v)) = Len(want[v])
                                      /\ Len(Text(end, v)) <= Capacity(end, v)
                                      /\ (Text(end, v) = want[v] \/ "lost" \in Range(Text(end, v)))
            /\ "lost" \in Range(Text(end, "s")) \union Range(Text(end, "t")) =>
                   \E i \in DOMAIN input.ops :
                       LET m == Run(SubSeq(input.ops, 1, i - 1))
                           v == input.ops[i].v
                       IN  input.ops[i].op = "self" /\ 2 * Len(Text(m, v)) > Capacity(m, v)
            /\ input.ops # << >> /\ o.op \in {"assign", "copy"} =>
                   Capacity(end, o.v) <= 3 * (Len(Text(end, o.v)) + 8)
            /\ input.ops # << >> /\ o.op \in {"append", "self"} =>
                   \/ Capacity(end, o.v) = Capacity(before, o.v)
                   \/ Capacity(end, o.v) > 2 * Capacity(before, o.v)
=============================================================================
