------------------------------- MODULE MCText -------------------------------
(***************************************************************************)
(* Checks the operators of HttpText, SpatialQuery and XmlText, and with    *)
(* MCRules those of HttpOptions, Settings and XmlChars, against independent*)
(* definitions of what they are for.  A behaviour picks one input of one   *)
(* kind, and ends; the invariants speak of the input picked.               *)
(***************************************************************************)
EXTENDS MCRules, SpatialQuery, XmlText

CONSTANTS ReadLen, HeadLen, UriPieces, PatternLen, StrLen,
          Kids, Tags, Fields    \* bounds of inputs

MCOrigin == [lon |-> 0, lat |-> 0]
MCCellSize == [width |-> 2, height |-> 3]
-----------------------------------------------------------------------------
(* Inputs.                                                                 *)

Init == input = [kind |-> "none"]

PickRead ==
    \E s \in Upto({"a", CR, LF, "ctl"}, ReadLen) :
        input' = [kind |-> "read", s |-> s]

PickHead ==
    \E s \in Upto({"a", ":", " ", CR, LF}, HeadLen), n \in 1 .. 2 :
        input' = [kind |-> "head", max |-> n,
                  s |-> <<"GET", " ", "/", " ", "HTTP/", "1", CR, LF>> \o s \o <<CR, LF, CR, LF>>]

FieldName  == {<<"a">>, <<"a", "b">>, <<"b", "a">>}
FieldValue == Upto({"x", " ", "%", "&", "+"}, 2)

PickForm ==
    \E f \in Upto([name : FieldName, value : FieldValue], 2), n \in {3, 7} :
        input' = [kind |-> "form", fields |-> f, size |-> n]

UriPiece == {<<"/">>, <<"\\">>, <<".">>, <<"a">>, <<"%", "2", "e">>, <<"%", "2", "f">>, <<"%", "2", "5">>}

PickUri ==
    \E u \in Upto(UriPiece, UriPieces) :
        input' = [kind |-> "uri", uri |-> <<"/">> \o FlattenSeq(u)]

PickPattern ==
    \E p \in Upto({"a", "*", "?", "$", "|"}, PatternLen), s \in Upto({"a", "b", "/"}, StrLen) :
        input' = [kind |-> "pattern", pattern |-> p, str |-> s]

Years == {1971, 1972, 1973, 1999, 2000, 2001, 2036, 2037}

PickDate ==
    \E y \in Years, m \in 1 .. 12, d \in {1, 15, 28}, sec \in {0, Day - 1} :
        input' = [kind |-> "date",
                  date |-> [year |-> y, month |-> m, day |-> d, second |-> sec]]

Report == [dev : 1 .. 2, lon : {-3, -1, 0, 1, 4}, lat : {0, 4}, time : 1 .. 2,
           groups : {{"g"}}]

PickReports ==
    \E u \in Upto(Report, 2) : input' = [kind |-> "reports", updates |-> u]

Branch(name, kids) == [kind |-> "element", value |-> name, attrs |-> << >>, kids |-> kids]
Named(name, value) == <<[name |-> <<name>>, value |-> value]>>

TextValue == {<< >>, <<"x">>, <<" ">>, <<"x", " ", " ", "x">>, <<"\n", "<">>}
TextNode  == {Leaf("text", v) : v \in TextValue} \union {Leaf("cdata", v) : v \in {<< >>, <<" ", "<">>}}
Child == TextNode
         \union {Leaf("comment", <<"x", "<">>), Leaf("unknown", <<"!", "x">>)}
         \union {Branch(<<"b">>, k) : k \in {<< >>} \union {<<t>> : t \in TextNode}}
         \union {[Branch(<<"b">>, << >>) EXCEPT !.attrs = Named("a", v)] :
                    v \in {<<" ", "\n">>, <<"'", "\"", "&">>}}

PickTree ==
    \E k \in Upto(Child, Kids) : input' = [kind |-> "tree", root |-> Branch(<<"a">>, k)]

Versioned == [NewDeclaration EXCEPT ![1].value = <<"1">>]

Tag == [is : {"open", "close"}, name : {<<"a", "a">>, <<"a", "b">>}]
       \union [is : {"empty"}, name : {<<"a", "b">>}]
       \union [is : {"text"}, value : {<<"x">>, <<" ">>}]
       \union [is : {"leaf"}, node : {Leaf("cdata", <<"x">>), Leaf("comment", <<"x">>),
                                   [Leaf("declaration", << >>) EXCEPT !.attrs = Versioned]}]

PickTags == \E t \in Upto(Tag, Tags) : input' = [kind |-> "tags", tags |-> t]

(* Lists of groups, and the groups they stand for.                         *)
GroupList == [v \in {<<"1", ",", " ", "2", ",">>, <<"1", " ", "x">>, <<",">>} |->
    CASE v = <<"1", ",", " ", "2", ",">> -> <<<<"1">>, <<"2">>>>
      [] v = <<"1", " ", "x">>           -> <<v>>
      [] v = <<",">>                     -> << >>]

FieldElement ==
    {Branch(<<n>>, << >>) : n \in {"dev_id", "roadlink", "group_ids", "a"}}
    \union {Branch(<<n>>, <<Leaf("text", v)>>) :
               n \in {"dev_id", "user_id", "roadlink"}, v \in {<<"1">>, <<"2", "1">>, <<"x">>}}
    \union {Branch(<<"group_ids">>, <<Leaf("text", v)>>) : v \in DOMAIN GroupList}
    \union {[Branch(<<n>>, << >>) EXCEPT !.attrs = Named("lon", v)] :
               n \in {"gps", "GPS"}, v \in {<<"2">>, << >>}}

PickMessage ==
    \E f \in Upto(FieldElement, Fields), root \in {"NaviMSG", "a"} :
        input' = [kind |-> "message", root |-> root, fields |-> f]

(* The messages shown in src/README.md:19 (and, with link_id for roadlink, *)
(* in the comment at src/src/mq.cpp:130), and in                           *)
(* src/test/mq_location_put.py:13, with short numbers.                     *)
Attr(name, value) == <<" ", name, "=", "\"">> \o value \o <<"\"">>
Fix == Attr("lon", <<"1">>) \o Attr("lat", <<"2">>) \o Attr("time", <<"1">>)
       \o Attr("speed", <<"2">>) \o Attr("direction", <<"1">>)
ElementText(name, value) == <<"<", name, ">">> \o value \o <<"<", "/", name, ">", "\n">>

Example ==
    {<<"<", "location">> \o Attr("user_id", <<"1">>) \o Attr("dev_id", <<"2">>) \o Fix
       \o Attr(link, <<"1">>) \o Attr("group_ids", <<"1", ",", "2">>) \o <<"/", ">">> :
         link \in {"roadlink", "link_id"}}
    \union {<<"\n", "<", "gps">> \o Fix \o <<"/", ">", "\n">>
              \o ElementText("group_ids", <<"1", ",", "2">>) \o ElementText("user_id", <<"1">>)
              \o ElementText("roadlink", <<"1">>) \o ElementText("dev_id", <<"2">>)}

PickExample == \E t \in Example : input' = [kind |-> "example", text |-> t]

ConfigElement ==
    {Branch(<<n>>, k) : n \in {"config", "a"},
                        k \in {<< >>, <<Leaf("text", <<"x">>)>>, <<Leaf("comment", <<"x">>)>>}}

PickConfig ==
    \E e \in Upto(ConfigElement, 3) : input' = [kind |-> "config", elements |-> e]

Next ==
    /\ input.kind = "none"
    /\ \/ PickRead \/ PickHead \/ PickForm \/ PickUri \/ PickPattern \/ PickDate
       \/ PickReports \/ PickTree \/ PickTags \/ PickMessage \/ PickConfig
       \/ PickExample \/ PickRule
-----------------------------------------------------------------------------
(* What they are for.                                                      *)

(* The lines of a text, blank ones left out.                               *)
RECURSIVE LineSeq(_)
LineSeq(s) ==
    IF s = << >> THEN << >>
    ELSE LET e == FirstIn(s, 1, {CR, LF})
         IN  (IF e = 1 THEN << >> ELSE <<SubSeq(s, 1, e - 1)>>) \o LineSeq(From(s, e + 1))

HeaderOf(line) ==
    LET colon == FirstIn(line, 1, {":"})
    IN  [name |-> SubSeq(line, 1, colon - 1),
         value |-> From(line, FirstOut(line, colon + 1, {" "}))]

(* What a browser makes of form fields.                                    *)
FormEncode(v) ==
    FlattenSeq([i \in DOMAIN v |-> IF v[i] = " " THEN <<"+">> ELSE UrlEncode(<<v[i]>>)])

QueryString(fields) == FlattenSeq([i \in DOMAIN fields |->
    (IF i = 1 THEN << >> ELSE <<"&">>)
    \o fields[i].name \o <<"=">> \o FormEncode(fields[i].value)])

(* Components of a path, of which the depth is counted.                    *)
RECURSIVE StaysBelow(_, _)
StaysBelow(path, depth) ==
    IF path = << >> THEN TRUE
    ELSE LET e == FirstIn(path, 1, Slash)
             c == SubSeq(path, 1, e - 1)
             d == IF c = <<".", ".">> THEN depth - 1
                  ELSE IF c \in {<< >>, <<".">>} THEN depth ELSE depth + 1
         IN  d >= 0 /\ StaysBelow(From(path, e + 1), d)

(* The offsets a pattern without alternatives can lead to from those in at.*)
RECURSIVE Ends(_, _, _)
Ends(p, s, at) ==
    IF p = << >> THEN at
    ELSE CASE p[1] = "$" -> at \intersect {Len(s)}
           [] p[1] = "*" /\ At(p, 2) = "*" ->
                Ends(From(p, 3), s, UNION {k .. Len(s) : k \in at})
           [] p[1] = "*" /\ At(p, 2) # "*" ->
                Ends(Tail(p), s, {m \in 0 .. Len(s) : \E k \in at :
                                    k <= m /\ "/" \notin Range(SubSeq(s, k + 1, m))})
           [] OTHER ->
                Ends(Tail(p), s, {k + 1 : k \in {j \in at : At(s, j + 1) \in
                                    (IF p[1] = "?" THEN Range(s) ELSE {p[1]})}})

RECURSIVE Alternatives(_)
Alternatives(p) ==
    LET bar == FirstIn(p, 1, {"|"})
    IN  <<SubSeq(p, 1, bar - 1)>>
        \o (IF bar > Len(p) THEN << >> ELSE Alternatives(From(p, bar + 1)))

Longest(p, s) == Max(Ends(p, s, {0}) \union {-1})

IsLeap(y) == y % 4 = 0 /\ (y % 100 # 0 \/ y % 400 = 0)
MonthLength(y, m) ==
    IF m = 2 THEN (IF IsLeap(y) THEN 29 ELSE 28) ELSE IF m \in {4, 6, 9, 11} THEN 30 ELSE 31
Seconds(d) ==
    (  MapThenSumSet(LAMBDA y : IF IsLeap(y) THEN 366 ELSE 365, 1970 .. d.year - 1)
     + MapThenSumSet(LAMBDA m : MonthLength(d.year, m), 1 .. d.month - 1)
     + d.day - 1) * Day + d.second

(* The kids of an element as a reader finds them: texts that touch are one,*)
(* with sep between them, runs of blanks are one blank, and what is blank  *)
(* altogether is nothing.                                                  *)
RECURSIVE Condense(_)
Condense(v) ==
    LET from == FirstOut(v, 1, {" "})
        e    == FirstIn(v, from, {" "})
        rest == Condense(From(v, e))
    IN  IF from > Len(v) THEN << >>
        ELSE SubSeq(v, from, e - 1) \o (IF rest = << >> THEN << >> ELSE <<" ">> \o rest)

Joined(kids, sep) ==
    LET Join(done, k) ==
            IF k.kind = "text" /\ done # << >> /\ Last(done).kind = "text"
            THEN Front(done) \o <<[Last(done) EXCEPT !.value = @ \o sep \o k.value]>>
            ELSE Append(done, k)
    IN  FoldLeft(Join, << >>, kids)

RECURSIVE Normal(_, _)
Normal(node, sep) ==
    LET kids == Joined(node.kids, sep)
        kept == SelectSeq([i \in DOMAIN kids |-> Normal(kids[i], sep)],
                          LAMBDA k : k.kind # "text" \/ ~Blank(k))
    IN  [node EXCEPT !.kids = kept,
                     !.value = IF node.kind = "text" THEN Condense(@) ELSE @]

(* The tree a sequence of tags stands for: elements that are open, from    *)
(* the document on; done when nothing more is read.                        *)
TagText(t) ==
    CASE t.is = "open"  -> StartTag(Branch(t.name, << >>), << >>)
      [] t.is = "close" -> <<"<", "/">> \o t.name \o <<">">>
      [] t.is = "empty" -> StartTag(Branch(t.name, << >>), <<"/">>)
      [] t.is = "text"  -> t.value
      [] t.is = "leaf"  -> LeafText(t.node)

AddKid(open, node) == Front(open) \o <<[Last(open) EXCEPT !.kids = Append(@, node)]>>

TakeTag(st, t) ==
    IF st.done \/ (t.is = "text" /\ Len(st.open) = 1 /\ t.value # <<" ">>)
    THEN [st EXCEPT !.done = TRUE]
    ELSE CASE t.is = "open"  -> [st EXCEPT !.open = Append(@, Branch(t.name, << >>))]
           [] t.is = "empty" -> [st EXCEPT !.open = AddKid(@, Branch(t.name, << >>))]
           [] t.is = "text"  -> [st EXCEPT !.open = AddKid(@, Leaf("text", t.value))]
           [] t.is = "leaf"  -> [st EXCEPT !.open = AddKid(@, t.node)]
           [] t.is = "close" /\ Len(st.open) = 1 ->
                [st EXCEPT !.open = AddKid(@, Leaf("unknown", <<"/">> \o t.name))]
           [] t.is = "close" /\ Len(st.open) > 1 ->
                [st EXCEPT !.open = AddKid(Front(@), Last(@)),
                           !.bad = @ \/ t.name # Last(st.open).value]

TreeOfTags(tags) ==
    FoldLeft(TakeTag, [open |-> <<Branch(<< >>, << >>)>>, done |-> FALSE, bad |-> FALSE], tags)
-----------------------------------------------------------------------------
(* Properties.                                                             *)

(* read_request() looks at the buffer after every piece that comes: into   *)
(* whatever pieces a request was cut on its way, the same end is found.    *)
(* parse_http_headers() goes by colons and line ends in turn: that is one  *)
(* header to a line, up to the limit or a line that begins with a colon,   *)
(* as long as every line has a colon; and it never reads into the body.    *)
RequestRead ==
    /\ input.kind = "read" =>
           \A cuts \in SUBSET (1 .. Len(input.s)) :
               Len(input.s) \in cuts => ReadRequest(input.s, cuts) = GetRequestLen(input.s)
    /\ input.kind = "head" =>
           LET lines == Tail(LineSeq(SubSeq(input.s, 1, GetRequestLen(input.s))))
               stops == {i \in DOMAIN lines : lines[i][1] = ":"} \union {input.max + 1, Len(lines) + 1}
               want  == [i \in 1 .. Min(stops) - 1 |-> HeaderOf(lines[i])]
               req   == ParseHttpRequest(input.s, input.max)
           IN  (\A i \in DOMAIN lines : ":" \in Range(lines[i])) =>
                   req.ok /\ req.uri = <<"/">> /\ req.headers = want

(* get_qsvar(): what a browser made of the fields of a form is read back,  *)
(* the first field of a name; its default is used when it is not there, or *)
(* empty, or too long in the form it was sent in, though not decoded.      *)
FormReadBack ==
    input.kind = "form" =>
        LET f  == input.fields
            at == {i \in DOMAIN f : f[i].name = <<"a">>}
            v  == f[Min(at)].value
            want == IF at = {} \/ v = << >> \/ Len(FormEncode(v)) >= input.size
                    THEN <<"default">> ELSE v
        IN  GetQsVar(QueryString(f), <<"a">>, <<"default">>, input.size) = want

(* handle_request() decodes a uri and takes double dots out of it: walking *)
(* along what is left never leads above the document root, nor does the    *)
(* name of the file found there or the PATH_INFO behind a script.  The     *)
(* file of passwords is hidden wherever it is.  A directory asked for      *)
(* without its last slash is redirected to its uri with one: the client    *)
(* comes back and is redirected again, without end, exactly when cleaning  *)
(* left a slash there after all (a uri that has to be decoded once more is *)
(* not spoken of).                                                         *)
PathStaysBelowRoot ==
    input.kind = "uri" =>
        \A clean \in {CleanUri(input.uri)} :
            /\ StaysBelow(Tail(clean), 0)
            /\ ~ \E i \in 1 .. Len(clean) - 1 : clean[i] \in Slash /\ clean[i + 1] \in Slash
            /\ \A file \in {ConvertUriToFileName(<<"root">>, << >>, <<"*", "*", "a", "$">>,
                                                  {<<"root", "/", "a">>}, clean)} :
                   file.found => /\ file.path \o file.info = <<"root">> \o clean
                                 /\ StaysBelow(file.info, 0)
            /\ MustHideFile(<<"root">> \o clean \o <<".htpasswd">>, << >>)
            /\ LacksSlash(input.uri) /\ "%" \notin Range(clean) =>
                   (LacksSlash(clean \o <<"/">>) <=> Last(clean) \in Slash)

(* match_prefix(): the longest match of the first alternative that matches *)
(* something; a result above 0, which is all its callers ask for, if and   *)
(* only if there is one.                                                   *)
MatchIsLongest ==
    input.kind = "pattern" =>
        LET alts == Alternatives(input.pattern)
            fit  == {i \in DOMAIN alts : Longest(alts[i], input.str) > 0} \union {Len(alts)}
        IN  MatchPrefix(input.pattern, input.str) = Longest(alts[Min(fit)], input.str)

(* parse_date_string() and is_not_modified(): a file is called unchanged   *)
(* if it is not newer than the date the client has; but in January and     *)
(* February of a leap year that date is read as one day later, and changes *)
(* of a whole day are withheld.                                            *)
DatesAreDays ==
    input.kind = "date" =>
        LET d     == input.date
            early == IsLeap(d.year) /\ d.month <= 2
            real  == Seconds(d)
        IN  \A mtime \in {real - 1, real, real + 1, real + Day, real + Day + 1} :
                IsNotModified(mtime, d) <=> mtime <= real + (IF early THEN Day ELSE 0)

Circles == {<< >>, <<0, 0, 2>>, <<1, 0, 1>>, <<-1, 2, 4>>, <<1, Bad, 1>>}
Rects   == {<< >>, <<0, 0, 1, 4>>, <<-1, 0, 5, 4>>, <<-3, -1, 5, 5>>, <<0, 0, 9, 1>>}
Params  == [circle : Circles, rect : Rects, order : {ByTime, ByDistance}, elapsed : {0, 1},
            limit : {1, 3}, group_id : {"", "g"}]
Now == 2

(* A spatial query, from its parameters to its answer.  Unless the area    *)
(* looked through begins to the west or the south of the origin, every     *)
(* device whose last report it asks for is in the answer, or the answer is *)
(* full and, in the order of time, has older ones only.  Any other report  *)
(* in it was followed by one of the device from another cell.  An area     *)
(* that begins two cells or more outside the grid and ends inside finds    *)
(* nothing, wherever the devices are.                                      *)
FoundWhereItIs ==
    input.kind = "reports" =>
        \A p \in Params :
            LET res  == HandleSpatialQuery(Filed(input.updates), p, Now)
                qc   == QueryCase(p)
                area == Area(qc)
                u    == input.updates
                last == {u[i] : i \in {k \in DOMAIN u : \A j \in k + 1 .. Len(u) : u[j].dev # u[k].dev}}
                asked == {r \in last : Accepted(r, qc, Now)}
                outside == area.x < Origin.lon \/ area.y < Origin.lat
                edge    == Origin.lon - 2 * CellSize.width
                given == Range(res.list)
            IN  res.error = "none" =>
                    /\ ~outside => \/ asked \subseteq given
                                   \/ Len(res.list) = qc.maxnum
                    /\ ~outside /\ qc.qot = ByTime =>
                           \A r \in asked \ given, g \in given : g.time <= r.time
                    /\ \A g \in given \ last : \E r \in last :
                           r.dev = g.dev /\ MakeCellId(r.lon, r.lat) # MakeCellId(g.lon, g.lat)
                    /\ area.x <= edge /\ area.x + area.width > edge
                           => given = {}

(* The answer to a spatial query, sent through the buffer of mg_printf()   *)
(* and parsed, has the reports found in their order, or the error.  Only   *)
(* when it is exactly as long as the buffer its last character is lost,    *)
(* and with it the whole document.                                         *)
AnswerReadBack ==
    input.kind = "reports" =>
        \A p \in [circle : {<< >>, <<0, 0, 2>>}, rect : {<< >>, <<-3, -1, 5, 5>>}, order : {ByTime},
                  elapsed : {0}, limit : {1, 3}, group_id : {"g"}] :
            LET Has(e, name, value) == Attribute(e, name, << >>) = <<ToString(value)>>
                Shows(list, reports) ==
                    /\ Len(list) = Len(reports)
                    /\ \A i \in DOMAIN list :
                          \A f \in {"lon", "lat", "time"} : Has(list[i], f, reports[i][f])
                    /\ \A i \in DOMAIN list : Has(list[i], "dev_id", reports[i].dev)
                Sent(res, text) ==
                    \A size \in Len(text) - 1 .. Len(text) + 1 :
                        \A doc \in {Parse(MgPrintf(text, size))} :
                            /\ doc.err <=> size = Len(text)
                            /\ ~doc.err /\ res.error = "none" => Shows(doc.kids[1].kids[1].kids, res.list)
            IN  \A res \in {HandleSpatialQuery(Filed(input.updates), p, Now)} : Sent(res, ReturnXml(res))

(* A document that is saved and loaded, or printed to a string, and parsed *)
(* is the document it was, but for the blanks in texts: neither escaped    *)
(* characters nor the layout that printing adds get into it, in whichever  *)
(* way lines end in the file.  Texts side by side become one, with a blank *)
(* between if TiXmlPrinter wrote them.                                     *)
PrintReadBack ==
    input.kind = "tree" =>
        LET text == DocumentText(<<input.root>>)
            dos  == FlattenSeq([i \in DOMAIN text |->
                        IF text[i] = "\n" THEN <<"\r", "\n">> ELSE <<text[i]>>])
            Read(sep) == [err |-> FALSE, kids |-> <<Normal(input.root, sep)>>]
        IN  /\ \A saved \in {text, dos} : LoadFile(saved) = Read(<< >>)
            /\ Parse(PrinterText(<<input.root>>)) = Read(<<" ">>)

(* Parse(): the tree of a text is the one its tags stand for, and there is *)
(* an error if and only if one is closed by another's end tag, is left     *)
(* open, or there is nothing.  Text between the nodes of a document hides  *)
(* what follows it, and an end tag there is kept as an unknown node, both  *)
(* without an error.                                                       *)
TagsMakeTree ==
    input.kind = "tags" =>
        LET text == FlattenSeq([i \in DOMAIN input.tags |-> TagText(input.tags[i])])
        IN  \A doc \in {Parse(text)}, tree \in {TreeOfTags(input.tags)} :
                \A kids \in {Normal(tree.open[1], << >>).kids} :
                    /\ doc.err <=> tree.bad \/ Len(tree.open) > 1 \/ kids = << >>
                    /\ ~doc.err => doc.kids = kids

(* The report parseMsg() starts with: what was in memory, and no groups.   *)
memory == <<"whatever">>
unset == [dev_id |-> memory, user_id |-> memory, link_id |-> memory,
          gps |-> memory, group_ids |-> << >>]

(* parseMsg(): a message gives a report if its root is NaviMSG and every   *)
(* element in it is known and, but for the groups, which are any strings   *)
(* between commas, a number where it has to be one.  An element that comes *)
(* twice counts the last time, except that groups add up; but one that does*)
(* not come at all, dev_id too, leaves its field as the memory was, and the*)
(* report is used.                                                         *)
MessageRead ==
    input.kind = "message" =>
        LET f == input.fields
            Good(e) == \/ e.value \in {<<"dev_id">>, <<"user_id">>, <<"roadlink">>}
                          /\ e.kids # << >> /\ Range(e.kids[1].value) \subseteq Digits
                       \/ e.value = <<"roadlink">> /\ e.kids = << >>
                       \/ e.value = <<"group_ids">>
                       \/ e.attrs # << >> /\ e.attrs[1].value # << >>
            LastText(name) ==
                LET at == {i \in DOMAIN f : f[i].value = <<name>>}
                IN  IF at = {} THEN memory ELSE GetText(f[Max(at)])
            Groups(e) == IF e.value = <<"group_ids">> /\ e.kids # << >>
                         THEN GroupList[e.kids[1].value] ELSE << >>
        IN  \A report \in {ParseMsg(DocumentText(<<Branch(<<input.root>>, f)>>), unset)} :
                /\ report # NoReport <=>
                       input.root = "NaviMSG" /\ \A i \in DOMAIN f : Good(f[i])
                /\ report # NoReport =>
                       /\ report.dev_id = LastText("dev_id") /\ report.user_id = LastText("user_id")
                       /\ report.link_id = (IF LastText("roadlink") = << >> THEN <<"0">>
                                            ELSE LastText("roadlink"))
                       /\ report.gps = memory <=> \A i \in DOMAIN f : f[i].attrs = << >>
                       /\ report.group_ids = FlattenSeq([i \in DOMAIN f |-> Groups(f[i])])

(* src/README.md:19 lists as the message of the queue location_put:        *)
(* "<location user_id="1" dev_id="2000" ..."; so does the comment above    *)
(* parseMsg(), and src/test/mq_location_put.py puts another form into it.  *)
(* The code drops each of them: its root is not NaviMSG.                   *)
ExamplesDropped == input.kind = "example" => ParseMsg(input.text, unset) = NoReport

(* AddinWrapper::Initialize() goes from an element to its first child and  *)
(* on to the one after that: the name of the configuration file is found   *)
(* where config is the only element of the root.  With any other number of *)
(* elements, or one that has no text, the process ends.                    *)
ConfigIsOnlyElement ==
    input.kind = "config" =>
        LET e == input.elements
            one == Len(e) = 1 /\ e[1].kids # << >> /\ e[1].kids[1].kind = "text"
        IN  \A read \in {ReadConfig(DocumentText(<<Branch(<<"a">>, e)>>))} :
                /\ read.end = "crash" <=> ~one
                /\ read.end = "file" <=> one /\ e[1].value = <<"config">>

(* What a client sends in the fields of a form, in cookies and in dates is *)
(* what the handlers are given, as far as the parts of this say.           *)
ValuesRead == FormReadBack /\ CookieReadBack /\ DatesAreDays

(* The rules of the configuration do what their lists say: patterns, who   *)
(* is let in, who is slowed down, where the server listens, which password *)
(* is a user's.                                                            *)
RulesApplied ==
    MatchIsLongest /\ AclApplied /\ ThrottleApplied /\ StartApplied /\ PasswordsApplied

(* A spatial query finds the devices that are there, and its answer says   *)
(* so when it is parsed.                                                   *)
QueryAnswered == FoundWhereItIs /\ AnswerReadBack

(* What the server is told from outside is what it works with: messages of *)
(* the queue, the file the add-in is given, the file of settings.          *)
InputRead == MessageRead /\ ExamplesDropped /\ ConfigIsOnlyElement /\ SettingsRead

(* What TinyXML makes of a text is what was meant by it, be it printed by  *)
(* TinyXML or written tag by tag.                                          *)
XmlParsed == PrintReadBack /\ TagsMakeTree

(* Below its grammar TinyXML keeps the characters it was given and their   *)
(* places.                                                                 *)
CharactersKept == PlaceCounted /\ StringHolds
=============================================================================
