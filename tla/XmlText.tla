------------------------------ MODULE XmlText ------------------------------
(***************************************************************************)
(* TinyXML (src/src/tinyxml), as its two users know it: a document parsed  *)
(* from text and printed to text, a queue message decoded (mq.cpp) and the *)
(* configuration of the add-in read (addin.cpp).                           *)
(*                                                                         *)
(* A node is a record.  A position in the text is a number from 1, one     *)
(* more than the length at the terminating null, or NULL.  Rows and        *)
(* columns are in XmlChars; the wording of errors is left out;             *)
(* condenseWhiteSpace has its default, true, which nothing changes.        *)
(***************************************************************************)
EXTENDS TextBase

CONSTANTS Letters, Digits   \* what names and numbers are made of

NULL == 0
White == {" ", "\t", "\n", "\r"}
NameStart == Letters \union {"_"}
NameChar  == NameStart \union Digits \union {"-", ".", ":"}

AtEnd(s, p) == p = NULL \/ p > Len(s)
StringEqual(s, p, tag) == p + Len(tag) - 1 <= Len(s) /\ SubSeq(s, p, p + Len(tag) - 1) = tag
SkipWhiteSpace(s, p) == IF AtEnd(s, p) THEN NULL ELSE FirstOut(s, p, White)

Leaf(kind, value) == [kind |-> kind, value |-> value, attrs |-> << >>, kids |-> << >>]
IsText(node) == node.kind \in {"text", "cdata"}
Blank(node) == \A i \in DOMAIN node.value : node.value[i] \in White
-----------------------------------------------------------------------------
(* Characters.                                                             *)

(* The table entity[], and some of the character references.               *)
Entity == [e \in {"amp;", "lt;", "gt;", "quot;", "apos;"} |->
             CASE e = "amp;" -> "&" [] e = "lt;" -> "<" [] e = "gt;" -> ">"
               [] e = "quot;" -> "\"" [] e = "apos;" -> "'"]
Code == [c \in {"09", "0A", "0D", "20", "26"} |->
             CASE c = "09" -> "\t" [] c = "0A" -> "\n" [] c = "0D" -> "\r"
               [] c = "20" -> " " [] c = "26" -> "&"]

(* GetEntity(): a reference to a character may end anywhere further on.    *)
(* The & of what is none is dropped.                                       *)
GetEntity(s, p) ==
    IF At(s, p + 1) = "#x"
    THEN LET q == FirstIn(s, p + 2, {";"})
             code == SubSeq(s, p + 2, q - 1)
         IN  IF q > Len(s) \/ Len(code) # 1 \/ At(code, 1) \notin DOMAIN Code
             THEN [p |-> NULL, text |-> << >>]
             ELSE [p |-> q + 1, text |-> <<Code[code[1]]>>]
    ELSE IF At(s, p + 1) \in DOMAIN Entity
    THEN [p |-> p + 2, text |-> <<Entity[s[p + 1]]>>]
    ELSE [p |-> p + 1, text |-> << >>]

GetChar(s, p) ==
    IF s[p] = "&" THEN GetEntity(s, p) ELSE [p |-> p + 1, text |-> <<s[p]>>]

(* ReadText() up to end.  Trimmed, the white space before a character is   *)
(* one space, and none at either end of the text.                          *)
RECURSIVE ReadChars(_, _, _, _)
ReadChars(s, p, end, trim) ==
    LET Ends(q) == AtEnd(s, q) \/ StringEqual(s, q, end)
        With(c) == [ReadChars(s, c.p, end, trim) EXCEPT !.text = c.text \o @]
        Blanks(q) == [p |-> q, text |-> IF Ends(q) THEN << >> ELSE <<" ">>]
    IN  IF Ends(p) THEN [p |-> p, text |-> << >>]
        ELSE With(IF trim /\ s[p] \in White THEN Blanks(FirstOut(s, p, White)) ELSE GetChar(s, p))

ReadText(s, p, end, trim) ==
    LET Behind(q) == IF AtEnd(s, q) \/ AtEnd(s, q + Len(end)) THEN NULL ELSE q + Len(end)
    IN  [ReadChars(s, IF trim THEN SkipWhiteSpace(s, p) ELSE p, end, trim) EXCEPT !.p = Behind(@)]

ReadName(s, p) ==
    IF AtEnd(s, p) \/ At(s, p) \notin NameStart THEN [p |-> NULL, name |-> << >>]
    ELSE LET e == FirstOut(s, p, NameChar) IN [p |-> e, name |-> SubSeq(s, p, e - 1)]

(* What looks like a reference to a character is passed through: where in  *)
(* EncodeString() it begins.                                               *)
CharRef(s, i) == s[i] = "&" /\ At(s, i + 1) = "#x"

(* Mutant of Encoded: control characters are left as they are.             *)
EncodedEntities(c) ==
    IF \E e \in DOMAIN Entity : Entity[e] = c
    THEN <<"&", CHOOSE e \in DOMAIN Entity : Entity[e] = c>> ELSE <<c>>

Encoded(c) ==
    IF \E e \in DOMAIN Entity : Entity[e] = c
    THEN <<"&", CHOOSE e \in DOMAIN Entity : Entity[e] = c>>
    ELSE IF c \in White \ {" "}
    THEN <<"&", "#x", CHOOSE x \in DOMAIN Code : Code[x] = c, ";">>
    ELSE <<c>>

RECURSIVE EncodeFrom(_, _)
EncodeFrom(s, i) ==
    IF i > Len(s) THEN << >>
    ELSE IF CharRef(s, i)
    THEN LET q == Min({FirstIn(s, i, {";"}), Len(s)})
         IN  SubSeq(s, i, q - 1) \o EncodeFrom(s, q)
    ELSE Encoded(s[i]) \o EncodeFrom(s, i + 1)

EncodeString(s) == EncodeFrom(s, 1)
-----------------------------------------------------------------------------
(* Parse().  A result says where it stopped, whether it set the document's *)
(* error, and what was read.                                               *)

(* TiXmlAttribute::Parse(), the value at v; without quotes it is not       *)
(* decoded.                                                                *)
AttributeValue(s, v) ==
    LET bare == FirstIn(s, v, White \union {"/", ">", "'", "\""})
    IN  IF AtEnd(s, v) THEN [p |-> NULL, text |-> << >>]
        ELSE IF s[v] \in {"'", "\""} THEN ReadText(s, v + 1, <<s[v]>>, FALSE)
        ELSE [p    |-> IF At(s, bare) \in {"'", "\""} THEN NULL ELSE bare,
              text |-> SubSeq(s, v, bare - 1)]

(* TiXmlAttribute::Parse().                                                *)
ParseAttribute(s, p) ==
    LET Value(e) == IF At(s, e) # "=" THEN NULL ELSE SkipWhiteSpace(s, e + 1)
        Got(name, value) == [p |-> value.p, name |-> name, value |-> value.text]
        Named(n) == Got(n.name, AttributeValue(s, Value(SkipWhiteSpace(s, n.p))))
    IN  Named(ReadName(s, SkipWhiteSpace(s, p)))

(* TiXmlElement::Parse() behind the name: attributes, each name once.      *)
RECURSIVE ParseAttributes(_, _, _)
ParseAttributes(s, p, attrs) ==
    LET q == SkipWhiteSpace(s, p)
        Done(end, r) == [end |-> end, p |-> r, attrs |-> attrs]
        Take(a) ==
            IF AtEnd(s, a.p) \/ \E i \in DOMAIN attrs : attrs[i].name = a.name THEN Done("error", NULL)
            ELSE ParseAttributes(s, a.p, Append(attrs, [name |-> a.name, value |-> a.value]))
    IN  IF AtEnd(s, q) THEN Done("error", NULL)
        ELSE IF s[q] = "/" THEN IF At(s, q + 1) = ">" THEN Done("empty", q + 2)
                                ELSE Done("error", NULL)
        ELSE IF s[q] = ">" THEN Done("open", q + 1)
        ELSE Take(ParseAttribute(s, q))

(* TiXmlDeclaration::Parse() behind "<?xml".  StringEqual() asserts that   *)
(* there is something to compare; the attributes report no error.          *)
NewDeclaration ==
    [i \in 1 .. 3 |-> [name |-> <<(<<"version", "encoding", "standalone">>)[i]>>, value |-> << >>]]

RECURSIVE ParseDeclaration(_, _, _)
ParseDeclaration(s, p, attrs) ==
    LET q == SkipWhiteSpace(s, p)
        at == {i \in DOMAIN attrs : attrs[i].name = <<At(s, q)>>}
        Done(kind, r) == [p |-> r, err |-> FALSE, node |-> [Leaf(kind, << >>) EXCEPT !.attrs = attrs]]
        Take(a) == ParseDeclaration(s, a.p, [attrs EXCEPT ![Min(at)].value = a.value])
    IN  IF AtEnd(s, p) THEN Done("declaration", NULL)
        ELSE IF s[p] = ">" THEN Done("declaration", p + 1)
        ELSE IF AtEnd(s, q) THEN Done("aborted", NULL)
        ELSE IF at # {} THEN Take(ParseAttribute(s, q))
        ELSE ParseDeclaration(s, FirstIn(s, q, White \union {">"}), attrs)

(* Comments, CDATA and unknown tags: what is there up to their end.        *)
ParseVerbatim(s, kind, from, end) ==
    LET ends == {q \in from .. Len(s) : StringEqual(s, q, end)}
        q == IF ends = {} THEN Len(s) + 1 ELSE Min(ends)
        behind == IF ends = {} THEN q ELSE q + Len(end)
    IN  [p    |-> IF kind = "cdata" /\ AtEnd(s, behind) THEN NULL ELSE behind,
         err  |-> FALSE,
         node |-> Leaf(kind, SubSeq(s, from, q - 1))]

(* TiXmlText::Parse(); the text ends before the next tag.                  *)
ParseText(s, p) ==
    LET Read(r) == [p |-> IF r.p = NULL THEN NULL ELSE r.p - 1, err |-> FALSE,
                    node |-> Leaf("text", r.text)]
    IN  Read(ReadText(s, p, <<"<">>, TRUE))

(* Identify(), and the Parse() of what it is; TiXmlElement::ReadValue().   *)
RECURSIVE ParseNode(_, _), ReadValue(_, _)

(* Mutant of Closes: the first letters of a name are enough.               *)
ClosesPrefix(s, p, name) == StringEqual(s, p, <<"<", "/", name[1]>>)

Closes(s, p, name) == StringEqual(s, p, <<"<", "/">> \o name)

ParseElement(s, p) ==
    LET Element(name, attrs, kids) ==
            [kind |-> "element", value |-> name, attrs |-> attrs, kids |-> kids]
        Behind(name, v) == IF AtEnd(s, v.p) \/ ~Closes(s, v.p, name) THEN NULL
                           ELSE SkipWhiteSpace(s, v.p + 2 + Len(name))
        Close(node, e, err) == IF At(s, e) = ">" THEN [p |-> e + 1, err |-> err, node |-> node]
                               ELSE [p |-> NULL, err |-> TRUE, node |-> node]
        Content(name, a, v) == Close(Element(name, a.attrs, v.kids), Behind(name, v), v.err)
        Opened(name, a) ==
            IF a.end = "open" THEN Content(name, a, ReadValue(s, a.p))
            ELSE [p |-> a.p, err |-> a.end = "error", node |-> Element(name, a.attrs, << >>)]
        Named(n) == Opened(n.name, ParseAttributes(s, n.p, << >>))
    IN  Named(ReadName(s, p + 1))

ParseNode(s, p) ==
    IF StringEqual(s, p, <<"<", "?xml">>) THEN ParseDeclaration(s, p + 2, NewDeclaration)
    ELSE IF StringEqual(s, p, <<"<", "!--">>) THEN ParseVerbatim(s, "comment", p + 2, <<"--", ">">>)
    ELSE IF StringEqual(s, p, <<"<", "![CDATA[">>) THEN ParseVerbatim(s, "cdata", p + 2, <<"]]", ">">>)
    ELSE IF At(s, p + 1) \in NameStart THEN ParseElement(s, p)
    ELSE ParseVerbatim(s, "unknown", p + 1, <<">">>)

ReadValue(s, p) ==
    LET q == SkipWhiteSpace(s, p)
        Linked(child, more) ==
            [p |-> more.p, err |-> child.err \/ more.err,
             kids |-> IF child.node.kind = "text" /\ Blank(child.node) THEN more.kids
                      ELSE <<child.node>> \o more.kids]
        Behind(child) == Linked(child, ReadValue(s, child.p))
    IN  IF AtEnd(s, q) THEN [p |-> q, err |-> q = NULL, kids |-> << >>]
        ELSE IF StringEqual(s, q, <<"<", "/">>) THEN [p |-> q, err |-> FALSE, kids |-> << >>]
        ELSE Behind(IF s[q] = "<" THEN ParseNode(s, q) ELSE ParseText(s, q))

(* TiXmlDocument::Parse(); text between the nodes of a document ends it.   *)
RECURSIVE ParseNodes(_, _)
ParseNodes(s, p) ==
    LET q == SkipWhiteSpace(s, p)
        Linked(child, more) == [err |-> child.err \/ more.err, kids |-> <<child.node>> \o more.kids]
        Behind(child) == Linked(child, ParseNodes(s, child.p))
    IN  IF AtEnd(s, q) \/ At(s, q) # "<" THEN [err |-> FALSE, kids |-> << >>]
        ELSE Behind(ParseNode(s, q))

Parse(s) ==
    LET Document(r) == [r EXCEPT !.err = @ \/ r.kids = << >>] IN Document(ParseNodes(s, 1))

(* TiXmlDocument::LoadFile(): any end of line is a newline.                *)
EndOfLines(s) == FlattenSeq([i \in DOMAIN s |->
    IF s[i] = "\r" THEN <<"\n">>
    ELSE IF s[i] = "\n" /\ At(s, i - 1) = "\r" THEN << >> ELSE <<s[i]>>])

LoadFile(s) ==
    IF s = << >> THEN [err |-> TRUE, kids |-> << >>] ELSE Parse(EndOfLines(s))
-----------------------------------------------------------------------------
(* TiXmlNode::Print() to a file, and TiXmlPrinter to a string.             *)

Indent(depth) == [i \in 1 .. 4 * depth |-> " "]

(* TiXmlAttribute::Print(): between single quotes if the value has a double*)
(* one, though both are escaped in it.                                     *)
Quote(value) == IF "\"" \in Range(value) THEN "'" ELSE "\""

AttributeText(attrs) == FlattenSeq([i \in DOMAIN attrs |->
    <<" ">> \o EncodeString(attrs[i].name) \o <<"=", Quote(attrs[i].value)>>
            \o EncodeString(attrs[i].value) \o <<Quote(attrs[i].value)>>])

RawAttributeText(attrs) == FlattenSeq([i \in DOMAIN attrs |->
    IF attrs[i].value = << >> THEN << >>
    ELSE attrs[i].name \o <<"=", "\"">> \o attrs[i].value \o <<"\"", " ">>])

LeafText(node) ==
    CASE node.kind = "text"        -> EncodeString(node.value)
      [] node.kind = "cdata"       -> <<"<", "![CDATA[">> \o node.value \o <<"]]", ">">>
      [] node.kind = "comment"     -> <<"<", "!--">> \o node.value \o <<"--", ">">>
      [] node.kind = "declaration" -> <<"<", "?xml", " ">> \o RawAttributeText(node.attrs) \o <<"?", ">">>
      [] OTHER                     -> <<"<">> \o node.value \o <<">">>

StartTag(node, slash) == <<"<">> \o node.value \o AttributeText(node.attrs) \o slash \o <<">">>
EndTag(node) == <<"<", "/">> \o node.value \o <<">">>

RECURSIVE NodeText(_, _)
NodeText(node, depth) ==
    LET lone == Len(node.kids) = 1 /\ IsText(node.kids[1])
        Kid(k) == (IF lone \/ IsText(k) THEN << >> ELSE <<"\n">>) \o NodeText(k, depth + 1)
    IN  CASE node.kind = "cdata" -> <<"\n">> \o Indent(depth) \o LeafText(node) \o <<"\n">>
          [] node.kind \in {"text", "declaration"} -> LeafText(node)
          [] node.kind \in {"comment", "unknown"}  -> Indent(depth) \o LeafText(node)
          [] OTHER -> Indent(depth) \o
               IF node.kids = << >> THEN StartTag(node, <<" ", "/">>)
               ELSE StartTag(node, << >>)
                    \o FlattenSeq([i \in DOMAIN node.kids |-> Kid(node.kids[i])])
                    \o (IF lone THEN << >> ELSE <<"\n">> \o Indent(depth))
                    \o EndTag(node)

DocumentText(kids) == FlattenSeq([i \in DOMAIN kids |-> NodeText(kids[i], 0) \o <<"\n">>])

(* TiXmlPrinter visits: every node on a line of its own, but the text of   *)
(* an element that has nothing else.                                       *)
RECURSIVE VisitText(_, _)
VisitText(node, depth) ==
    LET simple == Len(node.kids) = 1 /\ node.kids[1].kind = "text"
        OnLine(text) == Indent(depth) \o text \o <<"\n">>
    IN  IF node.kind # "element" THEN OnLine(LeafText(node))
        ELSE IF node.kids = << >> THEN OnLine(StartTag(node, <<" ", "/">>))
        ELSE IF simple
        THEN OnLine(StartTag(node, << >>) \o LeafText(node.kids[1]) \o EndTag(node))
        ELSE OnLine(StartTag(node, << >>))
             \o FlattenSeq([i \in DOMAIN node.kids |-> VisitText(node.kids[i], depth + 1)])
             \o OnLine(EndTag(node))

PrinterText(kids) == FlattenSeq([i \in DOMAIN kids |-> VisitText(kids[i], 0)])
-----------------------------------------------------------------------------
(* The two users.                                                          *)

Elements(kids) == SelectSeq(kids, LAMBDA k : k.kind = "element")

(* Mutant of HasText: an element without text has an empty one.            *)
AlwaysText(node) == TRUE

HasText(node) == node.kids # << >> /\ IsText(node.kids[1])
GetText(node) == IF node.kids # << >> /\ IsText(node.kids[1]) THEN node.kids[1].value ELSE << >>

Attribute(node, name, default) ==
    LET at == {i \in DOMAIN node.attrs : node.attrs[i].name = <<name>>}
    IN  IF at = {} THEN default ELSE node.attrs[Min(at)].value

IsNumber(text) == text # << >> /\ \A i \in DOMAIN text : text[i] \in Digits

(* boost::split() at the commas, blanks trimmed, empty ones left out.      *)
RECURSIVE SplitIds(_)
SplitIds(text) ==
    LET e == FirstIn(text, 1, {","})
        from == FirstOut(text, 1, White)
        id == SubSeq(text, from, Max({k \in from .. e - 1 : text[k] \notin White} \union {from - 1}))
    IN  (IF id = << >> THEN << >> ELSE <<id>>)
        \o (IF e > Len(text) THEN << >> ELSE SplitIds(From(text, e + 1)))

(* Mutant of Required: an element without text is left at its default.     *)
Tolerated(text) == text = << >> \/ IsNumber(text)

Required(text) == IsNumber(text)

GpsNames == <<"lon", "lat", "time", "speed", "direction">>
NoReport == [ok |-> FALSE]

(* One element of a message, into the report; NoReport if it is malformed  *)
(* or none of these.  The id of a group is a string, of a device a number. *)
ReadField(report, e) ==
    LET name  == e.value
        text  == GetText(e)
        link  == IF text = << >> THEN <<"0">> ELSE text
        gps   == [i \in 1 .. 5 |-> Attribute(e, GpsNames[i], <<"0">>)]
    IN  CASE name = <<"user_id">> /\ Required(text)  -> [report EXCEPT !.user_id = text]
          [] name = <<"dev_id">> /\ Required(text)   -> [report EXCEPT !.dev_id = text]
          [] name \in {<<"gps">>, <<"GPS">>} /\ (\A i \in 1 .. 5 : IsNumber(gps[i]))
                                                     -> [report EXCEPT !.gps = gps]
          [] name = <<"roadlink">> /\ IsNumber(link) -> [report EXCEPT !.link_id = link]
          [] name = <<"group_ids">>                  -> [report EXCEPT !.group_ids = @ \o SplitIds(text)]
          [] OTHER -> NoReport

RECURSIVE ReadFields(_, _)
ReadFields(report, es) ==
    IF report = NoReport \/ es = << >> THEN report
    ELSE ReadFields(ReadField(report, es[1]), Tail(es))

(* MessageQueue::parseMsg().  unset is what the report is made with: the   *)
(* memory it happens to get, and no groups.                                *)
ParseMsg(s, unset) ==
    LET Root(err, roots) ==
            IF ~err /\ roots # << >> /\ roots[1].value = <<"NaviMSG">>
            THEN ReadFields(unset, Elements(roots[1].kids)) ELSE NoReport
        Document(doc) == Root(doc.err, Elements(doc.kids))
    IN  Document(Parse(s))

(* AddinWrapper::Initialize(): the loop takes the first element of e, then *)
(* the element after that.  An element it needs and that is not there, or  *)
(* has no text, ends the process.                                          *)
RECURSIVE ConfigFile(_, _)
ConfigFile(siblings, file) ==
    IF siblings = << >> THEN [end |-> IF file = << >> THEN "fail" ELSE "file", file |-> file]
    ELSE LET below == Elements(siblings[1].kids)
         IN  IF below = << >> \/ ~HasText(below[1]) THEN [end |-> "crash"]
             ELSE ConfigFile(Tail(below), IF below[1].value = <<"config">>
                                          THEN GetText(below[1]) ELSE file)

ReadConfig(s) ==
    LET Document(doc) == IF doc.err THEN [end |-> "fail"] ELSE ConfigFile(Elements(doc.kids), << >>)
    IN  Document(Parse(s))
=============================================================================
