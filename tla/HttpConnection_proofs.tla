------------------------ MODULE HttpConnection_proofs ------------------------
(***************************************************************************)
(* Safety of the connections of one worker, for every length of a body,    *)
(* size of the buffer, number of connections and of messages, and however  *)
(* recv() cuts what is sent: clients that finish their requests and wait   *)
(* for the answers get their own.                                          *)
(***************************************************************************)
EXTENDS HttpConnection, SequenceTheorems, FiniteSetTheorems, WellFoundedInduction, TLAPS

Starts == [of : Nat \X Nat, part : {"start"}, posts : BOOLEAN]
Ends   == [of : Nat \X Nat, part : {"end"}, length : Lengths \union {-1}, persist : BOOLEAN]
Bodies == [of : Nat \X Nat, part : {"body"}]
Tokens == Starts \union Ends \union Bodies

(* How many tokens come behind the end of a head.                          *)
Extent(t) == IF t.length > 0 THEN t.length ELSE 0

(* What one client sends: its messages from the k-th on, each whole, and   *)
(* one behind the other.  It is said of every place for itself, so that it *)
(* can be said of a part of the text.                                      *)
Begins(s, k) == s # << >> => s[1] \in Starts /\ s[1].of[2] = k
OfClient(s, c, k) ==
    /\ \A i \in DOMAIN s : s[i].of[1] = c /\ s[i].of[2] >= k
    /\ \A i, j \in DOMAIN s : i <= j => s[i].of[2] <= s[j].of[2]
HeadAt(s, i) == i < Len(s) /\ s[i + 1] \in Ends /\ s[i + 1].of = s[i].of
BodyAt(s, i) ==
    /\ i + Extent(s[i]) <= Len(s)
    /\ \A j \in i + 1 .. i + Extent(s[i]) : s[j] \in Bodies /\ s[j].of = s[i].of
NextAt(s, i) ==
    i + Extent(s[i]) < Len(s) =>
        /\ s[i + Extent(s[i]) + 1] \in Starts
        /\ s[i + Extent(s[i]) + 1].of[2] = s[i].of[2] + 1

Stream(s, c, k) ==
    /\ s \in Seq(Tokens)
    /\ Begins(s, k) /\ OfClient(s, c, k)
    /\ \A i \in DOMAIN s : s[i] \in Starts => HeadAt(s, i)
    /\ \A i \in DOMAIN s : s[i] \in Ends => BodyAt(s, i) /\ NextAt(s, i)

(* The buffer and what is to come begin with the first message that is not *)
(* answered; of that one only has been received, since its client waits.   *)
ReadOK ==
    /\ buf \in Seq(Tokens) /\ wire \in Seq(Tokens)
    /\ Stream(buf \o wire, conn, Len(answers) + 1)
    /\ \A i \in DOMAIN buf : buf[i].of[2] <= Len(answers) + 1

(* All that is in the buffer belongs to the request that was answered, and *)
(* all of that request is, if the connection may go on.                    *)
HandledOK ==
    /\ buf \in Seq(Tokens) /\ requestLen \in Nat /\ contentLen \in Int
    /\ contentLen >= 0 => Len(buf) <= requestLen + contentLen
    /\ config.keepAlive => Stream(wire, conn, Len(answers) + 1)

AnswersOK ==
    /\ answers \in Seq(Nat \X Nat)
    /\ \A i \in DOMAIN answers : answers[i] = <<conn, i>>

Served ==
    /\ patient = TRUE
    /\ AnswersOK
    /\ pc = "read" => ReadOK
    /\ pc \in {"handled", "program", "sending"} => HandledOK
    /\ pc # "refusing"
    /\ pc \in {"close", "idle", "done"} => stop \/ buf = << >>

IInv == conn \in Nat /\ sent \in Int /\ (orderly => Served)
-----------------------------------------------------------------------------
LEMMA TokensPlain ==
    /\ \A t \in Tokens : /\ t.of \in Nat \X Nat /\ t.of[1] \in Nat /\ t.of[2] \in Nat
                         /\ t.part \in {"start", "end", "body"}
                         /\ t \in Starts <=> t.part = "start"
                         /\ t \in Ends <=> t.part = "end"
                         /\ t \in Bodies <=> t.part = "body"
    /\ \A t \in Ends : t.length \in Int /\ Extent(t) \in Nat /\ Extent(t) >= t.length
<1>1. ASSUME NEW t \in Starts
      PROVE  t.of \in Nat \X Nat /\ t.part = "start"
  BY DEF Starts
<1>2. ASSUME NEW t \in Ends
      PROVE  /\ t.of \in Nat \X Nat /\ t.part = "end"
             /\ t.length \in Int
  <2>1. t.of \in Nat \X Nat /\ t.part = "end" /\ t.length \in Lengths \union {-1}
    BY DEF Ends
  <2>2. \A l \in Lengths \union {-1} : l \in Int
    BY RequestAssumption
  <2> QED
    BY <2>1, <2>2
<1>3. ASSUME NEW t \in Bodies
      PROVE  t.of \in Nat \X Nat /\ t.part = "body"
  BY DEF Bodies
<1>4. \A o \in Nat \X Nat : o[1] \in Nat /\ o[2] \in Nat
  OBVIOUS
<1>5. \A t \in Ends : Extent(t) \in Nat /\ Extent(t) >= t.length
  BY <1>2 DEF Extent
<1> QED
  BY <1>1, <1>2, <1>3, <1>4, <1>5 DEF Tokens

LEMMA LeastOf ==
    ASSUME NEW S \in SUBSET Nat, S # {}
    PROVE  \E x \in S : \A y \in S : x <= y
<1> DEFINE below == {p \in Nat \X Nat : p[1] < p[2]}
<1>1. below = OpToRel(<, Nat)
  BY Zenon DEF OpToRel
<1>2. IsWellFoundedOn(below, Nat)
  BY <1>1, NatLessThanWellFounded, Zenon
<1>3. \A x, y \in Nat : y < x => <<y, x>> \in below
  OBVIOUS
<1> HIDE DEF below
<1>4. PICK x \in S : \A y \in S : <<y, x>> \notin below
  BY <1>2, WFMin
<1>5. ASSUME NEW y \in S PROVE x <= y
  <2>1. x \in Nat /\ y \in Nat /\ ~(y < x)
    BY <1>3, <1>4
  <2> QED
    BY <2>1
<1> QED
  BY <1>5

(* Places i and those up to x behind it, in a text that begins at a.       *)
LEMMA NextPlace ==
    ASSUME NEW a \in Nat, NEW b \in Nat, NEW i \in Nat, i < b
    PROVE  i + 1 \in 1 .. b /\ a + i < a + b /\ a + (i + 1) = (a + i) + 1
OBVIOUS

LEMMA PlacesOn ==
    ASSUME NEW a \in Nat, NEW i \in Nat, NEW x \in Nat, NEW j \in i + 1 .. i + x
    PROVE  a + j \in a + i + 1 .. a + i + x
OBVIOUS

LEMMA PlacesBack ==
    ASSUME NEW a \in Nat, NEW b \in Nat, NEW i \in Nat, NEW x \in Nat, i + x <= b,
           NEW j \in a + i + 1 .. a + i + x
    PROVE  j - a \in i + 1 .. i + x /\ j = a + (j - a) /\ j - a \in 1 .. b
OBVIOUS

LEMMA PlaceAfter ==
    ASSUME NEW a \in Nat, NEW b \in Nat, NEW i \in Nat, NEW x \in Nat, a + i + x < a + b
    PROVE  i + x < b /\ i + x + 1 \in 1 .. b /\ a + (i + x + 1) = a + i + x + 1
OBVIOUS

LEMMA EmptyStream == ASSUME NEW c, NEW k PROVE Stream(<< >>, c, k)
<1>1. << >> \in Seq(Tokens) /\ DOMAIN << >> = {}
  BY EmptySeq
<1> QED
  BY <1>1 DEF Stream, Begins, OfClient

(* A stream begins with the whole of a message.                            *)
LEMMA FirstMessage ==
    ASSUME NEW s, NEW c \in Nat, NEW k \in Nat, Stream(s, c, k), s # << >>
    PROVE  LET e == 2 + Extent(s[2])
           IN  /\ s[1] \in Starts /\ s[1].of = <<c, k>>
               /\ s[2] \in Ends /\ s[2].of = <<c, k>>
               /\ Extent(s[2]) \in Nat /\ e <= Len(s)
               /\ \A j \in 3 .. e : s[j] \in Bodies /\ s[j].of = <<c, k>>
               /\ e < Len(s) => s[e + 1] \in Starts /\ s[e + 1].of[2] = k + 1
<1>1. /\ s \in Seq(Tokens) /\ Len(s) \in Nat /\ DOMAIN s = 1 .. Len(s) /\ 1 \in DOMAIN s
      /\ \A i \in DOMAIN s : s[i] \in Tokens
  <2>1. s \in Seq(Tokens)
    BY DEF Stream
  <2>2. /\ Len(s) \in Nat \ {0} /\ DOMAIN s = 1 .. Len(s)
        /\ \A i \in 1 .. Len(s) : s[i] \in Tokens
    BY <2>1, LenProperties, EmptySeq, ElementOfSeq
  <2> QED
    BY <2>1, <2>2
<1>2. s[1] \in Starts /\ s[1].of[2] = k /\ s[1].of[1] = c
  BY <1>1 DEF Stream, Begins, OfClient
<1>3. s[1].of = <<c, k>>
  BY <1>1, <1>2, TokensPlain
<1>4. 2 \in DOMAIN s /\ s[2] \in Ends /\ s[2].of = <<c, k>>
  BY <1>1, <1>2, <1>3 DEF Stream, HeadAt
<1>5. BodyAt(s, 2) /\ NextAt(s, 2) /\ Extent(s[2]) \in Nat
  BY <1>4, TokensPlain DEF Stream
<1>6. s[2].of[2] = k
  BY <1>4
<1> QED
  BY <1>1, <1>2, <1>3, <1>4, <1>5, <1>6 DEF BodyAt, NextAt

(* Text r is what comes behind the first e places of s.  Behind the first  *)
(* message comes the stream of the next.                                   *)
Behind(r, s, e) ==
    /\ r \in Seq(Tokens) /\ Len(r) = Len(s) - e
    /\ \A i \in DOMAIN r : r[i] = s[e + i]

LEMMA StreamRest ==
    ASSUME NEW s, NEW c \in Nat, NEW k \in Nat, Stream(s, c, k), s # << >>,
           NEW r, Behind(r, s, 2 + Extent(s[2]))
    PROVE  Stream(r, c, k + 1)
<1> DEFINE e == 2 + Extent(s[2])
<1>1. /\ s \in Seq(Tokens) /\ Len(s) \in Nat /\ DOMAIN s = 1 .. Len(s)
      /\ r \in Seq(Tokens) /\ Len(r) \in Nat /\ DOMAIN r = 1 .. Len(r)
      /\ Len(r) = Len(s) - e /\ \A i \in DOMAIN r : r[i] = s[e + i]
      /\ \A i \in DOMAIN s : s[i] \in Tokens
  BY LenProperties, ElementOfSeq DEF Stream, Behind
<1>2. /\ e \in Nat /\ e >= 2 /\ e <= Len(s)
      /\ e < Len(s) => s[e + 1] \in Starts /\ s[e + 1].of[2] = k + 1
  BY FirstMessage, TokensPlain
<1> HIDE DEF e
<1>3. \A i \in DOMAIN r : e + i \in DOMAIN s /\ r[i] = s[e + i] /\ i \in Nat
  BY <1>1, <1>2
<1>4. Begins(r, k + 1)
  <2>1. CASE r # << >>
    <3>1. Len(r) > 0 /\ 1 \in DOMAIN r
      BY <1>1, <2>1, EmptySeq
    <3>2. e < Len(s)
      <4> DEFINE a == Len(s)
                 b == Len(r)
      <4>1. a \in Nat /\ b \in Nat /\ e \in Nat /\ b = a - e /\ b > 0
        BY <1>1, <1>2, <3>1
      <4> HIDE DEF a, b
      <4>2. e < a
        BY <4>1
      <4> QED
        BY <4>2 DEF a
    <3>3. r[1] = s[e + 1]
      BY <1>1, <3>1
    <3> QED
      BY <1>2, <3>2, <3>3 DEF Begins
  <2> QED
    BY <2>1 DEF Begins
<1>5. OfClient(r, c, k + 1)
  <2>1. \A i, j \in DOMAIN s : i <= j => s[i].of[2] <= s[j].of[2]
    BY DEF Stream, OfClient
  <2>2. ASSUME NEW i \in DOMAIN r PROVE r[i].of[1] = c /\ r[i].of[2] >= k + 1
    <3>1. e + 1 \in DOMAIN s /\ e + i \in DOMAIN s /\ e + 1 <= e + i /\ e < Len(s)
      BY <1>1, <1>2, <1>3
    <3>2. s[e + 1].of[2] = k + 1 /\ s[e + 1].of[2] <= s[e + i].of[2]
      BY <1>2, <2>1, <3>1
    <3>3. s[e + i].of[1] = c /\ s[e + i].of[2] \in Nat
      BY <1>1, <3>1, TokensPlain DEF Stream, OfClient
    <3> QED
      BY <1>3, <3>2, <3>3
  <2>3. ASSUME NEW i \in DOMAIN r, NEW j \in DOMAIN r, i <= j PROVE r[i].of[2] <= r[j].of[2]
    <3>1. e + i \in DOMAIN s /\ e + j \in DOMAIN s /\ e + i <= e + j
      BY <1>1, <1>2, <1>3, <2>3
    <3> QED
      BY <1>3, <2>1, <3>1
  <2> QED
    BY <2>2, <2>3 DEF OfClient
<1>6. ASSUME NEW i \in DOMAIN r, r[i] \in Starts PROVE HeadAt(r, i)
  <2>1. HeadAt(s, e + i) /\ e + i \in Nat
    BY <1>1, <1>2, <1>3, <1>6 DEF Stream
  <2>2. e + i < Len(s) /\ s[(e + i) + 1] \in Ends /\ s[(e + i) + 1].of = r[i].of
    BY <1>3, <2>1 DEF HeadAt
  <2>3. i < Len(r) /\ i + 1 \in DOMAIN r /\ e + (i + 1) = (e + i) + 1
    <3> DEFINE a == Len(s)
               b == Len(r)
    <3>1. a \in Nat /\ b \in Nat /\ b = a - e /\ e \in Nat /\ i \in Nat /\ e + i < a
      BY <1>1, <1>2, <1>3, <2>2
    <3> HIDE DEF a, b
    <3>2. i < b
      BY <3>1
    <3>3. i + 1 \in 1 .. b /\ e + (i + 1) = (e + i) + 1
      BY <3>1, <3>2, NextPlace
    <3> QED
      BY <1>1, <3>2, <3>3 DEF b
  <2> QED
    BY <1>3, <2>2, <2>3 DEF HeadAt
<1>7. ASSUME NEW i \in DOMAIN r, r[i] \in Ends PROVE BodyAt(r, i) /\ NextAt(r, i)
  <2> DEFINE x == Extent(r[i])
  <2>1. BodyAt(s, e + i) /\ NextAt(s, e + i) /\ r[i] = s[e + i] /\ x \in Nat
    BY <1>3, <1>7, TokensPlain DEF Stream
  <2>2. /\ e + i + x <= Len(s)
        /\ \A j \in e + i + 1 .. e + i + x : s[j] \in Bodies /\ s[j].of = r[i].of
        /\ e + i + x < Len(s) => /\ s[e + i + x + 1] \in Starts
                                 /\ s[e + i + x + 1].of[2] = r[i].of[2] + 1
    BY <2>1 DEF BodyAt, NextAt
  <2> HIDE DEF x
  <2>3. i + x <= Len(r) /\ i \in Nat
    BY <1>1, <1>2, <2>1, <2>2
  <2>4. ASSUME NEW j \in i + 1 .. i + x PROVE r[j] \in Bodies /\ r[j].of = r[i].of
    <3>1. j \in Int /\ i + 1 <= j /\ j <= i + x
      OBVIOUS
    <3>2. e \in Int /\ i \in Int /\ x \in Int /\ i >= 0
      BY <1>2, <2>1, <2>3
    <3>3. e + j \in e + i + 1 .. e + i + x
      BY <1>2, <2>1, <2>3, PlacesOn
    <3>4. j \in DOMAIN r
      BY <1>1, <2>3, <3>1, <3>2
    <3> QED
      BY <1>3, <2>2, <3>3, <3>4
  <2>5. ASSUME i + x < Len(r)
        PROVE  r[i + x + 1] \in Starts /\ r[i + x + 1].of[2] = r[i].of[2] + 1
    <3>1. i + x + 1 \in DOMAIN r /\ e + i + x < Len(s) /\ e + (i + x + 1) = e + i + x + 1
      <4> DEFINE a == Len(s)
                 b == Len(r)
      <4>1. /\ a \in Nat /\ b \in Nat /\ e \in Nat /\ i \in Nat /\ x \in Nat
            /\ b = a - e /\ i + x < b
        BY <1>1, <1>2, <2>1, <2>3, <2>5
      <4> HIDE DEF a, b
      <4>2. a = e + b /\ e + i + x < a
        BY <4>1
      <4>3. i + x + 1 \in 1 .. b /\ e + (i + x + 1) = e + i + x + 1
        BY <4>1
      <4> QED
        BY <1>1, <4>2, <4>3 DEF a, b
    <3> QED
      BY <1>3, <2>2, <3>1
  <2> QED
    BY <2>3, <2>4, <2>5 DEF BodyAt, NextAt, x
<1> QED
  BY <1>1, <1>4, <1>5, <1>6, <1>7 DEF Stream
-----------------------------------------------------------------------------
(* What clients send that finish their requests is a stream.               *)
Whole(m) == m \in Shape /\ m.form = "whole"

LEMMA WholeMessage ==
    ASSUME NEW c \in Nat, NEW n \in Nat, NEW m, Whole(m)
    PROVE  /\ Message(c, n, m) \in Seq(Tokens) /\ Message(c, n, m) # << >>
           /\ Stream(Message(c, n, m), c, n)
           /\ \A i \in DOMAIN Message(c, n, m) : Message(c, n, m)[i].of = <<c, n>>
<1> DEFINE x == IF m.length > 0 THEN m.length ELSE 0
           h == <<Start(c, n, m.posts), End(c, n, m.length, m.persist)>>
           b == Body(c, n, m.length)
           s == Message(c, n, m)
<1>1. /\ m.posts \in BOOLEAN /\ m.length \in Lengths \union {-1} /\ m.persist \in BOOLEAN
      /\ m.form = "whole"
  BY DEF Whole, Shape
<1>2. m.length \in Int /\ x \in Nat
  <2>1. \A l \in Lengths \union {-1} : l \in Int
    BY RequestAssumption
  <2> QED
    BY <1>1, <2>1
<1>3. /\ Start(c, n, m.posts) \in Starts /\ Start(c, n, m.posts).of = <<c, n>>
      /\ End(c, n, m.length, m.persist) \in Ends
      /\ End(c, n, m.length, m.persist).of = <<c, n>>
      /\ Extent(End(c, n, m.length, m.persist)) = x
  BY <1>1 DEF Start, End, Starts, Ends, Extent
<1>4. Token(c, n, "body") \in Bodies /\ Token(c, n, "body").of = <<c, n>>
  BY DEF Token, Bodies
<1>5. b = [i \in 1 .. x |-> Token(c, n, "body")]
  BY DEF Body
<1>6. /\ b \in Seq(Tokens) /\ Len(b) = x /\ \A i \in 1 .. x : b[i] = Token(c, n, "body")
  BY <1>2, <1>4, <1>5 DEF Tokens
<1>7. h \in Seq(Tokens) /\ Len(h) = 2 /\ h[1] = Start(c, n, m.posts)
      /\ h[2] = End(c, n, m.length, m.persist)
  BY <1>3 DEF Tokens
<1>8. s = h \o b
  BY <1>1 DEF Message
<1> HIDE DEF x, h, b, s
<1>9. /\ s \in Seq(Tokens) /\ Len(s) = 2 + x
      /\ \A i \in 1 .. 2 + x : s[i] = IF i <= 2 THEN h[i] ELSE b[i - 2]
  <2>1. /\ h \o b \in Seq(Tokens) /\ Len(h \o b) = Len(h) + Len(b)
        /\ \A i \in 1 .. Len(h) + Len(b) : (h \o b)[i] =
              IF i <= Len(h) THEN h[i] ELSE b[i - Len(h)]
    BY <1>6, <1>7, ConcatProperties
  <2> QED
    BY <1>6, <1>7, <1>8, <2>1
<1>10. /\ DOMAIN s = 1 .. 2 + x /\ s # << >>
       /\ s[1] \in Starts /\ s[1].of = <<c, n>>
       /\ s[2] \in Ends /\ s[2].of = <<c, n>> /\ Extent(s[2]) = x
  BY <1>2, <1>3, <1>7, <1>9, LenProperties, EmptySeq
<1>11. ASSUME NEW i \in 3 .. 2 + x PROVE s[i] \in Bodies /\ s[i].of = <<c, n>>
  <2>1. i - 2 \in 1 .. x /\ i \in 1 .. 2 + x /\ ~(i <= 2)
    BY <1>2
  <2> QED
    BY <1>4, <1>6, <1>9, <2>1
<1>12. \A i \in DOMAIN s : i \in Int /\ (i = 1 \/ i = 2 \/ i \in 3 .. 2 + x)
  BY <1>2, <1>10
<1>13. \A i \in DOMAIN s : s[i].of = <<c, n>>
  BY <1>10, <1>11, <1>12
<1>14. \A i \in DOMAIN s : /\ s[i] \in Starts => i = 1
                           /\ s[i] \in Ends => i = 2
  <2>1. \A t \in Tokens : /\ ~(t \in Starts /\ t \in Ends) /\ ~(t \in Starts /\ t \in Bodies)
                          /\ ~(t \in Ends /\ t \in Bodies)
    BY TokensPlain
  <2>2. \A i \in DOMAIN s : s[i] \in Tokens
    BY <1>9, <1>10, ElementOfSeq
  <2> QED
    BY <1>10, <1>11, <1>12, <2>1, <2>2
<1>15. Begins(s, n) /\ OfClient(s, c, n)
  BY <1>10, <1>13 DEF Begins, OfClient
<1>16. HeadAt(s, 1) /\ BodyAt(s, 2) /\ NextAt(s, 2)
  BY <1>2, <1>9, <1>10, <1>11 DEF HeadAt, BodyAt, NextAt
<1>17. Stream(s, c, n)
  BY <1>9, <1>14, <1>15, <1>16 DEF Stream
<1> QED
  BY <1>9, <1>10, <1>13, <1>17 DEF s

(* Places of two texts, one behind the other.                              *)
LEMMA ConcatPlaces ==
    ASSUME NEW s \in Seq(Tokens), NEW t \in Seq(Tokens)
    PROVE  /\ s \o t \in Seq(Tokens) /\ Len(s \o t) = Len(s) + Len(t)
           /\ Len(s) \in Nat /\ Len(t) \in Nat
           /\ DOMAIN s = 1 .. Len(s) /\ DOMAIN t = 1 .. Len(t)
           /\ DOMAIN (s \o t) = 1 .. Len(s) + Len(t)
           /\ \A i \in DOMAIN s : i \in DOMAIN (s \o t) /\ (s \o t)[i] = s[i]
           /\ \A i \in DOMAIN t : /\ Len(s) + i \in DOMAIN (s \o t)
                                  /\ (s \o t)[Len(s) + i] = t[i]
           /\ \A i \in DOMAIN (s \o t) :
                 i \in DOMAIN s \/ (i - Len(s) \in DOMAIN t /\ i = Len(s) + (i - Len(s)))
<1>1. /\ s \o t \in Seq(Tokens) /\ Len(s \o t) = Len(s) + Len(t)
      /\ \A i \in 1 .. Len(s) + Len(t) : (s \o t)[i] =
            IF i <= Len(s) THEN s[i] ELSE t[i - Len(s)]
  BY ConcatProperties
<1>2. /\ Len(s) \in Nat /\ Len(t) \in Nat
      /\ DOMAIN s = 1 .. Len(s) /\ DOMAIN t = 1 .. Len(t)
      /\ DOMAIN (s \o t) = 1 .. Len(s) + Len(t)
  BY <1>1, LenProperties
<1>3. ASSUME NEW i \in DOMAIN s PROVE i \in DOMAIN (s \o t) /\ (s \o t)[i] = s[i]
  <2>1. i \in 1 .. Len(s) + Len(t) /\ i <= Len(s)
    BY <1>2
  <2> QED
    BY <1>1, <1>2, <2>1
<1>4. ASSUME NEW i \in DOMAIN t
      PROVE  Len(s) + i \in DOMAIN (s \o t) /\ (s \o t)[Len(s) + i] = t[i]
  <2>1. Len(s) + i \in 1 .. Len(s) + Len(t) /\ ~(Len(s) + i <= Len(s)) /\ Len(s) + i - Len(s) = i
    BY <1>2
  <2> QED
    BY <1>1, <1>2, <2>1
<1>5. ASSUME NEW i \in DOMAIN (s \o t)
      PROVE  i \in DOMAIN s \/ (i - Len(s) \in DOMAIN t /\ i = Len(s) + (i - Len(s)))
  BY <1>2
<1> QED
  BY <1>1, <1>2, <1>3, <1>4, <1>5

LEMMA StreamConcat ==
    ASSUME NEW c \in Nat, NEW k \in Nat, NEW n \in Nat, k <= n,
           NEW s, Stream(s, c, k), s # << >>, s[Len(s)].of[2] = n,
           NEW t, Stream(t, c, n + 1), t # << >>
    PROVE  Stream(s \o t, c, k) /\ (s \o t)[Len(s \o t)] = t[Len(t)] /\ s \o t # << >>
<1> DEFINE u == s \o t
<1>1. s \in Seq(Tokens) /\ t \in Seq(Tokens)
  BY DEF Stream
<1>2. /\ u \in Seq(Tokens) /\ Len(u) = Len(s) + Len(t)
      /\ Len(s) \in Nat /\ Len(t) \in Nat
      /\ DOMAIN s = 1 .. Len(s) /\ DOMAIN t = 1 .. Len(t)
      /\ DOMAIN u = 1 .. Len(s) + Len(t)
      /\ \A i \in DOMAIN s : i \in DOMAIN u /\ u[i] = s[i]
      /\ \A i \in DOMAIN t : Len(s) + i \in DOMAIN u /\ u[Len(s) + i] = t[i]
      /\ \A i \in DOMAIN u :
            i \in DOMAIN s \/ (i - Len(s) \in DOMAIN t /\ i = Len(s) + (i - Len(s)))
  BY <1>1, ConcatPlaces
<1> HIDE DEF u
<1>3. /\ Len(s) > 0 /\ Len(t) > 0 /\ 1 \in DOMAIN s /\ Len(s) \in DOMAIN s
      /\ 1 \in DOMAIN t /\ Len(t) \in DOMAIN t
  BY <1>1, <1>2, EmptySeq
<1>4. /\ \A i \in DOMAIN s : s[i] \in Tokens /\ s[i].of[2] \in Nat
      /\ \A i \in DOMAIN t : t[i] \in Tokens /\ t[i].of[2] \in Nat
  BY <1>1, <1>2, ElementOfSeq, TokensPlain
<1>5. /\ Begins(u, k) /\ u[Len(u)] = t[Len(t)] /\ u # << >>
  <2>1. s[1] \in Starts /\ s[1].of[2] = k /\ u[1] = s[1]
    BY <1>2, <1>3 DEF Stream, Begins
  <2>2. u # << >> /\ u[Len(u)] = t[Len(t)]
    BY <1>2, <1>3, EmptySeq
  <2> QED
    BY <2>1, <2>2 DEF Begins
<1>6. OfClient(u, c, k)
  <2>1. /\ \A i \in DOMAIN s : s[i].of[1] = c /\ s[i].of[2] >= k /\ s[i].of[2] <= n
        /\ \A i \in DOMAIN t : t[i].of[1] = c /\ t[i].of[2] >= n + 1 /\ t[i].of[2] >= k
    <3>1. ASSUME NEW i \in DOMAIN s
          PROVE  s[i].of[1] = c /\ s[i].of[2] >= k /\ s[i].of[2] <= n
      <4>1. i <= Len(s)
        BY <1>2
      <4> QED
        BY <1>3, <4>1 DEF Stream, OfClient
    <3>2. ASSUME NEW i \in DOMAIN t
          PROVE  t[i].of[1] = c /\ t[i].of[2] >= n + 1 /\ t[i].of[2] >= k
      <4>1. t[i].of[1] = c /\ t[i].of[2] >= n + 1
        BY DEF Stream, OfClient
      <4>2. t[i].of[2] \in Nat
        BY <1>4
      <4> QED
        BY <4>1, <4>2
    <3> QED
      BY <3>1, <3>2
  <2>2. \A i \in DOMAIN u : u[i].of[1] = c /\ u[i].of[2] >= k
    BY <1>2, <2>1
  <2>3. ASSUME NEW i \in DOMAIN u, NEW j \in DOMAIN u, i <= j PROVE u[i].of[2] <= u[j].of[2]
    <3>1. CASE j \in DOMAIN s
      <4>1. i \in DOMAIN s
        BY <1>2, <2>3, <3>1
      <4> QED
        BY <1>2, <2>3, <3>1, <4>1 DEF Stream, OfClient
    <3>2. CASE i \in DOMAIN s /\ j - Len(s) \in DOMAIN t /\ j = Len(s) + (j - Len(s))
      <4> DEFINE b == j - Len(s)
      <4>1. i \in DOMAIN s /\ b \in DOMAIN t /\ j = Len(s) + b
        BY <3>2
      <4> HIDE DEF b
      <4>2. u[i] = s[i] /\ u[j] = t[b]
        BY <1>2, <4>1
      <4>3. s[i].of[2] <= n /\ t[b].of[2] >= n + 1
        BY <2>1, <4>1
      <4>4. s[i].of[2] \in Nat /\ t[b].of[2] \in Nat
        BY <1>4, <4>1
      <4> QED
        BY <4>2, <4>3, <4>4
    <3>3. CASE /\ i - Len(s) \in DOMAIN t /\ i = Len(s) + (i - Len(s))
               /\ j - Len(s) \in DOMAIN t /\ j = Len(s) + (j - Len(s))
      <4> DEFINE a == i - Len(s)
                 b == j - Len(s)
      <4>1. a <= b
        BY <1>2, <2>3
      <4>2. a \in DOMAIN t /\ i = Len(s) + a /\ b \in DOMAIN t /\ j = Len(s) + b
        BY <3>3
      <4> HIDE DEF a, b
      <4>3. u[i] = t[a] /\ u[j] = t[b]
        BY <1>2, <4>2
      <4>4. t[a].of[2] <= t[b].of[2]
        BY <4>1, <4>2 DEF Stream, OfClient
      <4> QED
        BY <4>3, <4>4
    <3> QED
      BY <1>2, <3>1, <3>2, <3>3
  <2> QED
    BY <2>2, <2>3 DEF OfClient
<1>7. ASSUME NEW i \in DOMAIN s, s[i] \in Starts PROVE HeadAt(u, i)
  <2>1. i < Len(s) /\ s[i + 1] \in Ends /\ s[i + 1].of = s[i].of
    BY <1>7 DEF Stream, HeadAt
  <2>2. i + 1 \in DOMAIN s /\ i < Len(u)
    BY <1>2, <2>1
  <2> QED
    BY <1>2, <2>1, <2>2 DEF HeadAt
<1>8. ASSUME NEW i \in DOMAIN s, s[i] \in Ends PROVE BodyAt(u, i) /\ NextAt(u, i)
  <2> DEFINE x == Extent(s[i])
  <2>1. /\ x \in Nat /\ i + x <= Len(s)
        /\ \A j \in i + 1 .. i + x : s[j] \in Bodies /\ s[j].of = s[i].of
        /\ i + x < Len(s) => s[i + x + 1] \in Starts /\ s[i + x + 1].of[2] = s[i].of[2] + 1
    BY <1>8, TokensPlain DEF Stream, BodyAt, NextAt
  <2>2. u[i] = s[i] /\ Extent(u[i]) = x
    BY <1>2
  <2> HIDE DEF x
  <2>3. BodyAt(u, i)
    <3>1. i + x <= Len(u) /\ \A j \in i + 1 .. i + x : j \in DOMAIN s
      BY <1>2, <2>1
    <3> QED
      BY <1>2, <2>1, <2>2, <3>1 DEF BodyAt
  <2>4. CASE i + x < Len(s)
    <3>1. i + x + 1 \in DOMAIN s
      BY <1>2, <2>1, <2>4
    <3> QED
      BY <1>2, <2>1, <2>2, <2>3, <2>4, <3>1 DEF NextAt
  <2>5. CASE i + x = Len(s)
    <3>1. s[i].of[2] = n
      <4>1. CASE x = 0
        BY <1>2, <2>5, <4>1
      <4>2. CASE x > 0
        <5>1. i + x \in i + 1 .. i + x
          BY <1>2, <2>1, <4>2
        <5> QED
          BY <2>1, <2>5, <5>1
      <4> QED
        BY <2>1, <4>1, <4>2
    <3>2. u[i + x + 1] = t[1] /\ t[1] \in Starts /\ t[1].of[2] = n + 1
      BY <1>2, <1>3, <2>5 DEF Stream, Begins
    <3> QED
      BY <2>2, <2>3, <3>1, <3>2 DEF NextAt
  <2> QED
    BY <1>2, <2>1, <2>3, <2>4, <2>5
<1>9. ASSUME NEW i \in DOMAIN t, t[i] \in Starts PROVE HeadAt(u, Len(s) + i)
  <2>1. i < Len(t) /\ t[i + 1] \in Ends /\ t[i + 1].of = t[i].of
    BY <1>9 DEF Stream, HeadAt
  <2>2. i + 1 \in DOMAIN t /\ Len(s) + i < Len(u) /\ Len(s) + (i + 1) = (Len(s) + i) + 1
    <3> DEFINE a == Len(s)
               b == Len(t)
    <3>1. a \in Nat /\ b \in Nat /\ Len(u) = a + b /\ DOMAIN t = 1 .. b /\ i < b
      BY <1>2, <2>1
    <3>2. i \in 1 .. b
      BY <3>1
    <3> HIDE DEF a, b
    <3>3. i + 1 \in 1 .. b /\ a + i < a + b /\ a + (i + 1) = (a + i) + 1
      BY <3>1, <3>2
    <3> QED
      BY <3>1, <3>3 DEF a
  <2> QED
    BY <1>2, <2>1, <2>2 DEF HeadAt
<1>10. ASSUME NEW i \in DOMAIN t, t[i] \in Ends
       PROVE  BodyAt(u, Len(s) + i) /\ NextAt(u, Len(s) + i)
  <2> DEFINE x == Extent(t[i])
             o == Len(s) + i
  <2>1. /\ x \in Nat /\ i + x <= Len(t)
        /\ \A j \in i + 1 .. i + x : t[j] \in Bodies /\ t[j].of = t[i].of
        /\ i + x < Len(t) => t[i + x + 1] \in Starts /\ t[i + x + 1].of[2] = t[i].of[2] + 1
    BY <1>10, TokensPlain DEF Stream, BodyAt, NextAt
  <2>2. u[o] = t[i] /\ Extent(u[o]) = x
    BY <1>2
  <2> HIDE DEF x
  <2>3. o \in Nat /\ o + x <= Len(u)
    BY <1>2, <2>1
  <2>4. ASSUME NEW j \in o + 1 .. o + x PROVE u[j] \in Bodies /\ u[j].of = t[i].of
    <3>1. /\ Len(s) \in Nat /\ i \in Nat /\ i >= 1 /\ x \in Nat /\ j \in Int
          /\ j >= Len(s) + i + 1 /\ j <= Len(s) + i + x /\ Len(t) \in Nat /\ i + x <= Len(t)
      BY <1>2, <2>1, <2>3
    <3> DEFINE a == Len(s)
               b == Len(t)
               l == j - a
    <3>2. l \in i + 1 .. i + x /\ j = Len(s) + l /\ l \in 1 .. Len(t)
      <4>1. /\ a \in Nat /\ b \in Nat /\ i \in Nat /\ x \in Nat /\ i + x <= b
            /\ j \in a + i + 1 .. a + i + x
        BY <3>1
      <4> HIDE DEF a, b
      <4>2. l \in i + 1 .. i + x /\ j = a + l /\ l \in 1 .. b
        BY <4>1, PlacesBack
      <4> QED
        BY <4>2 DEF a, b
    <3> HIDE DEF l
    <3>3. u[Len(s) + l] = t[l] /\ t[l] \in Bodies /\ t[l].of = t[i].of
      BY <1>2, <2>1, <3>2
    <3> QED
      BY <3>2, <3>3
  <2>5. ASSUME o + x < Len(u)
        PROVE  u[o + x + 1] \in Starts /\ u[o + x + 1].of[2] = t[i].of[2] + 1
    <3>1. /\ Len(s) \in Nat /\ i \in Nat /\ x \in Nat /\ Len(t) \in Nat
          /\ Len(s) + i + x < Len(s) + Len(t)
      BY <1>2, <2>1, <2>5
    <3> DEFINE a == Len(s)
               b == Len(t)
               l == i + x + 1
    <3>2. i + x < Len(t) /\ l \in 1 .. Len(t) /\ Len(s) + l = o + x + 1
      <4>1. /\ a \in Nat /\ b \in Nat /\ i \in Nat /\ x \in Nat
            /\ a + i + x < a + b
        BY <3>1
      <4>0. o = a + i
        OBVIOUS
      <4> HIDE DEF a, b, o, l
      <4>2. i + x < b /\ i + x + 1 \in 1 .. b /\ a + (i + x + 1) = a + i + x + 1
        BY <4>1, PlaceAfter
      <4>3. a + l = o + x + 1
        BY <4>0, <4>2 DEF l
      <4> QED
        BY <4>2, <4>3 DEF a, b, l
    <3>3. t[l] \in Starts /\ t[l].of[2] = t[i].of[2] + 1
      BY <2>1, <3>2
    <3> HIDE DEF l
    <3>4. u[Len(s) + l] = t[l]
      BY <1>2, <3>2
    <3> QED
      BY <3>2, <3>3, <3>4
  <2> HIDE DEF o
  <2>6. BodyAt(u, o) /\ NextAt(u, o)
    BY <2>2, <2>3, <2>4, <2>5 DEF BodyAt, NextAt
  <2> QED
    BY <2>6 DEF o
<1>11. ASSUME NEW i \in DOMAIN u
       PROVE  /\ u[i] \in Starts => HeadAt(u, i)
              /\ u[i] \in Ends => BodyAt(u, i) /\ NextAt(u, i)
  <2>1. CASE i \in DOMAIN s
    BY <1>2, <1>7, <1>8, <2>1
  <2>2. CASE i - Len(s) \in DOMAIN t /\ i = Len(s) + (i - Len(s))
    BY <1>2, <1>9, <1>10, <2>2
  <2> QED
    BY <1>2, <2>1, <2>2
<1>12. Stream(u, c, k)
  BY <1>2, <1>5, <1>6, <1>11 DEF Stream
<1> QED
  BY <1>5, <1>12 DEF u

(* Induction up to a number, about a set.                                  *)
LEMMA UpTo ==
    ASSUME NEW N \in Nat \ {0}, NEW S, 1 \in S,
           \A n \in 1 .. N - 1 : n \in S => n + 1 \in S
    PROVE  \A n \in 1 .. N : n \in S
<1> DEFINE out == (1 .. N) \ S
<1>1. CASE out = {}
  BY <1>1
<1>2. CASE out # {}
  <2>1. PICK x \in out : \A y \in out : x <= y
    <3>1. out \in SUBSET Nat
      OBVIOUS
    <3> HIDE DEF out
    <3> QED
      BY <1>2, <3>1, LeastOf
  <2>2. x \in 1 .. N /\ x \notin S /\ x # 1
    BY <2>1
  <2>3. x - 1 \in 1 .. N - 1 /\ x - 1 \in 1 .. N /\ x - 1 + 1 = x /\ ~(x <= x - 1)
    BY <2>2
  <2>4. x - 1 \in S
    BY <2>1, <2>3
  <2> QED
    BY <2>2, <2>3, <2>4
<1> QED
  BY <1>1, <1>2

(* FlattenSeq, for what it is given here: the function by which it is      *)
(* defined exists, and gives what has come so far.                         *)
Prefix(ms, f, n) ==
    /\ f \in [1 .. n -> Seq(Tokens)]
    /\ f[1] = ms[1]
    /\ \A i \in 1 .. n - 1 : f[i + 1] = f[i] \o ms[i + 1]

LEMMA PrefixExists ==
    ASSUME NEW N \in Nat \ {0}, NEW ms \in [1 .. N -> Seq(Tokens)]
    PROVE  \E f : Prefix(ms, f, N)
<1> DEFINE S == {n \in 1 .. N : \E f : Prefix(ms, f, n)}
<1>1. 1 \in S
  <2>1. Prefix(ms, [i \in 1 .. 1 |-> ms[1]], 1)
    BY DEF Prefix
  <2> QED
    BY <2>1
<1>2. ASSUME NEW n \in 1 .. N - 1, n \in S PROVE n + 1 \in S
  <2>1. PICK f : Prefix(ms, f, n)
    BY <1>2
  <2> DEFINE g == [i \in 1 .. n + 1 |-> IF i <= n THEN f[i] ELSE f[n] \o ms[n + 1]]
  <2>2. f[n] \in Seq(Tokens) /\ ms[n + 1] \in Seq(Tokens)
    BY <2>1 DEF Prefix
  <2>3. f[n] \o ms[n + 1] \in Seq(Tokens)
    BY <2>2, ConcatProperties
  <2>4. g \in [1 .. n + 1 -> Seq(Tokens)]
    <3>1. ASSUME NEW i \in 1 .. n + 1, i <= n PROVE f[i] \in Seq(Tokens)
      <4>1. i \in 1 .. n
        BY <3>1
      <4> QED
        BY <2>1, <4>1 DEF Prefix
    <3> QED
      BY <2>3, <3>1
  <2>5. \A i \in 1 .. n + 1 : g[i] = IF i <= n THEN f[i] ELSE f[n] \o ms[n + 1]
    OBVIOUS
  <2> HIDE DEF g
  <2>6. ASSUME NEW i \in 1 .. n PROVE g[i + 1] = g[i] \o ms[i + 1]
    <3>1. i + 1 \in 1 .. n + 1 /\ i \in 1 .. n + 1 /\ g[i] = f[i]
      BY <2>5
    <3>2. CASE i < n
      <4>1. i \in 1 .. n - 1 /\ i + 1 <= n
        BY <3>2
      <4>2. g[i + 1] = f[i + 1]
        BY <2>5, <3>1, <4>1
      <4>3. f[i + 1] = f[i] \o ms[i + 1]
        BY <2>1, <4>1 DEF Prefix
      <4> QED
        BY <3>1, <4>2, <4>3
    <3>3. CASE i = n
      <4>1. ~(i + 1 <= n)
        BY <3>3
      <4>2. g[i + 1] = f[n] \o ms[n + 1]
        BY <2>5, <3>1, <4>1
      <4> QED
        BY <3>1, <3>3, <4>2
    <3>4. i < n \/ i = n
      OBVIOUS
    <3> QED
      BY <3>2, <3>3, <3>4, Zenon
  <2>7. g[1] = ms[1] /\ n + 1 - 1 = n
    BY <2>1, <2>5 DEF Prefix
  <2>8. \A i \in 1 .. (n + 1) - 1 : g[i + 1] = g[i] \o ms[i + 1]
    <3> TAKE i \in 1 .. (n + 1) - 1
    <3>1. i \in 1 .. n
      OBVIOUS
    <3> QED
      BY <2>6, <3>1, Zenon
  <2>9. Prefix(ms, g, n + 1)
    BY <2>4, <2>7, <2>8 DEF Prefix
  <2> QED
    BY <2>9
<1> HIDE DEF S
<1>3. \A n \in 1 .. N : n \in S
  BY <1>1, <1>2, UpTo
<1> QED
  BY <1>3 DEF S

LEMMA FlattenIsPrefix ==
    ASSUME NEW N \in Nat \ {0}, NEW ms \in [1 .. N -> Seq(Tokens)], Len(ms) = N
    PROVE  \E f : Prefix(ms, f, N) /\ FlattenSeq(ms) = f[N]
<1> DEFINE Step(f) == [i \in 1 .. N |-> IF i = 1 THEN ms[1] ELSE f[i - 1] \o ms[i]]
           Ok(f) == f = [i \in 1 .. Len(ms) |-> IF i = 1 THEN ms[i] ELSE f[i - 1] \o ms[i]]
           g == CHOOSE f : Ok(f)
<1>1. PICK p : Prefix(ms, p, N)
  BY PrefixExists
<1>2. Ok(p)
  <2>1. p = [i \in 1 .. N |-> p[i]]
    BY <1>1 DEF Prefix
  <2>2. ASSUME NEW i \in 1 .. N PROVE p[i] = IF i = 1 THEN ms[i] ELSE p[i - 1] \o ms[i]
    <3>1. CASE i = 1
      BY <1>1, <3>1 DEF Prefix
    <3>2. CASE i # 1
      <4>1. i - 1 \in 1 .. N - 1 /\ (i - 1) + 1 = i
        BY <3>2
      <4>2. p[(i - 1) + 1] = p[i - 1] \o ms[(i - 1) + 1]
        BY <1>1, <4>1 DEF Prefix
      <4> QED
        BY <3>2, <4>1, <4>2
    <3> QED
      BY <3>1, <3>2
  <2> QED
    BY <2>1, <2>2
<1>3. Ok(g)
  BY <1>2
<1>4. FlattenSeq(ms) = g[N]
  BY DEF FlattenSeq
<1> HIDE DEF g
<1>5. DOMAIN g = 1 .. N /\ g[1] = ms[1]
  BY <1>3
<1>5a. ASSUME NEW n \in 1 .. N - 1 PROVE g[n + 1] = g[n] \o ms[n + 1]
  <2>1. /\ DOMAIN g = 1 .. N
        /\ \A i \in 1 .. N : g[i] = IF i = 1 THEN ms[i] ELSE g[i - 1] \o ms[i]
    BY <1>3
  <2> DEFINE k == n + 1
  <2>2. k \in 1 .. N /\ k # 1 /\ k - 1 = n
    OBVIOUS
  <2> HIDE DEF k
  <2>3. g[k] = g[n] \o ms[k]
    BY <2>1, <2>2
  <2> QED
    BY <2>3 DEF k
<1>6. \A i \in 1 .. N : g[i] \in Seq(Tokens)
  <2> DEFINE S == {i \in 1 .. N : g[i] \in Seq(Tokens)}
  <2>1. 1 \in S
    BY <1>5
  <2>2. ASSUME NEW n \in 1 .. N - 1, n \in S PROVE n + 1 \in S
    <3>1. n + 1 \in 1 .. N
      OBVIOUS
    <3>2. g[n + 1] = g[n] \o ms[n + 1]
      BY <1>5a
    <3>3. g[n] \in Seq(Tokens) /\ ms[n + 1] \in Seq(Tokens)
      BY <2>2, <3>1
    <3>4. g[n + 1] \in Seq(Tokens)
      BY <3>2, <3>3, ConcatProperties
    <3> QED
      BY <3>1, <3>4
  <2> HIDE DEF S
  <2>3. \A i \in 1 .. N : i \in S
    BY <2>1, <2>2, UpTo
  <2> QED
    BY <2>3 DEF S
<1>7. Prefix(ms, g, N)
  <2>1. g = [i \in 1 .. N |-> g[i]]
    BY <1>3, <1>5
  <2> QED
    BY <1>5, <1>5a, <1>6, <2>1 DEF Prefix
<1> QED
  BY <1>4, <1>7

(* Whole messages, numbered from 1 on, make a stream.                      *)
LEMMA FlattenedStream ==
    ASSUME NEW c \in Nat, NEW N \in Nat, NEW m, \A i \in 1 .. N : Whole(m[i])
    PROVE  Stream(FlattenSeq([i \in 1 .. N |-> Message(c, i, m[i])]), c, 1)
<1> DEFINE ms == [i \in 1 .. N |-> Message(c, i, m[i])]
<1>1. Len(ms) = N /\ DOMAIN ms = 1 .. N
  OBVIOUS
<1>2. CASE N = 0
  <2>1. ms = << >>
    BY <1>2
  <2>2. FlattenSeq(ms) = << >>
    BY <1>1, <1>2, <2>1 DEF FlattenSeq
  <2> QED
    BY <2>2, EmptyStream
<1>3. CASE N # 0
  <2>1. \A i \in 1 .. N : /\ ms[i] \in Seq(Tokens) /\ ms[i] # << >> /\ Stream(ms[i], c, i)
                          /\ \A j \in DOMAIN ms[i] : ms[i][j].of = <<c, i>>
    <3> TAKE i \in 1 .. N
    <3> DEFINE x == m[i]
    <3>1. Whole(x) /\ i \in Nat /\ ms[i] = Message(c, i, x)
      OBVIOUS
    <3> HIDE DEF ms, x
    <3>2. /\ Message(c, i, x) \in Seq(Tokens) /\ Message(c, i, x) # << >>
          /\ Stream(Message(c, i, x), c, i)
          /\ \A j \in DOMAIN Message(c, i, x) : Message(c, i, x)[j].of = <<c, i>>
      BY <3>1, WholeMessage
    <3> QED
      BY <3>1, <3>2
  <2>2. ms \in [1 .. N -> Seq(Tokens)]
    BY <2>1
  <2> HIDE DEF ms
  <2>3. PICK f : Prefix(ms, f, N) /\ FlattenSeq(ms) = f[N]
    BY <1>1, <1>3, <2>2, FlattenIsPrefix
  <2> DEFINE S == {n \in 1 .. N : /\ Stream(f[n], c, 1) /\ f[n] # << >>
                                  /\ f[n][Len(f[n])].of[2] = n}
  <2>4. \A i \in 1 .. N : Len(ms[i]) \in DOMAIN ms[i] /\ ms[i][Len(ms[i])].of[2] = i
    <3> TAKE i \in 1 .. N
    <3>1. Len(ms[i]) \in DOMAIN ms[i]
      BY <2>1, LenProperties, EmptySeq
    <3>2. ms[i][Len(ms[i])].of = <<c, i>>
      BY <2>1, <3>1
    <3> QED
      BY <3>1, <3>2
  <2>5. 1 \in S
    <3>1. f[1] = ms[1]
      BY <2>3 DEF Prefix
    <3>2. 1 \in 1 .. N
      BY <1>3
    <3> QED
      BY <2>1, <2>4, <3>1, <3>2
  <2>6. ASSUME NEW n \in 1 .. N - 1, n \in S PROVE n + 1 \in S
    <3>1. n + 1 \in 1 .. N /\ n \in 1 .. N /\ n \in Nat /\ 1 \in Nat /\ 1 <= n
      OBVIOUS
    <3>2. f[n + 1] = f[n] \o ms[n + 1]
      BY <2>3 DEF Prefix
    <3>3. /\ Stream(f[n], c, 1) /\ f[n] # << >> /\ f[n][Len(f[n])].of[2] = n
          /\ Stream(ms[n + 1], c, n + 1) /\ ms[n + 1] # << >>
      BY <2>1, <2>6, <3>1
    <3>4. /\ Stream(f[n + 1], c, 1) /\ f[n + 1] # << >>
          /\ f[n + 1][Len(f[n + 1])] = ms[n + 1][Len(ms[n + 1])]
      <4> DEFINE s == f[n]
                 t == ms[n + 1]
      <4> HIDE DEF s, t
      <4>1. Stream(s, c, 1) /\ s # << >> /\ s[Len(s)].of[2] = n /\ Stream(t, c, n + 1) /\ t # << >>
        BY <3>3 DEF s, t
      <4>2. Stream(s \o t, c, 1) /\ (s \o t)[Len(s \o t)] = t[Len(t)] /\ s \o t # << >>
        BY <3>1, <4>1, StreamConcat
      <4> QED
        BY <3>2, <4>2 DEF s, t
    <3> QED
      BY <2>4, <3>1, <3>4
  <2> HIDE DEF S
  <2>7. \A n \in 1 .. N : n \in S
    BY <1>3, <2>5, <2>6, UpTo
  <2>8. Stream(f[N], c, 1)
    BY <1>3, <2>7 DEF S
  <2> QED
    BY <2>3, <2>8 DEF ms
<1> QED
  BY <1>2, <1>3
-----------------------------------------------------------------------------
(* Every handler says what became of the body.                             *)
Says(r) == "body" \in DOMAIN r /\ r.body \in {"left", "read", "cut"}

LEMMA PlainSays == \A code : Says(Plain(code)) /\ Says(Open(Plain(code)))
BY DEF Says, Plain, Open

LEMMA FileSays == ASSUME NEW r, Says(r) PROVE Says(WithFile(r))
BY DEF Says, WithFile

LEMMA ServiceSays == \A q \in Query : \A r \in ServiceHandle(q) : Says(r)
<1>1. \A d : Says(LocationGet(d))
  BY PlainSays DEF LocationGet, Says
<1>2. Says(SpatialQueryReply)
  BY PlainSays DEF SpatialQueryReply, Says
<1>3. ServiceHandle("location_get") = {LocationGet(TRUE)}
  BY DEF ServiceHandle
<1>4. ServiceHandle("location_get dirty") = {LocationGet(FALSE)}
  BY DEF ServiceHandle
<1>5. ServiceHandle("spatial_query") = {SpatialQueryReply}
  BY DEF ServiceHandle
<1>6. ServiceHandle("other") = {SendHttpError(500)}
  BY DEF ServiceHandle
<1>7. Says(SendHttpError(500))
  BY PlainSays DEF SendHttpError
<1> TAKE q \in Query
<1> TAKE r \in ServiceHandle(q)
<1>8. \/ q = "location_get" \/ q = "location_get dirty"
      \/ q = "spatial_query" \/ q = "other"
  BY DEF Query
<1>9. \/ \E x : r = LocationGet(x)
      \/ r = SpatialQueryReply
      \/ r = SendHttpError(500)
  <2>1. CASE q = "location_get"
    BY <1>3, <2>1
  <2>2. CASE q = "location_get dirty"
    BY <1>4, <2>2
  <2>3. CASE q = "spatial_query"
    BY <1>5, <2>3
  <2>4. CASE q = "other"
    BY <1>6, <2>4
  <2> QED
    BY <1>8, <2>1, <2>2, <2>3, <2>4
<1> QED
  BY <1>1, <1>2, <1>7, <1>9

LEMMA DirectorySays ==
    /\ \A r \in HandleDirectoryRequest : Says(r)
    /\ \A r \in HandleSsiFileRequest : Says(r)
    /\ \A r \in Delete : Says(r)
    /\ Says(MovedPermanently) /\ Says(HandlePropfind)
<1>1. \A code : Says([Open(Plain(code)) EXCEPT !.close = TRUE])
  BY PlainSays DEF Says
<1>2. \A exec : Says(WithFile([Open(Plain(200)) EXCEPT !.close = TRUE, !.awaits = exec]))
  <2>1. ASSUME NEW exec
        PROVE  Says([Open(Plain(200)) EXCEPT !.close = TRUE, !.awaits = exec])
    BY PlainSays DEF Says
  <2> QED
    BY <2>1, FileSays
<1>3. \A r \in HandleDirectoryRequest : Says(r)
  BY <1>1, PlainSays DEF HandleDirectoryRequest, SendHttpError
<1>4. \A r \in HandleSsiFileRequest : Says(r)
  <2> TAKE r \in HandleSsiFileRequest
  <2> DEFINE q(exec) == WithFile([Open(Plain(200)) EXCEPT !.close = TRUE, !.awaits = exec])
  <2>1. r = SendHttpError(500) \/ \E exec : r = q(exec)
    BY DEF HandleSsiFileRequest
  <2>2. \A exec : Says(q(exec))
    BY <1>2
  <2> HIDE DEF q
  <2> QED
    BY <2>1, <2>2, PlainSays DEF SendHttpError
<1>5. \A r \in Delete : Says(r)
  BY PlainSays DEF Delete, SendHttpError
<1>6. Says(HandlePropfind)
  BY <1>1 DEF HandlePropfind
<1>7. Says(MovedPermanently)
  BY PlainSays DEF MovedPermanently, Says
<1> QED
  BY <1>3, <1>4, <1>5, <1>6, <1>7

LEMMA FileRequestSays ==
    ASSUME NEW method, NEW range, NEW size, NEW r \in HandleFileRequest(method, range, size)
    PROVE  Says(r)
<1> DEFINE r1     == IF range = << >> THEN 0 ELSE range[1]
           length == IF Len(range) = 2 THEN range[2] - r1 + 1 ELSE size - r1
           code   == IF range = << >> THEN 200 ELSE 206
           d      == method = "HEAD" \/ Sent(length, r1, size) = length
<1>1. r = Plain(500) \/ r = WithFile([Plain(code) EXCEPT !.delimited = d])
  BY Zenon DEF HandleFileRequest, SendHttpError
<1> HIDE DEF code, d
<1>2. Says([Plain(code) EXCEPT !.delimited = d])
  BY PlainSays DEF Says
<1> DEFINE q == [Plain(code) EXCEPT !.delimited = d]
<1>3. Says(WithFile(q)) /\ Says(Plain(500))
  BY <1>2, PlainSays, FileSays
<1> HIDE DEF q
<1> QED
  BY <1>1, <1>3 DEF q

LEMMA ForwardSays ==
    ASSUME NEW length, NEW e, NEW f \in ForwardBodyData(length, e)
    PROVE  f.body \in {"left", "read", "cut"}
BY DEF ForwardBodyData, Refused

LEMMA PutSays ==
    ASSUME NEW length, NEW e, NEW ranged, NEW r \in PutFile(length, e, ranged)
    PROVE  Says(r)
<1>1. ASSUME NEW f \in ForwardBodyData(length, e), NEW q, Says(q)
      PROVE  Says([WithFile(q) EXCEPT !.body = f.body])
  BY <1>1, FileSays, ForwardSays DEF Says
<1> QED
  BY <1>1, PlainSays DEF PutFile, SendHttpError

LEMMA CgiSays ==
    ASSUME NEW method, NEW length, NEW e, NEW r \in HandleCgiRequest(method, length, e)
    PROVE  Says(r)
<1> DEFINE posted == IF method = "POST" THEN ForwardBodyData(length, e)
                     ELSE {[ok |-> TRUE, lines |-> << >>, status |-> -1, body |-> "left"]}
<1>1. \A f \in posted : f.body \in {"left", "read", "cut"}
  BY ForwardSays
<1>2. \/ \E fail : r = CgiFailed(fail)
      \/ \E f \in posted : r = CgiUnsent(f)
      \/ \E f \in posted : r = CgiDone(CgiRead(Plain(500), f), "headers")
      \/ \E q \in CgiReplies, f \in posted : r = CgiDone(CgiRead(q, f), "none")
  BY DEF HandleCgiRequest
<1> HIDE DEF posted
<1>3. ASSUME NEW q, Says(q), NEW fail PROVE Says(CgiDone(q, fail))
  BY <1>3 DEF Says, CgiDone
<1>4. ASSUME NEW q, Says(q), NEW f \in posted PROVE Says(CgiRead(q, f))
  BY <1>1, <1>4 DEF Says, CgiRead
<1>5. \A fail : Says(CgiFailed(fail))
  <2>1. \A x : Says([Plain(500) EXCEPT !.lines = x])
    BY PlainSays DEF Says
  <2> QED
    BY <1>3, <2>1 DEF CgiFailed
<1>6. \A f \in posted : Says(CgiUnsent(f))
  <2>1. ASSUME NEW f \in posted PROVE Says([Plain(f.status) EXCEPT !.body = f.body])
    BY <1>1, PlainSays DEF Says
  <2> QED
    BY <1>3, <2>1 DEF CgiUnsent
<1>7. \A q \in CgiReplies : Says(q)
  <2>1. \A code, len, k : Says(CgiReply(code, len, k))
    BY PlainSays DEF CgiReply, Says
  <2> QED
    BY <2>1 DEF CgiReplies
<1> QED
  BY <1>2, <1>3, <1>4, <1>5, <1>6, <1>7, PlainSays

LEMMA RepliesSay == \A x \in Replies : \A r \in x.any : r.body \in {"left", "read", "cut"}
<1>1. ASSUME NEW route, NEW method, NEW length, NEW r \in Respond(route, method, length)
      PROVE  Says(r)
  <2>1. \A code : Says(SendHttpError(code))
    BY PlainSays DEF SendHttpError
  <2>2. Says(SendOptions) /\ Says(SendAuthorizationRequest)
    BY PlainSays DEF SendOptions, SendAuthorizationRequest
  <2>3. \A q \in Query : \A x \in ServiceHandle(q) : Says(x)
    BY ServiceSays
  <2>4. \A e, ranged : \A x \in PutFile(length, e, ranged) : Says(x)
    BY PutSays
  <2>5. \A e : \A x \in HandleCgiRequest(method, length, e) : Says(x)
    BY CgiSays
  <2>6. \A range, size : \A x \in HandleFileRequest(method, range, size) : Says(x)
    BY FileRequestSays
  <2>7. CASE route = "service"
    BY <2>3, <2>7 DEF Respond
  <2>8. CASE route = "put"
    BY <2>4, <2>8 DEF Respond, PutReplies
  <2>9. CASE route = "cgi"
    BY <2>5, <2>9 DEF Respond
  <2>10. CASE route = "unauthorized"
    BY <2>2, <2>10 DEF Respond
  <2>11. CASE route = "options"
    BY <2>2, <2>11 DEF Respond
  <2>12. CASE route = "not found"
    <3>1. Respond(route, method, length) = {SendHttpError(404)}
      BY <2>12, ZenonT(30) DEF Respond
    <3> QED
      BY <2>1, <3>1
  <2>13. CASE route = "denied"
    <3>1. Respond(route, method, length) = {SendHttpError(403)}
      BY <2>13, ZenonT(30) DEF Respond
    <3> QED
      BY <2>1, <3>1
  <2>14. CASE route = "not implemented"
    <3>1. Respond(route, method, length) = {SendHttpError(501)}
      BY <2>14, ZenonT(30) DEF Respond
    <3> QED
      BY <2>1, <3>1
  <2>15. CASE route = "unmodified"
    <3>1. Respond(route, method, length) = {SendHttpError(304)}
      BY <2>15, ZenonT(30) DEF Respond
    <3> QED
      BY <2>1, <3>1
  <2>16. CASE route = "delete"
    BY DirectorySays, <2>16 DEF Respond
  <2>17. CASE route = "moved"
    BY DirectorySays, <2>17 DEF Respond
  <2>18. CASE route = "propfind"
    BY DirectorySays, <2>18 DEF Respond
  <2>19. CASE route = "directory"
    BY DirectorySays, <2>19 DEF Respond
  <2>20. CASE route = "ssi"
    BY DirectorySays, <2>20 DEF Respond
  <2>21. ASSUME route # "unauthorized", route # "service",
                route # "options", route # "put",
                route # "delete", route # "not found",
                route # "moved", route # "propfind",
                route # "directory", route # "denied",
                route # "not implemented", route # "cgi",
                route # "ssi", route # "unmodified"
        PROVE  Says(r)
    <3>1. Respond(route, method, length) = FileReplies(method)
      BY <2>21, ZenonT(30) DEF Respond
    <3> QED
      BY <2>6, <3>1 DEF FileReplies
  <2> QED
    BY <2>7, <2>8, <2>9, <2>10, <2>11, <2>12, <2>13, <2>14, <2>15, <2>16, <2>17, <2>18, <2>19, <2>20, <2>21
<1>2. ASSUME NEW route, NEW r, Says(r) PROVE Says([r EXCEPT !.by = route])
  BY <1>2 DEF Says
<1>3. ASSUME NEW method, NEW length, NEW service,
             NEW r \in HandleRequest(method, length, service)
      PROVE  Says(r)
  BY <1>1, <1>2 DEF HandleRequest
<1> QED
  BY <1>3 DEF Replies, Says
-----------------------------------------------------------------------------
(* What read_request() finds in the buffer of an orderly client: less than *)
(* a head, or the head of the next request and no more than its body.      *)
LEMMA HeadFound ==
    ASSUME conn \in Nat, AnswersOK, ReadOK
    PROVE  \/ RequestLen = 0 /\ Len(buf) <= 1
           \/ /\ RequestLen = 2 /\ 2 <= Len(buf) /\ Len(buf) <= 2 + Extent(buf[2])
              /\ buf[1] \in Starts /\ buf[1].of = <<conn, Len(answers) + 1>>
              /\ buf[2] \in Ends
<1> DEFINE k == Len(answers) + 1
           s == buf \o wire
           E == {i \in DOMAIN buf : buf[i].part = "end"}
           B == {i \in DOMAIN buf : buf[i].part = "bad"}
<1>1. /\ k \in Nat /\ buf \in Seq(Tokens) /\ wire \in Seq(Tokens)
      /\ Stream(s, conn, k) /\ \A i \in DOMAIN buf : buf[i].of[2] <= k
  BY LenProperties DEF AnswersOK, ReadOK
<1>2. RequestLen = IF B # {} /\ (E = {} \/ (CHOOSE i \in B : \A j \in B : i <= j)
                                           < (CHOOSE i \in E : \A j \in E : i <= j)) THEN -1
                   ELSE IF E = {} THEN 0 ELSE CHOOSE i \in E : \A j \in E : i <= j
  BY Zenon DEF RequestLen
<1>3. /\ Len(buf) \in Nat /\ DOMAIN buf = 1 .. Len(buf) /\ Len(s) \in Nat
      /\ Len(buf) <= Len(s)
      /\ \A i \in DOMAIN buf : s[i] = buf[i] /\ buf[i] \in Tokens
      /\ Len(buf) > 0 => s # << >>
  <2>1. /\ Len(buf) \in Nat /\ DOMAIN buf = 1 .. Len(buf) /\ Len(wire) \in Nat
        /\ Len(s) = Len(buf) + Len(wire)
        /\ \A i \in DOMAIN buf : s[i] = buf[i]
    BY <1>1, ConcatPlaces
  <2>2. \A i \in DOMAIN buf : buf[i] \in Tokens
    BY <1>1, <2>1, ElementOfSeq
  <2>3. Len(s) > 0 => s # << >>
    BY EmptySeq
  <2> QED
    BY <2>1, <2>2, <2>3
<1>4. B = {}
  BY <1>3, TokensPlain
<1> HIDE DEF k, s, B
<1>5. RequestLen = IF E = {} THEN 0 ELSE CHOOSE i \in E : \A j \in E : i <= j
  BY <1>2, <1>4, Zenon
<1>6. CASE Len(buf) <= 1
  <2>1. ASSUME NEW i \in E PROVE FALSE
    <3>1. i = 1 /\ Len(buf) > 0 /\ 1 \in DOMAIN buf /\ buf[1].part = "end"
      BY <1>3, <1>6
    <3>2. s[1] \in Starts
      BY <1>1, <1>3, <3>1, FirstMessage
    <3> QED
      BY <1>3, <3>1, <3>2, TokensPlain
  <2> QED
    BY <1>5, <1>6, <2>1
<1>7. CASE 2 <= Len(buf)
  <2>1. 1 \in DOMAIN buf /\ 2 \in DOMAIN buf /\ s # << >> /\ s[1] = buf[1] /\ s[2] = buf[2]
    BY <1>3, <1>7
  <2> DEFINE x == Extent(s[2])
             e == 2 + x
  <2>2. /\ s[1] \in Starts /\ s[1].of = <<conn, k>>
        /\ s[2] \in Ends /\ x \in Nat /\ e <= Len(s)
        /\ e < Len(s) => s[e + 1].of[2] = k + 1
    BY <1>1, <2>1, FirstMessage
  <2>3. 2 \in E /\ 1 \notin E
    BY <1>3, <2>1, <2>2, TokensPlain
  <2>4. \A i \in E : i \in Nat /\ 2 <= i
    <3> TAKE i \in E
    <3>1. i \in 1 .. Len(buf) /\ i # 1
      BY <1>3, <2>3
    <3> QED
      BY <1>3, <3>1
  <2> DEFINE l == CHOOSE i \in E : \A j \in E : i <= j
  <2>5. l \in E /\ \A j \in E : l <= j
    BY <2>3, <2>4
  <2>6. l = 2
    <3> HIDE DEF E, l
    <3> QED
      BY <2>3, <2>4, <2>5
  <2>7. RequestLen = 2
    BY <1>5, <2>3, <2>6
  <2>8. Len(buf) <= e
    <3>1. ASSUME e < Len(buf) PROVE FALSE
      <4>1. e + 1 \in DOMAIN buf /\ e < Len(s)
        BY <1>3, <2>2, <3>1
      <4>2. s[e + 1].of[2] = k + 1 /\ buf[e + 1].of[2] <= k /\ s[e + 1] = buf[e + 1]
        BY <1>1, <1>3, <2>2, <4>1
      <4> QED
        BY <1>1, <4>2
    <3> QED
      BY <1>3, <2>2, <3>1
  <2> QED
    BY <1>7, <2>1, <2>2, <2>7, <2>8 DEF k
<1> QED
  BY <1>3, <1>6, <1>7

LEMMA RestOfSeq ==
    ASSUME NEW s \in Seq(Tokens), NEW k \in Nat, k <= Len(s)
    PROVE  LET r == SubSeq(s, k + 1, Len(s))
           IN  /\ r \in Seq(Tokens) /\ Len(r) = Len(s) - k
               /\ \A i \in 1 .. Len(s) - k : r[i] = s[k + i]
<1> DEFINE r == SubSeq(s, k + 1, Len(s))
           n == Len(s) - k
<1>1. Len(s) \in Nat /\ DOMAIN s = 1 .. Len(s) /\ n \in Nat
  BY LenProperties
<1>2. \A i \in k + 1 .. Len(s) : s[i] \in Tokens
  <2> TAKE i \in k + 1 .. Len(s)
  <2>1. i \in 1 .. Len(s)
    BY <1>1
  <2> QED
    BY <2>1, ElementOfSeq
<1>3. /\ r \in Seq(Tokens)
      /\ Len(r) = IF k + 1 <= Len(s) THEN Len(s) - (k + 1) + 1 ELSE 0
      /\ \A i \in 1 .. Len(s) - (k + 1) + 1 : r[i] = s[k + 1 + i - 1]
  <2>1. k + 1 \in Int /\ Len(s) \in Int
    BY <1>1
  <2> QED
    BY <1>2, <2>1, SubSeqProperties
<1> HIDE DEF r
<1>4. Len(r) = n
  <2> DEFINE l == Len(s)
  <2>1. /\ k + 1 <= l => l - (k + 1) + 1 = l - k
        /\ ~(k + 1 <= l) => l - k = 0
    <3>1. l \in Nat /\ k <= l
      BY <1>1
    <3> HIDE DEF l
    <3> QED
      BY <3>1
  <2> QED
    BY <1>3, <2>1
<1>5. ASSUME NEW i \in 1 .. n PROVE r[i] = s[k + i]
  <2>1. i \in 1 .. Len(s) - (k + 1) + 1 /\ k + 1 + i - 1 = k + i
    BY <1>1
  <2> QED
    BY <1>3, <2>1
<1> QED
  BY <1>3, <1>4, <1>5 DEF r

LEMMA UpToSize ==
    ASSUME NEW n \in Nat
    PROVE  IsFiniteSet(1 .. n) /\ Cardinality(1 .. n) = n
<1>1. /\ IsFiniteSet(1 .. n)
      /\ Cardinality(1 .. n) = IF 1 > n THEN 0 ELSE n - 1 + 1
  BY FS_Interval
<1> QED
  BY <1>1

(* A client that waits has sent nothing of the request after the next.     *)
LEMMA NothingAhead ==
    ASSUME AnswersOK, ReadOK, patient = TRUE
    PROVE  /\ Arrived \in Nat /\ Arrived <= Len(wire)
           /\ \A i \in 1 .. Arrived : wire[i].of[2] <= Len(answers) + 1
<1> DEFINE k == Len(answers) + 1
           P == {i \in DOMAIN wire : wire[i].of[2] <= k}
<1>1. Arrived = Cardinality(P)
  BY DEF Arrived
<1>2. /\ k \in Nat /\ wire \in Seq(Tokens)
      /\ Len(wire) \in Nat /\ DOMAIN wire = 1 .. Len(wire)
      /\ \A i \in DOMAIN wire : wire[i] \in Tokens
  BY LenProperties, ElementOfSeq DEF AnswersOK, ReadOK
<1>3. \A i, j \in DOMAIN wire : i <= j => wire[i].of[2] <= wire[j].of[2]
  <2> DEFINE s == buf \o wire
             n == Len(buf)
  <2>1. /\ n \in Nat
        /\ \A i \in DOMAIN wire : n + i \in DOMAIN s /\ s[n + i] = wire[i]
    BY <1>2, ConcatPlaces DEF ReadOK
  <2>2. \A i, j \in DOMAIN s : i <= j => s[i].of[2] <= s[j].of[2]
    BY DEF ReadOK, Stream, OfClient
  <2> HIDE DEF s, n
  <2> TAKE i, j \in DOMAIN wire
  <2>3. i <= j => n + i <= n + j
    BY <1>2, <2>1
  <2> QED
    BY <2>1, <2>2, <2>3
<1>4. \A i \in DOMAIN wire : wire[i].of[2] \in Nat
  BY <1>2, TokensPlain
<1> HIDE DEF k
<1>5. /\ IsFiniteSet(1 .. Len(wire)) /\ Cardinality(1 .. Len(wire)) = Len(wire)
      /\ P \subseteq 1 .. Len(wire)
  <2>1. IsFiniteSet(1 .. Len(wire)) /\ Cardinality(1 .. Len(wire)) = Len(wire)
    BY <1>2, UpToSize
  <2> QED
    BY <1>2, <2>1
<1>6. Cardinality(P) \in Nat /\ Cardinality(P) <= Len(wire)
  BY <1>2, <1>5, FS_Subset, FS_CardinalityType
<1>7. ASSUME NEW i \in 1 .. Cardinality(P) PROVE wire[i].of[2] <= k
  <2>1. i \in DOMAIN wire /\ i \in Nat
    BY <1>2, <1>6
  <2>2. ASSUME ~(wire[i].of[2] <= k) PROVE FALSE
    <3>1. ASSUME NEW j \in P PROVE j \in 1 .. i - 1
      <4>1. j \in DOMAIN wire /\ wire[j].of[2] <= k /\ j \in Nat /\ 1 <= j
        BY <1>2
      <4>2. ASSUME i <= j PROVE FALSE
        BY <1>2, <1>3, <1>4, <2>1, <2>2, <4>1, <4>2
      <4> QED
        BY <2>1, <4>1, <4>2
    <3>2. /\ IsFiniteSet(1 .. i - 1) /\ Cardinality(1 .. i - 1) = i - 1
          /\ P \subseteq 1 .. i - 1
      <4>1. i - 1 \in Nat
        OBVIOUS
      <4>2. IsFiniteSet(1 .. i - 1) /\ Cardinality(1 .. i - 1) = i - 1
        BY <4>1, UpToSize
      <4> QED
        BY <3>1, <4>2
    <3>3. Cardinality(P) <= i - 1
      BY <3>2, FS_Subset
    <3> QED
      BY <1>6, <2>1, <3>3
  <2> QED
    BY <2>2
<1> QED
  BY <1>1, <1>6, <1>7 DEF k
-----------------------------------------------------------------------------
(* The steps of a worker whose clients are orderly.                        *)
LEMMA TakeKeeps == ASSUME IInv, orderly, Take, orderly' PROVE Served'
<1>0. PICK n \in 0 .. MaxMsgs - sent : \E m \in [1 .. n -> Shape], p \in BOOLEAN :
         /\ wire' = FlattenSeq([i \in 1 .. n |-> Message(conn', i, m[i])])
         /\ patient' = p
         /\ orderly' = (orderly /\ p /\ \A i \in 1 .. n : m[i].form = "whole")
  BY DEF Take
<1>1. PICK m \in [1 .. n -> Shape], p \in BOOLEAN :
         /\ wire' = FlattenSeq([i \in 1 .. n |-> Message(conn', i, m[i])])
         /\ patient' = p
         /\ orderly' = (orderly /\ p /\ \A i \in 1 .. n : m[i].form = "whole")
  BY <1>0
<1>2. /\ pc = "idle" /\ ~stop /\ conn' = conn + 1 /\ answers' = << >>
      /\ pc' = "read" /\ buf' = buf /\ conn \in Nat /\ sent \in Int /\ Served
  BY DEF Take, IInv
<1>3. n \in Nat
  BY <1>2, BoundsAssumption
<1>4. \A i \in 1 .. n : Whole(m[i])
  BY <1>1 DEF Whole
<1>5. Stream(wire', conn', 1)
  BY <1>1, <1>2, <1>3, <1>4, FlattenedStream
<1>6. buf' = << >>
  BY <1>2 DEF Served
<1>7. /\ wire' \in Seq(Tokens) /\ << >> \in Seq(Tokens) /\ << >> \o wire' = wire'
      /\ Len(<< >>) = 0 /\ DOMAIN << >> = {}
  <2>1. wire' \in Seq(Tokens)
    BY <1>5 DEF Stream
  <2> QED
    BY <2>1, ConcatEmptySeq, EmptySeq
<1>8. ReadOK'
  BY <1>2, <1>5, <1>6, <1>7 DEF ReadOK
<1>9. AnswersOK' /\ patient' = TRUE
  BY <1>1, <1>2, <1>7 DEF AnswersOK
<1> QED
  BY <1>2, <1>8, <1>9 DEF Served

LEMMA PullKeeps == ASSUME IInv, orderly, Pull PROVE Served'
<1>1. PICK k \in 1 .. Arrived :
         /\ buf' = buf \o SubSeq(wire, 1, k)
         /\ wire' = SubSeq(wire, k + 1, Len(wire))
  BY DEF Pull
<1>2. /\ pc = "read" /\ pc' = pc /\ conn' = conn /\ answers' = answers
      /\ patient' = patient /\ conn \in Nat /\ Served
  BY DEF Pull, Reading, IInv, client
<1>3. ReadOK /\ AnswersOK /\ patient = TRUE
  BY <1>2 DEF Served
<1>4. /\ k \in Nat /\ 1 <= k /\ k <= Len(wire)
      /\ \A i \in 1 .. k : wire[i].of[2] <= Len(answers) + 1
  <2>1. /\ Arrived \in Nat /\ Arrived <= Len(wire)
        /\ \A i \in 1 .. Arrived : wire[i].of[2] <= Len(answers) + 1
    BY <1>3, NothingAhead
  <2>2. Len(wire) \in Nat
    BY <1>3, LenProperties DEF ReadOK
  <2> QED
    BY <2>1, <2>2
<1> DEFINE b == SubSeq(wire, 1, k)
           w == SubSeq(wire, k + 1, Len(wire))
<1>5. /\ buf \in Seq(Tokens) /\ wire \in Seq(Tokens)
      /\ b \in Seq(Tokens) /\ w \in Seq(Tokens) /\ Len(b) = k
      /\ \A i \in 1 .. k : b[i] = wire[i]
      /\ b \o w = wire
  <2>1. buf \in Seq(Tokens) /\ wire \in Seq(Tokens)
    BY <1>3 DEF ReadOK
  <2>2. Len(wire) \in Nat /\ DOMAIN wire = 1 .. Len(wire)
    BY <2>1, LenProperties
  <2>3. /\ b \in Seq(Tokens) /\ Len(b) = k /\ \A i \in 1 .. k : b[i] = wire[i]
    <3>1. \A i \in 1 .. k : wire[i] \in Tokens
      BY <1>4, <2>1, <2>2, ElementOfSeq
    <3> QED
      BY <1>4, <3>1, SubSeqProperties
  <2>4. w \in Seq(Tokens) /\ Len(w) = Len(wire) - k
        /\ \A i \in 1 .. Len(wire) - k : w[i] = wire[k + i]
    BY <1>4, <2>1, <2>2, RestOfSeq
  <2> HIDE DEF b, w
  <2>5. b \o w \in Seq(Tokens) /\ Len(b \o w) = Len(wire)
        /\ \A i \in 1 .. Len(wire) : (b \o w)[i] = wire[i]
    <3>1. /\ b \o w \in Seq(Tokens) /\ Len(b \o w) = Len(b) + Len(w)
          /\ \A i \in 1 .. Len(b) + Len(w) :
                (b \o w)[i] = IF i <= Len(b) THEN b[i] ELSE w[i - Len(b)]
      BY <2>3, <2>4, ConcatProperties
    <3>2. ASSUME NEW i \in 1 .. Len(wire) PROVE (b \o w)[i] = wire[i]
      <4>1. i \in 1 .. Len(b) + Len(w)
        BY <1>4, <2>2, <2>3, <2>4
      <4>2. CASE i <= k
        <5>1. i \in 1 .. k
          BY <2>2, <4>2
        <5> QED
          BY <2>3, <3>1, <4>1, <4>2, <5>1
      <4>3. CASE ~(i <= k)
        <5>1. i - k \in 1 .. Len(wire) - k /\ k + (i - k) = i
          BY <1>4, <2>2, <4>3
        <5>2. (b \o w)[i] = w[i - k] /\ w[i - k] = wire[k + (i - k)]
          BY <2>3, <2>4, <3>1, <4>1, <4>3, <5>1
        <5> QED
          BY <5>1, <5>2
      <4> QED
        BY <4>2, <4>3
    <3>3. Len(b \o w) = Len(wire)
      BY <1>4, <2>2, <2>3, <2>4, <3>1
    <3> QED
      BY <3>1, <3>2, <3>3
  <2> QED
    BY <2>1, <2>3, <2>4, <2>5, SeqEqual
<1> HIDE DEF b, w
<1>6. buf' \o wire' = buf \o wire
  <2>1. (buf \o b) \o w = buf \o (b \o w)
    <3>1. buf \in Seq(Tokens) /\ b \in Seq(Tokens) /\ w \in Seq(Tokens)
      BY <1>5
    <3> QED
      BY <3>1, ConcatAssociative
  <2> QED
    BY <1>1, <1>5, <2>1 DEF b, w
<1>7. /\ buf' \in Seq(Tokens) /\ wire' \in Seq(Tokens)
      /\ \A i \in DOMAIN buf' : buf'[i].of[2] <= Len(answers) + 1
  <2>1. buf' = buf \o b /\ wire' = w
    BY <1>1 DEF b, w
  <2>2. ASSUME NEW i \in DOMAIN (buf \o b)
        PROVE  (buf \o b)[i].of[2] <= Len(answers) + 1
    <3>1. CASE i \in DOMAIN buf
      <4>1. (buf \o b)[i] = buf[i]
        BY <1>5, <3>1, ConcatPlaces
      <4> QED
        BY <1>3, <3>1, <4>1 DEF ReadOK
    <3>2. CASE i - Len(buf) \in DOMAIN b /\ i = Len(buf) + (i - Len(buf))
      <4> DEFINE j == i - Len(buf)
      <4>1. j \in DOMAIN b /\ i = Len(buf) + j
        BY <3>2
      <4> HIDE DEF j
      <4>2. (buf \o b)[i] = b[j] /\ DOMAIN b = 1 .. Len(b)
        BY <1>5, <4>1, ConcatPlaces
      <4> QED
        BY <1>4, <1>5, <4>1, <4>2
    <3> QED
      BY <1>5, <3>1, <3>2, ConcatPlaces
  <2> QED
    BY <1>5, <2>1, <2>2, ConcatPlaces
<1>8. ReadOK'
  BY <1>2, <1>3, <1>6, <1>7 DEF ReadOK
<1> QED
  BY <1>2, <1>3, <1>8 DEF Served, AnswersOK

(* The handler takes what is missing of the body, or closes.               *)
LEMMA HandleKeeps == ASSUME IInv, orderly, Handle, orderly' PROVE Served'
<1> DEFINE h == buf[2]
           posts == RequestLine.posts
           rest == contentLen' - (Len(buf) - RequestLen)
           n == Len(answers) + 1
<1>1. pc = "read" /\ conn \in Nat /\ Served /\ ReadOK /\ AnswersOK /\ patient = TRUE
  BY DEF Handle, IInv, Served
<1>2. /\ RequestLen = 2 /\ 2 <= Len(buf) /\ Len(buf) <= 2 + Extent(h)
      /\ buf[1] \in Starts /\ buf[1].of = <<conn, n>> /\ h \in Ends
  BY <1>1, HeadFound DEF Handle
<1>3. /\ requestLen' = 2 /\ contentLen' = ContentLen(posts, h.length)
      /\ answers' = Append(answers, <<conn, n>>)
      /\ buf' = buf /\ conn' = conn /\ patient' = patient /\ config' = config
  BY <1>2 DEF Handle, RequestLine, HeadersEnd
<1>4. PICK x \in RepliesTo(posts, contentLen' # -1) :
         \E r \in x.any, k \in 0 .. Arrived :
            /\ r.body = "left" => k = 0
            /\ r.body = "read" => k = IF rest > 0 THEN rest ELSE 0
            /\ r.body = "cut"  => rest > 0 /\ k <= rest
            /\ wire' = SubSeq(wire, k + 1, Len(wire))
            /\ orderly' = (orderly /\ (rest <= k \/ ~config.keepAlive))
            /\ pc' = IF r.awaits THEN "program" ELSE "sending"
  BY Zenon DEF Handle
<1> HIDE DEF rest
<1>5. PICK r \in x.any, k \in 0 .. Arrived :
            /\ r.body = "left" => k = 0
            /\ r.body = "read" => k = IF rest > 0 THEN rest ELSE 0
            /\ r.body = "cut"  => rest > 0 /\ k <= rest
            /\ wire' = SubSeq(wire, k + 1, Len(wire))
            /\ rest <= k \/ ~config.keepAlive
            /\ pc' = IF r.awaits THEN "program" ELSE "sending"
  BY <1>4
<1>6. /\ Len(buf) \in Nat /\ Len(wire) \in Nat /\ Len(answers) \in Nat
      /\ buf \in Seq(Tokens) /\ wire \in Seq(Tokens)
      /\ h.length \in Int /\ Extent(h) \in Nat
  BY <1>1, <1>2, LenProperties, TokensPlain DEF ReadOK, AnswersOK
<1>7. /\ contentLen' \in Int
      /\ contentLen' >= 0 => contentLen' = Extent(h)
      /\ contentLen' < 0 => contentLen' = -1 /\ Extent(h) = 0
  <2> HIDE DEF h, posts
  <2>1. contentLen' = IF h.length >= 0 THEN h.length ELSE IF posts THEN -1 ELSE 0
    BY <1>3 DEF ContentLen
  <2>2. Extent(h) = IF h.length > 0 THEN h.length ELSE 0
    BY DEF Extent
  <2> QED
    BY <1>6, <2>1, <2>2
<1>8. k \in Nat /\ k <= Len(wire)
  <2>1. Arrived \in Nat /\ Arrived <= Len(wire)
    BY <1>1, NothingAhead
  <2> QED
    BY <1>6, <2>1
<1>9. ASSUME config.keepAlive PROVE Len(buf) + k = 2 + Extent(h)
  <2> DEFINE l == Len(buf)
             e == Extent(h)
             m == contentLen'
  <2>1. r.body \in {"left", "read", "cut"}
    BY <1>4, <1>5, RepliesSay DEF RepliesTo
  <2>2. \/ k = 0 \/ k = IF rest > 0 THEN rest ELSE 0
        \/ rest > 0 /\ k <= rest
    BY <1>5, <2>1
  <2>3. /\ l \in Nat /\ e \in Nat /\ m \in Int /\ k \in Nat /\ 2 <= l /\ l <= 2 + e
        /\ m >= 0 => m = e
        /\ m < 0 => m = -1 /\ e = 0
        /\ rest = m - (l - 2) /\ rest <= k
    BY <1>2, <1>5, <1>6, <1>7, <1>8, <1>9 DEF rest
  <2> HIDE DEF l, e, m
  <2>4. m = e \/ (m = -1 /\ e = 0)
    BY <2>3
  <2>5. ASSUME m = e PROVE l + k = 2 + e
    BY <2>2, <2>3, <2>5
  <2>6. ASSUME m = -1, e = 0 PROVE l + k = 2 + e
    <3>1. l = 2 /\ rest = -1
      BY <2>3, <2>6
    <3> QED
      BY <2>2, <2>3, <2>6, <3>1
  <2> QED
    BY <2>4, <2>5, <2>6 DEF l, e
<1>10. /\ wire' \in Seq(Tokens) /\ Len(wire') = Len(wire) - k
       /\ \A i \in 1 .. Len(wire) - k : wire'[i] = wire[k + i]
  BY <1>5, <1>6, <1>8, RestOfSeq
<1>11. ASSUME config.keepAlive PROVE Stream(wire', conn, n + 1)
  <2> DEFINE s == buf \o wire
             e == 2 + Extent(h)
  <2>1. /\ Len(s) = Len(buf) + Len(wire)
        /\ DOMAIN buf = 1 .. Len(buf) /\ DOMAIN wire = 1 .. Len(wire)
        /\ \A i \in DOMAIN buf : s[i] = buf[i]
        /\ \A i \in DOMAIN wire : s[Len(buf) + i] = wire[i]
    BY <1>6, ConcatPlaces
  <2>2. Stream(s, conn, n) /\ n \in Nat
    BY <1>1, <1>6 DEF ReadOK
  <2>3. Len(buf) + k = e
    BY <1>9, <1>11
  <2>4. s # << >> /\ s[2] = h
    <3>1. 2 \in DOMAIN buf
      BY <1>2, <1>6, <2>1
    <3>2. Len(s) > 0
      BY <1>2, <1>6, <2>1
    <3> QED
      BY <2>1, <3>1, <3>2, EmptySeq
  <2> HIDE DEF s, n, h
  <2>5. e = 2 + Extent(s[2])
    BY <2>4
  <2> HIDE DEF e
  <2>6. Len(wire') = Len(s) - e
    BY <1>6, <1>8, <1>10, <2>1, <2>3
  <2>7. ASSUME NEW i \in 1 .. Len(wire') PROVE wire'[i] = s[e + i]
    <3>1. i \in 1 .. Len(wire) - k
      BY <1>10
    <3>2. wire'[i] = wire[k + i] /\ k + i \in DOMAIN wire /\ e + i = Len(buf) + (k + i)
      BY <1>6, <1>8, <1>10, <2>1, <2>3, <3>1
    <3> QED
      BY <2>1, <3>2
  <2> DEFINE w == wire'
  <2>8. Behind(w, s, e)
    <3>1. w \in Seq(Tokens) /\ DOMAIN w = 1 .. Len(w)
      BY <1>10, LenProperties
    <3> QED
      BY <2>6, <2>7, <3>1 DEF Behind
  <2> HIDE DEF w
  <2>9. Stream(w, conn, n + 1)
    <3>1. conn \in Nat /\ n \in Nat /\ Stream(s, conn, n) /\ s # << >> /\ e = 2 + Extent(s[2])
      BY <1>1, <2>2, <2>4, <2>5
    <3> QED
      BY <2>8, <3>1, StreamRest
  <2> QED
    BY <2>9 DEF w
<1>12. /\ answers' \in Seq(Nat \X Nat) /\ Len(answers') = n
       /\ \A i \in DOMAIN answers' : answers'[i] = <<conn, i>>
  <2>1. answers \in Seq(Nat \X Nat) /\ <<conn, n>> \in Nat \X Nat
    BY <1>1, <1>6 DEF AnswersOK
  <2>2. /\ Append(answers, <<conn, n>>) \in Seq(Nat \X Nat)
        /\ Len(Append(answers, <<conn, n>>)) = n
        /\ \A i \in 1 .. Len(answers) : Append(answers, <<conn, n>>)[i] = answers[i]
        /\ Append(answers, <<conn, n>>)[n] = <<conn, n>>
    BY <2>1, AppendProperties
  <2>3. DOMAIN answers = 1 .. Len(answers) /\ DOMAIN answers' = 1 .. n
    BY <1>3, <2>1, <2>2, LenProperties
  <2>4. ASSUME NEW i \in DOMAIN answers' PROVE answers'[i] = <<conn, i>>
    <3>1. i = n \/ i \in DOMAIN answers
      BY <1>6, <2>3
    <3> QED
      BY <1>1, <1>3, <2>2, <2>3, <3>1 DEF AnswersOK
  <2> QED
    BY <1>3, <2>2, <2>4
<1>13. AnswersOK'
  BY <1>3, <1>12 DEF AnswersOK
<1>14. HandledOK'
  <2>1. contentLen' >= 0 => Len(buf) <= 2 + contentLen'
    BY <1>2, <1>6, <1>7
  <2> HIDE DEF n
  <2> QED
    BY <1>3, <1>6, <1>7, <1>11, <1>12, <2>1 DEF HandledOK
<1>15. pc' \in {"program", "sending"}
  BY <1>5
<1> QED
  BY <1>1, <1>3, <1>13, <1>14, <1>15 DEF Served

(* All of the buffer was processed, so all of it is discarded.             *)
LEMMA FinishKeeps == ASSUME IInv, orderly, Finish PROVE Served'
<1>1. /\ pc = "handled" /\ conn \in Nat /\ AnswersOK /\ HandledOK /\ patient = TRUE
  BY DEF Finish, IInv, Served
<1>2. /\ buf' = SubSeq(buf, DiscardLen + 1, Len(buf))
      /\ wire' = wire /\ conn' = conn /\ answers' = answers /\ patient' = patient
      /\ config' = config
      /\ pc' = "read" => config.keepAlive
      /\ pc' \in {"read", "close"}
  BY DEF Finish, ShouldKeepAlive, client
<1>3. /\ buf \in Seq(Tokens) /\ Len(buf) \in Nat /\ requestLen \in Nat /\ contentLen \in Int
      /\ contentLen >= 0 => Len(buf) <= requestLen + contentLen
  BY <1>1, LenProperties DEF HandledOK
<1>4. DiscardLen = Len(buf)
  BY <1>3 DEF DiscardLen
<1>5. buf' = << >>
  <2>1. Len(buf) + 1 \in Int /\ Len(buf) \in Int /\ Len(buf) < Len(buf) + 1
    BY <1>3
  <2> QED
    BY <1>2, <1>4, <2>1, SubSeqEmpty
<1>6. ASSUME pc' = "read" PROVE ReadOK'
  <2>1. Stream(wire, conn, Len(answers) + 1)
    BY <1>1, <1>2, <1>6 DEF HandledOK
  <2>2. wire \in Seq(Tokens)
    BY <2>1 DEF Stream
  <2>3. << >> \o wire = wire /\ << >> \in Seq(Tokens) /\ DOMAIN << >> = {}
    BY <2>2, ConcatEmptySeq, EmptySeq
  <2> QED
    BY <1>2, <1>5, <2>1, <2>2, <2>3 DEF ReadOK
<1> QED
  BY <1>1, <1>2, <1>5, <1>6 DEF Served, AnswersOK

(* A client that has closed has had all its answers.                       *)
LEMMA EndKeeps == ASSUME IInv, orderly, EndOfFile PROVE Served'
<1>1. /\ pc = "read" /\ RequestLen = 0 /\ wire = << >> /\ pc' = "close"
      /\ conn \in Nat /\ AnswersOK /\ ReadOK /\ patient = TRUE
  BY DEF EndOfFile, Reading, IInv, Served
<1>2. UNCHANGED <<buf, stop, conn, answers, patient>>
  BY DEF EndOfFile, client
<1>3. buf = << >>
  <2>1. buf \in Seq(Tokens) /\ buf \o wire = buf
    BY <1>1, ConcatEmptySeq DEF ReadOK
  <2>2. Stream(buf, conn, Len(answers) + 1) /\ Len(answers) + 1 \in Nat
    BY <1>1, <2>1, LenProperties DEF ReadOK, AnswersOK
  <2>3. Len(buf) <= 1 /\ Len(buf) \in Nat
    BY <1>1, <2>1, HeadFound, LenProperties
  <2>4. ASSUME buf # << >> PROVE FALSE
    <3>1. Extent(buf[2]) \in Nat /\ 2 + Extent(buf[2]) <= Len(buf)
      BY <1>1, <2>2, <2>4, FirstMessage
    <3> QED
      BY <2>3, <3>1
  <2> QED
    BY <2>4
<1> QED
  BY <1>1, <1>2, <1>3 DEF Served, AnswersOK

(* Orderly clients are never refused.                                      *)
LEMMA NeverRefused ==
    ASSUME IInv, orderly, TooLarge \/ Malformed \/ BadRequest \/ VersionNotSupported
    PROVE  FALSE
<1>1. pc = "read" /\ conn \in Nat /\ AnswersOK /\ ReadOK
  BY DEF TooLarge, Malformed, BadRequest, VersionNotSupported, IInv, Served
<1>2. Len(buf) \in Nat
  BY <1>1, LenProperties DEF ReadOK
<1>3. CASE RequestLen = 0 /\ Len(buf) <= 1
  BY <1>2, <1>3, SizeAssumption DEF TooLarge, Malformed, BadRequest, VersionNotSupported
<1>4. CASE RequestLen = 2 /\ buf[1] \in Starts
  <2>1. buf[1].part = "start"
    BY <1>4, TokensPlain DEF Tokens
  <2> QED
    BY <1>4, <2>1 DEF TooLarge, Malformed, BadRequest, VersionNotSupported, RequestLine
<1> QED
  BY <1>1, <1>3, <1>4, HeadFound

LEMMA InitServed == Init => IInv
<1> SUFFICES ASSUME Init PROVE IInv
  OBVIOUS
<1>1. << >> \in Seq(Nat \X Nat) /\ DOMAIN << >> = {}
  BY EmptySeq
<1> QED
  BY <1>1 DEF Init, IInv, Served, AnswersOK

LEMMA NextServed == IInv /\ [Next]_vars => IInv'
<1> SUFFICES ASSUME IInv, [Next]_vars PROVE IInv'
  OBVIOUS
<1>1. conn' \in Nat /\ sent' \in Int
  <2>1. conn \in Nat /\ sent \in Int
    BY DEF IInv
  <2>2. CASE Take
    <3>1. PICK n \in 0 .. MaxMsgs - sent : sent' = sent + n
      BY <2>2 DEF Take
    <3> QED
      BY <2>1, <2>2, <3>1 DEF Take
  <2>3. CASE ~Take
    <3>1. UNCHANGED <<conn, sent>>
      BY <2>3 DEF Next, Worker, Stop, Pull, EndOfFile, GiveUp, TooLarge, Malformed, BadRequest,
                  VersionNotSupported, Handle, Finish, CloseConnection, Leave, Broken,
                  ProgramEnds, Taken, vars, client
    <3> QED
      BY <2>1, <3>1
  <2> QED
    BY <2>2, <2>3
<1>2. ASSUME orderly' PROVE Served'
  <2>1. orderly /\ ~Broken
    BY <1>2 DEF Next, Worker, Stop, Take, Pull, EndOfFile, GiveUp, TooLarge, Malformed,
                BadRequest, VersionNotSupported, Handle, Finish, CloseConnection, Leave, Broken,
                ProgramEnds, Taken, vars
  <2>2. Served
    BY <2>1 DEF IInv
  <2>3. CASE Take
    BY <1>2, <2>1, <2>3, TakeKeeps
  <2>4. CASE Pull
    BY <2>1, <2>4, PullKeeps
  <2>5. CASE Handle
    BY <1>2, <2>1, <2>5, HandleKeeps
  <2>6. CASE Finish
    BY <2>1, <2>6, FinishKeeps
  <2>7. CASE EndOfFile
    BY <2>1, <2>7, EndKeeps
  <2>8. CASE TooLarge \/ Malformed \/ BadRequest \/ VersionNotSupported
    BY <2>1, <2>8, NeverRefused
  <2>9. CASE Stop \/ GiveUp \/ Leave \/ CloseConnection
    BY <2>2, <2>9 DEF Stop, GiveUp, GivesUp, Leave, CloseConnection, client, fields, Served,
                      AnswersOK, ReadOK, HandledOK
  <2>10. CASE ProgramEnds \/ Taken \/ UNCHANGED vars
    BY <2>2, <2>10 DEF ProgramEnds, Taken, vars, client, fields, Served, AnswersOK, ReadOK, HandledOK
  <2> QED
    BY <2>1, <2>3, <2>4, <2>5, <2>6, <2>7, <2>8, <2>9, <2>10 DEF Next, Worker
<1> QED
  BY <1>1, <1>2 DEF IInv

(* Whatever recv() returns at a time, clients that finish their requests   *)
(* and wait get the answers to their own, one each and in order, and the   *)
(* next client finds nothing of theirs in the buffer of the worker.        *)
THEOREM OrderlyCorrect == Spec => []OrderlyServed
<1>1. IInv => OrderlyServed
  BY DEF IInv, Served, AnswersOK, OrderlyServed
<1> QED
  BY InitServed, NextServed, <1>1, PTL DEF Spec
=============================================================================
