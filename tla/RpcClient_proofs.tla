--------------------------- MODULE RpcClient_proofs ---------------------------
(***************************************************************************)
(* Safety of the Java RPC client for every set of calls, every number of   *)
(* connections made and lost, and every number the sequence wraps at: a    *)
(* call sleeps for a known cause only, and it is settled once.             *)
(***************************************************************************)
EXTENDS RpcClient, SequenceTheorems, WellFoundedInduction, TLAPS

(* Places of a thread: before its message has a number, while it sends it, *)
(* and what only a call, or only a reader, does.                           *)
Sending  == {"put", "check", "make", "connect", "start", "write", "unsent"}
Entering == {"check", "make", "connect", "start", "write", "unsent", "sent",
             "wait", "done"}             \* of a call that is in _msglist
Calling  == {"number", "numbered", "sent", "wait", "done"} \union Sending
Reading  == {"number", "numbered", "read", "deliver"} \union Sending
Places   == Calling \union Reading \union {"none", "begin", "lost", "forget", "ended"}

(* What the text may hold: answers, each to a call that has its number, and*)
(* calls the server has made.                                              *)
Numbered(ret)  == {m \in [ret : {ret}, num : Number, call : Call] :
                      num[m.call] = m.num}
ServerCalls    == [ret : {FALSE}, num : 1 .. reversed, call : {Nil}]
Messages       == Numbered(TRUE) \union ServerCalls
Deliveries     == [to : Call \union {Nil, Reply}, msg : Numbered(TRUE)]
Hands          == Messages \union Deliveries \union {Nil}
Words          == [part : {"gap", "begin", "name", "close"}, msg : Messages \union {Nil}]

TypeOK ==
    /\ kind \in Kinds
    /\ pc \in [Thread -> Places]
    /\ got \in [Thread -> 0 .. MaxSeq - 1] /\ num \in [Thread -> Nat]
    /\ result \in [Call -> Call \union {Nil}] /\ lost \in [Call -> BOOLEAN]
    /\ early \subseteq Call
    /\ seq \in Nat
    /\ msglist \in [Number -> Call \union {Nil, Reply}]
    /\ sock \in 0 .. MaxSocks /\ made \in 0 .. MaxSocks /\ started \in Nat
    /\ stream \in [Reader -> 0 .. MaxSocks]
    /\ hand \in [Reader -> Hands]
    /\ reversed \in Nat

TextOK ==
    /\ requests \in [Sock -> SUBSET Numbered(FALSE)]
    /\ incoming \in [Sock -> Seq(Words)]
    /\ strbuf \in [Reader -> Seq(Words)]

(* A reader that reads has a stream, and what it has in hand is what it    *)
(* was dispatched.                                                         *)
ReadersOK ==
    \A r \in Reader :
        /\ r > started => pc[r] = "none"
        /\ pc[r] \in Reading => stream[r] \in Sock
        /\ pc[r] \in {"number", "numbered"} => hand[r] \in ServerCalls
        /\ pc[r] \in Sending => num[r] \in 1 .. reversed
        /\ pc[r] = "deliver" => hand[r] \in Deliveries

CallsOK ==
    \A c \in Call :
        /\ pc[c] \in Calling
        /\ IF pc[c] \in {"number", "numbered"} THEN num[c] = 0
           ELSE num[c] \in Number
        /\ pc[c] = "wait" => kind[c] # "async"

(* Where the right to settle a call is: nowhere before it is entered, then *)
(* in its entry of _msglist or with one reader, until it is used up.       *)
Delivering(r, c) == pc[r] = "deliver" /\ hand[r].to = c
Settling(c) == result[c] # Nil \/ lost[c]

Right(c) ==
    /\ \A n \in Number : msglist[n] = c => n = num[c] /\ pc[c] \in Entering
    /\ pc[c] \notin Entering => ~Settling(c)
    /\ \A r \in Reader : Delivering(r, c) =>
          /\ pc[c] \in Entering /\ ~Settling(c)
          /\ \A n \in Number : msglist[n] # c
          /\ \A q \in Reader : Delivering(q, c) => q = r
          /\ hand[r].msg.num = num[c]
    /\ \A n \in Number : msglist[n] = c => ~Settling(c)
    /\ result[c] \in {Nil, c} \/ Shared(c)
    /\ ~(result[c] # Nil /\ lost[c])

(* A call that has entered itself and has not been told is entered, with a *)
(* reader, or a known cause keeps it asleep.                               *)
Asleep(c) == pc[c] \in Entering \ {"done"} /\ kind[c] # "async"
Found(c) ==
    Asleep(c) => \/ msglist[num[c]] = c
                 \/ \E r \in Reader : Delivering(r, c)
                 \/ c \in early
                 \/ Shared(c)

Pairing == \A c \in Call : Right(c) /\ Found(c)

IInv == TypeOK /\ TextOK /\ ReadersOK /\ CallsOK /\ Pairing
-----------------------------------------------------------------------------
(* The text of a stream: what is read of it, framed and left over consists *)
(* of the words that came, and a message is one of theirs.                 *)
LEMMA MinOfSome ==
    ASSUME NEW S \in SUBSET Nat, S # {}
    PROVE  Min(S) \in S
<1> DEFINE below == {p \in Nat \X Nat : p[1] < p[2]}
<1>1. below = OpToRel(<, Nat)
  BY Zenon DEF OpToRel
<1>2. IsWellFoundedOn(below, Nat)
  BY <1>1, NatLessThanWellFounded, Zenon
<1>3. \A x, y \in Nat : y < x => <<y, x>> \in below
  OBVIOUS
<1> HIDE DEF below
<1>4. PICK x \in S : \A y \in S : <<y, x>> \notin below
  BY <1>2, WFMin
<1>5. ASSUME NEW y \in S PROVE x <= y
  <2>1. x \in Nat /\ y \in Nat /\ ~(y < x)
    BY <1>3, <1>4
  <2> QED
    BY <2>1
<1> QED
  BY <1>5 DEF Min

LEMMA CutText ==
    ASSUME NEW W, NEW text \in Seq(W), NEW i \in Nat \ {0}, NEW k \in Nat,
           k <= Len(text)
    PROVE  SubSeq(text, i, k) \in Seq(W)
<1>1. \A j \in i .. k : j \in 1 .. Len(text)
  BY LenProperties
<1>2. \A j \in i .. k : text[j] \in W
  BY <1>1, ElementOfSeq
<1> QED
  BY <1>2, SubSeqProperties

LEMMA FramedText ==
    ASSUME NEW W, NEW text \in Seq(W)
    PROVE  /\ Framed(text).rest \in Seq(W)
           /\ Framed(text).msg \in {w.msg : w \in W} \union {Nil}
<1> DEFINE first == Min(Begins(text))
           last  == Min(Closes(text))
           cut   == SubSeq(text, first, Len(text))
           out(m, rest, throws) == [msg |-> m, rest |-> rest, throws |-> throws]
<1>1. Len(text) \in Nat /\ DOMAIN text = 1 .. Len(text)
  BY LenProperties
<1>2. Begins(text) # {} => first \in 1 .. Len(text)
  <2>1. Begins(text) \subseteq 1 .. Len(text)
    BY <1>1 DEF Begins
  <2> QED
    BY <1>1, <2>1, MinOfSome
<1>3. Closes(text) # {} => last \in 1 .. Len(text)
  <2>1. Closes(text) \subseteq 1 .. Len(text)
    BY <1>1 DEF Closes
  <2> QED
    BY <1>1, <2>1, MinOfSome
<1>4. ASSUME NEW s \in Seq(W) PROVE Unmarshall(s) \in {w.msg : w \in W} \union {Nil}
  <2>1. Unmarshall(s) = Nil \/ (Len(s) >= 3 /\ Unmarshall(s) = s[2].msg)
    BY Zenon DEF Unmarshall
  <2>2. Len(s) >= 3 => s[2] \in W
    BY LenProperties, ElementOfSeq
  <2> QED
    BY <2>1, <2>2
<1>5. << >> \in Seq(W)
  BY EmptySeq
<1>6. Closes(text) # {} => SubSeq(text, last + 1, Len(text)) \in Seq(W)
  BY <1>1, <1>3, CutText
<1>7. Begins(text) # {} => cut \in Seq(W) /\ Len(cut) \in Nat
  BY <1>1, <1>2, CutText, LenProperties
<1>8. Begins(text) # {} /\ Closes(text) # {} /\ ~(last > Len(cut)) =>
         SubSeq(cut, 1, last) \in Seq(W) /\ SubSeq(cut, last + 1, Len(cut)) \in Seq(W)
  <2> HIDE DEF cut, first, last
  <2> QED
    BY <1>1, <1>3, <1>7, CutText
<1>9. \/ Framed(text) = out(Nil, << >>, FALSE)
      \/ Closes(text) # {} /\ Framed(text) = out(Nil, SubSeq(text, last + 1, Len(text)), FALSE)
      \/ Begins(text) # {} /\ Framed(text) = out(Nil, cut, FALSE)
      \/ Begins(text) # {} /\ Framed(text) = out(Nil, cut, TRUE)
      \/ /\ Begins(text) # {} /\ Closes(text) # {} /\ ~(last > Len(cut))
         /\ Framed(text) = out(Unmarshall(SubSeq(cut, 1, last)),
                               SubSeq(cut, last + 1, Len(cut)), FALSE)
  BY Zenon DEF Framed
<1>10. \/ Framed(text).msg = Nil /\ Framed(text).rest = << >>
       \/ /\ Closes(text) # {} /\ Framed(text).msg = Nil
          /\ Framed(text).rest = SubSeq(text, last + 1, Len(text))
       \/ Begins(text) # {} /\ Framed(text).msg = Nil /\ Framed(text).rest = cut
       \/ /\ Begins(text) # {} /\ Closes(text) # {} /\ ~(last > Len(cut))
          /\ Framed(text).msg = Unmarshall(SubSeq(cut, 1, last))
          /\ Framed(text).rest = SubSeq(cut, last + 1, Len(cut))
  <2> HIDE DEF first, last, cut
  <2> QED
    BY <1>9
<1> HIDE DEF first, last, cut, out
<1> QED
  BY <1>4, <1>5, <1>6, <1>7, <1>8, <1>10
-----------------------------------------------------------------------------
(* What only grows: numbers are given once, and the server's calls count.  *)
LEMMA Names ==
    /\ \A c \in Call : c \notin Reader /\ c \notin Nat /\ c # Nil /\ c # Reply
    /\ Thread = Call \union Reader /\ Call \cap Reader = {}
    /\ MaxSeq \in Nat \ {0} /\ MaxSocks \in Nat /\ Reader = 1 .. MaxSocks
    /\ Number = 1 .. MaxSeq /\ 0 \notin Number
BY NamesAssumption, BoundsAssumption DEF Thread, Reader, Sock, Number

Grows ==
    /\ UNCHANGED kind
    /\ \A c \in Call : num[c] # 0 => num'[c] = num[c]
    /\ reversed' \in Nat /\ reversed <= reversed'

LEMMA NextGrows == TypeOK /\ CallsOK /\ [Next]_vars => Grows
<1> SUFFICES ASSUME TypeOK, CallsOK, [Next]_vars PROVE Grows
  OBVIOUS
<1> USE DEF TypeOK, Grows
<1>1. CASE UNCHANGED <<kind, num, reversed>>
  BY <1>1
<1>2. ASSUME NEW t \in Thread, PutSequence(t) PROVE Grows
  <2>1. t \in Call => num[t] = 0
    BY <1>2 DEF PutSequence, CallsOK
  <2>2. UNCHANGED <<kind, reversed>> /\ \A u \in Thread : u # t => num'[u] = num[u]
    BY <1>2 DEF PutSequence, calls, network
  <2>3. \A c \in Call : num[c] # 0 => c # t /\ c \in Thread
    BY <2>1, Names
  <2> QED
    BY <2>2, <2>3
<1>3. ASSUME NEW s \in Sock, Reverse(s) PROVE Grows
  BY <1>3 DEF Reverse, threads, calls
<1>4. ASSUME NEW t \in Thread, Send(t), ~PutSequence(t) PROVE UNCHANGED <<kind, num, reversed>>
  BY <1>4 DEF Send, GetSequence, Put, CheckSock, MakeSock, Connect, StartReader, Write,
              TakeBack, calls, network
<1>5. ASSUME NEW c \in Call, BeginWait(c) \/ Timeout(c)
      PROVE  UNCHANGED <<kind, num, reversed>>
  BY <1>5 DEF BeginWait, Timeout, calls, network
<1>6. ASSUME NEW r \in Reader, Run(r) PROVE UNCHANGED <<kind, num, reversed>>
  BY <1>6 DEF Run, BeginRead, Read, Deliver, EndOfStream, Fail, Forget, calls, network
<1>7. ASSUME Close \/ ClearSock \/ Join PROVE UNCHANGED <<kind, num, reversed>>
  BY <1>7 DEF Close, ClearSock, Join, threads, calls, network
<1>8. ASSUME NEW s \in Sock, Answer(s) \/ Lose(s) PROVE UNCHANGED <<kind, num, reversed>>
  BY <1>8 DEF Answer, Lose, threads, calls
<1>9. CASE UNCHANGED vars
  BY <1>9 DEF vars, threads, calls, network
<1> QED
  BY <1>1, <1>2, <1>3, <1>4, <1>5, <1>6, <1>7, <1>8, <1>9 DEF Next

(* So what may be in the text, and in a reader's hand, stays possible, and *)
(* a number that two messages share stays shared.                          *)
LEMMA Kept ==
    ASSUME TypeOK, Grows
    PROVE  /\ \A ret : Numbered(ret) \subseteq Numbered(ret)'
           /\ ServerCalls \subseteq ServerCalls' /\ Words \subseteq Words'
           /\ Seq(Words) \subseteq Seq(Words)'
           /\ Deliveries \subseteq Deliveries' /\ Hands \subseteq Hands'
           /\ \A c \in Call : num[c] # 0 /\ Shared(c) => Shared(c)'
<1>1. \A ret : Numbered(ret) \subseteq Numbered(ret)'
  <2> SUFFICES ASSUME NEW ret, NEW m \in Numbered(ret) PROVE m \in Numbered(ret)'
    OBVIOUS
  <2>1. m \in [ret : {ret}, num : Number, call : Call] /\ num[m.call] = m.num
    BY DEF Numbered
  <2>2. m.call \in Call /\ num[m.call] # 0
    BY <2>1, Names
  <2> QED
    BY <2>1, <2>2 DEF Numbered, Grows
<1>2. ServerCalls \subseteq ServerCalls'
  <2>1. 1 .. reversed \subseteq 1 .. reversed'
    BY DEF Grows, TypeOK
  <2> QED
    BY <2>1 DEF ServerCalls
<1>3. Messages \subseteq Messages'
  BY <1>1, <1>2 DEF Messages
<1>4. Words \subseteq Words'
  BY <1>3 DEF Words
<1>5. Seq(Words) \subseteq Seq(Words)'
  <2> SUFFICES ASSUME NEW s \in Seq(Words) PROVE s \in Seq(Words')
    OBVIOUS
  <2>1. Len(s) \in Nat /\ s \in [1 .. Len(s) -> Words]
    BY LenProperties
  <2>2. s \in [1 .. Len(s) -> Words']
    BY <1>4, <2>1
  <2> HIDE DEF Words
  <2> QED
    BY <2>1, <2>2, SeqDef
<1>6. Deliveries \subseteq Deliveries' /\ Hands \subseteq Hands'
  BY <1>1, <1>3 DEF Deliveries, Hands
<1>7. ASSUME NEW c \in Call, num[c] # 0, Shared(c) PROVE Shared(c)'
  <2>1. num'[c] = num[c]
    BY <1>7 DEF Grows
  <2>2. CASE num[c] \in 1 .. reversed
    BY <2>1, <2>2 DEF Shared, Grows, TypeOK
  <2>3. ASSUME NEW d \in Call \ {c}, num[d] = num[c] PROVE Shared(c)'
    BY <1>7, <2>1, <2>3 DEF Shared, Grows
  <2> QED
    BY <1>7, <2>2, <2>3 DEF Shared
<1> QED
  BY <1>1, <1>2, <1>4, <1>5, <1>6, <1>7
-----------------------------------------------------------------------------
LEMMA InitType == Init => TypeOK /\ TextOK /\ ReadersOK /\ CallsOK
<1> SUFFICES ASSUME Init PROVE TypeOK /\ TextOK /\ ReadersOK /\ CallsOK
  OBVIOUS
<1>1. \A r \in Reader : r \in Nat /\ r > 0 /\ r \in Thread /\ r \notin Call
  BY Names
<1>2. /\ pc \in [Thread -> Places] /\ got \in [Thread -> 0 .. MaxSeq - 1]
      /\ num \in [Thread -> Nat]
  BY Names DEF Init, Places, Calling
<1>3. TypeOK
  BY <1>2, Names DEF Init, TypeOK, Hands
<1>4. TextOK
  BY EmptySeq DEF Init, TextOK
<1>5. ReadersOK
  BY <1>1 DEF Init, ReadersOK, Reading, Sending
<1>6. CallsOK
  BY Names DEF Init, CallsOK, Calling
<1> QED
  BY <1>3, <1>4, <1>5, <1>6

(* A call of the server that is read and a message that is found are of    *)
(* the text.                                                               *)
LEMMA ReadMessage ==
    ASSUME TypeOK, TextOK, ReadersOK, NEW r \in Reader, pc[r] = "read",
           NEW k \in 1 .. Len(incoming[stream[r]])
    PROVE  LET s == stream[r]
               f == Framed(strbuf[r] \o SubSeq(incoming[s], 1, k))
           IN  /\ s \in Sock
               /\ SubSeq(incoming[s], k + 1, Len(incoming[s])) \in Seq(Words)
               /\ f.rest \in Seq(Words) /\ f.msg \in Messages \union {Nil}
<1> DEFINE s == stream[r]
           read == strbuf[r] \o SubSeq(incoming[s], 1, k)
<1>1. s \in Sock
  BY DEF ReadersOK, Reading
<1>2. incoming[s] \in Seq(Words) /\ strbuf[r] \in Seq(Words)
  BY <1>1 DEF TextOK
<1>3. Len(incoming[s]) \in Nat
  BY <1>2, LenProperties
<1>4. /\ SubSeq(incoming[s], k + 1, Len(incoming[s])) \in Seq(Words)
      /\ SubSeq(incoming[s], 1, k) \in Seq(Words)
  BY <1>2, <1>3, CutText
<1>5. read \in Seq(Words)
  BY <1>2, <1>4, ConcatProperties
<1>6. Framed(read).rest \in Seq(Words)
      /\ Framed(read).msg \in {w.msg : w \in Words} \union {Nil}
  BY <1>5, FramedText
<1>7. {w.msg : w \in Words} \subseteq Messages \union {Nil}
  BY DEF Words
<1> QED
  BY <1>1, <1>4, <1>6, <1>7

LEMMA NextText ==
    TypeOK /\ TextOK /\ ReadersOK /\ CallsOK /\ [Next]_vars => TextOK'
<1> SUFFICES ASSUME TypeOK, TextOK, ReadersOK, CallsOK, [Next]_vars PROVE TextOK'
  OBVIOUS
<1>0. Grows /\ Numbered(FALSE) \subseteq Numbered(FALSE)' /\ Numbered(TRUE) \subseteq Numbered(TRUE)'
      /\ Seq(Words) \subseteq Seq(Words)' /\ Words \subseteq Words'
      /\ << >> \in Seq(Words)'
  BY NextGrows, Kept, EmptySeq
<1>1. ASSUME UNCHANGED <<requests, incoming, strbuf>> PROVE TextOK'
  BY <1>0, <1>1 DEF TextOK
<1>2. ASSUME NEW t \in Thread, Write(t) PROVE TextOK'
  <2>1. CASE UNCHANGED requests
    BY <1>1, <1>2, <2>1 DEF Write, readers
  <2>2. CASE /\ t \in Call /\ pc[t] = "write" /\ sock # 0
             /\ requests' = [requests EXCEPT ![sock] = @ \union {Request(t)}]
    <3>1. num[t] \in Number
      BY <2>2 DEF CallsOK
    <3>2. Request(t) \in Numbered(FALSE)
      BY <2>2, <3>1 DEF Request, Entry, Numbered
    <3>3. requests' \in [Sock -> SUBSET Numbered(FALSE)']
      BY <1>0, <2>2, <3>2 DEF TextOK
    <3>4. UNCHANGED <<incoming, strbuf>>
      BY <1>2 DEF Write, readers
    <3> QED
      BY <1>0, <3>3, <3>4 DEF TextOK
  <2> QED
    BY <1>2, <2>1, <2>2 DEF Write, Wanted
<1>3. ASSUME NEW r \in Reader, Read(r) PROVE TextOK'
  <2>1. PICK k \in 1 .. Len(incoming[stream[r]]) :
           /\ incoming' = [incoming EXCEPT ![stream[r]] = SubSeq(@, k + 1, Len(@))]
           /\ strbuf' = [strbuf EXCEPT ![r] =
                 Framed(strbuf[r] \o SubSeq(incoming[stream[r]], 1, k)).rest]
    BY <1>3 DEF Read
  <2>2. pc[r] = "read" /\ UNCHANGED requests
    BY <1>3 DEF Read
  <2>3. /\ incoming' \in [Sock -> Seq(Words)]
        /\ strbuf' \in [Reader -> Seq(Words)]
    BY <2>1, <2>2, ReadMessage DEF TextOK
  <2> QED
    BY <1>0, <2>2, <2>3 DEF TextOK
<1>4. ASSUME NEW r \in Reader, Forget(r) PROVE TextOK'
  BY <1>0, <1>4 DEF Forget, network, TextOK
<1>5. ASSUME NEW s \in Sock, NEW m \in Messages', Say(s, m),
             requests' \in [Sock -> SUBSET Numbered(FALSE)], UNCHANGED strbuf
      PROVE  TextOK'
  <2>1. Envelope(m) \in Seq(Words)'
    <3>1. /\ Gap \in Words' /\ [part |-> "begin", msg |-> m] \in Words'
          /\ [part |-> "name", msg |-> m] \in Words'
          /\ [part |-> "close", msg |-> m] \in Words'
      BY <1>5 DEF Words, Gap
    <3> HIDE DEF Words, Gap
    <3> QED
      BY <3>1 DEF Envelope
  <2>2. incoming[s] \in Seq(Words)'
    BY <1>0 DEF TextOK
  <2>3. incoming[s] \o Envelope(m) \in Seq(Words)'
    BY <2>1, <2>2, ConcatProperties
  <2>4. incoming' \in [Sock -> Seq(Words)']
    BY <1>0, <1>5, <2>3 DEF Say, TextOK
  <2> QED
    BY <1>0, <1>5, <2>4 DEF TextOK
<1>6. ASSUME NEW s \in Sock, Answer(s) PROVE TextOK'
  <2>1. PICK q \in requests[s] :
           /\ requests' = [requests EXCEPT ![s] = @ \ {q}]
           /\ Say(s, [q EXCEPT !.ret = TRUE])
    BY <1>6 DEF Answer
  <2>2. q \in Numbered(FALSE)
    BY DEF TextOK
  <2>3. [q EXCEPT !.ret = TRUE] \in Numbered(TRUE)
    BY <2>2 DEF Numbered
  <2>4. [q EXCEPT !.ret = TRUE] \in Messages'
    BY <1>0, <2>3 DEF Messages
  <2>5. requests' \in [Sock -> SUBSET Numbered(FALSE)] /\ UNCHANGED strbuf
    BY <1>6, <2>1 DEF Answer, readers, TextOK
  <2> QED
    BY <1>5, <2>1, <2>4, <2>5
<1>7. ASSUME NEW s \in Sock, Reverse(s) PROVE TextOK'
  <2> DEFINE m == [ret |-> FALSE, num |-> reversed', call |-> Nil]
  <2>1. reversed' = reversed + 1 /\ reversed \in Nat
    BY <1>7 DEF Reverse, TypeOK
  <2>2. m \in Messages'
    <3>1. reversed' \in 1 .. reversed'
      BY <2>1
    <3>2. m \in ServerCalls'
      BY <3>1 DEF ServerCalls
    <3> QED
      BY <3>2 DEF Messages
  <2>3. Say(s, m) /\ UNCHANGED <<requests, strbuf>>
    BY <1>7 DEF Reverse, readers
  <2> QED
    BY <1>5, <2>2, <2>3 DEF TextOK
<1>8. ASSUME NEW s \in Sock, Lose(s) PROVE TextOK'
  <2>1. requests' \in [Sock -> SUBSET Numbered(FALSE)]
    BY <1>8 DEF Lose, TextOK
  <2> QED
    BY <1>0, <1>8, <2>1 DEF Lose, readers, TextOK
<1>9. ASSUME NEW t \in Thread, Send(t), ~Write(t) PROVE TextOK'
  BY <1>1, <1>9 DEF Send, GetSequence, PutSequence, Put, CheckSock, MakeSock, Connect,
                    StartReader, TakeBack, network, readers
<1>10. ASSUME NEW c \in Call, BeginWait(c) \/ Timeout(c) PROVE TextOK'
  BY <1>1, <1>10 DEF BeginWait, Timeout, network, readers
<1>11. ASSUME NEW r \in Reader, Run(r), ~Read(r), ~Forget(r) PROVE TextOK'
  BY <1>1, <1>11 DEF Run, BeginRead, Deliver, EndOfStream, Fail, network, readers
<1>12. ASSUME Close \/ ClearSock \/ Join PROVE TextOK'
  BY <1>1, <1>12 DEF Close, ClearSock, Join, network, readers
<1>13. CASE UNCHANGED vars
  BY <1>1, <1>13 DEF vars, network, readers
<1> QED
  BY <1>2, <1>3, <1>4, <1>6, <1>7, <1>8, <1>9, <1>10, <1>11, <1>12, <1>13 DEF Next
-----------------------------------------------------------------------------
Steady == UNCHANGED <<num, hand, stream, started>>
Asking == {"number", "numbered"}

(* A thread that goes on without touching numbers, hands and streams.      *)
LEMMA Moves ==
    ASSUME TypeOK, ReadersOK, CallsOK, Grows, Steady,
           NEW t \in Thread, NEW p \in Places, Go(t, p),
           t \in Call => /\ p \in Calling /\ (p \in Asking <=> pc[t] \in Asking)
                         /\ p = "wait" => kind[t] # "async",
           t \in Reader => /\ pc[t] # "none" /\ p # "deliver"
                           /\ p \in Reading => pc[t] \in Reading
                           /\ p \in Asking => pc[t] \in Asking
                           /\ p \in Sending => pc[t] \in Sending
    PROVE  pc' \in [Thread -> Places] /\ ReadersOK' /\ CallsOK'
<1>1. pc' \in [Thread -> Places]
      /\ \A u \in Thread : pc'[u] = IF u = t THEN p ELSE pc[u]
  BY DEF Go, TypeOK
<1>2. ReadersOK'
  <2> SUFFICES ASSUME NEW r \in Reader
               PROVE /\ r > started' => pc'[r] = "none"
                     /\ pc'[r] \in Reading => stream'[r] \in Sock
                     /\ pc'[r] \in {"number", "numbered"} => hand'[r] \in ServerCalls'
                     /\ pc'[r] \in Sending => num'[r] \in 1 .. reversed'
                     /\ pc'[r] = "deliver" => hand'[r] \in Deliveries'
    BY DEF ReadersOK
  <2>1. r \in Thread /\ pc'[r] = IF r = t THEN p ELSE pc[r]
    BY <1>1, Names
  <2>2. ServerCalls \subseteq ServerCalls' /\ Deliveries \subseteq Deliveries'
        /\ 1 .. reversed \subseteq 1 .. reversed'
    BY Kept DEF Grows, TypeOK
  <2> QED
    BY <2>1, <2>2 DEF ReadersOK, Steady, Asking
<1>3. CallsOK'
  BY <1>1, Names DEF CallsOK, Steady, Asking, Grows
<1> QED
  BY <1>1, <1>2, <1>3

(* What a reader is dispatched from what it has read.                      *)
Dispatched(r, m) ==
    \/ UNCHANGED <<pc, hand, msglist>>
    \/ Go(r, "lost") /\ UNCHANGED <<hand, msglist>>
    \/ /\ m \in ServerCalls
       /\ hand' = [hand EXCEPT ![r] = m] /\ Go(r, "number") /\ UNCHANGED msglist
    \/ /\ m \in Numbered(TRUE) /\ m.num \in Number
       /\ hand' = [hand EXCEPT ![r] = [to |-> msglist[m.num], msg |-> m]]
       /\ msglist' = [msglist EXCEPT ![m.num] = Nil] /\ Go(r, "deliver")

LEMMA ReadEnds ==
    ASSUME TypeOK, TextOK, ReadersOK, NEW r \in Reader, Read(r)
    PROVE  /\ \E m : Dispatched(r, m)
           /\ pc[r] = "read" /\ stream[r] \in Sock
           /\ UNCHANGED <<got, num, calls, seq, fields, reversed, stream>>
<1>1. pc[r] = "read"
  BY DEF Read
<1>2. PICK k \in 1 .. Len(incoming[stream[r]]) :
         LET f == Framed(strbuf[r] \o SubSeq(incoming[stream[r]], 1, k))
         IN  IF f.throws THEN Go(r, "lost") /\ UNCHANGED <<hand, msglist>>
             ELSE Dispatch(r, f.msg)
  BY DEF Read
<1> DEFINE m == Framed(strbuf[r] \o SubSeq(incoming[stream[r]], 1, k)).msg
<1>3. m \in Messages \union {Nil} /\ stream[r] \in Sock
  BY <1>1, ReadMessage
<1>4. (Go(r, "lost") /\ UNCHANGED <<hand, msglist>>) \/ Dispatch(r, m)
  BY <1>2
<1> HIDE DEF m
<1>5. Dispatched(r, m)
  BY <1>3, <1>4 DEF Dispatch, Dispatched, Answered, Settled, Messages, ServerCalls, Numbered
<1> QED
  BY <1>1, <1>3, <1>5 DEF Read

(* Readers that end a delivery, or all that is pending, wake calls.        *)
LEMMA Wakes ==
    ASSUME TypeOK, ReadersOK, CallsOK, Grows, NEW r \in Reader,
           NEW S \in SUBSET Call, NEW p \in {"read", "forget"},
           p = "read" => pc[r] \in Reading,
           pc[r] # "none",
           pc' = [Notified(pc, S) EXCEPT ![r] = p],
           UNCHANGED <<num, stream, started>>,
           \A q \in Reader : q # r => hand'[q] = hand[q]
    PROVE  /\ pc' \in [Thread -> Places] /\ ReadersOK' /\ CallsOK'
           /\ pc'[r] = p
           /\ \A q \in Reader : q # r => pc'[q] = pc[q]
           /\ \A c \in Call : pc'[c] = IF c \in S /\ pc[c] = "wait" THEN "done" ELSE pc[c]
<1> USE DEF Calling, Reading, Sending, Places
<1>1. /\ \A u \in Thread : pc'[u] =
            IF u = r THEN p ELSE IF u \in S /\ pc[u] = "wait" THEN "done" ELSE pc[u]
      /\ pc' \in [Thread -> Places]
  BY DEF Notified, TypeOK
<1>2. /\ pc'[r] = p
      /\ \A q \in Reader : q # r => pc'[q] = pc[q]
      /\ \A c \in Call : pc'[c] = IF c \in S /\ pc[c] = "wait" THEN "done" ELSE pc[c]
  BY <1>1, Names
<1>3. ReadersOK'
  <2>1. ServerCalls \subseteq ServerCalls' /\ Deliveries \subseteq Deliveries'
        /\ 1 .. reversed \subseteq 1 .. reversed'
    BY Kept DEF Grows, TypeOK
  <2> QED
    BY <1>2, <2>1 DEF ReadersOK
<1>4. CallsOK'
  BY <1>2, Names DEF CallsOK, Grows
<1> QED
  BY <1>1, <1>2, <1>3, <1>4

LEMMA NextType ==
    /\ TypeOK /\ TextOK /\ ReadersOK /\ CallsOK /\ [Next]_vars
    => TypeOK' /\ ReadersOK' /\ CallsOK'
<1> SUFFICES ASSUME TypeOK, TextOK, ReadersOK, CallsOK, [Next]_vars
             PROVE  TypeOK' /\ ReadersOK' /\ CallsOK'
  OBVIOUS
<1>0. Grows /\ Hands \subseteq Hands' /\ ServerCalls \subseteq ServerCalls'
      /\ Deliveries \subseteq Deliveries' /\ 1 .. reversed \subseteq 1 .. reversed'
      /\ Nil \in Hands' /\ reversed' \in Nat
  BY NextGrows, Kept DEF Hands, Grows, TypeOK
<1> USE DEF Calling, Reading, Sending, Asking, Places
<1>1. ASSUME NEW t \in Thread, GetSequence(t) PROVE TypeOK' /\ ReadersOK' /\ CallsOK'
  <2>1. got' \in [Thread -> 0 .. MaxSeq - 1]
    BY <1>1, Names DEF GetSequence, TypeOK
  <2>2. /\ UNCHANGED <<num, calls, seq, msglist, fields, network, readers>>
        /\ Go(t, "numbered") /\ pc[t] = "number"
    BY <1>1 DEF GetSequence
  <2>3. pc' \in [Thread -> Places] /\ ReadersOK' /\ CallsOK'
    BY <1>0, <2>2, Moves DEF Steady, readers, fields
  <2> QED
    BY <1>0, <2>1, <2>2, <2>3 DEF TypeOK, calls, fields, network, readers
<1>2. ASSUME NEW t \in Thread, PutSequence(t) PROVE TypeOK' /\ ReadersOK' /\ CallsOK'
  <2>1. /\ pc[t] = "numbered" /\ got[t] \in 0 .. MaxSeq - 1
        /\ seq' = got[t] + 1
        /\ num' = [num EXCEPT ![t] = IF t \in Call THEN got[t] + 1 ELSE hand[t].num]
        /\ got' = [got EXCEPT ![t] = 0]
        /\ UNCHANGED <<calls, msglist, fields, network, stream, strbuf>>
    BY <1>2 DEF PutSequence, TypeOK
  <2>2. got' \in [Thread -> 0 .. MaxSeq - 1] /\ seq' \in Nat /\ got[t] + 1 \in Number
    BY <2>1, Names DEF TypeOK
  <2>3. CASE t \in Call
    <3>1. Go(t, "put") /\ UNCHANGED hand
      BY <1>2, <2>3 DEF PutSequence
    <3>2. /\ \A u \in Thread : pc'[u] = IF u = t THEN "put" ELSE pc[u]
          /\ \A u \in Thread : num'[u] = IF u = t THEN got[t] + 1 ELSE num[u]
      BY <2>1, <2>3, <3>1 DEF Go, TypeOK
    <3>3. TypeOK'
      BY <1>0, <2>1, <2>2, <2>3, <3>1, Names DEF TypeOK, Go, calls, fields, network
    <3>4. ReadersOK'
      BY <1>0, <2>1, <2>3, <3>1, <3>2, Names DEF ReadersOK, fields
    <3>5. CallsOK'
      BY <2>1, <2>2, <2>3, <3>2, Names DEF CallsOK, calls
    <3> QED
      BY <3>3, <3>4, <3>5
  <2>4. CASE t \in Reader
    <3>1. t \notin Call
      BY <2>4, Names
    <3>2. PICK place \in {"put", "read"} : Go(t, place)
      BY <1>2, <3>1 DEF PutSequence
    <3>3. hand' = [hand EXCEPT ![t] = Nil]
      BY <1>2, <3>1 DEF PutSequence
    <3>4. hand[t] \in ServerCalls
      BY <2>1, <2>4 DEF ReadersOK
    <3>5. hand[t].num \in 1 .. reversed /\ hand[t].num \in Nat
      <4>1. hand[t].num \in 1 .. reversed
        BY <3>4 DEF ServerCalls
      <4> QED
        BY <4>1 DEF TypeOK
    <3>6. /\ \A u \in Thread : pc'[u] = IF u = t THEN place ELSE pc[u]
          /\ \A u \in Thread : num'[u] = IF u = t THEN hand[t].num ELSE num[u]
      BY <2>1, <3>1, <3>2 DEF Go, TypeOK
    <3>7. TypeOK'
      <4>1. hand' \in [Reader -> Hands']
        BY <1>0, <3>3 DEF TypeOK
      <4>2. pc' \in [Thread -> Places] /\ num' \in [Thread -> Nat]
        BY <2>1, <3>1, <3>2, <3>5 DEF Go, TypeOK
      <4> QED
        BY <1>0, <2>1, <2>2, <4>1, <4>2 DEF TypeOK, calls, fields, network
    <3>8. ReadersOK'
      <4>1. \A r \in Reader : r # t => hand'[r] = hand[r]
        BY <3>3
      <4>2. \A r \in Reader : r \in Thread
        BY Names
      <4> QED
        BY <1>0, <2>1, <2>4, <3>5, <3>6, <4>1, <4>2 DEF ReadersOK, fields
    <3>9. CallsOK'
      BY <2>1, <3>1, <3>6, Names DEF CallsOK, calls
    <3> QED
      BY <3>7, <3>8, <3>9
  <2> QED
    BY <2>3, <2>4, Names
<1>3. ASSUME NEW t \in Thread, Put(t) \/ CheckSock(t) \/ MakeSock(t) \/ Connect(t)
                              \/ Write(t) \/ TakeBack(t)
      PROVE  TypeOK' /\ ReadersOK' /\ CallsOK'
  <2>1. /\ UNCHANGED <<got, num, calls, seq, work, started, reversed, readers>>
        /\ made' \in 0 .. MaxSocks /\ sock' \in 0 .. MaxSocks
    <3>1. CASE Put(t) \/ CheckSock(t) \/ Write(t) \/ TakeBack(t)
      BY <3>1 DEF Put, CheckSock, Write, TakeBack, TypeOK, fields, network
    <3>2. CASE MakeSock(t)
      BY <3>2, Names DEF MakeSock, TypeOK, network
    <3>3. CASE Connect(t)
      BY <3>3, Names DEF Connect, TypeOK
    <3> QED
      BY <1>3, <3>1, <3>2, <3>3
  <2>2. msglist' \in [Number -> Call \union {Nil, Reply}]
    BY <1>3 DEF Put, CheckSock, MakeSock, Connect, Write, TakeBack, TypeOK, Entered, Entry
  <2>3. \E p \in Places :
           /\ Go(t, p) /\ pc[t] \in Sending /\ p # "wait" /\ p \notin Asking
           /\ t \in Call => p \in Sending \union {"sent", "done"}
           /\ t \notin Call => p \in Sending \union {"read"}
    <3>1. CASE Put(t)
      BY <3>1 DEF Put
    <3>2. CASE CheckSock(t)
      BY <3>2 DEF CheckSock
    <3>3. CASE MakeSock(t)
      BY <3>3 DEF MakeSock
    <3>4. CASE Connect(t)
      BY <3>4 DEF Connect
    <3>5. CASE Write(t)
      BY <3>5 DEF Write, Sent
    <3>6. CASE TakeBack(t)
      BY <3>6 DEF TakeBack
    <3> QED
      BY <1>3, <3>1, <3>2, <3>3, <3>4, <3>5, <3>6
  <2>4. pc' \in [Thread -> Places] /\ ReadersOK' /\ CallsOK'
    <3>1. PICK p \in Places :
             /\ Go(t, p) /\ pc[t] \in Sending /\ p # "wait" /\ p \notin Asking
             /\ t \in Call => p \in Sending \union {"sent", "done"}
             /\ t \notin Call => p \in Sending \union {"read"}
      BY <2>3
    <3>2. Steady
      BY <2>1 DEF Steady, readers
    <3>3. t \in Reader => t \notin Call
      BY Names
    <3> QED
      BY <1>0, <3>1, <3>2, <3>3, Moves
  <2> QED
    BY <1>0, <2>1, <2>2, <2>4 DEF TypeOK, calls, readers
<1>4. ASSUME NEW t \in Thread, StartReader(t) PROVE TypeOK' /\ ReadersOK' /\ CallsOK'
  <2>1. /\ pc[t] = "start" /\ started' = started + 1 /\ started \in Nat
        /\ pc' = [pc EXCEPT ![t] = "write", ![started + 1] = "begin"]
        /\ UNCHANGED <<got, num, calls, seq, msglist, sock, made, network, readers>>
    BY <1>4 DEF StartReader, TypeOK
  <2>2. started + 1 \notin Call /\ (started + 1 \in Reader => pc[started + 1] = "none")
    BY <2>1, Names DEF ReadersOK
  <2>3. /\ \A u \in Thread : u # t /\ u # started + 1 => pc'[u] = pc[u]
        /\ t # started + 1 => pc'[t] = "write"
        /\ started + 1 \in Thread => pc'[started + 1] = "begin"
        /\ pc' \in [Thread -> Places]
    <3> HIDE DEF Calling, Reading, Sending, Asking, Places
    <3>1. "write" \in Places /\ "begin" \in Places
      BY DEF Places, Calling, Sending
    <3> QED
      BY <2>1, <3>1 DEF TypeOK
  <2>4. t # started + 1
    BY <2>1, <2>2, Names
  <2>5. TypeOK'
    BY <1>0, <2>1, <2>3 DEF TypeOK, calls, network, readers
  <2>6. ReadersOK'
    <3> SUFFICES ASSUME NEW r \in Reader
                 PROVE  /\ r > started' => pc'[r] = "none"
                        /\ pc'[r] \in Reading => stream'[r] \in Sock
                        /\ pc'[r] \in {"number", "numbered"} => hand'[r] \in ServerCalls'
                        /\ pc'[r] \in Sending => num'[r] \in 1 .. reversed'
                        /\ pc'[r] = "deliver" => hand'[r] \in Deliveries'
      BY DEF ReadersOK
    <3>1. r \in Thread /\ r \in Nat
      BY Names
    <3>2. CASE r = started + 1
      BY <2>1, <2>3, <3>1, <3>2
    <3>3. CASE r = t
      BY <1>0, <2>1, <2>3, <2>4, <3>1, <3>3 DEF ReadersOK, readers
    <3>4. CASE r # t /\ r # started + 1
      BY <1>0, <2>1, <2>3, <3>1, <3>4 DEF ReadersOK, readers
    <3> QED
      BY <3>2, <3>3, <3>4
  <2>7. CallsOK'
    <3>1. \A c \in Call : c # started + 1 /\ c \in Thread
      BY <2>2, Names
    <3> QED
      BY <2>1, <2>3, <2>4, <3>1 DEF CallsOK, calls
  <2> QED
    BY <2>5, <2>6, <2>7
<1>5. ASSUME NEW c \in Call, BeginWait(c) \/ Timeout(c)
      PROVE  TypeOK' /\ ReadersOK' /\ CallsOK'
  <2>1. /\ UNCHANGED <<got, num, calls, seq, msglist, fields, network, readers>>
        /\ \E p \in {"wait", "done"} :
              Go(c, p) /\ pc[c] \in {"sent", "wait"} /\ (p = "wait" => kind[c] # "async")
    BY <1>5 DEF BeginWait, Timeout
  <2>2. c \in Thread /\ c \notin Reader
    BY Names
  <2>3. pc' \in [Thread -> Places] /\ ReadersOK' /\ CallsOK'
    BY <1>0, <2>1, <2>2, Moves DEF Steady, readers, fields
  <2> QED
    BY <1>0, <2>1, <2>3 DEF TypeOK, calls, fields, network, readers
<1>6. ASSUME NEW r \in Reader, BeginRead(r) PROVE TypeOK' /\ ReadersOK' /\ CallsOK'
  <2>1. /\ pc[r] = "begin" /\ r \in Thread /\ r \notin Call
        /\ UNCHANGED <<got, num, calls, seq, msglist, fields, network, hand>>
    BY <1>6, Names DEF BeginRead
  <2>2. PICK p \in {"read", "lost"} : Go(r, p) /\
           IF p = "read" THEN sock # 0 /\ stream' = [stream EXCEPT ![r] = sock]
                         ELSE UNCHANGED stream
    BY <1>6 DEF BeginRead
  <2>3. \A u \in Thread : pc'[u] = IF u = r THEN p ELSE pc[u]
    BY <2>2 DEF Go, TypeOK
  <2>4. TypeOK'
    BY <1>0, <2>1, <2>2 DEF TypeOK, Go, calls, fields, network
  <2>5. p = "read" => stream'[r] \in Sock
    BY <2>2, Names DEF TypeOK, Reader
  <2>6. \A q \in Reader : q \in Thread /\ (q # r => stream'[q] = stream[q])
    BY <2>2, Names DEF TypeOK
  <2>7. ReadersOK'
    BY <1>0, <2>1, <2>3, <2>5, <2>6 DEF ReadersOK, fields
  <2>8. CallsOK'
    BY <2>1, <2>3, Names DEF CallsOK, calls
  <2> QED
    BY <2>4, <2>7, <2>8
<1>7. ASSUME NEW r \in Reader, Read(r) PROVE TypeOK' /\ ReadersOK' /\ CallsOK'
  <2>1. PICK m : Dispatched(r, m)
    BY <1>7, ReadEnds
  <2>2. /\ pc[r] = "read" /\ stream[r] \in Sock /\ r \in Thread /\ r \notin Call
        /\ UNCHANGED <<got, num, calls, seq, fields, reversed, stream>>
    BY <1>7, ReadEnds, Names
  <2>3. PICK p \in {"read", "lost", "number", "deliver"} :
           /\ pc' = [pc EXCEPT ![r] = p]
           /\ p \in {"read", "lost"} => UNCHANGED hand
           /\ p = "number" => m \in ServerCalls /\ hand' = [hand EXCEPT ![r] = m]
           /\ p = "deliver" => /\ m \in Numbered(TRUE) /\ m.num \in Number
                               /\ hand' = [hand EXCEPT ![r] =
                                              [to |-> msglist[m.num], msg |-> m]]
    BY <2>1, <2>2 DEF Dispatched, Go, TypeOK
  <2>4. msglist' \in [Number -> Call \union {Nil, Reply}]
    BY <2>1 DEF Dispatched, TypeOK
  <2>5. /\ \A u \in Thread : pc'[u] = IF u = r THEN p ELSE pc[u]
        /\ \A q \in Reader : q \in Thread /\ (q # r => hand'[q] = hand[q])
    BY <2>3, Names DEF TypeOK
  <2>6. /\ p = "number" => hand'[r] \in ServerCalls
        /\ p = "deliver" => hand'[r] \in Deliveries
    <3>1. CASE p = "number"
      BY <2>3, <3>1 DEF TypeOK
    <3>2. CASE p = "deliver"
      <4>1. m \in Numbered(TRUE) /\ msglist[m.num] \in Call \union {Nil, Reply}
        BY <2>3, <3>2 DEF TypeOK
      <4>2. hand'[r] = [to |-> msglist[m.num], msg |-> m]
        BY <2>3, <3>2 DEF TypeOK
      <4>3. [to |-> msglist[m.num], msg |-> m] \in Deliveries
        BY <4>1 DEF Deliveries
      <4> QED
        BY <3>2, <4>2, <4>3
    <3> QED
      BY <3>1, <3>2
  <2>7. hand' \in [Reader -> Hands]
    BY <2>3, <2>6 DEF TypeOK, Hands, Messages
  <2>8. TypeOK'
    <3>1. hand' \in [Reader -> Hands']
      BY <1>0, <2>7
    <3>2. pc' \in [Thread -> Places]
      BY <2>3 DEF TypeOK
    <3> QED
      BY <1>0, <2>2, <2>4, <3>1, <3>2 DEF TypeOK, calls, fields
  <2>9. ReadersOK'
    BY <1>0, <2>2, <2>5, <2>6 DEF ReadersOK, fields
  <2>10. CallsOK'
    BY <2>2, <2>5, Names DEF CallsOK, calls
  <2> QED
    BY <2>8, <2>9, <2>10
<1>8. ASSUME NEW r \in Reader, Deliver(r) PROVE TypeOK' /\ ReadersOK' /\ CallsOK'
  <2>1. /\ pc[r] = "deliver" /\ hand' = [hand EXCEPT ![r] = Nil]
        /\ UNCHANGED <<got, num, kind, lost, seq, msglist, fields, network, stream>>
    BY <1>8 DEF Deliver
  <2>2. hand[r].msg.call \in Call /\ r \in Thread /\ r \notin Call
    BY <2>1, Names DEF ReadersOK, Deliveries, Numbered
  <2>3. hand' \in [Reader -> Hands'] /\ \A q \in Reader : q # r => hand'[q] = hand[q]
    BY <1>0, <2>1 DEF TypeOK
  <2>4. /\ pc' \in [Thread -> Places] /\ ReadersOK' /\ CallsOK'
        /\ result' \in [Call -> Call \union {Nil}] /\ early' \subseteq Call
    <3>1. CASE hand[r].to \in Call /\ kind[hand[r].to] # "async"
      <4>1. /\ result' = [result EXCEPT ![hand[r].to] = hand[r].msg.call]
            /\ early' = early \union Missing({hand[r].to})
            /\ pc' = [Notified(pc, {hand[r].to}) EXCEPT ![r] = "read"]
        BY <1>8, <3>1 DEF Deliver
      <4>2. pc' \in [Thread -> Places] /\ ReadersOK' /\ CallsOK'
        BY <1>0, <2>1, <2>3, <3>1, <4>1, Wakes DEF fields
      <4> QED
        BY <2>2, <3>1, <4>1, <4>2 DEF TypeOK, Missing
    <3>2. CASE ~(hand[r].to \in Call /\ kind[hand[r].to] # "async")
      <4>1. Go(r, "read") /\ UNCHANGED <<result, early>>
        BY <1>8, <3>2 DEF Deliver
      <4>2. pc' = [Notified(pc, {}) EXCEPT ![r] = "read"]
        BY <4>1 DEF Go, Notified, TypeOK
      <4>3. pc' \in [Thread -> Places] /\ ReadersOK' /\ CallsOK'
        BY <1>0, <2>1, <2>3, <4>2, Wakes DEF fields
      <4> QED
        BY <4>1, <4>3 DEF TypeOK
    <3> QED
      BY <3>1, <3>2
  <2> QED
    BY <1>0, <2>1, <2>3, <2>4 DEF TypeOK, fields, network
<1>9. ASSUME NEW r \in Reader, EndOfStream(r) PROVE TypeOK' /\ ReadersOK' /\ CallsOK'
  <2>1. /\ pc[r] = "read" /\ Go(r, "lost") /\ r \in Thread /\ r \notin Call
        /\ UNCHANGED <<got, num, calls, seq, msglist, fields, reversed, readers>>
    BY <1>9, Names DEF EndOfStream
  <2>2. pc' \in [Thread -> Places] /\ ReadersOK' /\ CallsOK'
    BY <1>0, <2>1, Moves DEF Steady, readers, fields
  <2> QED
    BY <1>0, <2>1, <2>2 DEF TypeOK, calls, fields, readers
<1>10. ASSUME NEW r \in Reader, Fail(r) PROVE TypeOK' /\ ReadersOK' /\ CallsOK'
  <2>1. /\ pc[r] = "lost"
        /\ lost' = [c \in Call |-> lost[c] \/ c \in Pending]
        /\ early' = early \union Missing(Pending)
        /\ pc' = [Notified(pc, Pending) EXCEPT ![r] = "forget"]
        /\ msglist' = [n \in Number |-> Nil]
        /\ UNCHANGED <<got, num, kind, result, seq, fields, network, readers>>
    BY <1>10 DEF Fail
  <2>2. pc' \in [Thread -> Places] /\ ReadersOK' /\ CallsOK'
    BY <1>0, <2>1, Wakes DEF fields, readers, Pending
  <2>3. lost' \in [Call -> BOOLEAN] /\ early' \subseteq Call
    BY <2>1 DEF TypeOK, Missing, Pending
  <2> QED
    BY <1>0, <2>1, <2>2, <2>3 DEF TypeOK, fields, network, readers
<1>11. ASSUME NEW r \in Reader, Forget(r) PROVE TypeOK' /\ ReadersOK' /\ CallsOK'
  <2>1. /\ pc[r] = "forget" /\ Go(r, "ended") /\ sock' = 0
        /\ stream' = [stream EXCEPT ![r] = 0]
        /\ UNCHANGED <<got, num, calls, seq, msglist, made, started, network, hand>>
    BY <1>11 DEF Forget
  <2>2. r \in Thread /\ r \notin Call
    BY Names
  <2>3. /\ \A u \in Thread : pc'[u] = IF u = r THEN "ended" ELSE pc[u]
        /\ \A q \in Reader : q \in Thread /\ (q # r => stream'[q] = stream[q])
    BY <2>1, Names DEF Go, TypeOK
  <2>4. TypeOK'
    BY <1>0, <2>1, Names DEF TypeOK, Go, calls, network
  <2>5. ReadersOK'
    BY <1>0, <2>1, <2>3 DEF ReadersOK
  <2>6. CallsOK'
    BY <2>1, <2>2, <2>3, Names DEF CallsOK, calls
  <2> QED
    BY <2>4, <2>5, <2>6
<1>12. ASSUME \/ Close \/ ClearSock \/ Join \/ UNCHANGED vars
              \/ \E s \in Sock : Answer(s) \/ Reverse(s) \/ Lose(s)
       PROVE  TypeOK' /\ ReadersOK' /\ CallsOK'
  <2>1. /\ UNCHANGED <<threads, calls, seq, msglist, made, started, stream, hand>>
        /\ sock' \in 0 .. MaxSocks
    <3>1. CASE Close \/ UNCHANGED vars
      BY <3>1 DEF Close, vars, fields, readers, TypeOK
    <3>2. CASE ClearSock \/ Join
      BY <3>2, Names DEF ClearSock, Join, network, readers, TypeOK
    <3>3. CASE \E s \in Sock : Answer(s) \/ Reverse(s) \/ Lose(s)
      BY <3>3 DEF Answer, Reverse, Lose, fields, readers, TypeOK
    <3> QED
      BY <1>12, <3>1, <3>2, <3>3
  <2>2. TypeOK'
    BY <1>0, <2>1 DEF TypeOK, threads, calls
  <2>3. ReadersOK'
    BY <1>0, <2>1 DEF ReadersOK, threads
  <2>4. CallsOK'
    BY <2>1 DEF CallsOK, threads, calls
  <2> QED
    BY <2>2, <2>3, <2>4
<1> QED
  BY <1>1, <1>2, <1>3, <1>4, <1>5, <1>6, <1>7, <1>8, <1>9, <1>10, <1>11, <1>12
     DEF Next, Send, Run
-----------------------------------------------------------------------------
(* What a step may do to a call without touching its right to be settled.  *)
LEMMA RightKept ==
    ASSUME TypeOK, CallsOK, Grows, NEW c \in Call, Right(c),
           pc'[c] \in Entering <=> pc[c] \in Entering,
           \A n \in Number : msglist'[n] = c => msglist[n] = c,
           \A r \in Reader : Delivering(r, c)' => Delivering(r, c) /\ hand'[r] = hand[r],
           result'[c] = result[c], lost'[c] = lost[c]
    PROVE  Right(c)'
<1>1. /\ pc[c] \in Entering => num[c] # 0 /\ num'[c] = num[c]
      /\ Settling(c)' <=> Settling(c)
  BY Names DEF CallsOK, Entering, Grows, Settling
<1>2. result'[c] \in {Nil, c} \/ Shared(c)'
  <2>1. CASE result[c] = Nil \/ result[c] = c
    BY <2>1
  <2>2. CASE result[c] \notin {Nil, c}
    <3>1. Shared(c) /\ Settling(c)
      BY <2>2 DEF Right, Settling
    <3>2. pc[c] \in Entering
      BY <3>1 DEF Right
    <3> QED
      BY <1>1, <3>1, <3>2, Kept
  <2> QED
    BY <2>1, <2>2
<1> QED
  BY <1>1, <1>2 DEF Right

LEMMA FoundKept ==
    ASSUME TypeOK, CallsOK, Grows, NEW c \in Call, Found(c),
           Asleep(c)' => Asleep(c),
           num[c] \in Number /\ msglist[num[c]] = c => msglist'[num[c]] = c \/ Shared(c),
           \A r \in Reader : Delivering(r, c) => Delivering(r, c)',
           early \subseteq early'
    PROVE  Found(c)'
<1> SUFFICES ASSUME Asleep(c)'
             PROVE  \/ msglist'[num'[c]] = c
                    \/ \E r \in Reader : Delivering(r, c)'
                    \/ c \in early'
                    \/ Shared(c)'
  BY DEF Found
<1>1. Asleep(c) /\ num[c] # 0 /\ num[c] \in Number /\ num'[c] = num[c]
  BY Names DEF CallsOK, Entering, Grows, Asleep
<1>2. Shared(c) => Shared(c)'
  BY <1>1, Kept
<1> QED
  BY <1>1, <1>2 DEF Found

(* Most steps are of no concern to _msglist and to who is told.            *)
Quiet ==
    /\ \A c \in Call : pc'[c] \in Entering <=> pc[c] \in Entering
    /\ \A c \in Call : pc'[c] \in Entering \ {"done"} => pc[c] \in Entering \ {"done"}
    /\ \A r \in Reader : pc'[r] = "deliver" <=> pc[r] = "deliver"
    /\ \A r \in Reader : pc[r] = "deliver" => hand'[r] = hand[r]
    /\ UNCHANGED <<msglist, result, lost, early>>

LEMMA QuietKeeps ==
    ASSUME TypeOK, CallsOK, Grows, Pairing, Quiet
    PROVE  Pairing'
<1> SUFFICES ASSUME NEW c \in Call PROVE Right(c)' /\ Found(c)'
  BY DEF Pairing
<1>1. \A r \in Reader : (Delivering(r, c)' <=> Delivering(r, c))
                       /\ (Delivering(r, c) => hand'[r] = hand[r])
  BY DEF Quiet, Delivering
<1>2. Right(c) /\ Found(c)
  BY DEF Pairing
<1>3. Right(c)'
  BY <1>1, <1>2, RightKept DEF Quiet
<1>4. Found(c)'
  BY <1>1, <1>2, FoundKept DEF Quiet, Asleep, Grows
<1> QED
  BY <1>3, <1>4

LEMMA QuietMove ==
    ASSUME TypeOK, NEW t \in Thread, NEW p, Go(t, p),
           UNCHANGED <<msglist, result, lost, early>>,
           t \in Call => /\ p \in Entering <=> pc[t] \in Entering
                         /\ p \in Entering \ {"done"} => pc[t] \in Entering \ {"done"},
           t \in Reader => p # "deliver" /\ pc[t] # "deliver",
           \A r \in Reader : r # t => hand'[r] = hand[r]
    PROVE  Quiet
<1>1. \A u \in Thread : pc'[u] = IF u = t THEN p ELSE pc[u]
  BY DEF Go, TypeOK
<1> QED
  BY <1>1, Names DEF Quiet

LEMMA QuietSteps ==
    ASSUME TypeOK, ReadersOK, CallsOK, [Next]_vars
    PROVE  \/ Quiet
           \/ \E t \in Thread : Put(t) \/ TakeBack(t)
           \/ \E r \in Reader : Read(r) \/ Deliver(r) \/ Fail(r)
<1> USE DEF Entering
<1>1. ASSUME NEW t \in Thread, GetSequence(t) PROVE Quiet
  <2>1. /\ Go(t, "numbered") /\ pc[t] = "number"
        /\ UNCHANGED <<msglist, result, lost, early, hand>>
    BY <1>1 DEF GetSequence, calls, readers
  <2> QED
    BY <2>1, QuietMove
<1>2. ASSUME NEW t \in Thread, PutSequence(t) PROVE Quiet
  <2>1. /\ pc[t] = "numbered" /\ \E p \in {"put", "read"} : Go(t, p)
        /\ UNCHANGED <<msglist, result, lost, early>>
        /\ \A r \in Reader : r # t => hand'[r] = hand[r]
    BY <1>2 DEF PutSequence, calls, TypeOK
  <2> QED
    BY <2>1, QuietMove
<1>3. ASSUME NEW t \in Thread, CheckSock(t) \/ MakeSock(t) \/ Connect(t)
      PROVE  Quiet
  <2>1. /\ pc[t] \in {"check", "make", "connect"}
        /\ \E p \in {"make", "write", "connect", "start", "unsent"} : Go(t, p)
        /\ UNCHANGED <<msglist, result, lost, early, hand>>
    <3>1. CASE CheckSock(t)
      BY <3>1 DEF CheckSock, calls, readers
    <3>2. CASE MakeSock(t)
      BY <3>2 DEF MakeSock, calls, readers
    <3>3. CASE Connect(t)
      BY <3>3 DEF Connect, calls, readers
    <3> QED
      BY <1>3, <3>1, <3>2, <3>3
  <2> QED
    BY <2>1, QuietMove
<1>4. ASSUME NEW t \in Thread, StartReader(t) PROVE Quiet
  <2>1. /\ pc[t] = "start" /\ started \in Nat
        /\ pc' = [pc EXCEPT ![t] = "write", ![started + 1] = "begin"]
        /\ UNCHANGED <<msglist, result, lost, early, hand>>
    BY <1>4 DEF StartReader, TypeOK, calls, readers
  <2>2. started + 1 \notin Call /\ (started + 1 \in Reader => pc[started + 1] = "none")
    BY <2>1, Names DEF ReadersOK
  <2>3. /\ \A u \in Thread : u # t /\ u # started + 1 => pc'[u] = pc[u]
        /\ t # started + 1 => pc'[t] = "write"
        /\ started + 1 \in Thread => pc'[started + 1] = "begin"
    BY <2>1 DEF TypeOK
  <2>4. t # started + 1
    BY <2>1, <2>2, Names
  <2>5. ASSUME NEW c \in Call
        PROVE  /\ pc'[c] \in Entering <=> pc[c] \in Entering
               /\ pc'[c] \in Entering \ {"done"} => pc[c] \in Entering \ {"done"}
    <3>1. c \in Thread /\ c # started + 1
      BY <2>2, Names
    <3> QED
      BY <2>1, <2>3, <2>4, <3>1
  <2>6. ASSUME NEW r \in Reader PROVE pc'[r] = "deliver" <=> pc[r] = "deliver"
    <3>1. r \in Thread
      BY Names
    <3> QED
      BY <2>1, <2>2, <2>3, <2>4, <3>1
  <2> QED
    BY <2>1, <2>5, <2>6 DEF Quiet
<1>5. ASSUME NEW t \in Thread, Write(t) PROVE Quiet
  <2>1. /\ pc[t] = "write"
        /\ \E p \in {Sent(t), "unsent"} : Go(t, p)
        /\ UNCHANGED <<msglist, result, lost, early, hand>>
    BY <1>5 DEF Write, calls, readers
  <2> QED
    BY <2>1, QuietMove DEF Sent
<1>6. ASSUME NEW c \in Call, BeginWait(c) \/ Timeout(c) PROVE Quiet
  <2>1. /\ pc[c] \in {"sent", "wait"}
        /\ \E p \in {"wait", "done"} : Go(c, p)
        /\ UNCHANGED <<msglist, result, lost, early, hand>>
    BY <1>6 DEF BeginWait, Timeout, calls, readers
  <2> QED
    BY <2>1, QuietMove, Names
<1>7. ASSUME NEW r \in Reader, BeginRead(r) \/ EndOfStream(r) \/ Forget(r) PROVE Quiet
  <2>1. /\ pc[r] \in {"begin", "read", "forget"}
        /\ \E p \in {"read", "lost", "ended"} : Go(r, p)
        /\ UNCHANGED <<msglist, result, lost, early, hand>>
    BY <1>7 DEF BeginRead, EndOfStream, Forget, calls, readers
  <2> QED
    BY <2>1, QuietMove, Names
<1>8. ASSUME \/ Close \/ ClearSock \/ Join \/ UNCHANGED vars
             \/ \E s \in Sock : Answer(s) \/ Reverse(s) \/ Lose(s)
      PROVE  Quiet
  <2>1. UNCHANGED <<pc, msglist, result, lost, early, hand>>
    BY <1>8 DEF Close, ClearSock, Join, Answer, Reverse, Lose, vars, threads, calls,
                readers
  <2> QED
    BY <2>1 DEF Quiet
<1> QED
  BY <1>1, <1>2, <1>3, <1>4, <1>5, <1>6, <1>7, <1>8 DEF Next, Send, Run
-----------------------------------------------------------------------------
(* The steps that are not quiet: a message is entered or taken back, a     *)
(* reader takes an answer, tells its call, or fails all that is pending.   *)
(* A call of another number is not touched, and one of the same number is  *)
(* touched for a known cause.                                              *)
LEMMA SameNumber ==
    ASSUME TypeOK, ReadersOK, NEW t \in Thread, pc[t] \in Sending,
           NEW c \in Call, c # t, num[t] = num[c]
    PROVE  Shared(c)
<1>1. CASE t \in Call
  BY <1>1 DEF Shared
<1>2. CASE t \in Reader
  BY <1>2 DEF Shared, ReadersOK
<1> QED
  BY <1>1, <1>2, Names

LEMMA PutPairs ==
    ASSUME TypeOK, ReadersOK, CallsOK, Grows, Pairing, NEW t \in Thread, Put(t)
    PROVE  Pairing'
<1> SUFFICES ASSUME NEW c \in Call PROVE Right(c)' /\ Found(c)'
  BY DEF Pairing
<1> USE DEF Entering
<1>1. /\ pc[t] = "put" /\ msglist' = [msglist EXCEPT ![num[t]] = Entry(t)]
      /\ Go(t, "check") /\ UNCHANGED <<num, result, lost, early, hand, kind>>
  BY DEF Put, Entered, calls, readers
<1>2. \A u \in Thread : pc'[u] = IF u = t THEN "check" ELSE pc[u]
  BY <1>1 DEF Go, TypeOK
<1>3. \A n \in Number : msglist'[n] = IF n = num[t] THEN Entry(t) ELSE msglist[n]
  BY <1>1 DEF TypeOK
<1>4. \A r \in Reader : Delivering(r, c)' <=> Delivering(r, c)
  BY <1>1, <1>2, Names DEF Delivering
<1>5. Right(c) /\ Found(c)
  BY DEF Pairing
<1>6. CASE c = t
  <2>1. num[c] \in Number /\ pc'[c] = "check" /\ Entry(t) = c
    BY <1>1, <1>2, <1>6, Names DEF CallsOK, Entry
  <2>2. /\ ~Settling(c) /\ \A r \in Reader : ~Delivering(r, c)
        /\ \A n \in Number : msglist[n] # c
    BY <1>1, <1>5, <1>6 DEF Right
  <2>3. \A n \in Number : msglist'[n] = c => n = num[c]
    BY <1>3, <1>6, <2>2
  <2>4. Right(c)'
    BY <1>1, <1>4, <2>1, <2>2, <2>3 DEF Right, Settling
  <2>5. msglist'[num[c]] = c
    BY <1>3, <1>6, <2>1
  <2> QED
    BY <1>1, <2>4, <2>5 DEF Found
<1>7. CASE c # t
  <2>1. pc'[c] = pc[c] /\ Entry(t) # c
    BY <1>2, <1>7, Names DEF Entry
  <2>2. Right(c)'
    BY <1>1, <1>3, <1>4, <1>5, <2>1, RightKept
  <2>3. num[c] \in Number /\ msglist[num[c]] = c => msglist'[num[c]] = c \/ Shared(c)
    BY <1>1, <1>3, <1>7, SameNumber DEF Sending
  <2>4. Found(c)'
    BY <1>1, <1>4, <1>5, <2>1, <2>3, FoundKept DEF Asleep
  <2> QED
    BY <2>2, <2>4
<1> QED
  BY <1>6, <1>7

LEMMA TakeBackPairs ==
    ASSUME TypeOK, ReadersOK, CallsOK, Grows, Pairing, NEW t \in Thread, TakeBack(t)
    PROVE  Pairing'
<1> SUFFICES ASSUME NEW c \in Call PROVE Right(c)' /\ Found(c)'
  BY DEF Pairing
<1> USE DEF Entering
<1>1. /\ pc[t] = "unsent" /\ msglist' = [msglist EXCEPT ![num[t]] = Nil]
      /\ Go(t, IF t \in Call THEN "done" ELSE "read")
      /\ UNCHANGED <<num, result, lost, early, hand, kind>>
  BY DEF TakeBack, calls, readers
<1>2. \A u \in Thread : pc'[u] = IF u = t THEN IF t \in Call THEN "done" ELSE "read"
                                 ELSE pc[u]
  BY <1>1 DEF Go, TypeOK
<1>3. \A n \in Number : msglist'[n] = IF n = num[t] THEN Nil ELSE msglist[n]
  BY <1>1 DEF TypeOK
<1>4. \A r \in Reader : Delivering(r, c)' <=> Delivering(r, c)
  BY <1>1, <1>2, Names DEF Delivering
<1>5. Right(c) /\ Found(c)
  BY DEF Pairing
<1>6. pc'[c] = IF c = t THEN "done" ELSE pc[c]
  BY <1>2, Names
<1>7. Right(c)'
  BY <1>1, <1>3, <1>4, <1>5, <1>6, Names, RightKept
<1>8. CASE c = t
  BY <1>6, <1>7, <1>8 DEF Found, Asleep
<1>9. CASE c # t
  <2>1. num[c] \in Number /\ msglist[num[c]] = c => msglist'[num[c]] = c \/ Shared(c)
    BY <1>1, <1>3, <1>9, SameNumber DEF Sending
  <2>2. Found(c)'
    BY <1>1, <1>4, <1>5, <1>6, <1>9, <2>1, FoundKept DEF Asleep
  <2> QED
    BY <1>7, <2>2
<1> QED
  BY <1>8, <1>9

LEMMA ReadPairs ==
    ASSUME TypeOK, TextOK, ReadersOK, CallsOK, Grows, Pairing, NEW r \in Reader, Read(r)
    PROVE  Pairing'
<1> USE DEF Entering
<1>1. PICK m : Dispatched(r, m)
  BY ReadEnds
<1>2. pc[r] = "read" /\ UNCHANGED <<num, result, lost, early, kind>>
  BY ReadEnds DEF calls
<1>3. CASE UNCHANGED <<pc, hand, msglist>>
  <2>1. Quiet
    BY <1>2, <1>3 DEF Quiet
  <2> QED
    BY <2>1, QuietKeeps
<1>4. ASSUME NEW p \in {"lost", "number"}, Go(r, p), UNCHANGED msglist,
             \A q \in Reader : q # r => hand'[q] = hand[q]
      PROVE  Pairing'
  <2>1. Quiet
    BY <1>2, <1>4, Names, QuietMove
  <2> QED
    BY <2>1, QuietKeeps
<1>5. ASSUME m \in Numbered(TRUE), m.num \in Number,
             hand' = [hand EXCEPT ![r] = [to |-> msglist[m.num], msg |-> m]],
             msglist' = [msglist EXCEPT ![m.num] = Nil], Go(r, "deliver"),
             NEW c \in Call
      PROVE  Right(c)' /\ Found(c)'
  <2>1. /\ pc'[c] = pc[c] /\ pc'[r] = "deliver"
        /\ \A q \in Reader : q # r => pc'[q] = pc[q]
    BY <1>5, Names DEF Go, TypeOK
  <2>2. /\ hand'[r].to = msglist[m.num] /\ hand'[r].msg = m
        /\ \A q \in Reader : q # r => hand'[q] = hand[q]
    BY <1>5 DEF TypeOK
  <2>3. \A n \in Number : msglist'[n] = IF n = m.num THEN Nil ELSE msglist[n]
    BY <1>5 DEF TypeOK
  <2>4. Delivering(r, c)' <=> msglist[m.num] = c
    BY <2>1, <2>2 DEF Delivering
  <2>5. \A q \in Reader : q # r => (Delivering(q, c)' <=> Delivering(q, c))
    BY <2>1, <2>2 DEF Delivering
  <2>6. Right(c) /\ Found(c) /\ ~Delivering(r, c)
    BY <1>2 DEF Pairing, Delivering
  <2>7. CASE msglist[m.num] = c
    <3>1. m.num = num[c] /\ pc[c] \in Entering /\ ~Settling(c)
      BY <1>5, <2>6, <2>7 DEF Right
    <3>2. \A q \in Reader : ~Delivering(q, c)
      BY <1>5, <2>6, <2>7 DEF Right
    <3>3. \A n \in Number : msglist'[n] # c
      BY <2>3, <2>6, <3>1, Names DEF Right
    <3>4. \A q \in Reader : Delivering(q, c)' => q = r
      BY <2>5, <3>2
    <3>5. Right(c)'
      BY <1>2, <2>1, <2>2, <3>1, <3>3, <3>4 DEF Right, Settling
    <3> QED
      BY <2>4, <2>7, <3>5 DEF Found
  <2>8. CASE msglist[m.num] # c
    <3>1. \A q \in Reader : Delivering(q, c)' => Delivering(q, c) /\ hand'[q] = hand[q]
      BY <2>2, <2>4, <2>5, <2>8
    <3>2. \A n \in Number : msglist'[n] = c <=> msglist[n] = c
      BY <2>3, <2>8, Names
    <3>3. Right(c)'
      BY <1>2, <2>1, <2>6, <3>1, <3>2, RightKept
    <3>4. \A q \in Reader : Delivering(q, c) => Delivering(q, c)'
      BY <2>5, <2>6
    <3>5. Found(c)'
      BY <1>2, <2>1, <2>6, <3>2, <3>4, FoundKept DEF Asleep
    <3> QED
      BY <3>3, <3>5
  <2> QED
    BY <2>7, <2>8
<1>6. ASSUME Go(r, "lost"), UNCHANGED <<hand, msglist>> PROVE Pairing'
  BY <1>4, <1>6
<1>7. ASSUME hand' = [hand EXCEPT ![r] = m], Go(r, "number"), UNCHANGED msglist
      PROVE  Pairing'
  <2>1. \A q \in Reader : q # r => hand'[q] = hand[q]
    BY <1>7 DEF TypeOK
  <2> QED
    BY <1>4, <1>7, <2>1
<1> QED
  BY <1>1, <1>3, <1>5, <1>6, <1>7 DEF Dispatched, Pairing

(* The answer is told to the call it was taken for, which is either its    *)
(* own or shares a number; told while it did not wait, it has been notified*)
(* too early.                                                              *)
LEMMA DeliverPairs ==
    ASSUME TypeOK, ReadersOK, CallsOK, Grows, Pairing, NEW r \in Reader, Deliver(r)
    PROVE  Pairing'
<1> SUFFICES ASSUME NEW c \in Call PROVE Right(c)' /\ Found(c)'
  BY DEF Pairing
<1> DEFINE told == hand[r].to = c /\ kind[c] # "async"
<1>1. /\ pc[r] = "deliver" /\ hand' = [hand EXCEPT ![r] = Nil]
      /\ UNCHANGED <<num, kind, lost, msglist, stream, started>>
  BY DEF Deliver, fields
<1>2. hand[r].msg \in Numbered(TRUE) /\ r \in Thread
  BY <1>1, Names DEF ReadersOK, Deliveries
<1>3. \A q \in Reader : q # r => hand'[q] = hand[q]
  BY <1>1 DEF TypeOK
<1>4. /\ pc'[r] = "read" /\ \A q \in Reader : q # r => pc'[q] = pc[q]
      /\ told => /\ result'[c] = hand[r].msg.call
                 /\ early' = early \union Missing({c})
                 /\ pc'[c] = IF pc[c] = "wait" THEN "done" ELSE pc[c]
      /\ ~told => result'[c] = result[c] /\ pc'[c] = pc[c]
      /\ early \subseteq early'
  <2>1. CASE hand[r].to \in Call /\ kind[hand[r].to] # "async"
    <3>1. /\ result' = [result EXCEPT ![hand[r].to] = hand[r].msg.call]
          /\ early' = early \union Missing({hand[r].to})
          /\ pc' = [Notified(pc, {hand[r].to}) EXCEPT ![r] = "read"]
      BY <2>1 DEF Deliver
    <3>2. /\ pc'[r] = "read" /\ \A q \in Reader : q # r => pc'[q] = pc[q]
          /\ pc'[c] = IF c \in {hand[r].to} /\ pc[c] = "wait" THEN "done" ELSE pc[c]
      <4>1. {hand[r].to} \in SUBSET Call /\ pc[r] \in Reading /\ pc[r] # "none"
        BY <1>1, <2>1 DEF Reading
      <4> QED
        BY <1>1, <1>3, <2>1, <3>1, <4>1, Wakes
    <3>3. result'[c] = IF c = hand[r].to THEN hand[r].msg.call ELSE result[c]
      BY <3>1 DEF TypeOK
    <3> QED
      BY <2>1, <3>1, <3>2, <3>3
  <2>2. CASE ~(hand[r].to \in Call /\ kind[hand[r].to] # "async")
    <3>1. Go(r, "read") /\ UNCHANGED <<result, early>>
      BY <2>2 DEF Deliver
    <3>2. ~told /\ c # r
      BY <2>2, Names
    <3> QED
      BY <3>1, <3>2, Names DEF Go, TypeOK
  <2> QED
    BY <2>1, <2>2
<1>5. Right(c) /\ Found(c)
  BY DEF Pairing
<1>6. \A q \in Reader : Delivering(q, c)' <=> q # r /\ Delivering(q, c)
  BY <1>3, <1>4 DEF Delivering
<1>7. CASE told
  <2>1. Delivering(r, c)
    BY <1>1, <1>7 DEF Delivering
  <2>2. /\ pc[c] \in Entering /\ ~Settling(c)
        /\ \A n \in Number : msglist[n] # c
        /\ \A q \in Reader : Delivering(q, c) => q = r
        /\ hand[r].msg.num = num[c]
    BY <1>5, <2>1 DEF Right
  <2>3. result'[c] = c \/ Shared(c)
    BY <1>2, <1>4, <1>7, <2>2 DEF Numbered, Shared
  <2>4. Shared(c) => Shared(c)'
    BY <2>2, Kept, Names DEF CallsOK, Entering
  <2>5. pc'[c] \in Entering /\ ~lost'[c]
    BY <1>1, <1>4, <1>7, <2>2 DEF Entering, Settling
  <2>6. Right(c)'
    BY <1>1, <1>6, <2>2, <2>3, <2>4, <2>5 DEF Right
  <2>7. pc[c] # "wait" => c \in early'
    BY <1>4, <1>7 DEF Missing
  <2>8. Found(c)'
    BY <1>4, <1>7, <2>7 DEF Found, Asleep
  <2> QED
    BY <2>6, <2>8
<1>8. CASE ~told
  <2>1. Right(c)'
    BY <1>1, <1>3, <1>4, <1>5, <1>6, <1>8, RightKept
  <2>2. CASE kind[c] = "async"
    BY <1>1, <2>1, <2>2 DEF Found, Asleep
  <2>3. CASE kind[c] # "async"
    <3>1. ~Delivering(r, c)
      BY <1>8, <2>3 DEF Delivering
    <3>2. \A q \in Reader : Delivering(q, c) => Delivering(q, c)'
      BY <1>6, <3>1
    <3>3. Found(c)'
      BY <1>1, <1>4, <1>5, <1>8, <3>2, FoundKept DEF Asleep
    <3> QED
      BY <2>1, <3>3
  <2> QED
    BY <2>2, <2>3
<1> QED
  BY <1>7, <1>8

LEMMA FailPairs ==
    ASSUME TypeOK, ReadersOK, CallsOK, Grows, Pairing, NEW r \in Reader, Fail(r)
    PROVE  Pairing'
<1> SUFFICES ASSUME NEW c \in Call PROVE Right(c)' /\ Found(c)'
  BY DEF Pairing
<1>1. /\ pc[r] = "lost" /\ early' = early \union Missing(Pending)
      /\ pc' = [Notified(pc, Pending) EXCEPT ![r] = "forget"]
      /\ msglist' = [n \in Number |-> Nil]
      /\ lost'[c] = (lost[c] \/ c \in Pending)
      /\ UNCHANGED <<num, kind, result, hand, stream, started>>
  BY DEF Fail, fields, readers
<1>2. /\ pc'[r] = "forget" /\ \A q \in Reader : q # r => pc'[q] = pc[q]
      /\ pc'[c] = IF c \in Pending /\ pc[c] = "wait" THEN "done" ELSE pc[c]
  BY <1>1, Wakes DEF Pending
<1>3. \A q \in Reader : Delivering(q, c)' <=> Delivering(q, c)
  BY <1>1, <1>2 DEF Delivering
<1>4. Right(c) /\ Found(c) /\ \A n \in Number : msglist'[n] # c
  BY <1>1, Names DEF Pairing
<1>5. CASE c \in Pending
  <2>1. PICK n \in Number : msglist[n] = c
    BY <1>5 DEF Pending
  <2>2. /\ pc[c] \in Entering /\ ~Settling(c)
        /\ \A q \in Reader : ~Delivering(q, c)
    BY <1>4, <2>1 DEF Right
  <2>3. pc'[c] \in Entering /\ result'[c] = Nil
    BY <1>1, <1>2, <2>2 DEF Entering, Settling
  <2>4. Right(c)'
    BY <1>3, <1>4, <2>2, <2>3 DEF Right
  <2>5. pc[c] # "wait" => c \in early'
    BY <1>1, <1>5 DEF Missing
  <2>6. Found(c)'
    BY <1>2, <1>5, <2>5 DEF Found, Asleep
  <2> QED
    BY <2>4, <2>6
<1>6. CASE c \notin Pending
  <2>1. pc'[c] = pc[c] /\ lost'[c] = lost[c] /\ \A n \in Number : msglist[n] # c
    BY <1>1, <1>2, <1>6 DEF Pending, TypeOK
  <2>2. Right(c)'
    BY <1>1, <1>3, <1>4, <2>1, RightKept
  <2>3. Found(c)'
    BY <1>1, <1>3, <1>4, <2>1, FoundKept DEF Asleep
  <2> QED
    BY <2>2, <2>3
<1> QED
  BY <1>5, <1>6

LEMMA InitPairs == Init => Pairing
<1> SUFFICES ASSUME Init, NEW c \in Call PROVE Right(c) /\ Found(c)
  BY DEF Pairing
<1>1. /\ pc[c] = "number" /\ result[c] = Nil /\ ~lost[c]
      /\ \A n \in Number : msglist[n] # c
      /\ \A r \in Reader : pc[r] = "none"
  BY Names DEF Init
<1> QED
  BY <1>1 DEF Right, Found, Settling, Delivering, Asleep, Entering

LEMMA InductiveInvariant == Spec => []IInv
<1>1. Init => IInv
  BY InitType, InitPairs DEF IInv
<1>2. IInv /\ [Next]_vars => IInv'
  <2> SUFFICES ASSUME IInv, [Next]_vars PROVE IInv'
    OBVIOUS
  <2>1. TypeOK /\ TextOK /\ ReadersOK /\ CallsOK /\ Pairing
    BY DEF IInv
  <2>2. Grows /\ TypeOK' /\ TextOK' /\ ReadersOK' /\ CallsOK'
    BY <2>1, NextGrows, NextText, NextType
  <2>3. Pairing'
    BY <2>1, <2>2, QuietSteps, QuietKeeps, PutPairs, TakeBackPairs, ReadPairs,
       DeliverPairs, FailPairs
  <2> QED
    BY <2>2, <2>3 DEF IInv
<1> QED
  BY <1>1, <1>2, PTL DEF Spec

(* A call sleeps only while it will still be found, or because it was told *)
(* before it waited or another message had its number: for any number of   *)
(* calls, connections and calls of the server, and any interleaving of     *)
(* them with the readers.                                                  *)
THEOREM AsleepCorrect == Spec => []AsleepForCause
<1>1. IInv => AsleepForCause
  BY DEF IInv, CallsOK, Pairing, Found, Asleep, Entering, AsleepForCause, Delivering
<1> QED
  BY <1>1, InductiveInvariant, PTL

(* No call is given another's answer unless it shares its number, and none *)
(* is both answered and told that its connection is lost.                  *)
THEOREM SettledCorrect == Spec => []SettledOnce
<1>1. IInv => SettledOnce
  BY DEF IInv, Pairing, Right, SettledOnce
<1> QED
  BY <1>1, InductiveInvariant, PTL
=============================================================================
