------------------------------- MODULE Settings -------------------------------
(***************************************************************************)
(* The configuration of the server: PlainConfig (src/src/utils), the texts *)
(* of points and sizes (src/src/geo.cpp), and what LocServer::init() makes *)
(* of them.  The name of a setting is one character; numbers are integers. *)
(***************************************************************************)
EXTENDS TextBase

CONSTANT MaxInt     \* the largest int

SpaceChars == {" ", "\t", "\r", "\n"}

(* boost::trim().                                                          *)
Trim(s) ==
    LET from == FirstOut(s, 1, SpaceChars)
        to   == Max({i \in DOMAIN s : s[i] \notin SpaceChars} \union {0})
    IN  SubSeq(s, from, to)

(* boost::split() with token_compress_on: separators that touch are one.   *)
Split(s, set) ==
    LET parts == Parts(s, set)
    IN  FoldLeft(LAMBDA done, i : IF i \in 2 .. Len(parts) - 1 /\ parts[i] = << >> THEN done
                                  ELSE Append(done, parts[i]),
                 << >>, [i \in DOMAIN parts |-> i])

(* boost::algorithm::join() of all but the first.                          *)
JoinRest(parts, sep) ==
    FoldLeft(LAMBDA text, i : text \o (IF i = 2 THEN << >> ELSE <<sep>>) \o parts[i],
             << >>, [i \in 1 .. Len(parts) - 1 |-> i + 1])

(* Mutant of Stored: the first value of a setting stays.                   *)
StoredOnce(props, key, value) == props @@ (key :> value)

Stored(props, key, value) == (key :> value) @@ props

(* PlainConfig::load(), one line.                                          *)
LoadLine(props, line) ==
    LET text   == Trim(line)
        params == Split(Split(text, {"#"})[1], {"="})
    IN  IF text = << >> \/ At(text, 1) = "#" \/ Len(params) < 2 THEN props
        ELSE Stored(props, Trim(params[1]), Trim(JoinRest(params, "=")))

(* PlainConfig::load(): the zero put behind the text belongs to its last   *)
(* line.                                                                   *)
Load(text) == FoldLeft(LoadLine, << >>, Split(text \o <<Nul>>, {"\n"}))

(* PlainConfig::getProperty().                                             *)
TextProperty(props, name, default) ==
    IF <<name>> \in DOMAIN props THEN props[<<name>>] ELSE default

Signed(s)   == At(s, 1) \in {"-", "+"}
Digital(s)  == IF Signed(s) THEN Tail(s) ELSE s
IsInteger(s) == Digital(s) # << >> /\ Range(Digital(s)) \subseteq DecDigits
Integer(s)  == IF At(s, 1) = "-" THEN - Numeral(Digital(s)) ELSE Numeral(Digital(s))

(* getProperty<int>(), and <uint32_t>(), for which lexical_cast takes a    *)
(* minus and negates in 32 bits.                                           *)
IntProperty(props, name, default) ==
    LET s == TextProperty(props, name, << >>)
    IN  IF IsInteger(s) /\ Numeral(Digital(s)) <= MaxInt THEN Integer(s) ELSE default

UnsignedProperty(props, name, default) ==
    LET s == TextProperty(props, name, << >>)
        width == 2 * (MaxInt + 1)
    IN  IF IsInteger(s) /\ Numeral(Digital(s)) < width THEN Integer(s) % width ELSE default

(* GeoPoint::fromText() and GeoSize::fromText(): two numbers, without a    *)
(* blank between them.                                                     *)
PairFromText(text) ==
    LET Pair(values) == IF Len(values) = 2 /\ \A i \in 1 .. 2 : IsInteger(values[i])
                        THEN [ok |-> TRUE, pair |-> <<Integer(values[1]), Integer(values[2])>>]
                        ELSE [ok |-> FALSE]
    IN  Pair(Split(Trim(text), {","}))

(* The timer looks every five seconds at most.                             *)
CheckWait(seconds) == Max({seconds, 5})

(* LocServer::init() behind conf.load(): where it gives up, if it does, and*)
(* the settings that the parts of the server were given by then.  It does  *)
(* not ask the HTTP service whether it started.  env has what fails outside*)
(* of it.                                                                  *)
StartWith(conf, env) ==
    LET region == PairFromText(TextProperty(conf, "maxregion", <<"1", ",", "1">>))
        origin == PairFromText(TextProperty(conf, "map.origin", <<"1", "0", ",", "7", "0">>))
        cell   == PairFromText(TextProperty(conf, "map.cell", <<"1", ",", "1">>))
        steps  == << [at |-> "configuration", ok |-> "configuration" \notin env],
                     [at |-> "log", ok |-> "log" \notin env],
                     [at |-> "maxregion", ok |-> region.ok],
                     [at |-> "database", ok |-> "database" \notin env],
                     [at |-> "map.origin", ok |-> origin.ok],
                     [at |-> "map.cell", ok |-> cell.ok] >>
        failed == {i \in DOMAIN steps : ~steps[i].ok}
    IN  IF failed # {} THEN [end |-> steps[Min(failed)].at]
        ELSE [end       |-> "running",
              maxregion |-> region.pair, origin |-> origin.pair, cell |-> cell.pair,
              syncwater |-> UnsignedProperty(conf, "syncpoint", 20),
              dbsync    |-> IntProperty(conf, "dbsync", 1),
              port      |-> IntProperty(conf, "http.port", 8080),
              threads   |-> IntProperty(conf, "http.threadnum", 20),
              queue     |-> TextProperty(conf, "mq.name", <<"mq_location">>),
              checkwait |-> CheckWait(IntProperty(conf, "checkwait", 5))]

(* LocServer::init(), for a file with this text.                           *)
ServerInit(text, env) == StartWith(Load(text), env)
=============================================================================
