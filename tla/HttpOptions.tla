----------------------------- MODULE HttpOptions -----------------------------
(***************************************************************************)
(* The options of the HTTP server (src/src/mongoose.c): how mg_start()     *)
(* takes them, the rules in their comma separated lists, the cookies of a  *)
(* request, the file of passwords and pages with server-side includes.     *)
(*                                                                         *)
(* An address is a sequence of four numbers.  A rule that has no "=" where *)
(* the code follows the pointer to what is behind it gives Crash.          *)
(***************************************************************************)
EXTENDS HttpText

NoValue == <<"no value">>
Crash   == -1

(* next_option(), to the end of a list: each rule, where it begins in what *)
(* is left of the list, its name and its value as the code is given them.  *)
(* Nothing follows the last comma.                                         *)
RECURSIVE Options(_)
Options(list) ==
    LET comma == FirstIn(list, 1, {","})
        rule  == SubSeq(list, 1, comma - 1)
        eq    == FirstIn(rule, 1, {"="})
    IN  IF list = << >> THEN << >>
        ELSE <<[text |-> list, rule |-> rule, name |-> SubSeq(rule, 1, eq - 1),
                value |-> IF eq > Len(rule) THEN NoValue ELSE From(list, eq + 1)]>>
             \o Options(From(list, comma + 1))

(* sscanf(): the numbers read before the text differs from the format, and *)
(* where that is.                                                          *)
Scan(s, format) ==
    LET Read(st, f) ==
            LET sign  == FirstOut(s, st.at, {" "})
                from  == IF At(s, sign) \in {"+", "-"} THEN sign + 1 ELSE sign
                end   == FirstOut(s, from, DecDigits)
                value == Numeral(SubSeq(s, from, end - 1))
            IN  IF ~st.ok THEN st
                ELSE IF f # "%d" THEN [st EXCEPT !.ok = At(s, st.at) = f, !.at = @ + 1]
                ELSE IF end = from THEN [st EXCEPT !.ok = FALSE]
                ELSE [st EXCEPT !.at = end,
                                !.numbers = Append(@, IF At(s, sign) = "-" THEN - value ELSE value)]
    IN  FoldLeft(Read, [ok |-> TRUE, at |-> 1, numbers |-> << >>], format)

Quad == <<"%d", ".", "%d", ".", "%d", ".", "%d">>
-----------------------------------------------------------------------------
(* Nets.                                                                   *)

(* Mutant of ParseNet: 32 is not the size of a net.                        *)
ParseNetShort(spec) ==
    LET sized == Scan(spec, Quad \o <<"/", "%d">>).numbers
        quad  == Scan(spec, Quad).numbers
        size  == IF Len(sized) = 5 THEN sized[5] ELSE 32
        ok    == Len(quad) = 4 /\ Range(quad) \subseteq 0 .. 255 /\ size \in 0 .. 31
    IN  [ok |-> ok, net |-> quad, size |-> size]

(* parse_net(): a size that is not a number is left out, and so is what    *)
(* follows; one that is too large makes the whole malformed.               *)
ParseNet(spec) ==
    LET sized == Scan(spec, Quad \o <<"/", "%d">>).numbers
        quad  == Scan(spec, Quad).numbers
        size  == IF Len(sized) = 5 THEN sized[5] ELSE 32
        ok    == Len(quad) = 4 /\ Range(quad) \subseteq 0 .. 255 /\ size \in 0 .. 32
    IN  [ok |-> ok, net |-> quad, size |-> size]

(* (remote_ip & mask) == net, octet by octet.                              *)
Masked(ip, size) == [i \in 1 .. 4 |->
    LET kept == Min({8, Max({0, size - 8 * (i - 1)})})
    IN  (ip[i] \div 2 ^ (8 - kept)) * 2 ^ (8 - kept)]

InNet(ip, n) == Masked(ip, n.size) = n.net

(* check_acl(): -1 for a list that is malformed, 0 for an address that is  *)
(* refused.  The last rule for an address decides.                         *)
CheckAcl(list, ip) ==
    LET Decide(st, flag, n) ==
            IF st = -1 \/ flag \notin {"+", "-"} \/ ~n.ok THEN -1
            ELSE IF InNet(ip, n) THEN (IF flag = "+" THEN 1 ELSE 0)
            ELSE st
        Rule(st, o) == Decide(st, At(o.text, 1), ParseNet(Tail(o.text)))
    IN  FoldLeft(Rule, IF list = NoValue THEN 1 ELSE 0, IF list = NoValue THEN << >> ELSE Options(list))

(* set_throttle(): bytes a second, of the last rule that speaks of all, of *)
(* the address or of the uri.  Fractions are left out.                     *)
SetThrottle(spec, ip, uri) ==
    LET Factor == [m \in {",", Nul, "k", "K", "m", "M"} |->
                     IF m \in {"k", "K"} THEN 1024 ELSE IF m \in {"m", "M"} THEN 1048576 ELSE 1]
        Speaks(o, n) == \/ o.name = <<"*">>
                        \/ n.ok /\ InNet(ip, n)
                        \/ ~n.ok /\ o.name # <<"*">> /\ MatchPrefix(o.name, uri) > 0
        Rule(st, o) ==
            LET end  == FirstOut(o.value, 1, DecDigits)
                mult == At(o.value, end)
            IN  IF st = Crash \/ o.value = NoValue THEN Crash
                ELSE IF end > 1 /\ mult \in DOMAIN Factor /\ Speaks(o, ParseNet(o.text))
                THEN Numeral(SubSeq(o.value, 1, end - 1)) * Factor[mult]
                ELSE st
    IN  FoldLeft(Rule, 0, Options(spec))
-----------------------------------------------------------------------------
(* mg_start().                                                             *)

(* parse_port_string(): an address and a port, or a port.  Neither the     *)
(* octets nor the port are looked at, which keeps its last 16 bits, nor is *)
(* what follows the port of an address.                                    *)
ParsePortString(o) ==
    LET Socket(addr, port, end) ==
            [ok |-> TRUE, ssl |-> end = "s", addr |-> addr, port |-> port % 2 ^ 16]
        Port(short) ==
            IF short.numbers = << >> \/ At(o.text, short.at) \notin {Nul, "s", ","} THEN [ok |-> FALSE]
            ELSE Socket(<<0, 0, 0, 0>>, short.numbers[1], At(o.text, short.at))
        Full(five) ==
            IF Len(five.numbers) = 5
            THEN Socket(SubSeq(five.numbers, 1, 4), five.numbers[5], At(o.text, five.at))
            ELSE Port(Scan(o.text, <<"%d">>))
    IN  Full(Scan(o.text, Quad \o <<":", "%d">>))

(* Mutant of Abandoned: sockets that were opened stay open.                *)
AbandonedNone(sockets) == sockets

(* close_all_listening_sockets().                                          *)
Abandoned(sockets) == << >>

(* bind() fails where a socket listens already.                            *)
Overlap(a, b) ==
    /\ a.port = b.port
    /\ a.addr = b.addr \/ <<0, 0, 0, 0>> \in {a.addr, b.addr}

(* set_ports_option(): the sockets it opens, none if one of them fails.    *)
(* env has the sockets of others and whether there is a certificate.       *)
SetPorts(list, env) ==
    LET Listen(st, o) ==
            LET Bind(so) ==
                    IF \/ ~st.ok \/ ~so.ok
                       \/ so.ssl /\ ~env.cert
                       \/ \E b \in Range(st.sockets) \union env.bound : Overlap(so, b)
                    THEN [st EXCEPT !.ok = FALSE]
                    ELSE [st EXCEPT !.sockets = <<so>> \o @]
            IN  Bind(ParsePortString(o))
        End(st) == IF st.ok THEN st ELSE [st EXCEPT !.sockets = Abandoned(@)]
    IN  End(FoldLeft(Listen, [ok |-> TRUE, sockets |-> << >>], Options(list)))

(* config_options, by index: two names and a default.                      *)
ConfigOptions == <<
    [name |-> {"l", "access_control_list"}, default |-> NoValue],
    [name |-> {"p", "listening_ports"}, default |-> <<"8", "0", "8", "0">>],
    [name |-> {"u", "run_as_user"}, default |-> NoValue]>>
ACL == 1
LISTENING_PORTS == 2
RUN_AS_USER == 3

(* The part of mg_start() before its threads: pairs of name and value, the *)
(* last of which may be missing.  config is what it works with, and        *)
(* sockets are the ones that are open in the end, whether it starts or not:*)
(* free_context() closes none.                                             *)
MgStart(options, env) ==
    LET Index(name) == {i \in DOMAIN ConfigOptions : name \in ConfigOptions[i].name}
        bad == {k \in DOMAIN options : Index(options[k].name) = {} \/ options[k].value = NoValue}
        config == [i \in DOMAIN ConfigOptions |->
            LET given == {k \in DOMAIN options : i \in Index(options[k].name)}
            IN  IF given = {} THEN ConfigOptions[i].default ELSE options[Max(given)].value]
        user  == config[RUN_AS_USER] = NoValue \/ config[RUN_AS_USER] \in env.users
        With(ports) ==
            [started |-> ports.ok /\ user /\ CheckAcl(config[ACL], <<127, 0, 0, 1>>) # -1,
             sockets |-> ports.sockets]
    IN  IF bad # {} THEN [started |-> FALSE, sockets |-> << >>]
        ELSE With(SetPorts(config[LISTENING_PORTS], env))
-----------------------------------------------------------------------------
(* Cookies.                                                                *)

(* mg_get_cookie(): NoValue is its -1.  A name is looked for anywhere in   *)
(* the header, and the value lasts to the next space.                      *)
MgGetCookie(s, name, size) ==
    LET n  == Len(name)
        Named(p)  == SubSeq(s, p, p + n - 1) = name
        RECURSIVE Seen(_)
        Seen(p) == LET next == {q \in p .. Len(s) - n + 1 : Named(q)}
                   IN  IF next = {} THEN 0
                       ELSE IF At(s, Min(next) + n) = "=" THEN Min(next) ELSE Seen(Min(next) + n)
        from  == Seen(1) + n + 1
        space == FirstIn(s, from, {" "})
        end   == IF s[space - 1] = ";" THEN space - 1 ELSE space
        quoted == At(s, from) = "\"" /\ s[end - 1] = "\"" /\ end > from + 1
        value == IF quoted THEN SubSeq(s, from + 1, end - 2) ELSE SubSeq(s, from, end - 1)
    IN  IF Seen(1) = 0 \/ Len(value) >= size THEN NoValue ELSE value
-----------------------------------------------------------------------------
(* The file of passwords, a sequence of lines; one that is not a record is *)
(* [user |-> NoUser].  MD5 of user, domain and password is the triple.     *)

NoUser == "no user"
Md5(user, domain, pass) == <<user, domain, pass>>

(* mg_modify_passwords_file(): an empty password removes the user, each of *)
(* whose records gets the new one; lines that are not records are dropped. *)
ModifyPasswords(file, domain, user, pass) ==
    LET Mine(r) == r.user = user /\ r.domain = domain
        record  == [user |-> user, domain |-> domain, ha1 |-> Md5(user, domain, pass)]
        records == SelectSeq(file, LAMBDA r : r.user # NoUser)
        others  == SelectSeq(records, LAMBDA r : ~Mine(r))
    IN  IF pass = "" THEN others
        ELSE IF \E i \in DOMAIN records : Mine(records[i])
             THEN [i \in DOMAIN records |-> IF Mine(records[i]) THEN record ELSE records[i]]
             ELSE Append(records, record)

(* authorize(), with the password the client knows: the first record of    *)
(* the user decides.                                                       *)
Authorized(file, domain, user, pass) ==
    LET mine == {i \in DOMAIN file : file[i].user = user /\ file[i].domain = domain}
    IN  mine # {} /\ file[Min(mine)].ha1 = Md5(user, domain, pass)
-----------------------------------------------------------------------------
(* Server-side includes.  MaxTag is the size of the buffer of              *)
(* send_ssi_file(); files maps a path to its text, and pattern tells which *)
(* of them have includes of their own.                                     *)

CONSTANTS MaxTag, MaxLevel

TagStart == <<"<", "!", "-", "-", "#">>

(* Mutant of TooDeep: one level less.                                      *)
DeepEnough(level) == level >= MaxLevel

TooDeep(level) == level > MaxLevel

(* sscanf() with "%[^\"]": the name in quotes at the start of t, or << >>. *)
Quoted(t) == IF At(t, 1) = "\"" THEN SubSeq(t, 2, FirstIn(t, 2, {"\""}) - 1) ELSE << >>

(* The file an include names, or NoValue: relative to the root, to the     *)
(* working directory or to the page.                                       *)
IncludedFile(root, page, t) ==
    LET dir == SubSeq(page, 1, Max({i \in DOMAIN page : page[i] = "/"} \union {0}))
    IN  CASE At(t, 1) = "virtual=" /\ Quoted(Tail(t)) # << >> -> root \o <<"/">> \o Quoted(Tail(t))
          [] At(t, 1) = "file=" /\ Quoted(Tail(t)) # << >> -> Quoted(Tail(t))
          [] Quoted(t) # << >> -> (IF dir = << >> THEN page ELSE dir) \o Quoted(t)
          [] OTHER -> NoValue

RECURSIVE SendSsiFile(_, _, _, _, _)

(* What a program prints.                                                  *)
Output(cmd) == <<"output">> \o cmd

(* do_ssi_include() and do_ssi_exec(): what is sent for a tag.             *)
SendTag(files, pattern, root, page, level, tag) ==
    LET t    == From(tag, FirstOut(tag, 7, {" "}))
        file == IncludedFile(root, page, t)
    IN  CASE At(tag, 6) = "include" /\ file \in DOMAIN files ->
               IF MatchPrefix(pattern, file) > 0
               THEN SendSsiFile(files, pattern, root, file, level + 1) ELSE files[file]
          [] At(tag, 6) = "exec" /\ Quoted(t) # << >> -> Output(Quoted(t))
          [] OTHER -> << >>

(* send_ssi_file(): a tag is collected until it ends, until five of its    *)
(* characters show that it is none, or until it is too large.              *)
SendSsiFile(files, pattern, root, page, level) ==
    LET Read(st, ch) ==
            LET all == Append(st.buf, ch)
            IN  CASE st.tag /\ ch = ">" ->
                       [tag |-> FALSE, buf |-> << >>,
                        out |-> st.out \o (IF Len(all) < 6 \/ SubSeq(all, 1, 5) # TagStart THEN all
                                           ELSE SendTag(files, pattern, root, page, level, all))]
                  [] st.tag /\ ch # ">" /\ Len(st.buf) = 5 /\ st.buf # TagStart ->
                       [st EXCEPT !.tag = FALSE, !.buf = all]
                  [] st.tag /\ ch # ">" /\ (Len(st.buf) # 5 \/ st.buf = TagStart) ->
                       [st EXCEPT !.buf = IF Len(@) = MaxTag - 2 THEN <<ch>> ELSE all]
                  [] ~st.tag /\ ch = "<" -> [tag |-> TRUE, buf |-> <<ch>>, out |-> st.out \o st.buf]
                  [] ~st.tag /\ ch # "<" -> [st EXCEPT !.buf = all]
        end == FoldLeft(Read, [tag |-> FALSE, buf |-> << >>, out |-> << >>], files[page])
    IN  IF TooDeep(level) THEN << >> ELSE end.out \o end.buf
=============================================================================
