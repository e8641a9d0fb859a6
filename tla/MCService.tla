----------------------------- MODULE MCService ------------------------------
(* Instance of Service: configurations that are complete, edited, or wrong *)
(* in the ways the reader and the server tell apart.                       *)
EXTENDS Service

SiteA(port) == <<Field("name", Str("a")), Field("root", Str("ra")), Field("port", Num(port))>>
SiteB(port) == <<Field("name", Str("b")), Field("port", Num(port)), Field("root", Str("rb"))>>
PortFirst   == <<Field("port", Num(80)), Field("name", Str("a")), Field("root", Str("ra"))>>
OneKey      == <<Field("name", Str("a"))>>

Cores == Field("cpu_cores", Num(1))
Limits(threads) == <<Field("per_process_max_events", Num(4)),
                     Field("per_process_max_thread_count", Num(threads))>>
Tls    == Section("tls", <<Field("cert", Str("c")), Field("key", Str("k"))>>)
Usual(sites) == Doc(<<Cores>>, sites, Limits(2), 2)

Good == Usual(<<SiteA(80), SiteB(81)>>)
Moved == Usual(<<SiteA(82), SiteB(80)>>)
Nested == Doc(<<Tls, Cores>>, <<Append(SiteA(80), Tls), SiteB(81)>>, Limits(2), 2)

MCLogDocs == {Good}
MCEdits == {Moved, Missing, Doc(<<Cores>>, <<SiteA(80)>>, <<Field("x", Num(90000))>>, 2)}
(* Documents to read: most are not complete, and main aborts on them.       *)
Family ==
    LET start == <<Field("name", Str("a")), Field("root", Str("ra"))>>
        sites == { start, start \o <<Tls>>, <<Field("name", Str("b")), Tls, Field("x", Num(1))>> }
        lists == {<<>>} \cup {<<s>> : s \in sites} \cup {<<s, t>> : s, t \in sites}
                 \cup {<<s, t, s>> : s, t \in sites}
        tops  == { <<>>, <<Tls, Cores>>, <<Cores, Tls>> }
        ends  == { <<>>, <<Field("y", Num(1)), Section("z", <<Field("x", Num(3))>>)>> }
    IN  {Doc(b, s, a, w) : b \in tops, s \in lists, a \in ends, w \in {2, 4}}

MCDocs ==
    { Good, Nested,
      Doc(<<Cores>> \o Limits(2), <<SiteA(80), SiteA(81), SiteB(80)>>, <<>>, 4),
      Doc(<<Cores>>, <<SiteA(80), SiteB(81)>>, Limits(0), 2),
      Doc(<<Cores>>, <<SiteA(80), SiteB(81)>>, <<>>, 2),
      Doc(<<Cores, Cores>>, <<Append(SiteA(80), Tls)>>, Limits(2), 4),
      Usual(<<PortFirst>>), Usual(<<OneKey, OneKey, SiteA(80)>>), Usual(<<SiteA(65616), SiteB(80)>>),
      Doc(<<Cores, Field("servers", Flow(0))>>, <<>>, Limits(2), 2),
      Doc(<<Field("log", Map), Cores>>, <<SiteA(80)>>, Limits(2), 2),
      Doc(<<Cores, Field("log", Junk)>>, <<SiteA(80)>>, Limits(2), 2),
      Doc(<<Field("host", Dotted(127, "127.0.0.1")), Cores>>, <<SiteA(80)>>, Limits(2), 2),
      Doc(<<Field("host", Dots("..")), Cores>>, <<SiteA(80)>>, Limits(2), 2),
      Doc(<<Field("ratio", Double(1)), Cores>>, <<SiteA(80)>>, Limits(2), 2),
      Usual(<<SiteA(90000)>>), Usual(<<Append(SiteA(80), Field("nice", Signed(5, "-5")))>>),
      Missing }
    \cup {d \in Family : Regular(d)}
=============================================================================
