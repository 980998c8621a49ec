----------------------------- MODULE MCLifecycle -----------------------------
(* Small instances of Lifecycle: configurations that exercise start-up, and *)
(* configurations that serve.                                              *)
EXTENDS Lifecycle, TLC

MCWidth == [A |-> 2, AAAA |-> 1]
A(ip) == [type |-> "A", ip |-> ip]
AAAA(ip) == [type |-> "AAAA", ip |-> ip]

\* dns and real are domains of upstream servers, ? is a misread address.
MCHostNames == {"dns", "real", "?"}
MCReplies ==
  [n \in MCHostNames |->
     CASE n = "dns" -> {A(1), AAAA(1), [type |-> "CNAME", ip |-> 0]}
       [] n = "real" -> {A(2), A(1)}
       [] n = "?" -> {}]

Miss == [kind |-> "miss"]
Ips(s) == [kind |-> "ips", ips |-> s]
Alias(n) == [kind |-> "alias", to |-> n]
Table(dns, real) ==
  [n \in MCHostNames |-> IF n = "dns" THEN dns ELSE IF n = "real" THEN real ELSE Miss]

Empty == Table(Miss, Miss)
\* Addresses of one family or both, an alias with and without, and a loop.
AllTables ==
  {Empty, Table(Ips(<<AAAA(0)>>), Miss), Table(Ips(<<AAAA(1), A(2), A(0), A(2)>>), Miss),
   Table(Alias("real"), Miss), Table(Alias("real"), Ips(<<A(3)>>)),
   Table(Alias("real"), Alias("dns"))}

Server(group, scheme, form, port, addr, name, family) ==
  [group |-> group, scheme |-> scheme, form |-> form, port |-> port, addr |-> addr,
   name |-> name, family |-> family]
Ip(group) == Server(group, "udp", "v4", "absent", A(0), "?", "any")
Ip6(group) == Server(group, "tcp", "v6b", "good", AAAA(0), "?", "any")
Domain(group, scheme, name, family) ==
  Server(group, scheme, "domain", "absent", A(0), name, family)

\* 2/1 prefers the addresses 2 and 3.
Raw == [section |-> "valid", prefers |-> <<[family |-> "A", net |-> 2, prefix |-> 1]>>,
        mode |-> "none", max |-> 0]

Binding(scheme, p) == [scheme |-> scheme, path |-> p]

Config(servers, names, tables, binds, tls, ui, log) ==
  [servers |-> servers, names |-> names, raw |-> Raw, tables |-> tables,
   binds |-> binds, tls |-> tls, ui |-> ui, log |-> log]

\* Start-up: nothing to serve.
Starting(servers, names, tables) ==
  Config(servers, names, tables, << >>, "none", FALSE, "stdout")

StartUps ==
  {Starting(<<Ip(1), Ip6(1), Domain(2, "tls", "dns", family), Domain(2, "https", "real", "ipv4")>>,
            <<"plain", "secure">>, AllTables) : family \in {"ipv6", "any"}}
  \cup {Starting(<<Domain(1, "quic", "dns", family)>>, <<"one">>, AllTables) :
          family \in {"ipv4", "ipv6"}}
  \cup {Starting(<<Ip(1), Domain(2, "udp", "real", "ipv4")>>, <<"same", "same">>, {Empty})}
  \cup {Starting(<<Ip(1), Server(1, scheme, form, port, A(1), "dns", "any")>>, <<"one">>, {Empty}) :
          scheme \in {"none", "tls", "h3", "sdns"}, form \in {"v4", "v6b", "domain", "empty"},
          port \in {"good", "bad"}}
  \cup {Starting(<<Ip(1), Server(1, scheme, form, "absent", AAAA(1), "dns", "any")>>, <<"one">>, {Empty}) :
          scheme \in {"none", "tls", "h3"}, form \in {"v6", "v6dec"}}

\* Service, with one address for upstream.
Serving(binds, tls, ui, log) == Config(<<Ip(1)>>, <<"one">>, {Empty}, binds, tls, ui, log)

Services ==
  {Serving(<<Binding("none", "none")>>, "none", TRUE, "directory"),
   Serving(<<Binding("tcp", "none"), Binding("tls", "none")>>, "both", FALSE, "stdout"),
   Serving(<<Binding("h3", "none"), Binding("https", "dns-query")>>, "both", FALSE, "stdout"),
   Serving(<<Binding("tls", "none")>>, "one", FALSE, "stdout"),
   Serving(<<Binding("https", "other")>>, "none", FALSE, "stdout"),
   Serving(<<Binding("quic", "none")>>, "none", FALSE, "stdout"),
   Serving(<<Binding("none", "none")>>, "none", FALSE, "colon")}

Request(p, method, ctype, body, dns) ==
  [path |-> p, method |-> method, ctype |-> ctype, body |-> body, dns |-> dns]
MCRequests ==
  {Request("dns-query", "POST", "dns-message", "read", "absent"),
   Request("dns-query", "GET", "none", "none", "invalid"),
   Request("other", "POST", "other", "none", "absent")}

MCStart == StartUps
MCService == StartUps \cup Services
=============================================================================
