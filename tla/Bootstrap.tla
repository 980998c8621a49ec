------------------------------- MODULE Bootstrap -------------------------------
(***************************************************************************)
(* upstream::init (upstream/mod.rs): the servers of the `upstreams` section *)
(* are parsed, those given by a domain are resolved one after the other,   *)
(* through hosts or through the servers given by an address, and the named *)
(* groups are assembled from the pools.                                    *)
(*                                                                         *)
(* A bootstrap client is the pool of one address: ConnPool models how it   *)
(* asks, here it answers or fails.  The watchers of the hosts stage run by *)
(* then, so that the hosts table may change between two looks at it.       *)
(***************************************************************************)
EXTENDS Balance

CONSTANTS
  Setups,      \* configurations: [servers, names, raw, tables], the last the
               \* contents the hosts files may have
  HostNames,   \* names hosts and the network are asked for
  Garbled,     \* the name a misread address becomes
  Replies,     \* Replies[n]: the A, AAAA and CNAME records of name n
  MaxReloads   \* bound: hosts reloads during start-up

\* An address; what hosts holds of a name: nothing, addresses in the order of
\* the files, or another name.
Addresses == [type : Families, ip : Nat]
Entries == [kind : {"miss"}]
             \cup [kind : {"ips"}, ips : Seq(Addresses)]
             \cup [kind : {"alias"}, to : HostNames]

\* A server of the configuration: the address it is given by, or its name.
Literals == {"v4", "v6", "v6dec", "v6b"}
Upstreams == [group : Nat, scheme : STRING, form : Literals \cup {"domain", "empty"},
              port : {"absent", "good", "bad"}, addr : Addresses, name : HostNames,
              family : STRING]

ASSUME HostNamesAssumption == IsFiniteSet(HostNames) /\ Garbled \in HostNames
ASSUME RepliesAssumption ==
  /\ DOMAIN Replies = HostNames
  /\ \A n \in HostNames :
       IsFiniteSet(Replies[n]) /\ \A r \in Replies[n] : r.type \in Families => r \in Addresses
ASSUME SetupsAssumption ==
  \A s \in Setups :
    /\ s.tables \subseteq [HostNames -> Entries]
    /\ s.servers \in Seq(Upstreams)
    /\ s.raw.section \notin {"absent", "invalid"} =>
         s.raw.prefers \in Seq([family : Families, net : Nat, prefix : Nat])
ASSUME MaxReloadsAssumption == MaxReloads \in Nat

VARIABLES
  setup,      \* the configuration, fixed
  table,      \* what the hosts trie holds
  reloads,    \* hosts reloads so far
  phase,      \* checking, resolving, asking, resolved, failed or assembled
  at,         \* the server being resolved
  asked,      \* the name resolve_host_all asks for
  pending,    \* its queries without an answer: <<client, qtype>>
  addrs,      \* the addresses it collected
  pools,      \* pools[i]: the addresses of server i's pool, << >> if it has none
  groups,     \* groups[g]: the servers of group g, in order
  seen,       \* history: seen[i], how server i was resolved
  failures    \* history: the bootstrap queries that failed, <<server, query>>

bootVars == <<setup, table, reloads, phase, at, asked, pending, addrs,
              pools, groups, seen, failures>>

-----------------------------------------------------------------------------
(* Server addresses.  A host is a literal (v4, v6, v6dec: an IPv6 literal   *)
(* whose last group reads as a port and leaves no address, v6b: one in     *)
(* brackets), a domain, or empty; a port is absent, good or bad, and always *)
(* absent after a bare IPv6 literal, where it would be another group.      *)

Unparsed == [kind |-> "none"]
Pool(s) == [kind |-> "pool", addr |-> s.addr]
NeedResolve(n, s) == [kind |-> "resolve", server_name |-> n, prefer_family |-> s.family]

\* parse_host_port_default_53.
PlainAddress(s) ==
  CASE s.form = "empty" \/ (s.port = "bad" /\ s.form # "v6b") -> Unparsed
    [] s.form = "domain" /\ s.port # "bad" -> NeedResolve(s.name, s)
    [] OTHER -> Pool(s)

\* from_tls_url, with parse_host_port: the last colon ends the host if a port follows, brackets
\* stay part of it, and what is left is a domain unless it reads as an address.
SecureAddress(s) ==
  CASE \/ s.form = "v4" /\ s.port # "bad"
       \/ s.form = "v6" /\ s.port = "absent" -> Pool(s)
    [] s.form = "domain" /\ s.port # "bad" -> NeedResolve(s.name, s)
    [] OTHER -> NeedResolve(Garbled, s)

\* from_quic_url reads an address the way from_tls_url does.
QuicAddress(s) == SecureAddress(s)

\* Url::parse: host_str keeps the brackets of an IPv6 literal, and an IPv6
\* literal without brackets, a bad port or no host is no URL.
UrlAddress(s) ==
  CASE s.port = "bad" \/ s.form \in {"empty", "v6", "v6dec"} -> Unparsed
    [] s.port # "bad" /\ s.form = "v4" -> Pool(s)
    [] s.port # "bad" /\ s.form = "v6b" -> NeedResolve(Garbled, s)
    [] s.port # "bad" /\ s.form = "domain" -> NeedResolve(s.name, s)

\* A scheme that scheme does not know stays in a plain address, whose last colon
\* then ends a domain if a port follows.
OddAddress(s) ==
  IF s.port = "good" \/ s.form = "v6dec" THEN NeedResolve(Garbled, s) ELSE Unparsed

\* scheme and parse_upstream.
parse_upstream(s) ==
  CASE s.scheme \in {"none", "udp", "tcp"} -> PlainAddress(s)
    [] s.scheme = "tls" -> SecureAddress(s)
    [] s.scheme = "quic" -> QuicAddress(s)
    [] s.scheme \in {"https", "h3"} -> UrlAddress(s)
    [] OTHER -> OddAddress(s)

Servers == DOMAIN setup.servers
config(i) == parse_upstream(setup.servers[i])
IpServers == {i \in Servers : config(i).kind = "pool"}
DynamicServers == {i \in Servers : config(i).kind = "resolve"}

-----------------------------------------------------------------------------
(* Resolution                                                              *)

\* The walk of Hosts::resolve_host_name through a table, from <<name, visited>>:
\* along the aliases to addresses, to a name hosts does not have, or back to a
\* name already visited.
walk(tab) ==
  LET from[p \in HostNames \X SUBSET HostNames] ==
        IF p[1] \in p[2] \/ tab[p[1]].kind = "miss"
        THEN [kind |-> "Network", name |-> p[1]]
        ELSE IF tab[p[1]].kind = "ips"
        THEN [kind |-> "Static", ips |-> tab[p[1]].ips]
        ELSE from[<<tab[p[1]].to, p[2] \cup {p[1]}>>]
  IN from

\* Under one read lock.
resolve_host_name(n) == walk(table)[<<n, {}>>]

OfFamily(r, family) ==
  CASE family = "ipv4" -> r.type = "A"
    [] family = "ipv6" -> r.type = "AAAA"
    [] OTHER -> r.type \in Families

\* ips_to_addrs.
ips_to_addrs(ips, family) ==
  Picked(ips, {i \in 1 .. Len(ips) : OfFamily(ips[i], family)})

\* sort_unstable on addresses of one port: IPv4 first, then by value; with
\* dedup, the sequence of a set.
Before(a, b) ==
  \/ a.type = "A" /\ b.type = "AAAA"
  \/ a.type = b.type /\ a.ip < b.ip
SortDedup(S) == Ordered(S, {p \in S \X S : Before(p[1], p[2])})

\* ConnectionPool::with_proto sorts whatever order it is given.
with_proto(s) == SortDedup({s[i] : i \in 1 .. Len(s)})

\* The balance stage.
balance == init(setup.raw)

\* rank_ips, then build_resolved_pool.
build_resolved_pool(s) == with_proto(rank_ips(balance, s))

\* What resolve_host_all asks the bootstrap clients.
Asks(family) ==
  IpServers \X {t \in Families : OfFamily([type |-> t], family)}

-----------------------------------------------------------------------------
(* Actions                                                                 *)

Unresolved == [kind |-> "none"]

BootInit ==
  /\ setup \in Setups
  /\ table \in setup.tables
  /\ reloads = 0
  /\ phase = "checking"
  /\ at = 0
  /\ asked = Garbled
  /\ pending = {} /\ addrs = {}
  /\ pools = [i \in Servers |-> IF config(i).kind = "pool" THEN <<config(i).addr>> ELSE << >>]
  /\ groups = << >>
  /\ seen = [i \in Servers |-> Unresolved]
  /\ failures = {}

\* Phase 1: without a bootstrap client, hosts must cover every domain.
NeedsNetwork ==
  \E i \in DynamicServers : resolve_host_name(config(i).server_name).kind # "Static"

\* Mutation: the server just resolved comes again.
MutNextServer_Again(i) ==
  LET rest == {j \in DynamicServers : j >= i} IN
  IF rest = {} THEN Len(setup.servers) + 1 ELSE CHOOSE j \in rest : \A k \in rest : j <= k

\* The first server after i that phase 2 resolves, or one past the last.
NextServer(i) ==
  LET rest == {j \in DynamicServers : j > i} IN
  IF rest = {} THEN Len(setup.servers) + 1 ELSE CHOOSE j \in rest : \A k \in rest : j <= k

Proceed(i) ==
  /\ at' = NextServer(i)
  /\ phase' = IF at' \in Servers THEN "resolving" ELSE "resolved"

Check ==
  /\ phase = "checking"
  /\ IF IpServers = {} /\ NeedsNetwork THEN phase' = "failed" /\ UNCHANGED at
     ELSE Proceed(0)
  /\ UNCHANGED <<setup, table, reloads, asked, pending, addrs, pools, groups,
                 seen, failures>>

\* Phase 2.  A pool is built of addresses, and the next server is resolved.
Built(s, how) ==
  /\ pools' = [pools EXCEPT ![at] = build_resolved_pool(s)]
  /\ seen' = [seen EXCEPT ![at] = how]
  /\ Proceed(at)

\* Hosts covers the server with addresses of its family.
FromHosts ==
  LET c == config(at)
      r == resolve_host_name(c.server_name)
  IN
  /\ phase = "resolving"
  /\ r.kind = "Static" /\ ips_to_addrs(r.ips, c.prefer_family) # << >>
  /\ Built(ips_to_addrs(r.ips, c.prefer_family), r)
  /\ UNCHANGED <<setup, table, reloads, asked, pending, addrs, groups, failures>>

\* Mutation: an alias does not change the name the network is asked for.
MutAskNetwork_OwnName ==
  LET c == config(at)
      r == resolve_host_name(c.server_name)
  IN
  /\ phase = "resolving"
  /\ r.kind = "Static" => ips_to_addrs(r.ips, c.prefer_family) = << >>
  /\ asked' = c.server_name
  /\ pending' = Asks(c.prefer_family)
  /\ addrs' = {}
  /\ phase' = "asking"
  /\ UNCHANGED <<setup, table, reloads, at, pools, groups, seen, failures>>

\* Hosts names what to ask the network for, or has no address of the family:
\* then the network is asked for the server's own name.
AskNetwork ==
  LET c == config(at)
      r == resolve_host_name(c.server_name)
  IN
  /\ phase = "resolving"
  /\ \/ r.kind = "Network" /\ asked' = r.name
     \/ /\ r.kind = "Static" /\ ips_to_addrs(r.ips, c.prefer_family) = << >>
        /\ asked' = c.server_name
  /\ pending' = Asks(c.prefer_family)
  /\ addrs' = {}
  /\ phase' = "asking"
  /\ UNCHANGED <<setup, table, reloads, at, pools, groups, seen, failures>>

\* Mutation: an answer's addresses are taken whatever was asked for.
MutAnswer_AnyType(q, ok) ==
  /\ phase = "asking"
  /\ q \in pending
  /\ pending' = pending \ {q}
  /\ addrs' = IF ok THEN addrs \cup {r \in Replies[asked] : r.type \in Families} ELSE addrs
  /\ failures' = IF ok THEN failures ELSE failures \cup {<<at, q>>}
  /\ UNCHANGED <<setup, table, reloads, phase, at, asked, pools, groups, seen>>

\* One of the concurrent bootstrap queries ends, in any order: with the records
\* of the type it asked for among its answers, or in an error.
Answer(q, ok) ==
  /\ phase = "asking"
  /\ q \in pending
  /\ pending' = pending \ {q}
  /\ addrs' = IF ok THEN addrs \cup {r \in Replies[asked] : r.type = q[2]} ELSE addrs
  /\ failures' = IF ok THEN failures ELSE failures \cup {<<at, q>>}
  /\ UNCHANGED <<setup, table, reloads, phase, at, asked, pools, groups, seen>>

\* All have ended: the pool is built, or start-up fails.
FromNetwork ==
  /\ phase = "asking"
  /\ pending = {}
  /\ IF addrs = {} THEN phase' = "failed" /\ UNCHANGED <<pools, seen, at>>
     ELSE Built(SortDedup(addrs), [kind |-> "Network", name |-> asked])
  /\ UNCHANGED <<setup, table, reloads, asked, pending, addrs, groups, failures>>

\* Phase 3: clients in the order of the configuration, of the servers that were
\* parsed.  The last of several groups of one name stays.
Members(g) ==
  Ascending({i \in Servers : setup.servers[i].group = g /\ config(i).kind # "none"})
LastOf(n) ==
  CHOOSE g \in DOMAIN setup.names :
    /\ setup.names[g] = n
    /\ \A h \in DOMAIN setup.names : setup.names[h] = n => h <= g

Assemble ==
  /\ phase = "resolved"
  /\ groups' = [n \in {setup.names[g] : g \in DOMAIN setup.names} |-> Members(LastOf(n))]
  /\ phase' = "assembled"
  /\ UNCHANGED <<setup, table, reloads, at, asked, pending, addrs, pools, seen,
                 failures>>

\* A watcher swaps in another table.
HostsReload ==
  /\ phase \notin {"failed", "assembled"}
  /\ reloads < MaxReloads
  /\ \E t \in setup.tables \ {table} : table' = t
  /\ reloads' = reloads + 1
  /\ UNCHANGED <<setup, phase, at, asked, pending, addrs, pools, groups, seen, failures>>

AnswerSome == \E q \in pending, ok \in BOOLEAN : Answer(q, ok)

-----------------------------------------------------------------------------
(* Properties                                                              *)

Done == phase \in {"resolved", "assembled"}

\* The bootstrap queries of server i that did not fail.
Heard(i) == {q \in Asks(config(i).prefer_family) : <<i, q>> \notin failures}

\* What the network has for server i under name n.
NetworkAddrs(i, n) == {r \in Replies[n] : \E q \in Heard(i) : q[2] = r.type}

HostsAddrs(i, r) ==
  {r.ips[k] : k \in {j \in 1 .. Len(r.ips) : OfFamily(r.ips[j], config(i).prefer_family)}}

Resolvable(i) ==
  LET own == config(i).server_name
      r == resolve_host_name(own)
  IN CASE r.kind = "Network" -> NetworkAddrs(i, r.name) # {}
       [] r.kind = "Static" -> HostsAddrs(i, r) # {} \/ NetworkAddrs(i, own) # {}

\* upstream::init gives up only when a server has no address: neither hosts nor
\* any bootstrap client that answered has one of its family, whatever the other
\* clients failed at; and it never starts with such a server.  (Not stated for
\* a hosts table that changed meanwhile.)
StartsIffResolvable ==
  reloads = 0 =>
    /\ phase = "failed" => \E i \in DynamicServers : ~Resolvable(i)
    /\ Done => \A i \in DynamicServers : Resolvable(i)

\* A resolved pool has exactly the addresses of its server's family that hosts
\* had at the time or that the clients which answered returned for the name
\* asked, none twice; no resolved server is without one.
PoolsJustified ==
  /\ \A i \in DynamicServers : pools[i] # << >> =>
       LET S == {pools[i][k] : k \in DOMAIN pools[i]} IN
       /\ Cardinality(S) = Len(pools[i])
       /\ S = IF seen[i].kind = "Static" THEN HostsAddrs(i, seen[i])
              ELSE NetworkAddrs(i, seen[i].name)
  /\ Done => \A i \in DynamicServers : pools[i] # << >>

\* What the comments of init and rank_ips say, and what with_proto undoes: the
\* addresses of a resolved pool stand in the order of `prefers`.
PrefersOrdered ==
  \A i \in DynamicServers : \A j, k \in DOMAIN pools[i] :
    j < k => rank(balance, pools[i][j]) <= rank(balance, pools[i][k])
=============================================================================
