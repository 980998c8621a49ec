----------------------------- MODULE MCPipeline -----------------------------
(* A small instance of Pipeline: one alias of one original domain.         *)
EXTENDS Pipeline, TLC

\* The slots are alike.
Slots == Permutations(Queries)

MCWidth == [A |-> 2, AAAA |-> 1]
MCNames == {"alias", "original"}
MCTarget == [n \in MCNames |-> "original"]

\* The alias is on or off, and the original domain has addresses or not.
MCHostTables ==
  {[n \in MCNames |-> IF n = "alias" THEN a ELSE o] :
     a \in {"alias", "miss"}, o \in {"miss", "ips"}}

A(ip) == [type |-> "A", ip |-> ip]
AAAA(ip) == [type |-> "AAAA", ip |-> ip]
Rec(type) == [type |-> type, ip |-> 0]

\* A chain, a signature the cache does not keep, and both families.
MCZone ==
  [n \in MCNames |->
     IF n = "alias" THEN <<A(0), Rec("RRSIG"), A(3)>>
     ELSE <<Rec("CNAME"), A(0), AAAA(0), A(1), A(2), AAAA(1)>>]
MCHostRecs == <<A(3), A(2), A(1)>>
MCLocalRecs == {<< >>, <<A(0)>>}

Cidr(family, net, prefix) == [family |-> family, net |-> net, prefix |-> prefix]

Raw(prefers, mode, max) ==
  [section |-> "valid", prefers |-> prefers, mode |-> mode, max |-> max]

\* 2/1 prefers the addresses 2 and 3; 0/3 does not parse.
Prefers == <<Cidr("A", 0, 3), Cidr("A", 2, 1), Cidr("AAAA", 1, 1)>>

Group(cache, bal) == [skip_cache |-> cache, skip_balance |-> bal]

\* The group of the alias may skip the cache; the original domain may be in a
\* group that skips the balance stage, and where bal says so it joins and leaves
\* it at run time.
Tries(cache, bal) ==
  {[n \in MCNames |-> Group(n = "alias" /\ cache, n = "original" /\ b)] : b \in {FALSE, bal}}
Config(raw, onhit, qtype, utf8, bal) ==
  [raw |-> raw, onhit |-> onhit, qtype |-> qtype, utf8 |-> utf8,
   groups |-> Tries(~onhit, bal)]

MCConfigs ==
  {Config(Raw(Prefers, "speed", 3), onhit, "ANY", MCNames, TRUE) : onhit \in BOOLEAN}
  \cup {Config(Raw(<< >>, "round_robin", 4), onhit, "A", MCNames, onhit) :
     onhit \in BOOLEAN}
  \cup {Config(Raw(<< >>, "speed", 4), FALSE, "A", MCNames, FALSE)}
  \cup {Config(Raw(Prefers, "none", 3), TRUE, "A", {n}, FALSE) : n \in MCNames}
  \cup {Config(Raw(Prefers, "speed", 2), FALSE, "TXT", MCNames, FALSE)}
  \cup {Config([section |-> "invalid"], TRUE, "A", MCNames, FALSE)}
=============================================================================
