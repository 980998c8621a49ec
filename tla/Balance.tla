------------------------------- MODULE Balance -------------------------------
(***************************************************************************)
(* The balance stage as operators (plugins/balance.rs and BalanceMode of   *)
(* config.rs): the priority of an address by the CIDRs of `prefers`, the   *)
(* reordering of one address family, and the truncation of the answer.     *)
(*                                                                         *)
(* An answer is a sequence of records [type, ip].  What chance and the     *)
(* network decide (the start of a rotation, the measured latencies) makes  *)
(* the result a set of possible answers.  Addresses have Width[f] bits.    *)
(***************************************************************************)
EXTENDS Ordering

CONSTANTS
  Width,      \* bits of an address: [A |-> 32, AAAA |-> 128] in the code
  MaxRtt      \* bound: latencies are 0 .. MaxRtt - 1, and MaxRtt is a failure

Families == {"A", "AAAA"}

ASSUME WidthAssumption == Width \in [Families -> Nat \ {0}]
ASSUME MaxRttAssumption == MaxRtt \in Nat \ {0}

-----------------------------------------------------------------------------
(* Configuration                                                           *)

\* Cidr::parse accepts a prefix up to the width of the address.
ParsesCidr(c) == c.prefix <= Width[c.family]

\* BalanceMode::parse: what it does not know is "none".
ParseMode(m) == IF m \in {"round_robin", "speed"} THEN m ELSE "none"

Inert == [enabled |-> FALSE, cidrs |-> << >>, mode |-> "none", max |-> 0]

\* init: no section, or one that does not deserialize, leaves the stage inert;
\* CIDRs that do not parse are skipped.  A max of 0 stands for none: handle
\* ignores both alike.
init(raw) ==
  IF raw.section \in {"absent", "invalid"} THEN Inert
  ELSE [enabled |-> TRUE,
        cidrs |-> Picked(raw.prefers,
                         {i \in DOMAIN raw.prefers : ParsesCidr(raw.prefers[i])}),
        mode |-> ParseMode(raw.mode), max |-> raw.max]

-----------------------------------------------------------------------------
(* Priorities                                                              *)

\* Cidr::contains: equal under the network mask, within one family.
contains(c, r) ==
  LET host == 2 ^ (Width[c.family] - c.prefix) IN
  /\ c.family = r.type
  /\ r.ip \div host = c.net \div host

\* Balance::rank: the first CIDR that contains the address, or their number.
rank(b, r) ==
  LET hits == {i \in 1 .. Len(b.cidrs) : contains(b.cidrs[i], r)} IN
  IF hits = {} THEN Len(b.cidrs)
  ELSE (CHOOSE i \in hits : \A j \in hits : i <= j) - 1

\* Balance::rank_ips, for the addresses of an upstream server at start-up.
rank_ips(b, ips) ==
  IF ~b.enabled \/ b.cidrs = << >> THEN ips
  ELSE LET p == StableOrder([i \in 1 .. Len(ips) |-> rank(b, ips[i])]) IN
       [i \in 1 .. Len(ips) |-> ips[p[i]]]

-----------------------------------------------------------------------------
(* One family                                                              *)

\* collect_family: the slots of the family's records, in answer order.
collect_family(s, family) ==
  Ascending({i \in 1 .. Len(s) : s[i].type = family})

\* Mutation: records are moved in place, without the copy taken before.
MutPermute_InPlace(s, slots, order) ==
  LET moved[k \in 1 .. Len(slots)] ==
        IF order[k] < k THEN moved[order[k]] ELSE s[slots[order[k]]]
  IN [i \in 1 .. Len(s) |->
        IF \E k \in 1 .. Len(slots) : slots[k] = i
        THEN moved[CHOOSE k \in 1 .. Len(slots) : slots[k] = i] ELSE s[i]]

\* permute_family: slot slots[k] receives the record of slot slots[order[k]],
\* everything else stays.
permute_family(s, slots, order) ==
  [i \in 1 .. Len(s) |->
     IF \E k \in 1 .. Len(slots) : slots[k] = i
     THEN s[slots[order[CHOOSE k \in 1 .. Len(slots) : slots[k] = i]]]
     ELSE s[i]]

\* rotate_family from position start, counted from 0.
Rotation(n, start) == [k \in 1 .. n |-> 1 + ((k - 1 + start) % n)]

\* measure_tcp_latencies: one probe per distinct address, of any outcome.
Latencies(s, slots) == [{s[slots[k]].ip : k \in 1 .. Len(slots)} -> 0 .. MaxRtt]

\* balance_family: ranks that differ decide alone; otherwise the mode runs.
balance_family(b, s, family) ==
  LET slots == collect_family(s, family)
      n == Len(slots)
      ranks == [k \in 1 .. n |-> rank(b, s[slots[k]])]
      uniform == \A k \in 1 .. n : ranks[k] = ranks[1]
  IN CASE n < 2 -> {s}
       [] n >= 2 /\ ~uniform -> {permute_family(s, slots, StableOrder(ranks))}
       [] n >= 2 /\ uniform /\ b.mode = "none" -> {s}
       [] n >= 2 /\ uniform /\ b.mode = "round_robin" ->
            {permute_family(s, slots, Rotation(n, start)) : start \in 0 .. n - 1}
       [] n >= 2 /\ uniform /\ b.mode = "speed" ->
            {permute_family(s, slots,
                            StableOrder([k \in 1 .. n |-> rtt[s[slots[k]].ip]])) :
               rtt \in Latencies(s, slots)}

-----------------------------------------------------------------------------
(* The stage                                                               *)

\* families: the families a query type is balanced for; Balanced(qtype) says
\* whether it is balanced at all.
families(qtype) == IF qtype = "ANY" THEN Families ELSE {qtype} \cap Families
Balanced(qtype) == families(qtype) # {}

\* max_answers, over the whole answer section.
Cap(b, s) == IF b.max > 0 /\ Len(s) > b.max THEN SubSeq(s, 1, b.max) ELSE s

BalancedFamily(b, s, family, on) == IF on THEN balance_family(b, s, family) ELSE {s}

\* Mutation: the answer is cut before it is sorted.
MutHandle_CutFirst(b, s, qtype, skip) ==
  IF ~b.enabled \/ skip \/ ~Balanced(qtype) THEN {s}
  ELSE UNION {BalancedFamily(b, x, "AAAA", "AAAA" \in families(qtype)) :
                x \in BalancedFamily(b, Cap(b, s), "A", "A" \in families(qtype))}

\* Balance::handle.
handle(b, s, qtype, skip) ==
  IF ~b.enabled \/ skip \/ ~Balanced(qtype) THEN {s}
  ELSE LET once == BalancedFamily(b, s, "A", "A" \in families(qtype))
           both == UNION {BalancedFamily(b, x, "AAAA", "AAAA" \in families(qtype)) :
                            x \in once}
       IN {Cap(b, x) : x \in both}
=============================================================================
