---------------------------- MODULE Rules_proofs ----------------------------
(***************************************************************************)
(* Proofs about the rules stage: RuleMatch, which picks the rule of a      *)
(* query, for any table, and ForwardRule, which applies it, for any number *)
(* of queries, any rules and whatever upstreams answer.                    *)
(*                                                                         *)
(* A theorem is about one of the two specifications; they share neither    *)
(* constants nor variables.                                                *)
(***************************************************************************)
EXTENDS RuleMatch, ForwardRule, Ordering_proofs

-----------------------------------------------------------------------------
(* RuleMatch: the longest key                                              *)

\* d is a longest key above the domain.
Longest(d, domain) ==
  /\ d \in DOMAIN items /\ suffix_match(d, domain)
  /\ \A e \in DOMAIN items : suffix_match(e, domain) => Len(e) <= Len(d)

\* Lookup returns the tag of a longest key above the domain, if there is a key.
LEMMA LookupLongest ==
  ASSUME NEW domain \in Domains,
         \A d \in DOMAIN items : d \in Domains,
         KeysOn(domain) # {}
  PROVE  \E d : Longest(d, domain) /\ Lookup(domain) = items[d]
<1> DEFINE K == KeysOn(domain)
           T == {Len(domain) - Len(d) : d \in K}
<1>1. Len(domain) \in Nat
  BY DEF Domains
<1>2. \A d \in K : d \in DOMAIN items /\ Len(d) \in Nat /\ Len(d) <= Len(domain)
  BY DEF KeysOn, suffix_match, Domains
<1>3. T \subseteq Nat /\ T # {}
  BY <1>1, <1>2
<1> HIDE DEF K
<1>4. \E x \in T : \A y \in T : x <= y
  BY <1>3, LeastNat
<1>5. PICK d \in K : \A e \in K : Len(domain) - Len(d) <= Len(domain) - Len(e)
  BY <1>4
<1>6. \A e \in K : Len(e) <= Len(d)
  BY <1>1, <1>2, <1>5
<1> DEFINE c == CHOOSE k \in K : \A e \in K : Len(e) <= Len(k)
<1>7. c \in K /\ \A e \in K : Len(e) <= Len(c)
  BY <1>6, Zenon
<1>8. Lookup(domain) = items[c]
  BY DEF Lookup, K
<1> HIDE DEF c
<1>9. Longest(c, domain)
  BY <1>7 DEF Longest, K, KeysOn
<1> QED
  BY <1>8, <1>9

-----------------------------------------------------------------------------
(* The index                                                               *)

\* The table and what init has indexed of it.
Shape ==
  /\ table \in Tables /\ table \in Seq(Rules) /\ loaded \in 0..Len(table)
  /\ tag_to_idx \in Seq(Nat)

\* tag_to_idx holds the inline rules among those indexed; it is the identity
\* where the inline rules come first.
Ids ==
  /\ \A k \in 1..Len(tag_to_idx) :
       tag_to_idx[k] < loaded /\ IsInline(RuleAt(tag_to_idx[k]))
  /\ (\A j \in 0..(loaded - 1) : IsInline(RuleAt(j))) => Len(tag_to_idx) = loaded
  /\ InlineLeads => \A k \in 1..Len(tag_to_idx) : tag_to_idx[k] = k - 1

\* Every key belongs to the last indexed rule that lists it.
Keys ==
  /\ \A d \in DOMAIN items :
       /\ d \in Domains
       /\ items[d] \in 0..(loaded - 1)
       /\ IsInline(RuleAt(items[d])) /\ d \in RuleAt(items[d]).target.domains
  /\ \A j \in 0..(loaded - 1) : IsInline(RuleAt(j)) =>
       \A d \in RuleAt(j).target.domains : d \in DOMAIN items /\ j <= items[d]

Index == Shape /\ Ids /\ Keys

\* The domains of an inline rule are domains.
LEMMA InlineDomains ==
  ASSUME NEW r \in Rules, IsInline(r)
  PROVE  \A d \in r.target.domains : d \in Domains
BY RulesAssumption DEF IsInline, IsTarget

LEMMA TableShape ==
  ASSUME NEW t \in Tables
  PROVE  t \in Seq(Rules)
BY BoundAssumption DEF Tables

LEMMA IndexInit ==
  ASSUME Init
  PROVE  Index
<1>1. table \in Tables /\ table \in Seq(Rules)
  BY TableShape DEF Init
<1>2. loaded = 0 /\ tag_to_idx = << >> /\ items = << >>
  BY DEF Init
<1>3. Len(table) \in Nat
  BY <1>1
<1>4. DOMAIN items = {}
  BY <1>2
<1> QED
  BY <1>1, <1>2, <1>3, <1>4 DEF Index, Shape, Ids, Keys

LEMMA IndexStep ==
  ASSUME Index, IndexRule
  PROVE  Index'
<1> USE DEF Index
<1>1. /\ loaded < Len(table) /\ loaded' = loaded + 1 /\ table' = table
      /\ loaded \in Nat /\ Len(table) \in Nat /\ table \in Seq(Rules)
      /\ tag_to_idx \in Seq(Nat)
  BY DEF IndexRule, Shape
<1> DEFINE rule == RuleAt(loaded)
<1>2. rule \in Rules
  BY <1>1 DEF RuleAt
<1>3. \A j \in 0..(loaded' - 1) : j \in 0..(loaded - 1) \/ j = loaded
  BY <1>1
<1>4. \A j : RuleAt(j)' = RuleAt(j)
  BY <1>1 DEF RuleAt
<1>5. InlineLeads' = InlineLeads
  BY <1>1 DEF InlineLeads, Indices, RuleAt
<1>6. CASE IsInline(rule)
  <2>1. /\ tag_to_idx' = Append(tag_to_idx, loaded)
        /\ items' = [d \in DOMAIN items \cup rule.target.domains |->
                       IF d \in rule.target.domains THEN loaded ELSE items[d]]
    BY <1>6 DEF IndexRule
  <2>2. /\ tag_to_idx' \in Seq(Nat)
        /\ Len(tag_to_idx') = Len(tag_to_idx) + 1
        /\ \A k \in 1..Len(tag_to_idx) : tag_to_idx'[k] = tag_to_idx[k]
        /\ tag_to_idx'[Len(tag_to_idx) + 1] = loaded
        /\ Len(tag_to_idx) \in Nat
    BY <1>1, <2>1
  <2>3. Shape'
    BY <1>1, <2>2 DEF Shape
  <2>4. \A k \in 1..Len(tag_to_idx') :
          k \in 1..Len(tag_to_idx) \/ k = Len(tag_to_idx) + 1
    BY <2>2
  <2>5. \A k \in 1..Len(tag_to_idx) : tag_to_idx[k] \in Nat
    BY <1>1
  <2>6. \A k \in 1..Len(tag_to_idx') :
          tag_to_idx'[k] < loaded' /\ IsInline(RuleAt(tag_to_idx'[k]))
    <3>1. ASSUME NEW k \in 1..Len(tag_to_idx)
          PROVE  tag_to_idx'[k] < loaded' /\ IsInline(RuleAt(tag_to_idx'[k]))
      <4>1. tag_to_idx'[k] = tag_to_idx[k] /\ tag_to_idx[k] \in Nat
        BY <2>2, <2>5
      <4>2. tag_to_idx[k] < loaded /\ IsInline(RuleAt(tag_to_idx[k]))
        BY DEF Ids
      <4> QED
        BY <1>1, <4>1, <4>2
    <3>2. LET k == Len(tag_to_idx) + 1
          IN tag_to_idx'[k] < loaded' /\ IsInline(RuleAt(tag_to_idx'[k]))
      BY <1>1, <1>6, <2>2
    <3> QED
      BY <2>4, <3>1, <3>2
  <2>7. (\A j \in 0..(loaded' - 1) : IsInline(RuleAt(j))) => Len(tag_to_idx') = loaded'
    BY <1>1, <2>2 DEF Ids
  <2>8. ASSUME InlineLeads
        PROVE  \A k \in 1..Len(tag_to_idx') : tag_to_idx'[k] = k - 1
    <3>1. \A j \in 0..(loaded - 1) : IsInline(RuleAt(j))
      BY <1>1, <1>6, <2>8 DEF InlineLeads, Indices
    <3>2. Len(tag_to_idx) = loaded
      BY <3>1 DEF Ids
    <3> QED
      BY <1>1, <2>2, <2>4, <2>8, <3>2 DEF Ids
  <2>9. Ids'
    BY <1>4, <1>5, <2>6, <2>7, <2>8 DEF Ids
  <2>10. \A d \in rule.target.domains : d \in Domains
    BY <1>2, <1>6, InlineDomains
  <2>11. ASSUME NEW d \in DOMAIN items'
         PROVE  /\ d \in Domains
                /\ items'[d] \in 0..(loaded' - 1)
                /\ IsInline(RuleAt(items'[d])) /\ d \in RuleAt(items'[d]).target.domains
    <3>1. CASE d \in rule.target.domains
      BY <1>1, <1>6, <2>1, <2>10, <3>1
    <3>2. CASE d \notin rule.target.domains
      <4>1. d \in DOMAIN items /\ items'[d] = items[d]
        BY <2>1, <3>2
      <4> QED
        BY <1>1, <4>1 DEF Keys
    <3> QED
      BY <3>1, <3>2
  <2>12. ASSUME NEW j \in 0..(loaded' - 1), IsInline(RuleAt(j)),
                NEW d \in RuleAt(j).target.domains
         PROVE  d \in DOMAIN items' /\ j <= items'[d]
    <3>1. CASE d \in rule.target.domains
      BY <1>1, <2>1, <3>1
    <3>2. CASE d \notin rule.target.domains
      <4>1. j \in 0..(loaded - 1)
        BY <1>3, <2>12, <3>2
      <4>2. d \in DOMAIN items /\ j <= items[d]
        BY <2>12, <4>1 DEF Keys
      <4> QED
        BY <2>1, <3>2, <4>2
    <3> QED
      BY <3>1, <3>2
  <2>13. Keys'
    BY <1>4, <2>11, <2>12 DEF Keys
  <2> QED
    BY <2>3, <2>9, <2>13
<1>7. CASE ~IsInline(rule)
  <2>1. tag_to_idx' = tag_to_idx /\ items' = items
    BY <1>7 DEF IndexRule
  <2>2. Shape'
    BY <1>1, <2>1 DEF Shape
  <2>3. \A k \in 1..Len(tag_to_idx) : tag_to_idx[k] \in Nat
    BY <1>1
  <2>4. ~ \A j \in 0..(loaded' - 1) : IsInline(RuleAt(j))
    BY <1>1, <1>7
  <2>5. Ids'
    BY <1>1, <1>4, <1>5, <2>1, <2>3, <2>4 DEF Ids
  <2>6. Keys'
    BY <1>1, <1>3, <1>4, <1>7, <2>1 DEF Keys
  <2> QED
    BY <2>2, <2>5, <2>6
<1> QED
  BY <1>6, <1>7

\* A step that leaves the table and its index alone leaves Index alone.
LEMMA IndexKept ==
  ASSUME Index, UNCHANGED static
  PROVE  Index'
BY DEF Index, Shape, Ids, Keys, InlineLeads, Indices, RuleAt, static

-----------------------------------------------------------------------------
(* The handling of a query                                                 *)

\* How the verdict came about: by a longest key of the name, whose tag is a
\* position in tag_to_idx; by the first rule that matches; or by none.
Decided ==
  \/ /\ verdict.by = "trie"
     /\ qtype_matches(RuleAt(verdict.idx), query.qtype)
     /\ \E d : /\ Longest(d, query.name)
               /\ items[d] < Len(tag_to_idx)
               /\ verdict.idx = tag_to_idx[items[d] + 1]
  \/ /\ verdict.by = "scan" /\ verdict.idx \in Indices
     /\ verdict.captures = RuleCaptures(RuleAt(verdict.idx), query)
     /\ matches(RuleAt(verdict.idx), query)
     /\ \A j \in 0..(verdict.idx - 1) : ~matches(RuleAt(j), query)
  \/ /\ verdict.by = "nxdomain" /\ verdict.idx = -1
     /\ \A j \in Indices : ~matches(RuleAt(j), query)

Handling ==
  /\ phase \in {"idle", "fast", "scan", "done"}
  /\ phase = "idle" => query = NoQuery
  /\ phase # "idle" => loaded = Len(table) /\ query \in Requests
  /\ at \in 0..Len(table)
  /\ phase = "scan" => \A j \in 0..(at - 1) : ~matches(RuleAt(j), query)
  /\ phase # "done" => verdict = Undecided
  /\ phase = "done" => Decided

IInv == Index /\ Handling

\* Nothing is indexed and nobody is served when init starts (rules.rs:556-575).
THEOREM InitIInv == Init => IInv
<1> SUFFICES ASSUME Init PROVE IInv
  OBVIOUS
<1>1. Index
  BY IndexInit
<1>2. Handling
  BY <1>1 DEF Init, Handling, Index, Shape
<1> QED
  BY <1>1, <1>2 DEF IInv

LEMMA FastHitDecides ==
  ASSUME IInv, FastHit
  PROVE  Decided'
<1>1. /\ phase = "fast" /\ InlineHits(query.name)
      /\ qtype_matches(RuleAt(inline_hit(query.name)), query.qtype)
      /\ verdict' = Verdict("trie", inline_hit(query.name), << >>)
      /\ UNCHANGED <<static, query>>
  BY DEF FastHit, FastDecides
<1>2. query.name \in Domains
  BY <1>1, RequestsAssumption DEF IInv, Handling
<1>3. \A d \in DOMAIN items : d \in Domains
  BY DEF IInv, Index, Keys
<1>4. KeysOn(query.name) # {} /\ Lookup(query.name) < Len(tag_to_idx)
  BY <1>1 DEF InlineHits
<1>5. PICK d : Longest(d, query.name) /\ Lookup(query.name) = items[d]
  BY <1>2, <1>3, <1>4, LookupLongest
<1>6. inline_hit(query.name) = tag_to_idx[items[d] + 1]
  BY <1>5 DEF inline_hit
<1>7. verdict'.by = "trie" /\ verdict'.idx = tag_to_idx[items[d] + 1]
  BY <1>1, <1>6 DEF Verdict
<1>8. qtype_matches(RuleAt(tag_to_idx[items[d] + 1]), query.qtype)
  BY <1>1, <1>6
<1>9. UNCHANGED <<table, items, tag_to_idx, query>>
  BY <1>1 DEF static
<1>10. Longest(d, query.name)'
  BY <1>5, <1>9 DEF Longest
<1>11. qtype_matches(RuleAt(verdict.idx), query.qtype)'
  BY <1>7, <1>8, <1>9 DEF RuleAt
<1>12. items'[d] < Len(tag_to_idx') /\ verdict'.idx = tag_to_idx'[items'[d] + 1]
  BY <1>4, <1>5, <1>7, <1>9
<1> QED
  BY <1>7, <1>10, <1>11, <1>12 DEF Decided

LEMMA DecidedKept ==
  ASSUME Decided, UNCHANGED <<static, query, verdict>>
  PROVE  Decided'
BY DEF Decided, Longest, RuleAt, Indices, static

\* Indexing a rule and each step of handle keep what the index knows of the
\* table and how verdicts come about (build_inline_trie, handle).
THEOREM StepIInv == IInv /\ [Next]_vars => IInv'
<1> SUFFICES ASSUME IInv, [Next]_vars PROVE IInv'
  OBVIOUS
<1> USE DEF IInv
<1>1. table \in Seq(Rules) /\ Len(table) \in Nat
  BY DEF Index, Shape
<1>2. CASE IndexRule
  <2>1. Index'
    BY <1>2, IndexStep
  <2>2. loaded # Len(table) /\ phase = "idle"
    BY <1>1, <1>2 DEF IndexRule, Handling
  <2>3. Handling'
    BY <1>2, <2>2 DEF IndexRule, Handling
  <2> QED
    BY <2>1, <2>3
<1>3. CASE Begin
  <2>1. Index'
    BY <1>3, IndexKept DEF Begin
  <2>2. Handling'
    BY <1>3 DEF Begin, Handling, static
  <2> QED
    BY <2>1, <2>2
<1>4. CASE FastHit
  <2>1. Index'
    BY <1>4, IndexKept DEF FastHit
  <2>2. Decided'
    BY <1>4, FastHitDecides
  <2>3. Handling'
    BY <1>4, <2>2 DEF FastHit, Handling, static
  <2> QED
    BY <2>1, <2>3
<1>5. CASE FastMiss
  <2>1. Index'
    BY <1>5, IndexKept DEF FastMiss
  <2>2. Handling'
    BY <1>1, <1>5 DEF FastMiss, Handling, static
  <2> QED
    BY <2>1, <2>2
<1>6. CASE ScanSkip
  <2>1. Index'
    BY <1>6, IndexKept DEF ScanSkip
  <2>2. \A j \in 0..(at' - 1) : ~matches(RuleAt(j), query)
    <3>1. at \in Nat /\ at' = at + 1 /\ phase = "scan" /\ ~matches(RuleAt(at), query)
      BY <1>1, <1>6 DEF ScanSkip, Handling
    <3>2. \A j \in 0..(at - 1) : ~matches(RuleAt(j), query)
      BY <3>1 DEF Handling
    <3>3. \A j \in 0..(at' - 1) : j \in 0..(at - 1) \/ j = at
      BY <3>1
    <3> QED
      BY <3>1, <3>2, <3>3
  <2>3. \A j : RuleAt(j)' = RuleAt(j)
    BY <1>6 DEF ScanSkip, static, RuleAt
  <2>4. Handling'
    BY <1>1, <1>6, <2>2, <2>3 DEF ScanSkip, Handling, static
  <2> QED
    BY <2>1, <2>4
<1>7. CASE ScanHit
  <2>1. Index'
    BY <1>7, IndexKept DEF ScanHit
  <2>2. /\ verdict'.by = "scan" /\ verdict'.idx = at /\ at \in Indices
        /\ verdict'.captures = RuleCaptures(RuleAt(at), query)
        /\ matches(RuleAt(at), query)
        /\ \A j \in 0..(at - 1) : ~matches(RuleAt(j), query)
    BY <1>1, <1>7 DEF ScanHit, Handling, Verdict, Indices
  <2>3. UNCHANGED <<table, query>>
    BY <1>7 DEF ScanHit, static
  <2>4. Decided'
    BY <2>2, <2>3 DEF Decided, Indices, RuleAt
  <2>5. Handling'
    BY <1>7, <2>4 DEF ScanHit, Handling, static
  <2> QED
    BY <2>1, <2>5
<1>8. CASE NoRule
  <2>1. Index'
    BY <1>8, IndexKept DEF NoRule
  <2>2. /\ verdict'.by = "nxdomain" /\ verdict'.idx = -1
        /\ \A j \in Indices : ~matches(RuleAt(j), query)
    BY <1>1, <1>8 DEF NoRule, Handling, Verdict, Indices
  <2>3. UNCHANGED <<table, query>>
    BY <1>8 DEF NoRule, static
  <2>4. Decided'
    BY <2>2, <2>3 DEF Decided, Indices, RuleAt
  <2>5. Handling'
    BY <1>8, <2>4 DEF NoRule, Handling, static
  <2> QED
    BY <2>1, <2>5
<1>9. CASE Finish
  <2>1. Index'
    BY <1>9, IndexKept DEF Finish
  <2>2. Handling'
    BY <1>1, <1>9 DEF Finish, Handling, static
  <2> QED
    BY <2>1, <2>2
<1>10. CASE UNCHANGED vars
  <2>1. UNCHANGED static /\ UNCHANGED <<phase, query, at, verdict>>
    BY <1>10 DEF vars, static
  <2>2. Index'
    BY <2>1, IndexKept
  <2>3. phase = "done" => Decided'
    BY <2>1, DecidedKept DEF Handling
  <2>4. \A j : RuleAt(j)' = RuleAt(j)
    BY <2>1 DEF static, RuleAt
  <2>5. Handling'
    BY <2>1, <2>3, <2>4 DEF Handling, static
  <2> QED
    BY <2>2, <2>5
<1> QED
  BY <1>2, <1>3, <1>4, <1>5, <1>6, <1>7, <1>8, <1>9, <1>10 DEF Next

LEMMA Invariance == Spec => []IInv
  BY InitIInv, StepIInv, PTL DEF Spec

-----------------------------------------------------------------------------
(* The properties                                                          *)

LEMMA TypesHold == IInv => TypeOK
<1> SUFFICES ASSUME IInv PROVE TypeOK
  OBVIOUS
<1> USE DEF IInv, Index
<1>1. table \in Tables /\ table \in Seq(Rules) /\ Len(table) \in Nat /\ loaded \in 0..Len(table)
  BY DEF Shape
<1>2. \A d \in DOMAIN items : items[d] \in Indices /\ items[d] < loaded
  BY <1>1 DEF Keys, Indices
<1>3. \A i \in DOMAIN tag_to_idx :
        tag_to_idx[i] \in Indices /\ IsInline(RuleAt(tag_to_idx[i]))
  <2>1. tag_to_idx \in Seq(Nat) /\ DOMAIN tag_to_idx = 1..Len(tag_to_idx)
    BY DEF Shape
  <2>2. \A i \in 1..Len(tag_to_idx) : tag_to_idx[i] \in Nat
    BY <2>1
  <2>3. \A i \in 1..Len(tag_to_idx) :
          tag_to_idx[i] < loaded /\ IsInline(RuleAt(tag_to_idx[i]))
    BY DEF Ids
  <2>4. \A i \in 1..Len(tag_to_idx) : tag_to_idx[i] \in Indices
    BY <1>1, <2>2, <2>3 DEF Indices
  <2> QED
    BY <2>1, <2>3, <2>4, Zenon
<1>4. phase # "idle" => query # NoQuery
  BY RequestsAssumption DEF Handling, NoQuery, Domains
<1>5. verdict.by \in {"open", "trie", "scan", "nxdomain"}
  BY DEF Handling, Decided, Undecided, Verdict
<1>6. ASSUME verdict.by = "trie" PROVE verdict.idx \in Indices
  <2>1. Decided
    BY <1>6 DEF Handling, Undecided, Verdict
  <2>2. PICK d : /\ Longest(d, query.name) /\ items[d] < Len(tag_to_idx)
                 /\ verdict.idx = tag_to_idx[items[d] + 1]
    BY <1>6, <2>1 DEF Decided
  <2>3. items[d] \in Nat
    BY <1>1, <2>2 DEF Longest, Keys
  <2>4. items[d] + 1 \in DOMAIN tag_to_idx
    BY <2>2, <2>3 DEF Shape
  <2> QED
    BY <1>3, <2>2, <2>4
<1>7. verdict.by = "scan" => verdict.idx \in Indices
  BY DEF Handling, Decided, Undecided, Verdict
<1> QED
  BY <1>1, <1>2, <1>3, <1>4, <1>5, <1>6, <1>7 DEF TypeOK, Handling

\* The variables keep their types; tags and the entries of tag_to_idx always
\* name rules of the table, and verdicts rules that are there.
THEOREM TypeCorrect == Spec => []TypeOK
  BY Invariance, TypesHold, PTL

LEMMA ScanHolds == IInv => ScanInOrder /\ NxdomainOnlyUnmatched
  BY DEF IInv, Handling, Decided, ScanInOrder, NxdomainOnlyUnmatched,
         Undecided, Verdict

\* For every table: what the fast path leaves undecided is decided by the
\* first rule that matches (handle's loop).
THEOREM ScanKeepsOrder == Spec => []ScanInOrder
  BY Invariance, ScanHolds, PTL

\* For every table: NXDOMAIN means that no rule matches.
THEOREM NxdomainIsEarned == Spec => []NxdomainOnlyUnmatched
  BY Invariance, ScanHolds, PTL

\* Where the inline rules come first, a verdict of the trie names the rule
\* the longest key belongs to.
LEMMA TrieVerdict ==
  ASSUME IInv, InlineLeads, verdict.by = "trie"
  PROVE  /\ qtype_matches(RuleAt(verdict.idx), query.qtype)
         /\ \E d : Longest(d, query.name) /\ verdict.idx = items[d]
<1>1. Decided
  BY DEF IInv, Handling, Undecided, Verdict
<1>2. PICK d : /\ Longest(d, query.name) /\ items[d] < Len(tag_to_idx)
               /\ verdict.idx = tag_to_idx[items[d] + 1]
  BY <1>1 DEF Decided
<1>3. items[d] \in Nat
  <2>1. d \in DOMAIN items /\ loaded \in Nat
    BY <1>2 DEF Longest, IInv, Index, Shape
  <2> QED
    BY <2>1 DEF IInv, Index, Keys
<1>4. items[d] + 1 \in 1..Len(tag_to_idx)
  BY <1>2, <1>3 DEF IInv, Index, Shape
<1>5. tag_to_idx[items[d] + 1] = items[d]
  BY <1>3, <1>4 DEF IInv, Index, Ids
<1> QED
  BY <1>1, <1>2, <1>5 DEF Decided

LEMMA LongestHolds == IInv => LongestSuffixWins
<1> SUFFICES ASSUME IInv, InlineLeads, verdict.by = "trie"
             PROVE  \E d \in RuleAt(verdict.idx).target.domains :
                      /\ suffix_match(d, query.name)
                      /\ \A j \in Indices : IsInline(RuleAt(j)) =>
                           \A e \in RuleAt(j).target.domains :
                             suffix_match(e, query.name) =>
                               Len(e) <= Len(d) /\ (e = d => j <= verdict.idx)
  BY DEF LongestSuffixWins
<1>1. PICK d : Longest(d, query.name) /\ verdict.idx = items[d]
  BY TrieVerdict
<1>2. d \in RuleAt(verdict.idx).target.domains /\ suffix_match(d, query.name)
  BY <1>1 DEF Longest, IInv, Index, Keys
<1>3. \A j \in Indices : j \in 0..(loaded - 1)
  <2>1. phase = "done"
    BY DEF IInv, Handling, Undecided, Verdict
  <2> QED
    BY <2>1 DEF IInv, Handling, Indices
<1>4. ASSUME NEW j \in Indices, IsInline(RuleAt(j)),
             NEW e \in RuleAt(j).target.domains, suffix_match(e, query.name)
      PROVE  Len(e) <= Len(d) /\ (e = d => j <= verdict.idx)
  <2>1. e \in DOMAIN items /\ j <= items[e]
    BY <1>3, <1>4 DEF IInv, Index, Keys
  <2> QED
    BY <1>1, <1>4, <2>1 DEF Longest
<1> QED
  BY <1>2, <1>4

\* Where the inline rules come first and compete for a query, the one that
\* lists the longest suffix wins, and the later one of equals.
THEOREM LongestSuffix == Spec => []LongestSuffixWins
  BY Invariance, LongestHolds, PTL

LEMMA FirstMatchHolds == IInv => FirstMatchDecides
<1> SUFFICES ASSUME IInv, InlineLeads, verdict.idx \in Indices, InlineApart(query)
             PROVE  /\ matches(RuleAt(verdict.idx), query)
                    /\ \A j \in 0..(verdict.idx - 1) : ~matches(RuleAt(j), query)
  BY DEF FirstMatchDecides
<1>1. phase = "done" /\ Decided
  BY DEF IInv, Handling, Undecided, Verdict, Indices
<1>2. CASE verdict.by = "trie"
  <2>1. PICK d : Longest(d, query.name) /\ verdict.idx = items[d]
    BY <1>2, TrieVerdict
  <2>2. /\ IsInline(RuleAt(verdict.idx))
        /\ d \in RuleAt(verdict.idx).target.domains /\ suffix_match(d, query.name)
    BY <2>1 DEF Longest, IInv, Index, Keys
  <2>3. TargetMatches(RuleAt(verdict.idx).target, query)
    BY <2>2 DEF TargetMatches, IsInline
  <2>4. matches(RuleAt(verdict.idx), query)
    BY <1>2, <2>3, TrieVerdict DEF matches
  <2>5. ASSUME NEW j \in 0..(verdict.idx - 1), matches(RuleAt(j), query)
        PROVE  FALSE
    <3>1. j \in Indices /\ j \in 0..verdict.idx /\ j # verdict.idx
      BY <2>5 DEF Indices
    <3>2. IsInline(RuleAt(j))
      BY <2>2, <3>1 DEF InlineLeads
    <3> QED
      BY <2>2, <2>3, <2>5, <3>1, <3>2 DEF InlineApart, matches
  <2> QED
    BY <2>4, <2>5
<1>3. CASE verdict.by = "scan"
  BY <1>1, <1>3 DEF Decided
<1>4. CASE verdict.by = "nxdomain"
  BY <1>1, <1>4 DEF Decided, Indices
<1> QED
  BY <1>1, <1>2, <1>3, <1>4 DEF Decided

\* Where the inline rules come first and do not compete for a query, the trie
\* changes nothing: the first rule that matches decides (rules.rs:3-4).
THEOREM FirstMatch == Spec => []FirstMatchDecides
  BY Invariance, FirstMatchHolds, PTL

\* The pattern that decides a template rule is the first that hits, however
\* first is said.
LEMMA FirstHits ==
  ASSUME NEW t, t.patterns \in Seq(Patterns), NEW domain
  PROVE  HitPattern(t, domain) =
           CHOOSE i \in DOMAIN t.patterns :
             /\ TemplateHits(t.patterns[i], domain)
             /\ \A j \in DOMAIN t.patterns :
                  TemplateHits(t.patterns[j], domain) => i <= j
<1> DEFINE n == Len(t.patterns)
           H(i) == TemplateHits(t.patterns[i], domain)
<1>1. DOMAIN t.patterns = 1 .. n /\ n \in Nat
  OBVIOUS
<1> HIDE DEF n, H
<1>2. ASSUME NEW i \in 1 .. n
      PROVE  (\A j \in 1 .. (i - 1) : ~H(j)) <=> (\A j \in 1 .. n : H(j) => i <= j)
  <2>1. \A j \in 1 .. (i - 1) : j \in 1 .. n /\ ~(i <= j)
    BY <1>1
  <2>2. \A j \in 1 .. n : ~(i <= j) => j \in 1 .. (i - 1)
    BY <1>1
  <2> QED BY <2>1, <2>2
<1>3. (CHOOSE i \in 1 .. n : H(i) /\ \A j \in 1 .. (i - 1) : ~H(j))
        = CHOOSE i \in 1 .. n : H(i) /\ \A j \in 1 .. n : H(j) => i <= j
  BY <1>2, Zenon
<1> QED BY <1>1, <1>3 DEF HitPattern, H

LEMMA CapturesHold == IInv => CapturesNumbered
<1> SUFFICES ASSUME IInv, verdict.by = "scan",
                    RuleAt(verdict.idx).target.kind = "template"
             PROVE  CapturesNumbered
  BY DEF CapturesNumbered
<1> DEFINE t == RuleAt(verdict.idx).target
           hit == CHOOSE i \in DOMAIN t.patterns :
                    /\ TemplateHits(t.patterns[i], query.name)
                    /\ \A j \in DOMAIN t.patterns :
                         TemplateHits(t.patterns[j], query.name) => i <= j
           p == t.patterns[hit]
<1>1. Decided
  BY DEF IInv, Handling, Undecided, Verdict
<1>2. verdict.captures = RuleCaptures(RuleAt(verdict.idx), query) /\ verdict.idx \in Indices
  BY <1>1 DEF Decided
<1>3. RuleAt(verdict.idx) \in Rules
  BY <1>2 DEF IInv, Index, Shape, RuleAt, Indices
<1>4. t.patterns \in Seq(Patterns)
  BY <1>3, RulesAssumption DEF IsTarget
<1>5. verdict.captures = Captures(p, query.name)
  <2>1. HitPattern(t, query.name) = hit
    BY <1>4, FirstHits
  <2> QED BY <1>2, <2>1 DEF RuleCaptures
<1> HIDE DEF p
<1>6. (\A k \in DOMAIN p.placeholders : p.placeholders[k] = k) =>
        \A k \in DOMAIN p.placeholders :
          verdict.captures[k] = query.name[Len(p.suffix) + k]
  BY <1>5 DEF Captures
<1> QED BY <1>6 DEF CapturesNumbered, p

\* Where a template numbers its placeholders in order, {n} in an action stands
\* for the n-th label before the suffix of the first pattern that hits.
THEOREM CapturesInOrder == Spec => []CapturesNumbered
  BY Invariance, CapturesHold, PTL

-----------------------------------------------------------------------------
(* ForwardRule: messages                                                   *)

\* What the fields of a record are.
LEMMA RecordFields ==
  ASSUME NEW r \in Records
  PROVE  /\ r.type \in {"A", "AAAA", "CNAME", "HTTPS"}
         /\ r.owner \in STRING /\ r.ttl \in Ttls /\ r.to \in STRING \cup {NoName}
         /\ r.type = "HTTPS" => r.svcb \in Svcbs
         /\ r.type # "HTTPS" => r.svcb = NoSvcb
BY DEF Records

LEMMA RecordIs ==
  ASSUME NEW type, NEW owner \in STRING, NEW ttl \in Ttls,
         NEW to \in STRING \cup {NoName}, NEW svcb,
         \/ type \in {"A", "AAAA", "CNAME"} /\ svcb = NoSvcb
         \/ type = "HTTPS" /\ svcb \in Svcbs
  PROVE  /\ Record(type, owner, ttl, to, svcb) \in Records
         /\ Record(type, owner, ttl, to, svcb).type = type
         /\ Record(type, owner, ttl, to, svcb).owner = owner
         /\ Record(type, owner, ttl, to, svcb).to = to
         /\ Record(type, owner, ttl, to, svcb).svcb = svcb
BY DEF Record, Records

\* A record with another owner or TTL is a record.
LEMMA RecordUpdates ==
  ASSUME NEW r \in Records, NEW owner \in STRING
  PROVE  LET o == [r EXCEPT !.owner = owner]
             u == [r EXCEPT !.ttl = "rule"]
         IN /\ o \in Records /\ o.type = r.type /\ o.owner = owner
            /\ u \in Records /\ u.type = r.type /\ u.owner = r.owner
            /\ u.to = r.to /\ u.svcb = r.svcb /\ u = [r EXCEPT !.ttl = u.ttl]
BY DEF Records, Ttls

\* last_cname_index: the CNAMEs the answer starts with, all of them.
LEMMA LastCnameProps ==
  ASSUME NEW a \in Seq(Records)
  PROVE  LET n == LastCname(a)
         IN /\ n \in 0 .. Len(a)
            /\ \A i \in 1 .. n : IsCname(a[i])
            /\ n < Len(a) => ~IsCname(a[n + 1])
<1> DEFINE T == {i \in 0 .. Len(a) : i < Len(a) => ~IsCname(a[i + 1])}
           P(m) == /\ \A i \in 1 .. m : IsCname(a[i])
                   /\ m < Len(a) => ~IsCname(a[m + 1])
<1>1. Len(a) \in Nat
  OBVIOUS
<1>2. T \subseteq Nat /\ Len(a) \in T
  BY <1>1
<1>3. PICK m \in T : \A y \in T : m <= y
  BY <1>2, LeastNat
<1>4. ASSUME NEW i \in 1 .. m
      PROVE  IsCname(a[i])
  <2>1. i - 1 \in 0 .. Len(a) /\ i - 1 < Len(a) /\ i - 1 + 1 = i /\ ~(m <= i - 1)
    BY <1>1, <1>2, <1>3
  <2>2. i - 1 \notin T
    BY <1>3, <2>1
  <2> QED BY <2>1, <2>2
<1>5. m \in 0 .. Len(a) /\ P(m)
  BY <1>3, <1>4
<1>6. LastCname(a) = CHOOSE n \in 0 .. Len(a) : P(n)
  BY DEF LastCname
<1> HIDE DEF P
<1>7. LastCname(a) \in 0 .. Len(a) /\ P(LastCname(a))
  BY <1>5, <1>6
<1> QED BY <1>7 DEF P

\* What Own does to a record.
LEMMA OwnProps ==
  ASSUME NEW r \in Records, NEW owner \in STRING
  PROVE  /\ Own(r, owner) \in Records
         /\ IsAddress(Own(r, owner)) => Own(r, owner).owner = owner
BY RecordUpdates DEF Own, IsAddress

\* collapse_completed_chain leaves the addresses, under the queried name.
LEMMA CollapseProps ==
  ASSUME NEW a \in Seq(Records), NEW owner \in STRING, ChainCompleted(a)
  PROVE  /\ Collapse(a, owner) \in Seq(Records)
         /\ Collapse(a, owner) # << >>
         /\ \A i \in DOMAIN Collapse(a, owner) :
              IsAddress(Collapse(a, owner)[i]) => Collapse(a, owner)[i].owner = owner
<1> DEFINE n == LastCname(a)
           c == Collapse(a, owner)
<1>1. n \in 0 .. Len(a) /\ \A i \in 1 .. n : IsCname(a[i])
  BY LastCnameProps
<1>2. Len(a) \in Nat /\ DOMAIN a = 1 .. Len(a)
  OBVIOUS
<1>3. PICK i \in DOMAIN a : IsAddress(a[i])
  BY DEF ChainCompleted
<1>4. c = [k \in 1 .. (Len(a) - n) |-> Own(a[n + k], owner)]
  BY DEF Collapse
<1> HIDE DEF n, c
<1>5. ~IsCname(a[i])
  BY <1>3 DEF IsAddress, IsCname
<1>6. i > n
  BY <1>1, <1>2, <1>5
<1>7. Len(a) - n \in Nat /\ Len(a) - n >= 1
  BY <1>1, <1>2, <1>6
<1>8. ASSUME NEW k \in 1 .. (Len(a) - n)
      PROVE  c[k] \in Records /\ (IsAddress(c[k]) => c[k].owner = owner)
  <2>1. n + k \in 1 .. Len(a)
    BY <1>1, <1>2
  <2>2. a[n + k] \in Records
    BY <2>1
  <2> QED BY <1>4, <2>2, OwnProps
<1>9. c \in Seq(Records) /\ Len(c) = Len(a) - n /\ DOMAIN c = 1 .. (Len(a) - n)
  BY <1>4, <1>7, <1>8
<1>10. c # << >>
  BY <1>7, <1>9
<1> QED BY <1>8, <1>9, <1>10 DEF c

\* address_records_with_owner: the addresses, under the queried name.
LEMMA AddressRecordsProps ==
  ASSUME NEW a \in Seq(Records), NEW owner \in STRING
  PROVE  LET r == AddressRecords(a, owner)
         IN /\ r \in Seq(Records)
            /\ \A i \in DOMAIN r : IsAddress(r[i]) => r[i].owner = owner
            /\ a # << >> /\ IsAddress(a[1]) => r # << >>
<1> DEFINE I == {i \in DOMAIN a : IsAddress(a[i])}
           p == Picked(a, I)
           r == AddressRecords(a, owner)
<1>1. I \in SUBSET (1 .. Len(a)) /\ Len(a) \in Nat
  OBVIOUS
<1>2. r = [i \in DOMAIN p |-> Own(p[i], owner)]
  BY DEF AddressRecords
<1>3. a # << >> /\ IsAddress(a[1]) => 1 \in I
  BY <1>1
<1> HIDE DEF I, r
<1>4. /\ p \in Seq(Records)
      /\ \A i \in I : \E k \in 1 .. Len(p) : p[k] = a[i]
  BY <1>1, PickedKeeps
<1> HIDE DEF p
<1>5. DOMAIN p = 1 .. Len(p) /\ Len(p) \in Nat /\ \A k \in 1 .. Len(p) : p[k] \in Records
  BY <1>4
<1>6. \A k \in 1 .. Len(p) :
        Own(p[k], owner) \in Records
          /\ (IsAddress(Own(p[k], owner)) => Own(p[k], owner).owner = owner)
  BY <1>5, OwnProps
<1> DEFINE o == [k \in 1 .. Len(p) |-> Own(p[k], owner)]
<1>7. o \in Seq(Records) /\ Len(o) = Len(p) /\ DOMAIN o = 1 .. Len(p) /\ r = o
      /\ \A k \in 1 .. Len(p) : o[k] = Own(p[k], owner)
  BY <1>2, <1>5, <1>6
<1> HIDE DEF o
<1>8. \A i \in DOMAIN r : IsAddress(r[i]) => r[i].owner = owner
  BY <1>6, <1>7
<1>9. a # << >> /\ IsAddress(a[1]) => r # << >>
  BY <1>3, <1>4, <1>5, <1>7
<1> QED BY <1>7, <1>8, <1>9 DEF r

\* An answer with the same CNAMEs and addresses in the same places leads from
\* name to as many of them.
LEMMA SameReach ==
  ASSUME NEW a \in Seq(Records), NEW b \in Seq(Records), NEW name \in STRING,
         Len(a) = Len(b),
         \A i \in 1 .. Len(a) :
           \/ a[i].type = "HTTPS" /\ b[i].type = "HTTPS"
           \/ a[i].type = b[i].type /\ a[i].owner = b[i].owner /\ a[i].to = b[i].to
  PROVE  AddressesReached(a, name) => AddressesReached(b, name)
<1>1. DOMAIN a = 1 .. Len(a) /\ DOMAIN b = 1 .. Len(a)
  OBVIOUS
<1>2. \A i \in 1 .. Len(a) :
        /\ IsCname(a[i]) = IsCname(b[i]) /\ IsAddress(a[i]) = IsAddress(b[i])
        /\ IsCname(a[i]) \/ IsAddress(a[i]) => a[i].owner = b[i].owner /\ a[i].to = b[i].to
  BY DEF IsCname, IsAddress
<1>3. Targets(a) = Targets(b)
  BY <1>1, <1>2 DEF Targets
<1>4. \A S : FollowsFrom(S, a, name) <=> FollowsFrom(S, b, name)
  BY <1>1, <1>2 DEF FollowsFrom
<1>5. Reached(a, name) = Reached(b, name)
  BY <1>3, <1>4 DEF Reached
<1> QED BY <1>1, <1>2, <1>5 DEF AddressesReached

\* Addresses of the name asked for are reached.
LEMMA OwnReached ==
  ASSUME NEW a, NEW name, \A i \in DOMAIN a : IsAddress(a[i]) => a[i].owner = name
  PROVE  AddressesReached(a, name)
<1>1. name \in Reached(a, name)
  BY DEF Reached, FollowsFrom
<1> QED BY <1>1 DEF AddressesReached

LEMMA MessageFields ==
  ASSUME NEW m \in Messages
  PROVE  m.rcode \in Rcodes /\ m.answers \in Seq(Records)
BY DEF Messages

LEMMA MessageIs ==
  ASSUME NEW rcode \in Rcodes, NEW a \in Seq(Records)
  PROVE  /\ Message(rcode, a) \in Messages
         /\ Message(rcode, a).rcode = rcode /\ Message(rcode, a).answers = a
BY DEF Message, Messages

\* cf_ech_replacement_https: the candidates alone, all of them.
LEMMA EchReplacedProps ==
  ASSUME NEW a \in Seq(Records), NEW owner \in STRING, NEW svcb \in Svcbs
  PROVE  LET b == EchReplaced(a, svcb, owner)
         IN /\ b \in Seq(Records) /\ Len(b) = Len(a)
            /\ \A i \in 1 .. Len(a) :
                 IF UsesCf(a[i])
                 THEN b[i].type = "HTTPS" /\ b[i].owner = owner /\ b[i].svcb = svcb
                 ELSE b[i] = a[i]
<1> DEFINE b == EchReplaced(a, svcb, owner)
           New(r) == Record("HTTPS", owner, r.ttl, NoName, svcb)
<1>1. Len(a) \in Nat /\ DOMAIN a = 1 .. Len(a) /\ \A i \in 1 .. Len(a) : a[i] \in Records
  OBVIOUS
<1>2. b = [i \in 1 .. Len(a) |-> IF UsesCf(a[i]) THEN New(a[i]) ELSE a[i]]
  BY <1>1 DEF EchReplaced
<1>3. \A r \in Records :
        New(r) \in Records /\ New(r).type = "HTTPS" /\ New(r).owner = owner
          /\ New(r).svcb = svcb
  <2>1. ASSUME NEW r \in Records
        PROVE  /\ New(r) \in Records /\ New(r).type = "HTTPS"
               /\ New(r).owner = owner /\ New(r).svcb = svcb
    <3>1. r.ttl \in Ttls
      BY RecordFields
    <3> QED BY <3>1 DEF Record, Records
  <2> QED BY <2>1
<1> HIDE DEF b, New
<1>4. b \in Seq(Records) /\ Len(b) = Len(a)
  BY <1>1, <1>2, <1>3
<1> QED BY <1>1, <1>2, <1>3, <1>4 DEF b

\* rewrite_ttl_in_response changes nothing but TTLs.
LEMMA WithTtlProps ==
  ASSUME NEW a \in Seq(Records)
  PROVE  LET b == WithTtl(a)
         IN /\ b \in Seq(Records) /\ Len(b) = Len(a)
            /\ \A i \in 1 .. Len(a) :
                 /\ b[i].type = a[i].type /\ b[i].owner = a[i].owner
                 /\ b[i].to = a[i].to /\ b[i].svcb = a[i].svcb
                 /\ b[i] = [a[i] EXCEPT !.ttl = b[i].ttl]
<1> DEFINE b == WithTtl(a)
<1>1. Len(a) \in Nat /\ DOMAIN a = 1 .. Len(a) /\ \A i \in 1 .. Len(a) : a[i] \in Records
  OBVIOUS
<1>2. b = [i \in 1 .. Len(a) |-> [a[i] EXCEPT !.ttl = "rule"]]
  BY <1>1 DEF WithTtl
<1> HIDE DEF b
<1>3. \A r \in Records :
        LET u == [r EXCEPT !.ttl = "rule"]
        IN /\ u \in Records /\ u.type = r.type /\ u.owner = r.owner
           /\ u.to = r.to /\ u.svcb = r.svcb /\ u = [r EXCEPT !.ttl = u.ttl]
  BY DEF Records, Ttls
<1>4. b \in Seq(Records) /\ Len(b) = Len(a)
  BY <1>1, <1>2, <1>3
<1> QED BY <1>1, <1>2, <1>3, <1>4 DEF b

-----------------------------------------------------------------------------
(* ForwardRule: the inductive invariant                                    *)

Contexts == [name : Names, qtype : Qtypes, subnet : BOOLEAN, rule : Actions]
Entries ==
  {NoEntry, [kind |-> "useless"]} \cup [kind : {"template"}, svcb : {s \in Svcbs : s.ech}]

\* What EchOnlyCandidates says of an answer and what is made of it.
CandidatesOnly(name, old, new) ==
  LET Same(i) == new[i] = [old[i] EXCEPT !.ttl = new[i].ttl]
      Candidates == {i \in DOMAIN old :
        old[i].type = "HTTPS" /\ old[i].svcb.cf /\ ~old[i].svcb.ech}
  IN /\ DOMAIN new = DOMAIN old
     /\ \A i \in DOMAIN old \ Candidates : Same(i)
     /\ \/ \A i \in Candidates : Same(i)
        \/ \A i \in Candidates :
             new[i].type = "HTTPS" /\ new[i].svcb.ech /\ new[i].owner = name

\* What forward_query has made so far of the upstream's answer: as good an
\* answer, which only resolve_cnames has changed.
Kept(c, old, msg) ==
  /\ old \in Messages /\ msg \in Messages
  /\ msg.rcode = old.rcode
  /\ old.answers # << >> => msg.answers # << >>
  /\ AddressesReached(old.answers, c.name) => AddressesReached(msg.answers, c.name)
Before(c, old, msg) == Kept(c, old, msg) /\ (~c.rule.resolve => msg = old)
After(c, old, msg) ==
  Kept(c, old, msg) /\ (~c.rule.resolve => CandidatesOnly(c.name, old.answers, msg.answers))

\* Where a query is, from its pc, ctx, resp, first and sent.
Sane(p, c, msg, old, asked) ==
  /\ p \in Waiting \cup {"idle", "answered"}
  /\ IF p = "idle" THEN c = NoCtx ELSE c \in Contexts
  /\ p \in Waiting => p \in {s.purpose : s \in asked}
  /\ p \in {"main", "target", "template"} => c.rule.kind = "forward"
  /\ p = "cname" => c.rule.kind = "cname"
  /\ p \in {"idle", "main", "cname"} => old = NoMsg
  /\ p = "target" => /\ c.rule.resolve /\ LastCname(msg.answers) > 0
                     /\ msg = old /\ old \in Messages
  /\ p = "template" => c.rule.template \in Templates /\ Before(c, old, msg)
  /\ p = "answered" => msg \in Messages /\ (old # NoMsg => After(c, old, msg))

ForwardInv ==
  /\ DOMAIN pc = Queries /\ DOMAIN ctx = Queries /\ DOMAIN resp = Queries
  /\ DOMAIN first = Queries /\ DOMAIN sent = Queries
  /\ ech \in [Templates -> Entries]
  /\ \A q \in Queries : Sane(pc[q], ctx[q], resp[q], first[q], sent[q])

\* The end of forward_query: the completed answer is as good, and completion
\* has touched the candidates alone.
LEMMA Completed ==
  ASSUME NEW c \in Contexts, NEW entry \in Entries, NEW old, NEW msg,
         Before(c, old, msg)
  PROVE  LET new == Served(c.rule, WithTemplate(entry, msg, c.name))
         IN new \in Messages /\ After(c, old, new)
<1> DEFINE a == msg.answers
           with == WithTemplate(entry, msg, c.name)
           w == with.answers
           new == Served(c.rule, with)
           b == new.answers
           Replaced == /\ entry.svcb.ech
                       /\ \A i \in 1 .. Len(a) : UsesCf(a[i]) =>
                            w[i].type = "HTTPS" /\ w[i].owner = c.name /\ w[i].svcb = entry.svcb
<1>1. c.name \in STRING
  BY NamesAssumption DEF Contexts
<1>2. msg \in Messages /\ old \in Messages /\ msg.rcode \in Rcodes /\ a \in Seq(Records)
  BY MessageFields DEF Before, Kept
<1>3. /\ with \in Messages /\ with.rcode = msg.rcode
      /\ w \in Seq(Records) /\ Len(w) = Len(a)
      /\ \A i \in 1 .. Len(a) : ~UsesCf(a[i]) => w[i] = a[i]
      /\ \A i \in 1 .. Len(a) : w[i] = a[i] \/ w[i].type = "HTTPS"
      /\ w = a \/ Replaced
  <2>1. CASE entry.kind = "template"
    <3>1. entry.svcb \in Svcbs /\ entry.svcb.ech
      BY <2>1 DEF Entries, NoEntry
    <3>2. with = Message(msg.rcode, EchReplaced(a, entry.svcb, c.name))
      BY <2>1 DEF WithTemplate
    <3> DEFINE e == EchReplaced(a, entry.svcb, c.name)
    <3>3. /\ e \in Seq(Records) /\ Len(e) = Len(a)
          /\ \A i \in 1 .. Len(a) :
               IF UsesCf(a[i])
               THEN e[i].type = "HTTPS" /\ e[i].owner = c.name /\ e[i].svcb = entry.svcb
               ELSE e[i] = a[i]
      BY <1>1, <1>2, <3>1, EchReplacedProps
    <3> HIDE DEF e
    <3>4. with \in Messages /\ with.rcode = msg.rcode /\ w = e
      BY <1>2, <3>2, <3>3, MessageIs DEF e
    <3> QED BY <3>1, <3>3, <3>4
  <2>2. CASE entry.kind # "template"
    <3>1. with = msg
      BY <2>2 DEF WithTemplate
    <3> QED BY <1>2, <3>1
  <2> QED BY <2>1, <2>2
<1> HIDE DEF with, Replaced
<1>4. /\ new \in Messages /\ new.rcode = with.rcode
      /\ b \in Seq(Records) /\ Len(b) = Len(w)
      /\ \A i \in 1 .. Len(w) :
           /\ b[i].type = w[i].type /\ b[i].owner = w[i].owner
           /\ b[i].to = w[i].to /\ b[i].svcb = w[i].svcb
           /\ b[i] = [w[i] EXCEPT !.ttl = b[i].ttl]
  <2>1. CASE c.rule.ttl
    <3>1. new = Message(with.rcode, WithTtl(w))
      BY <2>1 DEF Served
    <3>2. with.rcode \in Rcodes
      BY <1>2, <1>3
    <3>3. WithTtl(w) \in Seq(Records)
      BY <1>3, WithTtlProps
    <3>4. new \in Messages /\ new.rcode = with.rcode /\ b = WithTtl(w)
      BY <3>1, <3>2, <3>3, MessageIs
    <3> QED BY <1>3, <3>4, WithTtlProps
  <2>2. CASE ~c.rule.ttl
    <3>1. new = with
      BY <2>2 DEF Served
    <3>2. \A r \in Records : r = [r EXCEPT !.ttl = r.ttl]
      BY DEF Records
    <3>3. \A i \in 1 .. Len(w) : w[i] \in Records
      BY <1>3
    <3> QED BY <1>3, <3>1, <3>2, <3>3
  <2> QED BY <2>1, <2>2
<1> HIDE DEF w, new, b
<1>5. \A i \in 1 .. Len(a) : UsesCf(a[i]) => a[i].type = "HTTPS"
  BY DEF UsesCf
<1>6. \A i \in 1 .. Len(a) :
        \/ a[i].type = "HTTPS" /\ b[i].type = "HTTPS"
        \/ a[i].type = b[i].type /\ a[i].owner = b[i].owner /\ a[i].to = b[i].to
  BY <1>3, <1>4, <1>5
<1>7. Kept(c, old, new)
  <2>1. AddressesReached(a, c.name) => AddressesReached(b, c.name)
    BY <1>1, <1>2, <1>3, <1>4, <1>6, SameReach
  <2>2. a # << >> => b # << >>
    BY <1>2, <1>3, <1>4
  <2> QED BY <1>3, <1>4, <2>1, <2>2 DEF Before, Kept, b
<1>8. ASSUME ~c.rule.resolve
      PROVE  CandidatesOnly(c.name, old.answers, b)
  <2>1. old.answers = a
    BY <1>8 DEF Before
  <2>2. DOMAIN a = 1 .. Len(a) /\ DOMAIN b = 1 .. Len(a)
    BY <1>2, <1>3, <1>4
  <2>3. \A i \in 1 .. Len(a) : w[i] = a[i] => b[i] = [a[i] EXCEPT !.ttl = b[i].ttl]
    BY <1>3, <1>4
  <2>4. \A i \in 1 .. Len(a) :
          UsesCf(a[i]) <=> a[i].type = "HTTPS" /\ a[i].svcb.cf /\ ~a[i].svcb.ech
    BY DEF UsesCf
  <2>5. CASE w = a
    BY <2>1, <2>2, <2>3, <2>5 DEF CandidatesOnly
  <2>6. CASE Replaced
    <3>1. \A i \in 1 .. Len(a) : UsesCf(a[i]) =>
            b[i].type = "HTTPS" /\ b[i].svcb.ech /\ b[i].owner = c.name
      BY <1>3, <1>4, <2>6 DEF Replaced, w
    <3>2. \A i \in 1 .. Len(a) : ~UsesCf(a[i]) => b[i] = [a[i] EXCEPT !.ttl = b[i].ttl]
      BY <1>3, <2>3
    <3> QED BY <2>1, <2>2, <2>4, <3>1, <3>2 DEF CandidatesOnly
  <2> QED BY <1>3, <2>5, <2>6
<1> QED BY <1>4, <1>7, <1>8 DEF After, new, b, with

\* The upstream's answer itself.
LEMMA BeforeSelf ==
  ASSUME NEW c, NEW m \in Messages
  PROVE  Before(c, m, m)
BY DEF Before, Kept

\* A chain that came complete, collapsed.
LEMMA BeforeCollapse ==
  ASSUME NEW c, NEW m \in Messages, c.name \in STRING, c.rule.resolve,
         ChainCompleted(m.answers)
  PROVE  Before(c, m, Message(m.rcode, Collapse(m.answers, c.name)))
<1>1. m.rcode \in Rcodes /\ m.answers \in Seq(Records)
  BY MessageFields
<1> DEFINE a == Collapse(m.answers, c.name)
<1>2. /\ a \in Seq(Records) /\ a # << >>
      /\ \A i \in DOMAIN a : IsAddress(a[i]) => a[i].owner = c.name
  BY <1>1, CollapseProps
<1> HIDE DEF a
<1>3. AddressesReached(a, c.name)
  BY <1>2, OwnReached
<1> QED BY <1>1, <1>2, <1>3, MessageIs DEF Before, Kept, a

\* A chain whose target has been asked.
LEMMA BeforeResolved ==
  ASSUME NEW c, NEW m \in Messages, NEW r \in Messages, c.name \in STRING, c.rule.resolve
  PROVE  Before(c, m, Resolved(m, r, c.name))
<1>1. m.rcode \in Rcodes /\ r.answers \in Seq(Records)
  BY MessageFields
<1> DEFINE a == AddressRecords(r.answers, c.name)
           hit == r.answers # << >> /\ IsAddress(r.answers[1])
<1>2. /\ a \in Seq(Records)
      /\ \A i \in DOMAIN a : IsAddress(a[i]) => a[i].owner = c.name
      /\ hit => a # << >>
  BY <1>1, AddressRecordsProps
<1>3. Resolved(m, r, c.name) = IF hit THEN Message(m.rcode, a) ELSE m
  BY DEF Resolved
<1> HIDE DEF a, hit
<1>4. AddressesReached(a, c.name)
  BY <1>2, OwnReached
<1>5. hit => Before(c, m, Message(m.rcode, a))
  BY <1>1, <1>2, <1>4, MessageIs DEF Before, Kept
<1> QED BY <1>3, <1>5, BeforeSelf

\* q alone has moved.
Moves(q) ==
  /\ DOMAIN pc' = Queries /\ DOMAIN resp' = Queries /\ DOMAIN sent' = Queries
  /\ \A r \in Queries \ {q} : pc'[r] = pc[r] /\ resp'[r] = resp[r] /\ sent'[r] = sent[r]
Keeps(q) ==
  /\ DOMAIN ctx' = Queries /\ DOMAIN first' = Queries
  /\ \A r \in Queries \ {q} : ctx'[r] = ctx[r] /\ first'[r] = first[r]

LEMMA QueryStep ==
  ASSUME ForwardInv, NEW q \in Queries, Moves(q), Keeps(q), ech' \in [Templates -> Entries],
         Sane(pc'[q], ctx'[q], resp'[q], first'[q], sent'[q])
  PROVE  ForwardInv'
<1>1. ASSUME NEW r \in Queries
      PROVE  Sane(pc'[r], ctx'[r], resp'[r], first'[r], sent'[r])
  <2>1. CASE r # q
    <3>1. Sane(pc[r], ctx[r], resp[r], first[r], sent[r])
      BY DEF ForwardInv
    <3> QED BY <2>1, <3>1 DEF Moves, Keeps
  <2> QED BY <2>1
<1> QED BY <1>1 DEF ForwardInv, Moves, Keeps

\* Respond and Ask move q.
LEMMA Responds ==
  ASSUME ForwardInv, NEW q \in Queries, NEW msg, Respond(q, msg), UNCHANGED sent
  PROVE  Moves(q) /\ pc'[q] = "answered" /\ resp'[q] = msg /\ sent'[q] = sent[q]
BY DEF Respond, Moves, ForwardInv

LEMMA Asks ==
  ASSUME ForwardInv, NEW q \in Queries, NEW purpose, NEW upstream, NEW subnet,
         Ask(q, purpose, upstream, subnet),
         DOMAIN resp' = Queries, \A r \in Queries \ {q} : resp'[r] = resp[r]
  PROVE  Moves(q) /\ pc'[q] = purpose /\ purpose \in {s.purpose : s \in sent'[q]}
BY DEF Ask, Moves, ForwardInv

\* forward_query after resolve_cnames, with fetch_ech_template up to its wait.
LEMMA Finishes ==
  ASSUME ForwardInv,
         NEW q \in Queries, NEW old, NEW msg,
         ctx[q] \in Contexts, ctx[q].rule.kind = "forward", Before(ctx[q], old, msg),
         FinishForward(q, msg)
  PROVE  Moves(q) /\ Sane(pc'[q], ctx[q], resp'[q], old, sent'[q])
<1> DEFINE c == ctx[q]
           rule == c.rule
<1>1. rule \in Actions
  BY DEF Contexts
<1>2. WantsTemplate(rule, msg) => rule.template \in Templates
  BY <1>1, ActionsAssumption DEF WantsTemplate
<1>3. ASSUME NEW entry \in Entries,
             Respond(q, Served(rule, WithTemplate(entry, msg, c.name))), UNCHANGED sent
      PROVE  Moves(q) /\ Sane(pc'[q], c, resp'[q], old, sent'[q])
  <2> DEFINE new == Served(rule, WithTemplate(entry, msg, c.name))
  <2>1. new \in Messages /\ After(c, old, new)
    BY Completed
  <2> HIDE DEF new, c
  <2>2. Moves(q) /\ pc'[q] = "answered" /\ resp'[q] = new
    BY <1>3, Responds DEF new
  <2>3. c \in Contexts
    BY DEF c
  <2> QED BY <2>1, <2>2, <2>3 DEF Sane, Waiting
<1>4. CASE ~WantsTemplate(rule, msg) /\ Respond(q, Served(rule, msg)) /\ UNCHANGED sent
  <2>1. NoEntry \in Entries /\ WithTemplate(NoEntry, msg, c.name) = msg
    BY DEF Entries, NoEntry, WithTemplate
  <2> QED BY <1>3, <1>4, <2>1
<1>5. CASE /\ WantsTemplate(rule, msg) /\ UNCHANGED sent
           /\ Respond(q, Served(rule, WithTemplate(ech[rule.template], msg, c.name)))
  <2>1. ech[rule.template] \in Entries
    BY <1>2, <1>5 DEF ForwardInv
  <2> QED BY <1>3, <1>5, <2>1
<1>6. CASE /\ WantsTemplate(rule, msg) /\ resp' = [resp EXCEPT ![q] = msg]
           /\ Ask(q, "template", rule.upstream, "none")
  <2>1. /\ DOMAIN resp' = Queries /\ resp'[q] = msg
        /\ \A r \in Queries \ {q} : resp'[r] = resp[r]
    BY <1>6 DEF ForwardInv
  <2>2. Moves(q) /\ pc'[q] = "template" /\ "template" \in {s.purpose : s \in sent'[q]}
    BY <1>6, <2>1, Asks
  <2> QED BY <1>2, <1>6, <2>1, <2>2 DEF Sane, Waiting
<1> QED BY <1>4, <1>5, <1>6 DEF FinishForward

-----------------------------------------------------------------------------
(* ForwardRule: every step keeps the invariant                             *)

LEMMA ForwardStarts == ForwardInit => ForwardInv
BY DEF ForwardInit, ForwardInv, Sane, Entries, Waiting

\* A query arrives.
LEMMA ArrivesMoves ==
  ASSUME ForwardInv, NEW q \in Queries, NEW r \in Actions, Arrives(q, r)
  PROVE  /\ Keeps(q) /\ ech' \in [Templates -> Entries]
         /\ ctx'[q] \in Contexts /\ ctx'[q].rule = r
         /\ first'[q] = NoMsg /\ pc[q] = "idle"
<1>1. pc[q] = "idle" /\ Sane(pc[q], ctx[q], resp[q], first[q], sent[q])
  BY DEF Arrives, ForwardInv
<1>2. first[q] = NoMsg
  BY <1>1 DEF Sane
<1>3. PICK n \in Names, t \in Qtypes, own \in BOOLEAN :
        ctx' = [ctx EXCEPT ![q] = [name |-> n, qtype |-> t, subnet |-> own, rule |-> r]]
  BY DEF Arrives
<1>4. [name |-> n, qtype |-> t, subnet |-> own, rule |-> r] \in Contexts
  BY DEF Contexts
<1>5. ctx'[q] = [name |-> n, qtype |-> t, subnet |-> own, rule |-> r]
  BY <1>3 DEF ForwardInv
<1> QED BY <1>1, <1>2, <1>3, <1>4, <1>5 DEF Keeps, ForwardInv, Arrives

\* An answer the rule makes up is no upstream's.
LEMMA AnswersItself ==
  ASSUME ForwardInv, NEW q \in Queries, NEW msg \in Messages,
         Keeps(q), ech' \in [Templates -> Entries],
         ctx'[q] \in Contexts, first'[q] = NoMsg,
         Respond(q, msg), UNCHANGED sent
  PROVE  ForwardInv'
<1>1. Moves(q) /\ pc'[q] = "answered" /\ resp'[q] = msg
  BY Responds
<1>2. Sane(pc'[q], ctx'[q], resp'[q], first'[q], sent'[q])
  BY <1>1 DEF Sane, Waiting
<1> QED BY <1>1, <1>2, QueryStep

LEMMA NoRecords ==
  ASSUME NEW rcode \in Rcodes
  PROVE  Message(rcode, << >>) \in Messages
BY DEF Message, Messages

LEMMA OneRecord ==
  ASSUME NEW type \in {"A", "AAAA", "CNAME"}, NEW owner \in STRING,
         NEW to \in STRING \cup {NoName}
  PROVE  Message("NoError", <<Record(type, owner, "rule", to, NoSvcb)>>) \in Messages
<1> DEFINE r == Record(type, owner, "rule", to, NoSvcb)
<1>1. r \in Records
  BY DEF Record, Records, Ttls
<1> HIDE DEF r
<1>2. <<r>> \in Seq(Records) /\ "NoError" \in Rcodes
  BY <1>1 DEF Rcodes
<1>3. Message("NoError", <<r>>) \in Messages
  BY <1>2, MessageIs
<1> QED BY <1>3 DEF r

LEMMA ContextFields ==
  ASSUME NEW c \in Contexts
  PROVE  c.name \in STRING /\ c.rule \in Actions /\ c # NoCtx
<1>1. c.name \in Names /\ c.rule \in Actions /\ DOMAIN c = {"name", "qtype", "subnet", "rule"}
  BY DEF Contexts
<1>2. c # NoCtx
  BY <1>1 DEF NoCtx
<1> QED BY <1>1, <1>2, NamesAssumption

\* A query that waits for something has a context and the rule for it.
LEMMA WaitingHas ==
  ASSUME ForwardInv, NEW q \in Queries, pc[q] \in Waiting
  PROVE  /\ ctx[q] \in Contexts /\ ctx[q].name \in STRING /\ ctx[q].rule \in Actions
         /\ Sane(pc[q], ctx[q], resp[q], first[q], sent[q])
BY ContextFields DEF ForwardInv, Sane, Waiting

LEMMA AnswersAre ==
  ASSUME NEW name, NEW qtype
  PROVE  Answers(name, qtype) \subseteq Messages
BY ZoneAssumption DEF Answers

LEMMA BlockStep ==
  ASSUME ForwardInv, NEW q \in Queries, Block(q)
  PROVE  ForwardInv'
<1>1. PICK r \in Actions :
        /\ Arrives(q, r) /\ UNCHANGED sent
        /\ Respond(q, IF ~r.poison THEN Message("NXDomain", << >>)
                        ELSE IF ctx'[q].qtype \notin {"A", "AAAA"} THEN Message("NoError", << >>)
                        ELSE Message("NoError",
                               <<Record(ctx'[q].qtype, ctx'[q].name, "rule", NoName, NoSvcb)>>))
  BY DEF Block
<1>2. /\ Keeps(q) /\ ech' \in [Templates -> Entries]
      /\ ctx'[q] \in Contexts /\ first'[q] = NoMsg
  BY <1>1, ArrivesMoves
<1>3. ctx'[q].name \in STRING
  BY <1>2, ContextFields
<1>4. PICK msg \in Messages : Respond(q, msg)
  BY <1>1, <1>3, NoRecords, OneRecord DEF Rcodes
<1> QED BY <1>1, <1>2, <1>4, AnswersItself

LEMMA RewriteStep ==
  ASSUME ForwardInv, NEW q \in Queries, Rewrite(q)
  PROVE  ForwardInv'
<1>1. PICK r \in Actions :
        /\ Arrives(q, r) /\ UNCHANGED sent
        /\ Respond(q, IF ctx'[q].qtype # "A" THEN Message("NoError", << >>)
                        ELSE IF ~r.valid THEN Message("ServFail", << >>)
                        ELSE Message("NoError",
                               <<Record("A", ctx'[q].name, "rule", NoName, NoSvcb)>>))
  BY DEF Rewrite
<1>2. /\ Keeps(q) /\ ech' \in [Templates -> Entries]
      /\ ctx'[q] \in Contexts /\ first'[q] = NoMsg
  BY <1>1, ArrivesMoves
<1>3. ctx'[q].name \in STRING
  BY <1>2, ContextFields
<1>4. PICK msg \in Messages : Respond(q, msg)
  BY <1>1, <1>3, NoRecords, OneRecord DEF Rcodes
<1> QED BY <1>1, <1>2, <1>4, AnswersItself

LEMMA DenyStep ==
  ASSUME ForwardInv, NEW q \in Queries, Deny(q) \/ BadCname(q)
  PROVE  ForwardInv'
<1>1. PICK r \in Actions, rcode \in Rcodes :
        Arrives(q, r) /\ UNCHANGED sent /\ Respond(q, Message(rcode, << >>))
  BY DEF Deny, BadCname, Rcodes
<1>2. /\ Keeps(q) /\ ech' \in [Templates -> Entries]
      /\ ctx'[q] \in Contexts /\ first'[q] = NoMsg
  BY <1>1, ArrivesMoves
<1> QED BY <1>1, <1>2, NoRecords, AnswersItself

LEMMA SendStep ==
  ASSUME ForwardInv, NEW q \in Queries, SendCname(q) \/ SendForward(q)
  PROVE  ForwardInv'
<1>1. PICK r \in Actions, p \in {"cname", "main"} :
        /\ Arrives(q, r) /\ (\E net : Ask(q, p, r.upstream, net)) /\ UNCHANGED resp
        /\ p = "cname" => r.kind = "cname"
        /\ p = "main" => r.kind = "forward"
  BY DEF SendCname, SendForward
<1>2. /\ Keeps(q) /\ ech' \in [Templates -> Entries]
      /\ ctx'[q] \in Contexts /\ ctx'[q].rule = r /\ first'[q] = NoMsg
  BY <1>1, ArrivesMoves
<1>3. DOMAIN resp' = Queries /\ \A o \in Queries \ {q} : resp'[o] = resp[o]
  BY <1>1 DEF ForwardInv
<1>4. Moves(q) /\ pc'[q] = p /\ p \in {s.purpose : s \in sent'[q]}
  BY <1>1, <1>3, Asks
<1>5. Sane(pc'[q], ctx'[q], resp'[q], first'[q], sent'[q])
  BY <1>1, <1>2, <1>4 DEF Sane, Waiting
<1> QED BY <1>2, <1>4, <1>5, QueryStep

\* A query that resumes without having asked an upstream for itself.
LEMMA CnameStep ==
  ASSUME ForwardInv,
         NEW q \in Queries, CnameAnswered(q) \/ CnameFailed(q)
  PROVE  ForwardInv'
<1>1. pc[q] = "cname" /\ ctx' = ctx /\ first' = first /\ ech' = ech
  BY DEF CnameAnswered, CnameFailed
<1>2. /\ ctx[q] \in Contexts /\ ctx[q].name \in STRING /\ ctx[q].rule \in Actions
      /\ Sane(pc[q], ctx[q], resp[q], first[q], sent[q])
  BY <1>1, WaitingHas DEF Waiting
<1>3. /\ Keeps(q) /\ ech' \in [Templates -> Entries]
      /\ ctx'[q] \in Contexts /\ first'[q] = NoMsg
  BY <1>1, <1>2 DEF Keeps, ForwardInv, Sane
<1>4. CASE CnameAnswered(q)
  <2> DEFINE Owned(a) == [i \in DOMAIN a |-> [a[i] EXCEPT !.owner = ctx[q].name]]
  <2>1. PICK msg \in Answers(ctx[q].rule.target, ctx[q].qtype) :
          Respond(q, Message(msg.rcode, Owned(msg.answers)))
    BY <1>4 DEF CnameAnswered
  <2>2. msg.rcode \in Rcodes /\ msg.answers \in Seq(Records)
    BY AnswersAre, MessageFields
  <2>3. \A r \in Records : [r EXCEPT !.owner = ctx[q].name] \in Records
    BY <1>2, RecordUpdates
  <2>4. Owned(msg.answers) \in Seq(Records)
    BY <2>2, <2>3
  <2> HIDE DEF Owned
  <2>5. Message(msg.rcode, Owned(msg.answers)) \in Messages
    BY <2>2, <2>4, MessageIs
  <2> QED BY <1>3, <1>4, <2>1, <2>5, AnswersItself DEF CnameAnswered
<1>5. CASE CnameFailed(q)
  <2>1. ctx[q].rule.target \in STRING
    BY <1>1, <1>2, ActionsAssumption DEF Sane
  <2> QED BY <1>2, <1>3, <1>5, <2>1, OneRecord, AnswersItself DEF CnameFailed
<1> QED BY <1>4, <1>5

LEMMA MainFailedStep ==
  ASSUME ForwardInv, NEW q \in Queries, MainFailed(q)
  PROVE  ForwardInv'
<1>1. pc[q] = "main" /\ ctx' = ctx /\ first' = first /\ ech' = ech /\ UNCHANGED sent
  BY DEF MainFailed
<1>2. ctx[q] \in Contexts /\ Sane(pc[q], ctx[q], resp[q], first[q], sent[q])
  BY <1>1, WaitingHas DEF Waiting
<1>3. /\ Keeps(q) /\ ech' \in [Templates -> Entries]
      /\ ctx'[q] \in Contexts /\ first'[q] = NoMsg
  BY <1>1, <1>2 DEF Keeps, ForwardInv, Sane
<1>4. Message("ServFail", << >>) \in Messages
  BY NoRecords DEF Rcodes
<1> QED BY <1>1, <1>3, <1>4, AnswersItself DEF MainFailed

\* The upstream answers q itself.
LEMMA MainStep ==
  ASSUME ForwardInv,
         NEW q \in Queries, MainAnswered(q)
  PROVE  ForwardInv'
<1> DEFINE c == ctx[q]
           rule == c.rule
<1>1. pc[q] = "main" /\ ctx' = ctx /\ ech' = ech
  BY DEF MainAnswered
<1>2. /\ c \in Contexts /\ c.name \in STRING
      /\ Sane(pc[q], c, resp[q], first[q], sent[q]) /\ rule.kind = "forward"
  BY <1>1, WaitingHas DEF Waiting, Sane
<1>3. PICK msg \in Answers(c.name, c.qtype) :
        /\ first' = [first EXCEPT ![q] = msg]
        /\ \/ /\ ~rule.resolve \/ LastCname(msg.answers) = 0
              /\ FinishForward(q, msg)
           \/ /\ rule.resolve /\ ChainCompleted(msg.answers)
              /\ FinishForward(q, Message(msg.rcode, Collapse(msg.answers, c.name)))
           \/ /\ rule.resolve /\ LastCname(msg.answers) > 0
              /\ ~ChainCompleted(msg.answers)
              /\ resp' = [resp EXCEPT ![q] = msg]
              /\ Ask(q, "target", rule.upstream, RuleSubnet(rule))
  BY DEF MainAnswered
<1>4. msg \in Messages
  BY AnswersAre
<1>5. Keeps(q) /\ ech' \in [Templates -> Entries] /\ ctx'[q] = c /\ first'[q] = msg
  BY <1>1, <1>3 DEF Keeps, ForwardInv
<1>6. ASSUME NEW m, Before(c, msg, m), FinishForward(q, m)
      PROVE  ForwardInv'
  <2>1. Moves(q) /\ Sane(pc'[q], c, resp'[q], msg, sent'[q])
    BY <1>2, <1>6, Finishes
  <2> QED BY <1>5, <2>1, QueryStep
<1>7. CASE FinishForward(q, msg)
  BY <1>4, <1>6, <1>7, BeforeSelf
<1>8. CASE /\ rule.resolve /\ ChainCompleted(msg.answers)
           /\ FinishForward(q, Message(msg.rcode, Collapse(msg.answers, c.name)))
  <2>1. Before(c, msg, Message(msg.rcode, Collapse(msg.answers, c.name)))
    BY <1>2, <1>4, <1>8, BeforeCollapse
  <2> QED BY <1>6, <1>8, <2>1
<1>9. CASE /\ rule.resolve /\ LastCname(msg.answers) > 0
           /\ resp' = [resp EXCEPT ![q] = msg]
           /\ Ask(q, "target", rule.upstream, RuleSubnet(rule))
  <2>1. /\ DOMAIN resp' = Queries /\ resp'[q] = msg
        /\ \A o \in Queries \ {q} : resp'[o] = resp[o]
    BY <1>9 DEF ForwardInv
  <2>2. Moves(q) /\ pc'[q] = "target" /\ "target" \in {s.purpose : s \in sent'[q]}
    BY <1>9, <2>1, Asks
  <2>3. Sane(pc'[q], c, resp'[q], msg, sent'[q])
    BY <1>2, <1>4, <1>9, <2>1, <2>2 DEF Sane, Waiting
  <2> QED BY <1>5, <2>2, <2>3, QueryStep
<1> QED BY <1>3, <1>7, <1>8, <1>9

\* The chain's target is answered, or not.
LEMMA TargetStep ==
  ASSUME ForwardInv,
         NEW q \in Queries, TargetAnswered(q) \/ TargetFailed(q)
  PROVE  ForwardInv'
<1> DEFINE c == ctx[q]
<1>1. pc[q] = "target" /\ ctx' = ctx /\ first' = first /\ ech' = ech
  BY DEF TargetAnswered, TargetFailed
<1>2. /\ c \in Contexts /\ c.name \in STRING
      /\ Sane(pc[q], c, resp[q], first[q], sent[q])
  BY <1>1, WaitingHas DEF Waiting
<1>3. /\ c.rule.kind = "forward" /\ c.rule.resolve
      /\ resp[q] = first[q] /\ first[q] \in Messages
  BY <1>1, <1>2 DEF Sane
<1>4. Keeps(q) /\ ech' \in [Templates -> Entries] /\ ctx'[q] = c /\ first'[q] = first[q]
  BY <1>1 DEF Keeps, ForwardInv
<1>5. PICK m : Before(c, first[q], m) /\ FinishForward(q, m)
  <2>1. CASE TargetAnswered(q)
    <3>1. PICK r \in Answers(TargetOf(resp[q]), c.qtype) :
            FinishForward(q, Resolved(resp[q], r, c.name))
      BY <2>1 DEF TargetAnswered
    <3>2. r \in Messages
      BY AnswersAre
    <3>3. Before(c, first[q], Resolved(resp[q], r, c.name))
      BY <1>2, <1>3, <3>2, BeforeResolved
    <3> QED BY <3>1, <3>3
  <2>2. CASE TargetFailed(q)
    BY <1>3, <2>2, BeforeSelf DEF TargetFailed
  <2> QED BY <2>1, <2>2
<1>6. Moves(q) /\ Sane(pc'[q], c, resp'[q], first[q], sent'[q])
  BY <1>2, <1>3, <1>5, Finishes
<1> QED BY <1>4, <1>6, QueryStep

\* What the template cache is given has an ech.
LEMMA EntryKept ==
  ASSUME NEW msg \in Messages, NEW upstream \in STRING
  PROVE  EchEntry(msg, upstream) \in Entries
<1> DEFINE a == msg.answers
           I == {i \in DOMAIN a : HasEch(a[i])}
           p == Picked(a, I)
<1>1. a \in Seq(Records)
  BY MessageFields
<1>2. I \in SUBSET (1 .. Len(a)) /\ DOMAIN a = 1 .. Len(a)
  BY <1>1
<1>3. EchEntry(msg, upstream)
        = IF p = << >> THEN [kind |-> "useless"]
          ELSE [kind |-> "template", svcb |-> [p[1].svcb EXCEPT !.from = upstream]]
  BY DEF EchEntry
<1>4. /\ p \in Seq(Records)
      /\ \A k \in 1 .. Len(p) : \E i \in I : p[k] = a[i]
  <2> HIDE DEF a, I, p
  <2>1. a \in Seq(Records) /\ I \in SUBSET (1 .. Len(a))
    BY <1>1, <1>2
  <2> QED BY <2>1, PickedKeeps DEF p
<1> HIDE DEF p
<1>5. CASE p # << >>
  <2>1. 1 \in 1 .. Len(p)
    BY <1>4, <1>5
  <2>2. PICK i \in I : p[1] = a[i]
    BY <1>4, <2>1
  <2>3. p[1] \in Records /\ HasEch(p[1])
    BY <1>1, <1>2, <2>2
  <2>4. p[1].svcb \in Svcbs /\ p[1].svcb.ech
    BY <2>3, RecordFields DEF HasEch
  <2>5. \A s \in Svcbs :
          [s EXCEPT !.from = upstream] \in Svcbs
            /\ [s EXCEPT !.from = upstream].ech = s.ech
    BY DEF Svcbs
  <2>6. [p[1].svcb EXCEPT !.from = upstream] \in {s \in Svcbs : s.ech}
    BY <2>4, <2>5
  <2> QED BY <1>3, <1>5, <2>6 DEF Entries
<1>6. CASE p = << >>
  BY <1>3, <1>6 DEF Entries
<1> QED BY <1>5, <1>6

\* The template's domain is answered, or not.
LEMMA TemplateStep ==
  ASSUME ForwardInv,
         NEW q \in Queries, TemplateAnswered(q) \/ TemplateFailed(q)
  PROVE  ForwardInv'
<1> DEFINE c == ctx[q]
           rule == c.rule
           d == rule.template
<1>1. pc[q] = "template" /\ ctx' = ctx /\ first' = first /\ UNCHANGED sent
  BY DEF TemplateAnswered, TemplateFailed
<1>2. /\ c \in Contexts /\ rule \in Actions
      /\ Sane(pc[q], c, resp[q], first[q], sent[q])
  BY <1>1, WaitingHas DEF Waiting
<1>3. rule.kind = "forward" /\ d \in Templates /\ Before(c, first[q], resp[q])
  BY <1>1, <1>2 DEF Sane
<1>4. Keeps(q) /\ ctx'[q] = c /\ first'[q] = first[q]
  BY <1>1 DEF Keeps, ForwardInv
<1>5. ASSUME ech' \in [Templates -> Entries], NEW entry \in Entries,
             Respond(q, Served(rule, WithTemplate(entry, resp[q], c.name)))
      PROVE  ForwardInv'
  <2> DEFINE new == Served(rule, WithTemplate(entry, resp[q], c.name))
  <2>1. new \in Messages /\ After(c, first[q], new)
    BY <1>2, <1>3, Completed
  <2> HIDE DEF new
  <2>2. Moves(q) /\ pc'[q] = "answered" /\ resp'[q] = new
    BY <1>1, <1>5, Responds DEF new
  <2>3. Sane(pc'[q], ctx'[q], resp'[q], first'[q], sent'[q])
    BY <1>2, <1>4, <2>1, <2>2 DEF Sane, Waiting
  <2> QED BY <1>4, <1>5, <2>2, <2>3, QueryStep
<1>6. CASE TemplateAnswered(q)
  <2>1. PICK msg \in Answers(d, "HTTPS") :
          /\ ech' = IF Cacheable(msg)
                    THEN [ech EXCEPT ![d] = EchEntry(msg, rule.upstream)] ELSE ech
          /\ Respond(q, Served(rule, WithTemplate(ech'[d], resp[q], c.name)))
    BY <1>6 DEF TemplateAnswered
  <2>2. rule.upstream \in STRING
    BY <1>2, <1>3, ActionsAssumption
  <2>3. EchEntry(msg, rule.upstream) \in Entries
    BY <2>2, AnswersAre, EntryKept
  <2>4. ech' \in [Templates -> Entries]
    BY <2>1, <2>3 DEF ForwardInv
  <2> QED BY <1>3, <1>5, <2>1, <2>4
<1>7. CASE TemplateFailed(q)
  <2>1. NoEntry \in Entries /\ WithTemplate(NoEntry, resp[q], c.name) = resp[q]
    BY DEF Entries, NoEntry, WithTemplate
  <2>2. ech' \in [Templates -> Entries]
    BY <1>7 DEF TemplateFailed, ForwardInv
  <2> QED BY <1>5, <1>7, <2>1, <2>2 DEF TemplateFailed
<1> QED BY <1>6, <1>7

LEMMA LeaveStep ==
  ASSUME ForwardInv, NEW q \in Queries, Leave(q)
  PROVE  ForwardInv'
<1>1. /\ Moves(q) /\ Keeps(q) /\ ech' \in [Templates -> Entries]
      /\ pc'[q] = "idle" /\ ctx'[q] = NoCtx /\ first'[q] = NoMsg
  BY DEF Leave, ForwardInv, Moves, Keeps
<1>2. Sane(pc'[q], ctx'[q], resp'[q], first'[q], sent'[q])
  BY <1>1 DEF Sane, Waiting
<1> QED BY <1>1, <1>2, QueryStep

LEMMA ExpireStep ==
  ASSUME ForwardInv, NEW d \in Templates, Expire(d)
  PROVE  ForwardInv'
<1>1. NoEntry \in Entries
  BY DEF Entries
<1>2. ech' \in [Templates -> Entries]
  BY <1>1 DEF Expire, ForwardInv
<1> QED BY <1>2 DEF Expire, ForwardInv

LEMMA ForwardStep ==
  ASSUME ForwardInv, [ForwardNext]_forwardVars
  PROVE  ForwardInv'
<1>1. ASSUME NEW q \in Queries, Start(q)
      PROVE  ForwardInv'
  BY <1>1, BlockStep, RewriteStep, DenyStep, SendStep DEF Start
<1>2. ASSUME NEW q \in Queries, Resume(q)
      PROVE  ForwardInv'
  BY <1>2, CnameStep, MainFailedStep, MainStep, TargetStep, TemplateStep DEF Resume
<1>3. CASE UNCHANGED forwardVars
  BY <1>3 DEF forwardVars, ForwardInv
<1> QED BY <1>1, <1>2, <1>3, LeaveStep, ExpireStep DEF ForwardNext

-----------------------------------------------------------------------------
(* ForwardRule: what the stage promises                                    *)

\* Every query is where its rule has taken it.
LEMMA ForwardInvariance == ForwardSpec => []ForwardInv
<1>1. ForwardInit => ForwardInv
  BY ForwardStarts
<1>2. ForwardInv /\ [ForwardNext]_forwardVars => ForwardInv'
  BY ForwardStep
<1> QED BY <1>1, <1>2, PTL DEF ForwardSpec

LEMMA ForwardTypesHold ==
  ASSUME ForwardInv
  PROVE  ForwardTypeOK
<1>1. ASSUME NEW q \in Queries
      PROVE  /\ pc[q] \in Waiting \cup {"idle", "answered"}
             /\ pc[q] = "idle" <=> ctx[q] = NoCtx
             /\ pc[q] \in Waiting => pc[q] \in {s.purpose : s \in sent[q]}
             /\ pc[q] = "target" =>
                  ctx[q].rule.resolve /\ LastCname(resp[q].answers) > 0
             /\ pc[q] = "template" => ctx[q].rule.template \in Templates
             /\ pc[q] = "answered" => resp[q].rcode \in {"NoError", "NXDomain", "ServFail"}
  <2>1. Sane(pc[q], ctx[q], resp[q], first[q], sent[q])
    BY DEF ForwardInv
  <2>2. pc[q] = "idle" <=> ctx[q] = NoCtx
    BY <2>1, ContextFields DEF Sane
  <2>3. pc[q] = "answered" => resp[q].rcode \in {"NoError", "NXDomain", "ServFail"}
    BY <2>1, MessageFields DEF Sane, Rcodes
  <2> QED BY <2>1, <2>2, <2>3 DEF Sane
<1>2. ASSUME NEW d \in Templates
      PROVE  \/ ech[d].kind \in {"miss", "useless"}
             \/ ech[d].kind = "template" /\ ech[d].svcb.ech
  <2>1. ech[d] \in Entries
    BY DEF ForwardInv
  <2> QED BY <2>1 DEF Entries, NoEntry
<1> QED BY <1>1, <1>2 DEF ForwardTypeOK

\* A query waits only for what its rule made it ask, and a template in the
\* cache has an ech.
THEOREM ForwardTypes == ForwardSpec => []ForwardTypeOK
<1>1. ForwardInv => ForwardTypeOK
  BY ForwardTypesHold
<1> QED BY <1>1, ForwardInvariance, PTL

\* An answered query that an upstream answered.
LEMMA ForwardedAre ==
  ASSUME ForwardInv, NEW q \in Queries, Forwarded(q)
  PROVE  After(ctx[q], first[q], resp[q])
BY DEF ForwardInv, Forwarded, Sane, Waiting

\* Whatever the follow-up queries return, the client gets the rcode of the
\* upstream's answer, and records if that had any (resolve_cnames,
\* fetch_ech_template).
THEOREM NeverWorseThanFirst == ForwardSpec => []NeverWorse
<1>1. ForwardInv => NeverWorse
  BY ForwardedAre DEF NeverWorse, After, Kept
<1> QED BY <1>1, ForwardInvariance, PTL

\* Collapsing a chain or replacing it with what its target resolved to leaves
\* no address the client cannot get to from the name it asked for.
THEOREM ChainStaysWhole == ForwardSpec => []ChainUnbroken
<1>1. ForwardInv => ChainUnbroken
  BY ForwardedAre DEF ChainUnbroken, After, Kept
<1> QED BY <1>1, ForwardInvariance, PTL

\* ECH completion replaces every candidate in its place or none, and nothing
\* else of the answer but TTLs (cf_ech_replacement_https).
THEOREM EchTouchesCandidates == ForwardSpec => []EchOnlyCandidates
<1>1. ForwardInv => EchOnlyCandidates
  BY ForwardedAre DEF EchOnlyCandidates, After, CandidatesOnly
<1> QED BY <1>1, ForwardInvariance, PTL

=============================================================================
