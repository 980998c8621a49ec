------------------------------ MODULE RuleMatch ------------------------------
(***************************************************************************)
(* How the rules stage picks the rule of a query (plugins/rules.rs, with   *)
(* the suffix trie of common/domain_trie.rs).                              *)
(*                                                                         *)
(* init indexes the inline rules in a trie; handle first asks that trie,   *)
(* and scans the table in order when the trie does not decide.  The table  *)
(* never changes afterwards and a query shares no state with another, so   *)
(* one query at a time is enough.                                          *)
(*                                                                         *)
(* A domain is the sequence of its labels from the top-level one down, the *)
(* order reverse_domain_bytes gives them: a suffix is then a prefix.       *)
(* Rules are numbered from 0, as in the code.                              *)
(***************************************************************************)
EXTENDS Integers, Sequences, FiniteSets

CONSTANTS
  Rules,      \* the rules a table may hold
  MaxRules,   \* bound: rules in a table
  Requests    \* what may be asked: [name, qtype, group]

NoQtype == "none"
NoGroup == "none"

\* A domain has at least one label (validate_domain).
Domains == Seq(STRING) \ {<< >>}

\* A template suffix and the placeholders below it, which start at 1
\* (parse_match_target).
Patterns == [suffix : Domains, placeholders : Seq(Nat \ {0}) \ {<< >>}]

\* The four forms of a match target.  An inline set and a template list are
\* never empty.
IsTarget(t) ==
  \/ t.kind = "all"
  \/ t.kind = "group" /\ t.group # NoGroup
  \/ t.kind = "inline" /\ t.domains # {} /\ \A d \in t.domains : d \in Domains
  \/ t.kind = "template" /\ t.patterns \in Seq(Patterns) \ {<< >>}

ASSUME RulesAssumption == \A r \in Rules : IsTarget(r.target)
ASSUME BoundAssumption == MaxRules \in Nat
ASSUME RequestsAssumption ==
  \A q \in Requests : q.name \in Domains /\ q.qtype # NoQtype

Tables == UNION {[1..n -> Rules] : n \in 0..MaxRules}

VARIABLES
  table,      \* Rules.rules
  loaded,     \* rules init has indexed so far
  items,      \* DomainSuffixTrieBuilder.items: domain -> tag
  tag_to_idx, \* InlineTrie.tag_to_idx
  phase,      \* idle, fast (inline_hit), scan, or done
  query,      \* the query being handled
  at,         \* the rule the scan is at
  verdict     \* what decided: [by, idx, captures]

vars == <<table, loaded, items, tag_to_idx, phase, query, at, verdict>>
static == <<table, loaded, items, tag_to_idx>>

NoQuery == [name |-> << >>]
Verdict(by, idx, captures) == [by |-> by, idx |-> idx, captures |-> captures]
Undecided == Verdict("open", -1, << >>)

\* rules[idx].
RuleAt(idx) == table[idx + 1]

-----------------------------------------------------------------------------
(* Matching one rule                                                       *)

\* pattern is domain or one of its parents.
suffix_match(pattern, domain) ==
  /\ Len(pattern) <= Len(domain)
  /\ SubSeq(domain, 1, Len(pattern)) = pattern

qtype_matches(rule, qtype) == rule.qtype \in {NoQtype, "ANY", qtype}

\* template_match returns captures: below the suffix there are labels enough
\* for every placeholder.
TemplateHits(p, domain) ==
  /\ suffix_match(p.suffix, domain)
  /\ Len(domain) > Len(p.suffix)
  /\ \A i \in DOMAIN p.placeholders :
       p.placeholders[i] <= Len(domain) - Len(p.suffix)

MutCaptures_FromFront(p, domain) ==
  [i \in DOMAIN p.placeholders |-> domain[Len(domain) + 1 - p.placeholders[i]]]

\* The label each placeholder captures, {1} being the one next to the suffix;
\* pushed in the order in which the placeholders are written.
Captures(p, domain) ==
  [i \in DOMAIN p.placeholders |-> domain[Len(p.suffix) + p.placeholders[i]]]

\* The first pattern of a template rule that hits decides its captures.
HitPattern(t, domain) ==
  CHOOSE i \in DOMAIN t.patterns :
    /\ TemplateHits(t.patterns[i], domain)
    /\ \A j \in 1..(i - 1) : ~TemplateHits(t.patterns[j], domain)

TargetMatches(t, q) ==
  \/ t.kind = "all"
  \/ t.kind = "group" /\ q.group = t.group
  \/ t.kind = "inline" /\ \E d \in t.domains : suffix_match(d, q.name)
  \/ t.kind = "template"
       /\ \E i \in DOMAIN t.patterns : TemplateHits(t.patterns[i], q.name)

matches(rule, q) == qtype_matches(rule, q.qtype) /\ TargetMatches(rule.target, q)

\* What a matching rule leaves in ctx.captures.
RuleCaptures(rule, q) ==
  IF rule.target.kind = "template"
  THEN LET p == rule.target.patterns[HitPattern(rule.target, q.name)]
       IN Captures(p, q.name)
  ELSE << >>

-----------------------------------------------------------------------------
(* The inline trie                                                         *)

IsInline(rule) == rule.target.kind = "inline"

\* The keys lookup passes on its way down the domain.
KeysOn(domain) == {d \in DOMAIN items : suffix_match(d, domain)}

MutLookup_Shortest(domain) ==
  items[CHOOSE d \in KeysOn(domain) : \A e \in KeysOn(domain) : Len(d) <= Len(e)]

\* DomainSuffixTrie::lookup where it returns a tag: that of the deepest key.
Lookup(domain) ==
  items[CHOOSE d \in KeysOn(domain) : \A e \in KeysOn(domain) : Len(e) <= Len(d)]

\* inline_hit: the tag, a rule index, is used as an index into tag_to_idx,
\* and no hit comes out when it is too large for that.
InlineHits(domain) == KeysOn(domain) # {} /\ Lookup(domain) < Len(tag_to_idx)
inline_hit(domain) == tag_to_idx[Lookup(domain) + 1]

\* The fast path of handle decides.
FastDecides ==
  /\ InlineHits(query.name)
  /\ qtype_matches(RuleAt(inline_hit(query.name)), query.qtype)

-----------------------------------------------------------------------------
(* Actions                                                                 *)

Init ==
  /\ table \in Tables
  /\ loaded = 0
  /\ items = << >>
  /\ tag_to_idx = << >>
  /\ phase = "idle"
  /\ query = NoQuery
  /\ at = 0
  /\ verdict = Undecided

MutIndexRule_ReversedIds ==
  /\ loaded < Len(table)
  /\ loaded' = loaded + 1
  /\ LET rule == RuleAt(loaded) IN
     IF IsInline(rule)
     THEN /\ tag_to_idx' = <<loaded>> \o tag_to_idx
          /\ items' = [d \in DOMAIN items \cup rule.target.domains |->
                         IF d \in rule.target.domains THEN loaded ELSE items[d]]
     ELSE UNCHANGED <<tag_to_idx, items>>
  /\ UNCHANGED <<table, phase, query, at, verdict>>

\* build_inline_trie, one rule: a domain listed again moves to the later rule.
IndexRule ==
  /\ loaded < Len(table)
  /\ loaded' = loaded + 1
  /\ LET rule == RuleAt(loaded) IN
     IF IsInline(rule)
     THEN /\ tag_to_idx' = Append(tag_to_idx, loaded)
          /\ items' = [d \in DOMAIN items \cup rule.target.domains |->
                         IF d \in rule.target.domains THEN loaded ELSE items[d]]
     ELSE UNCHANGED <<tag_to_idx, items>>
  /\ UNCHANGED <<table, phase, query, at, verdict>>

\* A query reaches Rules::handle; queries are served once init has returned.
Begin ==
  /\ loaded = Len(table) /\ phase = "idle"
  /\ query' \in Requests
  /\ phase' = "fast"
  /\ UNCHANGED <<static, at, verdict>>

\* apply_rule is called with the rule the trie named; captures stay empty.
FastHit ==
  /\ phase = "fast" /\ FastDecides
  /\ verdict' = Verdict("trie", inline_hit(query.name), << >>)
  /\ phase' = "done"
  /\ UNCHANGED <<static, query, at>>

MutFastMiss_SkipsFirst ==
  /\ phase = "fast" /\ ~FastDecides
  /\ phase' = "scan" /\ at' = 1
  /\ UNCHANGED <<static, query, verdict>>

FastMiss ==
  /\ phase = "fast" /\ ~FastDecides
  /\ phase' = "scan" /\ at' = 0
  /\ UNCHANGED <<static, query, verdict>>

ScanSkip ==
  /\ phase = "scan" /\ at < Len(table)
  /\ ~matches(RuleAt(at), query)
  /\ at' = at + 1
  /\ UNCHANGED <<static, phase, query, verdict>>

ScanHit ==
  /\ phase = "scan" /\ at < Len(table)
  /\ matches(RuleAt(at), query)
  /\ verdict' = Verdict("scan", at, RuleCaptures(RuleAt(at), query))
  /\ phase' = "done"
  /\ UNCHANGED <<static, query, at>>

\* The scan is over: NXDOMAIN.
NoRule ==
  /\ phase = "scan" /\ at >= Len(table)
  /\ verdict' = Verdict("nxdomain", -1, << >>)
  /\ phase' = "done"
  /\ UNCHANGED <<static, query, at>>

\* The stage has answered and the QueryContext leaves.
Finish ==
  /\ phase = "done"
  /\ phase' = "idle" /\ query' = NoQuery /\ at' = 0 /\ verdict' = Undecided
  /\ UNCHANGED static

Next ==
  \/ IndexRule \/ Begin \/ FastHit \/ FastMiss
  \/ ScanSkip \/ ScanHit \/ NoRule \/ Finish

Spec == Init /\ [][Next]_vars

-----------------------------------------------------------------------------
(* Properties                                                              *)

Indices == 0..(Len(table) - 1)

\* Type invariant: tags and the entries of tag_to_idx are rule indices, the
\* latter of inline rules only.
TypeOK ==
  /\ table \in Tables /\ loaded \in 0..Len(table)
  /\ \A d \in DOMAIN items : items[d] \in Indices /\ items[d] < loaded
  /\ \A i \in DOMAIN tag_to_idx :
       tag_to_idx[i] \in Indices /\ IsInline(RuleAt(tag_to_idx[i]))
  /\ phase \in {"idle", "fast", "scan", "done"}
  /\ query \in Requests \cup {NoQuery} /\ (phase # "idle" => query # NoQuery)
  /\ at \in 0..Len(table)
  /\ verdict.by \in {"open", "trie", "scan", "nxdomain"}
  /\ verdict.by \in {"trie", "scan"} => verdict.idx \in Indices

\* Whatever the fast path did not decide, the first matching rule decides
\* (handle's loop over self.rules).
ScanInOrder ==
  verdict.by = "scan" =>
    /\ matches(RuleAt(verdict.idx), query)
    /\ \A j \in 0..(verdict.idx - 1) : ~matches(RuleAt(j), query)

\* handle answers NXDOMAIN only to a query no rule matches.
NxdomainOnlyUnmatched ==
  verdict.by = "nxdomain" => \A j \in Indices : ~matches(RuleAt(j), query)

\* The inline rules are the first rules of the table.
InlineLeads ==
  \A i \in Indices : IsInline(RuleAt(i)) => \A j \in 0..i : IsInline(RuleAt(j))

\* No two inline rules have a suffix of the query between them.
InlineApart(q) ==
  \A i, j \in Indices :
    /\ IsInline(RuleAt(i)) /\ TargetMatches(RuleAt(i).target, q)
    /\ IsInline(RuleAt(j)) /\ TargetMatches(RuleAt(j).target, q)
    => i = j

\* "The first match decides" (rules.rs:3-4) holds of tables that start with
\* their inline rules, for queries two inline rules do not compete for: the
\* trie is then only a shortcut.
FirstMatchDecides ==
  InlineLeads /\ verdict.idx \in Indices /\ InlineApart(query) =>
    /\ matches(RuleAt(verdict.idx), query)
    /\ \A j \in 0..(verdict.idx - 1) : ~matches(RuleAt(j), query)

\* When inline rules compete, the trie prefers the rule that lists the longest
\* suffix of the query, and of those the last in the table.
LongestSuffixWins ==
  InlineLeads /\ verdict.by = "trie" =>
    \E d \in RuleAt(verdict.idx).target.domains :
      /\ suffix_match(d, query.name)
      /\ \A j \in Indices : IsInline(RuleAt(j)) =>
           \A e \in RuleAt(j).target.domains : suffix_match(e, query.name) =>
             /\ Len(e) <= Len(d)
             /\ e = d => j <= verdict.idx

\* Where a template writes its placeholders in order, {n} in an action stands
\* for the n-th label before the suffix (rules.rs:372-373, query.rs:78-79),
\* of the first of the rule's patterns that hits.
CapturesNumbered ==
  verdict.by = "scan" /\ RuleAt(verdict.idx).target.kind = "template" =>
    LET t == RuleAt(verdict.idx).target
        hit == CHOOSE i \in DOMAIN t.patterns :
          /\ TemplateHits(t.patterns[i], query.name)
          /\ \A j \in DOMAIN t.patterns :
               TemplateHits(t.patterns[j], query.name) => i <= j
        p == t.patterns[hit]
    IN (\A k \in DOMAIN p.placeholders : p.placeholders[k] = k) =>
         \A k \in DOMAIN p.placeholders :
           verdict.captures[k] = query.name[Len(p.suffix) + k]

-----------------------------------------------------------------------------
(* What comments say and the code does not do                              *)

\* inline_hit "returns the index of the rule that matches" (rules.rs:655).
HitRuleMatches ==
  verdict.by = "trie" => matches(RuleAt(verdict.idx), query)

\* "Rules are evaluated in order; the first match decides" (rules.rs:3-4).
InOrder ==
  verdict.idx \in Indices =>
    \A j \in 0..(verdict.idx - 1) : ~matches(RuleAt(j), query)

\* Captures are indexed by placeholder number (rules.rs:373, query.rs:78-79).
CapturesIndexed ==
  verdict.by = "scan" /\ RuleAt(verdict.idx).target.kind = "template" =>
    LET t == RuleAt(verdict.idx).target
        p == t.patterns[HitPattern(t, query.name)]
    IN \A k \in DOMAIN p.placeholders :
         p.placeholders[k] \in DOMAIN verdict.captures
           /\ verdict.captures[p.placeholders[k]]
                = query.name[Len(p.suffix) + p.placeholders[k]]
=============================================================================
