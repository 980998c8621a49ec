------------------------------- MODULE Pipeline -------------------------------
(***************************************************************************)
(* The fixed pipeline a query runs through (DnsServer::handle_query in     *)
(* server.rs, QueryContext in query.rs): hosts, groups, cache lookup,      *)
(* rules, then balance, the restoration of an alias and write_back.        *)
(*                                                                         *)
(* Here the stages meet: what one writes into the context, another reads.  *)
(* Each stage is as coarse as this allows: a zone that never changes       *)
(* stands for the upstreams, entries leave the cache at any time, and the  *)
(* rules answer from the zone, by themselves, or fail.  What hosts and     *)
(* groups say about a name changes whenever a watcher reloads a file.      *)
(* One query type at a time is enough: it is part of every cache key.      *)
(***************************************************************************)
EXTENDS Balance

CONSTANTS
  Queries,      \* concurrent handle_query tasks
  Names,        \* names clients ask for
  Target,       \* Target[n]: the original domain n is an alias of, if it is one
  Configs,      \* configurations: [raw, onhit, qtype, utf8, groups], groups being
                \* what the group tries may say, one at a time
  HostTables,   \* contents the hosts files may have, one at a time
  Zone,         \* Zone[n]: the records upstreams return for n
  HostRecs,     \* records of a hosts entry
  LocalRecs     \* what a local rule may answer

\* What build_response_from_cache can rebuild.
CacheTypes == {"A", "AAAA", "CNAME", "MX", "TXT", "HTTPS"}

\* Resource records, as the stages from hosts to write_back tell them apart.
Records == [type : STRING, ip : Nat]

\* What the configuration of a group says of its names.
Flags == [skip_cache : BOOLEAN, skip_balance : BOOLEAN]
NoGroup == [skip_cache |-> FALSE, skip_balance |-> FALSE]

ASSUME NamesAssumption == "none" \notin Names
ASSUME TargetAssumption == Target \in [Names -> Names]
ASSUME HostTablesAssumption == HostTables \subseteq [Names -> {"miss", "ips", "alias"}]
ASSUME RecordsAssumption ==
  /\ Zone \in [Names -> Seq(Records)]
  /\ HostRecs \in Seq(Records) /\ LocalRecs \subseteq Seq(Records)
ASSUME ConfigsAssumption ==
  \A c \in Configs :
    /\ c.onhit \in BOOLEAN
    /\ c.groups \subseteq [Names -> Flags]
    /\ c.raw.section \notin {"absent", "invalid"} =>
         /\ c.raw.max \in Nat
         /\ c.raw.prefers \in Seq([family : Families, net : Nat, prefix : Nat])

VARIABLES
  cfg,     \* the configuration, fixed at start-up
  hosts,   \* hosts[n]: what the hosts trie holds for n
  groups,  \* groups[n]: the flags of the group whose trie has n, or NoGroup
  entry,   \* entry[k]: the cached answer of k, or Absent
  pc,      \* pc[q]: idle, asking, responding or answered
  ctx,     \* ctx[q]: q's QueryContext
  resp     \* resp[q]: ctx.response with ctx.action

vars == <<cfg, hosts, groups, entry, pc, ctx, resp>>

-----------------------------------------------------------------------------
(* Data                                                                    *)

Absent == [recs |-> << >>, src |-> [name |-> "none"]]
NoCtx == [key |-> "none"]
NoResp == [origin |-> "none"]
NoSrc == [name |-> "none"]

\* The balance stage, built from its section of the configuration.
balance == init(cfg.raw)

\* Name::from_utf8 takes the name; parse_name would also try from_ascii.
from_utf8(n) == n \in cfg.utf8

\* The question of ctx.msg, the name of ctx.key, and original_name, set for an
\* alias that goes on.  group stands for ctx.group, by its flags.  asked is
\* history: the question of the client.
NewCtx(n) ==
  [asked |-> n, question |-> n, key |-> n, original_name |-> "none",
   group |-> NoGroup, skip_cache |-> FALSE, skip_balance |-> FALSE]

\* Mutation: only the cache key is rewritten.
MutRewrite_KeyOnly(c, n) == [c EXCEPT !.key = n]

\* QueryContext::rewrite_name.
rewrite_name(c, n) ==
  [c EXCEPT !.key = n, !.question = IF from_utf8(n) THEN n ELSE @]

\* Hosts::handle, alias arm.
Aliased(n) == [rewrite_name(NewCtx(n), Target[n]) EXCEPT !.original_name = n]

\* Groups::handle, with the tries as they are now, only ever sets the bits.
WithGroup(c) ==
  [c EXCEPT !.group = groups[c.key],
            !.skip_cache = @ \/ groups[c.key].skip_cache,
            !.skip_balance = @ \/ groups[c.key].skip_balance]

\* A response to c.  src is history: the question the records came from, its
\* records, whether they were fetched for a group with skip_balance, and the
\* records of the reply that first stored them.
Response(c, origin, recs, src) ==
  [origin |-> origin, question |-> c.question, owner |-> c.question,
   recs |-> recs, src |-> src]

Cacheable(s) == Picked(s, {i \in 1 .. Len(s) : s[i].type \in CacheTypes})

\* The action starts with "forward", and the response is not a SERVFAIL.
Storable(r) == r.origin \in {"upstream", "hit"}

-----------------------------------------------------------------------------
(* Actions                                                                 *)

Init ==
  /\ cfg \in Configs
  /\ hosts \in HostTables
  /\ groups \in cfg.groups
  /\ entry = [k \in Names |-> Absent]
  /\ pc = [q \in Queries |-> "idle"]
  /\ ctx = [q \in Queries |-> NoCtx]
  /\ resp = [q \in Queries |-> NoResp]

\* Hosts::handle: a hosts answer, for n itself or for what n is an alias of, or
\* the context in which the query goes on, an alias as its original domain.
HostsHit(n) ==
  \/ hosts[n] = "ips"
  \/ hosts[n] = "alias" /\ hosts[Target[n]] = "ips"
Prepared(n) == WithGroup(IF hosts[n] = "alias" THEN Aliased(n) ELSE NewCtx(n))

\* hosts answers under the queried name; the groups and the cache are not asked,
\* so that no control bit is set.
HostsAnswer(q, n) ==
  /\ pc[q] = "idle"
  /\ HostsHit(n)
  /\ ctx' = [ctx EXCEPT ![q] = NewCtx(n)]
  /\ resp' = [resp EXCEPT ![q] = Response(NewCtx(n), "hosts", HostRecs, NoSrc)]
  /\ pc' = [pc EXCEPT ![q] = "responding"]
  /\ UNCHANGED <<cfg, hosts, groups, entry>>

Found(q, n, skip) ==
  LET c == Prepared(n) IN
  /\ pc[q] = "idle"
  /\ ~HostsHit(n)
  /\ ~c.skip_cache /\ entry[c.key] # Absent
  /\ ctx' = [ctx EXCEPT ![q] = [c EXCEPT !.skip_balance = skip]]
  /\ resp' = [resp EXCEPT ![q] = Response(c, "hit", entry[c.key].recs, entry[c.key].src)]
  /\ pc' = [pc EXCEPT ![q] = "responding"]
  /\ UNCHANGED <<cfg, hosts, groups, entry>>

\* Mutation: every hit is balanced again.
MutCacheHit_AlwaysBalance(q, n) == Found(q, n, FALSE)

\* Cache::lookup hits: the bit of the balance stage is overwritten.
CacheHit(q, n) == Found(q, n, cfg.onhit)

\* Cache::lookup is skipped or misses: the rules stage has the query.
CacheMiss(q, n) ==
  LET c == Prepared(n) IN
  /\ pc[q] = "idle"
  /\ ~HostsHit(n)
  /\ c.skip_cache \/ entry[c.key] = Absent
  /\ ctx' = [ctx EXCEPT ![q] = c]
  /\ pc' = [pc EXCEPT ![q] = "asking"]
  /\ UNCHANGED <<cfg, hosts, groups, entry, resp>>

Respond(q, origin, recs, src) ==
  /\ pc[q] = "asking"
  /\ resp' = [resp EXCEPT ![q] = Response(ctx[q], origin, recs, src)]
  /\ pc' = [pc EXCEPT ![q] = "responding"]
  /\ UNCHANGED <<cfg, hosts, groups, entry, ctx>>

\* A forward rule: the upstream is asked the question of ctx.msg.
Forwarded(q) ==
  LET n == ctx[q].question IN
  Respond(q, "upstream", Zone[n],
          [name |-> n, recs |-> Zone[n], skipped |-> ctx[q].group.skip_balance,
           first |-> Cacheable(Zone[n])])

\* A failed forward (SERVFAIL, not stored), or a block, cname, rewrite rule.
Failed(q) == Respond(q, "failed", << >>, NoSrc)
Local(q) == \E recs \in LocalRecs : Respond(q, "local", recs, NoSrc)

\* The name is restored on the question and on every owner.
Restored(c, r) ==
  IF c.original_name # "none" /\ from_utf8(c.original_name)
  THEN [r EXCEPT !.question = c.original_name, !.owner = c.original_name]
  ELSE r

\* The reply that first carried the records is remembered.
Remember(r, recs) ==
  IF r.origin = "upstream" THEN [r.src EXCEPT !.first = Cacheable(recs)] ELSE r.src

\* The balance stage, which may wait for its probes, and then the restoration
\* of an alias.
Finished(q, restored) ==
  /\ pc[q] = "responding"
  /\ \E recs \in handle(balance, resp[q].recs, cfg.qtype, ctx[q].skip_balance) :
       resp' = [resp EXCEPT ![q] =
                  [restored EXCEPT !.recs = recs, !.src = Remember(resp[q], recs)]]
  /\ pc' = [pc EXCEPT ![q] = "answered"]
  /\ UNCHANGED <<cfg, hosts, groups, entry, ctx>>

BalanceAndRestore(q) == Finished(q, Restored(ctx[q], resp[q]))

Stored(r) == [recs |-> Cacheable(r.recs), src |-> r.src]

\* Mutation: what is stored is what the rules stage answered.
MutWriteBack_Unbalanced(q) ==
  /\ pc[q] = "answered"
  /\ entry' = IF ~ctx[q].skip_cache /\ Storable(resp[q])
              THEN [entry EXCEPT ![ctx[q].key] =
                      [recs |-> Cacheable(resp[q].src.recs), src |-> resp[q].src]]
              ELSE entry
  /\ pc' = [pc EXCEPT ![q] = "idle"]
  /\ ctx' = [ctx EXCEPT ![q] = NoCtx]
  /\ resp' = [resp EXCEPT ![q] = NoResp]
  /\ UNCHANGED <<cfg, hosts, groups>>

\* Cache::write_back under the key of the context, and the reply leaves.  The
\* owners are not stored: a hit names the records after its own question.
WriteBack(q) ==
  /\ pc[q] = "answered"
  /\ entry' = IF ~ctx[q].skip_cache /\ Storable(resp[q])
              THEN [entry EXCEPT ![ctx[q].key] = Stored(resp[q])] ELSE entry
  /\ pc' = [pc EXCEPT ![q] = "idle"]
  /\ ctx' = [ctx EXCEPT ![q] = NoCtx]
  /\ resp' = [resp EXCEPT ![q] = NoResp]
  /\ UNCHANGED <<cfg, hosts, groups>>

\* An entry expires or is evicted.
Expire(k) ==
  /\ entry[k] # Absent
  /\ entry' = [entry EXCEPT ![k] = Absent]
  /\ UNCHANGED <<cfg, hosts, groups, pc, ctx, resp>>

\* A watcher installs another hosts trie.
HostsReload ==
  /\ hosts' \in HostTables \ {hosts}
  /\ UNCHANGED <<cfg, groups, entry, pc, ctx, resp>>

\* A watcher installs another trie of a group: a name joins or leaves it, while
\* the cache keeps its entries and the queries under way their bits.
GroupsReload ==
  /\ groups' \in cfg.groups \ {groups}
  /\ UNCHANGED <<cfg, hosts, entry, pc, ctx, resp>>

Stage(q) ==
  \/ \E n \in Names : HostsAnswer(q, n) \/ CacheHit(q, n) \/ CacheMiss(q, n)
  \/ Forwarded(q) \/ Failed(q) \/ Local(q)
  \/ BalanceAndRestore(q)
  \/ WriteBack(q)

Next ==
  \/ \E q \in Queries : Stage(q)
  \/ \E k \in Names : Expire(k)
  \/ HostsReload \/ GroupsReload

Spec == Init /\ [][Next]_vars

-----------------------------------------------------------------------------
(* Properties                                                              *)

\* Whether max_answers is meant for the reply of q: it is for a hosts answer, for
\* what the rules answered to a query whose group does not skip the balance
\* stage, for a hit that is balanced again, and for a hit on records that were
\* balanced when they were fetched.  The group that a name is in by the time of
\* the hit changes nothing.
ToCut(q) ==
  LET r == resp[q] IN
  /\ balance.enabled /\ Balanced(cfg.qtype) /\ balance.max > 0
  /\ CASE r.origin = "hosts" -> TRUE
       [] r.origin = "hit" -> ~cfg.onhit \/ ~r.src.skipped
       [] OTHER -> ~ctx[q].group.skip_balance

\* max_answers bounds every reply it is meant for, also one from the cache,
\* where the stage does not run: what was stored has been cut before, and
\* neither hits that store it again nor groups that change under it undo that.
CapKept ==
  \A q \in Queries :
    pc[q] = "answered" /\ ToCut(q) => Len(resp[q].recs) <= balance.max

Count(r, s) == Cardinality({i \in DOMAIN s : s[i] = r})

\* s is t with the records of each type exchanged among their slots, and maybe cut.
Rearranged(s, t) ==
  /\ Len(s) <= Len(t)
  /\ \A i \in DOMAIN s : s[i].type = t[i].type /\ Count(s[i], s) <= Count(s[i], t)

\* A reply has the upstream's records, none twice, and the types in the same
\* slots (a CNAME stays before its addresses).  However often hits are balanced
\* and stored again, a hit has no fewer records than the reply first stored.
\* (What a group with skip_balance fetched is stored uncut, and balanced hits
\* then cut it.)
RecordsKept ==
  \A q \in Queries :
    LET r == resp[q] IN
    /\ pc[q] = "answered" /\ r.origin = "upstream" => Rearranged(r.recs, r.src.recs)
    /\ /\ pc[q] = "answered" /\ r.origin = "hit"
       /\ cfg.onhit \/ ~r.src.skipped
       => Rearranged(r.recs, r.src.first) /\ Len(r.recs) = Len(r.src.first)

InSeq(r, s) == \E i \in DOMAIN s : s[i] = r

\* The cap drops no address that the CIDR list prefers to a kept one of the
\* same balanced family.
BestKept ==
  \A q \in Queries :
    pc[q] = "answered" /\ resp[q].src # NoSrc =>
      \A i \in DOMAIN resp[q].src.recs :
        LET r == resp[q].src.recs[i] IN
        r.type \in families(cfg.qtype) /\ ~InSeq(r, resp[q].recs) =>
          \A j \in DOMAIN resp[q].recs :
            resp[q].recs[j].type = r.type =>
              rank(balance, resp[q].recs[j]) <= rank(balance, r)

\* A query of a group with skip_balance gets what the upstream sent, in its
\* order and uncut.  Where hits are not balanced, a hit gets the records of the
\* reply that first stored them, in that order, hence what the upstream sent
\* where a group with skip_balance had them fetched.
SkipHonoured ==
  \A q \in Queries :
    LET r == resp[q] IN
    /\ pc[q] = "answered" /\ r.origin = "upstream" /\ ctx[q].group.skip_balance =>
         r.recs = r.src.recs
    /\ pc[q] = "answered" /\ r.origin = "hit" /\ cfg.onhit =>
         /\ r.recs = r.src.first
         /\ r.src.skipped => r.recs = Cacheable(r.src.recs)

\* The cache answers a name with what an upstream said about that name, and the
\* client reads the name it asked for, with and without an alias in between, as
\* far as from_utf8 accepts the names.
NamesMatch ==
  /\ \A k \in Names :
       entry[k] # Absent /\ from_utf8(k) => entry[k].src.name = k
  /\ \A q \in Queries :
       pc[q] = "answered" /\ from_utf8(ctx[q].asked) =>
         resp[q].question = ctx[q].asked /\ resp[q].owner = ctx[q].asked

(* Statements of the comments and documents that the code does not meet.   *)

\* query.rs:122-125: a rewrite updates "both the cache key and the message
\* question so the remaining pipeline stages (groups / cache / rules /
\* upstream) all operate on the new target".
OneTarget ==
  \A q \in Queries : pc[q] = "asking" => ctx[q].question = ctx[q].key

\* docs/design/2026-09-04-rsdns-balance.md:54: max_answers is global, each answer
\* has at most so many records.  Yet what was fetched uncut while its name was in
\* a group with skip_balance is served uncut once the name has left the group.
CapIsGlobal ==
  \A q \in Queries :
    /\ pc[q] = "answered" /\ ~ctx[q].group.skip_balance
    /\ balance.enabled /\ Balanced(cfg.qtype) /\ balance.max > 0
    => Len(resp[q].recs) <= balance.max

\* config.rs:67-69: a name that belongs to a group with skip_balance is neither
\* reordered nor cut.  A hit overwrites the group's bit with cache.skip_balance,
\* and what was cut before the name joined the group stays cut.
SkipAlwaysHonoured ==
  \A q \in Queries :
    /\ pc[q] = "answered" /\ resp[q].origin = "hit" /\ ctx[q].group.skip_balance
    => resp[q].recs = Cacheable(resp[q].src.recs)

\* The balance design, 4.4: clients get one order within the life of an entry.
OneOrder ==
  [][\A k \in Names :
       entry[k] # Absent /\ entry'[k] # Absent /\ cfg.onhit =>
         entry'[k].recs = entry[k].recs]_vars
=============================================================================
