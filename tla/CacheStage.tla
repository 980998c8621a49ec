----------------------------- MODULE CacheStage -----------------------------
(***************************************************************************)
(* The cache stage of the query pipeline (plugins/cache.rs, with the       *)
(* helpers of plugins/util.rs and the calls of Server::handle_query).      *)
(*                                                                         *)
(* A query looks its key up; a hit answers it, a miss sends it to the      *)
(* rules stage, which answers it from an upstream or by itself.  In both   *)
(* cases handle_query ends with write_back, so a hit is stored again.      *)
(*                                                                         *)
(* Time is relative: an entry carries how long it still has, in ticks of   *)
(* 1/Unit second, and Tick shortens every span by one.  Local processing   *)
(* takes no time on this scale, the speed probes of the balance stage do:  *)
(* an answered query that is balanced may reach write_back ticks later.    *)
(***************************************************************************)
EXTENDS Integers, FiniteSets

CONSTANTS
  Queries,            \* concurrent queries (handle_query tasks)
  Keys,               \* cache keys
  Answers,            \* what upstreams return: [rcode, recs, ttl]
  Unit,               \* ticks per second
  MinTtl, MaxTtl,     \* config cache.min_ttl, cache.max_ttl, in seconds
  KeepTtl,            \* config cache.keep_ttl
  SkipBalanceOnHit,   \* config cache.skip_balance
  NegativeTtl,        \* extract_min_ttl of an answer without records
  ProbeTicks          \* the longest that speed probes take (0: no mode speed)

Rcodes == {"NoError", "NXDomain", "ServFail"}

\* The answer section: empty, records the cache can hold, such records with a
\* name that does not parse back, or only records of other types (PTR, SRV, NS,
\* CAA, SOA, ...).
Sections == {"none", "known", "unreadable", "other"}

\* An empty answer section has no TTL.
ASSUME AnswersAssumption ==
  \A a \in Answers :
    /\ a.rcode \in Rcodes /\ a.recs \in Sections /\ a.ttl \in Nat
    /\ a.recs = "none" => a.ttl = NegativeTtl

\* Duration::clamp panics when min_ttl > max_ttl; nothing in init checks it.
ASSUME TtlAssumption ==
  /\ Unit \in Nat \ {0}
  /\ MinTtl \in Nat /\ MaxTtl \in Nat /\ NegativeTtl \in Nat
  /\ MinTtl <= MaxTtl
  /\ ProbeTicks \in Nat
  /\ KeepTtl \in BOOLEAN /\ SkipBalanceOnHit \in BOOLEAN

VARIABLES
  entry,   \* entry[k]: the live moka entry of key k, or Absent
  pc,      \* pc[q]: idle, asking (inside the rules stage) or answered
  ctx,     \* ctx[q]: key and control bits of q's QueryContext
  resp     \* resp[q]: q's ctx.response and ctx.action

vars == <<entry, pc, ctx, resp>>

-----------------------------------------------------------------------------
(* Data                                                                    *)

Absent == [kind |-> "absent"]
NoCtx == [key |-> "none"]
NoResp == [origin |-> "none"]

\* What a stage answered, and where from: `upstream` is forward(up), `hit`
\* forward-cache*, `denied` forward-nodata(up), `failed` forward-error(up),
\* `local` any action not named forward* (block, cname, rewrite, nxdomain).
\* `probed` counts the ticks its speed probes have taken.  life, current and was
\* are history: the ticks for which the upstream's answer may be cached,
\* whether the zone has kept it since, and what the upstream said.
Response(origin, rcode, recs, ttl, life, current, was) ==
  [origin |-> origin, rcode |-> rcode, recs |-> recs, ttl |-> ttl, probed |-> 0,
   life |-> life, current |-> current, was |-> was]

\* TtlExpiry::duration_for, in seconds.
duration_for(ttl) ==
  IF KeepTtl THEN ttl
  ELSE IF ttl < MinTtl THEN MinTtl ELSE IF ttl > MaxTtl THEN MaxTtl ELSE ttl

\* How long an answer may be cached in all, in ticks: for the upstream's own TTL
\* or min_ttl when that is more, after one run of the probes.
Allowed(ttl) ==
  (IF duration_for(ttl) > ttl THEN duration_for(ttl) ELSE ttl) * Unit + ProbeTicks

MutRemainingTtl_RoundUp(e) ==
  IF KeepTtl THEN e.ttl ELSE (e.rest + Unit - 1) \div Unit

\* CacheEntry::remaining_ttl: whole seconds until created_at + ttl.
remaining_ttl(e) == IF KeepTtl THEN e.ttl ELSE e.rest \div Unit

\* build_response_from_cache, and the SERVFAIL of lookup when a cached name does
\* not parse.
build_response_from_cache(e) ==
  Response("hit",
           CASE e.kind = "nxdomain" -> "NXDomain"
             [] e.kind = "unreadable" -> "ServFail"
             [] OTHER -> "NoError",
           IF e.kind = "records" THEN "known" ELSE "none",
           IF e.kind = "records" THEN remaining_ttl(e) ELSE NegativeTtl,
           e.life, e.current, e.was)

MutKind_ServFail(r) ==
  CASE r.recs = "known" -> "records"
    [] r.recs = "unreadable" -> "unreadable"
    [] r.recs \in {"none", "other"} /\ r.rcode = "NXDomain" -> "nxdomain"
    [] OTHER -> "nodata"

\* cache_upstream_response stores known records whatever the rcode, and
\* otherwise a negative record for NXDOMAIN and NOERROR.
Kind(r) ==
  CASE r.recs = "known" -> "records"
    [] r.recs = "unreadable" -> "unreadable"
    [] r.recs \in {"none", "other"} /\ r.rcode = "NXDomain" -> "nxdomain"
    [] r.recs \in {"none", "other"} /\ r.rcode = "NoError" -> "nodata"
    [] OTHER -> "absent"

\* A response carries forward* as its action.
IsForward(r) == r.origin \in {"upstream", "hit", "denied", "failed"}

\* The entry DnsCache::put creates, which moka never returns once its lifetime
\* is over: a lifetime of 0 is over at once.
NewEntry(r) ==
  LET left == duration_for(r.ttl) * Unit IN
  IF Kind(r) = "absent" \/ left = 0 THEN Absent
  ELSE [kind |-> Kind(r), ttl |-> r.ttl, rest |-> r.ttl * Unit, left |-> left,
        life |-> r.life, current |-> r.current, was |-> r.was]

-----------------------------------------------------------------------------
(* Actions                                                                 *)

Init ==
  /\ entry = [k \in Keys |-> Absent]
  /\ pc = [q \in Queries |-> "idle"]
  /\ ctx = [q \in Queries |-> NoCtx]
  /\ resp = [q \in Queries |-> NoResp]

\* The control bits of a query after the groups stage; `group` remembers what
\* its group asked of the balance stage.
Flags == [skip_cache : BOOLEAN, skip_balance : BOOLEAN]
Context(k, f) ==
  [key |-> k, skip_cache |-> f.skip_cache, skip_balance |-> f.skip_balance,
   group |-> f.skip_balance]

Answer(q, r) ==
  /\ resp' = [resp EXCEPT ![q] = r]
  /\ pc' = [pc EXCEPT ![q] = "answered"]

\* Cache::lookup finds the key: the hit overwrites ctx.skip_balance, and answers
\* even if the entry cannot be turned back into a response.
Hit(q, k, f) ==
  /\ pc[q] = "idle"
  /\ ~f.skip_cache
  /\ entry[k] # Absent
  /\ ctx' = [ctx EXCEPT ![q] =
               [Context(k, f) EXCEPT !.skip_balance = SkipBalanceOnHit]]
  /\ Answer(q, build_response_from_cache(entry[k]))
  /\ UNCHANGED entry

MutMiss_Unguarded(q, k, f) ==
  /\ pc[q] = "idle"
  /\ ctx' = [ctx EXCEPT ![q] = Context(k, f)]
  /\ pc' = [pc EXCEPT ![q] = "asking"]
  /\ UNCHANGED <<entry, resp>>

\* Cache::lookup is skipped or misses: on to the rules stage.
Miss(q, k, f) ==
  /\ pc[q] = "idle"
  /\ f.skip_cache \/ entry[k] = Absent
  /\ ctx' = [ctx EXCEPT ![q] = Context(k, f)]
  /\ pc' = [pc EXCEPT ![q] = "asking"]
  /\ UNCHANGED <<entry, resp>>

\* forward_query returned an upstream's answer (TTL override applied).
Upstream(q, a) ==
  /\ pc[q] = "asking"
  /\ Answer(q, Response("upstream", a.rcode, a.recs, a.ttl,
                        Allowed(a.ttl), TRUE,
                        [rcode |-> a.rcode, recs |-> a.recs]))
  /\ UNCHANGED <<entry, ctx>>

\* A response the rules stage makes by itself: an empty NOERROR for a denied
\* query type, SERVFAIL after a failed forward, or a local action.
Made(q, origin, rcode, recs) ==
  /\ pc[q] = "asking"
  /\ Answer(q, Response(origin, rcode, recs, NegativeTtl,
                        Allowed(NegativeTtl), TRUE,
                        [rcode |-> rcode, recs |-> recs]))
  /\ UNCHANGED <<entry, ctx>>

DenyQtype(q) == Made(q, "denied", "NoError", "none")
ForwardError(q) == Made(q, "failed", "ServFail", "none")
Local(q, rcode) ==
  Made(q, "local", rcode, IF rcode = "NoError" THEN "known" ELSE "none")

MutWriteBack_IgnoreSkip(q) ==
  LET r == resp[q]
      k == ctx[q].key IN
  /\ pc[q] = "answered"
  /\ entry' = IF IsForward(r) /\ Kind(r) # "absent"
              THEN [entry EXCEPT ![k] = NewEntry(r)] ELSE entry
  /\ pc' = [pc EXCEPT ![q] = "idle"]
  /\ ctx' = [ctx EXCEPT ![q] = NoCtx]
  /\ resp' = [resp EXCEPT ![q] = NoResp]

\* Cache::write_back, the last stage to touch the state: a response without a
\* kind leaves the key's entry as it is.
WriteBack(q) ==
  LET r == resp[q]
      k == ctx[q].key IN
  /\ pc[q] = "answered"
  /\ entry' = IF ~ctx[q].skip_cache /\ IsForward(r) /\ Kind(r) # "absent"
              THEN [entry EXCEPT ![k] = NewEntry(r)] ELSE entry
  /\ pc' = [pc EXCEPT ![q] = "idle"]
  /\ ctx' = [ctx EXCEPT ![q] = NoCtx]
  /\ resp' = [resp EXCEPT ![q] = NoResp]

\* moka evicts an entry to stay within cache.size.
Evict(k) ==
  /\ entry[k] # Absent
  /\ entry' = [entry EXCEPT ![k] = Absent]
  /\ UNCHANGED <<pc, ctx, resp>>

\* The authoritative zone changes what it says about k: answers obtained
\* before are no longer current.
ZoneChange(k) ==
  /\ entry' = [entry EXCEPT ![k] =
                 IF @ = Absent THEN @ ELSE [@ EXCEPT !.current = FALSE]]
  /\ resp' = [q \in Queries |->
                IF pc[q] = "answered" /\ ctx[q].key = k
                THEN [resp[q] EXCEPT !.current = FALSE] ELSE resp[q]]
  /\ UNCHANGED <<pc, ctx>>

Less(n) == IF n = 0 THEN 0 ELSE n - 1

\* One tick later; moka does not return an entry whose lifetime is over.
Aged(e) ==
  IF e = Absent \/ e.left = 1 THEN Absent
  ELSE [e EXCEPT !.rest = Less(@), !.left = @ - 1, !.life = Less(@)]

\* The balance stage waits for its probes, each bounded by a timeout, before an
\* answer with addresses is written back.
Probing(q) ==
  /\ pc[q] = "answered"
  /\ ~ctx[q].skip_balance
  /\ resp[q].recs \in {"known", "unreadable"}
  /\ resp[q].probed < ProbeTicks

Quiet == \A q \in Queries : pc[q] = "answered" => Probing(q)

\* 1/Unit of a second passes.
Tick ==
  /\ Quiet
  /\ entry' = [k \in Keys |-> Aged(entry[k])]
  /\ resp' = [q \in Queries |->
                IF pc[q] = "answered"
                THEN [resp[q] EXCEPT !.probed = @ + 1, !.life = Less(@)] ELSE resp[q]]
  /\ UNCHANGED <<pc, ctx>>

Next ==
  \/ \E q \in Queries, k \in Keys, f \in Flags : Hit(q, k, f) \/ Miss(q, k, f)
  \/ \E q \in Queries, a \in Answers : Upstream(q, a)
  \/ \E q \in Queries :
       \/ DenyQtype(q)
       \/ ForwardError(q)
       \/ \E rcode \in {"NoError", "NXDomain"} : Local(q, rcode)
       \/ WriteBack(q)
  \/ \E k \in Keys : Evict(k) \/ ZoneChange(k)
  \/ Tick

Spec == Init /\ [][Next]_vars

\* Answered queries are run to their end, and time passes whatever the program
\* does: the queries of one instant are finitely many, so that instants at
\* which every answered query is probing never cease to come.  An upstream may
\* stay silent.
FairSpec ==
  /\ Spec
  /\ []<>Quiet /\ SF_vars(Tick)
  /\ \A q \in Queries : WF_vars(WriteBack(q))

-----------------------------------------------------------------------------
(* Properties                                                              *)

Entries ==
  [kind : {"records", "unreadable", "nxdomain", "nodata"}, ttl : Nat, rest : Nat,
   left : Nat \ {0}, life : Nat, current : BOOLEAN,
   was : [rcode : Rcodes, recs : Sections]]
Contexts ==
  [key : Keys, skip_cache : BOOLEAN, skip_balance : BOOLEAN, group : BOOLEAN]
Responses ==
  [origin : {"upstream", "hit", "denied", "failed", "local"}, rcode : Rcodes,
   recs : Sections, ttl : Nat, probed : 0 .. ProbeTicks, life : Nat, current : BOOLEAN,
   was : [rcode : Rcodes, recs : Sections]]

\* Type invariant: stored entries have a lifetime left, and exactly the
\* queries inside the pipeline have a context and, once answered, a response.
TypeOK ==
  /\ entry \in [Keys -> Entries \cup {Absent}]
  /\ pc \in [Queries -> {"idle", "asking", "answered"}]
  /\ ctx \in [Queries -> Contexts \cup {NoCtx}]
  /\ resp \in [Queries -> Responses \cup {NoResp}]
  /\ \A q \in Queries :
       /\ ctx[q] = NoCtx <=> pc[q] = "idle"
       /\ resp[q] # NoResp <=> pc[q] = "answered"

\* However often a hit stores its own answer again, records never stay in the
\* cache longer than the upstream's own TTL allows, counted from the moment the
\* rules stage answered, and one run of the speed probes more: remaining_ttl
\* rounds down, which pays for every rewrite.  max_ttl is no such bound, a hit
\* may renew it as long as the upstream's TTL has not run out.
RecordsLifeBound ==
  \A k \in Keys :
    entry[k] # Absent /\ entry[k].kind = "records" =>
      entry[k].left <= entry[k].life

\* The TTL a client is given for cached records never reaches past that time.
HonestTtl ==
  \A q \in Queries :
    pc[q] = "answered" /\ resp[q].origin = "hit" /\ resp[q].recs = "known" =>
      resp[q].ttl * Unit <= resp[q].life

\* Whatever upstreams answer, and after any number of hits stored again: a hit
\* has records exactly if the upstream sent some that the cache can give back;
\* a hit without has the rcode the upstream gave (an upstream's SERVFAIL is
\* never turned into an empty answer), or is the SERVFAIL for records that do
\* not parse back.
FaithfulHits ==
  \A q \in Queries :
    pc[q] = "answered" /\ resp[q].origin = "hit" =>
      LET said == resp[q].was IN
      /\ resp[q].recs = "known" <=> said.recs = "known"
      /\ resp[q].recs # "known" =>
           resp[q].rcode = IF said.recs = "unreadable" THEN "ServFail" ELSE said.rcode

\* A query whose group sets skip_cache leaves no trace in the cache and gets
\* no answer from it, however other queries for the key go.
SkipCacheBypasses ==
  [][\A q \in Queries :
       /\ pc[q] = "answered" /\ pc'[q] = "idle" /\ ctx[q].skip_cache =>
            resp[q].origin # "hit" /\ entry' = entry
       /\ pc[q] = "idle" /\ pc'[q] = "asking" /\ ~ctx'[q].skip_cache =>
            entry[ctx'[q].key] = Absent]_vars

\* What the local rules (block, cname, rewrite, no match) answer is never
\* cached: an entry that is not a denied type's empty answer came, through any
\* number of hits, from an upstream.
LocalNeverCached ==
  [][\A q \in Queries :
       pc[q] = "answered" /\ pc'[q] = "idle" /\ entry' # entry =>
         resp[q].origin \in {"upstream", "hit", "denied"}]_vars

OutdatedRecords(k) ==
  entry[k] # Absent /\ entry[k].kind = "records" /\ ~entry[k].current

\* Outdated records always leave the cache at some point, even when queries
\* for them never stop and each hit stores them again.
OutdatedLeaves == \A k \in Keys : OutdatedRecords(k) ~> ~OutdatedRecords(k)

(* Statements of the comments and documents that the code does not meet.   *)

\* cache.rs:10-11: a hit is always fresh, there is no stale serving.  Fresh is
\* what Allowed makes of the upstream's TTL, the min_ttl clamp included.
HitsAreFresh ==
  \A q \in Queries :
    pc[q] = "answered" /\ resp[q].origin = "hit" => resp[q].life > 0

\* cache.rs:301-303: write_back stores what came from upstream, not what the
\* cache itself answered (the empty answer of a denied type is let pass here).
HitsNotStored ==
  [][\A q \in Queries :
       pc[q] = "answered" /\ pc'[q] = "idle" /\ entry' # entry =>
         resp[q].origin # "hit"]_vars

\* cache.rs:62: NoData stands for an "Empty NOERROR answer".
NoDataMeansEmpty ==
  \A k \in Keys :
    entry[k] # Absent /\ entry[k].kind = "nodata" =>
      entry[k].was = [rcode |-> "NoError", recs |-> "none"]

\* util.rs:110: an NXDOMAIN is stored as a negative answer.
NxdomainStaysNegative ==
  \A k \in Keys :
    entry[k] # Absent /\ entry[k].was.rcode = "NXDomain" =>
      entry[k].kind = "nxdomain"

\* query.rs:64-68: a group with skip_balance keeps its queries out of the
\* balance stage.
SkipBalanceKept ==
  \A q \in Queries :
    pc[q] = "answered" /\ ctx[q].group => ctx[q].skip_balance
=============================================================================
