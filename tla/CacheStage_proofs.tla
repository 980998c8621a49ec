------------------------- MODULE CacheStage_proofs -------------------------
(* Proofs about CacheStage.                                                *)
EXTENDS CacheStage, TLAPS

\* The configurations for which cached records are never kept too long: no
\* keep_ttl, no lower clamp, and hits that are not probed again (the default)
\* or no probes at all.
PlainTtls ==
  /\ ~KeepTtl
  /\ MinTtl = 0
  /\ SkipBalanceOnHit \/ ProbeTicks = 0

\* A rewrite spends what rounding down saves: the two facts about spans.
LEMMA RoundDown ==
  ASSUME NEW n \in Nat, NEW u \in Nat \ {0}
  PROVE  n \div u \in Nat /\ (n \div u) * u <= n
OBVIOUS

LEMMA Scale ==
  ASSUME NEW m \in Nat, NEW n \in Nat, NEW u \in Nat, m <= n
  PROVE  m * u \in Nat /\ m * u <= n * u
OBVIOUS

-----------------------------------------------------------------------------
(* Types                                                                   *)

LEMMA DurationType ==
  ASSUME NEW n \in Nat
  PROVE  duration_for(n) \in Nat
BY TtlAssumption DEF duration_for

LEMMA AllowedType ==
  ASSUME NEW n \in Nat
  PROVE  Allowed(n) \in Nat
<1>1. duration_for(n) \in Nat
  BY DurationType
<1> QED BY <1>1, TtlAssumption DEF Allowed

\* put stores a well-formed entry, or nothing.
LEMMA NewEntryType ==
  ASSUME NEW r \in Responses
  PROVE  NewEntry(r) \in Entries \cup {Absent}
<1> DEFINE left == duration_for(r.ttl) * Unit
<1>1. left \in Nat /\ r.ttl * Unit \in Nat
  <2>1. r.ttl \in Nat BY DEF Responses
  <2>2. duration_for(r.ttl) \in Nat BY <2>1, DurationType
  <2>3. QED BY <2>1, <2>2, TtlAssumption
<1>2. CASE Kind(r) = "absent" \/ left = 0
  BY <1>2 DEF NewEntry
<1>3. CASE Kind(r) # "absent" /\ left # 0
  <2>1. Kind(r) \in {"records", "unreadable", "nxdomain", "nodata"}
    BY <1>3 DEF Kind
  <2>2. NewEntry(r) =
          [kind |-> Kind(r), ttl |-> r.ttl, rest |-> r.ttl * Unit, left |-> left,
           life |-> r.life, current |-> r.current, was |-> r.was]
    BY <1>3 DEF NewEntry
  <2>3. QED BY <1>1, <1>3, <2>1, <2>2 DEF Entries, Responses
<1>4. QED BY <1>2, <1>3

\* A hit builds a well-formed response.
LEMMA HitType ==
  ASSUME NEW e \in Entries
  PROVE  build_response_from_cache(e) \in Responses
<1>1. remaining_ttl(e) \in Nat
  <2>1. e.rest \in Nat /\ e.ttl \in Nat BY DEF Entries
  <2>2. Unit \in Nat \ {0} BY TtlAssumption
  <2>3. e.rest \div Unit \in Nat BY <2>1, <2>2, RoundDown
  <2>4. QED BY <2>1, <2>3 DEF remaining_ttl
<1>2. (CASE e.kind = "nxdomain" -> "NXDomain"
         [] e.kind = "unreadable" -> "ServFail"
         [] OTHER -> "NoError") \in Rcodes
  BY DEF Rcodes
<1>3. QED
  BY <1>1, <1>2, TtlAssumption
  DEF build_response_from_cache, Response, Responses, Entries, Sections

LEMMA AgedType ==
  ASSUME NEW e \in Entries \cup {Absent}
  PROVE  Aged(e) \in Entries \cup {Absent}
<1>1. CASE e = Absent \/ e.left = 1
  BY <1>1 DEF Aged
<1>2. CASE ~(e = Absent \/ e.left = 1)
  <2>1. e \in Entries /\ e.left \in Nat \ {0, 1} /\ e.rest \in Nat /\ e.life \in Nat
    BY <1>2 DEF Entries
  <2>2. Less(e.rest) \in Nat /\ Less(e.life) \in Nat /\ e.left - 1 \in Nat \ {0}
    BY <2>1 DEF Less
  <2>3. Aged(e) = [e EXCEPT !.rest = Less(e.rest), !.left = e.left - 1,
                            !.life = Less(e.life)]
    BY <1>2 DEF Aged
  <2>4. QED BY <2>1, <2>2, <2>3 DEF Entries
<1>3. QED BY <1>1, <1>2

LEMMA TypeInit == Init => TypeOK
BY DEF Init, TypeOK

\* Every kind of answer, from an upstream, the cache or the rules, keeps the
\* type invariant.
LEMMA AnswerType ==
  ASSUME TypeOK, NEW q \in Queries, NEW r \in Responses, Answer(q, r),
         UNCHANGED entry,
         ctx' \in [Queries -> Contexts \cup {NoCtx}],
         \A p \in Queries : p # q => ctx'[p] = ctx[p],
         ctx'[q] # NoCtx
  PROVE  TypeOK'
<1>1. r # NoResp BY DEF Responses, NoResp
<1>2. resp' \in [Queries -> Responses \cup {NoResp}]
  BY DEF TypeOK, Answer
<1>3. pc' \in [Queries -> {"idle", "asking", "answered"}]
  BY DEF TypeOK, Answer
<1>4. ASSUME NEW p \in Queries
      PROVE  /\ ctx'[p] = NoCtx <=> pc'[p] = "idle"
             /\ resp'[p] # NoResp <=> pc'[p] = "answered"
  <2>1. CASE p = q BY <1>1, <2>1 DEF TypeOK, Answer
  <2>2. CASE p # q BY <2>2 DEF TypeOK, Answer
  <2>3. QED BY <2>1, <2>2
<1>5. QED BY <1>2, <1>3, <1>4 DEF TypeOK

LEMMA ContextType ==
  ASSUME NEW k \in Keys, NEW f \in Flags
  PROVE  /\ Context(k, f) \in Contexts
         /\ [Context(k, f) EXCEPT !.skip_balance = SkipBalanceOnHit] \in Contexts
BY TtlAssumption DEF Context, Contexts, Flags

LEMMA ContextIsOne ==
  ASSUME NEW c \in Contexts
  PROVE  c # NoCtx
BY DEF Contexts, NoCtx

LEMMA ResponseType ==
  ASSUME NEW origin \in {"upstream", "hit", "denied", "failed", "local"},
         NEW rcode \in Rcodes, NEW recs \in Sections, NEW ttl \in Nat,
         NEW life \in Nat, NEW current \in BOOLEAN,
         NEW was \in [rcode : Rcodes, recs : Sections]
  PROVE  Response(origin, rcode, recs, ttl, life, current, was) \in Responses
<1>1. 0 \in 0 .. ProbeTicks
  BY TtlAssumption
<1> QED BY <1>1 DEF Response, Responses

\* What a tick leaves of a response that is waiting for its probes.
Waited(r) == [r EXCEPT !.probed = @ + 1, !.life = Less(@)]

LEMMA WaitedIs ==
  ASSUME NEW r \in Responses, r.probed < ProbeTicks
  PROVE  /\ Waited(r) \in Responses /\ Waited(r) # NoResp
         /\ Waited(r).probed = r.probed + 1 /\ Waited(r).life = Less(r.life)
         /\ Waited(r).origin = r.origin /\ Waited(r).rcode = r.rcode
         /\ Waited(r).recs = r.recs /\ Waited(r).ttl = r.ttl /\ Waited(r).was = r.was
<1>1. r.probed + 1 \in 0 .. ProbeTicks /\ Less(r.life) \in Nat
  BY TtlAssumption DEF Responses, Less
<1>2. Waited(r) = [r EXCEPT !.probed = r.probed + 1, !.life = Less(r.life)]
  BY DEF Waited
<1>3. Waited(r) \in Responses
  BY <1>1, <1>2 DEF Responses
<1>4. Waited(r) # NoResp
  BY <1>3 DEF Responses, NoResp
<1> QED BY <1>2, <1>3, <1>4 DEF Responses

LEMMA TickResponses ==
  ASSUME TypeOK, Tick
  PROVE  /\ resp' \in [Queries -> Responses \cup {NoResp}]
         /\ \A q \in Queries :
              /\ resp'[q] = IF pc[q] = "answered" THEN Waited(resp[q]) ELSE resp[q]
              /\ resp'[q] # NoResp <=> resp[q] # NoResp
<1>1. resp' = [q \in Queries |-> IF pc[q] = "answered" THEN Waited(resp[q]) ELSE resp[q]]
  BY DEF Tick, Waited
<1>2. ASSUME NEW q \in Queries, pc[q] = "answered"
      PROVE  Waited(resp[q]) \in Responses /\ Waited(resp[q]) # NoResp /\ resp[q] # NoResp
  <2>1. resp[q] \in Responses /\ resp[q] # NoResp
    BY <1>2 DEF TypeOK
  <2>2. resp[q].probed < ProbeTicks
    BY <1>2 DEF Tick, Quiet, Probing
  <2> QED BY <2>1, <2>2, WaitedIs
<1> QED BY <1>1, <1>2 DEF TypeOK

LEMMA TypeStep == TypeOK /\ [Next]_vars => TypeOK'
<1> SUFFICES ASSUME TypeOK, [Next]_vars PROVE TypeOK'
  OBVIOUS
<1>1. CASE UNCHANGED vars
  BY <1>1 DEF TypeOK, vars
<1>2. ASSUME NEW q \in Queries, NEW k \in Keys, NEW f \in Flags, Hit(q, k, f)
      PROVE  TypeOK'
  <2> DEFINE c == [Context(k, f) EXCEPT !.skip_balance = SkipBalanceOnHit]
             r == build_response_from_cache(entry[k])
  <2>1. c \in Contexts /\ c # NoCtx
    BY ContextType, ContextIsOne
  <2>2. r \in Responses
    <3>1. entry[k] \in Entries BY <1>2 DEF TypeOK, Hit
    <3>2. QED BY <3>1, HitType
  <2>3. ctx' = [ctx EXCEPT ![q] = c] /\ Answer(q, r) /\ UNCHANGED entry
    BY <1>2 DEF Hit
  <2> HIDE DEF c, r
  <2>4. /\ ctx' \in [Queries -> Contexts \cup {NoCtx}]
        /\ \A p \in Queries : p # q => ctx'[p] = ctx[p]
        /\ ctx'[q] # NoCtx
    BY <2>1, <2>3 DEF TypeOK
  <2>5. QED BY <2>2, <2>3, <2>4, AnswerType
<1>3. ASSUME NEW q \in Queries, NEW k \in Keys, NEW f \in Flags, Miss(q, k, f)
      PROVE  TypeOK'
  <2> DEFINE c == Context(k, f)
  <2>1. c \in Contexts /\ c # NoCtx
    BY ContextType, ContextIsOne
  <2>2. /\ pc[q] = "idle" /\ ctx' = [ctx EXCEPT ![q] = c]
        /\ pc' = [pc EXCEPT ![q] = "asking"] /\ UNCHANGED <<entry, resp>>
    BY <1>3 DEF Miss
  <2> HIDE DEF c
  <2>3. QED BY <2>1, <2>2 DEF TypeOK
<1>4. ASSUME NEW q \in Queries, pc[q] = "asking",
             NEW r \in Responses, Answer(q, r), UNCHANGED <<entry, ctx>>
      PROVE  TypeOK'
  <2>1. ctx'[q] # NoCtx BY <1>4 DEF TypeOK
  <2>2. QED BY <1>4, <2>1, AnswerType DEF TypeOK
<1>5. ASSUME NEW q \in Queries, NEW a \in Answers, Upstream(q, a)
      PROVE  TypeOK'
  <2>1. a.rcode \in Rcodes /\ a.recs \in Sections /\ a.ttl \in Nat
    BY AnswersAssumption
  <2>2. Allowed(a.ttl) \in Nat
    BY <2>1, AllowedType
  <2>3. Response("upstream", a.rcode, a.recs, a.ttl, Allowed(a.ttl), TRUE,
                 [rcode |-> a.rcode, recs |-> a.recs]) \in Responses
    BY <2>1, <2>2, ResponseType
  <2>4. QED BY <1>4, <1>5, <2>3 DEF Upstream
<1>6. ASSUME NEW q \in Queries, NEW origin \in {"denied", "failed", "local"},
             NEW rcode \in Rcodes, NEW recs \in Sections,
             Made(q, origin, rcode, recs)
      PROVE  TypeOK'
  <2>1. Allowed(NegativeTtl) \in Nat /\ NegativeTtl \in Nat
    BY AllowedType, TtlAssumption
  <2>2. Response(origin, rcode, recs, NegativeTtl,
                 Allowed(NegativeTtl), TRUE,
                 [rcode |-> rcode, recs |-> recs]) \in Responses
    BY <2>1, ResponseType
  <2>3. QED BY <1>4, <1>6, <2>2 DEF Made
<1>7. ASSUME NEW q \in Queries,
             \/ DenyQtype(q) \/ ForwardError(q)
             \/ \E rcode \in {"NoError", "NXDomain"} : Local(q, rcode)
      PROVE  TypeOK'
  BY <1>6, <1>7 DEF DenyQtype, ForwardError, Local, Rcodes, Sections
<1>8. ASSUME NEW q \in Queries, WriteBack(q) PROVE TypeOK'
  <2>1. resp[q] \in Responses /\ ctx[q].key \in Keys
    BY <1>8 DEF TypeOK, WriteBack, Contexts
  <2>2. NewEntry(resp[q]) \in Entries \cup {Absent}
    BY <2>1, NewEntryType
  <2>3. entry' \in [Keys -> Entries \cup {Absent}]
    <3>1. entry' = entry \/ entry' = [entry EXCEPT ![ctx[q].key] = NewEntry(resp[q])]
      BY <1>8 DEF WriteBack
    <3>2. QED BY <2>1, <2>2, <3>1 DEF TypeOK
  <2>4. QED BY <1>8, <2>3 DEF TypeOK, WriteBack
<1>9. ASSUME NEW k \in Keys, Evict(k) PROVE TypeOK'
  BY <1>9 DEF TypeOK, Evict
<1>10. ASSUME NEW k \in Keys, ZoneChange(k) PROVE TypeOK'
  <2>1. \A e \in Entries \cup {Absent} :
          (IF e = Absent THEN e ELSE [e EXCEPT !.current = FALSE])
            \in Entries \cup {Absent}
    BY DEF Entries
  <2>2. entry' \in [Keys -> Entries \cup {Absent}]
    BY <1>10, <2>1 DEF TypeOK, ZoneChange
  <2>3. \A r \in Responses : [r EXCEPT !.current = FALSE] \in Responses
    BY DEF Responses
  <2>4. \A r \in Responses : r # NoResp
    BY DEF Responses, NoResp
  <2>5. \A q \in Queries : pc[q] = "answered" => resp[q] \in Responses
    BY DEF TypeOK
  <2>6. /\ resp' \in [Queries -> Responses \cup {NoResp}]
        /\ \A q \in Queries : resp'[q] # NoResp <=> resp[q] # NoResp
    BY <1>10, <2>3, <2>4, <2>5 DEF TypeOK, ZoneChange
  <2>7. UNCHANGED <<pc, ctx>> BY <1>10 DEF ZoneChange
  <2>8. QED BY <2>2, <2>6, <2>7 DEF TypeOK
<1>11. CASE Tick
  <2>1. entry' \in [Keys -> Entries \cup {Absent}]
    BY <1>11, AgedType DEF TypeOK, Tick
  <2>2. /\ resp' \in [Queries -> Responses \cup {NoResp}]
        /\ \A q \in Queries : resp'[q] # NoResp <=> resp[q] # NoResp
    BY <1>11, TickResponses
  <2>3. UNCHANGED <<pc, ctx>> BY <1>11 DEF Tick
  <2>4. QED BY <2>1, <2>2, <2>3 DEF TypeOK
<1>12. QED
  BY <1>1, <1>2, <1>3, <1>5, <1>7, <1>8, <1>9, <1>10, <1>11 DEF Next

\* In every reachable state, for every set of queries, keys and answers and
\* every configuration, the state is well-formed.
THEOREM TypeCorrect == Spec => []TypeOK
BY TypeInit, TypeStep, PTL DEF Spec

-----------------------------------------------------------------------------
(* The life of cached records                                              *)

(* RecordsLifeBound is not inductive: the next write of an entry depends on *)
(* the response a hit has built from it.  Both the time the TTL still       *)
(* promises (rest) and what responses under way promise have to be bounded; *)
(* an upstream's answer may spend what its probes have left, a hit nothing. *)
EntryBound(e) ==
  e # Absent /\ e.kind = "records" => e.left <= e.life /\ e.rest <= e.life
Spare(r) == IF r.origin = "hit" THEN 0 ELSE ProbeTicks - r.probed
ResponseBound(r) ==
  IsForward(r) /\ r.recs = "known" => r.ttl * Unit + Spare(r) <= r.life
Bounded ==
  /\ \A k \in Keys : EntryBound(entry[k])
  /\ \A q \in Queries : pc[q] = "answered" => ResponseBound(resp[q])
  /\ \A q \in Queries :
       pc[q] = "answered" /\ resp[q].origin = "hit" =>
         ctx[q].skip_balance = SkipBalanceOnHit

\* A response that is bounded is bounded without what its probes have left.
LEMMA SpareType ==
  ASSUME NEW r \in Responses
  PROVE  Spare(r) \in Nat
BY TtlAssumption DEF Spare, Responses

LEMMA BoundedInit == Init => Bounded
BY DEF Init, Bounded, EntryBound

LEMMA DurationPlain ==
  ASSUME PlainTtls, NEW n \in Nat
  PROVE  duration_for(n) <= n /\ Allowed(n) = n * Unit + ProbeTicks
<1>1. duration_for(n) <= n /\ duration_for(n) \in Nat
  BY TtlAssumption DEF duration_for, PlainTtls
<1>2. ~(duration_for(n) > n)
  BY <1>1
<1> QED BY <1>1, <1>2 DEF Allowed

\* put keeps the bound of the response it stores.
LEMMA NewEntryBound ==
  ASSUME PlainTtls, NEW r \in Responses, IsForward(r), ResponseBound(r)
  PROVE  EntryBound(NewEntry(r))
<1> SUFFICES ASSUME NewEntry(r) # Absent, NewEntry(r).kind = "records"
             PROVE  NewEntry(r).left <= NewEntry(r).life /\ NewEntry(r).rest <= NewEntry(r).life
  BY DEF EntryBound
<1>1. NewEntry(r).kind = Kind(r) /\ NewEntry(r).rest = r.ttl * Unit
      /\ NewEntry(r).left = duration_for(r.ttl) * Unit /\ NewEntry(r).life = r.life
  BY DEF NewEntry
<1>2. r.recs = "known"
  BY <1>1 DEF Kind
<1>3. r.ttl * Unit + Spare(r) <= r.life /\ Spare(r) \in Nat
  BY <1>2, SpareType DEF ResponseBound
<1>4. r.ttl \in Nat /\ duration_for(r.ttl) \in Nat /\ duration_for(r.ttl) <= r.ttl
  BY DurationType, DurationPlain DEF Responses
<1>5. duration_for(r.ttl) * Unit <= r.ttl * Unit /\ duration_for(r.ttl) * Unit \in Nat
      /\ r.ttl * Unit \in Nat
  BY <1>4, Scale, TtlAssumption
<1>6. r.life \in Nat BY DEF Responses
<1>7. QED BY <1>1, <1>3, <1>5, <1>6

\* A hit promises no more than its entry: remaining_ttl rounds down.
LEMMA HitBound ==
  ASSUME PlainTtls, NEW e \in Entries, EntryBound(e)
  PROVE  ResponseBound(build_response_from_cache(e))
<1> DEFINE r == build_response_from_cache(e)
<1> SUFFICES ASSUME r.recs = "known" PROVE r.ttl * Unit + 0 <= r.life
  BY DEF ResponseBound, Spare, build_response_from_cache, Response
<1>1. e.kind = "records"
  BY DEF build_response_from_cache, Response
<1>2. r.ttl = e.rest \div Unit /\ r.life = e.life
  BY <1>1 DEF build_response_from_cache, Response, remaining_ttl, PlainTtls
<1>3. e.rest \in Nat /\ e.life \in Nat /\ Unit \in Nat \ {0} BY TtlAssumption DEF Entries
<1>4. e.rest <= e.life
  <2>1. e # Absent BY <1>1 DEF Absent
  <2>2. QED BY <1>1, <2>1 DEF EntryBound
<1>5. (e.rest \div Unit) * Unit <= e.rest /\ e.rest \div Unit \in Nat
  BY <1>3, RoundDown
<1>6. (e.rest \div Unit) * Unit \in Nat BY <1>3, <1>5
<1>7. QED BY <1>2, <1>3, <1>4, <1>5, <1>6

LEMMA AgedBound ==
  ASSUME NEW e \in Entries \cup {Absent}, EntryBound(e)
  PROVE  EntryBound(Aged(e))
<1>1. CASE e = Absent \/ e.left = 1
  BY <1>1 DEF Aged, EntryBound
<1>2. CASE ~(e = Absent \/ e.left = 1)
  <2>1. e \in Entries /\ e.left \in Nat \ {0, 1} /\ e.rest \in Nat /\ e.life \in Nat
    BY <1>2 DEF Entries
  <2>2. Aged(e) = [e EXCEPT !.rest = Less(e.rest), !.left = e.left - 1,
                            !.life = Less(e.life)]
    BY <1>2 DEF Aged
  <2>3. /\ Aged(e).kind = e.kind /\ Aged(e).left = e.left - 1
        /\ Aged(e).rest = Less(e.rest) /\ Aged(e).life = Less(e.life)
    BY <2>1, <2>2 DEF Entries
  <2>4. CASE e.kind = "records"
    <3>1. e.left <= e.life /\ e.rest <= e.life
      BY <1>2, <2>4 DEF EntryBound
    <3>2. e.left - 1 <= Less(e.life) /\ Less(e.rest) <= Less(e.life)
      BY <2>1, <3>1 DEF Less
    <3>3. QED BY <2>3, <3>2 DEF EntryBound
  <2>5. CASE e.kind # "records"
    BY <2>3, <2>5 DEF EntryBound
  <2>6. QED BY <2>4, <2>5
<1>3. QED BY <1>1, <1>2

\* A tick of the probes takes from a response's life what it had to spare.
LEMMA WaitedBound ==
  ASSUME NEW r \in Responses, ResponseBound(r), r.origin # "hit", r.probed < ProbeTicks
  PROVE  ResponseBound(Waited(r)) /\ Waited(r).origin = r.origin
<1>1. /\ Waited(r).probed = r.probed + 1 /\ Waited(r).life = Less(r.life)
      /\ Waited(r).origin = r.origin /\ Waited(r).recs = r.recs /\ Waited(r).ttl = r.ttl
  BY WaitedIs
<1>2. CASE IsForward(r) /\ r.recs = "known"
  <2>1. r.ttl * Unit + (ProbeTicks - r.probed) <= r.life
    BY <1>2 DEF ResponseBound, Spare
  <2>2. r.ttl * Unit \in Nat /\ r.life \in Nat /\ r.probed \in Nat /\ ProbeTicks \in Nat
    BY TtlAssumption DEF Responses
  <2> DEFINE promised == r.ttl * Unit
  <2>3. promised + (ProbeTicks - r.probed) <= r.life /\ promised \in Nat
    BY <2>1, <2>2
  <2> HIDE DEF promised
  <2>4. promised + (ProbeTicks - (r.probed + 1)) <= Less(r.life)
    BY <2>2, <2>3 DEF Less
  <2>5. Spare(Waited(r)) = ProbeTicks - (r.probed + 1)
    BY <1>1 DEF Spare
  <2> QED BY <1>1, <2>4, <2>5 DEF ResponseBound, promised
<1>3. CASE ~(IsForward(r) /\ r.recs = "known")
  BY <1>1, <1>3 DEF ResponseBound, IsForward
<1> QED BY <1>1, <1>2, <1>3

LEMMA BoundedStep == PlainTtls /\ TypeOK /\ Bounded /\ [Next]_vars => Bounded'
<1> SUFFICES ASSUME PlainTtls, TypeOK, Bounded, [Next]_vars PROVE Bounded'
  OBVIOUS
<1>1. CASE UNCHANGED vars
  BY <1>1 DEF Bounded, vars
<1>2. ASSUME NEW q \in Queries, NEW r, ResponseBound(r), Answer(q, r),
             UNCHANGED entry, \A p \in Queries : p # q => ctx'[p] = ctx[p],
             r.origin = "hit" => ctx'[q].skip_balance = SkipBalanceOnHit
      PROVE  Bounded'
  <2>1. ASSUME NEW p \in Queries, pc'[p] = "answered"
        PROVE  /\ ResponseBound(resp'[p])
               /\ resp'[p].origin = "hit" => ctx'[p].skip_balance = SkipBalanceOnHit
    <3>1. CASE p = q
      BY <1>2, <3>1 DEF Answer, TypeOK
    <3>2. CASE p # q
      BY <1>2, <2>1, <3>2 DEF Answer, TypeOK, Bounded
    <3> QED BY <3>1, <3>2
  <2> QED BY <1>2, <2>1 DEF Bounded
<1>3. ASSUME NEW q \in Queries, NEW k \in Keys, NEW f \in Flags, Hit(q, k, f)
      PROVE  Bounded'
  <2>1. entry[k] \in Entries /\ EntryBound(entry[k])
    BY <1>3 DEF TypeOK, Hit, Bounded
  <2>2. ResponseBound(build_response_from_cache(entry[k]))
    BY <2>1, HitBound
  <2> DEFINE c == [Context(k, f) EXCEPT !.skip_balance = SkipBalanceOnHit]
  <2>3. c.skip_balance = SkipBalanceOnHit
    BY DEF Context
  <2> HIDE DEF c
  <2>4. ctx' = [ctx EXCEPT ![q] = c]
    BY <1>3 DEF Hit, c
  <2>5. ctx'[q] = c /\ \A p \in Queries : p # q => ctx'[p] = ctx[p]
    BY <2>4 DEF TypeOK
  <2>6. Answer(q, build_response_from_cache(entry[k])) /\ UNCHANGED entry
    BY <1>3 DEF Hit
  <2>7. QED BY <1>2, <2>2, <2>3, <2>5, <2>6
<1>4. ASSUME NEW q \in Queries, NEW k \in Keys, NEW f \in Flags, Miss(q, k, f)
      PROVE  Bounded'
  BY <1>4 DEF Bounded, Miss, TypeOK
<1>5. ASSUME NEW q \in Queries, NEW a \in Answers, Upstream(q, a)
      PROVE  Bounded'
  <2> DEFINE r == Response("upstream", a.rcode, a.recs, a.ttl,
                           Allowed(a.ttl), TRUE,
                           [rcode |-> a.rcode, recs |-> a.recs])
  <2>1. a.ttl \in Nat BY AnswersAssumption
  <2>2. a.ttl * Unit \in Nat BY <2>1, TtlAssumption
  <2>3. ResponseBound(r) /\ r.origin = "upstream"
    <3>1. Spare(r) = ProbeTicks
      BY TtlAssumption DEF Spare, Response
    <3>2. Allowed(a.ttl) = a.ttl * Unit + ProbeTicks
      BY <2>1, DurationPlain
    <3>3. QED BY <2>2, <3>1, <3>2, TtlAssumption DEF ResponseBound, Response
  <2>4. QED BY <1>2, <1>5, <2>3 DEF Upstream
<1>6. ASSUME NEW q \in Queries, NEW origin, NEW rcode, NEW recs,
             origin # "hit", origin = "local" \/ recs = "none", Made(q, origin, rcode, recs)
      PROVE  Bounded'
  <2> DEFINE r == Response(origin, rcode, recs, NegativeTtl,
                           Allowed(NegativeTtl), TRUE,
                           [rcode |-> rcode, recs |-> recs])
  <2>1. ResponseBound(r) /\ r.origin # "hit"
    BY <1>6 DEF ResponseBound, Response, IsForward
  <2>2. QED BY <1>2, <1>6, <2>1 DEF Made
<1>7. ASSUME NEW q \in Queries,
             \/ DenyQtype(q) \/ ForwardError(q)
             \/ \E rcode \in {"NoError", "NXDomain"} : Local(q, rcode)
      PROVE  Bounded'
  BY <1>6, <1>7 DEF DenyQtype, ForwardError, Local
<1>8. ASSUME NEW q \in Queries, WriteBack(q) PROVE Bounded'
  <2>1. resp[q] \in Responses /\ ctx[q].key \in Keys /\ ResponseBound(resp[q])
    BY <1>8 DEF TypeOK, WriteBack, Contexts, Bounded
  <2>2. \A k \in Keys : EntryBound(entry'[k])
    <3>1. CASE entry' = entry
      BY <3>1 DEF Bounded
    <3>2. CASE IsForward(resp[q])
               /\ entry' = [entry EXCEPT ![ctx[q].key] = NewEntry(resp[q])]
      BY <2>1, <3>2, NewEntryBound DEF Bounded, TypeOK
    <3>3. QED BY <1>8, <3>1, <3>2 DEF WriteBack
  <2>3. QED BY <1>8, <2>2 DEF Bounded, WriteBack, TypeOK
<1>9. ASSUME NEW k \in Keys, Evict(k) PROVE Bounded'
  BY <1>9 DEF Bounded, Evict, TypeOK, EntryBound
<1>10. ASSUME NEW k \in Keys, ZoneChange(k) PROVE Bounded'
  <2>1. \A e \in Entries \cup {Absent} :
          EntryBound(e) =>
            EntryBound(IF e = Absent THEN e ELSE [e EXCEPT !.current = FALSE])
    BY DEF Entries, EntryBound
  <2>2. \A j \in Keys : EntryBound(entry'[j])
    BY <1>10, <2>1 DEF Bounded, TypeOK, ZoneChange
  <2>3. \A r \in Responses :
          LET n == [r EXCEPT !.current = FALSE] IN
          (ResponseBound(r) => ResponseBound(n)) /\ n.origin = r.origin
    BY DEF Responses, ResponseBound, Spare, IsForward
  <2>4. ASSUME NEW p \in Queries, pc'[p] = "answered"
        PROVE  /\ ResponseBound(resp'[p]) /\ pc[p] = "answered"
               /\ resp'[p].origin = resp[p].origin
    <3>1. pc[p] = "answered" /\ resp[p] \in Responses /\ ResponseBound(resp[p])
      BY <1>10, <2>4 DEF ZoneChange, Bounded, TypeOK
    <3>2. resp'[p] = resp[p] \/ resp'[p] = [resp[p] EXCEPT !.current = FALSE]
      BY <1>10 DEF ZoneChange
    <3>3. QED BY <2>3, <3>1, <3>2
  <2>5. UNCHANGED ctx BY <1>10 DEF ZoneChange
  <2>6. QED BY <2>2, <2>4, <2>5 DEF Bounded
<1>11. CASE Tick
  <2>1. \A j \in Keys : EntryBound(entry'[j])
    BY <1>11, AgedBound DEF Tick, TypeOK, Bounded
  <2>2. ASSUME NEW p \in Queries, pc'[p] = "answered"
        PROVE  /\ ResponseBound(resp'[p])
               /\ resp'[p].origin = "hit" => ctx'[p].skip_balance = SkipBalanceOnHit
    <3>1. /\ pc[p] = "answered" /\ resp[p] \in Responses /\ ResponseBound(resp[p])
          /\ Probing(p) /\ ctx' = ctx
      BY <1>11, <2>2 DEF Tick, Quiet, TypeOK, Bounded
    <3>2. resp[p].probed < ProbeTicks /\ ~ctx[p].skip_balance
      BY <3>1 DEF Probing
    <3>3. ProbeTicks # 0
      BY <3>1, <3>2, TtlAssumption DEF Responses
    <3>4. resp[p].origin # "hit"
      BY <3>1, <3>2, <3>3 DEF Bounded, PlainTtls
    <3>5. resp'[p] = Waited(resp[p])
      BY <1>11, <3>1, TickResponses
    <3>6. ResponseBound(Waited(resp[p])) /\ Waited(resp[p]).origin = resp[p].origin
      BY <3>1, <3>2, <3>4, WaitedBound
    <3> QED BY <3>4, <3>5, <3>6
  <2>3. QED BY <2>1, <2>2 DEF Bounded
<1>12. QED
  BY <1>1, <1>3, <1>4, <1>5, <1>7, <1>8, <1>9, <1>10, <1>11 DEF Next

\* With no keep_ttl, min_ttl 0 and hits that skip the balance stage (or no speed
\* probes), records leave the cache within the upstream's own TTL and one run of
\* the probes, however many hits store them again and whatever max_ttl, and no
\* client is told a TTL beyond that: for any queries, keys, answers and probes.
THEOREM RecordsLeaveInTime ==
  ASSUME PlainTtls
  PROVE  Spec => [](RecordsLifeBound /\ HonestTtl)
<1>1. TypeOK /\ Bounded => RecordsLifeBound
  BY DEF TypeOK, Bounded, EntryBound, RecordsLifeBound
<1>2. TypeOK /\ Bounded => HonestTtl
  <2> SUFFICES ASSUME TypeOK, Bounded, NEW q \in Queries, pc[q] = "answered",
                      resp[q].origin = "hit", resp[q].recs = "known"
               PROVE  resp[q].ttl * Unit <= resp[q].life
    BY DEF HonestTtl
  <2>1. resp[q] \in Responses /\ ResponseBound(resp[q]) /\ IsForward(resp[q])
    BY DEF TypeOK, Bounded, IsForward
  <2>2. resp[q].ttl * Unit + 0 <= resp[q].life
    BY <2>1 DEF ResponseBound, Spare
  <2>3. resp[q].ttl * Unit \in Nat
    BY <2>1, TtlAssumption DEF Responses
  <2> QED BY <2>2, <2>3
<1>3. TypeOK /\ Bounded /\ [Next]_vars => (TypeOK /\ Bounded)'
  BY TypeStep, BoundedStep
<1>4. Init => TypeOK /\ Bounded
  BY TypeInit, BoundedInit
<1>5. QED BY <1>1, <1>2, <1>3, <1>4, PTL DEF Spec

-----------------------------------------------------------------------------
(* Who may write the cache                                                 *)

\* Only write_back lets an answered query go.
LEMMA LeavesByWriteBack ==
  ASSUME TypeOK, [Next]_vars, NEW q \in Queries,
         pc[q] = "answered", pc'[q] = "idle"
  PROVE  WriteBack(q)
<1>1. pc'[q] # pc[q] OBVIOUS
<1>2. ~UNCHANGED vars BY <1>1 DEF vars
<1>3. ASSUME NEW p \in Queries, NEW r, Answer(p, r) PROVE FALSE
  BY <1>3 DEF Answer, TypeOK
<1>4. ASSUME NEW p \in Queries, NEW k \in Keys, NEW f \in Flags,
             Hit(p, k, f) \/ Miss(p, k, f)
      PROVE  FALSE
  BY <1>3, <1>4 DEF Hit, Miss, TypeOK
<1>5. ASSUME NEW p \in Queries,
             \/ \E a \in Answers : Upstream(p, a)
             \/ DenyQtype(p) \/ ForwardError(p)
             \/ \E rcode \in {"NoError", "NXDomain"} : Local(p, rcode)
      PROVE  FALSE
  BY <1>3, <1>5 DEF Upstream, DenyQtype, ForwardError, Local, Made
<1>6. ASSUME NEW p \in Queries, WriteBack(p) PROVE p = q
  BY <1>6 DEF WriteBack, TypeOK
<1>7. ASSUME NEW k \in Keys, Evict(k) \/ ZoneChange(k) PROVE FALSE
  BY <1>1, <1>7 DEF Evict, ZoneChange
<1>8. ~Tick BY <1>1 DEF Tick
<1>9. QED
  BY <1>2, <1>4, <1>5, <1>6, <1>7, <1>8 DEF Next

\* Only a miss, or a skipped lookup, sends a query on.
LEMMA SentOnByMiss ==
  ASSUME TypeOK, [Next]_vars, NEW q \in Queries,
         pc[q] = "idle", pc'[q] = "asking"
  PROVE  \E k \in Keys, f \in Flags : Miss(q, k, f)
<1>1. pc'[q] # pc[q] OBVIOUS
<1>2. ~UNCHANGED vars BY <1>1 DEF vars
<1>3. ASSUME NEW p \in Queries, NEW r, Answer(p, r) PROVE FALSE
  BY <1>3 DEF Answer, TypeOK
<1>4. ASSUME NEW p \in Queries, NEW k \in Keys, NEW f \in Flags, Hit(p, k, f)
      PROVE  FALSE
  BY <1>3, <1>4 DEF Hit
<1>5. ASSUME NEW p \in Queries,
             \/ \E a \in Answers : Upstream(p, a)
             \/ DenyQtype(p) \/ ForwardError(p)
             \/ \E rcode \in {"NoError", "NXDomain"} : Local(p, rcode)
      PROVE  FALSE
  BY <1>3, <1>5 DEF Upstream, DenyQtype, ForwardError, Local, Made
<1>6. ASSUME NEW p \in Queries, WriteBack(p) PROVE FALSE
  BY <1>6 DEF WriteBack, TypeOK
<1>7. ASSUME NEW k \in Keys, Evict(k) \/ ZoneChange(k) PROVE FALSE
  BY <1>1, <1>7 DEF Evict, ZoneChange
<1>8. ~Tick BY <1>1 DEF Tick
<1>9. ASSUME NEW p \in Queries, NEW k \in Keys, NEW f \in Flags, Miss(p, k, f)
      PROVE  p = q
  BY <1>9 DEF Miss, TypeOK
<1>10. QED
  BY <1>2, <1>4, <1>5, <1>6, <1>7, <1>8, <1>9 DEF Next

\* Only queries that may use the cache are answered from it, and a failed
\* forward is answered SERVFAIL without records.
Origins ==
  \A q \in Queries :
    pc[q] = "answered" =>
      /\ resp[q].origin = "hit" => ~ctx[q].skip_cache
      /\ resp[q].origin = "failed" =>
           resp[q].rcode = "ServFail" /\ resp[q].recs = "none"

LEMMA OriginsStep == TypeOK /\ Origins /\ [Next]_vars => Origins'
<1> SUFFICES ASSUME TypeOK, Origins, [Next]_vars PROVE Origins'
  OBVIOUS
<1>1. CASE UNCHANGED vars
  BY <1>1 DEF Origins, vars
<1>2. ASSUME NEW q \in Queries, NEW k \in Keys, NEW f \in Flags, Hit(q, k, f)
      PROVE  Origins'
  <2>1. [Context(k, f) EXCEPT !.skip_balance = SkipBalanceOnHit].skip_cache = FALSE
    BY <1>2 DEF Hit, Context
  <2>2. ctx'[q].skip_cache = FALSE
    BY <1>2, <2>1 DEF Hit, TypeOK
  <2>3. build_response_from_cache(entry[k]).origin = "hit"
    BY DEF build_response_from_cache, Response
  <2>4. QED BY <1>2, <2>2, <2>3 DEF Origins, Hit, Answer, TypeOK
<1>3. ASSUME NEW q \in Queries, NEW k \in Keys, NEW f \in Flags, Miss(q, k, f)
      PROVE  Origins'
  BY <1>3 DEF Origins, Miss, TypeOK
<1>4. ASSUME NEW q \in Queries, NEW r, r.origin # "hit",
             r.origin = "failed" => r.rcode = "ServFail" /\ r.recs = "none",
             Answer(q, r), UNCHANGED ctx
      PROVE  Origins'
  BY <1>4 DEF Origins, Answer, TypeOK
<1>5. ASSUME NEW q \in Queries, NEW a \in Answers, Upstream(q, a)
      PROVE  Origins'
  BY <1>4, <1>5 DEF Upstream, Response
<1>6. ASSUME NEW q \in Queries, NEW origin, origin # "hit", NEW rcode, NEW recs,
             origin = "failed" => rcode = "ServFail" /\ recs = "none",
             Made(q, origin, rcode, recs)
      PROVE  Origins'
  BY <1>4, <1>6 DEF Made, Response
<1>7. ASSUME NEW q \in Queries,
             \/ DenyQtype(q) \/ ForwardError(q)
             \/ \E rcode \in {"NoError", "NXDomain"} : Local(q, rcode)
      PROVE  Origins'
  BY <1>6, <1>7 DEF DenyQtype, ForwardError, Local
<1>8. ASSUME NEW q \in Queries, WriteBack(q) PROVE Origins'
  BY <1>8 DEF Origins, WriteBack, TypeOK
<1>9. ASSUME NEW k \in Keys, Evict(k) PROVE Origins'
  BY <1>9 DEF Origins, Evict
<1>10. ASSUME NEW k \in Keys, ZoneChange(k) PROVE Origins'
  <2>1. \A r \in Responses :
          LET s == [r EXCEPT !.current = FALSE] IN
          s.origin = r.origin /\ s.rcode = r.rcode /\ s.recs = r.recs
    BY DEF Responses
  <2>2. QED BY <1>10, <2>1 DEF Origins, ZoneChange, TypeOK
<1>11. CASE Tick
  <2>1. ASSUME NEW q \in Queries, pc[q] = "answered"
        PROVE  /\ resp'[q].origin = resp[q].origin /\ resp'[q].rcode = resp[q].rcode
               /\ resp'[q].recs = resp[q].recs
    <3>1. resp[q] \in Responses /\ resp[q].probed < ProbeTicks
      BY <1>11, <2>1 DEF Tick, Quiet, Probing, TypeOK
    <3> QED BY <1>11, <2>1, <3>1, TickResponses, WaitedIs
  <2>2. UNCHANGED <<pc, ctx>> BY <1>11 DEF Tick
  <2>3. QED BY <2>1, <2>2 DEF Origins
<1>12. QED
  BY <1>1, <1>2, <1>3, <1>5, <1>7, <1>8, <1>9, <1>10, <1>11 DEF Next

LEMMA OriginsInv == Spec => [](TypeOK /\ Origins)
<1>1. Init => TypeOK /\ Origins
  BY TypeInit DEF Init, Origins
<1>2. TypeOK /\ Origins /\ [Next]_vars => (TypeOK /\ Origins)'
  BY TypeStep, OriginsStep
<1>3. QED BY <1>1, <1>2, PTL DEF Spec

\* What the rules stage answers by itself and the SERVFAIL of a failed forward
\* never change the cache, whatever else is going on.
THEOREM LocalStaysOut == Spec => LocalNeverCached
<1> DEFINE LeavesFromUpstream ==
      \A q \in Queries :
        pc[q] = "answered" /\ pc'[q] = "idle" /\ entry' # entry =>
          resp[q].origin \in {"upstream", "hit", "denied"}
<1>1. TypeOK /\ Origins /\ [Next]_vars => [LeavesFromUpstream]_vars
  <2> SUFFICES ASSUME TypeOK, Origins, [Next]_vars, NEW q \in Queries,
                      pc[q] = "answered", pc'[q] = "idle", entry' # entry
               PROVE  resp[q].origin \in {"upstream", "hit", "denied"}
    OBVIOUS
  <2>1. WriteBack(q) BY LeavesByWriteBack
  <2>2. IsForward(resp[q]) /\ Kind(resp[q]) # "absent"
    BY <2>1 DEF WriteBack
  <2>3. resp[q].origin # "failed"
    BY <2>2 DEF Origins, Kind
  <2>4. QED BY <2>2, <2>3 DEF IsForward
<1>2. QED BY <1>1, OriginsInv, PTL DEF Spec, LocalNeverCached

\* A query of a skip_cache group neither reads nor writes the cache, and any
\* other query that is sent on to the rules stage found no entry.
THEOREM SkipCacheHolds == Spec => SkipCacheBypasses
<1> DEFINE Bypasses ==
      \A q \in Queries :
        /\ pc[q] = "answered" /\ pc'[q] = "idle" /\ ctx[q].skip_cache =>
             resp[q].origin # "hit" /\ entry' = entry
        /\ pc[q] = "idle" /\ pc'[q] = "asking" /\ ~ctx'[q].skip_cache =>
             entry[ctx'[q].key] = Absent
<1>1. TypeOK /\ Origins /\ [Next]_vars => [Bypasses]_vars
  <2> SUFFICES ASSUME TypeOK, Origins, [Next]_vars, NEW q \in Queries
               PROVE  /\ pc[q] = "answered" /\ pc'[q] = "idle" /\ ctx[q].skip_cache =>
                           resp[q].origin # "hit" /\ entry' = entry
                      /\ pc[q] = "idle" /\ pc'[q] = "asking" /\ ~ctx'[q].skip_cache =>
                           entry[ctx'[q].key] = Absent
    OBVIOUS
  <2>1. ASSUME pc[q] = "answered", pc'[q] = "idle", ctx[q].skip_cache
        PROVE  resp[q].origin # "hit" /\ entry' = entry
    <3>1. WriteBack(q) BY <2>1, LeavesByWriteBack
    <3>2. QED BY <2>1, <3>1 DEF WriteBack, Origins
  <2>2. ASSUME pc[q] = "idle", pc'[q] = "asking", ~ctx'[q].skip_cache
        PROVE  entry[ctx'[q].key] = Absent
    <3>1. PICK k \in Keys, f \in Flags : Miss(q, k, f)
      BY <2>2, SentOnByMiss
    <3>2. ctx'[q].key = k /\ ctx'[q].skip_cache = f.skip_cache
      BY <3>1 DEF Miss, TypeOK, Context
    <3>3. QED BY <2>2, <3>1, <3>2 DEF Miss
  <2>3. QED BY <2>1, <2>2
<1>2. QED BY <1>1, OriginsInv, PTL DEF Spec, SkipCacheBypasses

-----------------------------------------------------------------------------
(* What hits say                                                           *)

(* An entry's kind, and a response under way, have to stand for what the    *)
(* upstream said, as far as the cache can keep it: this is inductive through *)
(* write_back and hit, for every class of answer.                           *)
EntryFaith(e) ==
  e # Absent =>
    /\ e.kind = "records" <=> e.was.recs = "known"
    /\ e.kind = "unreadable" <=> e.was.recs = "unreadable"
    /\ e.kind = "nxdomain" => e.was.rcode = "NXDomain"
    /\ e.kind = "nodata" => e.was.rcode = "NoError"
ResponseFaith(r) ==
  IsForward(r) =>
    /\ r.recs = "known" <=> r.was.recs = "known"
    /\ r.recs = "unreadable" => r.was.recs = "unreadable"
    /\ r.recs \in {"none", "other"} =>
         r.rcode = IF r.was.recs = "unreadable" THEN "ServFail" ELSE r.was.rcode
    /\ r.origin = "hit" => r.recs \in {"known", "none"}
Faith ==
  /\ \A k \in Keys : EntryFaith(entry[k])
  /\ \A q \in Queries : pc[q] = "answered" => ResponseFaith(resp[q])

LEMMA FaithInit == Init => Faith
BY DEF Init, Faith, EntryFaith

\* put keeps what the response says.
LEMMA NewEntryFaith ==
  ASSUME NEW r \in Responses, IsForward(r), ResponseFaith(r)
  PROVE  EntryFaith(NewEntry(r))
<1> SUFFICES ASSUME NewEntry(r) # Absent PROVE EntryFaith(NewEntry(r))
  BY DEF EntryFaith
<1>1. /\ NewEntry(r).kind = Kind(r) /\ NewEntry(r).was = r.was /\ Kind(r) # "absent"
  BY DEF NewEntry
<1>2. /\ r.recs = "known" <=> r.was.recs = "known"
      /\ r.recs = "unreadable" => r.was.recs = "unreadable"
      /\ r.recs \in {"none", "other"} =>
           r.rcode = IF r.was.recs = "unreadable" THEN "ServFail" ELSE r.was.rcode
  BY DEF ResponseFaith
<1>3. r.rcode \in Rcodes /\ r.recs \in Sections
  BY DEF Responses
<1>4. CASE r.recs = "known"
  <2>1. Kind(r) = "records"
    BY <1>4 DEF Kind
  <2> QED BY <1>1, <1>2, <1>4, <2>1 DEF EntryFaith
<1>5. CASE r.recs = "unreadable"
  <2>1. Kind(r) = "unreadable"
    BY <1>5 DEF Kind
  <2> QED BY <1>1, <1>2, <1>5, <2>1 DEF EntryFaith
<1>6. CASE r.recs \in {"none", "other"}
  <2>1. r.was.recs # "known" /\ r.rcode = IF r.was.recs = "unreadable"
                                           THEN "ServFail" ELSE r.was.rcode
    BY <1>2, <1>6
  <2>2. CASE r.rcode = "NXDomain"
    <3>1. Kind(r) = "nxdomain"
      BY <1>6, <2>2 DEF Kind
    <3> QED BY <1>1, <2>1, <2>2, <3>1 DEF EntryFaith
  <2>3. CASE r.rcode = "NoError"
    <3>1. Kind(r) = "nodata"
      BY <1>6, <2>3 DEF Kind
    <3> QED BY <1>1, <2>1, <2>3, <3>1 DEF EntryFaith
  <2>4. CASE r.rcode = "ServFail"
    <3>1. Kind(r) = "absent"
      BY <1>6, <2>4 DEF Kind
    <3> QED BY <1>1, <3>1
  <2> QED BY <1>3, <2>2, <2>3, <2>4 DEF Rcodes
<1> QED BY <1>3, <1>4, <1>5, <1>6 DEF Sections

\* An answer that is not a hit says what it says.
LEMMA SaysItself ==
  ASSUME NEW r, r.was.rcode = r.rcode, r.was.recs = r.recs, r.origin # "hit"
  PROVE  ResponseFaith(r)
<1>1. r.recs \in {"none", "other"} => r.was.recs # "unreadable"
  OBVIOUS
<1> QED BY <1>1 DEF ResponseFaith

\* A response built from an entry's kind says what the kind stands for.
LEMMA BuiltFaith ==
  ASSUME NEW e \in Entries, EntryFaith(e), NEW r, r.origin = "hit",
         r.was.rcode = e.was.rcode, r.was.recs = e.was.recs,
         r.recs = IF e.kind = "records" THEN "known" ELSE "none",
         e.kind = "nxdomain" => r.rcode = "NXDomain",
         e.kind = "unreadable" => r.rcode = "ServFail",
         e.kind = "nodata" => r.rcode = "NoError"
  PROVE  ResponseFaith(r)
<1>1. e # Absent /\ e.kind \in {"records", "unreadable", "nxdomain", "nodata"}
  BY DEF Entries, Absent
<1>2. /\ e.kind = "records" <=> e.was.recs = "known"
      /\ e.kind = "unreadable" <=> e.was.recs = "unreadable"
      /\ e.kind = "nxdomain" => e.was.rcode = "NXDomain"
      /\ e.kind = "nodata" => e.was.rcode = "NoError"
  BY <1>1 DEF EntryFaith
<1>3. CASE e.kind = "records"
  BY <1>2, <1>3 DEF ResponseFaith
<1>4. CASE e.kind = "unreadable"
  BY <1>2, <1>4 DEF ResponseFaith
<1>5. CASE e.kind = "nxdomain" \/ e.kind = "nodata"
  BY <1>2, <1>5 DEF ResponseFaith
<1> QED BY <1>1, <1>3, <1>4, <1>5

\* A hit is built back from the entry's kind.
LEMMA HitFaith ==
  ASSUME NEW e \in Entries, EntryFaith(e)
  PROVE  ResponseFaith(build_response_from_cache(e))
<1>1. LET r == build_response_from_cache(e) IN
      /\ r.origin = "hit" /\ r.was = e.was
      /\ r.recs = IF e.kind = "records" THEN "known" ELSE "none"
      /\ e.kind = "nxdomain" => r.rcode = "NXDomain"
      /\ e.kind = "unreadable" => r.rcode = "ServFail"
      /\ e.kind = "nodata" => r.rcode = "NoError"
  BY DEF build_response_from_cache, Response
<1> QED BY <1>1, BuiltFaith

LEMMA AgedFaith ==
  ASSUME NEW e \in Entries \cup {Absent}, EntryFaith(e)
  PROVE  EntryFaith(Aged(e))
<1>1. CASE e = Absent \/ e.left = 1
  BY <1>1 DEF Aged, EntryFaith
<1>2. CASE ~(e = Absent \/ e.left = 1)
  <2>1. e \in Entries /\ Aged(e) = [e EXCEPT !.rest = Less(e.rest), !.left = e.left - 1,
                                             !.life = Less(e.life)]
    BY <1>2 DEF Aged
  <2>2. Aged(e).kind = e.kind /\ Aged(e).was = e.was
    BY <2>1 DEF Entries
  <2>3. QED BY <1>2, <2>2 DEF EntryFaith
<1>3. QED BY <1>1, <1>2

LEMMA FaithStep == TypeOK /\ Faith /\ [Next]_vars => Faith'
<1> SUFFICES ASSUME TypeOK, Faith, [Next]_vars PROVE Faith'
  OBVIOUS
<1>1. CASE UNCHANGED vars
  BY <1>1 DEF Faith, vars
<1>2. ASSUME NEW q \in Queries, NEW r, ResponseFaith(r), Answer(q, r),
             UNCHANGED entry
      PROVE  Faith'
  BY <1>2 DEF Faith, Answer, TypeOK
<1>3. ASSUME NEW q \in Queries, NEW k \in Keys, NEW f \in Flags, Hit(q, k, f)
      PROVE  Faith'
  <2>1. entry[k] \in Entries /\ EntryFaith(entry[k])
    BY <1>3 DEF TypeOK, Hit, Faith
  <2>2. ResponseFaith(build_response_from_cache(entry[k]))
    BY <2>1, HitFaith
  <2>3. QED BY <1>2, <1>3, <2>2 DEF Hit
<1>4. ASSUME NEW q \in Queries, NEW k \in Keys, NEW f \in Flags, Miss(q, k, f)
      PROVE  Faith'
  BY <1>4 DEF Faith, Miss, TypeOK
<1>5. ASSUME NEW q \in Queries, NEW a \in Answers, Upstream(q, a)
      PROVE  Faith'
  <2> DEFINE r == Response("upstream", a.rcode, a.recs, a.ttl,
                           Allowed(a.ttl), TRUE,
                           [rcode |-> a.rcode, recs |-> a.recs])
  <2>1. /\ r.recs = a.recs /\ r.rcode = a.rcode /\ r.origin = "upstream"
        /\ r.was.rcode = a.rcode /\ r.was.recs = a.recs
    BY DEF Response
  <2>2. ResponseFaith(r)
    BY <2>1, SaysItself
  <2>3. QED BY <1>2, <1>5, <2>2 DEF Upstream
<1>6. ASSUME NEW q \in Queries, NEW origin, NEW rcode, NEW recs,
             origin # "hit", origin = "local" \/ recs = "none",
             Made(q, origin, rcode, recs)
      PROVE  Faith'
  <2> DEFINE r == Response(origin, rcode, recs, NegativeTtl, Allowed(NegativeTtl), TRUE,
                           [rcode |-> rcode, recs |-> recs])
  <2>1. /\ r.recs = recs /\ r.rcode = rcode /\ r.origin = origin
        /\ r.was.rcode = rcode /\ r.was.recs = recs
    BY DEF Response
  <2>2. ResponseFaith(r)
    BY <1>6, <2>1, SaysItself
  <2>3. QED BY <1>2, <1>6, <2>2 DEF Made
<1>7. ASSUME NEW q \in Queries,
             \/ DenyQtype(q) \/ ForwardError(q)
             \/ \E rcode \in {"NoError", "NXDomain"} : Local(q, rcode)
      PROVE  Faith'
  BY <1>6, <1>7 DEF DenyQtype, ForwardError, Local
<1>8. ASSUME NEW q \in Queries, WriteBack(q) PROVE Faith'
  <2>1. resp[q] \in Responses /\ ctx[q].key \in Keys /\ ResponseFaith(resp[q])
    BY <1>8 DEF TypeOK, WriteBack, Contexts, Faith
  <2>2. \A k \in Keys : EntryFaith(entry'[k])
    <3>1. CASE entry' = entry
      BY <3>1 DEF Faith
    <3>2. CASE IsForward(resp[q])
               /\ entry' = [entry EXCEPT ![ctx[q].key] = NewEntry(resp[q])]
      BY <2>1, <3>2, NewEntryFaith DEF Faith, TypeOK
    <3>3. QED BY <1>8, <3>1, <3>2 DEF WriteBack
  <2>3. QED BY <1>8, <2>2 DEF Faith, WriteBack, TypeOK
<1>9. ASSUME NEW k \in Keys, Evict(k) PROVE Faith'
  BY <1>9 DEF Faith, Evict, TypeOK, EntryFaith
<1>10. ASSUME NEW k \in Keys, ZoneChange(k) PROVE Faith'
  <2>1. \A e \in Entries \cup {Absent} :
          EntryFaith(e) =>
            EntryFaith(IF e = Absent THEN e ELSE [e EXCEPT !.current = FALSE])
    BY DEF Entries, EntryFaith
  <2>2. \A j \in Keys : EntryFaith(entry'[j])
    BY <1>10, <2>1 DEF Faith, TypeOK, ZoneChange
  <2>3. ASSUME NEW p \in Queries, pc'[p] = "answered"
        PROVE  ResponseFaith(resp'[p])
    <3>1. pc[p] = "answered" /\ resp[p] \in Responses /\ ResponseFaith(resp[p])
      BY <1>10, <2>3 DEF ZoneChange, Faith, TypeOK
    <3>2. resp'[p] = resp[p] \/ resp'[p] = [resp[p] EXCEPT !.current = FALSE]
      BY <1>10 DEF ZoneChange
    <3>3. QED
      BY <3>1, <3>2 DEF Responses, ResponseFaith, IsForward
  <2>4. QED BY <2>2, <2>3 DEF Faith
<1>11. CASE Tick
  <2>1. \A j \in Keys : EntryFaith(entry'[j])
    BY <1>11, AgedFaith DEF Tick, TypeOK, Faith
  <2>2. ASSUME NEW p \in Queries, pc'[p] = "answered" PROVE ResponseFaith(resp'[p])
    <3>1. pc[p] = "answered" /\ resp[p] \in Responses /\ resp[p].probed < ProbeTicks
      BY <1>11, <2>2 DEF Tick, Quiet, Probing, TypeOK
    <3>2. ResponseFaith(resp[p]) /\ resp'[p] = Waited(resp[p])
      BY <1>11, <3>1, TickResponses DEF Faith
    <3> QED BY <3>1, <3>2, WaitedIs DEF ResponseFaith, IsForward
  <2>3. QED BY <2>1, <2>2 DEF Faith
<1>12. QED
  BY <1>1, <1>3, <1>4, <1>5, <1>7, <1>8, <1>9, <1>10, <1>11 DEF Next

\* Whatever upstreams answer and through any number of hits stored again, a hit
\* has records exactly if the upstream sent some that can be given back, and
\* otherwise the upstream's rcode, or SERVFAIL for records that do not parse.
THEOREM HitsAreFaithful == Spec => []FaithfulHits
<1>1. TypeOK /\ Faith => FaithfulHits
  <2> SUFFICES ASSUME TypeOK, Faith, NEW q \in Queries,
                      pc[q] = "answered", resp[q].origin = "hit"
               PROVE  /\ resp[q].recs = "known" <=> resp[q].was.recs = "known"
                      /\ resp[q].recs # "known" =>
                           resp[q].rcode = IF resp[q].was.recs = "unreadable"
                                           THEN "ServFail" ELSE resp[q].was.rcode
    BY DEF FaithfulHits
  <2>1. ResponseFaith(resp[q]) /\ IsForward(resp[q])
    BY DEF Faith, IsForward
  <2> QED BY <2>1 DEF ResponseFaith
<1>2. TypeOK /\ Faith /\ [Next]_vars => (TypeOK /\ Faith)'
  BY TypeStep, FaithStep
<1>3. Init => TypeOK /\ Faith
  BY TypeInit, FaithInit
<1>4. QED BY <1>1, <1>2, <1>3, PTL DEF Spec
=============================================================================
