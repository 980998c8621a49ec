------------------------- MODULE UpstreamGroup_proofs -------------------------
(* Proofs about UpstreamGroup, for every set of slots, number of clients,   *)
(* policy and clock.                                                       *)
EXTENDS UpstreamGroup, SequenceTheorems, TLAPS

-----------------------------------------------------------------------------
(* Arithmetic and sequences                                                *)

\* The remainder of what lies in one turn or in the next.
LEMMA OneTurn ==
    ASSUME NEW n \in Nat \ {0}, NEW x \in 0 .. n - 1
    PROVE  x % n = x /\ (x + n) % n = x
OBVIOUS

\* The cursor and the orders it yields stay within the clients.
LEMMA Turns ==
    ASSUME NEW n \in Nat \ {0}, NEW x \in Nat
    PROVE  x % n \in 0 .. n - 1
OBVIOUS

\* A round-robin order misses no client.
LEMMA RoundRobinIsOrder ==
    ASSUME rr \in 0 .. (IF N = 0 THEN 0 ELSE N - 1)
    PROVE  RoundRobinOrder \in Orders
<1>1. ASSUME NEW i \in Clients
      PROVE  ((rr + i - 1) % N) + 1 \in Clients
  <2>1. N \in Nat \ {0} /\ rr + i - 1 \in Nat
    BY <1>1, NAssumption DEF Clients
  <2>2. (rr + i - 1) % N \in 0 .. N - 1
    BY <2>1, Turns
  <2> QED  BY <2>1, <2>2 DEF Clients
<1>2. ASSUME NEW c \in Clients
      PROVE  \E i \in Clients : ((rr + i - 1) % N) + 1 = c
  <2>1. N \in Nat \ {0} /\ c \in 1 .. N /\ c - 1 \in 0 .. N - 1 /\ rr \in 0 .. N - 1
    BY <1>2, NAssumption DEF Clients
  <2>2. (c - 1) % N = c - 1 /\ (c - 1 + N) % N = c - 1
    BY <2>1, OneTurn
  <2>3. CASE c > rr
    <3>1. c - rr \in Clients /\ rr + (c - rr) - 1 = c - 1
      BY <2>1, <2>3 DEF Clients
    <3>2. ((rr + (c - rr) - 1) % N) + 1 = c
      BY <3>1, <2>2, <2>1
    <3> QED  BY <3>1, <3>2
  <2>4. CASE ~(c > rr)
    <3>1. c - rr + N \in Clients /\ rr + (c - rr + N) - 1 = c - 1 + N
      BY <2>1, <2>4 DEF Clients
    <3>2. ((rr + (c - rr + N) - 1) % N) + 1 = c
      BY <3>1, <2>2, <2>1
    <3> QED  BY <3>1, <3>2
  <2> QED  BY <2>3, <2>4
<1> QED  BY <1>1, <1>2 DEF RoundRobinOrder, Orders

\* The order of the configuration misses no client either.
LEMMA SerialIsOrder == SerialOrder \in Orders
BY DEF SerialOrder, Orders

\* What is left of the errors of a client after an eviction, with the new one.
Recent(s, k, t) == Append(SubSeq(s, k + 1, Len(s)), t)

LEMMA RecentProps ==
    ASSUME NEW S, NEW s \in Seq(S), NEW t \in S, NEW k \in 0 .. Len(s)
    PROVE  LET r == Recent(s, k, t) IN
           /\ r \in Seq(S)
           /\ Len(r) = Len(s) - k + 1
           /\ r[Len(r)] = t
           /\ k < Len(s) => r[1] = s[k + 1]
<1> DEFINE u == SubSeq(s, k + 1, Len(s))
<1>1. k + 1 \in 1 .. Len(s) + 1 /\ Len(s) \in Nat
  OBVIOUS
<1>2. u \in Seq(S) /\ Len(u) = Len(s) - k
  BY <1>1
<1>3. k < Len(s) => u[1] = s[k + 1]
  BY <1>1
<1> HIDE DEF u
<1>4. Append(u, t) \in Seq(S) /\ Len(Append(u, t)) = Len(u) + 1
  BY <1>2
<1>5. Append(u, t)[Len(u) + 1] = t
  BY <1>2
<1>6. k < Len(s) => Append(u, t)[1] = u[1]
  BY <1>1, <1>2
<1>7. Len(u) + 1 = Len(s) - k + 1
  BY <1>2
<1> QED  BY <1>3, <1>4, <1>5, <1>6, <1>7 DEF u, Recent

-----------------------------------------------------------------------------
(* The invariant                                                           *)

\* A query's order misses no client.
OrdersComplete == \A q \in Queries : order[q] \in Orders

\* What the query's loop has been through: every client before `pos` was picked
\* or in cooldown, and those picked are asked before any outcome is awaited; a client in cooldown as of the query's start is in `cooled`,
\* as the ones that trip later are; and the clients a query has asked are
\* either running, being recorded, or behind an error that is kept.
Scanned(q) ==
    pc[q] # "idle" =>
        /\ start[q] <= now
        /\ \A i \in Clients : i < pos[q] =>
               order[q][i] \in racing[q] \cup tried[q] \cup cooled[q]
        /\ \A c \in Clients : InCooldown(c, start[q]) => c \in cooled[q]
        /\ pc[q] \in {"waiting", "recording"} => racing[q] \subseteq tried[q]
        /\ rec[q] # None => rec[q] \in tried[q]
        /\ firstErr[q] # None => firstErr[q] \in tried[q]
        /\ firstErr[q] = None => tried[q] \subseteq racing[q] \cup {rec[q]}
        /\ pc[q] = "failed" => pos[q] \notin Clients /\ racing[q] = {}

\* A query that begins does so with empty hands.
Fresh(q) ==
    pc[q] = "idle" =>
        /\ pos[q] = 1
        /\ racing[q] = {} /\ tried[q] = {}
        /\ firstErr[q] = None

\* The errors a breaker remembers have happened since the last success.
Counted ==
    CooldownOn => \A c \in Clients :
        streak[c] < Threshold => Len(errors[c]) <= streak[c]

\* A client barred to a query is one its clock still finds in cooldown.
Barred(q) ==
    /\ barred[q] \cap (racing[q] \cup tried[q]) = {}
    /\ \A c \in barred[q] : InCooldown(c, start[q])

IInv ==
    /\ TypeOK /\ OrdersComplete /\ Counted
    /\ \A q \in Queries : Scanned(q) /\ Fresh(q) /\ Barred(q)

-----------------------------------------------------------------------------
(* Type correctness                                                        *)

LEMMA TypeInit == Init => TypeOK
<1> SUFFICES ASSUME Init PROVE TypeOK
  OBVIOUS
<1>1. SerialOrder \in [Clients -> Clients]
  BY SerialIsOrder DEF Orders
<1>2. 1 \in 1 .. N + 1 /\ 0 \in 0 .. MaxTime + Cooldown /\ 0 \in 0 .. Threshold /\ 0 \in Time
      /\ 0 \in 0 .. (IF N = 0 THEN 0 ELSE N - 1)
  BY NAssumption, MaxTimeAssumption, PolicyAssumption DEF Time
<1> QED  BY <1>1, <1>2 DEF Init, TypeOK, PCs, None, Clients

\* A recorded failure leaves a breaker well formed.
LEMMA RecordTyped ==
    ASSUME TypeOK, NEW c \in Clients, NEW t \in Time, RecordFailure(c, t)
    PROVE  /\ errors' \in [Clients -> Seq(Time)]
           /\ coolUntil' \in [Clients -> 0 .. MaxTime + Cooldown]
           /\ streak' \in [Clients -> 0 .. Threshold]
           /\ cooled' \in [Queries -> SUBSET Clients]
           /\ barred' \in [Queries -> SUBSET Clients]
<1>1. PICK k \in 0 .. Len(errors[c]) :
        LET recent == Recent(errors[c], k, t)
            trips == Len(recent) >= Threshold
        IN /\ errors' = [errors EXCEPT ![c] = recent]
           /\ IF trips
              THEN coolUntil' = [coolUntil EXCEPT ![c] = t + Cooldown] /\ NoteTrip(c, t)
              ELSE UNCHANGED <<coolUntil, cooled, barred>>
           /\ streak' = [streak EXCEPT ![c] = IF @ < Threshold THEN @ + 1 ELSE @]
  BY DEF RecordFailure, Recent
<1>2. errors[c] \in Seq(Time)
  BY DEF TypeOK
<1>3. Recent(errors[c], k, t) \in Seq(Time)
  BY <1>2, RecentProps
<1>4. errors' \in [Clients -> Seq(Time)]
  BY <1>1, <1>3 DEF TypeOK
<1>5. coolUntil' \in [Clients -> 0 .. MaxTime + Cooldown]
  <2>1. t + Cooldown \in 0 .. MaxTime + Cooldown
    BY PolicyAssumption, MaxTimeAssumption DEF Time
  <2> QED  BY <1>1, <2>1 DEF TypeOK
<1>6. streak' \in [Clients -> 0 .. Threshold]
  BY <1>1, PolicyAssumption DEF TypeOK
<1>7. cooled' \in [Queries -> SUBSET Clients] /\ barred' \in [Queries -> SUBSET Clients]
  <2>1. CASE NoteTrip(c, t)
    <3>1. cooled' \in [Queries -> SUBSET Clients]
      BY <2>1 DEF TypeOK, NoteTrip
    <3>2. barred' = [q \in Queries |-> barred'[q]]
      BY <2>1 DEF NoteTrip
    <3>3. ASSUME NEW q \in Queries PROVE barred'[q] \subseteq Clients
      <4>1. start[q] \in Time /\ barred[q] \subseteq Clients
        BY DEF TypeOK
      <4>2. start[q] <= t \/ start[q] > t
        BY <4>1 DEF Time
      <4>3. \/ barred'[q] = {}
            \/ barred'[q] = barred[q] \cup ({c} \ (racing[q] \cup tried[q]))
            \/ barred'[q] = barred[q] \ {c}
            \/ barred'[q] = barred[q]
        <5>1. barred'[q] = Bars(q, c, t)
          BY <2>1 DEF NoteTrip
        <5> QED  BY <5>1, <4>2, Zenon DEF Bars
      <4> QED  BY <4>1, <4>3
    <3> QED  BY <3>1, <3>2, <3>3
  <2>2. CASE UNCHANGED <<cooled, barred>>
    BY <2>2 DEF TypeOK
  <2> QED  BY <1>1, <2>1, <2>2
<1> QED  BY <1>4, <1>5, <1>6, <1>7

\* The clients and the cursor of a beginning query.
LEMMA BeginTyped ==
    ASSUME TypeOK, NEW q \in Queries, NEW ord \in Orders, Begin(q, ord),
           rr' \in 0 .. (IF N = 0 THEN 0 ELSE N - 1)
    PROVE  TypeOK'
<1>1. ord \in [Clients -> Clients]
  BY DEF Orders
<1>2. {c \in Clients : InCooldown(c, now)} \in SUBSET Clients
  OBVIOUS
<1> QED  BY <1>1, <1>2 DEF TypeOK, Begin, breakers, PCs, None

LEMMA LeaveTyped ==
    ASSUME TypeOK, NEW q \in Queries, Leave(q),
           errors' \in [Clients -> Seq(Time)],
           coolUntil' \in [Clients -> 0 .. MaxTime + Cooldown],
           streak' \in [Clients -> 0 .. Threshold]
    PROVE  TypeOK'
<1>1. SerialOrder \in [Clients -> Clients]
  BY SerialIsOrder DEF Orders
<1>2. 1 \in 1 .. N + 1 /\ 0 \in Time
  BY NAssumption, MaxTimeAssumption DEF Time
<1> QED  BY <1>1, <1>2 DEF TypeOK, Leave, PCs, None

LEMMA TypeStep == TypeOK /\ [Next]_vars => TypeOK'
<1> SUFFICES ASSUME TypeOK, [Next]_vars PROVE TypeOK'
  OBVIOUS
<1>1. ASSUME NEW q \in Queries, BeginSerial(q) PROVE TypeOK'
  BY <1>1, SerialIsOrder, BeginTyped DEF BeginSerial, TypeOK
<1>2. ASSUME NEW q \in Queries, BeginRandom(q) PROVE TypeOK'
  BY <1>2, BeginTyped DEF BeginRandom, TypeOK
<1>3. ASSUME NEW q \in Queries, BeginRoundRobin(q) PROVE TypeOK'
  <2>1. RoundRobinOrder \in Orders
    BY RoundRobinIsOrder DEF TypeOK
  <2>2. rr' \in 0 .. (IF N = 0 THEN 0 ELSE N - 1)
    <3>1. CASE N = 0
      BY <1>3, <3>1 DEF BeginRoundRobin, TypeOK
    <3>2. CASE N # 0
      <4>1. N \in Nat \ {0} /\ rr + 1 \in Nat
        BY <3>2, NAssumption DEF TypeOK
      <4>2. (rr + 1) % N \in 0 .. N - 1
        BY <4>1, Turns
      <4> QED  BY <1>3, <3>2, <4>2 DEF BeginRoundRobin
    <3> QED  BY <3>1, <3>2
  <2> QED  BY <1>3, <2>1, <2>2, BeginTyped DEF BeginRoundRobin
<1>4. ASSUME NEW q \in Queries, Skip(q) PROVE TypeOK'
  <2>1. pos[q] + 1 \in 1 .. N + 1
    BY <1>4, NAssumption DEF Skip, Clients
  <2> QED  BY <1>4, <2>1 DEF Skip, breakers, TypeOK
<1>5. ASSUME NEW q \in Queries, Pick(q) PROVE TypeOK'
  <2>1. order[q][pos[q]] \in Clients /\ pos[q] + 1 \in 1 .. N + 1
    <3>1. order[q] \in [Clients -> Clients] /\ pos[q] \in Clients
      BY <1>5 DEF Pick, TypeOK
    <3>2. pos[q] + 1 \in 1 .. N + 1
      BY <3>1, NAssumption DEF Clients
    <3> QED  BY <3>1, <3>2
  <2>2. racing' \in [Queries -> SUBSET Clients]
    BY <1>5, <2>1 DEF Pick, TypeOK
  <2> QED  BY <1>5, <2>1, <2>2 DEF Pick, breakers, TypeOK, PCs
<1>6. ASSUME NEW q \in Queries, Ask(q) \/ Race(q) PROVE TypeOK'
  <2>1. Send(q) /\ pc[q] # "recording"
    BY <1>6 DEF Ask, Race
  <2>2. tried' \in [Queries -> SUBSET Clients]
    BY <2>1 DEF Send, TypeOK
  <2> QED  BY <2>1, <2>2 DEF Send, breakers, TypeOK, PCs
<1>7. ASSUME NEW q \in Queries, Exhausted(q) PROVE TypeOK'
  BY <1>7 DEF Exhausted, breakers, TypeOK, PCs
<1>8. ASSUME NEW q \in Queries, ReturnError(q) PROVE TypeOK'
  BY <1>8, LeaveTyped DEF ReturnError, breakers, TypeOK
<1>9. ASSUME NEW q \in Queries, NEW c \in Clients, Answered(q, c) PROVE TypeOK'
  <2>1. errors' \in [Clients -> Seq(Time)] /\ streak' \in [Clients -> 0 .. Threshold]
    <3>1. << >> \in Seq(Time) /\ 0 \in 0 .. Threshold
      BY PolicyAssumption
    <3> QED  BY <1>9, <3>1 DEF Answered, TypeOK
  <2> QED  BY <1>9, <2>1, LeaveTyped DEF Answered, TypeOK
<1>10. ASSUME NEW q \in Queries, NEW c \in Clients, Failed(q, c) PROVE TypeOK'
  <2>1. c # None
    BY DEF Clients, None
  <2> QED  BY <1>10, <2>1 DEF Failed, breakers, TypeOK, PCs
<1>11. ASSUME NEW q \in Queries, Record(q) PROVE TypeOK'
  <2>1. rec[q] \in Clients /\ stamp[q] \in Time
    BY <1>11 DEF Record, TypeOK
  <2>2. /\ errors' \in [Clients -> Seq(Time)]
        /\ coolUntil' \in [Clients -> 0 .. MaxTime + Cooldown]
        /\ streak' \in [Clients -> 0 .. Threshold]
        /\ cooled' \in [Queries -> SUBSET Clients]
        /\ barred' \in [Queries -> SUBSET Clients]
    <3>1. CASE CooldownOn
      BY <1>11, <2>1, <3>1, RecordTyped DEF Record
    <3>2. CASE ~CooldownOn
      BY <1>11, <3>2 DEF Record, breakers, TypeOK
    <3> QED  BY <3>1, <3>2
  <2>3. 0 \in Time
    BY MaxTimeAssumption DEF Time
  <2>4. pc' = [pc EXCEPT ![q] = IF racing[q] = {} THEN "choosing" ELSE "waiting"]
    BY <1>11 DEF Record
  <2> QED  BY <1>11, <2>1, <2>2, <2>3, <2>4 DEF Record, TypeOK, PCs, None
<1>12. ASSUME NEW q \in Queries, Abandon(q) PROVE TypeOK'
  BY <1>12, LeaveTyped DEF Abandon, breakers, TypeOK
<1>13. ASSUME Tick PROVE TypeOK'
  BY <1>13, MaxTimeAssumption DEF Tick, TypeOK, Time, breakers, slots
<1>14. ASSUME UNCHANGED vars PROVE TypeOK'
  BY <1>14 DEF vars, breakers, slots, TypeOK
<1> QED
  BY <1>1, <1>2, <1>3, <1>4, <1>5, <1>6, <1>7, <1>8, <1>9, <1>10, <1>11, <1>12,
     <1>13, <1>14 DEF Next, Run

\* Every variable of a group keeps its type, for any number of clients.
THEOREM TypeCorrect == Spec => []TypeOK
BY TypeInit, TypeStep, PTL DEF Spec

-----------------------------------------------------------------------------
(* The steps of a query                                                    *)

LEMMA OrderStep == TypeOK /\ OrdersComplete /\ [Next]_vars => OrdersComplete'
<1> SUFFICES ASSUME TypeOK, OrdersComplete, [Next]_vars PROVE OrdersComplete'
  OBVIOUS
<1>1. ASSUME NEW q \in Queries, NEW ord \in Orders, order' = [order EXCEPT ![q] = ord]
      PROVE  OrdersComplete'
  BY <1>1 DEF OrdersComplete, TypeOK, Orders
<1>2. ASSUME NEW q \in Queries, Leave(q) PROVE OrdersComplete'
  BY <1>2, <1>1, SerialIsOrder DEF Leave
<1>3. CASE \E q \in Queries : BeginSerial(q) \/ BeginRandom(q) \/ BeginRoundRobin(q)
  BY <1>3, <1>1, SerialIsOrder, RoundRobinIsOrder
     DEF BeginSerial, BeginRandom, BeginRoundRobin, Begin, TypeOK
<1>4. CASE \E q \in Queries : ReturnError(q) \/ Abandon(q) \/ \E c \in Clients : Answered(q, c)
  BY <1>4, <1>2 DEF ReturnError, Abandon, Answered
<1>5. ASSUME UNCHANGED order PROVE OrdersComplete'
  BY <1>5 DEF OrdersComplete, Orders
<1>6. ASSUME NEW q \in Queries,
             Skip(q) \/ Pick(q) \/ Ask(q) \/ Race(q) \/ Exhausted(q) \/ Record(q)
               \/ \E c \in Clients : Failed(q, c)
      PROVE  UNCHANGED order
  BY <1>6 DEF Skip, Pick, Ask, Race, Send, Exhausted, Record, Failed
<1>7. CASE Tick \/ UNCHANGED vars
  BY <1>7, <1>5 DEF Tick, vars, slots
<1> QED  BY <1>3, <1>4, <1>5, <1>6, <1>7 DEF Next, Run

\* What a query that does not move keeps, when breakers and clock change as
\* the steps of the others change them.
Unmoved(q) ==
    /\ pc'[q] = pc[q] /\ start'[q] = start[q] /\ order'[q] = order[q]
    /\ pos'[q] = pos[q] /\ racing'[q] = racing[q] /\ rec'[q] = rec[q]
    /\ firstErr'[q] = firstErr[q] /\ tried'[q] = tried[q]

\* Time passes and breakers stay: the query is where it was.
LEMMA OthersStay ==
    ASSUME TypeOK, NEW p \in Queries, Scanned(p), Fresh(p), Unmoved(p),
           now' \in Time, now <= now', UNCHANGED coolUntil, cooled'[p] = cooled[p]
    PROVE  Scanned(p)' /\ Fresh(p)'
<1>1. start[p] \in Time /\ now \in Time
  BY DEF TypeOK
<1>2. start[p] <= now => start[p] <= now'
  BY <1>1 DEF Time
<1> QED  BY <1>2 DEF Scanned, Fresh, Unmoved, InCooldown

\* A breaker that trips is noted by every query that runs.
LEMMA TripsAreNoted ==
    ASSUME TypeOK, NEW c \in Clients, NEW t \in Time, RecordFailure(c, t),
           NEW p \in Queries, pc[p] # "idle"
    PROVE  /\ cooled[p] \subseteq cooled'[p]
           /\ \A d \in Clients : coolUntil'[d] # coolUntil[d] => d \in cooled'[p]
<1>1. \/ coolUntil' = [coolUntil EXCEPT ![c] = t + Cooldown] /\ NoteTrip(c, t)
      \/ UNCHANGED <<coolUntil, cooled>>
  BY DEF RecordFailure
<1>2. CASE coolUntil' = [coolUntil EXCEPT ![c] = t + Cooldown] /\ NoteTrip(c, t)
  BY <1>2 DEF TypeOK, NoteTrip
<1>3. CASE UNCHANGED <<coolUntil, cooled>>
  BY <1>3
<1> QED  BY <1>1, <1>2, <1>3

\* A failure recorded by another query may add to what is in cooldown.
LEMMA OthersCool ==
    ASSUME TypeOK, NEW p \in Queries, Scanned(p), Fresh(p), Unmoved(p),
           UNCHANGED now,
           pc[p] # "idle" =>
             /\ cooled[p] \subseteq cooled'[p]
             /\ \A d \in Clients : coolUntil'[d] # coolUntil[d] => d \in cooled'[p]
    PROVE  Scanned(p)' /\ Fresh(p)'
<1>1. CASE pc[p] = "idle"
  BY <1>1 DEF Scanned, Fresh, Unmoved
<1>2. CASE pc[p] # "idle"
  <2>1. \A c \in Clients : InCooldown(c, start[p])' => c \in cooled'[p]
    BY <1>2 DEF Scanned, Unmoved, InCooldown
  <2> QED  BY <1>2, <2>1 DEF Scanned, Fresh, Unmoved
<1> QED  BY <1>1, <1>2

\* A query that leaves is as it was before it began.
LEMMA LeavesFresh ==
    ASSUME TypeOK, NEW q \in Queries, Leave(q)
    PROVE  Scanned(q)' /\ Fresh(q)'
BY DEF TypeOK, Leave, Scanned, Fresh

LEMMA ScanStep ==
    ASSUME IInv, [Next]_vars, NEW p \in Queries
    PROVE  Scanned(p)' /\ Fresh(p)'
<1>0. TypeOK /\ Scanned(p) /\ Fresh(p) /\ order[p] \in Orders
  BY DEF IInv, OrdersComplete
<1> USE <1>0
<1>t. now \in Time /\ now <= now
  BY DEF TypeOK, Time
<1>1. ASSUME NEW q \in Queries, q # p, UNCHANGED <<mode, now, coolUntil>>,
             cooled'[p] = cooled[p], Unmoved(p)
      PROVE  Scanned(p)' /\ Fresh(p)'
  BY <1>1, <1>t, OthersStay
<1>2. ASSUME NEW q \in Queries, NEW ord \in Orders, Begin(q, ord)
      PROVE  Scanned(p)' /\ Fresh(p)'
  <2>1. CASE q = p
    <3>1. pc'[p] = "choosing" /\ start'[p] = now /\ now' = now /\ coolUntil' = coolUntil
          /\ cooled'[p] = {c \in Clients : InCooldown(c, now)}
          /\ pos'[p] = 1 /\ racing'[p] = {} /\ tried'[p] = {} /\ rec'[p] = None
          /\ firstErr'[p] = None
      BY <1>2, <2>1 DEF Begin, breakers, TypeOK, Fresh
    <3>2. \A i \in Clients : ~(i < 1)
      BY NAssumption DEF Clients
    <3> QED  BY <3>1, <3>2, <1>t DEF Scanned, Fresh, InCooldown
  <2>2. CASE q # p
    BY <1>2, <2>2, <1>1 DEF Begin, breakers, TypeOK, Unmoved
  <2> QED  BY <2>1, <2>2
<1>3. ASSUME NEW q \in Queries, Skip(q) PROVE Scanned(p)' /\ Fresh(p)'
  <2>1. CASE q = p
    <3>1. pos[p] \in Clients /\ pos'[p] = pos[p] + 1
      BY <1>3, <2>1 DEF Skip, TypeOK
    <3>2. order[p][pos[p]] \in cooled[p]
      <4>1. order[p][pos[p]] \in Clients
        BY <3>1 DEF Orders
      <4> QED  BY <1>3, <2>1, <4>1 DEF Skip, Scanned
    <3>3. \A i \in Clients : i < pos[p] + 1 => i < pos[p] \/ i = pos[p]
      BY <3>1 DEF Clients
    <3> QED  BY <1>3, <2>1, <3>1, <3>2, <3>3
             DEF Skip, breakers, Scanned, Fresh, InCooldown
  <2>2. CASE q # p
    BY <1>3, <2>2, <1>1 DEF Skip, breakers, TypeOK, Unmoved
  <2> QED  BY <2>1, <2>2
<1>4. ASSUME NEW q \in Queries, Pick(q) PROVE Scanned(p)' /\ Fresh(p)'
  <2>1. CASE q = p
    <3> DEFINE c == order[p][pos[p]]
    <3>1. /\ pos[p] \in Clients /\ pos'[p] = pos[p] + 1
          /\ racing'[p] = racing[p] \cup {c}
          /\ pc[p] = "choosing" /\ pc'[p] \in {"choosing", "asking"}
      BY <1>4, <2>1 DEF Pick, TypeOK
    <3>2. \A i \in Clients : i < pos[p] + 1 => i < pos[p] \/ i = pos[p]
      BY <3>1 DEF Clients
    <3>3. UNCHANGED <<now, coolUntil, start, order, rec, firstErr, tried, cooled>>
      BY <1>4 DEF Pick, breakers
    <3> HIDE DEF c
    <3>4. order[p][pos[p]] = c
      BY DEF c
    <3> QED  BY <3>1, <3>2, <3>3, <3>4 DEF Scanned, Fresh, InCooldown
  <2>2. CASE q # p
    BY <1>4, <2>2, <1>1 DEF Pick, breakers, TypeOK, Unmoved
  <2> QED  BY <2>1, <2>2
<1>5. ASSUME NEW q \in Queries, Ask(q) \/ Race(q) PROVE Scanned(p)' /\ Fresh(p)'
  <2>1. Send(q) /\ pc[q] \in {"choosing", "asking"}
    BY <1>5 DEF Ask, Race
  <2>2. CASE q = p
    <3>1. pc'[p] = "waiting" /\ tried'[p] = tried[p] \cup racing[p]
      BY <2>1, <2>2 DEF Send, TypeOK
    <3>2. UNCHANGED <<now, coolUntil, start, order, pos, racing, rec, firstErr, cooled>>
      BY <2>1 DEF Send, breakers
    <3> QED  BY <2>1, <2>2, <3>1, <3>2 DEF Scanned, Fresh, InCooldown
  <2>3. CASE q # p
    BY <2>1, <2>3, <1>1 DEF Send, breakers, TypeOK, Unmoved
  <2> QED  BY <2>2, <2>3
<1>6. ASSUME NEW q \in Queries, Exhausted(q) PROVE Scanned(p)' /\ Fresh(p)'
  <2>1. CASE q = p
    BY <1>6, <2>1 DEF Exhausted, breakers, TypeOK, Scanned, Fresh, InCooldown
  <2>2. CASE q # p
    BY <1>6, <2>2, <1>1 DEF Exhausted, breakers, TypeOK, Unmoved
  <2> QED  BY <2>1, <2>2
<1>7. ASSUME NEW q \in Queries, Leave(q), UNCHANGED coolUntil
      PROVE  Scanned(p)' /\ Fresh(p)'
  <2>1. CASE q = p
    BY <1>7, <2>1, LeavesFresh
  <2>2. CASE q # p
    BY <1>7, <2>2, <1>1 DEF Leave, TypeOK, Unmoved
  <2> QED  BY <2>1, <2>2
<1>8. ASSUME NEW q \in Queries, NEW c \in Clients, Failed(q, c)
      PROVE  Scanned(p)' /\ Fresh(p)'
  <2>1. CASE q = p
    <3>1. /\ pc[p] = "waiting" /\ pc'[p] = "recording" /\ c \in racing[p]
          /\ racing'[p] = racing[p] \ {c} /\ rec'[p] = c
          /\ UNCHANGED <<now, coolUntil, start, order, pos, firstErr, tried, cooled>>
      BY <1>8, <2>1 DEF Failed, breakers, TypeOK
    <3>2. rec[p] = None /\ None \notin tried[p]
      <4>1. None \notin Clients
        BY DEF Clients, None
      <4> QED  BY <3>1, <4>1 DEF TypeOK
    <3> QED  BY <3>1, <3>2 DEF Scanned, Fresh, InCooldown
  <2>2. CASE q # p
    BY <1>8, <2>2, <1>1 DEF Failed, breakers, TypeOK, Unmoved
  <2> QED  BY <2>1, <2>2
<1>9. ASSUME NEW q \in Queries, Record(q) PROVE Scanned(p)' /\ Fresh(p)'
  <2>1. rec[q] \in Clients /\ stamp[q] \in Time
    BY <1>9 DEF Record, TypeOK
  <2>2. pc[p] # "idle" =>
          /\ cooled[p] \subseteq cooled'[p]
          /\ \A d \in Clients : coolUntil'[d] # coolUntil[d] => d \in cooled'[p]
    <3>1. CASE CooldownOn
      BY <1>9, <2>1, <3>1, TripsAreNoted DEF Record
    <3>2. CASE ~CooldownOn
      BY <1>9, <3>2 DEF Record, breakers
    <3> QED  BY <3>1, <3>2
  <2>3. CASE q = p
    <3>1. /\ pc[p] = "recording" /\ pc'[p] \in {"choosing", "waiting"} /\ rec'[p] = None
          /\ firstErr'[p] = IF firstErr[p] = None THEN rec[p] ELSE firstErr[p]
          /\ UNCHANGED <<now, start, order, pos, racing, tried>>
      BY <1>9, <2>3 DEF Record, TypeOK
    <3>2. rec[p] # None
      BY <3>1 DEF TypeOK
    <3>3. \A c \in Clients : InCooldown(c, start[p])' => c \in cooled'[p]
      BY <2>2, <3>1 DEF Scanned, InCooldown
    <3> QED  BY <2>2, <3>1, <3>2, <3>3 DEF Scanned, Fresh
  <2>4. CASE q # p
    <3>1. Unmoved(p) /\ UNCHANGED now
      BY <1>9, <2>4 DEF Record, TypeOK, Unmoved
    <3> QED  BY <2>2, <3>1, OthersCool
  <2> QED  BY <2>3, <2>4
<1>10. CASE Tick
  <2>1. now' \in Time /\ now <= now'
    BY <1>10, MaxTimeAssumption DEF Tick, TypeOK, Time
  <2>2. Unmoved(p) /\ UNCHANGED coolUntil /\ cooled'[p] = cooled[p]
    BY <1>10 DEF Tick, breakers, slots, Unmoved
  <2> QED  BY <2>1, <2>2, OthersStay
<1>11. CASE UNCHANGED vars
  BY <1>11, <1>t, OthersStay DEF vars, breakers, slots, Unmoved
<1>12. CASE \E q \in Queries : BeginSerial(q) \/ BeginRandom(q) \/ BeginRoundRobin(q)
  BY <1>12, <1>2, SerialIsOrder, RoundRobinIsOrder
     DEF BeginSerial, BeginRandom, BeginRoundRobin, TypeOK
<1>13. CASE \E q \in Queries : ReturnError(q) \/ Abandon(q) \/ \E c \in Clients : Answered(q, c)
  BY <1>13, <1>7 DEF ReturnError, Abandon, Answered, breakers
<1> QED
  BY <1>3, <1>4, <1>5, <1>6, <1>8, <1>9, <1>10, <1>11, <1>12, <1>13 DEF Next, Run

-----------------------------------------------------------------------------
(* The clients barred to a query                                           *)

\* Breakers stay, and the query turns to nobody new.
LEMMA BarStays ==
    ASSUME NEW p \in Queries, Barred(p), UNCHANGED coolUntil,
           start'[p] = start[p], barred'[p] = barred[p],
           racing'[p] \cup tried'[p] \subseteq racing[p] \cup tried[p]
    PROVE  Barred(p)'
BY DEF Barred, InCooldown

\* What is barred after a trip was barred, or trips on a failure of this query's
\* time; and no cooldown was made shorter for it.
LEMMA TripBars ==
    ASSUME TypeOK, NEW c \in Clients, NEW t \in Time, NoteTrip(c, t),
           NEW p \in Queries, NEW d \in barred'[p]
    PROVE  \/ d \in barred[p] /\ (d = c => t + Cooldown >= coolUntil[c] \/ start[p] <= t)
           \/ d = c /\ c \notin racing[p] \cup tried[p] /\ start[p] <= t
<1>1. start[p] \in Int /\ t \in Int /\ Cooldown \in Int /\ coolUntil[c] \in Int
  <2>1. start[p] \in Time /\ coolUntil[c] \in 0 .. MaxTime + Cooldown
    BY DEF TypeOK
  <2> QED  BY <2>1, PolicyAssumption, MaxTimeAssumption DEF Time
<1>b. barred'[p] = Bars(p, c, t)
  BY DEF NoteTrip
<1>2. CASE pc[p] = "idle"
  <2>1. barred'[p] = {}
    BY <1>b, <1>2, Zenon DEF Bars
  <2> QED  BY <2>1
<1>3. CASE pc[p] # "idle" /\ start[p] <= t
  <2>1. start[p] > t <=> ~(start[p] <= t)
    BY <1>1
  <2>2. barred'[p] = barred[p] \cup ({c} \ (racing[p] \cup tried[p]))
    BY <1>b, <1>3, <2>1, Zenon DEF Bars
  <2> QED  BY <1>3, <2>2
<1>4. CASE pc[p] # "idle" /\ start[p] > t
  <2>1. start[p] > t <=> ~(start[p] <= t)
    BY <1>1
  <2>2. barred'[p] = IF t + Cooldown < coolUntil[c] THEN barred[p] \ {c} ELSE barred[p]
    BY <1>b, <1>4, <2>1, Zenon DEF Bars
  <2> QED  BY <1>1, <2>2
<1> QED  BY <1>1, <1>2, <1>3, <1>4

\* A failure recorded by any query leaves every query's bars in force.
LEMMA BarRecord ==
    ASSUME TypeOK, NEW c \in Clients, NEW t \in Time, RecordFailure(c, t), CooldownOn,
           NEW p \in Queries, Barred(p), UNCHANGED <<start, racing, tried>>
    PROVE  Barred(p)'
<1>1. \/ coolUntil' = [coolUntil EXCEPT ![c] = t + Cooldown] /\ NoteTrip(c, t)
      \/ UNCHANGED <<coolUntil, barred>>
  BY DEF RecordFailure
<1>2. CASE UNCHANGED <<coolUntil, barred>>
  BY <1>2, BarStays
<1>3. CASE coolUntil' = [coolUntil EXCEPT ![c] = t + Cooldown] /\ NoteTrip(c, t)
  <2> SUFFICES ASSUME NEW d \in barred'[p]
               PROVE  d \notin racing[p] \cup tried[p] /\ coolUntil'[d] > start[p]
    BY DEF Barred, InCooldown
  <2>1. \/ d \in barred[p] /\ (d = c => t + Cooldown >= coolUntil[c] \/ start[p] <= t)
        \/ d = c /\ c \notin racing[p] \cup tried[p] /\ start[p] <= t
    BY <1>3, TripBars
  <2>2. d \in barred[p] => d \notin racing[p] \cup tried[p] /\ coolUntil[d] > start[p]
    BY DEF Barred, InCooldown
  <2>3. start[p] \in Int /\ t \in Int /\ Cooldown \in Nat \ {0} /\ coolUntil[c] \in Int
    <3>1. start[p] \in Time /\ coolUntil[c] \in 0 .. MaxTime + Cooldown
      BY DEF TypeOK
    <3> QED  BY <3>1, PolicyAssumption, MaxTimeAssumption DEF Time
  <2>4. CASE d = c
    <3>1. coolUntil'[d] = t + Cooldown
      BY <1>3, <2>4 DEF TypeOK
    <3>2. t + Cooldown > start[p]
      BY <2>1, <2>2, <2>3, <2>4
    <3> QED  BY <2>1, <2>2, <2>4, <3>1, <3>2
  <2>5. CASE d # c
    <3>1. d \in Clients /\ coolUntil'[d] = coolUntil[d]
      BY <1>3, <2>1, <2>5 DEF TypeOK
    <3> QED  BY <2>1, <2>2, <2>5, <3>1
  <2> QED  BY <2>4, <2>5
<1> QED  BY <1>1, <1>2, <1>3

LEMMA BarStep ==
    ASSUME IInv, [Next]_vars, NEW p \in Queries
    PROVE  Barred(p)'
<1>0. TypeOK /\ Fresh(p) /\ Barred(p)
  BY DEF IInv
<1> USE <1>0
<1>1. ASSUME NEW q \in Queries, NEW ord \in Orders, Begin(q, ord) PROVE Barred(p)'
  <2>1. CASE q = p
    <3>1. /\ start'[p] = now /\ barred'[p] = {c \in Clients : InCooldown(c, now)}
          /\ racing'[p] = {} /\ tried'[p] = {} /\ coolUntil' = coolUntil
      BY <1>1, <2>1 DEF Begin, breakers, TypeOK, Fresh
    <3> QED  BY <3>1 DEF Barred, InCooldown
  <2>2. CASE q # p
    BY <1>1, <2>2, BarStays DEF Begin, breakers, TypeOK
  <2> QED  BY <2>1, <2>2
<1>2. ASSUME NEW q \in Queries, Leave(q), UNCHANGED coolUntil PROVE Barred(p)'
  <2>1. CASE q = p
    <3>1. barred'[p] = {}
      BY <1>2, <2>1 DEF Leave, TypeOK
    <3> QED  BY <3>1 DEF Barred
  <2>2. CASE q # p
    BY <1>2, <2>2, BarStays DEF Leave, TypeOK
  <2> QED  BY <2>1, <2>2
<1>3. ASSUME NEW q \in Queries, Pick(q) PROVE Barred(p)'
  <2>1. UNCHANGED <<coolUntil, start, barred, tried>>
    BY <1>3 DEF Pick, breakers
  <2>2. CASE q = p
    <3>1. /\ ~InCooldown(order[p][pos[p]], start[p])
          /\ racing'[p] = racing[p] \cup {order[p][pos[p]]}
      BY <1>3, <2>2 DEF Pick, TypeOK
    <3> QED  BY <2>1, <3>1 DEF Barred, InCooldown
  <2>3. CASE q # p
    BY <1>3, <2>1, <2>3, BarStays DEF Pick, TypeOK
  <2> QED  BY <2>2, <2>3
<1>4. ASSUME NEW q \in Queries, Ask(q) \/ Race(q) PROVE Barred(p)'
  <2>1. Send(q)
    BY <1>4 DEF Ask, Race
  <2> QED  BY <2>1, BarStays DEF Send, breakers, TypeOK
<1>5. ASSUME NEW q \in Queries, NEW c \in Clients, Failed(q, c) PROVE Barred(p)'
  BY <1>5, BarStays DEF Failed, breakers, TypeOK
<1>6. ASSUME NEW q \in Queries, Record(q) PROVE Barred(p)'
  <2>1. rec[q] \in Clients /\ stamp[q] \in Time /\ UNCHANGED <<start, racing, tried>>
    BY <1>6 DEF Record, TypeOK
  <2>2. CASE CooldownOn
    BY <1>6, <2>1, <2>2, BarRecord DEF Record
  <2>3. CASE ~CooldownOn
    BY <1>6, <2>1, <2>3, BarStays DEF Record, breakers
  <2> QED  BY <2>2, <2>3
<1>7. ASSUME UNCHANGED <<coolUntil, start, barred, racing, tried>> PROVE Barred(p)'
  BY <1>7, BarStays
<1>8. CASE \E q \in Queries : BeginSerial(q) \/ BeginRandom(q) \/ BeginRoundRobin(q)
  BY <1>8, <1>1, SerialIsOrder, RoundRobinIsOrder
     DEF BeginSerial, BeginRandom, BeginRoundRobin, TypeOK
<1>9. CASE \E q \in Queries : ReturnError(q) \/ Abandon(q) \/ \E c \in Clients : Answered(q, c)
  BY <1>9, <1>2 DEF ReturnError, Abandon, Answered, breakers
<1>10. CASE \/ \E q \in Queries : Skip(q) \/ Exhausted(q)
            \/ Tick \/ UNCHANGED vars
  BY <1>10, <1>7 DEF Skip, Exhausted, Tick, vars, breakers, slots
<1> QED
  BY <1>3, <1>4, <1>5, <1>6, <1>8, <1>9, <1>10 DEF Next, Run

-----------------------------------------------------------------------------
(* The breakers                                                            *)

\* A recorded failure: how the errors it leaves relate to those before it.
LEMMA FailureProps ==
    ASSUME TypeOK, NEW c \in Clients, NEW t \in Time, RecordFailure(c, t)
    PROVE  /\ \A d \in Clients \ {c} : errors'[d] = errors[d] /\ coolUntil'[d] = coolUntil[d]
                                         /\ streak'[d] = streak[d]
           /\ Len(errors'[c]) <= Len(errors[c]) + 1
           /\ errors'[c] \in Seq(Time)
           /\ Len(errors'[c]) >= 1
           /\ errors'[c][Len(errors'[c])] = t
           /\ t - errors'[c][1] <= Window
           /\ streak'[c] = IF streak[c] < Threshold THEN streak[c] + 1 ELSE streak[c]
           /\ coolUntil'[c] # coolUntil[c] => Len(errors'[c]) >= Threshold
<1>1. PICK k \in 0 .. Len(errors[c]) :
        LET recent == Recent(errors[c], k, t) IN
        /\ k < Len(errors[c]) => t - errors[c][k + 1] <= Window
        /\ errors' = [errors EXCEPT ![c] = recent]
        /\ coolUntil' = IF Len(recent) >= Threshold
                        THEN [coolUntil EXCEPT ![c] = t + Cooldown] ELSE coolUntil
        /\ streak' = [streak EXCEPT ![c] = IF @ < Threshold THEN @ + 1 ELSE @]
  BY DEF RecordFailure, Recent
<1> DEFINE recent == Recent(errors[c], k, t)
<1>2. errors[c] \in Seq(Time) /\ Len(errors[c]) \in Nat
  BY DEF TypeOK
<1>3. /\ recent \in Seq(Time)
      /\ Len(recent) = Len(errors[c]) - k + 1
      /\ recent[Len(recent)] = t
      /\ k < Len(errors[c]) => recent[1] = errors[c][k + 1]
  BY <1>2, RecentProps
<1>4. /\ errors' = [errors EXCEPT ![c] = recent]
      /\ coolUntil' = IF Len(recent) >= Threshold
                      THEN [coolUntil EXCEPT ![c] = t + Cooldown] ELSE coolUntil
      /\ streak' = [streak EXCEPT ![c] = IF @ < Threshold THEN @ + 1 ELSE @]
      /\ k < Len(errors[c]) => t - errors[c][k + 1] <= Window
  BY <1>1
<1> HIDE DEF recent
<1>5. errors'[c] = recent /\ \A d \in Clients \ {c} : errors'[d] = errors[d]
  BY <1>4 DEF TypeOK
<1>6. t - recent[1] <= Window
  <2>1. CASE k < Len(errors[c])
    BY <1>3, <1>4, <2>1
  <2>2. CASE ~(k < Len(errors[c]))
    <3>1. Len(recent) = 1
      BY <1>2, <1>3, <2>2
    <3>2. recent[1] = t
      BY <1>3, <3>1
    <3>3. t - t <= Window
      BY PolicyAssumption, MaxTimeAssumption DEF Time
    <3> QED  BY <3>2, <3>3
  <2> QED  BY <2>1, <2>2
<1>7. Len(recent) <= Len(errors[c]) + 1 /\ Len(recent) >= 1
  BY <1>2, <1>3
<1>8. streak'[c] = IF streak[c] < Threshold THEN streak[c] + 1 ELSE streak[c]
  BY <1>4 DEF TypeOK
<1>9. coolUntil'[c] # coolUntil[c] => Len(recent) >= Threshold
  BY <1>4
<1>10. \A d \in Clients \ {c} : coolUntil'[d] = coolUntil[d] /\ streak'[d] = streak[d]
  BY <1>4 DEF TypeOK
<1> QED  BY <1>3, <1>5, <1>6, <1>7, <1>8, <1>9, <1>10

LEMMA CountStep == TypeOK /\ Counted /\ [Next]_vars => Counted'
<1> SUFFICES ASSUME TypeOK, Counted, [Next]_vars, CooldownOn, NEW d \in Clients
             PROVE  streak'[d] < Threshold => Len(errors'[d]) <= streak'[d]
  BY DEF Counted
<1>0. streak[d] < Threshold => Len(errors[d]) <= streak[d]
  BY DEF Counted
<1>1. ASSUME UNCHANGED <<errors, streak>>
      PROVE  streak'[d] < Threshold => Len(errors'[d]) <= streak'[d]
  BY <1>0, <1>1
<1>2. ASSUME NEW q \in Queries, NEW c \in Clients, Answered(q, c)
      PROVE  streak'[d] < Threshold => Len(errors'[d]) <= streak'[d]
  <2>1. CASE c = d
    <3>1. errors'[d] = << >> /\ streak'[d] = 0
      BY <1>2, <2>1 DEF Answered, TypeOK
    <3> QED  BY <3>1
  <2>2. CASE c # d
    BY <1>2, <2>2, <1>0 DEF Answered, TypeOK
  <2> QED  BY <2>1, <2>2
<1>3. ASSUME NEW q \in Queries, Record(q)
      PROVE  streak'[d] < Threshold => Len(errors'[d]) <= streak'[d]
  <2>1. rec[q] \in Clients /\ stamp[q] \in Time /\ RecordFailure(rec[q], stamp[q])
    BY <1>3 DEF Record, TypeOK
  <2>2. CASE rec[q] = d
    <3>1. /\ Len(errors'[d]) <= Len(errors[d]) + 1
          /\ streak'[d] = IF streak[d] < Threshold THEN streak[d] + 1 ELSE streak[d]
          /\ errors'[d] \in Seq(Time)
      BY <2>1, <2>2, FailureProps
    <3>2. errors[d] \in Seq(Time) /\ streak[d] \in Nat /\ Threshold \in Nat
      BY PolicyAssumption DEF TypeOK
    <3>3. Len(errors[d]) \in Nat /\ Len(errors'[d]) \in Nat
      BY <3>1, <3>2
    <3> QED  BY <1>0, <3>1, <3>2, <3>3
  <2>3. CASE rec[q] # d
    BY <2>1, <2>3, <1>0, FailureProps
  <2> QED  BY <2>2, <2>3
<1>4. CASE \E q \in Queries : BeginSerial(q) \/ BeginRandom(q) \/ BeginRoundRobin(q)
  BY <1>4, <1>1 DEF BeginSerial, BeginRandom, BeginRoundRobin, Begin, breakers
<1>5. CASE \E q \in Queries : Skip(q) \/ Pick(q) \/ Ask(q) \/ Race(q) \/ Exhausted(q)
                               \/ ReturnError(q) \/ Abandon(q)
                               \/ \E c \in Clients : Failed(q, c)
  BY <1>5, <1>1 DEF Skip, Pick, Ask, Race, Send, Exhausted, ReturnError, Abandon, Failed, breakers
<1>6. CASE Tick \/ UNCHANGED vars
  BY <1>6, <1>1 DEF Tick, vars, breakers
<1> QED  BY <1>2, <1>3, <1>4, <1>5, <1>6 DEF Next, Run

-----------------------------------------------------------------------------
(* The theorems                                                            *)

LEMMA InitIInv == Init => IInv
<1> SUFFICES ASSUME Init PROVE IInv
  OBVIOUS
<1>1. TypeOK
  BY TypeInit
<1>2. OrdersComplete
  BY SerialIsOrder DEF Init, OrdersComplete
<1>3. Counted
  BY DEF Init, Counted
<1>4. \A q \in Queries : Scanned(q) /\ Fresh(q) /\ Barred(q)
  BY DEF Init, Scanned, Fresh, Barred
<1> QED  BY <1>1, <1>2, <1>3, <1>4 DEF IInv

LEMMA StepIInv == IInv /\ [Next]_vars => IInv'
<1> SUFFICES ASSUME IInv, [Next]_vars PROVE IInv'
  OBVIOUS
<1>1. TypeOK' /\ OrdersComplete' /\ Counted'
  BY TypeStep, OrderStep, CountStep DEF IInv
<1>2. \A q \in Queries : Scanned(q)' /\ Fresh(q)' /\ Barred(q)'
  BY ScanStep, BarStep
<1> QED  BY <1>1, <1>2 DEF IInv

LEMMA IInvHolds == Spec => []IInv
BY InitIInv, StepIInv, PTL DEF Spec

\* A query that has been through its order and kept no error has asked nobody.
LEMMA FailedTried == IInv => FailsAfterAll
<1> SUFFICES ASSUME IInv, NEW q \in Queries, pc[q] = "failed"
             PROVE  /\ tried[q] \cup cooled[q] = Clients
                    /\ firstErr[q] = None <=> tried[q] = {}
  BY DEF FailsAfterAll
<1>1. TypeOK /\ Scanned(q) /\ order[q] \in Orders
  BY DEF IInv, OrdersComplete
<1>2. \A i \in Clients : i < pos[q]
  BY <1>1, NAssumption DEF Scanned, TypeOK, Clients
<1>3. Clients \subseteq tried[q] \cup cooled[q]
  BY <1>1, <1>2 DEF Scanned, Orders
<1>4. tried[q] \subseteq Clients /\ cooled[q] \subseteq Clients
  BY <1>1 DEF TypeOK
<1>5. rec[q] = None /\ None \notin Clients
  BY <1>1 DEF TypeOK, Clients, None
<1> QED  BY <1>1, <1>3, <1>4, <1>5 DEF Scanned

\* Fallback and race reach every client: a query of a group fails only after
\* each client was asked, or was in cooldown at some moment of the query.
THEOREM NobodyLeftOut == Spec => []FailsAfterAll
BY IInvHolds, FailedTried, PTL

\* The invariant bars a query from what it may not turn to.
LEMMA BarredSitOut == IInv => CoolingSitOut
BY DEF IInv, Barred, CoolingSitOut

\* A client that cools as a query begins, or trips before its turn comes, is
\* left alone by that query, whatever concurrent answers and failures do to its
\* breaker, unless a late failure shortens the cooldown.
THEOREM CoolingLeftAlone == Spec => []CoolingSitOut
BY IInvHolds, BarredSitOut, PTL

\* A trip is a recorded failure whose errors are counted and dated.
LEMMA TripEarned == IInv /\ [Next]_vars => EarnedTrip
<1> SUFFICES ASSUME IInv, [Next]_vars, NEW c \in Clients, coolUntil'[c] # coolUntil[c]
             PROVE  /\ streak'[c] = Threshold
                    /\ Ascending(errors'[c]) =>
                         \A i \in DOMAIN errors'[c] :
                           errors'[c][Len(errors'[c])] - errors'[c][i] <= Window
  BY DEF EarnedTrip
<1>0. TypeOK /\ Counted
  BY DEF IInv
<1>1. \E q \in Queries : Record(q) /\ CooldownOn
  BY DEF Next, Run, BeginSerial, BeginRandom, BeginRoundRobin, Begin, Skip, Pick, Ask, Race, Send,
         Exhausted, ReturnError, Answered, Failed, Record, Abandon, Tick, breakers, vars
<1>2. PICK q \in Queries : Record(q) /\ CooldownOn
  BY <1>1
<1>3. rec[q] \in Clients /\ stamp[q] \in Time /\ RecordFailure(rec[q], stamp[q])
  BY <1>0, <1>2 DEF Record, TypeOK
<1>4. rec[q] = c
  BY <1>0, <1>3, FailureProps
<1>5. /\ Len(errors'[c]) <= Len(errors[c]) + 1
      /\ errors'[c] \in Seq(Time)
      /\ Len(errors'[c]) >= Threshold
      /\ Len(errors'[c]) >= 1
      /\ errors'[c][Len(errors'[c])] = stamp[q]
      /\ stamp[q] - errors'[c][1] <= Window
      /\ streak'[c] = IF streak[c] < Threshold THEN streak[c] + 1 ELSE streak[c]
  BY <1>0, <1>3, <1>4, FailureProps
<1>6. streak'[c] = Threshold
  <2>1. streak[c] \in 0 .. Threshold /\ Threshold \in Nat /\ errors[c] \in Seq(Time)
    BY <1>0, PolicyAssumption DEF TypeOK
  <2>2. Len(errors[c]) \in Nat /\ Len(errors'[c]) \in Nat
    BY <1>5, <2>1
  <2>3. streak[c] < Threshold => Len(errors[c]) <= streak[c]
    BY <1>0, <1>2 DEF Counted
  <2> QED  BY <1>5, <2>1, <2>2, <2>3
<1>7. ASSUME Ascending(errors'[c]), NEW i \in DOMAIN errors'[c]
      PROVE  errors'[c][Len(errors'[c])] - errors'[c][i] <= Window
  <2>1. i \in 1 .. Len(errors'[c]) /\ 1 \in DOMAIN errors'[c]
    BY <1>5
  <2>2. errors'[c][1] \in Time /\ errors'[c][i] \in Time
    BY <1>5, <2>1
  <2>3. errors'[c][1] \in Int /\ errors'[c][i] \in Int /\ stamp[q] \in Int
    BY <1>3, <2>2 DEF Time
  <2>4. errors'[c][1] <= errors'[c][i]
    <3>1. CASE i = 1
      BY <2>3, <3>1
    <3>2. CASE i # 1
      BY <1>7, <2>1, <3>2 DEF Ascending
    <3> QED  BY <3>1, <3>2
  <2>5. stamp[q] - errors'[c][i] <= Window
    BY <1>5, <2>3, <2>4, PolicyAssumption
  <2> QED  BY <1>5, <2>5
<1> QED  BY <1>6, <1>7

\* A breaker trips only after threshold failures in a row, within the window
\* when they were recorded in the order of their stamps.
THEOREM BreakersTripFairly == Spec => TripsAreEarned
BY IInvHolds, TripEarned, PTL DEF Spec, TripsAreEarned
=============================================================================
