----------------------------- MODULE UpstreamGroup -----------------------------
(***************************************************************************)
(* A named upstream group and its per-client circuit breakers              *)
(* (src/src/upstream/mod.rs): serial, random and round-robin fallback and  *)
(* the parallel race, over clients whose query either answers or fails     *)
(* (ConnPool models what happens inside one client).                       *)
(*                                                                         *)
(* Every query slot runs on its own task.  A step ends where another task  *)
(* can observe or change a breaker: at a breaker mutex, at the round-robin *)
(* cursor, at an await.  A client is picked under its breaker's mutex and  *)
(* asked after that is released, and the time stamp of a failure is taken  *)
(* before the breaker is locked: Pick and Ask are two steps, and so are    *)
(* Failed and Record.                                                      *)
(***************************************************************************)
EXTENDS Integers, Sequences

CONSTANTS
    Queries,     \* query slots
    N,           \* number of clients in the group (may be 0)
    Modes,       \* query modes a group may be configured with
    CooldownOn,  \* is a cooldown policy configured
    Window,      \* CooldownConfig::window
    Threshold,   \* CooldownConfig::threshold, at least 1
    Cooldown,    \* CooldownConfig::cooldown, at least 1
    MaxTime      \* bound on the clock

ASSUME NAssumption == N \in Nat
ASSUME ModeAssumption == Modes \subseteq {"serial", "random", "roundrobin", "parallel"}
ASSUME PolicyAssumption ==
    /\ CooldownOn \in BOOLEAN
    /\ Window \in Nat    \* 0: shorter than a tick of the clock
    /\ Threshold \in Nat \ {0} /\ Cooldown \in Nat \ {0}
ASSUME MaxTimeAssumption == MaxTime \in Nat

Clients == 1 .. N
None == 0
Time == 0 .. MaxTime

VARIABLES
    mode,        \* the group's configured query mode
    now,         \* the clock
    errors,      \* per client: stamps of recent transport errors, oldest first
    coolUntil,   \* per client: skipped while this is in the future (0: never)
    rr,          \* round-robin cursor, already reduced modulo N
    pc,          \* per slot
    start,       \* per slot: `now` as read when the query began
    order,       \* per slot: client indices in the order to consider
    pos,         \* per slot: next position in order
    racing,      \* per slot: clients picked, then with a query in flight
    rec,         \* per slot: client whose failure is being recorded
    stamp,       \* per slot: time stamp of that failure
    firstErr,    \* per slot: client of the first error (None: no error yet)
    tried,       \* history: clients this query was sent to
    cooled,      \* history: clients in cooldown at some moment of this query
    barred,      \* history: clients that cool and this query had not come to
    streak       \* history: failures since the last success, up to Threshold

breakers == <<errors, coolUntil, streak>>
slots == <<pc, start, order, pos, racing, rec, stamp, firstErr, tried, cooled, barred>>
vars == <<mode, now, breakers, rr, slots>>

PCs == {"idle", "choosing", "asking", "waiting", "recording", "failed"}

\* Breaker::in_cooldown, gated on a configured policy.
InCooldown(c, t) == CooldownOn /\ coolUntil[c] > t

\* The permutations of the clients: those that miss none.
Orders == {f \in [Clients -> Clients] : \A c \in Clients : \E i \in Clients : f[i] = c}
SerialOrder == [i \in Clients |-> i]

\* The clients barred to query q after client c trips on a failure of time t: c
\* too, to a query that began before the failure and has not come to c; c no
\* longer, if its cooldown got shorter.
Bars(q, c, t) ==
    CASE pc[q] = "idle" -> {}
      [] pc[q] # "idle" /\ start[q] <= t ->
            barred[q] \cup ({c} \ (racing[q] \cup tried[q]))
      [] pc[q] # "idle" /\ start[q] > t ->
            IF t + Cooldown < coolUntil[c] THEN barred[q] \ {c} ELSE barred[q]

\* What the running queries note of such a trip.
NoteTrip(c, t) ==
    /\ cooled' = [q \in Queries |-> IF pc[q] = "idle" THEN {} ELSE cooled[q] \cup {c}]
    /\ barred' = [q \in Queries |-> Bars(q, c, t)]

-----------------------------------------------------------------------------
(* Mutations: bugs this code could have, used only to test the properties. *)

\* A skipped client is not stepped over.
MutSkip_NoAdvance(q) ==
    /\ pc[q] = "choosing"
    /\ pos[q] \in Clients
    /\ InCooldown(order[q][pos[q]], start[q])
    /\ UNCHANGED vars

\* The window is never applied.
MutRecordFailure_NoEvict(c, t) ==
    /\ errors' = [errors EXCEPT ![c] = Append(@, t)]
    /\ LET trips == Len(errors[c]) + 1 >= Threshold
       IN IF trips
          THEN coolUntil' = [coolUntil EXCEPT ![c] = t + Cooldown] /\ NoteTrip(c, t)
          ELSE UNCHANGED <<coolUntil, cooled, barred>>
    /\ streak' = [streak EXCEPT ![c] = IF @ < Threshold THEN @ + 1 ELSE @]

\* The first error ends the query.
MutRecord_NoFallback(q) ==
    /\ pc[q] = "recording"
    /\ firstErr' = [firstErr EXCEPT ![q] = rec[q]]
    /\ rec' = [rec EXCEPT ![q] = None]
    /\ stamp' = [stamp EXCEPT ![q] = 0]
    /\ pc' = [pc EXCEPT ![q] = "failed"]
    /\ UNCHANGED <<mode, now, breakers, rr, start, order, pos, racing, tried, cooled,
                   barred>>

-----------------------------------------------------------------------------

RoundRobinOrder == [i \in Clients |-> ((rr + i - 1) % N) + 1]

Init ==
    /\ mode \in Modes
    /\ now = 0
    /\ errors = [c \in Clients |-> <<>>]
    /\ coolUntil = [c \in Clients |-> 0]
    /\ streak = [c \in Clients |-> 0]
    /\ rr = 0
    /\ pc = [q \in Queries |-> "idle"]
    /\ start = [q \in Queries |-> 0]
    /\ order = [q \in Queries |-> SerialOrder]
    /\ pos = [q \in Queries |-> 1]
    /\ racing = [q \in Queries |-> {}]
    /\ rec = [q \in Queries |-> None]
    /\ stamp = [q \in Queries |-> 0]
    /\ firstErr = [q \in Queries |-> None]
    /\ tried = [q \in Queries |-> {}]
    /\ cooled = [q \in Queries |-> {}]
    /\ barred = [q \in Queries |-> {}]

\* query: pick the order of the group's mode and read the clock once.
Begin(q, ord) ==
    /\ pc[q] = "idle"
    /\ pc' = [pc EXCEPT ![q] = "choosing"]
    /\ start' = [start EXCEPT ![q] = now]
    /\ order' = [order EXCEPT ![q] = ord]
    /\ cooled' = [cooled EXCEPT ![q] = {c \in Clients : InCooldown(c, now)}]
    /\ barred' = [barred EXCEPT ![q] = {c \in Clients : InCooldown(c, now)}]
    /\ UNCHANGED <<mode, now, breakers, pos, racing, rec, stamp, firstErr, tried>>

BeginSerial(q) ==
    /\ mode \in {"serial", "parallel"}
    /\ Begin(q, SerialOrder)
    /\ UNCHANGED rr

BeginRandom(q) ==
    /\ mode = "random"
    /\ \E ord \in Orders : Begin(q, ord)
    /\ UNCHANGED rr

BeginRoundRobin(q) ==
    /\ mode = "roundrobin"
    /\ Begin(q, RoundRobinOrder)
    /\ rr' = IF N = 0 THEN rr ELSE (rr + 1) % N

\* The client under consideration is in cooldown, as of the query's start.
Skip(q) ==
    /\ pc[q] = "choosing"
    /\ pos[q] \in Clients
    /\ InCooldown(order[q][pos[q]], start[q])
    /\ pos' = [pos EXCEPT ![q] = @ + 1]
    /\ UNCHANGED <<mode, now, breakers, rr, pc, start, order, racing, rec, stamp,
                   firstErr, tried, cooled, barred>>

\* Otherwise it is picked, and the breaker unlocked: the parallel mode goes on
\* collecting clients, the fallback modes are about to ask this one.
Pick(q) ==
    /\ pc[q] = "choosing"
    /\ pos[q] \in Clients
    /\ LET c == order[q][pos[q]] IN
        /\ ~InCooldown(c, start[q])
        /\ racing' = [racing EXCEPT ![q] = @ \cup {c}]
    /\ pos' = [pos EXCEPT ![q] = @ + 1]
    /\ pc' = [pc EXCEPT ![q] = IF mode = "parallel" THEN "choosing" ELSE "asking"]
    /\ UNCHANGED <<mode, now, breakers, rr, start, order, rec, stamp, firstErr,
                   tried, cooled, barred>>

\* The clients picked get the query.
Send(q) ==
    /\ tried' = [tried EXCEPT ![q] = @ \cup racing[q]]
    /\ pc' = [pc EXCEPT ![q] = "waiting"]
    /\ UNCHANGED <<mode, now, breakers, rr, start, order, pos, racing, rec, stamp,
                   firstErr, cooled, barred>>

\* Fallback modes: ask the client picked.
Ask(q) ==
    /\ pc[q] = "asking"
    /\ Send(q)

\* Parallel mode, all clients considered: start the race.
Race(q) ==
    /\ pc[q] = "choosing"
    /\ pos[q] \notin Clients
    /\ racing[q] # {}
    /\ Send(q)

\* No client left to ask: the error of the first failure, or NotConnected when
\* no client was asked at all.
Exhausted(q) ==
    /\ pc[q] = "choosing"
    /\ pos[q] \notin Clients
    /\ racing[q] = {}
    /\ pc' = [pc EXCEPT ![q] = "failed"]
    /\ UNCHANGED <<mode, now, breakers, rr, start, order, pos, racing, rec, stamp,
                   firstErr, tried, cooled, barred>>

\* The call is over: its locals and its futures in flight are dropped.
Leave(q) ==
    /\ pc' = [pc EXCEPT ![q] = "idle"]
    /\ start' = [start EXCEPT ![q] = 0]
    /\ order' = [order EXCEPT ![q] = SerialOrder]
    /\ pos' = [pos EXCEPT ![q] = 1]
    /\ racing' = [racing EXCEPT ![q] = {}]
    /\ rec' = [rec EXCEPT ![q] = None]
    /\ stamp' = [stamp EXCEPT ![q] = 0]
    /\ firstErr' = [firstErr EXCEPT ![q] = None]
    /\ tried' = [tried EXCEPT ![q] = {}]
    /\ cooled' = [cooled EXCEPT ![q] = {}]
    /\ barred' = [barred EXCEPT ![q] = {}]
    /\ UNCHANGED <<mode, now, rr>>

ReturnError(q) ==
    /\ pc[q] = "failed"
    /\ Leave(q)
    /\ UNCHANGED breakers

\* Mutation: the next answer ends a client's cooldown.
MutAnswered_EndsCooldown(q, c) ==
    /\ pc[q] = "waiting"
    /\ c \in racing[q]
    /\ errors' = IF CooldownOn THEN [errors EXCEPT ![c] = <<>>] ELSE errors
    /\ coolUntil' = IF CooldownOn THEN [coolUntil EXCEPT ![c] = 0] ELSE coolUntil
    /\ streak' = [streak EXCEPT ![c] = 0]
    /\ Leave(q)

\* Client c answers: record_success clears its errors, the query returns Ok.
Answered(q, c) ==
    /\ pc[q] = "waiting"
    /\ c \in racing[q]
    /\ errors' = IF CooldownOn THEN [errors EXCEPT ![c] = <<>>] ELSE errors
    /\ streak' = [streak EXCEPT ![c] = 0]
    /\ Leave(q)
    /\ UNCHANGED coolUntil

\* Client c fails: the stamp of the failure is read, the breaker not yet locked.
Failed(q, c) ==
    /\ pc[q] = "waiting"
    /\ c \in racing[q]
    /\ pc' = [pc EXCEPT ![q] = "recording"]
    /\ racing' = [racing EXCEPT ![q] = @ \ {c}]
    /\ rec' = [rec EXCEPT ![q] = c]
    /\ stamp' = [stamp EXCEPT ![q] = now]
    /\ UNCHANGED <<mode, now, breakers, rr, start, order, pos, firstErr,
                   tried, cooled, barred>>

\* record_failure under the lock: evict old errors from the front, append this
\* one, trip the breaker at the threshold.
RecordFailure(c, t) ==
    \E k \in 0 .. Len(errors[c]) :
        /\ \A j \in 1 .. k : t - errors[c][j] > Window
        /\ k < Len(errors[c]) => t - errors[c][k + 1] <= Window
        /\ LET recent == Append(SubSeq(errors[c], k + 1, Len(errors[c])), t)
               trips == Len(recent) >= Threshold
           IN /\ errors' = [errors EXCEPT ![c] = recent]
              /\ IF trips
                 THEN coolUntil' = [coolUntil EXCEPT ![c] = t + Cooldown] /\ NoteTrip(c, t)
                 ELSE UNCHANGED <<coolUntil, cooled, barred>>
        /\ streak' = [streak EXCEPT ![c] = IF @ < Threshold THEN @ + 1 ELSE @]

\* Record the failure; go on with the next client, or with the race if it still
\* has runners.
Record(q) ==
    /\ pc[q] = "recording"
    /\ IF CooldownOn THEN RecordFailure(rec[q], stamp[q]) ELSE UNCHANGED <<breakers, cooled, barred>>
    /\ firstErr' = [firstErr EXCEPT ![q] = IF @ = None THEN rec[q] ELSE @]
    /\ rec' = [rec EXCEPT ![q] = None]
    /\ stamp' = [stamp EXCEPT ![q] = 0]
    /\ pc' = [pc EXCEPT ![q] = IF racing[q] = {} THEN "choosing" ELSE "waiting"]
    /\ UNCHANGED <<mode, now, rr, start, order, pos, racing, tried>>

\* The caller drops the query while it waits (a closed DoH request).
Abandon(q) ==
    /\ pc[q] = "waiting"
    /\ Leave(q)
    /\ UNCHANGED breakers

Tick ==
    /\ now < MaxTime
    /\ now' = now + 1
    /\ UNCHANGED <<mode, breakers, rr, slots>>

Run(q) ==
    \/ Skip(q)
    \/ Pick(q)
    \/ Ask(q)
    \/ Race(q)
    \/ Exhausted(q)
    \/ ReturnError(q)
    \/ \E c \in Clients : Answered(q, c) \/ Failed(q, c)
    \/ Record(q)

Next ==
    \/ \E q \in Queries :
        BeginSerial(q) \/ BeginRandom(q) \/ BeginRoundRobin(q) \/ Run(q) \/ Abandon(q)
    \/ Tick

Spec == Init /\ [][Next]_vars

\* A query that runs is scheduled, and its clients answer or time out.
FairSpec == Spec /\ \A q \in Queries : WF_vars(Run(q))

-----------------------------------------------------------------------------
(* Type invariant *)

\* Variables keep their types; a slot in "recording" knows whose failure it is.
TypeOK ==
    /\ mode \in Modes
    /\ now \in Time
    /\ errors \in [Clients -> Seq(Time)]
    /\ coolUntil \in [Clients -> 0 .. MaxTime + Cooldown]
    /\ streak \in [Clients -> 0 .. Threshold]
    /\ rr \in 0 .. (IF N = 0 THEN 0 ELSE N - 1)
    /\ pc \in [Queries -> PCs]
    /\ start \in [Queries -> Time]
    /\ order \in [Queries -> [Clients -> Clients]]
    /\ pos \in [Queries -> 1 .. N + 1]
    /\ racing \in [Queries -> SUBSET Clients]
    /\ rec \in [Queries -> Clients \cup {None}]
    /\ stamp \in [Queries -> Time]
    /\ firstErr \in [Queries -> Clients \cup {None}]
    /\ tried \in [Queries -> SUBSET Clients]
    /\ cooled \in [Queries -> SUBSET Clients]
    /\ barred \in [Queries -> SUBSET Clients]
    /\ \A q \in Queries : pc[q] = "recording" <=> rec[q] # None

(* Safety *)

\* "If every client is in cooldown, a NotConnected error is returned"
\* (mod.rs:58-59), and otherwise the fallback reaches every client: a query
\* fails only after each client was asked, or was in cooldown at some moment of
\* this query.  NotConnected (no error kept) means none was asked.
FailsAfterAll ==
    \A q \in Queries :
        pc[q] = "failed" =>
            /\ tried[q] \cup cooled[q] = Clients
            /\ firstErr[q] = None <=> tried[q] = {}

\* "skips the client for `cooldown`" (mod.rs:58), as a query's one clock lets it:
\* a query does not turn to a client that was cooling when the query began, or
\* that tripped since on a failure seen during the query and before its turn
\* came, whatever is answered or fails meanwhile and however long the query
\* waits for others.  Only a failure recorded out of order, which sets an
\* earlier end to the cooldown, makes the client free again.
CoolingSitOut ==
    \A q \in Queries : barred[q] \cap (racing[q] \cup tried[q]) = {}

(* Action properties *)

\* "trips after `threshold` transport errors within `window`" (mod.rs:57): a
\* breaker is (re)armed only by a client that failed at least threshold times
\* since it last answered; and when the failures were recorded in the order of
\* their stamps, all of them lie within the window.
Ascending(s) == \A i, j \in DOMAIN s : i < j => s[i] <= s[j]

EarnedTrip ==
    \A c \in Clients :
        coolUntil'[c] # coolUntil[c] =>
            /\ streak'[c] = Threshold
            /\ Ascending(errors'[c]) =>
                \A i \in DOMAIN errors'[c] :
                    errors'[c][Len(errors'[c])] - errors'[c][i] <= Window

TripsAreEarned == [][EarnedTrip]_vars

(* Liveness *)

\* Every query returns: the order is finite and each client is asked once.
QueryReturns == \A q \in Queries : pc[q] # "idle" ~> pc[q] = "idle"

(* What the comments say, and the code does not do *)

\* "Returns the last error if all clients fail" (mod.rs:46-47, 49):
\* the error kept for the caller is that of the failure recorded last.
ReturnsLastError ==
    [][\A q \in Queries :
        pc[q] = "recording" /\ pc'[q] # "recording" => firstErr'[q] = rec[q]]_vars

\* Fallback modes "skip clients currently in cooldown" (mod.rs:55-56): what is
\* skipped is in cooldown at that moment.
SkipsOnlyCooling ==
    [][\A q \in Queries :
        pc[q] = "choosing" /\ pc'[q] = "choosing" /\ pos'[q] # pos[q] /\ racing'[q] = racing[q]
            => InCooldown(order[q][pos[q]], now)]_vars

=============================================================================
