------------------------------- MODULE ConnPool -------------------------------
(***************************************************************************)
(* The idle-connection pool of one upstream server                        *)
(* (src/src/upstream/pool.rs) as its users drive it: UpstreamClient::query *)
(* (src/src/upstream/mod.rs) checks a connection out, sends, and reports   *)
(* the outcome, or is dropped in the middle of an await.                   *)
(*                                                                         *)
(* A query slot q in Queries runs one query after another.  Each action is *)
(* the code between two points where another thread can run: a mutex       *)
(* section, an atomic increment, or the code that follows an await.        *)
(*                                                                         *)
(* Time is relative: a cached connection carries its age, the elapsed time *)
(* since last_used, counted up to the first age that is expired.           *)
(***************************************************************************)
EXTENDS Integers, Sequences, FiniteSets

CONSTANTS
    Queries,       \* query slots that use this pool concurrently
    Conns,         \* identities of exchanges; one is free again once dropped
    NAddr,         \* number of resolved upstream addresses (may be 0)
    IdleTimeout,   \* PoolConfig::idle_timeout, in ticks
    NoConn,        \* "this slot holds no connection"
    Peers          \* what other pools with this pool's labels may publish ({}: no such pool)

ASSUME NAddrAssumption == NAddr \in Nat
ASSUME IdleTimeoutAssumption == IdleTimeout \in Nat
ASSUME NoConnAssumption == NoConn \notin Conns
ASSUME QueriesAssumption == IsFiniteSet(Queries)
ASSUME PeersAssumption == Peers \subseteq Nat

Addrs == 0 .. NAddr - 1

\* A connection is built in at most max(len(addresses), 1) attempts.
MaxAttempts == IF NAddr = 0 THEN 1 ELSE NAddr

\* Ages beyond the first expired one are not told apart.
AgeCap == IdleTimeout + 1

Entry == [conn : Conns, age : 0 .. AgeCap]

VARIABLES
    cache,     \* idle connections, most recently used first
    cursor,    \* round-robin cursor, already reduced modulo NAddr
    identity,  \* the name of the pool's group, or none before set_pool_identity
    gauge,     \* rsdns_upstream_pool_connections for that name and this protocol
    publisher, \* history: who was the last to publish in gauge
    pc,        \* where each query slot is
    held,      \* the connection in the slot's CheckoutGuard
    attempts,  \* connection attempts of the running checkout
    failed,    \* history: connections a query failed on, until the identity is reused
    tried,     \* history: addresses the running checkout has tried
    solo       \* history: no other slot advanced the cursor during this checkout

vars == <<cache, cursor, identity, gauge, publisher, pc, held, attempts, failed, tried, solo>>

PCs == {"idle", "building", "dialing", "sending", "reporting"}

Cached == {cache[i].conn : i \in 1 .. Len(cache)}
Held == {held[q] : q \in Queries} \ {NoConn}
Live == Cached \cup Held

Expired(e) == e.age > IdleTimeout

Older(e) == [conn |-> e.conn, age |-> IF e.age < AgeCap THEN e.age + 1 ELSE e.age]

Creating(q) == pc[q] \in {"building", "dialing"}

InUse == {q \in Queries : pc[q] \notin {"idle", "reporting"}}

-----------------------------------------------------------------------------
(* Mutations: bugs this code could have.  None is used by the specification; *)
(* each replaces the action it is named after when a property is tested.     *)

\* record_failure releases like record_success.
MutSendFailed_Released(q) ==
    /\ pc[q] = "sending"
    /\ failed' = failed \cup {held[q]}
    /\ cache' = <<[conn |-> held[q], age |-> 0]>> \o cache
    /\ held' = [held EXCEPT ![q] = NoConn]
    /\ pc' = [pc EXCEPT ![q] = "reporting"]
    /\ UNCHANGED <<cursor, identity, gauge, publisher, attempts, tried, solo>>

\* front() instead of pop_front(): the connection also stays in the cache.
MutCheckoutCached_Peek(q) ==
    /\ pc[q] = "idle"
    /\ \E k \in 1 .. Len(cache) :
        /\ ~Expired(cache[k])
        /\ \A j \in 1 .. k - 1 : Expired(cache[j])
        /\ held' = [held EXCEPT ![q] = cache[k].conn]
        /\ cache' = SubSeq(cache, k, Len(cache))
    /\ pc' = [pc EXCEPT ![q] = "sending"]
    /\ UNCHANGED <<cursor, identity, gauge, publisher, attempts, failed, tried, solo>>

\* The expiry of the popped connection is not tested.
MutCheckoutCached_NoExpiry(q) ==
    /\ pc[q] = "idle"
    /\ cache # <<>>
    /\ held' = [held EXCEPT ![q] = cache[1].conn]
    /\ cache' = Tail(cache)
    /\ pc' = [pc EXCEPT ![q] = "sending"]
    /\ UNCHANGED <<cursor, identity, gauge, publisher, attempts, failed, tried, solo>>

\* Expired connections are skipped, not dropped.
MutCheckoutEmpty_Skip(q) ==
    /\ pc[q] = "idle"
    /\ \A i \in 1 .. Len(cache) : Expired(cache[i])
    /\ pc' = [pc EXCEPT ![q] = "building"]
    /\ UNCHANGED <<cache, cursor, identity, gauge, publisher, held, attempts, failed, tried, solo>>

\* The cursor is read and not advanced.
MutNextAddr_NoAdvance(q) ==
    /\ pc[q] = "building"
    /\ NAddr > 0
    /\ attempts[q] < MaxAttempts
    /\ attempts' = [attempts EXCEPT ![q] = @ + 1]
    /\ tried' = [tried EXCEPT ![q] = @ \cup {cursor}]
    /\ pc' = [pc EXCEPT ![q] = "dialing"]
    /\ UNCHANGED <<cache, cursor, identity, gauge, publisher, held, failed, solo>>

\* `loop` instead of the bounded `for`.
MutNextAddr_Unbounded(q) ==
    /\ pc[q] = "building"
    /\ NAddr > 0
    /\ cursor' = (cursor + 1) % NAddr
    /\ pc' = [pc EXCEPT ![q] = "dialing"]
    /\ UNCHANGED <<cache, identity, gauge, publisher, held, attempts, failed, tried, solo>>

\* release returns without updating the gauge.
MutPushFront_NoGauge(q) ==
    /\ cache' = <<[conn |-> held[q], age |-> 0]>> \o cache
    /\ held' = [held EXCEPT ![q] = NoConn]
    /\ pc' = [pc EXCEPT ![q] = "idle"]
    /\ UNCHANGED <<cursor, identity, gauge, publisher, attempts, failed, tried, solo>>

-----------------------------------------------------------------------------

Init ==
    /\ cache = <<>>
    /\ cursor = 0
    /\ identity = "none"
    /\ gauge = 0
    /\ publisher = "none"
    /\ pc = [q \in Queries |-> "idle"]
    /\ held = [q \in Queries |-> NoConn]
    /\ attempts = [q \in Queries |-> 0]
    /\ failed = {}
    /\ tried = [q \in Queries |-> {}]
    /\ solo = [q \in Queries |-> TRUE]

\* checkout, mutex section: pop entries until one is not expired, and take it.
CheckoutCached(q) ==
    /\ pc[q] = "idle"
    /\ \E k \in 1 .. Len(cache) :
        /\ ~Expired(cache[k])
        /\ \A j \in 1 .. k - 1 : Expired(cache[j])
        /\ held' = [held EXCEPT ![q] = cache[k].conn]
        /\ cache' = SubSeq(cache, k + 1, Len(cache))
    /\ pc' = [pc EXCEPT ![q] = "sending"]
    /\ UNCHANGED <<cursor, identity, gauge, publisher, attempts, failed, tried, solo>>

\* checkout, mutex section: nothing usable, the pops emptied the cache.
CheckoutEmpty(q) ==
    /\ pc[q] = "idle"
    /\ \A i \in 1 .. Len(cache) : Expired(cache[i])
    /\ cache' = <<>>
    /\ pc' = [pc EXCEPT ![q] = "building"]
    /\ UNCHANGED <<cursor, identity, gauge, publisher, held, attempts, failed, tried, solo>>

\* One turn of the attempt loop up to the await: next_addr advances the cursor
\* shared by all checkouts of the pool.
NextAddr(q) ==
    /\ pc[q] = "building"
    /\ NAddr > 0
    /\ attempts[q] < MaxAttempts
    /\ attempts' = [attempts EXCEPT ![q] = @ + 1]
    /\ tried' = [tried EXCEPT ![q] = @ \cup {cursor}]
    /\ cursor' = IF cursor + 1 = NAddr THEN 0 ELSE cursor + 1
    /\ solo' = [r \in Queries |-> IF r = q THEN solo[q] ELSE ~Creating(r)]
    /\ pc' = [pc EXCEPT ![q] = "dialing"]
    /\ UNCHANGED <<cache, identity, gauge, publisher, held, failed>>

\* The loop counter and the histories end with the checkout.
EndCheckout(q) ==
    /\ attempts' = [attempts EXCEPT ![q] = 0]
    /\ tried' = [tried EXCEPT ![q] = {}]
    /\ solo' = [solo EXCEPT ![q] = TRUE]

\* build_exchange succeeds: the guard owns a connection nobody else knows.
Connected(q) ==
    /\ pc[q] = "dialing"
    /\ \E c \in Conns \ Live :
        /\ held' = [held EXCEPT ![q] = c]
        /\ failed' = failed \ {c}
    /\ pc' = [pc EXCEPT ![q] = "sending"]
    /\ EndCheckout(q)
    /\ UNCHANGED <<cache, cursor, identity, gauge, publisher>>

\* build_exchange fails or exceeds connect_timeout: try the next address.
ConnectFailed(q) ==
    /\ pc[q] = "dialing"
    /\ pc' = [pc EXCEPT ![q] = "building"]
    /\ UNCHANGED <<cache, cursor, identity, gauge, publisher, held, attempts, failed, tried, solo>>

\* No address, or attempts used up: checkout returns None and query NotConnected.
GiveUp(q) ==
    /\ pc[q] = "building"
    /\ NAddr = 0 \/ attempts[q] = MaxAttempts
    /\ pc' = [pc EXCEPT ![q] = "idle"]
    /\ EndCheckout(q)
    /\ UNCHANGED <<cache, cursor, identity, gauge, publisher, held, failed>>

\* release(sender, true): the connection goes to the front of the cache.
PushFront(q) ==
    /\ cache' = <<[conn |-> held[q], age |-> 0]>> \o cache
    /\ held' = [held EXCEPT ![q] = NoConn]
    /\ pc' = [pc EXCEPT ![q] = "reporting"]
    /\ UNCHANGED <<cursor, identity, gauge, publisher, attempts, failed, tried, solo>>

\* The answer arrives within dns_timeout: record_success.
Answered(q) ==
    /\ pc[q] = "sending"
    /\ PushFront(q)

\* The exchange reports an error (a closed connection does at once) or dns_timeout
\* fires: record_failure, and release drops the connection.
SendFailed(q) ==
    /\ pc[q] = "sending"
    /\ failed' = failed \cup {held[q]}
    /\ held' = [held EXCEPT ![q] = NoConn]
    /\ pc' = [pc EXCEPT ![q] = "idle"]
    /\ UNCHANGED <<cache, cursor, identity, gauge, publisher, attempts, tried, solo>>

\* The query future is dropped while it waits for the answer (a parallel race
\* was won by another client): the guard's Drop reports success.
CancelSend(q) ==
    /\ pc[q] = "sending"
    /\ PushFront(q)

\* The query future is dropped while it waits for a connection.
CancelDial(q) ==
    /\ pc[q] = "dialing"
    /\ pc' = [pc EXCEPT ![q] = "idle"]
    /\ EndCheckout(q)
    /\ UNCHANGED <<cache, cursor, identity, gauge, publisher, held, failed>>

\* release, after the mutex is dropped: lock again and publish the idle count, if
\* the pool knows its labels.
UpdateGauge(q) ==
    /\ pc[q] = "reporting"
    /\ IF identity # "none" THEN gauge' = Len(cache) /\ publisher' = "pool"
                            ELSE UNCHANGED <<gauge, publisher>>
    /\ pc' = [pc EXCEPT ![q] = "idle"]
    /\ UNCHANGED <<cache, cursor, identity, held, attempts, failed, tried, solo>>

\* The groups are assembled, and the bootstrap queries that used the pool before
\* are over: the pool gets the name of its group and publishes its count.
SetPoolIdentity ==
    /\ identity = "none"
    /\ \A q \in Queries : pc[q] = "idle"
    /\ identity' = "group"
    /\ gauge' = Len(cache)
    /\ publisher' = "pool"
    /\ UNCHANGED <<cache, cursor, pc, held, attempts, failed, tried, solo>>

\* The labels are the group's name and the protocol: a pool of another server of
\* the group with the same protocol publishes its count in the same place.
PeerPublishes ==
    /\ gauge' \in Peers
    /\ publisher' = "peer"
    /\ UNCHANGED <<cache, cursor, identity, pc, held, attempts, failed, tried, solo>>

\* Time passes for the idle connections.
Tick ==
    /\ cache # <<>>
    /\ cache' = [i \in 1 .. Len(cache) |-> Older(cache[i])]
    /\ UNCHANGED <<cursor, identity, gauge, publisher, pc, held, attempts, failed, tried, solo>>

Progress(q) ==
    \/ CheckoutCached(q)
    \/ CheckoutEmpty(q)
    \/ NextAddr(q)
    \/ Connected(q)
    \/ ConnectFailed(q)
    \/ GiveUp(q)
    \/ Answered(q)
    \/ SendFailed(q)
    \/ UpdateGauge(q)

Next ==
    \/ \E q \in Queries : Progress(q) \/ CancelSend(q) \/ CancelDial(q)
    \/ SetPoolIdentity
    \/ PeerPublishes
    \/ Tick

Spec == Init /\ [][Next]_vars

\* A task that was started runs on: connect_timeout and dns_timeout bound its
\* awaits, and no lock is held across one.
Finish(q) == pc[q] # "idle" /\ Progress(q)

FairSpec == Spec /\ \A q \in Queries : WF_vars(Finish(q))

-----------------------------------------------------------------------------
(* Type invariant *)

\* Every variable keeps its type, and a slot holds a connection exactly while it
\* is sending (CheckoutGuard::sender, "sender already returned").
TypeOK ==
    /\ cache \in Seq(Entry)
    /\ cursor \in 0 .. (IF NAddr = 0 THEN 0 ELSE NAddr - 1)
    /\ identity \in {"none", "group"}
    /\ gauge \in Nat
    /\ publisher \in {"none", "pool", "peer"}
    /\ pc \in [Queries -> PCs]
    /\ held \in [Queries -> Conns \cup {NoConn}]
    /\ attempts \in [Queries -> 0 .. MaxAttempts]
    /\ failed \in SUBSET Conns
    /\ tried \in [Queries -> SUBSET Addrs]
    /\ solo \in [Queries -> BOOLEAN]
    /\ \A q \in Queries : held[q] # NoConn <=> pc[q] = "sending"

(* Safety *)

\* The pool hands a connection to one query at a time: no exchange is in the
\* cache twice, in two guards, or in a guard and in the cache (CheckoutGuard's
\* `reported` flag and the pop under the mutex).
Exclusive ==
    /\ \A i, j \in 1 .. Len(cache) : cache[i].conn = cache[j].conn => i = j
    /\ \A q, r \in Queries : held[q] = held[r] /\ held[q] # NoConn => q = r
    /\ Cached \cap Held = {}

\* "a failed query is never returned to the cache" (pool.rs:11): whatever the
\* cancellations and reconnections around it, an exchange on which a query
\* failed is neither idle nor in use again.
FailedStaysOut == failed \cap Live = {}

\* "Idle connections, most-recently-used first" (pool.rs:110): ages do not
\* decrease along the cache, however releases interleave with checkouts.
MostRecentFirst ==
    \A i, j \in 1 .. Len(cache) : i < j => cache[i].age <= cache[j].age

\* The pool has no capacity limit; what bounds it is that a connection is only
\* built when the cache is empty.  Idle connections plus queries in progress
\* never exceed the number of queries that were ever in progress together.
BoundedByConcurrency ==
    Len(cache) + Cardinality(InUse) <= Cardinality(Queries)

\* A lone checkout (nobody else moved the shared cursor meanwhile) gives up only
\* after trying every address.
LoneCheckoutTriesAll ==
    \A q \in Queries :
        pc[q] = "building" /\ solo[q] /\ attempts[q] = MaxAttempts => tried[q] = Addrs

\* "Idle connections per upstream pool" (pool.rs:144): from the moment a pool has a
\* name, unless a release is between its push and its publication or another pool
\* has published under the same labels since, the count is not below the
\* connections this pool has, however releases overtake each other.
GaugeNeverLow ==
    /\ identity # "none" /\ publisher # "peer"
    /\ \A q \in Queries : pc[q] # "reporting"
    => gauge >= Len(cache)

(* Action properties *)

\* A checkout from the cache takes the freshest idle connection, never an
\* expired one (pool.rs:225).
FreshCheckout ==
    \A q \in Queries :
        pc[q] = "idle" /\ pc'[q] = "sending" =>
            \E i \in 1 .. Len(cache) :
                /\ cache[i].conn = held'[q]
                /\ cache[i].age <= IdleTimeout
                /\ \A j \in 1 .. Len(cache) : cache[i].age <= cache[j].age

TakesFreshest == [][FreshCheckout]_vars

(* Refinement *)

\* The leases the pool keeps: its idle queue as a set, its guards as lessees.
Leases == INSTANCE ConnLease WITH
              idle <- Cached, lessee <- held, broken <- failed

\* Popping, dialling, releasing and dropping guards, in any interleaving, is
\* leasing: a connection goes to one query at a time, comes back only from the
\* query that has it, and never comes back once a query failed on it
\* ("a failed query is never returned to the cache", pool.rs:11).
ImplementsLease == Leases!Spec

(* Liveness *)

\* Every query that entered the pool leaves it: with an answer, an error or
\* NotConnected (the attempt loop and both timeouts bound it).
QueryEnds == \A q \in Queries : pc[q] # "idle" ~> pc[q] = "idle"

(* What the comments say, and the code does not do *)

\* "Returns `None` only when no address is available or all addresses fail to
\* connect" (pool.rs:227-228).
NoneOnlyIfAllFail ==
    \A q \in Queries :
        pc[q] = "building" /\ attempts[q] = MaxAttempts => tried[q] = Addrs

\* "Connections unused longer than this are dropped on next checkout"
\* (pool.rs:41): no expired entry is left after a checkout.
ExpiredDroppedOnCheckout ==
    [][\A q \in Queries :
        pc[q] = "idle" /\ pc'[q] # "idle" =>
            \A i \in 1 .. Len(cache') : ~Expired(cache'[i])]_vars

\* "Idle connections per upstream pool" (pool.rs:144): outside the update of a
\* release, the gauge is the number of idle connections.  A checkout leaves it too
\* high, and a pool with the same labels leaves its own count in it.
GaugeIsIdleCount ==
    identity # "none" /\ (\A q \in Queries : pc[q] # "reporting") => gauge = Len(cache)

=============================================================================
