------------------------------ MODULE ConnLease ------------------------------
(***************************************************************************)
(* What the connection pool promises to its users, without its queue, its  *)
(* mutex, its address cursor or its clock: a connection is idle, or leased *)
(* to one query, or gone.  A lease ends by giving the connection back or   *)
(* by breaking it, and a broken connection is never leased again.  The     *)
(* pool may forget idle connections whenever it likes.                     *)
(***************************************************************************)
CONSTANTS Queries, Conns, NoConn

VARIABLES
    idle,      \* connections the pool keeps
    lessee,    \* what each query holds
    broken     \* connections a query gave up on

leaseVars == <<idle, lessee, broken>>

Leased == {lessee[q] : q \in Queries} \ {NoConn}

-----------------------------------------------------------------------------

Init ==
    /\ idle = {}
    /\ lessee = [q \in Queries |-> NoConn]
    /\ broken = {}

\* A query without a connection gets an idle one; the pool may clean up first.
Lease(q) ==
    /\ lessee[q] = NoConn
    /\ \E c \in idle \ broken :
        /\ lessee' = [lessee EXCEPT ![q] = c]
        /\ idle' \in SUBSET (idle \ {c})
    /\ UNCHANGED broken

\* ... or a new one, which nobody has and whose past does not count.
Dial(q) ==
    /\ lessee[q] = NoConn
    /\ \E c \in Conns \ (idle \cup Leased) :
        /\ lessee' = [lessee EXCEPT ![q] = c]
        /\ broken' = broken \ {c}
    /\ UNCHANGED idle

\* The query is done, or dropped: the connection may serve another one.
Return(q) ==
    /\ lessee[q] \notin broken \cup idle \cup {NoConn}
    /\ idle' = idle \cup {lessee[q]}
    /\ lessee' = [lessee EXCEPT ![q] = NoConn]
    /\ UNCHANGED broken

\* The query failed: the connection is gone for good.
Break(q) ==
    /\ lessee[q] # NoConn
    /\ broken' = broken \cup {lessee[q]}
    /\ lessee' = [lessee EXCEPT ![q] = NoConn]
    /\ UNCHANGED idle

Forget ==
    /\ idle' \in SUBSET idle
    /\ UNCHANGED <<lessee, broken>>

Next ==
    \/ \E q \in Queries : Lease(q) \/ Dial(q) \/ Return(q) \/ Break(q)
    \/ Forget

Spec == Init /\ [][Next]_leaseVars
=============================================================================
