--------------------------- MODULE ConnPool_proofs ---------------------------
(* Proofs about ConnPool, for every set of slots, connections and addresses. *)
EXTENDS ConnPool, SequenceTheorems, FiniteSetTheorems, TLAPS

\* What is left of the cache after the pops of a checkout is a sequence of the
\* old entries, shifted.
LEMMA SuffixProps ==
    ASSUME NEW S, NEW s \in Seq(S), NEW k \in 1 .. Len(s)
    PROVE  LET t == SubSeq(s, k + 1, Len(s)) IN
           /\ t \in Seq(S)
           /\ Len(t) = Len(s) - k
           /\ \A i \in 1 .. Len(t) : i + k \in 1 .. Len(s) /\ t[i] = s[i + k]
<1>1. k + 1 \in 1 .. Len(s) + 1 /\ Len(s) \in Nat
  OBVIOUS
<1> QED  BY <1>1

\* Putting an entry in front of the cache.
LEMMA PushProps ==
    ASSUME NEW S, NEW s \in Seq(S), NEW e \in S
    PROVE  LET t == <<e>> \o s IN
           /\ t \in Seq(S)
           /\ Len(t) = Len(s) + 1
           /\ t[1] = e
           /\ \A i \in 2 .. Len(t) : i - 1 \in 1 .. Len(s) /\ t[i] = s[i - 1]
OBVIOUS

\* Growing older keeps the entries and their order.
LEMMA TickProps ==
    ASSUME NEW s \in Seq(Entry)
    PROVE  LET t == [i \in 1 .. Len(s) |-> Older(s[i])] IN
           /\ t \in Seq(Entry)
           /\ Len(t) = Len(s)
           /\ \A i \in 1 .. Len(s) :
                /\ t[i].conn = s[i].conn
                /\ t[i].age = IF s[i].age < AgeCap THEN s[i].age + 1 ELSE s[i].age
<1>1. ASSUME NEW e \in Entry
      PROVE  /\ Older(e) \in Entry
             /\ Older(e).conn = e.conn
             /\ Older(e).age = IF e.age < AgeCap THEN e.age + 1 ELSE e.age
  BY IdleTimeoutAssumption DEF Entry, AgeCap, Older
<1>2. \A i \in 1 .. Len(s) : s[i] \in Entry
  OBVIOUS
<1>3. [i \in 1 .. Len(s) |-> Older(s[i])] \in Seq(Entry)
  BY <1>1, <1>2
<1>4. Len([i \in 1 .. Len(s) |-> Older(s[i])]) = Len(s)
  OBVIOUS
<1> QED  BY <1>1, <1>2, <1>3, <1>4

\* The fields of the entries of a typed cache.
LEMMA EntryFields ==
    ASSUME TypeOK, NEW i \in 1 .. Len(cache)
    PROVE  cache[i].conn \in Conns /\ cache[i].age \in 0 .. AgeCap
<1>1. cache[i] \in Entry
  BY DEF TypeOK
<1> QED  BY <1>1 DEF Entry

-----------------------------------------------------------------------------
(* Type correctness *)

LEMMA PushTyped ==
    ASSUME TypeOK, NEW q \in Queries, pc[q] = "sending", PushFront(q)
    PROVE  TypeOK'
<1>1. held[q] \in Conns
  BY DEF TypeOK
<1>2. [conn |-> held[q], age |-> 0] \in Entry
  BY <1>1, IdleTimeoutAssumption DEF Entry, AgeCap
<1>3. cache' \in Seq(Entry)
  BY <1>2, PushProps DEF TypeOK, PushFront
<1> QED
  BY <1>3, NoConnAssumption DEF TypeOK, PushFront, PCs

THEOREM TypeCorrect == Spec => []TypeOK
<1>1. Init => TypeOK
  BY NAddrAssumption DEF Init, TypeOK, PCs, MaxAttempts
<1>2. TypeOK /\ [Next]_vars => TypeOK'
  <2> SUFFICES ASSUME TypeOK, [Next]_vars
               PROVE  TypeOK'
    OBVIOUS
  <2>1. ASSUME NEW q \in Queries, CheckoutCached(q)
        PROVE  TypeOK'
    <3>1. PICK k \in 1 .. Len(cache) :
                /\ held' = [held EXCEPT ![q] = cache[k].conn]
                /\ cache' = SubSeq(cache, k + 1, Len(cache))
      BY <2>1 DEF CheckoutCached
    <3>2. cache' \in Seq(Entry)
      BY <3>1, SuffixProps DEF TypeOK
    <3>3. cache[k].conn \in Conns
      BY EntryFields
    <3> QED  BY <2>1, <3>1, <3>2, <3>3, NoConnAssumption DEF TypeOK, CheckoutCached, PCs
  <2>2. ASSUME NEW q \in Queries, CheckoutEmpty(q)
        PROVE  TypeOK'
    BY <2>2 DEF TypeOK, CheckoutEmpty, PCs
  <2>3. ASSUME NEW q \in Queries, NextAddr(q)
        PROVE  TypeOK'
    <3>1. cursor \in Addrs /\ cursor' \in 0 .. NAddr - 1
      BY <2>3, NAddrAssumption DEF TypeOK, NextAddr, Addrs
    <3>2. tried' \in [Queries -> SUBSET Addrs]
      BY <2>3, <3>1 DEF TypeOK, NextAddr
    <3>3. attempts' \in [Queries -> 0 .. MaxAttempts]
      BY <2>3, NAddrAssumption DEF TypeOK, NextAddr, MaxAttempts
    <3>4. solo' \in [Queries -> BOOLEAN]
      BY <2>3, Zenon DEF TypeOK, NextAddr, Creating
    <3> QED
      BY <2>3, <3>1, <3>2, <3>3, <3>4 DEF TypeOK, NextAddr, PCs
  <2>4. ASSUME NEW q \in Queries, Connected(q)
        PROVE  TypeOK'
    BY <2>4, NAddrAssumption, NoConnAssumption
       DEF TypeOK, Connected, EndCheckout, PCs, MaxAttempts
  <2>5. ASSUME NEW q \in Queries, ConnectFailed(q)
        PROVE  TypeOK'
    BY <2>5 DEF TypeOK, ConnectFailed, PCs
  <2>6. ASSUME NEW q \in Queries, GiveUp(q)
        PROVE  TypeOK'
    BY <2>6, NAddrAssumption DEF TypeOK, GiveUp, EndCheckout, PCs, MaxAttempts
  <2>7. ASSUME NEW q \in Queries, Answered(q) \/ CancelSend(q)
        PROVE  TypeOK'
    BY <2>7, PushTyped DEF Answered, CancelSend
  <2>8. ASSUME NEW q \in Queries, SendFailed(q)
        PROVE  TypeOK'
    BY <2>8 DEF TypeOK, SendFailed, PCs
  <2>9. ASSUME NEW q \in Queries, CancelDial(q)
        PROVE  TypeOK'
    BY <2>9, NAddrAssumption DEF TypeOK, CancelDial, EndCheckout, PCs, MaxAttempts
  <2>10. ASSUME NEW q \in Queries, UpdateGauge(q)
         PROVE  TypeOK'
    BY <2>10 DEF TypeOK, UpdateGauge, PCs
  <2>11. CASE Tick
    BY <2>11, TickProps DEF TypeOK, Tick
  <2>12. CASE SetPoolIdentity \/ PeerPublishes
    <3>1. gauge' \in Nat
      <4>1. Len(cache) \in Nat
        BY DEF TypeOK
      <4> QED  BY <2>12, <4>1, PeersAssumption DEF SetPoolIdentity, PeerPublishes
    <3>2. UNCHANGED <<cache, cursor, pc, held, attempts, failed, tried, solo>>
      BY <2>12 DEF SetPoolIdentity, PeerPublishes
    <3>3. identity' \in {"none", "group"}
      BY <2>12 DEF SetPoolIdentity, PeerPublishes, TypeOK
    <3>4. publisher' \in {"pool", "peer"}
      BY <2>12 DEF SetPoolIdentity, PeerPublishes
    <3> QED  BY <3>1, <3>2, <3>3, <3>4 DEF TypeOK
  <2>13. CASE UNCHANGED vars
    BY <2>13 DEF TypeOK, vars
  <2> QED
    BY <2>1, <2>2, <2>3, <2>4, <2>5, <2>6, <2>7, <2>8, <2>9, <2>10, <2>11, <2>12,
       <2>13 DEF Next, Progress
<1> QED  BY <1>1, <1>2, PTL DEF Spec

-----------------------------------------------------------------------------
(* A connection has at most one user, and a failed one has none *)

IInv == TypeOK /\ Exclusive /\ FailedStaysOut

\* The connections in the cache after a step that keeps a suffix of it.
LEMMA PushKeepsIInv ==
    ASSUME IInv, NEW q \in Queries, pc[q] = "sending", PushFront(q)
    PROVE  (Exclusive /\ FailedStaysOut)'
<1> DEFINE h == held[q]
<1>1. h \in Held /\ h # NoConn /\ h \in Conns
  BY DEF IInv, TypeOK, Held
<1>2. [conn |-> h, age |-> 0] \in Entry
  BY <1>1, IdleTimeoutAssumption DEF Entry, AgeCap
<1>3. /\ Len(cache') = Len(cache) + 1
      /\ cache'[1].conn = h
      /\ \A i \in 2 .. Len(cache') : i - 1 \in 1 .. Len(cache) /\ cache'[i] = cache[i - 1]
      /\ Len(cache) \in Nat
  BY <1>2, PushProps DEF IInv, TypeOK, PushFront
<1>4. \A i \in 1 .. Len(cache) : cache[i].conn \in Cached /\ cache[i].conn # h
  BY <1>1 DEF IInv, Exclusive, Cached
<1>5. /\ held' \in [Queries -> Conns \cup {NoConn}]
      /\ \A r \in Queries : held'[r] = IF r = q THEN NoConn ELSE held[r]
  BY DEF IInv, TypeOK, PushFront
<1>6. Cached' \subseteq Cached \cup {h}
  <2> SUFFICES ASSUME NEW i \in 1 .. Len(cache'), i # 1
               PROVE  cache'[i].conn \in Cached
    BY <1>3 DEF Cached
  <2>1. i \in 2 .. Len(cache')
    BY <1>3
  <2> QED  BY <2>1, <1>3, <1>4
<1>7. Held' \subseteq Held \ {h}
  BY <1>1, <1>5 DEF Held, IInv, Exclusive
<1>8. \A i, j \in 1 .. Len(cache') : cache'[i].conn = cache'[j].conn => i = j
  <2> SUFFICES ASSUME NEW i \in 1 .. Len(cache'), NEW j \in 1 .. Len(cache'),
                      cache'[i].conn = cache'[j].conn
               PROVE  i = j
    OBVIOUS
  <2>1. CASE i = 1 /\ j = 1
    BY <2>1
  <2>2. CASE i = 1 /\ j # 1
    BY <2>2, <1>3, <1>4
  <2>3. CASE i # 1 /\ j = 1
    BY <2>3, <1>3, <1>4
  <2>4. CASE i # 1 /\ j # 1
    <3>1. i \in 2 .. Len(cache') /\ j \in 2 .. Len(cache')
      BY <2>4, <1>3
    <3>2. cache[i - 1].conn = cache[j - 1].conn
      BY <3>1, <1>3
    <3>3. i - 1 = j - 1
      BY <3>1, <3>2, <1>3 DEF IInv, Exclusive
    <3> QED  BY <3>1, <3>3, <1>3
  <2> QED  BY <2>1, <2>2, <2>3, <2>4
<1>9. \A r, t \in Queries : held'[r] = held'[t] /\ held'[r] # NoConn => r = t
  BY <1>5 DEF IInv, Exclusive
<1>10. (Cached \cap Held = {})'
  BY <1>6, <1>7 DEF IInv, Exclusive
<1>11. FailedStaysOut'
  BY <1>1, <1>6, <1>7 DEF IInv, FailedStaysOut, Live, PushFront
<1> QED  BY <1>8, <1>9, <1>10, <1>11 DEF Exclusive

\* A slot that only gives its connection up, or keeps everything, is harmless.
LEMMA ShrinkKeepsIInv ==
    ASSUME IInv, UNCHANGED cache, Held' \subseteq Held,
           \A r, t \in Queries : held'[r] = held'[t] /\ held'[r] # NoConn => r = t,
           failed' \cap (Cached \cup Held') = {}
    PROVE  (Exclusive /\ FailedStaysOut)'
<1>1. Cached' = Cached
  BY DEF Cached
<1> QED  BY <1>1 DEF IInv, Exclusive, FailedStaysOut, Live

THEOREM ExclusiveInv == Spec => []IInv
<1>1. Init => IInv
  <2> SUFFICES ASSUME Init PROVE Exclusive /\ FailedStaysOut /\ TypeOK
    BY DEF IInv
  <2>1. TypeOK
    BY NAddrAssumption DEF Init, TypeOK, PCs, MaxAttempts
  <2> QED  BY <2>1 DEF Init, Exclusive, FailedStaysOut, Cached, Held, Live
<1>2. IInv /\ TypeOK' /\ [Next]_vars => IInv'
  <2> SUFFICES ASSUME IInv, TypeOK', [Next]_vars
               PROVE  (Exclusive /\ FailedStaysOut)'
    BY DEF IInv
  <2>1. ASSUME NEW q \in Queries, CheckoutCached(q)
        PROVE  (Exclusive /\ FailedStaysOut)'
    <3>1. PICK k \in 1 .. Len(cache) :
                /\ held' = [held EXCEPT ![q] = cache[k].conn]
                /\ cache' = SubSeq(cache, k + 1, Len(cache))
      BY <2>1 DEF CheckoutCached
    <3> DEFINE c == cache[k].conn
    <3>2. c \in Cached /\ c \notin Held /\ c # NoConn
      <4>1. c \in Cached
        BY DEF Cached
      <4>2. cache[k] \in Entry
        BY DEF IInv, TypeOK
      <4> QED  BY <4>1, <4>2, NoConnAssumption DEF IInv, Exclusive, Entry
    <3>3. /\ Len(cache') = Len(cache) - k
          /\ \A i \in 1 .. Len(cache') : i + k \in 1 .. Len(cache) /\ cache'[i] = cache[i + k]
          /\ Len(cache) \in Nat
      BY <3>1, SuffixProps DEF IInv, TypeOK
    <3>4. Cached' \subseteq Cached \ {c}
      <4> SUFFICES ASSUME NEW i \in 1 .. Len(cache')
                   PROVE  cache'[i].conn \in Cached /\ cache'[i].conn # c
        BY DEF Cached
      <4>1. i + k \in 1 .. Len(cache) /\ cache'[i] = cache[i + k] /\ i + k # k
        BY <3>3
      <4> QED  BY <4>1 DEF IInv, Exclusive, Cached
    <3>5. \A r \in Queries : held'[r] = IF r = q THEN c ELSE held[r]
      BY <3>1 DEF IInv, TypeOK
    <3>6. Held' \subseteq Held \cup {c}
      BY <3>5 DEF Held
    <3>7. \A r, t \in Queries : held'[r] = held'[t] /\ held'[r] # NoConn => r = t
      BY <3>2, <3>5 DEF IInv, Exclusive, Held
    <3>8. \A i, j \in 1 .. Len(cache') : cache'[i].conn = cache'[j].conn => i = j
      <4> SUFFICES ASSUME NEW i \in 1 .. Len(cache'), NEW j \in 1 .. Len(cache'),
                          cache'[i].conn = cache'[j].conn
                   PROVE  i = j
        OBVIOUS
      <4>1. i + k = j + k
        BY <3>3 DEF IInv, Exclusive
      <4> QED  BY <4>1, <3>3
    <3>9. failed' = failed
      BY <2>1 DEF CheckoutCached
    <3>10. FailedStaysOut'
      BY <3>2, <3>4, <3>6, <3>9 DEF IInv, FailedStaysOut, Live
    <3>11. (Cached \cap Held = {})'
      BY <3>2, <3>4, <3>6 DEF IInv, Exclusive
    <3> QED  BY <3>7, <3>8, <3>10, <3>11 DEF Exclusive
  <2>2. ASSUME NEW q \in Queries, CheckoutEmpty(q)
        PROVE  (Exclusive /\ FailedStaysOut)'
    <3>1. Len(cache') = 0 /\ Cached' = {} /\ held' = held /\ failed' = failed
      BY <2>2 DEF CheckoutEmpty, Cached
    <3>2. Held' = Held
      BY <3>1 DEF Held
    <3> QED  BY <3>1, <3>2 DEF IInv, Exclusive, FailedStaysOut, Live
  <2>3. ASSUME NEW q \in Queries,
               NextAddr(q) \/ ConnectFailed(q) \/ GiveUp(q) \/ CancelDial(q) \/ UpdateGauge(q)
        PROVE  (Exclusive /\ FailedStaysOut)'
    <3>1. UNCHANGED <<cache, held, failed>>
      BY <2>3 DEF NextAddr, ConnectFailed, GiveUp, CancelDial, UpdateGauge
    <3> QED  BY <3>1 DEF IInv, Exclusive, FailedStaysOut, Live, Cached, Held
  <2>4. ASSUME NEW q \in Queries, Connected(q)
        PROVE  (Exclusive /\ FailedStaysOut)'
    <3>1. PICK c \in Conns \ Live :
                held' = [held EXCEPT ![q] = c] /\ failed' = failed \ {c}
      BY <2>4 DEF Connected
    <3>2. cache' = cache /\ Cached' = Cached
      BY <2>4 DEF Connected, Cached
    <3>3. \A r \in Queries : held'[r] = IF r = q THEN c ELSE held[r]
      BY <3>1 DEF IInv, TypeOK
    <3>4. Held' \subseteq Held \cup {c}
      BY <3>3 DEF Held
    <3>5. c \notin Cached /\ c \notin Held
      BY DEF Live
    <3>6. \A r, t \in Queries : held'[r] = held'[t] /\ held'[r] # NoConn => r = t
      BY <3>3, <3>5, NoConnAssumption DEF IInv, Exclusive, Held
    <3>7. FailedStaysOut'
      BY <3>1, <3>2, <3>4 DEF IInv, FailedStaysOut, Live
    <3> QED  BY <3>2, <3>4, <3>5, <3>6, <3>7 DEF IInv, Exclusive
  <2>5. ASSUME NEW q \in Queries, Answered(q) \/ CancelSend(q)
        PROVE  (Exclusive /\ FailedStaysOut)'
    BY <2>5, PushKeepsIInv DEF Answered, CancelSend
  <2>6. ASSUME NEW q \in Queries, SendFailed(q)
        PROVE  (Exclusive /\ FailedStaysOut)'
    <3>1. cache' = cache /\ failed' = failed \cup {held[q]} /\ pc[q] = "sending"
      BY <2>6 DEF SendFailed
    <3>2. \A r \in Queries : held'[r] = IF r = q THEN NoConn ELSE held[r]
      BY <2>6 DEF SendFailed, IInv, TypeOK
    <3>3. held[q] \in Held
      BY <3>1 DEF IInv, TypeOK, Held
    <3>4. Held' \subseteq Held \ {held[q]}
      BY <3>2 DEF Held, IInv, Exclusive
    <3>5. held[q] \notin Cached
      BY <3>3 DEF IInv, Exclusive
    <3>6. failed' \cap (Cached \cup Held') = {}
      BY <3>1, <3>4, <3>5 DEF IInv, FailedStaysOut, Live
    <3>7. \A r, t \in Queries : held'[r] = held'[t] /\ held'[r] # NoConn => r = t
      BY <3>2 DEF IInv, Exclusive
    <3> QED  BY <3>1, <3>4, <3>6, <3>7, ShrinkKeepsIInv
  <2>7. CASE Tick
    <3>1. /\ Len(cache') = Len(cache)
          /\ \A i \in 1 .. Len(cache) : cache'[i].conn = cache[i].conn
          /\ UNCHANGED <<held, failed>>
      BY <2>7, TickProps DEF Tick, IInv, TypeOK
    <3>2. Cached' = Cached /\ Held' = Held
      BY <3>1 DEF Cached, Held
    <3> QED  BY <3>1, <3>2 DEF IInv, Exclusive, FailedStaysOut, Live
  <2>8. CASE SetPoolIdentity \/ PeerPublishes \/ UNCHANGED vars
    <3>1. UNCHANGED <<cache, held, failed>>
      BY <2>8 DEF SetPoolIdentity, PeerPublishes, vars
    <3> QED  BY <3>1 DEF IInv, Exclusive, FailedStaysOut, Live, Cached, Held
  <2> QED
    BY <2>1, <2>2, <2>3, <2>4, <2>5, <2>6, <2>7, <2>8 DEF Next, Progress
<1> QED  BY <1>1, <1>2, TypeCorrect, PTL DEF Spec

\* "The pool hands a connection to one query at a time", and a connection on
\* which a query failed never comes back.
THEOREM PoolSafety == Spec => [](Exclusive /\ FailedStaysOut)
<1>1. IInv => Exclusive /\ FailedStaysOut
  BY DEF IInv
<1> QED  BY <1>1, ExclusiveInv, PTL

-----------------------------------------------------------------------------
(* The pool implements the leases of ConnLease *)

\* A checkout from the cache leases the connection it pops, and forgets the
\* expired ones before it.
LEMMA CheckoutLeases ==
    ASSUME IInv, NEW q \in Queries, CheckoutCached(q)
    PROVE  Leases!Lease(q)
<1>1. PICK k \in 1 .. Len(cache) :
            /\ held' = [held EXCEPT ![q] = cache[k].conn]
            /\ cache' = SubSeq(cache, k + 1, Len(cache))
  BY DEF CheckoutCached
<1> DEFINE c == cache[k].conn
<1>2. pc[q] = "idle" /\ failed' = failed
  BY DEF CheckoutCached
<1>3. c \in Cached \ failed
  BY DEF Cached, IInv, FailedStaysOut, Live
<1>4. /\ Len(cache') = Len(cache) - k
      /\ \A i \in 1 .. Len(cache') : i + k \in 1 .. Len(cache) /\ cache'[i] = cache[i + k]
      /\ Len(cache) \in Nat
  BY <1>1, SuffixProps DEF IInv, TypeOK
<1>5. Cached' \subseteq Cached \ {c}
  <2> SUFFICES ASSUME NEW i \in 1 .. Len(cache')
               PROVE  cache'[i].conn \in Cached /\ cache'[i].conn # c
    BY DEF Cached
  <2>1. i + k \in 1 .. Len(cache) /\ cache'[i] = cache[i + k] /\ i + k # k
    BY <1>4
  <2> QED  BY <2>1 DEF IInv, Exclusive, Cached
<1>6. held[q] = NoConn
  BY <1>2 DEF IInv, TypeOK
<1> QED  BY <1>1, <1>2, <1>3, <1>5, <1>6 DEF Leases!Lease

\* A release, by an answer or by a dropped guard, returns the leased connection.
LEMMA PushReturns ==
    ASSUME IInv, NEW q \in Queries, pc[q] = "sending", PushFront(q)
    PROVE  Leases!Return(q)
<1> DEFINE h == held[q]
<1>1. h \in Held /\ h # NoConn /\ h \in Conns
  BY DEF IInv, TypeOK, Held
<1>2. h \notin failed /\ h \notin Cached
  BY <1>1 DEF IInv, FailedStaysOut, Exclusive, Live
<1>3. [conn |-> h, age |-> 0] \in Entry
  BY <1>1, IdleTimeoutAssumption DEF Entry, AgeCap
<1>4. /\ Len(cache') = Len(cache) + 1
      /\ cache'[1].conn = h
      /\ \A i \in 2 .. Len(cache') : i - 1 \in 1 .. Len(cache) /\ cache'[i] = cache[i - 1]
      /\ Len(cache) \in Nat
  BY <1>3, PushProps DEF IInv, TypeOK, PushFront
<1>5. Cached' = Cached \cup {h}
  <2>1. Cached' \subseteq Cached \cup {h}
    <3> SUFFICES ASSUME NEW i \in 1 .. Len(cache'), i # 1
                 PROVE  cache'[i].conn \in Cached
      BY <1>4 DEF Cached
    <3>1. i \in 2 .. Len(cache')
      BY <1>4
    <3> QED  BY <3>1, <1>4 DEF Cached
  <2>2. ASSUME NEW i \in 1 .. Len(cache)
        PROVE  cache[i].conn \in Cached'
    <3>1. i + 1 \in 2 .. Len(cache') /\ i + 1 \in 1 .. Len(cache')
      BY <1>4
    <3>2. cache'[i + 1] = cache[(i + 1) - 1] /\ (i + 1) - 1 = i
      BY <3>1, <1>4
    <3> QED  BY <3>1, <3>2 DEF Cached
  <2>3. h \in Cached'
    BY <1>4 DEF Cached
  <2> QED  BY <2>1, <2>2, <2>3 DEF Cached
<1> QED  BY <1>1, <1>2, <1>5 DEF Leases!Return, PushFront

\* Every behaviour of the pool is a behaviour of ConnLease: that a lease is
\* exclusive and a broken connection stays out is what makes the steps match.
THEOREM PoolImplementsLease == Spec => ImplementsLease
<1>1. Init => Leases!Init
  BY DEF Init, Leases!Init, Cached
<1>2. IInv /\ [Next]_vars => [Leases!Next]_(Leases!leaseVars)
  <2> SUFFICES ASSUME IInv, [Next]_vars
               PROVE  Leases!Next \/ UNCHANGED Leases!leaseVars
    OBVIOUS
  <2>1. ASSUME NEW q \in Queries, CheckoutCached(q)
        PROVE  Leases!Next
    BY <2>1, CheckoutLeases DEF Leases!Next
  <2>2. ASSUME NEW q \in Queries, CheckoutEmpty(q)
        PROVE  Leases!Next
    <3>1. Cached' = {} /\ UNCHANGED <<held, failed>>
      BY <2>2 DEF CheckoutEmpty, Cached
    <3> QED  BY <3>1 DEF Leases!Next, Leases!Forget
  <2>3. ASSUME NEW q \in Queries,
               NextAddr(q) \/ ConnectFailed(q) \/ GiveUp(q) \/ CancelDial(q) \/ UpdateGauge(q)
        PROVE  UNCHANGED Leases!leaseVars
    <3>1. UNCHANGED <<cache, held, failed>>
      BY <2>3 DEF NextAddr, ConnectFailed, GiveUp, CancelDial, UpdateGauge
    <3> QED  BY <3>1 DEF Leases!leaseVars, Cached
  <2>4. ASSUME NEW q \in Queries, Connected(q)
        PROVE  Leases!Next
    <3>1. PICK c \in Conns \ Live :
                held' = [held EXCEPT ![q] = c] /\ failed' = failed \ {c}
      BY <2>4 DEF Connected
    <3>2. held[q] = NoConn /\ Cached' = Cached
      BY <2>4 DEF Connected, IInv, TypeOK, Cached
    <3>3. Leases!Dial(q)
      BY <3>1, <3>2 DEF Leases!Dial, Leases!Leased, Live, Held
    <3> QED  BY <3>3 DEF Leases!Next
  <2>5. ASSUME NEW q \in Queries, Answered(q) \/ CancelSend(q)
        PROVE  Leases!Next
    BY <2>5, PushReturns DEF Answered, CancelSend, Leases!Next
  <2>6. ASSUME NEW q \in Queries, SendFailed(q)
        PROVE  Leases!Next
    <3>1. held[q] # NoConn /\ Cached' = Cached
      BY <2>6 DEF SendFailed, IInv, TypeOK, Cached
    <3>2. Leases!Break(q)
      BY <2>6, <3>1 DEF SendFailed, Leases!Break
    <3> QED  BY <3>2 DEF Leases!Next
  <2>7. CASE Tick
    <3>1. /\ Len(cache') = Len(cache)
          /\ \A i \in 1 .. Len(cache) : cache'[i].conn = cache[i].conn
          /\ UNCHANGED <<held, failed>>
      BY <2>7, TickProps DEF Tick, IInv, TypeOK
    <3>2. Cached' = Cached
      BY <3>1 DEF Cached
    <3> QED  BY <3>1, <3>2 DEF Leases!leaseVars
  <2>8. CASE SetPoolIdentity \/ PeerPublishes \/ UNCHANGED vars
    BY <2>8 DEF SetPoolIdentity, PeerPublishes, vars, Leases!leaseVars, Cached
  <2> QED
    BY <2>1, <2>2, <2>3, <2>4, <2>5, <2>6, <2>7, <2>8 DEF Next, Progress
<1> QED  BY <1>1, <1>2, ExclusiveInv, PTL DEF Spec, ImplementsLease, Leases!Spec

-----------------------------------------------------------------------------
(* The order of the cache *)

\* Ages stay sorted: a release puts age 0 in front, a checkout cuts a prefix
\* off, and Tick is monotonic.
THEOREM CacheOrder == Spec => []MostRecentFirst
<1>1. Init => MostRecentFirst
  BY DEF Init, MostRecentFirst
<1>2. MostRecentFirst /\ TypeOK /\ [Next]_vars => MostRecentFirst'
  <2> SUFFICES ASSUME MostRecentFirst, TypeOK, [Next]_vars
               PROVE  MostRecentFirst'
    OBVIOUS
  <2>1. \A i \in 1 .. Len(cache) : cache[i].age \in 0 .. AgeCap
    BY EntryFields
  <2>2. ASSUME NEW q \in Queries, CheckoutCached(q)
        PROVE  MostRecentFirst'
    <3>1. PICK k \in 1 .. Len(cache) : cache' = SubSeq(cache, k + 1, Len(cache))
      BY <2>2 DEF CheckoutCached
    <3>2. \A i \in 1 .. Len(cache') : i + k \in 1 .. Len(cache) /\ cache'[i] = cache[i + k]
      BY <3>1, SuffixProps DEF TypeOK
    <3> SUFFICES ASSUME NEW i \in 1 .. Len(cache'), NEW j \in 1 .. Len(cache'), i < j
                 PROVE  cache'[i].age <= cache'[j].age
      BY DEF MostRecentFirst
    <3>3. /\ i + k \in 1 .. Len(cache) /\ cache'[i] = cache[i + k]
          /\ j + k \in 1 .. Len(cache) /\ cache'[j] = cache[j + k]
      BY <3>2
    <3>4. i + k < j + k
      OBVIOUS
    <3>5. cache[i + k].age <= cache[j + k].age
      BY <3>3, <3>4 DEF MostRecentFirst
    <3> QED  BY <3>3, <3>5
  <2>3. ASSUME NEW q \in Queries, pc[q] = "sending", PushFront(q)
        PROVE  MostRecentFirst'
    <3>1. [conn |-> held[q], age |-> 0] \in Entry
      BY <2>3, IdleTimeoutAssumption DEF TypeOK, Entry, AgeCap
    <3>2. /\ Len(cache') = Len(cache) + 1
          /\ cache'[1].age = 0
          /\ \A i \in 2 .. Len(cache') : i - 1 \in 1 .. Len(cache) /\ cache'[i] = cache[i - 1]
      BY <2>3, <3>1, PushProps DEF TypeOK, PushFront
    <3> SUFFICES ASSUME NEW i \in 1 .. Len(cache'), NEW j \in 1 .. Len(cache'), i < j
                 PROVE  cache'[i].age <= cache'[j].age
      BY DEF MostRecentFirst
    <3>3. j \in 2 .. Len(cache')
      OBVIOUS
    <3>4. CASE i = 1
      BY <3>2, <3>3, <3>4, <2>1 DEF AgeCap
    <3>5. CASE i # 1
      <4>1. i \in 2 .. Len(cache') /\ i - 1 < j - 1
        BY <3>5
      <4> QED  BY <4>1, <3>2, <3>3 DEF MostRecentFirst
    <3> QED  BY <3>4, <3>5
  <2>4. CASE Tick
    <3>1. /\ Len(cache') = Len(cache)
          /\ \A i \in 1 .. Len(cache) :
                cache'[i].age = IF cache[i].age < AgeCap THEN cache[i].age + 1 ELSE cache[i].age
      BY <2>4, TickProps DEF Tick, TypeOK
    <3> SUFFICES ASSUME NEW i \in 1 .. Len(cache), NEW j \in 1 .. Len(cache), i < j
                 PROVE  cache'[i].age <= cache'[j].age
      BY <3>1 DEF MostRecentFirst
    <3>2. cache[i].age <= cache[j].age
      BY DEF MostRecentFirst
    <3> QED  BY <3>1, <3>2, <2>1, IdleTimeoutAssumption DEF AgeCap
  <2>5. CASE cache' = <<>> \/ cache' = cache
    BY <2>5 DEF MostRecentFirst
  <2> QED
    BY <2>2, <2>3, <2>4, <2>5
       DEF Next, Progress, vars, CheckoutEmpty, NextAddr, Connected, ConnectFailed, GiveUp,
           Answered, SendFailed, CancelSend, CancelDial, UpdateGauge, SetPoolIdentity,
           PeerPublishes
<1> QED  BY <1>1, <1>2, TypeCorrect, PTL DEF Spec

\* What a checkout takes from the cache is unexpired and the freshest entry:
\* the entries it skips are expired, so a sorted cache has none to skip.
THEOREM CheckoutFreshest == Spec => TakesFreshest
<1>1. TypeOK /\ MostRecentFirst /\ [Next]_vars => [FreshCheckout]_vars
  <2> SUFFICES ASSUME TypeOK, MostRecentFirst, Next,
                      NEW q \in Queries, pc[q] = "idle", pc'[q] = "sending"
               PROVE  \E i \in 1 .. Len(cache) :
                          /\ cache[i].conn = held'[q]
                          /\ cache[i].age <= IdleTimeout
                          /\ \A j \in 1 .. Len(cache) : cache[i].age <= cache[j].age
    BY DEF FreshCheckout
  <2>1. CheckoutCached(q)
    BY DEF TypeOK, Next, Progress, CheckoutCached, CheckoutEmpty, NextAddr, Connected,
           ConnectFailed, GiveUp, Answered, SendFailed, CancelSend, CancelDial,
           UpdateGauge, PushFront, SetPoolIdentity, PeerPublishes, Tick
  <2>2. PICK k \in 1 .. Len(cache) :
            /\ ~Expired(cache[k])
            /\ \A j \in 1 .. k - 1 : Expired(cache[j])
            /\ held' = [held EXCEPT ![q] = cache[k].conn]
    BY <2>1 DEF CheckoutCached
  <2>3. \A i \in 1 .. Len(cache) : cache[i].age \in Int
    BY EntryFields, IdleTimeoutAssumption DEF AgeCap
  <2>4. k = 1
    <3> SUFFICES ASSUME k # 1 PROVE FALSE
      OBVIOUS
    <3>1. 1 \in 1 .. k - 1 /\ 1 \in 1 .. Len(cache) /\ 1 < k
      OBVIOUS
    <3>2. cache[1].age <= cache[k].age /\ Expired(cache[1])
      BY <3>1, <2>2 DEF MostRecentFirst
    <3> QED  BY <3>1, <3>2, <2>2, <2>3, IdleTimeoutAssumption DEF Expired
  <2>5. \A j \in 1 .. Len(cache) : cache[1].age <= cache[j].age
    BY <2>3, <2>4 DEF MostRecentFirst
  <2>6. held'[q] = cache[1].conn /\ cache[1].age <= IdleTimeout /\ 1 \in 1 .. Len(cache)
    <3>1. q \in DOMAIN held
      BY DEF TypeOK
    <3>2. held'[q] = cache[1].conn /\ ~Expired(cache[1]) /\ 1 \in 1 .. Len(cache)
      BY <2>2, <2>4, <3>1
    <3> QED  BY <3>2, <2>3, IdleTimeoutAssumption DEF Expired
  <2> QED  BY <2>5, <2>6
<1> QED  BY <1>1, TypeCorrect, CacheOrder, PTL DEF Spec, TakesFreshest

-----------------------------------------------------------------------------
(* The size of the pool *)

\* A slot takes a connection's place in the count when it starts, and gives it
\* back when its connection is idle again or gone.
THEOREM PoolBound == Spec => []BoundedByConcurrency
<1> DEFINE N == Cardinality(Queries)
<1>1. Init => BoundedByConcurrency
  <2> SUFFICES ASSUME Init PROVE BoundedByConcurrency
    OBVIOUS
  <2>1. InUse = {} /\ Len(cache) = 0
    BY DEF Init, InUse
  <2> QED
    BY <2>1, FS_EmptySet, FS_CardinalityType, QueriesAssumption DEF BoundedByConcurrency
<1>2. BoundedByConcurrency /\ TypeOK /\ TypeOK' /\ [Next]_vars => BoundedByConcurrency'
  <2> SUFFICES ASSUME BoundedByConcurrency, TypeOK, TypeOK', [Next]_vars
               PROVE  BoundedByConcurrency'
    OBVIOUS
  <2>1. /\ IsFiniteSet(InUse) /\ Cardinality(InUse) \in Nat
        /\ IsFiniteSet(InUse') /\ Cardinality(InUse') \in Nat /\ Cardinality(InUse') <= N
        /\ N \in Nat
    <3>1. InUse \subseteq Queries /\ InUse' \subseteq Queries
      BY DEF InUse
    <3> QED  BY <3>1, QueriesAssumption, FS_Subset, FS_CardinalityType
  <2>2. Len(cache) \in Nat /\ Len(cache') \in Nat
    BY DEF TypeOK
  <2>3. ASSUME InUse' \subseteq InUse, Len(cache') = Len(cache)
        PROVE  BoundedByConcurrency'
    <3>1. Cardinality(InUse') <= Cardinality(InUse)
      BY <2>1, <2>3, FS_Subset
    <3> QED  BY <3>1, <2>1, <2>2, <2>3 DEF BoundedByConcurrency
  <2>4. ASSUME NEW q \in Queries, CheckoutCached(q)
        PROVE  BoundedByConcurrency'
    <3>1. InUse' = InUse \cup {q} /\ q \notin InUse
      BY <2>4 DEF CheckoutCached, InUse, TypeOK
    <3>2. Cardinality(InUse') = Cardinality(InUse) + 1
      BY <3>1, <2>1, FS_AddElement
    <3>3. PICK k \in 1 .. Len(cache) : cache' = SubSeq(cache, k + 1, Len(cache))
      BY <2>4 DEF CheckoutCached
    <3>4. Len(cache') = Len(cache) - k
      BY <3>3, SuffixProps DEF TypeOK
    <3> QED  BY <3>2, <3>4, <2>1, <2>2 DEF BoundedByConcurrency
  <2>5. ASSUME NEW q \in Queries, CheckoutEmpty(q)
        PROVE  BoundedByConcurrency'
    <3>1. Len(cache') = 0
      BY <2>5 DEF CheckoutEmpty
    <3> QED  BY <3>1, <2>1 DEF BoundedByConcurrency
  <2>6. ASSUME NEW q \in Queries, pc[q] = "sending", PushFront(q)
        PROVE  BoundedByConcurrency'
    <3>1. InUse' = InUse \ {q} /\ q \in InUse
      BY <2>6 DEF PushFront, InUse, TypeOK
    <3>2. Cardinality(InUse') = Cardinality(InUse) - 1
      BY <3>1, <2>1, FS_RemoveElement
    <3>3. [conn |-> held[q], age |-> 0] \in Entry
      BY <2>6, IdleTimeoutAssumption DEF TypeOK, Entry, AgeCap
    <3>4. Len(cache') = Len(cache) + 1
      BY <2>6, <3>3, PushProps DEF TypeOK, PushFront
    <3> QED  BY <3>2, <3>4, <2>1, <2>2 DEF BoundedByConcurrency
  <2>7. ASSUME NEW q \in Queries,
               NextAddr(q) \/ Connected(q) \/ ConnectFailed(q) \/ GiveUp(q)
                 \/ SendFailed(q) \/ CancelDial(q) \/ UpdateGauge(q)
        PROVE  BoundedByConcurrency'
    <3>1. InUse' \subseteq InUse
      BY <2>7 DEF InUse, TypeOK, NextAddr, Connected, ConnectFailed, GiveUp, SendFailed,
                  CancelDial, UpdateGauge
    <3>2. Len(cache') = Len(cache)
      BY <2>7 DEF NextAddr, Connected, ConnectFailed, GiveUp, SendFailed, CancelDial,
                  UpdateGauge
    <3> QED  BY <3>1, <3>2, <2>3
  <2>8. CASE Tick
    <3>1. Len(cache') = Len(cache) /\ pc' = pc
      BY <2>8, TickProps DEF Tick, TypeOK
    <3>2. InUse' = InUse
      BY <3>1 DEF InUse
    <3> QED  BY <3>1, <3>2, <2>3
  <2>9. CASE SetPoolIdentity \/ PeerPublishes \/ UNCHANGED vars
    BY <2>9, <2>3 DEF SetPoolIdentity, PeerPublishes, vars, InUse
  <2> QED
    BY <2>4, <2>5, <2>6, <2>7, <2>8, <2>9 DEF Next, Progress, Answered, CancelSend
<1> QED  BY <1>1, <1>2, TypeCorrect, PTL DEF Spec

-----------------------------------------------------------------------------
(* The gauge *)

\* Only a push makes the cache longer, and it leaves a slot in "reporting" that will
\* publish the length it then finds.  What was pushed before the pool had a name is
\* published with the name.
THEOREM GaugeBound == Spec => []GaugeNeverLow
<1>1. Init => GaugeNeverLow
  BY DEF Init, GaugeNeverLow
<1>2. GaugeNeverLow /\ TypeOK /\ [Next]_vars => GaugeNeverLow'
  <2> SUFFICES ASSUME GaugeNeverLow, TypeOK, [Next]_vars
               PROVE  GaugeNeverLow'
    OBVIOUS
  <2>1. gauge \in Nat /\ Len(cache) \in Nat
    BY DEF TypeOK
  <2>2. ASSUME NEW q \in Queries, CheckoutCached(q)
        PROVE  GaugeNeverLow'
    <3>1. PICK k \in 1 .. Len(cache) : cache' = SubSeq(cache, k + 1, Len(cache))
      BY <2>2 DEF CheckoutCached
    <3>2. Len(cache') = Len(cache) - k
      BY <3>1, SuffixProps DEF TypeOK
    <3> QED  BY <2>1, <2>2, <3>2 DEF GaugeNeverLow, CheckoutCached, TypeOK
  <2>3. ASSUME NEW q \in Queries, CheckoutEmpty(q)
        PROVE  GaugeNeverLow'
    BY <2>1, <2>3 DEF GaugeNeverLow, CheckoutEmpty
  <2>4. ASSUME NEW q \in Queries, PushFront(q)
        PROVE  GaugeNeverLow'
    BY <2>4 DEF GaugeNeverLow, PushFront, TypeOK
  <2>5. ASSUME NEW q \in Queries, UpdateGauge(q)
        PROVE  GaugeNeverLow'
    BY <2>1, <2>5 DEF GaugeNeverLow, UpdateGauge
  <2>6. ASSUME NEW q \in Queries,
               NextAddr(q) \/ Connected(q) \/ ConnectFailed(q) \/ GiveUp(q)
                 \/ SendFailed(q) \/ CancelDial(q)
        PROVE  GaugeNeverLow'
    BY <2>6 DEF GaugeNeverLow, TypeOK, NextAddr, Connected, ConnectFailed, GiveUp,
                SendFailed, CancelDial
  <2>7. CASE Tick
    <3>1. Len(cache') = Len(cache) /\ UNCHANGED <<pc, identity, gauge, publisher>>
      BY <2>7, TickProps DEF Tick, TypeOK
    <3> QED  BY <3>1 DEF GaugeNeverLow
  <2>8. CASE SetPoolIdentity
    BY <2>1, <2>8 DEF SetPoolIdentity, GaugeNeverLow
  <2>9. CASE PeerPublishes
    BY <2>9 DEF PeerPublishes, GaugeNeverLow
  <2>10. CASE UNCHANGED vars
    BY <2>10 DEF vars, GaugeNeverLow
  <2> QED
    BY <2>2, <2>3, <2>4, <2>5, <2>6, <2>7, <2>8, <2>9, <2>10
       DEF Next, Progress, Answered, CancelSend
<1> QED  BY <1>1, <1>2, TypeCorrect, PTL DEF Spec

-----------------------------------------------------------------------------
(* The addresses of a checkout *)

\* How many advances ago the cursor was at address a.
Behind(a) == IF a < cursor THEN cursor - a ELSE cursor - a + NAddr

\* While nobody else moves the cursor, a checkout has tried the addresses the
\* cursor passed last, one for each attempt; outside the attempt loop the counter
\* and the history are cleared.
Window ==
    \A q \in Queries :
        /\ solo[q] => tried[q] = {a \in Addrs : Behind(a) <= attempts[q]}
        /\ ~Creating(q) => attempts[q] = 0 /\ tried[q] = {}

LEMMA BehindRange ==
    ASSUME TypeOK, NEW a \in Addrs
    PROVE  Behind(a) \in 1 .. NAddr
BY NAddrAssumption DEF TypeOK, Addrs, Behind

\* next_addr: the address taken is one behind, every other one falls back by one.
LEMMA BehindNext ==
    ASSUME TypeOK, NEW a \in Addrs, NEW n \in 0 .. MaxAttempts,
           cursor' = IF cursor + 1 = NAddr THEN 0 ELSE cursor + 1, NAddr > 0
    PROVE  Behind(a)' <= n + 1 <=> a = cursor \/ Behind(a) <= n
<1>1. cursor \in 0 .. NAddr - 1 /\ a \in 0 .. NAddr - 1 /\ NAddr \in Nat /\ n \in 0 .. NAddr
  BY NAddrAssumption DEF TypeOK, Addrs, MaxAttempts
<1> QED  BY <1>1 DEF Behind

\* A lone checkout gives up only after trying every address: the round-robin
\* cursor comes round exactly when the attempts are used up.
THEOREM LoneCheckout == Spec => []LoneCheckoutTriesAll
<1>1. Init => Window
  <2> SUFFICES ASSUME Init PROVE Window
    OBVIOUS
  <2>1. \A a \in Addrs : Behind(a) >= 1
    BY NAddrAssumption DEF Init, Addrs, Behind
  <2> QED  BY <2>1, NAddrAssumption DEF Init, Window, Addrs, Behind
<1>2. Window /\ TypeOK /\ TypeOK' /\ [Next]_vars => Window'
  <2> SUFFICES ASSUME Window, TypeOK, TypeOK', [Next]_vars
               PROVE  Window'
    OBVIOUS
  <2>1. ASSUME cursor' = cursor, NEW r \in Queries,
               solo'[r] => solo[r], attempts'[r] = attempts[r], tried'[r] = tried[r],
               Creating(r) => Creating(r)'
        PROVE  /\ solo'[r] => tried'[r] = {a \in Addrs : Behind(a)' <= attempts'[r]}
               /\ ~Creating(r)' => attempts'[r] = 0 /\ tried'[r] = {}
    BY <2>1 DEF Window, Behind
  <2>2. ASSUME UNCHANGED <<cursor, attempts, tried, solo>>,
               \A r \in Queries : Creating(r) => Creating(r)'
        PROVE  Window'
    BY <2>1, <2>2 DEF Window
  <2>3. ASSUME NEW q \in Queries, EndCheckout(q), cursor' = cursor,
               \A r \in Queries \ {q} : pc'[r] = pc[r]
        PROVE  Window'
    <3>1. attempts'[q] = 0 /\ tried'[q] = {}
      BY <2>3 DEF EndCheckout, TypeOK
    <3>2. {a \in Addrs : Behind(a)' <= attempts'[q]} = {}
      BY <3>1, BehindRange, NAddrAssumption, <2>3 DEF Behind
    <3>3. ASSUME NEW r \in Queries \ {q}
          PROVE  /\ solo'[r] = solo[r] /\ attempts'[r] = attempts[r] /\ tried'[r] = tried[r]
                 /\ Creating(r) <=> Creating(r)'
      BY <2>3 DEF EndCheckout, TypeOK, Creating
    <3> QED  BY <2>1, <2>3, <3>1, <3>2, <3>3 DEF Window
  <2>4. ASSUME NEW q \in Queries, NextAddr(q)
        PROVE  Window'
    <3>1. /\ attempts[q] \in 0 .. MaxAttempts /\ attempts'[q] = attempts[q] + 1
          /\ tried'[q] = tried[q] \cup {cursor}
          /\ cursor \in Addrs
          /\ solo'[q] = solo[q] /\ Creating(q)'
      BY <2>4, NAddrAssumption DEF NextAddr, TypeOK, Addrs, Creating
    <3>2. \A a \in Addrs :
             Behind(a)' <= attempts[q] + 1 <=> a = cursor \/ Behind(a) <= attempts[q]
      BY <2>4, <3>1, BehindNext DEF NextAddr
    <3>3. solo'[q] => tried'[q] = {a \in Addrs : Behind(a)' <= attempts'[q]}
      BY <3>1, <3>2 DEF Window
    <3>4. ASSUME NEW r \in Queries \ {q}
          PROVE  /\ solo'[r] => tried'[r] = {a \in Addrs : Behind(a)' <= attempts'[r]}
                 /\ ~Creating(r)' => attempts'[r] = 0 /\ tried'[r] = {}
      <4>1. /\ attempts'[r] = attempts[r] /\ tried'[r] = tried[r]
            /\ pc'[r] = pc[r] /\ (solo'[r] <=> ~Creating(r))
        BY <2>4 DEF NextAddr, TypeOK
      <4>2. Creating(r)' <=> Creating(r)
        BY <4>1 DEF Creating
      <4>3. \A a \in Addrs : Behind(a)' \in 1 .. NAddr
        BY <2>4, NAddrAssumption DEF TypeOK, NextAddr, Addrs, Behind
      <4>4. ASSUME ~Creating(r)
            PROVE  {a \in Addrs : Behind(a)' <= attempts'[r]} = {}
        BY <4>1, <4>3, <4>4, NAddrAssumption DEF Window
      <4> QED  BY <4>1, <4>2, <4>4 DEF Window
    <3> QED  BY <3>1, <3>3, <3>4 DEF Window
  <2>5. ASSUME NEW q \in Queries,
               CheckoutCached(q) \/ CheckoutEmpty(q) \/ ConnectFailed(q)
                 \/ Answered(q) \/ CancelSend(q) \/ SendFailed(q) \/ UpdateGauge(q)
        PROVE  Window'
    <3>1. UNCHANGED <<cursor, attempts, tried, solo>>
      BY <2>5 DEF CheckoutCached, CheckoutEmpty, ConnectFailed, Answered, CancelSend,
                  PushFront, SendFailed, UpdateGauge
    <3>2. \A r \in Queries : Creating(r) => Creating(r)'
      BY <2>5 DEF CheckoutCached, CheckoutEmpty, ConnectFailed, Answered, CancelSend,
                  PushFront, SendFailed, UpdateGauge, Creating, TypeOK
    <3> QED  BY <2>2, <3>1, <3>2
  <2>6. ASSUME NEW q \in Queries, Connected(q) \/ GiveUp(q) \/ CancelDial(q)
        PROVE  Window'
    <3>1. EndCheckout(q) /\ cursor' = cursor /\ \A r \in Queries \ {q} : pc'[r] = pc[r]
      BY <2>6 DEF Connected, GiveUp, CancelDial, TypeOK
    <3> QED  BY <2>3, <3>1
  <2>7. CASE Tick \/ SetPoolIdentity \/ PeerPublishes \/ UNCHANGED vars
    BY <2>7, <2>2 DEF Tick, SetPoolIdentity, PeerPublishes, vars, Creating
  <2> QED
    BY <2>4, <2>5, <2>6, <2>7 DEF Next, Progress
<1>3. TypeOK /\ Window => LoneCheckoutTriesAll
  <2> SUFFICES ASSUME TypeOK, Window, NEW q \in Queries, solo[q], attempts[q] = MaxAttempts
               PROVE  tried[q] = Addrs
    BY DEF LoneCheckoutTriesAll
  <2>1. \A a \in Addrs : Behind(a) <= attempts[q]
    BY BehindRange, NAddrAssumption DEF MaxAttempts
  <2> QED  BY <2>1 DEF Window
<1> QED  BY <1>1, <1>2, <1>3, TypeCorrect, PTL DEF Spec

=============================================================================
