--------------------------- MODULE Lifecycle_proofs ---------------------------
(***************************************************************************)
(* Proofs about Lifecycle and the Bootstrap within it, for every set of    *)
(* queries, every configuration, hosts table and network, and any number   *)
(* of rotations, failed writes and reloads: first the query log, then how  *)
(* the names of the servers are resolved and the pools built, then what is *)
(* done when READY=1 goes out.                                             *)
(***************************************************************************)
EXTENDS Lifecycle, Ordering_proofs

-----------------------------------------------------------------------------
(* The query log: the invariant                                            *)

Handles == [file : Files, id : Nat]
Writes == [handle : Handles, line : Queries]

\* A query whose line has been handed to the sink.
Past == {"replying", "answered", "closed"}

SinkTyped ==
  /\ path \in Files /\ file \in Handles /\ fresh \in Handles
  /\ failed \in BOOLEAN
  /\ writes \subseteq Writes
  /\ content \in [Files -> SUBSET Queries]
  /\ logged \subseteq Queries
  /\ faults \in Nat
  /\ DOMAIN task = Queries

\* The line of a query is handed over once, and is in one place at most.
InOnePlace ==
  /\ \A q \in logged : task[q] \in Past
  /\ \A f \in Files : content[f] \subseteq logged
  /\ \A w \in writes : w.line \in logged /\ \A f \in Files : w.line \notin content[f]
  /\ \A w, v \in writes : w.line = v.line => w = v
  /\ \A f, g \in Files : f # g => content[f] \cap content[g] = {}

Lost == {q \in logged : /\ \A f \in Files : q \notin content[f]
                        /\ \A w \in writes : w.line # q}

\* A failed write has cost its line, and, while its error is not heard, is still
\* to cost another one.
Debt == IF failed THEN 1 ELSE 0
Counted ==
  /\ code = "SIGHUP" => pc = "exited"
  /\ code = "SIGHUP" \/ Cardinality(Lost) + Debt <= 2 * faults

IInv == SinkTyped /\ InOnePlace /\ Counted

-----------------------------------------------------------------------------
(* The query log: counting                                                 *)

LEMMA LostFinite == SinkTyped => IsFiniteSet(Lost) /\ Cardinality(Lost) \in Nat
BY QueriesAssumption, FS_Subset, FS_CardinalityType DEF SinkTyped, Lost

\* Losing at most one more.
LEMMA OneMore ==
    ASSUME NEW S, IsFiniteSet(S), NEW x, NEW T \in SUBSET (S \cup {x})
    PROVE  Cardinality(T) \in Nat /\ Cardinality(T) <= Cardinality(S) + 1
<1>1. IsFiniteSet(S \cup {x}) /\ Cardinality(S \cup {x}) <= Cardinality(S) + 1
  <2>1. Cardinality(S) \in Nat
    BY FS_CardinalityType
  <2> QED  BY <2>1, FS_AddElement
<1>2. Cardinality(T) <= Cardinality(S \cup {x}) /\ IsFiniteSet(T)
  BY <1>1, FS_Subset
<1>3. Cardinality(T) \in Nat /\ Cardinality(S) \in Nat /\ Cardinality(S \cup {x}) \in Nat
  BY <1>1, <1>2, FS_CardinalityType
<1> QED  BY <1>1, <1>2, <1>3

LEMMA NoMore ==
    ASSUME NEW S, IsFiniteSet(S), NEW T \in SUBSET S
    PROVE  Cardinality(T) \in Nat /\ Cardinality(T) <= Cardinality(S)
BY FS_Subset, FS_CardinalityType

-----------------------------------------------------------------------------
(* The query log: the steps                                                *)

\* A step that leaves the log alone: handles stay handles, queries go on, and a
\* process that is gone stays gone.
LEMMA SinkStays ==
    ASSUME IInv, UNCHANGED <<failed, writes, content, logged, faults>>,
           path' \in Files, file' \in Handles, fresh' \in Handles,
           DOMAIN task' = Queries,
           \A q \in Queries : task[q] \in Past => task'[q] \in Past,
           \/ UNCHANGED <<pc, code>>
           \/ pc # "exited" /\ code' \in {code, "FAILURE", "SUCCESS"}
    PROVE  IInv'
<1>1. SinkTyped'
  BY DEF IInv, SinkTyped
<1>2. InOnePlace'
  BY DEF IInv, SinkTyped, InOnePlace
<1>3. Counted'
  BY DEF IInv, Counted, Lost, Debt
<1> QED  BY <1>1, <1>2, <1>3 DEF IInv

\* Start-up and the loop but for the swap.
LEMMA RunKeeps ==
    ASSUME IInv,
           \/ \E ok \in BOOLEAN :
                OpenLog(ok) \/ Prepare(ok) \/ Bind(ok) \/ InstallHandler(ok) \/ OpenNew(ok)
           \/ Upstream \/ HostsChange \/ Notify \/ Spawn \/ RecvSighup \/ Leave
    PROVE  IInv'
<1>1. UNCHANGED <<failed, writes, content, logged, faults, task>>
  BY DEF OpenLog, Prepare, Bind, InstallHandler, OpenNew, Upstream, HostsChange, Notify,
         Spawn, RecvSighup, Leave, taskVars, sinkVars
<1>2. path' = path /\ path \in Files
  BY DEF OpenLog, Prepare, Bind, InstallHandler, OpenNew, Upstream, HostsChange, Notify,
         Spawn, RecvSighup, Leave, logVars, IInv, SinkTyped
<1>3. file' \in Handles
  BY <1>2 DEF OpenLog, Prepare, Bind, InstallHandler, OpenNew, Upstream, HostsChange, Notify,
         Spawn, RecvSighup, Leave, sinkVars, IInv, SinkTyped, Handles
<1>4. fresh' \in Handles
  BY <1>2 DEF OpenLog, Prepare, Bind, InstallHandler, OpenNew, Upstream, HostsChange, Notify,
         Spawn, RecvSighup, Leave, logVars, IInv, SinkTyped, Handles
<1>5. \/ UNCHANGED <<pc, code>>
      \/ pc # "exited" /\ code' \in {code, "FAILURE", "SUCCESS"}
  BY DEF OpenLog, Prepare, Bind, InstallHandler, OpenNew, Upstream, HostsChange, Notify,
         Spawn, RecvSighup, Leave, procVars, Exit
<1>6. DOMAIN task' = Queries /\ \A q \in Queries : task[q] \in Past => task'[q] \in Past
  BY <1>1 DEF IInv, SinkTyped
<1> QED  BY <1>1, <1>2, <1>3, <1>4, <1>5, <1>6, SinkStays

\* Queries go forward only.
LEMMA ServeKeeps ==
    ASSUME IInv, NEW q \in Queries,
           \/ \E ok \in BOOLEAN : ReadStream(q, ok) \/ Handle(q, ok)
           \/ ReadRequest(q) \/ Reject(q) \/ Reply(q)
           \/ \E l \in DOMAIN listener, ok \in BOOLEAN : Accept(q, l, ok)
    PROVE  IInv'
<1>1. UNCHANGED <<pc, code, path, fresh, sinkVars>>
  BY DEF ReadStream, Handle, ReadRequest, Reject, Reply, Accept, procVars, logVars
<1>2. \E state : At(q, state) /\ (state \in Past \/ task[q] \notin Past)
  BY DEF ReadStream, Handle, ReadRequest, Reject, Reply, Accept, Refuse, Past
<1>3. DOMAIN task' = Queries /\ \A p \in Queries : task[p] \in Past => task'[p] \in Past
  BY <1>2 DEF At, IInv, SinkTyped
<1> QED  BY <1>1, <1>3, SinkStays DEF IInv, SinkTyped, sinkVars

LEMMA QuietKeeps ==
    ASSUME IInv, (\E l \in DOMAIN listener : ListenerFails(l)) \/ Rotate \/ UNCHANGED vars
    PROVE  IInv'
<1>1. UNCHANGED <<pc, code, fresh, sinkVars, task>>
  BY DEF ListenerFails, Rotate, vars, procVars, taskVars, logVars
<1>2. path' \in Files
  BY BoundsAssumption DEF ListenerFails, Rotate, vars, logVars, Files, IInv, SinkTyped
<1> QED  BY <1>1, <1>2, SinkStays DEF IInv, SinkTyped, sinkVars

LEMMA ShutdownKeeps == ASSUME IInv, Shutdown PROVE IInv'
<1>1. UNCHANGED <<path, fresh, sinkVars>> /\ pc # "exited" /\ code' = "SUCCESS"
  BY DEF Shutdown, Exit, logVars
<1>2. DOMAIN task' = Queries /\ \A q \in Queries : task[q] \in Past => task'[q] \in Past
  BY DEF Shutdown, Past
<1> QED  BY <1>1, <1>2, SinkStays DEF IInv, SinkTyped, sinkVars

\* The new handle owes nothing; the writes of the old one go on.
LEMMA SwapKeeps == ASSUME IInv, Swap PROVE IInv'
<1>1. /\ file' = fresh /\ failed' = FALSE
      /\ UNCHANGED <<writes, content, logged, faults, path, fresh, task, code>>
      /\ pc = "swapping" /\ pc' = "serving"
  BY DEF Swap, Swapped, taskVars
<1>2. SinkTyped'
  BY <1>1 DEF IInv, SinkTyped
<1>3. InOnePlace'
  BY <1>1 DEF IInv, InOnePlace
<1>4. Counted'
  <2>1. Lost' = Lost
    BY <1>1 DEF Lost
  <2>2. code' # "SIGHUP" /\ Cardinality(Lost) + Debt <= 2 * faults
    BY <1>1 DEF IInv, Counted
  <2>3. Debt \in {0, 1} /\ Debt' = 0 /\ Cardinality(Lost) \in Nat /\ faults \in Nat
    BY <1>1, LostFinite DEF Debt, IInv, SinkTyped
  <2> QED  BY <1>1, <2>1, <2>2, <2>3 DEF Counted
<1> QED  BY <1>2, <1>3, <1>4 DEF IInv

\* A line is written in the background, or pays the error that was owed.
LEMMA WriteLineKeeps == ASSUME IInv, NEW q \in Queries, WriteLine(q) PROVE IInv'
<1>1. /\ task[q] = "logging" /\ pc \in {"installing", "serving", "reopening", "swapping", "leaving"}
      /\ logged' = logged \cup {q}
      /\ writes' = IF failed THEN writes ELSE writes \cup {[handle |-> file, line |-> q]}
      /\ failed' = FALSE
      /\ task' = [task EXCEPT ![q] = "replying"]
      /\ UNCHANGED <<file, content, faults, path, fresh, pc, code>>
  BY DEF WriteLine, Running, At, procVars, logVars
<1> DEFINE new == [handle |-> file, line |-> q]
<1>2. new \in Writes /\ new.line = q
  BY DEF Writes, IInv, SinkTyped
<1>3. q \notin logged
  BY <1>1 DEF IInv, InOnePlace, Past
<1>w. writes' = writes \/ (~failed /\ writes' = writes \cup {new})
  BY <1>1
<1>f. failed => writes' = writes
  BY <1>1
<1> HIDE DEF new
<1>4. SinkTyped'
  BY <1>1, <1>2, <1>w DEF IInv, SinkTyped
<1>5. InOnePlace'
  <2>1. \A p \in logged' : task'[p] \in Past
    BY <1>1 DEF IInv, SinkTyped, InOnePlace, Past
  <2>2. \A f \in Files : content'[f] \subseteq logged' /\ q \notin content'[f]
    BY <1>1, <1>3 DEF IInv, InOnePlace
  <2>3. \A w \in writes' : w.line \in logged' /\ \A f \in Files : w.line \notin content'[f]
    BY <1>1, <1>2, <1>w, <2>2 DEF IInv, InOnePlace
  <2>4. \A w, v \in writes' : w.line = v.line => w = v
    BY <1>2, <1>3, <1>w DEF IInv, InOnePlace
  <2> QED  BY <1>1, <2>1, <2>2, <2>3, <2>4 DEF IInv, InOnePlace
<1>6. Counted'
  <2>1. code' # "SIGHUP" /\ Cardinality(Lost) + Debt <= 2 * faults
    BY <1>1 DEF IInv, Counted
  <2>2. Cardinality(Lost) \in Nat /\ faults \in Nat /\ IsFiniteSet(Lost)
    BY LostFinite DEF IInv, SinkTyped
  <2>3. Debt' = 0
    BY <1>1 DEF Debt
  <2>4. CASE failed
    <3>1. Lost' \subseteq Lost \cup {q}
      BY <1>1, <2>4 DEF Lost
    <3>2. Cardinality(Lost') \in Nat /\ Cardinality(Lost') <= Cardinality(Lost) + 1
      BY <2>2, <3>1, OneMore
    <3>3. Debt = 1
      BY <2>4 DEF Debt
    <3> QED  BY <1>1, <2>1, <2>2, <2>3, <3>2, <3>3 DEF Counted
  <2>5. CASE ~failed
    <3>1. writes' = writes \cup {new}
      BY <1>1, <2>5 DEF new
    <3>2. new \in writes' /\ writes \subseteq writes'
      BY <3>1
    <3>3. Lost' \subseteq Lost
      BY <1>1, <1>2, <3>2 DEF Lost
    <3>4. Cardinality(Lost') \in Nat /\ Cardinality(Lost') <= Cardinality(Lost)
      BY <2>2, <3>3, NoMore
    <3>5. Debt = 0
      BY <2>5 DEF Debt
    <3> QED  BY <1>1, <2>1, <2>2, <2>3, <3>4, <3>5 DEF Counted
  <2> QED  BY <2>4, <2>5
<1> QED  BY <1>4, <1>5, <1>6 DEF IInv

\* A background write puts its line into the file of its handle, or fails.
LEMMA WriteEndsKeeps ==
    ASSUME IInv, NEW w \in writes, NEW ok \in BOOLEAN, WriteEnds(w, ok)
    PROVE  IInv'
<1>1. /\ writes' = writes \ {w}
      /\ content' = IF ok THEN [content EXCEPT ![w.handle.file] = @ \cup {w.line}] ELSE content
      /\ failed' = (failed \/ (~ok /\ w.handle = file))
      /\ faults' = IF ok THEN faults ELSE faults + 1
      /\ UNCHANGED <<file, logged, path, fresh, task, pc, code>>
  BY DEF WriteEnds, procVars, taskVars, logVars
<1> DEFINE g == w.handle.file
           x == w.line
<1>2. g \in Files /\ x \in Queries /\ x \in logged
  BY DEF IInv, SinkTyped, InOnePlace, Writes, Handles
<1>3. content \in [Files -> SUBSET Queries]
  BY DEF IInv, SinkTyped
<1>4. \/ ok /\ content' = [content EXCEPT ![g] = content[g] \cup {x}] /\ faults' = faults
                /\ failed' = failed
      \/ ~ok /\ content' = content /\ faults' = faults + 1
  <2>1. CASE ok
    BY <1>1, <2>1 DEF IInv, SinkTyped
  <2>2. CASE ~ok
    BY <1>1, <2>2
  <2> QED  BY <2>1, <2>2
<1>5. x = w.line /\ g = w.handle.file
  OBVIOUS
<1> HIDE DEF g, x
<1>6. /\ content' \in [Files -> SUBSET Queries]
      /\ \A f \in Files : content[f] \subseteq content'[f]
                            /\ content'[f] \subseteq content[f] \cup {x}
      /\ \A f \in Files : x \in content'[f] => f = g \/ x \in content[f]
      /\ ok => x \in content'[g]
  BY <1>2, <1>3, <1>4
<1>7. SinkTyped'
  BY <1>1, <1>4, <1>6 DEF IInv, SinkTyped
<1>8. InOnePlace'
  <2>1. \A f \in Files : x \notin content[f]
    BY <1>5 DEF IInv, InOnePlace
  <2>2. \A v \in writes' : v.line # x
    BY <1>1, <1>5 DEF IInv, InOnePlace
  <2>3. \A f, h \in Files : f # h => content'[f] \cap content'[h] = {}
    BY <1>2, <1>6, <2>1 DEF IInv, InOnePlace
  <2> QED  BY <1>1, <1>2, <1>6, <2>1, <2>2, <2>3 DEF IInv, InOnePlace
<1>9. Counted'
  <2>1. CASE code = "SIGHUP"
    BY <1>1, <2>1 DEF IInv, Counted
  <2>2. CASE code # "SIGHUP"
    <3>1. /\ Cardinality(Lost) + Debt <= 2 * faults
          /\ Cardinality(Lost) \in Nat /\ faults \in Nat /\ IsFiniteSet(Lost)
      BY <2>2, LostFinite DEF IInv, Counted, SinkTyped
    <3>2. CASE ok
      <4>1. \A q \in logged : (\E f \in Files : q \in content[f]) \/ (\E v \in writes : v.line = q)
              => (\E f \in Files : q \in content'[f]) \/ (\E v \in writes' : v.line = q)
        BY <1>1, <1>2, <1>5, <1>6, <3>2
      <4>2. Lost' \subseteq Lost
        BY <1>1, <4>1 DEF Lost
      <4>3. Cardinality(Lost') \in Nat /\ Cardinality(Lost') <= Cardinality(Lost)
        BY <3>1, <4>2, NoMore
      <4>4. Debt' = Debt /\ Debt \in {0, 1} /\ faults' = faults
        BY <1>4, <3>2 DEF Debt
      <4> QED  BY <1>1, <2>2, <3>1, <4>3, <4>4 DEF Counted
    <3>3. CASE ~ok
      <4>1. Lost' \subseteq Lost \cup {x}
        BY <1>1, <1>5, <1>6 DEF Lost
      <4>2. Cardinality(Lost') \in Nat /\ Cardinality(Lost') <= Cardinality(Lost) + 1
        BY <3>1, <4>1, OneMore
      <4>3. Debt' \in {0, 1} /\ Debt \in {0, 1} /\ faults' = faults + 1
        BY <1>4, <3>3 DEF Debt
      <4> QED  BY <1>1, <2>2, <3>1, <4>2, <4>3 DEF Counted
    <3> QED  BY <3>2, <3>3
  <2> QED  BY <2>1, <2>2
<1> QED  BY <1>7, <1>8, <1>9 DEF IInv

\* The signal that kills the process is excused.
LEMMA SighupKeeps == ASSUME IInv, Sighup PROVE IInv'
<1>1. UNCHANGED <<path, file, fresh, failed, content, logged, faults>> /\ pc # "exited"
  BY DEF Sighup
<1>2. CASE pc \in {"spawning", "installing"}
  <2>1. /\ pc' = "exited" /\ code' = "SIGHUP" /\ writes' = {}
        /\ DOMAIN task' = Queries
        /\ \A q \in Queries : task[q] \in Past => task'[q] \in Past
    BY <1>2 DEF Sighup, Exit, Past
  <2>2. SinkTyped'
    BY <1>1, <2>1 DEF IInv, SinkTyped
  <2>3. InOnePlace'
    BY <1>1, <2>1 DEF IInv, SinkTyped, InOnePlace
  <2>4. Counted'
    BY <2>1 DEF Counted
  <2> QED  BY <2>2, <2>3, <2>4 DEF IInv
<1>3. CASE pc \notin {"spawning", "installing"}
  <2>1. UNCHANGED <<pc, code, task, writes>>
    BY <1>3 DEF Sighup
  <2> QED  BY <1>1, <2>1, SinkStays DEF IInv, SinkTyped
<1> QED  BY <1>2, <1>3

LEMMA InitIInv == Init => IInv
<1> SUFFICES ASSUME Init PROVE IInv
  OBVIOUS
<1>1. 0 \in Files /\ NoHandle \in Handles
  BY BoundsAssumption DEF Files, Handles, NoHandle
<1>2. SinkTyped
  BY <1>1 DEF Init, SinkTyped
<1>3. InOnePlace
  BY DEF Init, InOnePlace
<1>4. Lost = {} /\ Debt = 0 /\ faults = 0 /\ code = "none"
  BY DEF Init, Lost, Debt
<1>5. Counted
  BY <1>4, FS_EmptySet DEF Counted
<1> QED  BY <1>2, <1>3, <1>5 DEF IInv

LEMMA StepIInv == IInv /\ [Next]_vars => IInv'
<1> SUFFICES ASSUME IInv, [Next]_vars PROVE IInv'
  OBVIOUS
<1>1. CASE Run
  BY <1>1, RunKeeps, SwapKeeps, ShutdownKeeps DEF Run
<1>2. CASE HostsChange
  BY <1>2, RunKeeps
<1>3. CASE \E q \in Queries : Serve(q)
  BY <1>3, ServeKeeps, WriteLineKeeps DEF Serve
<1>4. CASE \E q \in Queries, l \in DOMAIN listener, ok \in BOOLEAN : Accept(q, l, ok)
  BY <1>4, ServeKeeps
<1>5. CASE \/ \E l \in DOMAIN listener : ListenerFails(l)
           \/ Rotate \/ UNCHANGED vars
  BY <1>5, QuietKeeps
<1>6. CASE EndWrites
  BY <1>6, WriteEndsKeeps DEF EndWrites
<1>7. CASE Sighup
  BY <1>7, SighupKeeps
<1> QED  BY <1>1, <1>2, <1>3, <1>4, <1>5, <1>6, <1>7 DEF Next

-----------------------------------------------------------------------------
(* The query log: before the answer                                        *)

\* A query that is answered has been logged or passed over, and a query passed
\* over is past logging without a line.
LoggedInv ==
  /\ DOMAIN reply = Queries /\ exempt \subseteq Queries
  /\ \A q \in Queries :
       task[q] \in {"replying", "answered"} /\ reply[q] = "answer" => q \in logged \cup exempt
  /\ \A q \in exempt : task[q] \in Past /\ q \notin logged

\* Queries that come to an end, or go on without an answer.
LEMMA LoggedQuiet ==
  ASSUME LoggedInv, IInv, UNCHANGED <<reply, exempt, logged>>, DOMAIN task' = Queries,
         \A q \in Queries : \/ task'[q] = task[q]
                            \/ task'[q] = "closed"
                            \/ task'[q] = "answered" /\ task[q] = "replying"
                            \/ task[q] \notin Past /\ task'[q] \notin Past
  PROVE  LoggedInv'
BY DEF LoggedInv, IInv, SinkTyped, Past

LEMMA LoggedServe ==
  ASSUME LoggedInv, IInv, NEW q \in Queries, Serve(q)
  PROVE  LoggedInv'
<1>t. DOMAIN task = Queries /\ DOMAIN reply = Queries
  BY DEF IInv, SinkTyped, LoggedInv
<1>1. ASSUME NEW ok \in BOOLEAN, ReadStream(q, ok) PROVE LoggedInv'
  BY <1>1, <1>t, LoggedQuiet DEF ReadStream, At, Past, sinkVars
<1>2. ASSUME NEW ok \in BOOLEAN, Handle(q, ok) PROVE LoggedInv'
  <2>1. /\ task[q] = "handling" /\ UNCHANGED logged
        /\ reply' = [reply EXCEPT ![q] = "answer"]
        /\ \/ task' = [task EXCEPT ![q] = "replying"] /\ exempt' = exempt \cup {q}
           \/ task' = [task EXCEPT ![q] = "logging"] /\ exempt' = exempt
    BY <1>2 DEF Handle, At, sinkVars
  <2>2. q \notin logged /\ q \notin exempt
    BY <2>1 DEF LoggedInv, IInv, InOnePlace, Past
  <2> QED  BY <1>t, <2>1, <2>2 DEF LoggedInv, Past
<1>3. ASSUME \/ ReadRequest(q) \/ Reject(q) \/ Reply(q) PROVE LoggedInv'
  <2>1. UNCHANGED <<exempt, logged>> /\ task[q] \in {"accepted", "handling", "replying"}
    BY <1>3 DEF ReadRequest, Reject, Reply, sinkVars
  <2>2. \/ At(q, "closed") /\ UNCHANGED reply
        \/ At(q, "handling") /\ UNCHANGED reply /\ task[q] = "accepted"
        \/ At(q, "answered") /\ UNCHANGED reply /\ task[q] = "replying"
        \/ At(q, "replying") /\ \E status \in {"404", "415", "405", "400"} :
                                  reply' = [reply EXCEPT ![q] = status]
    <3>1. \A r : Verdict(r) \in {"404", "415", "405", "400", "query"}
      BY DEF Verdict
    <3> QED  BY <1>3, <3>1 DEF ReadRequest, Reject, Reply, Refuse
  <2>3. CASE \E status \in {"404", "415", "405", "400"} :
               At(q, "replying") /\ reply' = [reply EXCEPT ![q] = status]
    BY <1>t, <2>1, <2>3 DEF At, LoggedInv, Past
  <2>4. CASE UNCHANGED reply
    BY <1>t, <2>1, <2>2, <2>4, LoggedQuiet DEF At, Past, LoggedInv
  <2> QED  BY <2>2, <2>3, <2>4
<1>4. ASSUME WriteLine(q) PROVE LoggedInv'
  <2>1. /\ task[q] = "logging" /\ task' = [task EXCEPT ![q] = "replying"]
        /\ logged' = logged \cup {q} /\ UNCHANGED <<reply, exempt>>
    BY <1>4 DEF WriteLine, At
  <2>2. q \notin exempt
    BY <2>1 DEF LoggedInv, Past
  <2> QED  BY <1>t, <2>1, <2>2 DEF LoggedInv, Past
<1> QED  BY <1>1, <1>2, <1>3, <1>4 DEF Serve

LEMMA LoggedStep == LoggedInv /\ IInv /\ [Next]_vars => LoggedInv'
<1> SUFFICES ASSUME LoggedInv, IInv, [Next]_vars PROVE LoggedInv'
  OBVIOUS
<1>t. DOMAIN task = Queries
  BY DEF IInv, SinkTyped
<1>1. CASE Run /\ ~Shutdown
  <2>1. UNCHANGED <<taskVars, logged>>
    BY <1>1 DEF Run, OpenLog, Upstream, Prepare, Bind, Notify, Spawn, InstallHandler, RecvSighup,
                OpenNew, Swap, Swapped, Leave, sinkVars
  <2> QED  BY <1>t, <2>1, LoggedQuiet DEF taskVars
<1>2. CASE Shutdown \/ Sighup
  <2>1. UNCHANGED <<reply, exempt, logged>>
    BY <1>2 DEF Shutdown, Sighup, sinkVars
  <2>2. \/ UNCHANGED task
        \/ task' = [q \in Queries |-> IF task[q] \in {"new", "answered"} THEN task[q] ELSE "closed"]
    BY <1>2 DEF Shutdown, Sighup
  <2> QED  BY <1>t, <2>1, <2>2, LoggedQuiet
<1>3. CASE \E q \in Queries : Serve(q)
  BY <1>3, LoggedServe
<1>4. CASE \E q \in Queries, l \in DOMAIN listener, ok \in BOOLEAN : Accept(q, l, ok)
  <2>1. PICK q \in Queries, l \in DOMAIN listener, ok \in BOOLEAN : Accept(q, l, ok)
    BY <1>4
  <2>2. UNCHANGED <<reply, exempt, logged>> /\ task[q] = "new"
    BY <2>1 DEF Accept, sinkVars
  <2>3. \E state \in {"handling", "accepted", "closed"} : task' = [task EXCEPT ![q] = state]
    BY <2>1 DEF Accept, At
  <2> QED  BY <1>t, <2>2, <2>3, LoggedQuiet DEF Past
<1>5. CASE \/ HostsChange \/ Rotate \/ UNCHANGED vars
           \/ \E l \in DOMAIN listener : ListenerFails(l)
           \/ EndWrites
  <2>1. UNCHANGED <<taskVars, logged>>
    BY <1>5 DEF HostsChange, Rotate, vars, ListenerFails, EndWrites, WriteEnds, sinkVars
  <2> QED  BY <1>t, <2>1, LoggedQuiet DEF taskVars
<1> QED  BY <1>1, <1>2, <1>3, <1>4, <1>5 DEF Next

\* What is due is what has been handed over.
LEMMA CountedBounds == IInv /\ LoggedInv => LossBounded
<1> SUFFICES ASSUME IInv, LoggedInv PROVE LossBounded
  OBVIOUS
<1>1. code = "SIGHUP" \/ Cardinality(Lost) <= 2 * faults
  <2>1. Cardinality(Lost) \in Nat /\ Debt \in {0, 1} /\ faults \in Nat
    BY LostFinite DEF IInv, SinkTyped, Debt
  <2> QED  BY <2>1 DEF IInv, Counted
<1>2. \A f, g \in Files : f # g => content[f] \cap content[g] = {}
  BY DEF IInv, InOnePlace
<1>3. \A f \in Files : content[f] \cap exempt = {}
  BY DEF IInv, InOnePlace, LoggedInv
<1>4. Due = logged
  BY DEF LoggedInv, Due
<1> QED  BY <1>1, <1>2, <1>3, <1>4 DEF LossBounded, Lost

-----------------------------------------------------------------------------
(* Start-up: the walk through hosts                                        *)

\* What one step of the walk makes of the rest of it.
WalkStep(tab, f, p) ==
  IF p[1] \in p[2] \/ tab[p[1]].kind = "miss"
  THEN [kind |-> "Network", name |-> p[1]]
  ELSE IF tab[p[1]].kind = "ips"
  THEN [kind |-> "Static", ips |-> tab[p[1]].ips]
  ELSE f[<<tab[p[1]].to, p[2] \cup {p[1]}>>]
WalkFrom == HostNames \X SUBSET HostNames
IsWalk(tab, f) == f = [p \in WalkFrom |-> WalkStep(tab, f, p)]

\* The names the walk has not visited, which bound its length.
Ahead(p) == Cardinality(HostNames \ p[2])

\* One alias further there is one name less ahead.
LEMMA OneAheadLess ==
  ASSUME NEW tab \in [HostNames -> Entries], NEW p \in WalkFrom,
         p[1] \notin p[2], tab[p[1]].kind \notin {"miss", "ips"}
  PROVE  LET q == <<tab[p[1]].to, p[2] \cup {p[1]}>> IN
         q \in WalkFrom /\ Ahead(q) \in Nat /\ Ahead(p) \in Nat /\ Ahead(p) = Ahead(q) + 1
<1> DEFINE x == p[1]
           V == p[2]
           q == <<tab[x].to, V \cup {x}>>
           S == HostNames \ V
<1>1. x \in HostNames /\ V \in SUBSET HostNames /\ x \in S
  BY DEF WalkFrom
<1>2. tab[x].to \in HostNames
  <2>1. tab[x] \in Entries
    BY <1>1
  <2> QED  BY <2>1 DEF Entries
<1>3. q \in WalkFrom
  BY <1>1, <1>2 DEF WalkFrom
<1>4. IsFiniteSet(S) /\ Cardinality(S) \in Nat
  BY HostNamesAssumption, FS_Subset, FS_CardinalityType
<1>5. Ahead(q) = Cardinality(S \ {x}) /\ Ahead(p) = Cardinality(S)
  <2>1. HostNames \ q[2] = S \ {x}
    OBVIOUS
  <2> QED  BY <2>1 DEF Ahead
<1> HIDE DEF x, V, S
<1>6. Cardinality(S) = Cardinality(S \ {x}) + 1 /\ Cardinality(S \ {x}) \in Nat
  <2>1. IsFiniteSet(S \ {x}) /\ x \notin S \ {x} /\ S = (S \ {x}) \cup {x}
    BY <1>1, <1>4, FS_Subset
  <2> QED  BY <2>1, FS_AddElement, FS_CardinalityType
<1>7. Ahead(q) \in Nat /\ Ahead(p) \in Nat /\ Ahead(p) = Ahead(q) + 1
  <2> HIDE DEF q
  <2> QED  BY <1>4, <1>5, <1>6
<1> QED  BY <1>3, <1>7 DEF x, V

LEMMA AheadIsNat ==
  ASSUME NEW p \in WalkFrom PROVE Ahead(p) \in Nat
<1>1. IsFiniteSet(HostNames \ p[2])
  BY HostNamesAssumption, FS_Subset
<1> QED  BY <1>1, FS_CardinalityType DEF Ahead

\* f walks where at most n names are ahead.
WalksUpTo(tab, f, n) == \A p \in WalkFrom : Ahead(p) <= n => f[p] = WalkStep(tab, f, p)

LEMMA NoneAhead ==
  ASSUME NEW tab \in [HostNames -> Entries], NEW p \in WalkFrom, NEW f, NEW g,
         \A q \in WalkFrom : Ahead(q) < Ahead(p) => f[q] = g[q]
  PROVE  WalkStep(tab, f, p) = WalkStep(tab, g, p)
<1>1. CASE p[1] \in p[2] \/ tab[p[1]].kind \in {"miss", "ips"}
  BY <1>1 DEF WalkStep
<1>2. CASE p[1] \notin p[2] /\ tab[p[1]].kind \notin {"miss", "ips"}
  <2> DEFINE q == <<tab[p[1]].to, p[2] \cup {p[1]}>>
  <2>1. q \in WalkFrom /\ Ahead(q) \in Nat /\ Ahead(p) \in Nat /\ Ahead(p) = Ahead(q) + 1
    BY <1>2, OneAheadLess
  <2>2. f[q] = g[q]
    <3> HIDE DEF q
    <3> QED  BY <2>1
  <2> QED  BY <1>2, <2>2 DEF WalkStep
<1> QED  BY <1>1, <1>2

\* One round more walks one name further.
LEMMA WalkGrows ==
  ASSUME NEW tab \in [HostNames -> Entries], NEW n \in Int, NEW f, WalksUpTo(tab, f, n)
  PROVE  WalksUpTo(tab, [p \in WalkFrom |-> WalkStep(tab, f, p)], n + 1)
<1> DEFINE g == [p \in WalkFrom |-> WalkStep(tab, f, p)]
<1> SUFFICES ASSUME NEW p \in WalkFrom, Ahead(p) <= n + 1
             PROVE  g[p] = WalkStep(tab, g, p)
  BY DEF WalksUpTo
<1>1. \A q \in WalkFrom : Ahead(q) < Ahead(p) => f[q] = g[q]
  BY AheadIsNat DEF WalksUpTo
<1>2. g[p] = WalkStep(tab, f, p)
  OBVIOUS
<1> HIDE DEF g
<1> QED  BY <1>1, <1>2, NoneAhead

LEMMA WalkExists ==
  ASSUME NEW tab \in [HostNames -> Entries]
  PROVE  \E f : IsWalk(tab, f)
<1> DEFINE Bad == {n \in Nat : ~\E f : WalksUpTo(tab, f, n)}
           N == Cardinality(HostNames)
<1>1. ASSUME Bad # {} PROVE FALSE
  <2>1. PICK n \in Bad : \A m \in Bad : n <= m
    <3>1. Bad \subseteq Nat
      OBVIOUS
    <3> HIDE DEF Bad
    <3> QED  BY <1>1, <3>1, LeastNat
  <2>2. n \in Nat /\ ~\E f : WalksUpTo(tab, f, n)
    BY <2>1
  <2>3. \E f : WalksUpTo(tab, f, n - 1)
    <3>1. CASE n = 0
      <4>1. WalksUpTo(tab, {}, n - 1)
        BY <3>1, AheadIsNat DEF WalksUpTo
      <4> QED  BY <4>1
    <3>2. CASE n # 0
      <4>1. n - 1 \in Nat /\ ~(n <= n - 1)
        BY <2>2, <3>2
      <4> QED  BY <2>1, <4>1
    <3> QED  BY <3>1, <3>2
  <2>4. PICK f : WalksUpTo(tab, f, n - 1)
    BY <2>3
  <2>5. WalksUpTo(tab, [p \in WalkFrom |-> WalkStep(tab, f, p)], n - 1 + 1)
    BY <2>2, <2>4, WalkGrows
  <2>6. n - 1 + 1 = n
    BY <2>2
  <2> QED  BY <2>2, <2>5, <2>6
<1>2. N \in Nat
  BY HostNamesAssumption, FS_CardinalityType
<1>3. PICK f : WalksUpTo(tab, f, N)
  BY <1>1, <1>2
<1>4. \A p \in WalkFrom : Ahead(p) <= N
  BY HostNamesAssumption, FS_Subset DEF Ahead
<1> DEFINE g == [p \in WalkFrom |-> WalkStep(tab, f, p)]
<1>5. \A p \in WalkFrom : g[p] = f[p]
  BY <1>3, <1>4 DEF WalksUpTo
<1>6. \A p \in WalkFrom : g[p] = WalkStep(tab, f, p)
  OBVIOUS
<1>7. \A p \in WalkFrom : WalkStep(tab, f, p) = WalkStep(tab, g, p)
  <2> HIDE DEF g
  <2> QED  BY <1>5, NoneAhead
<1>8. g = [p \in WalkFrom |-> WalkStep(tab, g, p)]
  <2>1. g = [p \in WalkFrom |-> g[p]]
    OBVIOUS
  <2> HIDE DEF g
  <2> QED  BY <1>6, <1>7, <2>1
<1> HIDE DEF g
<1> QED  BY <1>8 DEF IsWalk

LEMMA WalkIs ==
  ASSUME NEW tab \in [HostNames -> Entries]
  PROVE  \A p \in WalkFrom : walk(tab)[p] = WalkStep(tab, walk(tab), p)
<1>1. walk(tab) = CHOOSE f : IsWalk(tab, f)
  BY Zenon DEF walk, IsWalk, WalkStep, WalkFrom
<1>2. IsWalk(tab, CHOOSE f : IsWalk(tab, f))
  BY WalkExists
<1>3. IsWalk(tab, walk(tab))
  BY <1>1, <1>2
<1> QED  BY <1>3 DEF IsWalk

\* The walk ends: at addresses of hosts, or at a name to ask the network for.
Resolution(r) ==
  \/ r.kind = "Network" /\ r.name \in HostNames
  \/ r.kind = "Static" /\ r.ips \in Seq(Addresses)

LEMMA WalkEnds ==
  ASSUME NEW tab \in [HostNames -> Entries], NEW n \in HostNames
  PROVE  Resolution(walk(tab)[<<n, {}>>])
<1> DEFINE w == walk(tab)
           Bad == {k \in Nat : \E p \in WalkFrom : Ahead(p) = k /\ ~Resolution(w[p])}
<1>1. ASSUME Bad # {} PROVE FALSE
  <2>1. PICK k \in Bad : \A m \in Bad : k <= m
    <3>1. Bad \subseteq Nat
      OBVIOUS
    <3> HIDE DEF Bad
    <3> QED  BY <1>1, <3>1, LeastNat
  <2>2. PICK p \in WalkFrom : Ahead(p) = k /\ ~Resolution(w[p])
    BY <2>1
  <2>3. w[p] = WalkStep(tab, w, p)
    BY WalkIs
  <2> HIDE DEF w
  <2>4. p[1] \in HostNames /\ p[2] \in SUBSET HostNames
    BY DEF WalkFrom
  <2>5. tab[p[1]] \in Entries
    BY <2>4
  <2>6. CASE p[1] \in p[2] \/ tab[p[1]].kind = "miss"
    BY <2>2, <2>3, <2>4, <2>6 DEF WalkStep, Resolution
  <2>7. CASE p[1] \notin p[2] /\ tab[p[1]].kind = "ips"
    <3>1. tab[p[1]].ips \in Seq(Addresses)
      BY <2>5, <2>7 DEF Entries
    <3> QED  BY <2>2, <2>3, <2>7, <3>1 DEF WalkStep, Resolution
  <2>8. CASE p[1] \notin p[2] /\ tab[p[1]].kind \notin {"miss", "ips"}
    <3> DEFINE q == <<tab[p[1]].to, p[2] \cup {p[1]}>>
    <3>1. q \in WalkFrom /\ Ahead(q) \in Nat /\ Ahead(p) = Ahead(q) + 1
      BY <2>8, OneAheadLess
    <3>2. w[p] = w[q]
      BY <2>3, <2>8 DEF WalkStep
    <3> HIDE DEF q
    <3>3. Ahead(q) \in Bad
      BY <2>2, <3>1, <3>2
    <3>4. k <= Ahead(q)
      BY <2>1, <3>3
    <3> QED  BY <2>2, <3>1, <3>4
  <2> QED  BY <2>6, <2>7, <2>8
<1>2. <<n, {}>> \in WalkFrom
  BY DEF WalkFrom
<1> HIDE DEF w
<1> QED  BY <1>1, <1>2, AheadIsNat DEF w

-----------------------------------------------------------------------------
(* Start-up: pools                                                         *)

\* What a sequence holds; s holds the elements of S, none of them twice.
Elements(s) == {s[k] : k \in 1 .. Len(s)}
OneEach(s, S) == DOMAIN s = 1 .. Len(s) /\ Elements(s) = S /\ Len(s) = Cardinality(S)

LEMMA ElementsFinite ==
  ASSUME NEW T, NEW s \in Seq(T)
  PROVE  IsFiniteSet(Elements(s)) /\ Elements(s) \in SUBSET T
<1> DEFINE E == Elements(s)
           f == [k \in 1 .. Len(s) |-> s[k]]
<1>1. Len(s) \in Nat /\ E \in SUBSET T
  BY DEF Elements
<1>2. IsFiniteSet(1 .. Len(s))
  BY <1>1, FS_Interval
<1>3. f \in Surjection(1 .. Len(s), E)
  <2>1. f \in [1 .. Len(s) -> E]
    BY DEF Elements
  <2>2. \A x \in E : \E k \in 1 .. Len(s) : f[k] = x
    BY DEF Elements
  <2> QED  BY <2>1, <2>2 DEF Surjection
<1> QED  BY <1>1, <1>2, <1>3, FS_Surjection

\* Sorting a set of addresses and dropping doubles leaves each once.
LEMMA SortedOnce ==
  ASSUME NEW S \in SUBSET Addresses, IsFiniteSet(S)
  PROVE  /\ SortDedup(S) \in Seq(Addresses) /\ OneEach(SortDedup(S), S)
         /\ SortDedup(S) = << >> <=> S = {}
<1> DEFINE R == {p \in S \X S : Before(p[1], p[2])}
           o == SortDedup(S)
           n == Cardinality(S)
<1>1. \A x \in S : x \in Addresses /\ x = [type |-> x.type, ip |-> x.ip]
                   /\ x.type \in {"A", "AAAA"} /\ x.ip \in Nat
  BY DEF Addresses, Families
<1>2. StrictOrder(S, R)
  <2>1. \A x \in S : <<x, x>> \notin R
    BY <1>1 DEF Before
  <2>2. \A x, y \in S : x # y => <<x, y>> \in R \/ <<y, x>> \in R
    <3> SUFFICES ASSUME NEW x \in S, NEW y \in S, x # y PROVE <<x, y>> \in R \/ <<y, x>> \in R
      OBVIOUS
    <3>1. x.type # y.type \/ x.ip # y.ip
      BY <1>1
    <3>2. Before(x, y) \/ Before(y, x)
      BY <1>1, <3>1 DEF Before
    <3> QED  BY <3>2
  <2>3. \A x, y, z \in S : <<x, y>> \in R /\ <<y, z>> \in R => <<x, z>> \in R
    BY <1>1 DEF Before
  <2> QED  BY <2>1, <2>2, <2>3 DEF StrictOrder
<1>3. o = Ordered(S, R)
  BY DEF SortDedup
<1> HIDE DEF R, o, n
<1>4. /\ n \in Nat /\ o \in [1 .. n -> S]
      /\ \A x \in S : \E k \in 1 .. n : o[k] = x
  BY <1>2, <1>3, OrderedLists DEF n
<1>5. o \in Seq(Addresses) /\ Len(o) = n /\ DOMAIN o = 1 .. n
  BY <1>4
<1>6. Elements(o) = S
  BY <1>4, <1>5 DEF Elements
<1>7. n = 0 <=> S = {}
  BY FS_EmptySet DEF n
<1>8. o = << >> <=> S = {}
  BY <1>5, <1>6, <1>7 DEF Elements
<1> QED  BY <1>5, <1>6, <1>8 DEF OneEach, o, n

LEMMA RankIsInt ==
  ASSUME NEW b, Len(b.cidrs) \in Nat, NEW r
  PROVE  rank(b, r) \in Int
<1> DEFINE hits == {i \in 1 .. Len(b.cidrs) : contains(b.cidrs[i], r)}
<1>1. hits \subseteq Nat
  OBVIOUS
<1>2. rank(b, r) = IF hits = {} THEN Len(b.cidrs)
                   ELSE (CHOOSE i \in hits : \A j \in hits : i <= j) - 1
  BY DEF rank
<1> HIDE DEF hits
<1>3. hits # {} => (CHOOSE i \in hits : \A j \in hits : i <= j) \in Nat
  BY <1>1, LeastNat
<1> QED  BY <1>2, <1>3

\* Ranking addresses moves them only.
LEMMA RankMoves ==
  ASSUME NEW b, Len(b.cidrs) \in Nat, NEW s \in Seq(Addresses)
  PROVE  rank_ips(b, s) \in Seq(Addresses) /\ Elements(rank_ips(b, s)) = Elements(s)
<1>1. CASE ~b.enabled \/ b.cidrs = << >>
  BY <1>1 DEF rank_ips
<1>2. CASE ~(~b.enabled \/ b.cidrs = << >>)
  <2> DEFINE n == Len(s)
             key == [i \in 1 .. n |-> rank(b, s[i])]
             p == StableOrder(key)
             x == rank_ips(b, s)
  <2>1. n \in Nat /\ key \in [1 .. n -> Int]
    BY RankIsInt
  <2>2. x = [i \in 1 .. n |-> s[p[i]]]
    BY <1>2 DEF rank_ips
  <2> HIDE DEF key, p, x
  <2>3. p \in [1 .. n -> 1 .. n] /\ \A i \in 1 .. n : \E k \in 1 .. n : p[k] = i
    <3> HIDE DEF n
    <3> QED  BY <2>1, StableOrderPermutes DEF p
  <2>4. x \in [1 .. n -> Addresses] /\ \A k \in 1 .. n : x[k] = s[p[k]]
    BY <2>2, <2>3
  <2>5. x \in Seq(Addresses) /\ Len(x) = n
    <3> HIDE DEF n
    <3> QED  BY <2>1, <2>4
  <2>6. Elements(x) = Elements(s)
    <3>1. Elements(x) = {x[k] : k \in 1 .. n} /\ Elements(s) = {s[k] : k \in 1 .. n}
      BY <2>5 DEF Elements
    <3> HIDE DEF n
    <3>2. \A k \in 1 .. n : p[k] \in 1 .. n /\ x[k] = s[p[k]]
      BY <2>3, <2>4
    <3>3. \A i \in 1 .. n : \E k \in 1 .. n : s[i] = x[k]
      <4> SUFFICES ASSUME NEW i \in 1 .. n PROVE \E k \in 1 .. n : s[i] = x[k]
        OBVIOUS
      <4>1. PICK k \in 1 .. n : p[k] = i
        BY <2>3
      <4>2. x[k] = s[i]
        BY <3>2, <4>1
      <4> QED  BY <4>2
    <3>4. {x[k] : k \in 1 .. n} = {s[k] : k \in 1 .. n}
      <4>1. \A k \in 1 .. n : x[k] \in {s[i] : i \in 1 .. n}
        BY <3>2
      <4>2. \A i \in 1 .. n : s[i] \in {x[k] : k \in 1 .. n}
        BY <3>3
      <4> QED  BY <4>1, <4>2
    <3> QED  BY <3>1, <3>4
  <2> QED  BY <2>5, <2>6 DEF x
<1> QED  BY <1>1, <1>2

LEMMA BalanceParsed ==
  ASSUME setup \in Setups
  PROVE  Len(balance.cidrs) \in Nat
<1> DEFINE raw == setup.raw
<1>1. CASE raw.section \in {"absent", "invalid"}
  BY <1>1 DEF balance, init, Inert
<1>2. CASE raw.section \notin {"absent", "invalid"}
  <2> DEFINE I == {i \in DOMAIN raw.prefers : ParsesCidr(raw.prefers[i])}
             Cidrs == [family : Families, net : Nat, prefix : Nat]
  <2>1. raw.prefers \in Seq(Cidrs)
    BY <1>2, SetupsAssumption
  <2>2. I \in SUBSET (1 .. Len(raw.prefers))
    BY <2>1
  <2>3. balance.cidrs = Picked(raw.prefers, I)
    BY <1>2 DEF balance, init
  <2> HIDE DEF raw, I, Cidrs
  <2>4. Picked(raw.prefers, I) \in Seq(Cidrs)
    BY <2>1, <2>2, PickedKeeps
  <2> QED  BY <2>3, <2>4
<1> QED  BY <1>1, <1>2

\* A pool holds the addresses it is built of, each once.
LEMMA PoolHolds ==
  ASSUME setup \in Setups, NEW s \in Seq(Addresses)
  PROVE  /\ OneEach(build_resolved_pool(s), Elements(s))
         /\ s # << >> => build_resolved_pool(s) # << >>
<1> DEFINE x == rank_ips(balance, s)
<1>1. x \in Seq(Addresses) /\ Elements(x) = Elements(s)
  BY BalanceParsed, RankMoves
<1>2. build_resolved_pool(s) = SortDedup(Elements(x))
  BY DEF build_resolved_pool, with_proto, Elements
<1> HIDE DEF x
<1>3. Elements(s) \in SUBSET Addresses /\ IsFiniteSet(Elements(s))
  BY ElementsFinite
<1>4. s # << >> => Elements(s) # {}
  <2>1. s # << >> => 1 \in 1 .. Len(s)
    OBVIOUS
  <2> QED  BY <2>1 DEF Elements
<1> QED  BY <1>1, <1>2, <1>3, <1>4, SortedOnce

\* The addresses hosts has of a family.
LEMMA FamilyPicked ==
  ASSUME NEW ips \in Seq(Addresses), NEW family
  PROVE  /\ ips_to_addrs(ips, family) \in Seq(Addresses)
         /\ Elements(ips_to_addrs(ips, family))
              = {ips[k] : k \in {j \in 1 .. Len(ips) : OfFamily(ips[j], family)}}
         /\ ips_to_addrs(ips, family) = << >> <=> Elements(ips_to_addrs(ips, family)) = {}
<1> DEFINE I == {j \in 1 .. Len(ips) : OfFamily(ips[j], family)}
           p == ips_to_addrs(ips, family)
<1>1. I \in SUBSET (1 .. Len(ips)) /\ p = Picked(ips, I)
  BY DEF ips_to_addrs
<1> HIDE DEF I, p
<1>2. /\ p \in Seq(Addresses)
      /\ \A i \in I : \E k \in 1 .. Len(p) : p[k] = ips[i]
      /\ \A k \in 1 .. Len(p) : \E i \in I : p[k] = ips[i]
  BY <1>1, PickedKeeps
<1>3. Elements(p) = {ips[k] : k \in I}
  BY <1>2 DEF Elements
<1>4. p = << >> <=> Elements(p) = {}
  <2>1. p # << >> => 1 \in 1 .. Len(p)
    BY <1>2
  <2>2. p = << >> => 1 .. Len(p) = {}
    OBVIOUS
  <2> QED  BY <2>1, <2>2 DEF Elements
<1> QED  BY <1>2, <1>3, <1>4 DEF I, p

-----------------------------------------------------------------------------
(* Start-up: the invariant                                                 *)

BootTyped ==
  /\ setup \in Setups /\ table \in setup.tables
  /\ reloads \in Nat /\ at \in Nat /\ asked \in HostNames
  /\ DOMAIN pools = Servers /\ DOMAIN seen = Servers

\* The servers before `at` have been resolved.
Placed ==
  /\ phase = "checking" => at = 0
  /\ phase \in {"resolving", "asking"} => at \in DynamicServers
  /\ Done => at = Len(setup.servers) + 1

\* The name the network is asked for on behalf of server i.
NamedFor(i, n) ==
  LET own == config(i).server_name
      r == resolve_host_name(own)
  IN \/ r.kind = "Network" /\ n = r.name
     \/ r.kind = "Static" /\ HostsAddrs(i, r) = {} /\ n = own

\* Failures are of the servers asked for so far; the addresses collected are
\* those of the clients that answered.
Asking ==
  /\ \A f \in failures : f[1] \in Nat /\ f[1] <= at
                            /\ (phase \notin {"asking", "failed"} => f[1] < at)
  /\ phase = "asking" =>
       /\ pending \subseteq Asks(config(at).prefer_family)
       /\ \A q \in pending : <<at, q>> \notin failures
       /\ addrs = {r \in Replies[asked] : \E q \in Heard(at) \ pending : q[2] = r.type}
       /\ reloads = 0 => NamedFor(at, asked)

Justified(i) ==
  IF seen[i].kind = "Static" THEN HostsAddrs(i, seen[i]) ELSE NetworkAddrs(i, seen[i].name)

ResolvedAt(i) ==
  /\ pools[i] # << >> /\ OneEach(pools[i], Justified(i))
  /\ reloads = 0 => Resolvable(i)

Resolved ==
  /\ \A i \in IpServers : pools[i] # << >>
  /\ \A i \in DynamicServers : IF i < at THEN ResolvedAt(i) ELSE pools[i] = << >>
  /\ phase = "failed" /\ reloads = 0 => \E i \in DynamicServers : ~Resolvable(i)

BootInv == BootTyped /\ Placed /\ Asking /\ Resolved

LEMMA ServersParsed ==
  ASSUME setup \in Setups
  PROVE  /\ Servers = 1 .. Len(setup.servers) /\ Len(setup.servers) \in Nat
         /\ \A i \in Servers : config(i).kind \in {"none", "pool", "resolve"}
         /\ \A i \in Servers : config(i).kind = "resolve" => config(i).server_name \in HostNames
<1>1. setup.servers \in Seq(Upstreams)
  BY SetupsAssumption
<1>2. Servers = 1 .. Len(setup.servers) /\ Len(setup.servers) \in Nat
  BY <1>1 DEF Servers
<1>3. ASSUME NEW s \in Upstreams
      PROVE  /\ parse_upstream(s).kind \in {"none", "pool", "resolve"}
             /\ parse_upstream(s).kind = "resolve" => parse_upstream(s).server_name \in HostNames
  <2>1. /\ s.form \in {"v4", "v6", "v6dec", "v6b", "domain", "empty"}
        /\ s.port \in {"absent", "good", "bad"} /\ s.name \in HostNames
    BY DEF Upstreams, Literals
  <2>2. \A c \in {Unparsed, Pool(s), NeedResolve(s.name, s), NeedResolve(Garbled, s)} :
          /\ c.kind \in {"none", "pool", "resolve"}
          /\ c.kind = "resolve" => c.server_name \in HostNames
    BY <2>1, HostNamesAssumption DEF Unparsed, Pool, NeedResolve
  <2> DEFINE C == {Unparsed, Pool(s), NeedResolve(s.name, s), NeedResolve(Garbled, s)}
  <2>3. PlainAddress(s) \in C
    BY DEF PlainAddress
  <2>4. SecureAddress(s) \in C
    BY DEF SecureAddress
  <2>5. UrlAddress(s) \in C
    BY <2>1 DEF UrlAddress
  <2>6. OddAddress(s) \in C
    BY DEF OddAddress
  <2>7. parse_upstream(s) \in C
    <3> HIDE DEF C
    <3> QED  BY <2>3, <2>4, <2>5, <2>6 DEF parse_upstream, QuicAddress
  <2> QED  BY <2>2, <2>7
<1>4. \A i \in Servers : setup.servers[i] \in Upstreams
  BY <1>1, <1>2
<1> QED  BY <1>2, <1>3, <1>4 DEF config

LEMMA SameSetup ==
  ASSUME UNCHANGED setup
  PROVE  /\ Servers' = Servers /\ DynamicServers' = DynamicServers /\ IpServers' = IpServers
         /\ \A i : config(i)' = config(i)
         /\ \A i, r : HostsAddrs(i, r)' = HostsAddrs(i, r)
<1>1. Servers' = Servers
  BY DEF Servers
<1>2. \A i : config(i)' = config(i)
  BY DEF config
<1>3. DynamicServers' = DynamicServers /\ IpServers' = IpServers
  BY <1>1, <1>2 DEF DynamicServers, IpServers
<1>4. \A i, r : HostsAddrs(i, r)' = HostsAddrs(i, r)
  BY <1>2 DEF HostsAddrs
<1> QED  BY <1>1, <1>2, <1>3, <1>4

\* What a server's failures say stays, if it has no new one.
LEMMA SameFailures ==
  ASSUME UNCHANGED setup, NEW i, \A q : <<i, q>> \in failures' <=> <<i, q>> \in failures
  PROVE  /\ Heard(i)' = Heard(i)
         /\ \A n : NetworkAddrs(i, n)' = NetworkAddrs(i, n)
         /\ UNCHANGED table => Resolvable(i)' = Resolvable(i)
         /\ seen'[i] = seen[i] => Justified(i)' = Justified(i)
<1>1. /\ config(i)' = config(i)
      /\ IpServers' = IpServers /\ \A r : HostsAddrs(i, r)' = HostsAddrs(i, r)
  BY SameSetup
<1>2. Heard(i)' = Heard(i)
  BY <1>1 DEF Heard, Asks
<1>3. \A n : NetworkAddrs(i, n)' = NetworkAddrs(i, n)
  BY <1>2 DEF NetworkAddrs
<1>4. ASSUME UNCHANGED table PROVE Resolvable(i)' = Resolvable(i)
  <2>1. \A n : resolve_host_name(n)' = resolve_host_name(n)
    BY <1>4 DEF resolve_host_name
  <2> QED  BY <1>1, <1>3, <2>1 DEF Resolvable
<1>5. ASSUME seen'[i] = seen[i] PROVE Justified(i)' = Justified(i)
  BY <1>1, <1>3, <1>5 DEF Justified
<1> QED  BY <1>2, <1>3, <1>4, <1>5

-----------------------------------------------------------------------------
(* Start-up: the steps                                                     *)

\* The servers are resolved in ascending order, none is passed over.
LEMMA NextOne ==
  ASSUME setup \in Setups, NEW i \in DynamicServers \cup {0}
  PROVE  /\ NextServer(i) \in Nat /\ i < NextServer(i)
         /\ \/ NextServer(i) \in DynamicServers
            \/ NextServer(i) = Len(setup.servers) + 1 /\ NextServer(i) \notin Servers
         /\ \A k \in DynamicServers : k < NextServer(i) <=> k <= i
<1> DEFINE rest == {j \in DynamicServers : j > i}
           n == Len(setup.servers)
<1>1. /\ Servers = 1 .. n /\ n \in Nat
      /\ DynamicServers \subseteq Servers
  BY ServersParsed DEF DynamicServers
<1>2. NextServer(i) = IF rest = {} THEN n + 1 ELSE CHOOSE j \in rest : \A k \in rest : j <= k
  BY DEF NextServer
<1>3. rest \subseteq Nat /\ i \in Nat /\ i < n + 1
  <2>1. \A k \in DynamicServers : k \in Nat /\ k < n + 1
    BY <1>1
  <2>2. 0 \in Nat /\ 0 < n + 1
    BY <1>1
  <2> QED  BY <2>1, <2>2
<1>4. CASE rest = {}
  <2>1. NextServer(i) = n + 1
    BY <1>2, <1>4
  <2>2. \A k \in DynamicServers : k \in Nat /\ k <= n /\ k <= i
    BY <1>1, <1>3, <1>4
  <2> QED  BY <1>1, <1>3, <2>1, <2>2
<1>5. CASE rest # {}
  <2> DEFINE j == NextServer(i)
  <2>1. j \in rest /\ \A k \in rest : j <= k
    <3>1. \E x \in rest : \A k \in rest : x <= k
      <4> HIDE DEF rest
      <4> QED  BY <1>3, <1>5, LeastNat
    <3> HIDE DEF rest
    <3> QED  BY <1>2, <1>5, <3>1
  <2> HIDE DEF j
  <2>2. j \in DynamicServers /\ j > i /\ j \in Nat
    BY <1>1, <2>1
  <2>3. \A k \in DynamicServers : k < j <=> k <= i
    BY <1>1, <1>3, <2>1, <2>2
  <2> QED  BY <2>2, <2>3 DEF j
<1> QED  BY <1>4, <1>5

LEMMA Proceeds ==
  ASSUME setup \in Setups, UNCHANGED setup, NEW i \in DynamicServers \cup {0}, Proceed(i)
  PROVE  /\ Placed' /\ at' \in Nat /\ i < at' /\ phase' \in {"resolving", "resolved"}
         /\ \A k \in DynamicServers : k < at' <=> k <= i
<1>1. at' = NextServer(i) /\ phase' = IF at' \in Servers THEN "resolving" ELSE "resolved"
  BY DEF Proceed
<1>2. /\ at' \in Nat /\ i < at'
      /\ \/ at' \in DynamicServers
         \/ at' = Len(setup.servers) + 1 /\ at' \notin Servers
      /\ \A k \in DynamicServers : k < at' <=> k <= i
  BY <1>1, NextOne
<1>3. DynamicServers \subseteq Servers /\ DynamicServers' = DynamicServers
  BY SameSetup DEF DynamicServers
<1>4. Placed'
  BY <1>1, <1>2, <1>3 DEF Placed, Done
<1> QED  BY <1>1, <1>2, <1>4

LEMMA InitBoot == BootInit => BootInv
<1> SUFFICES ASSUME BootInit PROVE BootInv
  OBVIOUS
<1>1. BootTyped
  BY HostNamesAssumption DEF BootInit, BootTyped
<1>2. Placed
  BY DEF BootInit, Placed, Done
<1>3. Asking
  BY DEF BootInit, Asking
<1>4. Resolved
  <2>1. \A i \in IpServers : pools[i] # << >>
    BY DEF BootInit, IpServers
  <2>2. \A i \in DynamicServers : pools[i] = << >> /\ ~(i < at)
    <3>1. \A i \in DynamicServers :
            i \in Nat /\ i > 0 /\ config(i).kind = "resolve" /\ i \in Servers
      BY ServersParsed, <1>1 DEF DynamicServers, BootTyped
    <3> QED  BY <3>1 DEF BootInit
  <2> QED  BY <2>1, <2>2 DEF BootInit, Resolved
<1> QED  BY <1>1, <1>2, <1>3, <1>4 DEF BootInv

\* What a server's name is, to the hosts table.
LEMMA NameResolved ==
  ASSUME BootTyped, NEW i \in DynamicServers
  PROVE  /\ Resolution(resolve_host_name(config(i).server_name))
         /\ config(i).server_name \in HostNames
<1>1. config(i).server_name \in HostNames
  BY ServersParsed DEF BootTyped, DynamicServers
<1>2. table \in [HostNames -> Entries]
  BY SetupsAssumption DEF BootTyped
<1> QED  BY <1>1, <1>2, WalkEnds DEF resolve_host_name

\* Init gives up at once if hosts does not know a name and there is nobody to ask.
LEMMA CheckBoot == ASSUME BootInv, Check PROVE BootInv'
<1>1. /\ UNCHANGED <<setup, table, reloads, asked, pending, addrs, pools, seen, failures>>
      /\ phase = "checking"
  BY DEF Check
<1>2. at = 0
  BY <1>1 DEF BootInv, Placed
<1>3. /\ Servers' = Servers /\ DynamicServers' = DynamicServers /\ IpServers' = IpServers
      /\ \A i \in DynamicServers : i \in Nat /\ i > 0
  BY <1>1, SameSetup, ServersParsed DEF BootInv, BootTyped, DynamicServers
<1>4. CASE IpServers = {} /\ NeedsNetwork
  <2>1. phase' = "failed" /\ at' = at
    BY <1>4 DEF Check
  <2>2. PICK i \in DynamicServers : resolve_host_name(config(i).server_name).kind # "Static"
    BY <1>4 DEF NeedsNetwork
  <2>3. resolve_host_name(config(i).server_name).kind = "Network"
    BY <2>2, NameResolved DEF BootInv, Resolution
  <2>4. ~Resolvable(i)
    <3>1. Heard(i) = {}
      BY <1>4 DEF Heard, Asks
    <3> QED  BY <2>3, <3>1 DEF Resolvable, NetworkAddrs
  <2>5. Resolvable(i)' = Resolvable(i)
    BY <1>1, SameFailures
  <2>6. BootTyped'
    BY <1>1, <1>2, <1>3, <2>1 DEF BootInv, BootTyped
  <2>7. Placed' /\ Asking'
    BY <1>1, <1>2, <2>1 DEF BootInv, Placed, Asking, Done
  <2>8. Resolved'
    <3>1. \A k \in DynamicServers : ~(k < at') /\ pools'[k] = << >>
      BY <1>1, <1>2, <1>3, <2>1 DEF BootInv, Resolved
    <3>2. \A k \in IpServers' : pools'[k] # << >>
      BY <1>1, <1>3 DEF BootInv, Resolved
    <3>3. \E k \in DynamicServers' : ~Resolvable(k)'
      BY <1>3, <2>4, <2>5
    <3> QED  BY <1>3, <3>1, <3>2, <3>3 DEF Resolved
  <2> QED  BY <2>6, <2>7, <2>8 DEF BootInv
<1>5. CASE ~(IpServers = {} /\ NeedsNetwork)
  <2>1. Proceed(0)
    BY <1>5 DEF Check
  <2>2. /\ Placed' /\ at' \in Nat /\ 0 < at' /\ phase' \in {"resolving", "resolved"}
        /\ \A k \in DynamicServers : k < at' <=> k <= 0
    BY <1>1, <2>1, Proceeds DEF BootInv, BootTyped
  <2>3. BootTyped'
    BY <1>1, <1>3, <2>2 DEF BootInv, BootTyped
  <2>4. Asking'
    <3>1. \A f \in failures : f[1] < 0
      BY <1>1, <1>2 DEF BootInv, Asking
    <3>2. \A f \in failures' : f[1] \in Nat /\ f[1] <= at' /\ f[1] < at'
      BY <1>1, <1>2, <2>2, <3>1 DEF BootInv, Asking
    <3> QED  BY <2>2, <3>2 DEF Asking
  <2>5. Resolved'
    <3>1. \A k \in DynamicServers : ~(k < at') /\ pools'[k] = << >>
      BY <1>1, <1>2, <1>3, <2>2 DEF BootInv, Resolved
    <3>2. \A k \in IpServers' : pools'[k] # << >>
      BY <1>1, <1>3 DEF BootInv, Resolved
    <3> QED  BY <1>3, <2>2, <3>1, <3>2 DEF Resolved
  <2> QED  BY <2>2, <2>3, <2>4, <2>5 DEF BootInv
<1> QED  BY <1>4, <1>5

\* A pool is built of the addresses found, and the next server comes.
LEMMA BuiltBoot ==
  ASSUME BootInv, at \in DynamicServers, UNCHANGED <<setup, table, reloads, asked, failures>>,
         NEW s \in Seq(Addresses), s # << >>, NEW how, Built(s, how),
         Elements(s) = IF how.kind = "Static" THEN HostsAddrs(at, how)
                       ELSE NetworkAddrs(at, how.name),
         reloads = 0 => Resolvable(at)
  PROVE  BootInv'
<1> DEFINE x == build_resolved_pool(s)
<1>1. /\ pools' = [pools EXCEPT ![at] = x] /\ seen' = [seen EXCEPT ![at] = how] /\ Proceed(at)
  BY DEF Built
<1>2. x # << >> /\ OneEach(x, Elements(s))
  BY PoolHolds DEF BootInv, BootTyped
<1> HIDE DEF x
<1>3. /\ Placed' /\ at' \in Nat /\ at < at' /\ phase' \in {"resolving", "resolved"}
      /\ \A k \in DynamicServers : k < at' <=> k <= at
  BY <1>1, Proceeds DEF BootInv, BootTyped
<1>4. /\ Servers' = Servers /\ DynamicServers' = DynamicServers /\ IpServers' = IpServers
      /\ DynamicServers \subseteq Servers /\ IpServers \subseteq Servers
      /\ \A k \in DynamicServers : k \in Nat /\ k \notin IpServers
  BY SameSetup, ServersParsed DEF BootInv, BootTyped, DynamicServers, IpServers
<1>5. DOMAIN pools = Servers /\ DOMAIN seen = Servers /\ at \in Nat
  BY DEF BootInv, BootTyped
<1>6. /\ pools'[at] = x /\ seen'[at] = how
      /\ \A k \in Servers : k # at => pools'[k] = pools[k] /\ seen'[k] = seen[k]
  BY <1>1, <1>4, <1>5
<1>7. BootTyped'
  BY <1>1, <1>3, <1>4 DEF BootInv, BootTyped
<1>8. Asking'
  <2>1. \A f \in failures : f[1] \in Nat /\ f[1] <= at
    BY DEF BootInv, Asking
  <2>2. \A f \in failures' : f[1] \in Nat /\ f[1] <= at' /\ f[1] < at'
    BY <1>3, <1>5, <2>1
  <2> QED  BY <1>3, <2>2 DEF Asking
<1>9. Resolved'
  <2>1. \A k \in IpServers' : pools'[k] # << >>
    BY <1>4, <1>6 DEF BootInv, Resolved
  <2>2. ASSUME NEW k \in DynamicServers
        PROVE  IF k < at' THEN ResolvedAt(k)' ELSE pools'[k] = << >>
    <3>0. /\ Resolvable(k)' = Resolvable(k)
          /\ seen'[k] = seen[k] => Justified(k)' = Justified(k)
      BY SameFailures
    <3>1. CASE k = at
      <4>1. seen'[k] = how
        BY <1>6, <3>1
      <4>2. Justified(k)' = Elements(s)
        <5>1. /\ HostsAddrs(k, how)' = HostsAddrs(at, how)
              /\ NetworkAddrs(k, how.name)' = NetworkAddrs(at, how.name)
          BY <3>1, SameSetup, SameFailures
        <5>2. Justified(k)' = IF how.kind = "Static" THEN HostsAddrs(k, how)'
                              ELSE NetworkAddrs(k, how.name)'
          BY <4>1 DEF Justified
        <5> QED  BY <5>1, <5>2
      <4>3. ResolvedAt(k)'
        BY <1>2, <1>6, <3>0, <3>1, <4>2 DEF ResolvedAt
      <4> QED  BY <1>3, <3>1, <4>3
    <3>2. CASE k # at /\ k < at
      <4>1. ResolvedAt(k) /\ pools'[k] = pools[k] /\ seen'[k] = seen[k]
        BY <1>4, <1>6, <3>2 DEF BootInv, Resolved
      <4>2. ResolvedAt(k)'
        BY <3>0, <4>1 DEF ResolvedAt
      <4>3. k < at'
        BY <1>3, <1>4, <1>5, <3>2
      <4> QED  BY <4>2, <4>3
    <3>3. CASE k # at /\ ~(k < at)
      <4>1. pools'[k] = << >>
        BY <1>4, <1>6, <3>3 DEF BootInv, Resolved
      <4>2. ~(k < at')
        BY <1>3, <1>4, <1>5, <3>3
      <4> QED  BY <4>1, <4>2
    <3> QED  BY <3>1, <3>2, <3>3
  <2> QED  BY <1>3, <1>4, <2>1, <2>2 DEF Resolved
<1> QED  BY <1>3, <1>7, <1>8, <1>9 DEF BootInv

\* Hosts has addresses of the family.
LEMMA FromHostsBoot == ASSUME BootInv, FromHosts PROVE BootInv'
<1> DEFINE c == config(at)
           r == resolve_host_name(c.server_name)
           s == ips_to_addrs(r.ips, c.prefer_family)
<1>1. /\ phase = "resolving" /\ r.kind = "Static" /\ s # << >> /\ Built(s, r)
      /\ UNCHANGED <<setup, table, reloads, asked, failures>>
  BY DEF FromHosts
<1>2. at \in DynamicServers
  BY <1>1 DEF BootInv, Placed
<1>3. r.ips \in Seq(Addresses)
  BY <1>1, <1>2, NameResolved DEF BootInv, Resolution
<1>4. s \in Seq(Addresses) /\ Elements(s) = HostsAddrs(at, r) /\ HostsAddrs(at, r) # {}
  BY <1>1, <1>3, FamilyPicked DEF HostsAddrs
<1>5. Resolvable(at)
  BY <1>1, <1>4 DEF Resolvable
<1> HIDE DEF r, s
<1>6. PICK how : how = r
  OBVIOUS
<1>7. PICK found : found = s
  OBVIOUS
<1>8. /\ found \in Seq(Addresses) /\ found # << >> /\ Built(found, how)
      /\ how.kind = "Static" /\ Elements(found) = HostsAddrs(at, how)
  BY <1>1, <1>4, <1>6, <1>7
<1> QED  BY <1>1, <1>2, <1>5, <1>8, BuiltBoot

\* The network is asked: nobody has answered or failed yet.
LEMMA AskBoot == ASSUME BootInv, AskNetwork PROVE BootInv'
<1> DEFINE c == config(at)
           r == resolve_host_name(c.server_name)
<1>1. /\ phase = "resolving" /\ phase' = "asking" /\ addrs' = {}
      /\ pending' = Asks(c.prefer_family)
      /\ UNCHANGED <<setup, table, reloads, at, pools, seen, failures>>
      /\ \/ r.kind = "Network" /\ asked' = r.name
         \/ /\ r.kind = "Static" /\ ips_to_addrs(r.ips, c.prefer_family) = << >>
            /\ asked' = c.server_name
  BY DEF AskNetwork
<1>2. at \in DynamicServers
  BY <1>1 DEF BootInv, Placed
<1>3. Resolution(r) /\ c.server_name \in HostNames
  BY <1>2, NameResolved DEF BootInv
<1>4. asked' \in HostNames
  BY <1>1, <1>3 DEF Resolution
<1>5. NamedFor(at, asked')
  <2>1. CASE r.kind = "Network" /\ asked' = r.name
    BY <2>1 DEF NamedFor
  <2>2. CASE /\ r.kind = "Static" /\ ips_to_addrs(r.ips, c.prefer_family) = << >>
             /\ asked' = c.server_name
    <3>1. r.ips \in Seq(Addresses)
      BY <1>3, <2>2 DEF Resolution
    <3>2. HostsAddrs(at, r) = {}
      BY <2>2, <3>1, FamilyPicked DEF HostsAddrs
    <3> QED  BY <2>2, <3>2 DEF NamedFor
  <2> QED  BY <1>1, <2>1, <2>2
<1>6. /\ Servers' = Servers /\ DynamicServers' = DynamicServers /\ IpServers' = IpServers
      /\ \A i : config(i)' = config(i) /\ Resolvable(i)' = Resolvable(i)
      /\ \A i : Justified(i)' = Justified(i) /\ Heard(i)' = Heard(i)
      /\ \A i, q : HostsAddrs(i, q)' = HostsAddrs(i, q)
  BY <1>1, SameSetup, SameFailures
<1>7. BootTyped'
  BY <1>1, <1>4, <1>6 DEF BootInv, BootTyped
<1>8. Placed'
  BY <1>1, <1>2, <1>6 DEF Placed, Done
<1>9. Asking'
  <2>1. \A f \in failures : f[1] \in Nat /\ f[1] < at
    BY <1>1 DEF BootInv, Asking
  <2>2. \A f \in failures' : f[1] \in Nat /\ f[1] <= at'
    BY <1>1, <2>1 DEF BootInv, BootTyped
  <2>3. \A q : <<at, q>> \notin failures
    <3> SUFFICES ASSUME NEW q, <<at, q>> \in failures PROVE FALSE
      OBVIOUS
    <3>1. <<at, q>>[1] < at /\ <<at, q>>[1] = at /\ at \in Nat
      BY <2>1 DEF BootInv, BootTyped
    <3> QED  BY <3>1
  <2>4. pending' = Asks(config(at).prefer_family)' /\ Heard(at)' = pending'
    BY <1>1, <1>6, <2>3 DEF Heard, Asks
  <2>5. addrs' = {q \in Replies[asked'] : \E p \in Heard(at)' \ pending' : p[2] = q.type}
    BY <1>1, <2>4
  <2>6. NamedFor(at, asked)'
    <3>1. \A n : resolve_host_name(n)' = resolve_host_name(n)
      BY <1>1 DEF resolve_host_name
    <3> QED  BY <1>1, <1>5, <1>6, <3>1 DEF NamedFor
  <2>7. \A q \in pending' : <<at', q>> \notin failures'
    BY <1>1, <2>3
  <2> QED  BY <1>1, <2>2, <2>4, <2>5, <2>6, <2>7 DEF Asking
<1>10. Resolved'
  BY <1>1, <1>6 DEF BootInv, Resolved, ResolvedAt
<1> QED  BY <1>7, <1>8, <1>9, <1>10 DEF BootInv

\* A bootstrap query ends.
LEMMA AnswerBoot ==
  ASSUME BootInv, NEW q \in pending, NEW ok \in BOOLEAN, Answer(q, ok)
  PROVE  BootInv'
<1>1. /\ phase = "asking" /\ pending' = pending \ {q}
      /\ addrs' = IF ok THEN addrs \cup {r \in Replies[asked] : r.type = q[2]} ELSE addrs
      /\ failures' = IF ok THEN failures ELSE failures \cup {<<at, q>>}
      /\ UNCHANGED <<setup, table, reloads, phase, at, asked, pools, seen>>
  BY DEF Answer
<1>2. PICK i \in DynamicServers : i = at
  BY <1>1 DEF BootInv, Placed
<1>3. /\ Servers' = Servers /\ DynamicServers' = DynamicServers /\ IpServers' = IpServers
      /\ \A k : config(k)' = config(k)
  BY <1>1, SameSetup
<1>4. \A p : <<i, p>> \in failures' <=> <<i, p>> \in failures \/ (~ok /\ p = q)
  BY <1>1, <1>2
<1>5. /\ Heard(i)' = IF ok THEN Heard(i) ELSE Heard(i) \ {q}
      /\ q \in Heard(i) /\ pending \subseteq Heard(i)
  <2>1. /\ pending \subseteq Asks(config(i).prefer_family)
        /\ \A p \in pending : <<i, p>> \notin failures
    BY <1>1, <1>2 DEF BootInv, Asking
  <2>2. Asks(config(i).prefer_family)' = Asks(config(i).prefer_family)
    BY <1>3 DEF Asks
  <2> QED  BY <1>3, <1>4, <2>1, <2>2 DEF Heard
<1>6. BootTyped'
  BY <1>1, <1>3 DEF BootInv, BootTyped
<1>7. Placed'
  BY <1>1, <1>3 DEF BootInv, Placed, Done
<1>8. Asking'
  <2>1. \A f \in failures' : f[1] \in Nat /\ f[1] <= at'
    <3>1. \A f \in failures : f[1] \in Nat /\ f[1] <= at
      BY DEF BootInv, Asking
    <3>2. <<at, q>>[1] = at /\ at \in Nat
      BY DEF BootInv, BootTyped
    <3> QED  BY <1>1, <3>1, <3>2
  <2>2. pending' \subseteq Asks(config(i).prefer_family)'
    BY <1>1, <1>2, <1>3 DEF BootInv, Asking, Asks
  <2>3. \A p \in pending' : <<i, p>> \notin failures'
    BY <1>1, <1>2, <1>4 DEF BootInv, Asking
  <2>4. addrs' = {r \in Replies[asked'] : \E p \in Heard(i)' \ pending' : p[2] = r.type}
    <3>1. addrs = {r \in Replies[asked] : \E p \in Heard(i) \ pending : p[2] = r.type}
      BY <1>1, <1>2 DEF BootInv, Asking
    <3>2. CASE ok
      <4>1. Heard(i)' \ pending' = (Heard(i) \ pending) \cup {q}
        BY <1>1, <1>5, <3>2
      <4> QED  BY <1>1, <3>1, <3>2, <4>1
    <3>3. CASE ~ok
      <4>1. Heard(i)' \ pending' = Heard(i) \ pending
        BY <1>1, <1>5, <3>3
      <4> QED  BY <1>1, <3>1, <3>3, <4>1
    <3> QED  BY <3>2, <3>3
  <2>5. reloads' = 0 => NamedFor(i, asked)'
    <3>1. \A n : resolve_host_name(n)' = resolve_host_name(n)
      BY <1>1 DEF resolve_host_name
    <3>2. \A r : HostsAddrs(i, r)' = HostsAddrs(i, r)
      BY <1>1, SameSetup
    <3>3. reloads = 0 => NamedFor(i, asked)
      BY <1>1, <1>2 DEF BootInv, Asking
    <3> QED  BY <1>1, <1>3, <3>1, <3>2, <3>3 DEF NamedFor
  <2>6. at' = i /\ phase' = "asking"
    BY <1>1, <1>2
  <2> QED  BY <2>1, <2>2, <2>3, <2>4, <2>5, <2>6 DEF Asking
<1>9. Resolved'
  <2>1. \A k \in IpServers' : pools'[k] # << >>
    BY <1>1, <1>3 DEF BootInv, Resolved
  <2>2. ASSUME NEW k \in DynamicServers
        PROVE  IF k < at' THEN ResolvedAt(k)' ELSE pools'[k] = << >>
    <3>1. CASE k < at
      <4>1. k # i
        <5>1. k \in Nat
          BY ServersParsed DEF BootInv, BootTyped, DynamicServers
        <5> QED  BY <1>2, <3>1, <5>1
      <4>2. \A p : <<k, p>> \in failures' <=> <<k, p>> \in failures
        BY <1>1, <1>2, <4>1
      <4>3. /\ Resolvable(k)' = Resolvable(k)
            /\ Justified(k)' = Justified(k)
        BY <1>1, <4>2, SameFailures
      <4>4. ResolvedAt(k)
        BY <3>1 DEF BootInv, Resolved
      <4>5. ResolvedAt(k)'
        BY <1>1, <4>3, <4>4 DEF ResolvedAt
      <4> QED  BY <1>1, <3>1, <4>5
    <3>2. CASE ~(k < at)
      BY <1>1, <3>2 DEF BootInv, Resolved
    <3> QED  BY <3>1, <3>2
  <2> QED  BY <1>1, <1>3, <2>1, <2>2 DEF Resolved
<1> QED  BY <1>6, <1>7, <1>8, <1>9 DEF BootInv

\* What the network had of a family.
LEMMA NetworkTyped ==
  ASSUME NEW i, NEW n \in HostNames
  PROVE  NetworkAddrs(i, n) \in SUBSET Addresses /\ IsFiniteSet(NetworkAddrs(i, n))
<1>1. \A q \in Heard(i) : q[2] \in Families
  BY DEF Heard, Asks
<1>2. NetworkAddrs(i, n) \subseteq Replies[n] /\ \A r \in NetworkAddrs(i, n) : r.type \in Families
  BY <1>1 DEF NetworkAddrs
<1>3. IsFiniteSet(Replies[n]) /\ \A r \in Replies[n] : r.type \in Families => r \in Addresses
  BY RepliesAssumption
<1> QED  BY <1>2, <1>3, FS_Subset

\* All have ended.
LEMMA FromNetworkBoot == ASSUME BootInv, FromNetwork PROVE BootInv'
<1>1. /\ phase = "asking" /\ pending = {}
      /\ UNCHANGED <<setup, table, reloads, asked, failures>>
  BY DEF FromNetwork
<1>2. at \in DynamicServers /\ asked \in HostNames
  BY <1>1 DEF BootInv, Placed, BootTyped
<1>3. addrs = NetworkAddrs(at, asked) /\ (reloads = 0 => NamedFor(at, asked))
  BY <1>1 DEF BootInv, Asking, NetworkAddrs
<1>4. PICK found : found = addrs
  OBVIOUS
<1>5. PICK i, n : i = at /\ n = asked
  OBVIOUS
<1>6. found \in SUBSET Addresses /\ IsFiniteSet(found)
  BY <1>2, <1>3, <1>4, <1>5, NetworkTyped
<1>7. /\ SortDedup(found) \in Seq(Addresses) /\ Elements(SortDedup(found)) = found
      /\ SortDedup(found) = << >> <=> found = {}
  BY <1>6, SortedOnce DEF OneEach
<1>8. reloads = 0 => (Resolvable(at) <=> found # {})
  <2> DEFINE own == config(at).server_name
             r == resolve_host_name(own)
  <2> SUFFICES ASSUME reloads = 0 PROVE Resolvable(at) <=> found # {}
    OBVIOUS
  <2>1. \/ r.kind = "Network" /\ asked = r.name
        \/ r.kind = "Static" /\ HostsAddrs(at, r) = {} /\ asked = own
    BY <1>3 DEF NamedFor
  <2>2. CASE r.kind = "Network" /\ asked = r.name
    BY <1>3, <1>4, <2>2 DEF Resolvable
  <2>3. CASE r.kind = "Static" /\ HostsAddrs(at, r) = {} /\ asked = own
    BY <1>3, <1>4, <2>3 DEF Resolvable
  <2> QED  BY <2>1, <2>2, <2>3
<1>9. CASE addrs # {}
  <2> DEFINE how == [kind |-> "Network", name |-> n]
  <2>1. Built(SortDedup(found), how)
    BY <1>4, <1>5, <1>9 DEF FromNetwork
  <2>2. how.kind # "Static" /\ how.name = n
    OBVIOUS
  <2> HIDE DEF how
  <2>3. Elements(SortDedup(found)) = NetworkAddrs(at, how.name)
    BY <1>3, <1>4, <1>5, <1>7, <2>2
  <2> QED  BY <1>1, <1>2, <1>4, <1>7, <1>8, <1>9, <2>1, <2>2, <2>3, BuiltBoot
<1>10. CASE addrs = {}
  <2>1. phase' = "failed" /\ UNCHANGED <<pools, seen, at>>
    BY <1>10 DEF FromNetwork
  <2>2. /\ Servers' = Servers /\ DynamicServers' = DynamicServers /\ IpServers' = IpServers
        /\ \A k : Resolvable(k)' = Resolvable(k) /\ Justified(k)' = Justified(k)
    BY <1>1, <2>1, SameSetup, SameFailures
  <2>3. BootTyped'
    BY <1>1, <2>1, <2>2 DEF BootInv, BootTyped
  <2>4. Placed' /\ Asking'
    BY <1>1, <2>1 DEF BootInv, Placed, Asking, Done
  <2>5. Resolved'
    <3>1. reloads = 0 => ~Resolvable(at)
      BY <1>4, <1>8, <1>10
    <3>2. reloads' = 0 => \E k \in DynamicServers' : ~Resolvable(k)'
      BY <1>1, <1>2, <2>2, <3>1
    <3> QED  BY <1>1, <2>1, <2>2, <3>2 DEF BootInv, Resolved, ResolvedAt
  <2> QED  BY <2>3, <2>4, <2>5 DEF BootInv
<1> QED  BY <1>9, <1>10

\* What does not touch the resolution: another table, the groups, or nothing.
LEMMA OtherBoot ==
  ASSUME BootInv, Assemble \/ HostsReload \/ UNCHANGED bootVars
  PROVE  BootInv'
<1>1. UNCHANGED <<setup, at, asked, pending, addrs, pools, seen, failures>>
  BY DEF Assemble, HostsReload, bootVars
<1>2. /\ Servers' = Servers /\ DynamicServers' = DynamicServers /\ IpServers' = IpServers
      /\ \A k : config(k)' = config(k) /\ Heard(k)' = Heard(k)
      /\ \A k : Justified(k)' = Justified(k)
      /\ \A k, r : HostsAddrs(k, r)' = HostsAddrs(k, r)
  BY <1>1, SameSetup, SameFailures
<1>3. \/ UNCHANGED <<table, reloads, phase>>
      \/ UNCHANGED <<table, reloads>> /\ phase = "resolved" /\ phase' = "assembled"
      \/ reloads' # 0 /\ reloads' \in Nat /\ table' \in setup.tables /\ phase' = phase
  BY DEF Assemble, HostsReload, bootVars, BootInv, BootTyped
<1>4. BootTyped'
  BY <1>1, <1>2, <1>3 DEF BootInv, BootTyped
<1>5. Placed'
  BY <1>1, <1>2, <1>3 DEF BootInv, Placed, Done
<1>6. reloads' = 0 => /\ reloads = 0
                      /\ \A k : Resolvable(k)' = Resolvable(k)
                      /\ \A n : resolve_host_name(n)' = resolve_host_name(n)
  <2>1. reloads' = 0 => reloads = 0 /\ table' = table
    BY <1>3
  <2> QED  BY <1>1, <2>1, SameFailures DEF resolve_host_name
<1>7. Asking'
  <2>1. \A f \in failures' :
          f[1] \in Nat /\ f[1] <= at' /\ (phase' \notin {"asking", "failed"} => f[1] < at')
    BY <1>1, <1>3 DEF BootInv, Asking
  <2>2. ASSUME phase' = "asking"
        PROVE  /\ pending' \subseteq Asks(config(at).prefer_family)'
               /\ \A q \in pending' : <<at', q>> \notin failures'
               /\ addrs' = {r \in Replies[asked'] : \E q \in Heard(at)' \ pending' : q[2] = r.type}
               /\ reloads' = 0 => NamedFor(at, asked)'
    <3>1. phase = "asking"
      BY <1>3, <2>2
    <3>2. PICK i : i = at
      OBVIOUS
    <3>3. /\ Asks(config(i).prefer_family)' = Asks(config(i).prefer_family)
          /\ Heard(i)' = Heard(i) /\ at' = i
      BY <1>1, <1>2, <3>2 DEF Asks
    <3>4. reloads' = 0 => NamedFor(i, asked)'
      <4>1. reloads' = 0 => NamedFor(i, asked)
        BY <1>6, <3>1, <3>2 DEF BootInv, Asking
      <4> QED  BY <1>1, <1>2, <1>6, <4>1 DEF NamedFor
    <3> QED  BY <1>1, <3>1, <3>2, <3>3, <3>4 DEF BootInv, Asking
  <2> QED  BY <2>1, <2>2 DEF Asking
<1>8. Resolved'
  <2>1. \A k : ResolvedAt(k) => ResolvedAt(k)'
    BY <1>1, <1>2, <1>6 DEF ResolvedAt
  <2>2. phase' = "failed" /\ reloads' = 0 => \E k \in DynamicServers' : ~Resolvable(k)'
    BY <1>2, <1>3, <1>6 DEF BootInv, Resolved
  <2> QED  BY <1>1, <1>2, <2>1, <2>2 DEF BootInv, Resolved
<1> QED  BY <1>4, <1>5, <1>7, <1>8 DEF BootInv

LEMMA BootStep ==
  ASSUME BootInv, [Next]_vars
  PROVE  BootInv'
<1>1. CASE Upstream
  BY <1>1, CheckBoot, FromHostsBoot, AskBoot, AnswerBoot, FromNetworkBoot, OtherBoot
     DEF Upstream, AnswerSome
<1>2. CASE HostsChange
  BY <1>2, OtherBoot DEF HostsChange
<1>3. CASE Run /\ ~Upstream
  <2>1. UNCHANGED bootVars
    BY <1>3 DEF Run, OpenLog, Prepare, Bind, InstallHandler, OpenNew, Notify, Spawn, RecvSighup,
                Swap, Swapped, Leave, Shutdown
  <2> QED  BY <2>1, OtherBoot
<1>4. CASE \/ \E q \in Queries : Serve(q)
           \/ \E q \in Queries, l \in DOMAIN listener, ok \in BOOLEAN : Accept(q, l, ok)
           \/ \E l \in DOMAIN listener : ListenerFails(l)
           \/ EndWrites \/ Rotate \/ Sighup \/ UNCHANGED vars
  <2>1. UNCHANGED bootVars
    BY <1>4 DEF Serve, ReadStream, Handle, ReadRequest, Reject, WriteLine, Reply, Accept,
                ListenerFails, EndWrites, WriteEnds, Rotate, Sighup, vars
  <2> QED  BY <2>1, OtherBoot
<1> QED  BY <1>1, <1>2, <1>3, <1>4 DEF Next

LEMMA BootShows == BootInv => StartsIffResolvable /\ PoolsJustified
<1> SUFFICES ASSUME BootInv PROVE StartsIffResolvable /\ PoolsJustified
  OBVIOUS
<1>1. ASSUME Done, NEW i \in DynamicServers PROVE ResolvedAt(i)
  <2>1. i < at
    BY <1>1, ServersParsed DEF BootInv, BootTyped, Placed, DynamicServers
  <2> QED  BY <2>1 DEF BootInv, Resolved
<1>2. StartsIffResolvable
  BY <1>1 DEF StartsIffResolvable, ResolvedAt, BootInv, Resolved
<1>3. ASSUME NEW i \in DynamicServers, pools[i] # << >>
      PROVE  LET S == {pools[i][k] : k \in DOMAIN pools[i]} IN
             /\ Cardinality(S) = Len(pools[i])
             /\ S = IF seen[i].kind = "Static" THEN HostsAddrs(i, seen[i])
                    ELSE NetworkAddrs(i, seen[i].name)
  <2>1. ResolvedAt(i)
    BY <1>3 DEF BootInv, Resolved
  <2>2. OneEach(pools[i], Justified(i))
    BY <2>1 DEF ResolvedAt
  <2> QED  BY <2>2 DEF OneEach, Elements, Justified
<1>4. PoolsJustified
  BY <1>1, <1>3 DEF PoolsJustified, ResolvedAt
<1> QED  BY <1>2, <1>4

\* Every member of a group can be dialled once start-up is over.
LEMMA MembersDialled ==
  ASSUME BootInv, Done, NEW g, NEW k \in DOMAIN Members(g)
  PROVE  pools[Members(g)[k]] # << >>
<1> DEFINE I == {i \in Servers : setup.servers[i].group = g /\ config(i).kind # "none"}
<1>1. /\ Servers = 1 .. Len(setup.servers) /\ Len(setup.servers) \in Nat
      /\ \A i \in Servers : config(i).kind \in {"none", "pool", "resolve"}
  BY ServersParsed DEF BootInv, BootTyped
<1>2. IsFiniteSet(I) /\ I \subseteq Int
  <2>1. IsFiniteSet(1 .. Len(setup.servers))
    BY <1>1, FS_Interval
  <2>2. I \subseteq 1 .. Len(setup.servers)
    BY <1>1
  <2> QED  BY <1>1, <2>1, <2>2, FS_Subset
<1>3. Members(g) = Ascending(I)
  BY DEF Members
<1>4. \A i \in I : i \in IpServers \/ (i \in DynamicServers /\ i < at)
  BY <1>1 DEF IpServers, DynamicServers, BootInv, Placed
<1> HIDE DEF I
<1>5. Members(g)[k] \in I
  BY <1>2, <1>3, AscendingLists
<1> QED  BY <1>4, <1>5 DEF BootInv, Resolved, ResolvedAt

-----------------------------------------------------------------------------
(* Readiness                                                               *)

Kinds == {"udp", "tcp", "dot", "doh", "doh3", "error", "ui"}

LEMMA BindsTyped ==
  ASSUME setup \in Setups
  PROVE  Binds \in Seq(Kinds)
<1> DEFINE kinds == [i \in DOMAIN setup.binds |-> parse_bind(setup.binds[i])]
<1>1. kinds \in Seq(Kinds)
  <2>1. setup.binds \in Seq([scheme : STRING, path : STRING])
    BY BindsAssumption
  <2>2. DOMAIN setup.binds = 1 .. Len(setup.binds) /\ Len(setup.binds) \in Nat
    BY <2>1
  <2>3. \A b : parse_bind(b) \in Kinds
    BY DEF parse_bind, Kinds
  <2> QED  BY <2>2, <2>3
<1> HIDE DEF kinds
<1>2. ASSUME NEW kind PROVE OfKind(kind) \in Seq(Kinds)
  <2>1. {i \in DOMAIN kinds : kinds[i] = kind} \in SUBSET (1 .. Len(kinds))
    BY <1>1
  <2>2. OfKind(kind) = Picked(kinds, {i \in DOMAIN kinds : kinds[i] = kind})
    BY DEF OfKind, kinds
  <2> QED  BY <1>1, <2>1, <2>2, PickedKeeps
<1>3. <<"ui">> \in Seq(Kinds) /\ << >> \in Seq(Kinds)
  <2>1. "ui" \in Kinds
    BY DEF Kinds
  <2> HIDE DEF Kinds
  <2> QED  BY <2>1
<1> HIDE DEF Kinds
<1> QED  BY <1>2, <1>3 DEF Binds

Grouped ==
  groups = [n \in {setup.names[g] : g \in DOMAIN setup.names} |-> Members(LastOf(n))]

\* READY=1 goes out when the sockets are bound, one after the other, with the
\* log open and the groups assembled.
ReadyInv ==
  /\ bound \in Seq(Kinds)
  /\ pc \in {"logs", "upstream"} => bound = << >>
  /\ pc = "binding" =>
       /\ phase = "assembled"
       /\ Len(bound) <= Len(Binds) /\ \A k \in 1 .. Len(bound) : bound[k] = Binds[k]
  /\ pc \in {"logs", "upstream", "binding"} => ~notified
  /\ pc \notin {"logs", "exited"} => file.id > 0
  /\ pc = "swapping" => fresh.id > 0
  /\ notified => phase = "assembled" /\ bound = Binds /\ file.id > 0
  /\ phase = "assembled" => Grouped

LEMMA SameReadiness ==
  ASSUME UNCHANGED setup
  PROVE  Binds' = Binds /\ (groups' = groups => Grouped' = Grouped)
<1>1. Binds' = Binds
  BY DEF Binds, OfKind
<1>2. \A g : Members(g)' = Members(g)
  BY SameSetup DEF Members
<1>3. \A n : LastOf(n)' = LastOf(n)
  BY DEF LastOf
<1>4. groups' = groups => Grouped' = Grouped
  BY <1>2, <1>3 DEF Grouped
<1> QED  BY <1>1, <1>4

\* What readiness does not look at: queries, listeners, writes and rotations.
LEMMA ReadyKept ==
  ASSUME ReadyInv, UNCHANGED <<setup, phase, groups, bound, notified, file, fresh>>,
         \/ pc' = pc
         \/ pc' = "exited"
         \/ /\ pc \notin {"logs", "upstream", "exited"}
            /\ pc' \notin {"logs", "upstream", "binding", "swapping"}
  PROVE  ReadyInv'
<1>1. Binds' = Binds /\ Grouped' = Grouped
  BY SameReadiness
<1> QED  BY <1>1 DEF ReadyInv

LEMMA ReadyUpstream == ASSUME ReadyInv, Upstream \/ HostsChange PROVE ReadyInv'
<1>1. /\ pc = "upstream" /\ UNCHANGED <<pc, bound, notified, file, fresh>>
  BY DEF Upstream, HostsChange, procVars, sinkVars, logVars
<1>2. phase' = "assembled" => Grouped'
  <2>1. phase' = "assembled" => Assemble
    BY DEF Upstream, HostsChange, Check, FromHosts, AskNetwork, AnswerSome, Answer, FromNetwork,
           HostsReload, Built, Proceed
  <2>2. ASSUME Assemble PROVE Grouped'
    <3>1. /\ UNCHANGED setup
          /\ groups' = [n \in {setup.names[g] : g \in DOMAIN setup.names} |-> Members(LastOf(n))]
      BY <2>2 DEF Assemble
    <3>2. \A g : Members(g)' = Members(g)
      BY <3>1, SameSetup DEF Members
    <3>3. \A n : LastOf(n)' = LastOf(n)
      BY <3>1 DEF LastOf
    <3> QED  BY <3>1, <3>2, <3>3 DEF Grouped
  <2> QED  BY <2>1, <2>2
<1> QED  BY <1>1, <1>2 DEF ReadyInv

LEMMA ReadyRun ==
  ASSUME ReadyInv, setup \in Setups, SinkTyped, Run, ~Upstream
  PROVE  ReadyInv'
<1>0. UNCHANGED <<setup, phase, groups>> /\ Binds' = Binds /\ Grouped' = Grouped
  <2>1. UNCHANGED bootVars
    BY DEF Run, OpenLog, Prepare, Bind, InstallHandler, OpenNew, Notify, Spawn, RecvSighup,
           Swap, Swapped, Leave, Shutdown
  <2> QED  BY <2>1, SameReadiness DEF bootVars
<1>1. ASSUME NEW ok \in BOOLEAN, OpenLog(ok) PROVE ReadyInv'
  <2>1. /\ pc = "logs" /\ UNCHANGED <<bound, notified>>
        /\ \/ pc' = "exited" /\ UNCHANGED file
           \/ pc' = "upstream" /\ file' = [file |-> path, id |-> 1]
    BY <1>1 DEF OpenLog, Exit
  <2> QED  BY <1>0, <2>1 DEF ReadyInv
<1>2. ASSUME NEW ok \in BOOLEAN, Prepare(ok) PROVE ReadyInv'
  <2>1. /\ pc = "upstream" /\ UNCHANGED <<bound, notified, file, fresh>>
        /\ pc' = "exited" \/ (pc' = "binding" /\ phase = "assembled")
    BY <1>2 DEF Prepare, Exit, sinkVars, logVars
  <2>2. Binds \in Seq(Kinds)
    BY BindsTyped
  <2> QED  BY <1>0, <2>1, <2>2 DEF ReadyInv
<1>3. ASSUME NEW ok \in BOOLEAN, Bind(ok) PROVE ReadyInv'
  <2>1. /\ pc = "binding" /\ UNCHANGED <<notified, file, fresh>> /\ Len(bound) < Len(Binds)
        /\ \/ pc' = "exited" /\ UNCHANGED bound
           \/ pc' = pc /\ bound' = Append(bound, Binds[Len(bound) + 1])
    BY <1>3 DEF Bind, Exit, sinkVars, logVars
  <2>2. Binds \in Seq(Kinds) /\ bound \in Seq(Kinds)
    BY BindsTyped DEF ReadyInv
  <2>3. CASE pc' = "exited" /\ UNCHANGED bound
    BY <1>0, <2>1, <2>3 DEF ReadyInv
  <2>4. CASE pc' = pc /\ bound' = Append(bound, Binds[Len(bound) + 1])
    <3>1. Binds[Len(bound) + 1] \in Kinds
      BY <2>1, <2>2
    <3>2. /\ bound' \in Seq(Kinds) /\ Len(bound') = Len(bound) + 1
          /\ \A k \in 1 .. Len(bound) : bound'[k] = bound[k]
          /\ bound'[Len(bound) + 1] = Binds[Len(bound) + 1]
      BY <2>2, <2>4, <3>1
    <3>3. Len(bound') <= Len(Binds) /\ \A k \in 1 .. Len(bound') : bound'[k] = Binds[k]
      BY <2>1, <2>2, <3>2 DEF ReadyInv
    <3> QED  BY <1>0, <2>1, <2>4, <3>2, <3>3 DEF ReadyInv
  <2> QED  BY <2>1, <2>3, <2>4
<1>4. ASSUME Notify PROVE ReadyInv'
  <2>1. /\ pc = "binding" /\ Len(bound) = Len(Binds) /\ pc' = "spawning"
        /\ UNCHANGED <<bound, file, fresh>>
    BY <1>4 DEF Notify, sinkVars, logVars
  <2>2. Binds \in Seq(Kinds) /\ bound \in Seq(Kinds)
    BY BindsTyped DEF ReadyInv
  <2>3. bound = Binds
    BY <2>1, <2>2 DEF ReadyInv
  <2> QED  BY <1>0, <2>1, <2>3 DEF ReadyInv
<1>5. ASSUME \/ Spawn \/ RecvSighup \/ Leave \/ Shutdown
             \/ \E ok \in BOOLEAN : InstallHandler(ok)
      PROVE  ReadyInv'
  <2>1. /\ UNCHANGED <<bound, notified, file, fresh>>
        /\ pc \in {"spawning", "serving", "leaving", "installing"}
        /\ pc' \in {"installing", "serving", "reopening", "leaving", "exited"}
    BY <1>5 DEF Spawn, RecvSighup, Leave, Shutdown, InstallHandler, Exit, sinkVars, logVars
  <2> QED  BY <1>0, <2>1, ReadyKept
<1>6. ASSUME NEW ok \in BOOLEAN, OpenNew(ok) PROVE ReadyInv'
  <2>1. /\ pc = "reopening" /\ UNCHANGED <<bound, notified, file>>
        /\ \/ pc' = "swapping" /\ fresh' = [file |-> path, id |-> file.id + 1]
           \/ pc' = "serving" /\ UNCHANGED fresh
    BY <1>6 DEF OpenNew, sinkVars
  <2>2. file.id \in Nat
    BY DEF SinkTyped, Handles
  <2> QED  BY <1>0, <2>1, <2>2 DEF ReadyInv
<1>7. ASSUME Swap PROVE ReadyInv'
  <2>1. /\ pc = "swapping" /\ pc' = "serving" /\ file' = fresh
        /\ UNCHANGED <<bound, notified, fresh>>
    BY <1>7 DEF Swap, Swapped
  <2> QED  BY <1>0, <2>1 DEF ReadyInv
<1> QED  BY <1>1, <1>2, <1>3, <1>4, <1>5, <1>6, <1>7 DEF Run

LEMMA ReadyStep ==
  ASSUME ReadyInv, setup \in Setups, SinkTyped, [Next]_vars
  PROVE  ReadyInv'
<1>1. CASE Upstream \/ HostsChange
  BY <1>1, ReadyUpstream
<1>2. CASE Run /\ ~Upstream
  BY <1>2, ReadyRun
<1>3. CASE \/ \E q \in Queries : Serve(q)
           \/ \E q \in Queries, l \in DOMAIN listener, ok \in BOOLEAN : Accept(q, l, ok)
           \/ \E l \in DOMAIN listener : ListenerFails(l)
           \/ EndWrites \/ Rotate \/ UNCHANGED vars
  <2>1. UNCHANGED <<bootVars, pc, bound, notified, file, fresh>>
    BY <1>3 DEF Serve, ReadStream, Handle, ReadRequest, Reject, WriteLine, Reply, Accept,
                ListenerFails, EndWrites, WriteEnds, Rotate, vars, procVars, sinkVars, logVars
  <2> QED  BY <2>1, ReadyKept DEF bootVars
<1>4. CASE Sighup
  <2>1. UNCHANGED <<bootVars, bound, notified, file, fresh>> /\ (pc' = pc \/ pc' = "exited")
    BY <1>4 DEF Sighup, Exit
  <2> QED  BY <2>1, ReadyKept DEF bootVars
<1> QED  BY <1>1, <1>2, <1>3, <1>4 DEF Next

LEMMA InitReady == Init => ReadyInv
<1> SUFFICES ASSUME Init PROVE ReadyInv
  OBVIOUS
<1>1. /\ pc = "logs" /\ bound = << >> /\ notified = FALSE /\ phase = "checking"
  BY DEF Init, BootInit
<1> QED  BY <1>1 DEF ReadyInv

LEMMA ReadyShows == BootInv /\ ReadyInv => ReadyIsComplete
<1> SUFFICES ASSUME BootInv, ReadyInv, notified PROVE
      /\ bound = Binds
      /\ file # NoHandle
      /\ \A n \in DOMAIN groups : groups[n] = Members(LastOf(n))
      /\ \A n \in DOMAIN groups : \A k \in DOMAIN groups[n] : pools[groups[n][k]] # << >>
  BY DEF ReadyIsComplete
<1>1. phase = "assembled" /\ bound = Binds /\ file.id > 0 /\ Grouped
  BY DEF ReadyInv
<1>2. file # NoHandle
  BY <1>1 DEF NoHandle
<1>3. \A n \in DOMAIN groups : groups[n] = Members(LastOf(n))
  BY <1>1 DEF Grouped
<1>4. ASSUME NEW n \in DOMAIN groups, NEW k \in DOMAIN groups[n]
      PROVE  pools[groups[n][k]] # << >>
  <2>1. groups[n] = Members(LastOf(n))
    BY <1>3
  <2>2. PICK g : g = LastOf(n)
    OBVIOUS
  <2>3. k \in DOMAIN Members(g)
    BY <2>1, <2>2
  <2>4. pools[Members(g)[k]] # << >>
    BY <1>1, <2>3, MembersDialled DEF Done
  <2> QED  BY <2>1, <2>2, <2>4
<1> QED  BY <1>1, <1>2, <1>3, <1>4

-----------------------------------------------------------------------------
(* The theorems                                                            *)

\* However writes, failures, rotations and the end of the process interleave,
\* every query that is answered, or has been, has its line in one file or on the
\* way there, but for two lines per failed write, unless log_query passed over it
\* or a signal killed the process.
THEOREM LinesAccounted == Spec => []LossBounded
<1>1. Init => IInv /\ LoggedInv
  <2>1. Init => LoggedInv
    BY DEF Init, LoggedInv
  <2> QED  BY <2>1, InitIInv
<1>2. IInv /\ LoggedInv /\ [Next]_vars => (IInv /\ LoggedInv)'
  BY StepIInv, LoggedStep
<1> QED  BY <1>1, <1>2, CountedBounds, PTL DEF Spec

LEMMA InitInvs == Init => IInv /\ BootInv /\ ReadyInv
BY InitIInv, InitBoot, InitReady DEF Init

LEMMA StepInvs == IInv /\ BootInv /\ ReadyInv /\ [Next]_vars => (IInv /\ BootInv /\ ReadyInv)'
BY StepIInv, BootStep, ReadyStep DEF IInv, BootInv, BootTyped

\* Whatever bootstrap queries fail, and in whatever order they end, init gives up
\* only on a server nobody has an address of, and never starts with such a one.
THEOREM StartsAsItShould == Spec => []StartsIffResolvable
<1>1. BootInv => StartsIffResolvable
  BY BootShows
<1> QED  BY InitInvs, StepInvs, <1>1, PTL DEF Spec

\* A resolved pool has the addresses hosts had, or those the clients that
\* answered returned for the name asked, each once: also if hosts is reloaded
\* between two servers.
THEOREM PoolsAreJustified == Spec => []PoolsJustified
<1>1. BootInv => PoolsJustified
  BY BootShows
<1> QED  BY InitInvs, StepInvs, <1>1, PTL DEF Spec

\* READY=1 is sent with every socket bound, the log open, and every member of
\* every group with an address to dial.
THEOREM ReadyMeansReady == Spec => []ReadyIsComplete
<1> QED  BY InitInvs, StepInvs, ReadyShows, PTL DEF Spec
=============================================================================
