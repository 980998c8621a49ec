------------------------------- MODULE Lifecycle -------------------------------
(***************************************************************************)
(* The process: start-up, readiness, the listeners and the tasks of the    *)
(* queries, the query log with its rotation, and the end (main.rs,         *)
(* notify.rs, the listeners of server.rs, logs.rs and tls.rs).             *)
(*                                                                         *)
(* run is one async task: pc says which await it stands at.  upstream::init *)
(* is the Bootstrap module.  What the pipeline answers is Pipeline's       *)
(* subject: here a query is read, answered or refused, logged, and sent.   *)
(* A query is a datagram, a connection, or one request of a connection.    *)
(*                                                                         *)
(* A configuration has besides what Bootstrap reads: binds, tls, ui, log.   *)
(*                                                                         *)
(* External: systemd, logrotate, the kernel, and tokio's File, which copies *)
(* a line and writes it in the background: an error comes up at the next   *)
(* write, whose line is not written then.                                  *)
(***************************************************************************)
EXTENDS Bootstrap

CONSTANTS
  Queries,       \* the clients' queries
  Requests,      \* HTTP requests: [path, method, ctype, body, dns]
  MaxRotations,  \* bound: rotations of the log
  MaxWriteFaults \* bound: background writes that fail

ASSUME QueriesAssumption == IsFiniteSet(Queries)
ASSUME BindsAssumption == \A s \in Setups : s.binds \in Seq([scheme : STRING, path : STRING])
ASSUME BoundsAssumption == MaxRotations \in Nat /\ MaxWriteFaults \in Nat

VARIABLES
  pc,        \* where run stands
  bound,     \* the sockets bound so far, by kind
  notified,  \* READY=1 was sent, or there was nobody to send it to
  listener,  \* listener[l]: serving or returned
  code,      \* the exit status
  task,      \* task[q]: new, accepted, handling, logging, replying, answered, closed
  via,       \* via[q]: the listener q came to
  reply,     \* reply[q]: answer, or an HTTP status
  exempt,    \* history: the queries log_query passed over, skip_log being set
  path,      \* the file query.log names
  file,      \* the sink's handle: [file, id], id as a File is only itself
  fresh,     \* the handle reopen has opened and not yet swapped in
  failed,    \* the handle owes the error of a background write
  writes,    \* background writes: [handle, line]
  content,   \* content[f]: the lines of file f
  sighup,    \* a SIGHUP nobody has received yet
  owed,      \* logrotate has renamed the file and not yet sent SIGHUP
  stale,     \* history: the last reopen failed
  logged,    \* history: the lines handed to the sink
  faults     \* history: background writes that failed

procVars == <<pc, bound, notified, listener, code>>
taskVars == <<task, via, reply, exempt>>
sinkVars == <<file, failed, writes, content, logged, faults>>
logVars == <<path, fresh, sighup, owed, stale>>
vars == <<bootVars, procVars, taskVars, sinkVars, logVars>>

-----------------------------------------------------------------------------
(* Configuration                                                           *)

Files == 0 .. MaxRotations
NoHandle == [file |-> 0, id |-> 0]

\* parse_bind and parse_doh_addr: a path is allowed after https and h3 only.
parse_bind(b) ==
  CASE b.scheme = "none" /\ b.path = "none" -> "udp"
    [] b.scheme = "tcp" /\ b.path = "none" -> "tcp"
    [] b.scheme = "tls" /\ b.path = "none" -> "dot"
    [] b.scheme = "https" /\ b.path \in {"none", "dns-query"} -> "doh"
    [] b.scheme = "h3" /\ b.path \in {"none", "dns-query"} -> "doh3"
    [] OTHER -> "error"

\* The sockets in the order they are bound, and in the configuration's within
\* one kind.
OfKind(kind) ==
  LET kinds == [i \in DOMAIN setup.binds |-> parse_bind(setup.binds[i])] IN
  Picked(kinds, {i \in DOMAIN kinds : kinds[i] = kind})
Binds ==
  OfKind("udp") \o OfKind("tcp") \o OfKind("dot") \o OfKind("doh") \o OfKind("doh3")
    \o (IF setup.ui THEN <<"ui">> ELSE << >>)

\* server_config, asked for when a bind is encrypted: both files or none.
TlsFails ==
  /\ \E i \in DOMAIN setup.binds : parse_bind(setup.binds[i]) \in {"dot", "doh", "doh3"}
  /\ setup.tls \notin {"both", "none"}

\* handle_doh_wire up to the query: a status, or the wire message.
Verdict(r) ==
  CASE r.path # "dns-query" -> "404"
    [] r.path = "dns-query" /\ r.method = "POST" /\ r.ctype # "dns-message" -> "415"
    [] r.path = "dns-query" /\ r.method \notin {"POST", "GET"} -> "405"
    [] r.path = "dns-query" /\ r.method = "GET" /\ r.dns # "decodes" -> "400"
    [] r.path = "dns-query" /\ r.method = "POST" /\ r.ctype = "dns-message" /\ r.body # "read" -> "400"
    [] OTHER -> "query"

-----------------------------------------------------------------------------
(* Start-up                                                                *)

Init ==
  /\ BootInit
  /\ pc = "logs"
  /\ bound = << >> /\ listener = << >>
  /\ notified = FALSE
  /\ code = "none"
  /\ task = [q \in Queries |-> "new"]
  /\ via = [q \in Queries |-> "none"]
  /\ reply = [q \in Queries |-> "none"]
  /\ exempt = {}
  /\ path = 0
  /\ file = NoHandle /\ fresh = NoHandle
  /\ failed = FALSE
  /\ writes = {}
  /\ content = [f \in Files |-> {}]
  /\ sighup = FALSE /\ owed = FALSE /\ stale = FALSE
  /\ logged = {}
  /\ faults = 0

Exit(status) == pc' = "exited" /\ code' = status

\* logs::init: a directory is opened, and one that holds a colon is refused.
OpenLog(ok) ==
  /\ pc = "logs"
  /\ IF setup.log = "colon" \/ (setup.log = "directory" /\ ~ok)
     THEN Exit("FAILURE") /\ UNCHANGED file
     ELSE /\ file' = [file |-> path, id |-> 1]
          /\ pc' = "upstream" /\ UNCHANGED code
  /\ UNCHANGED <<bootVars, bound, notified, listener, taskVars, failed, writes,
                 content, logged, faults, logVars>>

\* upstream::init, one of its steps.
Upstream ==
  /\ pc = "upstream"
  /\ Check \/ FromHosts \/ AskNetwork \/ AnswerSome \/ FromNetwork \/ Assemble
  /\ UNCHANGED <<procVars, taskVars, sinkVars, logVars>>

HostsChange ==
  /\ pc = "upstream"
  /\ HostsReload
  /\ UNCHANGED <<procVars, taskVars, sinkVars, logVars>>

\* It is over; rules::init, parse_bind and server_config follow, any of which
\* may refuse the configuration.
Prepare(ok) ==
  /\ pc = "upstream"
  /\ \/ phase = "failed" /\ Exit("FAILURE")
     \/ /\ phase = "assembled"
        /\ IF ok /\ ~TlsFails /\ \A i \in DOMAIN setup.binds : parse_bind(setup.binds[i]) # "error"
           THEN pc' = "binding" /\ UNCHANGED code
           ELSE Exit("FAILURE")
  /\ UNCHANGED <<bootVars, bound, notified, listener, taskVars, sinkVars, logVars>>

\* bind_udp, bind_tcp and the ui's bind_listener: the next socket.
Bind(ok) ==
  /\ pc = "binding"
  /\ Len(bound) < Len(Binds)
  /\ IF ok THEN bound' = Append(bound, Binds[Len(bound) + 1]) /\ UNCHANGED <<pc, code>>
     ELSE Exit("FAILURE") /\ UNCHANGED bound
  /\ UNCHANGED <<bootVars, notified, listener, taskVars, sinkVars, logVars>>

\* Mutation: READY=1 goes out before the ui's socket is bound.
MutNotify_BeforeUi ==
  /\ pc = "binding"
  /\ Len(bound) >= Len(setup.binds)
  /\ notified' = TRUE
  /\ pc' = "spawning"
  /\ UNCHANGED <<bootVars, bound, listener, code, taskVars, sinkVars, logVars>>

\* sd_notify_ready; a failure is only a warning.
Notify ==
  /\ pc = "binding"
  /\ Len(bound) = Len(Binds)
  /\ notified' = TRUE
  /\ pc' = "spawning"
  /\ UNCHANGED <<bootVars, bound, listener, code, taskVars, sinkVars, logVars>>

Spawn ==
  /\ pc = "spawning"
  /\ listener' = [l \in DOMAIN bound |-> "serving"]
  /\ pc' = "installing"
  /\ UNCHANGED <<bootVars, bound, notified, code, taskVars, sinkVars, logVars>>

\* The handler of SIGHUP, once the listeners serve.
InstallHandler(ok) ==
  /\ pc = "installing"
  /\ IF ok THEN pc' = "serving" /\ UNCHANGED code ELSE Exit("FAILURE")
  /\ UNCHANGED <<bootVars, bound, notified, listener, taskVars, sinkVars, logVars>>

-----------------------------------------------------------------------------
(* The event loop                                                          *)

\* select!: a SIGHUP, or several as one.
RecvSighup ==
  /\ pc = "serving"
  /\ sighup
  /\ sighup' = FALSE
  /\ pc' = IF setup.log = "stdout" THEN pc ELSE "reopening"
  /\ UNCHANGED <<bootVars, bound, notified, listener, code, taskVars, sinkVars, path,
                 fresh, owed, stale>>

\* DirectorySink::reopen, inside the select!: the file is opened first, and a
\* failure leaves the handle alone.
OpenNew(ok) ==
  /\ pc = "reopening"
  /\ IF ok THEN fresh' = [file |-> path, id |-> file.id + 1] /\ pc' = "swapping"
     ELSE UNCHANGED fresh /\ pc' = "serving"
  /\ stale' = ~ok
  /\ UNCHANGED <<bootVars, bound, notified, listener, code, taskVars, sinkVars, path,
                 sighup, owed>>

Swapped(left, pending_signal) ==
  /\ pc = "swapping"
  /\ file' = fresh
  /\ failed' = FALSE
  /\ writes' = left
  /\ sighup' = pending_signal
  /\ pc' = "serving"
  /\ UNCHANGED <<bootVars, bound, notified, listener, code, taskVars, content, logged,
                 faults, path, fresh, owed, stale>>

\* Mutation: dropping the old File cancels what it has not written.
MutSwap_DropsWrites == Swapped({w \in writes : w.handle # file}, sighup)

\* Mutation: signals that arrived during reopen count as handled by it.
MutSwap_ForgetsSignal == Swapped(writes, FALSE)

\* ... and is swapped in under the lock.  The old File is dropped: the write it
\* has in the background goes on, an error of it is not heard.
Swap == Swapped(writes, sighup)

\* Mutation: run goes on until every listener has returned.
MutLeave_WhenAllReturned ==
  /\ pc = "serving"
  /\ \A l \in DOMAIN listener : listener[l] = "returned"
  /\ pc' = "leaving"
  /\ UNCHANGED <<bootVars, bound, notified, listener, code, taskVars, sinkVars, logVars>>

\* join_next: the first listener that returns, or no listener at all, ends the
\* loop.  flush_logs does nothing.
Leave ==
  /\ pc = "serving"
  /\ DOMAIN listener = {} \/ \E l \in DOMAIN listener : listener[l] = "returned"
  /\ pc' = "leaving"
  /\ UNCHANGED <<bootVars, bound, notified, listener, code, taskVars, sinkVars, logVars>>

\* run returns Ok; the runtime goes and with it every task at its next await.
Shutdown ==
  /\ pc = "leaving"
  /\ Exit("SUCCESS")
  /\ task' = [q \in Queries |-> IF task[q] \in {"new", "answered"} THEN task[q] ELSE "closed"]
  /\ listener' = [l \in DOMAIN listener |-> "returned"]
  /\ UNCHANGED <<bootVars, bound, notified, via, reply, exempt, sinkVars, logVars>>

-----------------------------------------------------------------------------
(* Listeners and queries                                                   *)

Running == pc \in {"installing", "serving", "reopening", "swapping", "leaving"}
Http == {"doh", "doh3"}

\* recv_from or accept fails: the listener returns.
ListenerFails(l) ==
  /\ Running
  /\ listener[l] = "serving"
  /\ listener' = [listener EXCEPT ![l] = "returned"]
  /\ UNCHANGED <<bootVars, pc, bound, notified, code, taskVars, sinkVars, logVars>>

At(q, state) == task' = [task EXCEPT ![q] = state]

\* A datagram, or a connection; ok is false if a TCP stream refuses TCP_NODELAY,
\* which costs that connection only.
Accept(q, l, ok) ==
  /\ Running
  /\ listener[l] = "serving" /\ bound[l] # "ui"
  /\ task[q] = "new"
  /\ bound[l] = "tcp" \/ ok
  /\ via' = [via EXCEPT ![q] = bound[l]]
  /\ At(q, IF bound[l] = "udp" THEN "handling" ELSE IF ok THEN "accepted" ELSE "closed")
  /\ UNCHANGED <<bootVars, procVars, reply, exempt, sinkVars, logVars>>

\* TCP and DoT: the handshake, the length, up to MAX_DNS_SIZE, and the message,
\* or the connection is closed without a reply.
ReadStream(q, ok) ==
  /\ Running
  /\ task[q] = "accepted" /\ via[q] \notin Http
  /\ At(q, IF ok THEN "handling" ELSE "closed")
  /\ UNCHANGED <<bootVars, procVars, via, reply, exempt, sinkVars, logVars>>

\* DoH and DoH3: a connection without request, or a request and its verdict.
ReadRequest(q) ==
  /\ Running
  /\ task[q] = "accepted" /\ via[q] \in Http
  /\ \/ At(q, "closed") /\ UNCHANGED reply
     \/ \E r \in Requests :
          IF Verdict(r) = "query" THEN At(q, "handling") /\ UNCHANGED reply
          ELSE At(q, "replying") /\ reply' = [reply EXCEPT ![q] = Verdict(r)]
  /\ UNCHANGED <<bootVars, procVars, via, exempt, sinkVars, logVars>>

\* handle_query fails: over HTTP a 400, elsewhere no reply.
Refuse(q) ==
  IF via[q] \in Http THEN At(q, "replying") /\ reply' = [reply EXCEPT ![q] = "400"]
  ELSE At(q, "closed") /\ UNCHANGED reply

\* What does not parse, or has no question, never enters the pipeline.
Reject(q) ==
  /\ Running
  /\ task[q] = "handling"
  /\ Refuse(q)
  /\ UNCHANGED <<bootVars, procVars, via, exempt, sinkVars, logVars>>

\* Mutation: the query is answered without waiting for its line.
MutHandle_RepliesFirst(q, skip_log) ==
  /\ Running
  /\ task[q] = "handling"
  /\ At(q, "replying")
  /\ reply' = [reply EXCEPT ![q] = "answer"]
  /\ exempt' = IF skip_log THEN exempt \cup {q} ELSE exempt
  /\ UNCHANGED <<bootVars, procVars, via, sinkVars, logVars>>

\* The pipeline ran; log_query passes over the query if skip_log is set, which
\* it reads and no stage sets as yet.
Handle(q, skip_log) ==
  /\ Running
  /\ task[q] = "handling"
  /\ At(q, IF skip_log THEN "replying" ELSE "logging")
  /\ reply' = [reply EXCEPT ![q] = "answer"]
  /\ exempt' = IF skip_log THEN exempt \cup {q} ELSE exempt
  /\ UNCHANGED <<bootVars, procVars, via, sinkVars, logVars>>

\* QueryLogger::write under the lock of the sink: the File first ends the write
\* it has in the background, and an error it owes takes the place of this write.
WriteLine(q) ==
  /\ Running
  /\ task[q] = "logging"
  /\ \A w \in writes : w.handle # file
  /\ logged' = logged \cup {q}
  /\ writes' = IF failed THEN writes ELSE writes \cup {[handle |-> file, line |-> q]}
  /\ failed' = FALSE
  /\ At(q, "replying")
  /\ UNCHANGED <<bootVars, procVars, via, reply, exempt, file, content, faults, logVars>>

\* The response is encoded, which may fail, and sent, which may fail.
Reply(q) ==
  /\ Running
  /\ task[q] = "replying"
  /\ \/ At(q, "answered") /\ UNCHANGED reply
     \/ At(q, "closed") /\ UNCHANGED reply
     \/ reply[q] = "answer" /\ Refuse(q)
  /\ UNCHANGED <<bootVars, procVars, via, exempt, sinkVars, logVars>>

-----------------------------------------------------------------------------
(* The environment                                                         *)

\* A background write ends.  It is a mandatory task: the runtime waits for it.
WriteEnds(w, ok) ==
  /\ w \in writes
  /\ ok \/ faults < MaxWriteFaults
  /\ writes' = writes \ {w}
  /\ content' = IF ok THEN [content EXCEPT ![w.handle.file] = @ \cup {w.line}] ELSE content
  /\ failed' = (failed \/ (~ok /\ w.handle = file))
  /\ faults' = IF ok THEN faults ELSE faults + 1
  /\ UNCHANGED <<bootVars, procVars, taskVars, file, logged, logVars>>

\* logrotate renames query.log and creates it anew ...
Rotate ==
  /\ setup.log = "directory" /\ pc \notin {"logs", "exited"}
  /\ path < MaxRotations /\ ~owed
  /\ path' = path + 1
  /\ owed' = TRUE
  /\ UNCHANGED <<bootVars, procVars, taskVars, sinkVars, fresh, sighup, stale>>

\* ... and has systemd send SIGHUP to the active service; before the handler is
\* there the signal kills the process.
Sighup ==
  /\ owed /\ notified /\ pc # "exited"
  /\ owed' = FALSE
  /\ IF pc \in {"spawning", "installing"}
     THEN /\ Exit("SIGHUP")
          /\ task' = [q \in Queries |-> IF task[q] \in {"new", "answered"} THEN task[q] ELSE "closed"]
          /\ listener' = [l \in DOMAIN listener |-> "returned"]
          /\ writes' = {}      \* with what tokio has not written
          /\ UNCHANGED sighup
     ELSE sighup' = TRUE /\ UNCHANGED <<pc, code, task, listener, writes>>
  /\ UNCHANGED <<bootVars, bound, notified, via, reply, exempt, file, failed, content,
                 logged, faults, path, fresh, stale>>

Run ==
  \/ \E ok \in BOOLEAN : OpenLog(ok) \/ Prepare(ok) \/ Bind(ok) \/ InstallHandler(ok) \/ OpenNew(ok)
  \/ Upstream \/ Notify \/ Spawn \/ RecvSighup \/ Swap \/ Leave \/ Shutdown

Serve(q) ==
  \/ \E ok \in BOOLEAN : ReadStream(q, ok) \/ Handle(q, ok)
  \/ ReadRequest(q) \/ Reject(q) \/ WriteLine(q) \/ Reply(q)

EndWrites == \E w \in writes, ok \in BOOLEAN : WriteEnds(w, ok)

Next ==
  \/ Run
  \/ HostsChange
  \/ \E q \in Queries : Serve(q)
  \/ \E q \in Queries, l \in DOMAIN listener, ok \in BOOLEAN : Accept(q, l, ok)
  \/ \E l \in DOMAIN listener : ListenerFails(l)
  \/ EndWrites
  \/ Rotate
  \/ Sighup

\* The runtime runs its tasks, an upstream query ends by its timeout, and
\* logrotate's postrotate script runs.
Fairness ==
  /\ WF_vars(Run) /\ WF_vars(EndWrites) /\ WF_vars(Sighup)
  /\ \A q \in Queries : WF_vars(Serve(q))

Spec == Init /\ [][Next]_vars /\ Fairness

-----------------------------------------------------------------------------
(* Properties                                                              *)

\* READY=1 means ready: every configured socket is bound, every server that was
\* parsed is in its group with an address to dial, and the log is open.
ReadyIsComplete ==
  notified =>
    /\ bound = Binds
    /\ file # NoHandle
    /\ \A n \in DOMAIN groups : groups[n] = Members(LastOf(n))
    /\ \A n \in DOMAIN groups : \A k \in DOMAIN groups[n] : pools[groups[n][k]] # << >>

\* A query is logged before its answer leaves, unless log_query passes over it:
\* the lines due are those handed to the sink and those of the queries that are
\* being answered or have been.
Due == logged \cup
  {q \in Queries : task[q] \in {"replying", "answered"} /\ reply[q] = "answer" /\ q \notin exempt}

\* Neither rotation nor the end loses a line that is due, unless a signal kills:
\* each is in a file or on its way there, but for two lines per failed write, the
\* one that failed and the one that got its error.  No line is in two files, and
\* none is of a query passed over.
LossBounded ==
  LET lost == {q \in Due : /\ \A f \in Files : q \notin content[f]
                           /\ \A w \in writes : w.line # q} IN
  /\ code = "SIGHUP" \/ Cardinality(lost) <= 2 * faults
  /\ \A f, g \in Files : f # g => content[f] \cap content[g] = {}
  /\ \A f \in Files : content[f] \cap exempt = {}

\* The process never stays half up: start-up ends, and then it serves with all
\* its listeners, of which there is one at least, or it is gone, so that the
\* supervisor sees one listener's end whatever the others do.
ServesOrEnds ==
  <>[](\/ pc = "exited"
       \/ /\ pc = "serving"
          /\ DOMAIN listener # {}
          /\ \A l \in DOMAIN listener : listener[l] = "serving")

\* After the last rotation the log goes to the file logrotate created, unless
\* reopening it failed or the process is gone.
RotationSettles == <>[](file.file = path \/ stale \/ pc = "exited")
=============================================================================
