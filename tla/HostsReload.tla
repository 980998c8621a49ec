----------------------------- MODULE HostsReload -----------------------------
(***************************************************************************)
(* The hosts stage (plugins/hosts.rs): queries read the trie under a       *)
(* parking_lot RwLock while the watchers of the file:// entries rebuild    *)
(* and swap it.                                                            *)
(*                                                                         *)
(* Every file has its own watcher thread; its callback reads all files     *)
(* again.  An alias lookup takes the read lock twice: the guard of the     *)
(* first lookup lives until the end of the match.                          *)
(*                                                                         *)
(* The data is one alias and its original domain: a file may hold the line *)
(* "original alias" and the line "IP original", and a trie is the set of   *)
(* lines it was built from.                                                *)
(***************************************************************************)
EXTENDS Integers, FiniteSets

CONSTANTS
  Queries,    \* concurrent handle_query tasks
  NFiles,     \* number of file:// entries
  Lines       \* lines that occur in them, of {"alias", "ip"}

ASSUME FilesAssumption == NFiles \in Nat \ {0}
ASSUME LinesAssumption == Lines \subseteq {"alias", "ip"}

Files == 1 .. NFiles
Names == {"aliasName", "original"}

VARIABLES
  file,      \* file[f]: the lines of file f now
  event,     \* event[f]: a change of f not yet taken by its watcher
  wpc,       \* wpc[f]: idle, reading, built or locking (watcher of f)
  next,      \* next[f]: next file the watcher of f reads
  fresh,     \* fresh[f]: lines the watcher of f has read so far
  writer,    \* the watcher that has claimed the write lock, or 0
  trie,      \* the trie in use
  qpc,       \* qpc[q]: idle, asked, aliased or done
  name,      \* name[q]: queried name
  res,       \* res[q]: outcome of handle
  seen       \* history: seen[q] is the trie of q's first lookup

files == <<file, event>>
watchers == <<wpc, next, fresh, writer>>
queries == <<qpc, name, res, seen>>
vars == <<files, watchers, trie, queries>>

\* HostsTrie::lookup.
Lookup(t, n) ==
  CASE n = "aliasName" /\ "alias" \in t -> "alias"
    [] n = "original" /\ "ip" \in t -> "ips"
    [] OTHER -> "miss"

\* What handle makes of one trie: a hosts answer, a rewritten query, or neither.
Verdict(t, n) ==
  CASE Lookup(t, n) = "alias" /\ Lookup(t, "original") = "ips" -> "ips"
    [] Lookup(t, n) = "alias" /\ Lookup(t, "original") # "ips" -> "rewrite"
    [] OTHER -> Lookup(t, n)

\* Queries that hold a read guard between two steps.
Readers == {q \in Queries : qpc[q] = "aliased"}

-----------------------------------------------------------------------------
(* Init loads all files, then starts the watchers.  (A change in between is *)
(* seen by nobody: GroupReload has the same start and models that gap.)     *)

Init ==
  /\ file \in [Files -> SUBSET Lines]
  /\ event = [f \in Files |-> FALSE]
  /\ wpc = [f \in Files |-> "idle"]
  /\ next = [f \in Files |-> 1]
  /\ fresh = [f \in Files |-> {}]
  /\ writer = 0
  /\ trie = UNION {file[f] : f \in Files}
  /\ qpc = [q \in Queries |-> "idle"]
  /\ name = [q \in Queries |-> "original"]
  /\ res = [q \in Queries |-> "none"]
  /\ seen = [q \in Queries |-> {}]

\* Someone rewrites or removes f (a file that cannot be read counts as empty).
Change(f) ==
  /\ \E lines \in SUBSET Lines :
       /\ lines # file[f]
       /\ file' = [file EXCEPT ![f] = lines]
  /\ event' = [event EXCEPT ![f] = TRUE]
  /\ UNCHANGED <<watchers, trie, queries>>

\* The watcher's callback starts build_hosts_trie.
Notice(f) ==
  /\ wpc[f] = "idle" /\ event[f]
  /\ event' = [event EXCEPT ![f] = FALSE]
  /\ wpc' = [wpc EXCEPT ![f] = "reading"]
  /\ next' = [next EXCEPT ![f] = 1]
  /\ fresh' = [fresh EXCEPT ![f] = {}]
  /\ UNCHANGED <<file, writer, trie, queries>>

\* It reads the entries one after the other.
ReadFile(f) ==
  /\ wpc[f] = "reading"
  /\ fresh' = [fresh EXCEPT ![f] = @ \cup file[next[f]]]
  /\ next' = [next EXCEPT ![f] = IF @ = NFiles THEN @ ELSE @ + 1]
  /\ wpc' = [wpc EXCEPT ![f] = IF next[f] = NFiles THEN "built" ELSE @]
  /\ UNCHANGED <<files, writer, trie, queries>>

\* write(): the lock is claimed, which keeps new readers out, ...
ClaimWrite(f) ==
  /\ wpc[f] = "built" /\ writer = 0
  /\ writer' = f
  /\ wpc' = [wpc EXCEPT ![f] = "locking"]
  /\ UNCHANGED <<files, next, fresh, trie, queries>>

MutSwap_KeepsLock(f) ==
  /\ wpc[f] = "locking" /\ Readers = {}
  /\ trie' = fresh[f]
  /\ wpc' = [wpc EXCEPT ![f] = "idle"]
  /\ UNCHANGED <<files, next, fresh, writer, queries>>

MutSwap_DropsEvent(f) ==
  /\ wpc[f] = "locking" /\ Readers = {}
  /\ trie' = fresh[f]
  /\ writer' = 0
  /\ wpc' = [wpc EXCEPT ![f] = "idle"]
  /\ event' = [event EXCEPT ![f] = FALSE]
  /\ UNCHANGED <<file, next, fresh, queries>>

MutSwap_Early(f) ==
  /\ wpc[f] = "locking"
  /\ trie' = fresh[f]
  /\ writer' = 0
  /\ wpc' = [wpc EXCEPT ![f] = "idle"]
  /\ UNCHANGED <<files, next, fresh, queries>>

\* ... and granted once the readers are gone; the new trie is swapped in.
Swap(f) ==
  /\ wpc[f] = "locking" /\ Readers = {}
  /\ trie' = fresh[f]
  /\ writer' = 0
  /\ wpc' = [wpc EXCEPT ![f] = "idle"]
  /\ UNCHANGED <<files, next, fresh, queries>>

Ask(q, n) ==
  /\ qpc[q] = "idle"
  /\ qpc' = [qpc EXCEPT ![q] = "asked"]
  /\ name' = [name EXCEPT ![q] = n]
  /\ UNCHANGED <<files, watchers, trie, res, seen>>

\* handle, first lookup.  Only an alias keeps the read guard for another one.
FirstLookup(q) ==
  /\ qpc[q] = "asked" /\ writer = 0
  /\ LET hit == Lookup(trie, name[q]) IN
       /\ qpc' = [qpc EXCEPT ![q] = IF hit = "alias" THEN "aliased" ELSE "done"]
       /\ res' = [res EXCEPT ![q] = IF hit = "alias" THEN "none" ELSE hit]
  /\ seen' = [seen EXCEPT ![q] = trie]
  /\ UNCHANGED <<files, watchers, trie, name>>

\* handle, second lookup, with a read lock of its own: both guards end here.
SecondLookup(q) ==
  /\ qpc[q] = "aliased" /\ writer = 0
  /\ res' = [res EXCEPT ![q] =
               IF Lookup(trie, "original") = "ips" THEN "ips" ELSE "rewrite"]
  /\ qpc' = [qpc EXCEPT ![q] = "done"]
  /\ UNCHANGED <<files, watchers, trie, name, seen>>

\* The query goes on to the rest of the pipeline.
Leave(q) ==
  /\ qpc[q] = "done"
  /\ qpc' = [qpc EXCEPT ![q] = "idle"]
  /\ res' = [res EXCEPT ![q] = "none"]
  /\ seen' = [seen EXCEPT ![q] = {}]
  /\ UNCHANGED <<files, watchers, trie, name>>

Watch(f) == Notice(f) \/ ReadFile(f) \/ ClaimWrite(f) \/ Swap(f)
Handle(q) == FirstLookup(q) \/ SecondLookup(q) \/ Leave(q)

Next ==
  \/ \E f \in Files : Change(f) \/ Watch(f)
  \/ \E q \in Queries : Handle(q) \/ \E n \in Names : Ask(q, n)

Spec == Init /\ [][Next]_vars

\* Threads run; a watcher competing with readers for the lock gets it (parking
\* makes the lock fair), and so do the readers.
FairSpec ==
  /\ Spec
  /\ \A f \in Files : WF_vars(Notice(f) \/ ReadFile(f)) /\ SF_vars(ClaimWrite(f))
                      /\ WF_vars(Swap(f))
  /\ \A q \in Queries : SF_vars(FirstLookup(q)) /\ SF_vars(SecondLookup(q))
                        /\ WF_vars(Leave(q))

-----------------------------------------------------------------------------
(* Properties                                                              *)

\* Type invariant: the claimed lock belongs to the one watcher that is locking.
TypeOK ==
  /\ file \in [Files -> SUBSET Lines] /\ event \in [Files -> BOOLEAN]
  /\ wpc \in [Files -> {"idle", "reading", "built", "locking"}]
  /\ next \in [Files -> Files] /\ fresh \in [Files -> SUBSET Lines]
  /\ writer \in Files \cup {0}
  /\ trie \in SUBSET Lines
  /\ qpc \in [Queries -> {"idle", "asked", "aliased", "done"}]
  /\ name \in [Queries -> Names]
  /\ res \in [Queries -> {"none", "miss", "ips", "rewrite"}]
  /\ seen \in [Queries -> SUBSET Lines]
  /\ \A f \in Files : wpc[f] = "locking" <=> writer = f

\* An alias and its original are looked up in one and the same trie, however
\* watchers swap tries: a query is never answered by half of each.
OneTriePerQuery ==
  \A q \in Queries : qpc[q] = "done" => res[q] = Verdict(seen[q], name[q])

\* A trie that nobody is about to replace holds exactly the files' lines, as long
\* as there is one watcher: no change of the file is lost.
NothingLost ==
  NFiles = 1 /\ wpc[1] = "idle" /\ ~event[1] => trie = file[1]

\* A query that has its alias's guard waits for a writer that waits for readers.
Deadlocked == writer # 0 /\ Readers # {}

\* Every lookup ends, while files keep changing: the only thing that can stop it
\* is the deadlock of an alias lookup with a watcher (RebuildIsSwapped below).
LookupEnds ==
  \A q \in Queries : qpc[q] = "asked" ~> (qpc[q] = "idle" \/ Deadlocked)

(* Statements of the documentation that the code does not meet.            *)

\* hosts.rs:15-17: a changed file makes the watcher rebuild the trie and swap it.
\* Here: a watcher that wants the write lock gets it.
RebuildIsSwapped ==
  \A f \in Files : wpc[f] = "locking" ~> wpc[f] = "idle"

\* The same lines: once no file changes any more and no watcher has anything
\* left to do, the trie holds the lines of the files.
SettlesOnFiles ==
  (\A f \in Files : wpc[f] = "idle" /\ ~event[f]) =>
    trie = UNION {file[f] : f \in Files}
=============================================================================
