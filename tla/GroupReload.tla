----------------------------- MODULE GroupReload -----------------------------
(***************************************************************************)
(* Loading and reloading the trie of one domain group (plugins/groups.rs). *)
(*                                                                         *)
(* init reads all file:// sources, installs the trie and only then starts  *)
(* one watcher per file.  A watcher's callback is reload_group: read all   *)
(* sources, compare with the fingerprint of the last load under the        *)
(* last_files mutex, and afterwards, outside of it, install the new trie.  *)
(*                                                                         *)
(* A source is a set of domains, a trie the domains of all sources (the    *)
(* inline ones, which every installed trie has, are left out, and so is    *)
(* the version number, which is only logged).  No name is one of           *)
(* HostsReload, so that one module can extend both.                        *)
(***************************************************************************)
EXTENDS Integers, FiniteSets

CONSTANTS
  Domains,    \* domains that occur in the sources
  NSources    \* number of file:// sources of the group

ASSUME SourcesAssumption == NSources \in Nat \ {0}

Sources == 1 .. NSources
Init0 == 0                  \* groups::init, which acts like one more reader
Workers == 0 .. NSources

Missing == {"missing"}       \* a source that cannot be read
NotLoaded == {"not loaded"}  \* last_files before the first reload

\* Neither is a set of domains.
ASSUME DomainsAssumption == "missing" \notin Domains /\ "not loaded" \notin Domains

VARIABLES
  source,     \* source[f]: domains in source f now, or Missing
  watching,   \* sources whose watcher is registered
  pending,    \* pending[f]: a change of f not yet taken by its watcher
  pc,         \* pc[w]: idle, reading, compare, install or register
  at,         \* at[w]: next source w reads (or init registers)
  read,       \* read[w]: domains w has read so far
  last,       \* last_files: fingerprint of the last reload
  current,    \* current: the trie in use
  lost        \* history: some change came before its source was watched

groupVars == <<source, watching, pending, pc, at, read, last, current, lost>>

-----------------------------------------------------------------------------

GroupInit ==
  /\ source \in [Sources -> (SUBSET Domains) \cup {Missing}]
  /\ watching = {}
  /\ pending = [f \in Sources |-> FALSE]
  /\ pc = [w \in Workers |-> IF w = Init0 THEN "reading" ELSE "idle"]
  /\ at = [w \in Workers |-> 1]
  /\ read = [w \in Workers |-> {}]
  /\ last = NotLoaded
  /\ current = {}
  /\ lost = FALSE

\* Someone rewrites, removes or restores f; only a registered watcher sees it.
ChangeSource(f) ==
  /\ \E content \in (SUBSET Domains) \cup {Missing} :
       /\ content # source[f]
       /\ source' = [source EXCEPT ![f] = content]
  /\ pending' = [pending EXCEPT ![f] = f \in watching]
  /\ lost' = (lost \/ f \notin watching)
  /\ UNCHANGED <<watching, pc, at, read, last, current>>

\* The watcher's callback calls reload_group.
NoticeChange(f) ==
  /\ pc[f] = "idle" /\ pending[f]
  /\ pending' = [pending EXCEPT ![f] = FALSE]
  /\ pc' = [pc EXCEPT ![f] = "reading"]
  /\ at' = [at EXCEPT ![f] = 1]
  /\ read' = [read EXCEPT ![f] = {}]
  /\ UNCHANGED <<source, watching, last, current, lost>>

\* read_file_domains, one source after the other.
ReadSource(w) ==
  /\ pc[w] = "reading" /\ source[at[w]] # Missing
  /\ read' = [read EXCEPT ![w] = @ \cup source[at[w]]]
  /\ at' = [at EXCEPT ![w] = IF @ = NSources THEN 1 ELSE @ + 1]
  /\ pc' = [pc EXCEPT ![w] =
              CASE at[w] < NSources -> "reading"
                [] at[w] = NSources /\ w = Init0 -> "install"
                [] OTHER -> "compare"]
  /\ UNCHANGED <<source, watching, pending, last, current, lost>>

\* A source cannot be read: reload_group gives up and keeps the trie; init
\* goes on without one.
ReadFails(w) ==
  /\ pc[w] = "reading" /\ source[at[w]] = Missing
  /\ at' = [at EXCEPT ![w] = 1]
  /\ read' = [read EXCEPT ![w] = {}]
  /\ pc' = [pc EXCEPT ![w] = IF w = Init0 THEN "register" ELSE "idle"]
  /\ UNCHANGED <<source, watching, pending, last, current, lost>>

\* Under last_files: nothing to do when the domains are the same as last time.
Compare(f) ==
  /\ pc[f] = "compare"
  /\ last' = read[f]
  /\ pc' = [pc EXCEPT ![f] = IF last = read[f] THEN "idle" ELSE "install"]
  /\ UNCHANGED <<source, watching, pending, at, read, current, lost>>

MutInstall_DropsEvent(w) ==
  /\ pc[w] = "install"
  /\ current' = read[w]
  /\ pc' = [pc EXCEPT ![w] = IF w = Init0 THEN "register" ELSE "idle"]
  /\ pending' = [f \in Sources |-> pending[f] /\ f # w]
  /\ UNCHANGED <<source, watching, at, read, last, lost>>

\* Swap the trie in.  (init does not note what it has loaded in last_files.)
Install(w) ==
  /\ pc[w] = "install"
  /\ current' = read[w]
  /\ pc' = [pc EXCEPT ![w] = IF w = Init0 THEN "register" ELSE "idle"]
  /\ UNCHANGED <<source, watching, pending, at, read, last, lost>>

\* init starts the watchers, file by file.
Register ==
  /\ pc[Init0] = "register"
  /\ watching' = watching \cup {at[Init0]}
  /\ at' = [at EXCEPT ![Init0] = IF @ = NSources THEN 1 ELSE @ + 1]
  /\ pc' = [pc EXCEPT ![Init0] = IF at[Init0] = NSources THEN "idle" ELSE @]
  /\ UNCHANGED <<source, pending, read, last, current, lost>>

Work(w) == ReadSource(w) \/ ReadFails(w) \/ Install(w)
WatchSource(f) == NoticeChange(f) \/ Work(f) \/ Compare(f)

GroupNext ==
  \/ \E f \in Sources : ChangeSource(f) \/ WatchSource(f)
  \/ Work(Init0) \/ Register

GroupSpec == GroupInit /\ [][GroupNext]_groupVars

\* init and the watcher threads run.
FairGroupSpec ==
  /\ GroupSpec
  /\ WF_groupVars(Work(Init0) \/ Register)
  /\ \A f \in Sources : WF_groupVars(WatchSource(f))

-----------------------------------------------------------------------------
(* Properties                                                              *)

\* Type invariant: only init installs what it has not compared, and only
\* registered watchers have work.
GroupTypeOK ==
  /\ source \in [Sources -> (SUBSET Domains) \cup {Missing}]
  /\ watching \in SUBSET Sources /\ pending \in [Sources -> BOOLEAN]
  /\ pc \in [Workers -> {"idle", "reading", "compare", "install", "register"}]
  /\ at \in [Workers -> Sources] /\ read \in [Workers -> SUBSET Domains]
  /\ lost \in BOOLEAN
  /\ last \in (SUBSET Domains) \cup {NotLoaded} /\ current \in SUBSET Domains
  /\ pc[Init0] # "compare"
  /\ \A f \in Sources : pc[f] # "register" /\ (pc[f] # "idle" \/ pending[f] => f \in watching)

\* Nobody has anything left to do, and every source can be read.
Settled ==
  /\ \A w \in Workers : pc[w] = "idle"
  /\ \A f \in Sources : ~pending[f] /\ source[f] # Missing

OnFiles == current = UNION {source[f] : f \in Sources}

\* The only watcher of a group leaves it with the trie of its file, once it has
\* loaded it or if it has seen every change, however changes, failed reads and
\* reloads fall together (the comparison with last_files never skips a reload
\* that was needed).
SettlesAfterReload ==
  NSources = 1 /\ Settled /\ (last # NotLoaded \/ ~lost) => OnFiles

\* After the first reload, what is written to the only source reaches the trie,
\* unless it is overwritten before.
ChangesArrive ==
  \A c \in SUBSET Domains :
    (last # NotLoaded /\ NSources = 1 /\ source[1] = c) ~> (current = c \/ source[1] # c)

(* Statements of the documentation that the code does not meet.            *)

\* groups.rs:8-10: on change the group's trie is rebuilt and swapped.  Here for
\* groups with several sources whose watchers have seen every change.
SettlesOnSources == Settled /\ ~lost => OnFiles

\* The same lines, from the start of the program, with a single source.
SettlesFromStart == Settled => OnFiles
=============================================================================
