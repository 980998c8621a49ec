--------------------------- MODULE Reload_proofs ---------------------------
(***************************************************************************)
(* Proofs about the two components that read their files again when they   *)
(* change: GroupReload, for any number of sources, and HostsReload, for    *)
(* any number of queries and files.                                        *)
(*                                                                         *)
(* A theorem is about one of the two specifications, which share no name.  *)
(***************************************************************************)
EXTENDS HostsReload, GroupReload, TLAPS

-----------------------------------------------------------------------------
(* GroupReload: types                                                      *)

LEMMA WorkerSets ==
  /\ 1 \in Sources /\ NSources \in Sources /\ Sources \subseteq Workers
  /\ Init0 \in Workers /\ Init0 \notin Sources
  /\ \A i \in Sources : i # NSources => i + 1 \in Sources /\ i < NSources
BY SourcesAssumption DEF Sources, Workers, Init0

LEMMA GroupTypeInit == GroupInit => GroupTypeOK
<1> SUFFICES ASSUME GroupInit PROVE GroupTypeOK
  OBVIOUS
<1>1. source \in [Sources -> (SUBSET Domains) \cup {Missing}]
  BY DEF GroupInit
<1>2. \A f \in Sources : pc[f] = "idle" /\ ~pending[f]
  BY WorkerSets DEF GroupInit
<1>3. pc \in [Workers -> {"idle", "reading", "compare", "install", "register"}]
  BY DEF GroupInit
<1>4. pc[Init0] = "reading"
  BY WorkerSets DEF GroupInit
<1> QED
  BY <1>1, <1>2, <1>3, <1>4, WorkerSets DEF GroupInit, GroupTypeOK

\* A step of init or of a watcher that reads, gives up or installs.
LEMMA WorkType ==
  ASSUME GroupTypeOK, NEW w \in Workers, Work(w)
  PROVE  GroupTypeOK'
<1> USE DEF GroupTypeOK
<1>1. CASE ReadSource(w)
  <2>1. at[w] \in Sources /\ source[at[w]] \in SUBSET Domains
    BY <1>1 DEF ReadSource
  <2>2. read' \in [Workers -> SUBSET Domains]
    <3>1. read[w] \cup source[at[w]] \in SUBSET Domains
      BY <2>1
    <3> QED BY <1>1, <3>1 DEF ReadSource
  <2>3. at' \in [Workers -> Sources]
    BY <1>1, <2>1, WorkerSets DEF ReadSource
  <2>4. /\ at[w] < NSources => pc'[w] = "reading"
        /\ at[w] = NSources /\ w = Init0 => pc'[w] = "install"
        /\ at[w] = NSources /\ w # Init0 => pc'[w] = "compare"
        /\ at[w] = NSources \/ at[w] < NSources
        /\ \A v \in Workers : v # w => pc'[v] = pc[v]
    <3>1. at[w] = NSources \/ at[w] < NSources
      BY <2>1, WorkerSets
    <3>2. ~(NSources < NSources)
      BY SourcesAssumption
    <3>3. \A v \in Workers : v # w => pc'[v] = pc[v]
      BY <1>1 DEF ReadSource
    <3>4. at[w] < NSources => pc'[w] = "reading"
      BY <1>1, SourcesAssumption DEF ReadSource, Sources
    <3>5. at[w] = NSources /\ w = Init0 => pc'[w] = "install"
      BY <1>1, <3>2 DEF ReadSource
    <3>6. at[w] = NSources /\ w # Init0 => pc'[w] = "compare"
      BY <1>1, <3>2 DEF ReadSource
    <3> QED BY <3>1, <3>3, <3>4, <3>5, <3>6
  <2>5. pc' \in [Workers -> {"idle", "reading", "compare", "install", "register"}]
    <3>1. pc' = [pc EXCEPT ![w] = pc'[w]]
      BY <1>1 DEF ReadSource
    <3> QED BY <3>1, <2>4
  <2>6. pc'[Init0] # "compare"
    BY <2>4, WorkerSets
  <2>7. ASSUME NEW f \in Sources
        PROVE  pc'[f] # "register" /\ (pc'[f] # "idle" \/ pending'[f] => f \in watching')
    BY <1>1, <2>4, WorkerSets DEF ReadSource
  <2> QED BY <1>1, <2>2, <2>3, <2>5, <2>6, <2>7 DEF ReadSource
<1>2. CASE ReadFails(w)
  BY <1>2, WorkerSets DEF ReadFails
<1>3. CASE Install(w)
  BY <1>3, WorkerSets DEF Install
<1> QED BY <1>1, <1>2, <1>3 DEF Work

LEMMA GroupTypeStep == GroupTypeOK /\ [GroupNext]_groupVars => GroupTypeOK'
<1> SUFFICES ASSUME GroupTypeOK, [GroupNext]_groupVars PROVE GroupTypeOK'
  OBVIOUS
<1>1. CASE UNCHANGED groupVars
  BY <1>1 DEF groupVars, GroupTypeOK
<1>2. ASSUME NEW f \in Sources, ChangeSource(f) PROVE GroupTypeOK'
  BY <1>2, WorkerSets DEF ChangeSource, GroupTypeOK
<1>3. ASSUME NEW f \in Sources, NoticeChange(f) PROVE GroupTypeOK'
  BY <1>3, WorkerSets DEF NoticeChange, GroupTypeOK
<1>4. ASSUME NEW f \in Sources, Compare(f) PROVE GroupTypeOK'
  BY <1>4, WorkerSets DEF Compare, GroupTypeOK
<1>5. CASE Register
  BY <1>5, WorkerSets DEF Register, GroupTypeOK
<1> QED
  BY <1>1, <1>2, <1>3, <1>4, <1>5, WorkType, WorkerSets DEF GroupNext, WatchSource

\* Every variable of the groups stage keeps its type, and only registered
\* watchers have work (groups.rs:122-230), for any number of sources.
THEOREM GroupTypeCorrect == GroupSpec => []GroupTypeOK
BY GroupTypeInit, GroupTypeStep, PTL DEF GroupSpec

-----------------------------------------------------------------------------
(* The only watcher of a group                                             *)

\* Before its watcher is registered, init alone is at work, and what it has
\* read is the file's content unless a change got lost.
Loading ==
  watching = {} =>
    /\ pc[1] = "idle" /\ ~pending[1] /\ last = NotLoaded
    /\ pc[Init0] \in {"reading", "install", "register"}
    /\ pc[Init0] = "reading" => read[Init0] = {}
    /\ pc[Init0] = "install" /\ ~lost => read[Init0] = source[1]
    /\ pc[Init0] = "register" /\ ~lost => current = source[1] \/ source[1] = Missing

\* Afterwards: the fingerprint is the trie's or that of the trie to come, and
\* unless a change waits to be noticed, the watcher has read the file's content.
Watching ==
  watching # {} =>
    /\ pc[Init0] = "idle"
    /\ pc[1] = "reading" => read[1] = {}
    /\ pc[1] \in {"compare", "install"} /\ ~pending[1] => read[1] = source[1]
    /\ pc[1] = "install" => last = read[1]
    /\ pc[1] # "install" /\ last # NotLoaded => current = last
    /\ pc[1] = "idle" /\ ~pending[1] /\ (last # NotLoaded \/ ~lost) =>
         current = source[1] \/ source[1] = Missing

SingleInv ==
  NSources = 1 => at[Init0] = 1 /\ at[1] = 1 /\ Loading /\ Watching

LEMMA SingleInit == GroupInit => SingleInv
<1> SUFFICES ASSUME GroupInit, NSources = 1 PROVE SingleInv
  BY DEF SingleInv
<1>1. Workers = {0, 1} /\ Sources = {1}
  BY DEF Workers, Sources
<1> QED BY <1>1 DEF GroupInit, SingleInv, Loading, Watching, Init0

\* A fingerprint that was never noted differs from every set of domains.
LEMMA NotLoadedIsNew ==
  ASSUME NEW s \in SUBSET Domains
  PROVE  s # NotLoaded
BY DomainsAssumption DEF NotLoaded

LEMMA SingleStep == GroupTypeOK /\ SingleInv /\ [GroupNext]_groupVars => SingleInv'
<1> SUFFICES ASSUME GroupTypeOK, SingleInv, [GroupNext]_groupVars, NSources = 1 PROVE SingleInv'
  BY DEF SingleInv
<1>f. /\ Sources = {1} /\ Workers = {0, 1} /\ Init0 = 0
      /\ watching = {} \/ watching = {1}
  <2>1. Sources = {1} /\ Workers = {0, 1} /\ Init0 = 0
    BY DEF Sources, Workers, Init0
  <2>2. watching \in SUBSET {1}
    BY <2>1 DEF GroupTypeOK
  <2> QED BY <2>1, <2>2
<1>g. /\ at[0] = 1 /\ at[1] = 1 /\ Loading /\ Watching
      /\ read[0] \in SUBSET Domains /\ read[1] \in SUBSET Domains
      /\ source[1] \in (SUBSET Domains) \cup {Missing}
      /\ pc \in [{0, 1} -> {"idle", "reading", "compare", "install", "register"}]
      /\ source = [i \in {1} |-> source[1]]
      /\ pending \in [{1} -> BOOLEAN] /\ at \in [{0, 1} -> {1}]
      /\ read \in [{0, 1} -> SUBSET Domains]
  BY <1>f DEF GroupTypeOK, SingleInv
<1>h. Init0' = Init0 /\ NSources' = NSources
  OBVIOUS
<1> SUFFICES at'[0] = 1 /\ at'[1] = 1 /\ Loading' /\ Watching'
  BY <1>f DEF SingleInv
<1>1. CASE UNCHANGED groupVars
  BY <1>1, <1>f, <1>g DEF groupVars, Loading, Watching
<1>2. CASE ChangeSource(1)
  BY <1>2, <1>f, <1>g DEF ChangeSource, Loading, Watching
<1>3. CASE NoticeChange(1)
  BY <1>3, <1>f, <1>g DEF NoticeChange, Loading, Watching
<1>4. CASE Compare(1)
  <2>1. watching = {1}
    BY <1>4, <1>f, <1>g DEF Compare, Loading
  <2>2. read[1] # NotLoaded
    BY <1>g, NotLoadedIsNew
  <2>3. CASE last = read[1]
    BY <1>4, <1>f, <1>g, <2>1, <2>2, <2>3 DEF Compare, Loading, Watching
  <2>4. CASE last # read[1]
    BY <1>4, <1>f, <1>g, <2>1, <2>4 DEF Compare, Loading, Watching
  <2> QED BY <2>3, <2>4
<1>5. CASE Register
  BY <1>5, <1>f, <1>g DEF Register, Loading, Watching
<1>6. CASE Work(0)
  <2>1. watching = {}
    BY <1>6, <1>f, <1>g DEF Work, ReadSource, ReadFails, Install, Watching
  <2>2. CASE ReadSource(0)
    <3>1. pc'[0] = "install" /\ pc'[1] = pc[1]
      BY <2>2, <1>f, <1>g DEF ReadSource
    <3> QED BY <2>2, <3>1, <1>f, <1>g, <2>1 DEF ReadSource, Loading, Watching
  <2>3. CASE ReadFails(0)
    BY <2>3, <1>f, <1>g, <2>1 DEF ReadFails, Loading, Watching
  <2>4. CASE Install(0)
    BY <2>4, <1>f, <1>g, <2>1 DEF Install, Loading, Watching
  <2> QED BY <1>6, <2>2, <2>3, <2>4 DEF Work
<1>7. CASE Work(1)
  <2>1. watching = {1}
    BY <1>7, <1>f, <1>g DEF Work, ReadSource, ReadFails, Install, Loading
  <2>2. CASE ReadSource(1)
    <3>1. pc'[1] = "compare" /\ pc'[0] = pc[0]
      BY <2>2, <1>f, <1>g DEF ReadSource
    <3> QED BY <2>2, <3>1, <1>f, <1>g, <2>1 DEF ReadSource, Loading, Watching
  <2>3. CASE ReadFails(1)
    BY <2>3, <1>f, <1>g, <2>1 DEF ReadFails, Loading, Watching
  <2>4. CASE Install(1)
    BY <2>4, <1>f, <1>g, <2>1 DEF Install, Loading, Watching
  <2> QED BY <1>7, <2>2, <2>3, <2>4 DEF Work
<1> QED
  BY <1>f, <1>1, <1>2, <1>3, <1>4, <1>5, <1>6, <1>7 DEF GroupNext, WatchSource

\* Once it has reloaded, or if it has missed nothing, the only watcher of a
\* group leaves the trie of its file behind: last_files never skips a reload
\* that was needed (reload_group, groups.rs:122-156).
THEOREM GroupSettles == GroupSpec => []SettlesAfterReload
<1>1. GroupTypeOK /\ SingleInv => SettlesAfterReload
  <2> SUFFICES ASSUME GroupTypeOK, SingleInv, NSources = 1, Settled,
                      last # NotLoaded \/ ~lost
               PROVE  OnFiles
    BY DEF SettlesAfterReload
  <2>1. Sources = {1} /\ Init0 \in Workers
    BY DEF Sources, Workers, Init0
  <2>2. pc[1] = "idle" /\ pc[Init0] = "idle" /\ ~pending[1] /\ source[1] # Missing
    BY <2>1, WorkerSets DEF Settled
  <2>3. watching # {}
    BY <2>2 DEF SingleInv, Loading
  <2>4. current = source[1]
    BY <2>2, <2>3 DEF SingleInv, Watching
  <2> QED BY <2>1, <2>4 DEF OnFiles
<1> QED
  BY <1>1, GroupTypeInit, GroupTypeStep, SingleInit, SingleStep, PTL DEF GroupSpec
-----------------------------------------------------------------------------
(* HostsReload: types                                                      *)

\* What one lookup of a trie returns.
LEMMA LookupType ==
  ASSUME NEW t, NEW n
  PROVE  Lookup(t, n) \in {"alias", "ips", "miss"}
BY DEF Lookup

LEMMA HostsTypeInit == Init => TypeOK
<1> SUFFICES ASSUME Init PROVE TypeOK
  OBVIOUS
<1>1. 1 \in Files /\ 0 \notin Files
  BY FilesAssumption DEF Files
<1>2. trie \in SUBSET Lines
  BY DEF Init
<1> QED
  BY <1>1, <1>2 DEF Init, TypeOK, Names

\* The conjunct of TypeOK about the lock, under a step of one watcher.
LEMMA HostsTypeStep == TypeOK /\ [Next]_(vars) => TypeOK'
<1> SUFFICES ASSUME TypeOK, [Next]_(vars) PROVE TypeOK'
  OBVIOUS
<1>f. 1 \in Files /\ 0 \notin Files /\ \A i \in Files : i # NFiles => i + 1 \in Files
  BY FilesAssumption DEF Files
<1> USE DEF TypeOK, files, watchers, queries
<1>1. CASE UNCHANGED vars
  BY <1>1 DEF vars
<1>2. ASSUME NEW f \in Files, Change(f) PROVE TypeOK'
  BY <1>2 DEF Change
<1>3. ASSUME NEW f \in Files, Notice(f) PROVE TypeOK'
  <2>1. next' \in [Files -> Files] /\ fresh' \in [Files -> SUBSET Lines]
    BY <1>3, <1>f DEF Notice
  <2>2. \A g \in Files : wpc'[g] = "locking" <=> writer' = g
    BY <1>3 DEF Notice
  <2> QED BY <1>3, <2>1, <2>2 DEF Notice
<1>4. ASSUME NEW f \in Files, ReadFile(f) PROVE TypeOK'
  <2>1. next' \in [Files -> Files]
    BY <1>4, <1>f DEF ReadFile
  <2>2. fresh' \in [Files -> SUBSET Lines]
    <3>1. next[f] \in Files /\ file[next[f]] \in SUBSET Lines
      OBVIOUS
    <3>2. fresh[f] \cup file[next[f]] \in SUBSET Lines
      BY <3>1
    <3> QED BY <1>4, <3>2 DEF ReadFile
  <2>3. \A g \in Files : wpc'[g] = "locking" <=> writer' = g
    BY <1>4 DEF ReadFile
  <2>4. wpc' \in [Files -> {"idle", "reading", "built", "locking"}]
    BY <1>4 DEF ReadFile
  <2> QED BY <1>4, <2>1, <2>2, <2>3, <2>4 DEF ReadFile
<1>5. ASSUME NEW f \in Files, ClaimWrite(f) PROVE TypeOK'
  <2>1. \A g \in Files : wpc'[g] = "locking" <=> writer' = g
    BY <1>5, <1>f DEF ClaimWrite
  <2> QED BY <1>5, <2>1 DEF ClaimWrite
<1>6. ASSUME NEW f \in Files, Swap(f) PROVE TypeOK'
  <2>1. \A g \in Files : wpc'[g] = "locking" <=> writer' = g
    BY <1>6, <1>f DEF Swap
  <2> QED BY <1>6, <2>1 DEF Swap
<1>7. ASSUME NEW q \in Queries, NEW n \in Names, Ask(q, n) PROVE TypeOK'
  BY <1>7 DEF Ask
<1>8. ASSUME NEW q \in Queries, FirstLookup(q) PROVE TypeOK'
  <2>1. Lookup(trie, name[q]) \in {"alias", "ips", "miss"}
    BY LookupType
  <2> QED BY <1>8, <2>1 DEF FirstLookup
<1>9. ASSUME NEW q \in Queries, SecondLookup(q) PROVE TypeOK'
  BY <1>9 DEF SecondLookup
<1>10. ASSUME NEW q \in Queries, Leave(q) PROVE TypeOK'
  BY <1>10 DEF Leave
<1> QED
  BY <1>1, <1>2, <1>3, <1>4, <1>5, <1>6, <1>7, <1>8, <1>9, <1>10
     DEF Next, Watch, Handle

\* The lock has at most one writer, and every variable of the hosts stage its
\* type (hosts.rs:214-287), for any number of queries and files.
THEOREM HostsTypeCorrect == Spec => []TypeOK
BY HostsTypeInit, HostsTypeStep, PTL DEF Spec

-----------------------------------------------------------------------------
(* One trie per query                                                      *)

\* While a query holds the guard of its first lookup, that lookup was of the
\* trie in use, and found an alias.
Guarded ==
  \A q \in Queries :
    qpc[q] = "aliased" => seen[q] = trie /\ Lookup(trie, name[q]) = "alias"

OneTrieInv == Guarded /\ OneTriePerQuery

LEMMA OneTrieInit == Init => OneTrieInv
BY DEF Init, OneTrieInv, Guarded, OneTriePerQuery

LEMMA OneTrieStep == TypeOK /\ OneTrieInv /\ [Next]_(vars) => OneTrieInv'
<1> SUFFICES ASSUME TypeOK, OneTrieInv, [Next]_(vars) PROVE OneTrieInv'
  OBVIOUS
<1> USE DEF TypeOK, OneTrieInv, Guarded, OneTriePerQuery, files, watchers, queries
<1>1. CASE UNCHANGED <<trie, queries>>
  BY <1>1
<1>2. ASSUME NEW f \in Files, Swap(f) PROVE OneTrieInv'
  <2>1. \A q \in Queries : qpc[q] # "aliased"
    BY <1>2 DEF Swap, Readers
  <2> QED BY <1>2, <2>1 DEF Swap
<1>3. ASSUME NEW q \in Queries, NEW n \in Names, Ask(q, n) PROVE OneTrieInv'
  BY <1>3 DEF Ask
<1>4. ASSUME NEW q \in Queries, FirstLookup(q) PROVE OneTrieInv'
  <2>1. seen'[q] = trie /\ name'[q] = name[q] /\ trie' = trie
    BY <1>4 DEF FirstLookup
  <2>2. qpc'[q] = "aliased" => Lookup(trie, name[q]) = "alias"
    BY <1>4 DEF FirstLookup
  <2>3. qpc'[q] = "done" => res'[q] = Verdict(trie, name[q])
    <3>1. SUFFICES ASSUME qpc'[q] = "done" PROVE res'[q] = Verdict(trie, name[q])
      OBVIOUS
    <3>2. Lookup(trie, name[q]) # "alias" /\ res'[q] = Lookup(trie, name[q])
      BY <1>4, <3>1 DEF FirstLookup
    <3> QED BY <3>2 DEF Verdict
  <2>4. ASSUME NEW r \in Queries, r # q
        PROVE  /\ qpc'[r] = qpc[r] /\ seen'[r] = seen[r]
               /\ res'[r] = res[r] /\ name'[r] = name[r]
    BY <1>4, <2>4 DEF FirstLookup
  <2> QED BY <2>1, <2>2, <2>3, <2>4
<1>5. ASSUME NEW q \in Queries, SecondLookup(q) PROVE OneTrieInv'
  <2>1. /\ seen[q] = trie /\ Lookup(trie, name[q]) = "alias"
        /\ seen' = seen /\ name' = name /\ trie' = trie
    BY <1>5 DEF SecondLookup
  <2>2. qpc'[q] = "done" /\ res'[q] = Verdict(seen[q], name[q])
    BY <1>5, <2>1 DEF SecondLookup, Verdict
  <2>3. ASSUME NEW r \in Queries, r # q
        PROVE  qpc'[r] = qpc[r] /\ res'[r] = res[r]
    BY <1>5, <2>3 DEF SecondLookup
  <2> QED BY <2>1, <2>2, <2>3
<1>6. ASSUME NEW q \in Queries, Leave(q) PROVE OneTrieInv'
  BY <1>6 DEF Leave
<1> QED
  BY <1>1, <1>2, <1>3, <1>4, <1>5, <1>6
     DEF Next, Watch, Handle, Change, Notice, ReadFile, ClaimWrite, vars

\* However many watchers swap tries meanwhile, the two lookups of an alias are
\* made in one trie (the read guard of hosts.rs:258).
THEOREM OneTrie == Spec => []OneTriePerQuery
<1>1. TypeOK /\ OneTrieInv => OneTriePerQuery
  BY DEF OneTrieInv
<1> QED
  BY <1>1, HostsTypeInit, HostsTypeStep, OneTrieInit, OneTrieStep, PTL DEF Spec

-----------------------------------------------------------------------------
(* A single watcher loses no change                                        *)

\* Unless a change is still to be noticed, the file's lines are in the trie, in
\* the watcher's hands, or about to be read by it.
Current ==
  NFiles = 1 =>
    /\ wpc[1] = "reading" => next[1] = 1 /\ fresh[1] = {}
    /\ wpc[1] \in {"built", "locking"} /\ ~event[1] => fresh[1] = file[1]
    /\ wpc[1] = "idle" /\ ~event[1] => trie = file[1]

LEMMA CurrentInit == Init => Current
<1> SUFFICES ASSUME Init, NFiles = 1 PROVE Current
  BY DEF Current
<1>1. Files = {1}
  BY DEF Files
<1>2. trie = file[1]
  BY <1>1 DEF Init
<1> QED BY <1>1, <1>2 DEF Init, Current

LEMMA CurrentStep == TypeOK /\ Current /\ [Next]_(vars) => Current'
<1> SUFFICES ASSUME TypeOK, Current, [Next]_(vars), NFiles = 1 PROVE Current'
  BY DEF Current
<1>f. Files = {1}
  BY DEF Files
<1> USE DEF TypeOK, Current, files, watchers, queries
<1>1. CASE UNCHANGED <<files, watchers, trie>>
  BY <1>1, <1>f
<1>2. CASE Change(1)
  BY <1>2, <1>f DEF Change
<1>3. CASE Notice(1)
  BY <1>3, <1>f DEF Notice
<1>4. CASE ReadFile(1)
  <2>1. wpc'[1] = "built" /\ fresh'[1] = file[1]
    BY <1>4, <1>f DEF ReadFile
  <2> QED BY <1>4, <2>1 DEF ReadFile
<1>5. CASE ClaimWrite(1)
  BY <1>5, <1>f DEF ClaimWrite
<1>6. CASE Swap(1)
  BY <1>6, <1>f DEF Swap
<1> QED
  BY <1>f, <1>1, <1>2, <1>3, <1>4, <1>5, <1>6
     DEF Next, Watch, Handle, Ask, FirstLookup, SecondLookup, Leave, vars

\* A trie that the only watcher is not about to replace holds the lines of its
\* file, however changes, reads, swaps and lookups interleave (hosts.rs:226-239).
THEOREM ChangesKept == Spec => []NothingLost
<1>1. TypeOK /\ Current => NothingLost
  BY DEF Current, NothingLost
<1> QED
  BY <1>1, HostsTypeInit, HostsTypeStep, CurrentInit, CurrentStep, PTL DEF Spec
=============================================================================
