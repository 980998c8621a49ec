# A verification development for rsdns

rsdns is an asynchronous DNS forwarder in Rust (tokio). This directory holds TLA+
modules that model its core, TLC configurations that check them on small
instances, and theorems about them with machine-checked proofs. Source references
are to the repository: `pool.rs:272` is `src/upstream/pool.rs`, line 272, and so on.

Contents: 1 the system, 2 the modules and the code, 3 what the runs check,
4 bounds, 5 fairness, 6 what is proved, 7 where code and comments differ,
8 what is not modelled, 9 plan.

## 1. The system

A request arrives on a listener and becomes a tokio task that runs
`DnsServer::handle_query` (`server.rs:481-586`):

```
listener -> hosts -> groups -> cache.lookup -> rules -> balance -> write_back -> log -> reply
             |         |           |             |
          file      file        moka         upstream group -> client -> connection pool
          watchers  watchers    cache        (breakers)
```

Hosts, cache and rules may answer and short-circuit the stages up to balance; the
steps after the stages always run.

| Component | State | Operations | Hard behaviour | What makes it correct |
|---|---|---|---|---|
| connection pool (`upstream/pool.rs`, `conn.rs`) | idle queue behind a mutex, address cursor (atomic), idle gauge | checkout, dial the next address, query, release, drop on error | checkouts, releases and cancellations interleave; the guard reports an outcome at most once; the queue has no limit | a connection is used by one query at a time and never after a failure; bursts do not make the queue grow for ever |
| upstream group (`upstream/mod.rs`) | per client an error window and `cooldown_until` (mutex), round-robin cursor | query in modes serial, random, round_robin, parallel; record success or failure | failures and successes of concurrent queries meet in one breaker; clocks are read before awaits and locks | a query gives up only after every client that may be asked; breakers trip only when deserved |
| upstream start-up (`upstream/mod.rs` init, `config.rs`, `factory.rs`) | the parsed servers, the addresses collected for one of them, the pools built so far | parse, bootstrap through hosts, aliases or IP servers, rank addresses, assemble the groups | ordered fallbacks between sources; concurrent bootstrap queries of which some fail; hosts reloads meanwhile | it gives up only when a server has no address, and a pool has exactly the addresses its server resolved to |
| cache (`plugins/cache.rs`, `util.rs`) | moka cache: key -> records, NXDOMAIN or empty, with a lifetime per entry | lookup, write_back, classification, TTL arithmetic | hits are stored again; several queries for one key; seconds round down, min_ttl rounds up | what a client gets was said by an upstream and is not out of date |
| hosts (`plugins/hosts.rs`) | trie behind a read-write lock; one watcher per file | lookup with aliases, rebuild and swap | a lookup takes the lock twice, with a writer in between | a query is answered from one version of the files; changes arrive |
| groups (`plugins/groups.rs`) | per group a trie, the fingerprint of its files, a version | match a query, reload by watchers | fingerprint and trie are under two locks; sources may be missing for a moment | the trie ends up with what the files say |
| domain trie (`common/domain_trie.rs`) | sorted items with tags, built once | insert, longest-suffix lookup | a domain listed twice; suffixes of suffixes | the longest listed suffix is found |
| rules (`plugins/rules.rs`) | rule table, inline trie, `tag_to_idx`, template cache | select the rule; block, rewrite, cname, forward with CNAME resolution, ECH completion, TTL override | a fast path next to the ordered scan; second queries may fail; chains may loop | the rule that decides is the one the order promises; a follow-up never makes an answer worse |
| balance (`plugins/balance.rs`) | none between queries | rank, rotate, order by latency, truncate | cached answers are balanced and stored again at every hit | records stay what they were and in slots of their type; the cut never drops a preferred address for another |
| query log (`plugins/logs.rs`) | file handle behind a mutex; the write tokio's file has in the background | write a line, reopen | lines are written while SIGHUP reopens; an error comes up one write late | a line reaches exactly one file, and few are lost to a failed write |
| listeners (`server.rs`, `common/tls.rs`, `common/bind.rs`) | sockets, in the order they are bound | receive, frame, reply, over UDP, TCP, DoT, DoH, DoH3 | one task per request | each request is answered, refused or closed; an answer leaves after its log line |
| lifecycle (`main.rs`, `notify.rs`) | the sockets bound, the join set of listeners, pending signals | start, READY, SIGHUP, stop | every step of start-up may fail; the first listener that ends stops the process; signals come at any moment | READY means complete; the process serves with all its listeners or is gone; after a rotation the log goes to the new file |
| configuration values, metrics, ui pages, logging, jemalloc | values and counters | deserialise, count, render | - | - |

Interactions that carry state across components: the cache stores what rules
answered (`server.rs:578`), a pool's failures feed the breaker of its client
(`mod.rs:287-299`), hosts answers may be other names that rules then forward
(`server.rs:518-552`), group flags switch the cache and balance off
(`query.rs:64-68`), and the rule table may require a group (`rules.rs` matches).

Every hazard found while reading is listed in `PROJECT.json` at the line where it
bites, with the properties that cover it or the reason why none does yet.

## 2. Modules and code

Each module `X` is checked through `MCX`, which gives its constants concrete
values. Operators whose name starts with `Mut` are faulty variants of the
definition that follows them (a lost reset, an off-by-one, a missing guard); no
specification uses them. They document which mistake each property would find.

**ConnPool** - one pool as `UpstreamClient::query` drives it. An action is the code
between two points at which another thread can run: a mutex section
(`CheckoutCached`, `CheckoutEmpty`, `Answered`, `UpdateGauge`), the atomic cursor
(`NextAddr`), the code after an await (`Connected`, `ConnectFailed`, `SendFailed`,
`GiveUp`), or the drop of a query in an await (`CancelDial`, `CancelSend`). `cache`
is the idle queue, `held` the connection in a `CheckoutGuard`, `cursor` the shared
`AtomicUsize` (reduced modulo the number of addresses). `gauge` is the published
count: a series named by the group and the protocol (`pool.rs:168`), which the pool
writes only once `SetPoolIdentity` has told it the group's name, and which
every pool of that protocol in the group sets to its own count (`PeerPublishes`, with
a value of `Peers`). Time is relative: each idle connection has an age. `failed`,
`tried`, `solo` and `publisher` (who wrote the gauge last) are history variables.
Note that `release` pushes and publishes in two mutex sections, and that a drop in the middle of a send reports success
(`pool.rs:104`), which is what the code does and what `CancelSend` does.

**UpstreamGroup** - one group with `N` clients in one of four modes. `order`, `pos`
and `start` are the locals of `Upstream::query`; `errors` and `coolUntil` a breaker.
A client is picked under its breaker's mutex and asked after that is released
(`mod.rs:271-278`), a race picks all clients before it polls the first (`mod.rs:304-327`),
and a failure's stamp is taken before the breaker's mutex: hence `Pick` and `Ask` or
`Race`, and `Failed` and `Record`, between which other queries trip breakers or
reset them. `racing` holds the clients picked and, in mode parallel, the runners;
`barred` is history: the clients that a query must leave alone. `Answered` drops the rest, as the
`JoinSet` does. `Abandon` is the caller's timeout. A client itself is a black box
that answers or fails: ConnPool is what is inside. A `Window` of 0 is a window
shorter than a tick of the clock.

**CacheStage** - lookup and write-back as `handle_query` calls them, for tasks that
run concurrently. A query is `asking` while the rules stage works; `Upstream`,
`DenyQtype`, `ForwardError` and `Local` are the ways in which that stage ends, by
the label it leaves in `ctx.action`, on which `write_back` decides. `Kind` is
`extract_response`, `duration_for` the clamp, `remaining_ttl` the rounding; ticks
are 1/`Unit` second, so that rounding to whole seconds is visible. `Evict` stands
for moka's size limit, `ZoneChange` for the authority changing its data. In an
entry `rest` and `left` are what the code knows; `life`, `was` and `current` are
history: how long the upstream's own TTL still runs, what the upstream said, and
whether the zone still says so. The balance stage awaits its speed probes between
an answer and its write-back (`server.rs:537`, 578): `Probing` says which answers may
wait for `Tick`s there, `ProbeTicks` for how many. Records may be of types the cache
has no record for (`other`) or have a name that does not parse back
(`unreadable`), of which a hit makes a SERVFAIL (`cache.rs:289-294`).

**HostsReload** - readers and watchers around the `RwLock` of the hosts trie. The
lock is parking_lot's: a waiting writer blocks new readers, also a reader that
already holds a guard. `ClaimWrite` is a writer that starts to wait, `Swap` gets
the lock. `FirstLookup` and `SecondLookup` are the two reads of an alias, the first
guard being held (`hosts.rs:258`) until the match ends.

**GroupReload** - `groups::init`, its watchers and `reload_group`. Worker 0 is init
(loads, installs, then registers one watcher after the other); the others read
file by file, compare with `last_files` under its mutex, and install outside of
it. A source can be missing, and changes come at any moment, also before its
watcher is registered.

**RuleMatch** - rule selection. `IndexRule` is `build_inline_trie` one rule at a
time; then queries come one after the other through `FastHit`/`FastMiss`
(`inline_hit`), `ScanSkip`/`ScanHit` and `NoRule`. A domain is the sequence of its
labels from the top-level one down, so that a suffix is a prefix; the trie is a
function from listed domains to tags, its lookup the longest prefix.
`Captures` is the capturing of a template, with the code's indexing.

**ForwardRule** - what `apply_rule` does with the chosen rule. A query waits in
`main`, `target` (CNAME resolution), `template` (ECH) or `cname`; between two waits
it runs alone. Records are reduced to type, owner, TTL (the rule's or the
upstream's), the name a CNAME leads to, and what ECH completion looks at in an
HTTPS record. `ech` is the template cache, shared by all queries; `first` (the
upstream's answer), `second` (what the target of its CNAME resolved to) and `sent`
are history. Upstreams answer anything that
`Zone` allows, or fail.

**ConnLease** - what a pool promises, without queue, cursor, clock and gauge: a
connection is idle, leased to one query, or gone; a lease ends by giving the
connection back or by breaking it, and a broken connection is not leased again.
ConnPool maps `idle` to the connections in its queue, `lessee` to `held` and
`broken` to `failed`, and implements it (`ImplementsLease`).

**Balance** - the balance stage as operators: the priority of an address by the list
of CIDRs, the order of one family, the cut. A record is its type and its address,
addresses have `Width` bits. Where chance (the start of a rotation) or the
network (measured latencies) decides, an operator returns the set of
answers it may lead to.

**Pipeline** - the stages in their order, with what they share: the `QueryContext`
(`ctx`: the question of the message, the name of the cache key, the original
domain of an alias, the two control bits) and the cache (`entry`). One action is
what a task does between two awaits: hosts, groups and lookup run through
(`HostsAnswer`, `CacheHit`, `CacheMiss`), the rules wait (`Forwarded`, `Failed`,
`Local`), balance may wait for its probes (`BalanceAndRestore`), and `WriteBack`
ends the query. Each stage is as coarse as the sharing allows: its inside is the
subject of the other modules. `src` in a response is history: where its records
came from, and whether a group with `skip_balance` had them fetched. `groups` says
for each name which flags the group tries give it now; `GroupsReload` exchanges
that at any moment for anything else that the configuration's files may say
(`groups.rs:122-156`), also for what no file says as a whole, as a lookup may scan one
trie before and another after a reload. `group` in a context is what the query found.

**Bootstrap** - `upstream::init`: phase 1 (`Check`), phase 2 for one server after the
other (`FromHosts`, or `AskNetwork`, `Answer` for each concurrent bootstrap
query, `FromNetwork`), phase 3 (`Assemble`). An address is its form (an IPv4 or
IPv6 literal with and without brackets, a domain, nothing), its port and its
scheme, and the operators `PlainAddress` to `OddAddress` say what each parser
makes of it. The watchers of hosts run already, so the table may change.

**Lifecycle** - the process around Bootstrap: `pc` is the await at which `run`
stands, from the log to the exit status; `bound`, `notified` and `listener` what
start-up has done; `task`, `via` and `reply` a query from its socket to its
reply; `exempt` (history) the queries whose `skip_log` was set, which `log_query` reads
and no stage sets as yet; `file`, `fresh`, `writes` and `failed` the log's `tokio::fs::File`, which
takes a line, writes it in the background and reports an error at the next write.
The kernel, systemd (which sends SIGHUP on `reload` to an active unit) and
logrotate (`path` is the file that currently has the name, `owed` a
postrotate script still to run) are external.

**Ordering** - sorting and filtering as the code asks the standard library for them
(`sort_by_key`, `sort`, `filter`, `retain`), defined by position: the k-th element is
the one with k - 1 before it (`Listed`). Balance's rankings, the filters of
ForwardRule, the members of a group, the sockets of a kind and what the cache keeps
of an answer are built from `StableOrder`, `Ascending` and `Picked`, so that one set
of lemmas serves all of them and none of them recurses over a sequence.

How they fit together: ConnPool implements ConnLease, which is checked and
proved. Pipeline composes hosts, groups, cache, rules, balance and write-back, with
Balance's operators as its balance stage; Lifecycle extends Bootstrap, which ranks
with the same operators. The other joints are abstractions by
construction: UpstreamGroup's `Answered`/`Failed` are ConnPool's outcomes of one
query; ForwardRule's waits, and Bootstrap's `Answer`, are a query to a group or a
client; the ways in which CacheStage's and Pipeline's rules stage ends are ForwardRule's
results; RuleMatch supplies the rule ForwardRule applies; Lifecycle's `Handle` is
a run of Pipeline.

## 3. What the runs check

| Run | Configuration | Question and result |
|---|---|---|
| `conn_pool` | `MCConnPool.cfg` | Holds: exclusive use, the freshest idle connection first, a bound on idle plus running, a lone checkout tries every address, the gauge is never too low until another pool of the group overwrites it, the pool implements the leases of ConnLease (hence no reuse after a failure), every query ends. |
| `group` | `MCUpstreamGroup.cfg` | Holds in all four modes: a query fails only after every client was asked or cooling, a client that was cooling as a query began or tripped before its turn is left alone by it, trips are earned, every query returns. |
| `cache_stage` | `MCCacheStage.cfg` | Holds with `min_ttl` 0, for every class of answer and TTLs above and below `max_ttl`: records outlive the upstream's TTL by no more than one run of the probes however often hits store them again, hits have the upstream's records or its rcode, skip_cache leaves no trace, outdated records leave. |
| `cache_fresh` | `MCCacheStage_fresh.cfg` | Violated: with `min_ttl` above what is left, each hit extends the entry. |
| `hosts_reload` | `MCHostsReload.cfg` | Holds with one file: one trie per query, no change lost, and lookups end unless a recursive read lock has met a waiting writer. |
| `hosts_swap` | `MCHostsReload_swap.cfg` | Violated: that meeting is a deadlock, so a watcher may never swap. |
| `group_reload` | `MCGroupReload.cfg` | Holds with one source, after the first reload: the trie is the file's, and changes arrive. |
| `rule_match` | `MCRuleMatch.cfg` | Holds: NXDOMAIN only for unmatched queries, first match and longest suffix as far as they hold (see 7), captures in the order of their placeholders. |
| `forward_rule` | `MCForwardRule.cfg` | Holds: no address becomes unreachable from the queried name, follow-ups never make an answer worse, ECH completion replaces all candidates or none, every query ends. |
| `pipeline` | `MCPipeline.cfg` | Holds while hosts files change and names join and leave groups: the cap bounds every reply it is meant for; records are kept, each type in its slots, also when hits are balanced and stored again; the cut keeps what the CIDRs prefer; a group's skip_balance is honoured on misses, and as configured by default a hit is the reply that was first stored; the cache and the client get the names they asked for, aliases included. |
| `lifecycle` | `MCLifecycle.cfg` | Holds: start-up gives up only without an address, pools have exactly the resolved addresses, READY means complete, every query that is answered has its line in the log but for two lines per failed write, the process serves with all listeners or ends, after a rotation the log settles on the new file. |
| `startup_prefers` | `MCLifecycle_prefers.cfg` | Violated: the addresses of a pool are sorted again after they were ranked by `prefers`. |

Deadlock is checked in every run but those of MCLifecycle, where the process exits
(where all actors wait for ever, in `hosts_swap`, files can still change, so TLC
sees a temporal counterexample and no deadlock). Type invariants
are proved; ForwardRule's is run as well.

A violated run is a disagreement between the code and a comment or document of
the repository; `PROJECT.json` quotes it under "findings".

## 4. Bounds, and why they are enough

- *ConnPool*: 2 slots, 3 connection identities (one more than can be live, so that
  an identity is reused), 2 addresses, timeout of 1 tick. Two slots are enough to
  interleave a release with a checkout, two idle connections to have an order
  among ages, two addresses to have a round-robin that another slot disturbs.
- *UpstreamGroup*: 2 queries, 2 clients, all four modes, threshold 2 within a window
  shorter than a tick, cooldown 1, clock up to 1 (`MaxTime`): a failure outside the
  window, a trip between another query's pick and its ask, a skip by a clock that is
  behind, and an expiry all occur. What
  two clients and this clock cannot show is proved for all values (section 6).
- *CacheStage*: 2 queries, 1 key (keys do not interact), TTLs of 1 and 3 seconds
  around a `max_ttl` of 2, two ticks per second, probes of one tick; the answers
  (`AllAnswers`) are of every class `extract_response` tells apart, records with
  NXDOMAIN, types the cache drops and names that do not parse back included. One
  key is enough for two answers of which the older is stored last.
- *HostsReload*: 2 queries, 1 file, an alias line and an address line in any
  combination. *GroupReload*: 1 source with 2 domains.
- *RuleMatch*: every table of up to 3 of 7 rules (all four kinds of target, with
  and without query type and group), queries over 4 names of up to 3 labels.
- *ForwardRule*: 2 queries, 1 name that leads to chains (also looping ones), two
  query types, one template, 8 kinds of rule.

- *Pipeline*: 2 queries over an alias and its original domain, with the alias
  on or off and the original in hosts or not; addresses of 2 bits (A) and 1 bit
  (AAAA), latencies up to `MaxRtt` 2; nine configurations, which cover both settings
  of `cache.skip_balance`, groups with and without `skip_balance` and `skip_cache`, in
  three of them a domain that joins and leaves its group at run time,
  every mode, caps of 2 to 4, names that cannot be rewritten, a type that is not
  balanced and a section that does not parse. Answers have up to six records with a
  CNAME, both families, and a type the cache does not keep.
- *Lifecycle* and *Bootstrap*: start-up configurations with up to four servers (each
  form of address with each parser, two groups of one name, families) under six
  hosts tables (addresses of one or both families, an alias with and without its
  target, a loop) of which `MaxReloads` 1 change happens on the way; seven
  configurations that serve or refuse to, 2 queries, `MaxRotations` 2,
  `MaxWriteFaults` 1, three HTTP requests. Two rotations are needed for a signal that
  arrives during a reopen; one fault costs the two lines that it may.

Counters that only grow are bounded by reduction rather than by a guard: the
cursors modulo their length, ages and the streak at the first value that is not
told apart. The guard bounds are `MaxTime`, `MaxReloads`, `MaxRotations` and
`MaxWriteFaults`.

## 5. Fairness

- `ConnPool!FairSpec`, `UpstreamGroup!FairSpec`, `ForwardRule!FairSpec`: weak
  fairness of a query that has begun. `connect_timeout` and `dns_timeout` bound each
  await of a pool, and therefore each client and each group; tokio runs tasks that
  are ready; no lock is held across an await. Queries need not begin, nor be
  cancelled, nor does time have to pass.
- `CacheStage!FairSpec`: an answered query runs to its end; time passes (strong
  fairness of `Tick`, and `[]<>Quiet`: again and again there is an instant at which no
  answered query is half-finished but for its probes, as those of one instant are
  finitely many). Upstreams
  may stay silent for ever.
- `HostsReload!FairSpec`: threads run (weak), and whoever waits for the lock gets it
  if it is free again and again (strong): parking_lot's lock is eventually fair.
- `GroupReload!FairSpec`: init and each watcher thread run. Files need not change,
  nor be restored.
- `Lifecycle!Spec`: weak fairness of `Run` (the runtime polls `run`, whose bootstrap
  queries end by their timeouts), of each query that has been accepted, of the
  background writes, and of `Sighup` (logrotate runs its postrotate script once it
  has rotated). Clients need not come, listeners need not fail, files need not be
  rotated.
- Pipeline states no fairness: its properties are safety.

## 6. What is proved

TLAPS proves the following for every value of the constants that meets their
assumptions (any number of slots, connections, addresses, keys, TTLs, rules,
labels). Each theorem is an induction over the steps: a strengthened invariant
that holds initially and that every action keeps.

`ConnPool_proofs`
- `TypeCorrect` ([]TypeOK). `PoolSafety` ([](Exclusive /\ FailedStaysOut)): the
  invariant is the conjunction of TypeOK and both; neither is inductive alone,
  as the step that pushes a connection needs to know that no other guard and no
  idle entry has it (Exclusive), and that a held connection has not failed.
- `CacheOrder`: MostRecentFirst is inductive together with TypeOK; from it
  `CheckoutFreshest` (TakesFreshest), an action property: the first entry that is
  not expired is the freshest of all because the queue is sorted.
- `PoolBound`: BoundedByConcurrency by counting slots: a dial begins only with an
  empty queue, and a push gives up the slot's own connection.
- `PoolImplementsLease`: every step of ConnPool is a step of ConnLease or a stutter
  under the refinement of section 2 (ImplementsLease). A checkout is a `Lease` that may
  also forget expired connections (`CheckoutLeases`), a release pushes what nobody
  else has (`PushReturns`); PoolSafety supplies that an idle connection has not failed.
- `GaugeBound` (GaugeNeverLow), whatever pools with the same labels publish: between a
  push and its publication some slot is reporting; everything else only shrinks the
  queue or publishes its length. The property ends where another pool has published
  last; that the count is wrong then is `GaugeIsIdleCount` in section 7.
- `LoneCheckout` (LoneCheckoutTriesAll), for any number of addresses. The property
  speaks of the end of the attempts; the inductive `Window` says that after any
  number of attempts a lone checkout has tried the addresses the cursor passed last,
  one per attempt, where `Behind` is how long ago the cursor was at an address
  (`BehindNext`: each advance puts every address one further behind, but the one taken).

`UpstreamGroup_proofs`
- `TypeCorrect`, `NobodyLeftOut` (FailsAfterAll), `CoolingLeftAlone` (CoolingSitOut),
  `BreakersTripFairly` (TripsAreEarned), for any number of clients. The invariant
  `IInv` says of each running query (`Scanned`) that all clients before its position
  were asked or cooling, that every client in cooldown as of the query's start is
  noted, and where the asked ones are; of the orders that they miss no client
  (`RoundRobinIsOrder`, with the cursor's arithmetic); and of the breakers (`Counted`)
  that the errors they remember are no more than the failures since the last answer.
  For CoolingSitOut it says that the clock of a query still finds in cooldown whoever is
  barred to it: a trip on a failure stamped during the query ends after the query's
  start, an answer leaves the cooldown as it is, and a late record that shortens it
  lifts the bar.

`CacheStage_proofs`
- `TypeCorrect`. `RecordsLeaveInTime`, under `PlainTtls` (`min_ttl` 0 and no
  `keep_ttl`, as `cache_fresh` shows to be needed; and hits that are not balanced again,
  the default, or no speed probes, as each hit would gain the time of its probes):
  RecordsLifeBound and HonestTtl, for TTLs above `max_ttl` too. The inductive
  invariant `Bounded` relates an entry's remaining TTL to the upstream's
  and, for queries between lookup and write_back, the TTL of the answer
  they carry; rounding down at each rewrite is the lemma `RoundDown`.
- `LocalStaysOut` (LocalNeverCached: what the rules make up is never stored) and
  `SkipCacheHolds` (SkipCacheBypasses), action properties that need `Origins`, which
  relates how a query was answered to its control bits.

- `HitsAreFaithful` (FaithfulHits), for every answer an upstream may give. The kind of
  an entry (records, unreadable records, NXDOMAIN, empty) fixes what a hit made from it
  says; `EntryFaith` relates the kind to what the upstream said, `ResponseFaith` carries
  that through a hit that is stored again, which may be of another kind than the
  answer it came from: the SERVFAIL of unreadable records is not stored at all.

`Ordering_proofs`
- Lemmas about the operators of Ordering that the other proofs cite. `OrderedLists`:
  for a strict total order on a finite set, Listed is an enumeration of it, each
  element once and in order, by counting what stands before an element.
  `AscendingLists`, `AscendingAll`, `PickedElements`, `PickedKeeps`, `PickedAll` (what a
  filter keeps, in which order, and that a filter that excludes nothing is the
  identity), `StableOrderPermutes` (a stable sort is a permutation), `LeastNat`.

`Rules_proofs` (RuleMatch and ForwardRule)
- `InitIInv`, `StepIInv`, `TypeCorrect`, `ScanKeepsOrder`, `NxdomainIsEarned`,
  `LongestSuffix`, `FirstMatch`, `CapturesInOrder`. The invariant `IInv` has two parts.
  `Index` says what `items` and `tag_to_idx` hold after the first `loaded` rules: which
  inline rule a domain's tag names, that it is the last that lists the domain, and
  that in tables that start with their inline rules `tag_to_idx` is the identity.
  `Handling` says what the scan has excluded so far and what a verdict means (`Decided`,
  with the captures of the rule that decided). Without `Index` the verdict of
  the trie says nothing about the table. That a longest listed suffix exists is
  derived from well-foundedness of the naturals.
- `ForwardTypes` (ForwardTypeOK), `NeverWorseThanFirst` (NeverWorse), `ChainStaysWhole`
  (ChainUnbroken), `EchTouchesCandidates` (EchOnlyCandidates), for every zone, set of
  rules and number of queries. The invariant `ForwardInv` says where a waiting query
  is in `forward_query` (`Sane`): until CNAME resolution answers, the response is the
  upstream's; before ECH completion it is as good as the upstream's (`Before`);
  afterwards completion has touched candidates alone (`After`); and what the template
  cache holds is a usable template or a note that there is none. `CollapseProps` and
  `AddressRecordsProps` say what dropping a chain keeps, `EchReplacedProps` and
  `WithTtlProps` that a completion or a TTL override moves no address, and `SameReach`
  that such answers lead from a name to as many addresses. As `Reached` is the least
  set closed under the CNAMEs of an answer, none of this needs induction over a chain.

`Reload_proofs` (HostsReload and GroupReload)
- `HostsTypeCorrect`, and `OneTrie` (OneTriePerQuery) for any number of files and
  watchers: the invariant `Guarded` says that the trie cannot change between the two
  lookups of an alias, since a swap waits for its guard. `ChangesKept` (NothingLost):
  `Current` follows the file's lines through the watcher's hands.
- `GroupTypeCorrect` for any number of sources, `GroupSettles` (SettlesAfterReload). The
  invariant separates the time before the watch (`Loading`) from that after it
  (`Watching`); its heart is that the fingerprint is always that of the trie, or of
  the trie to come, which is what two watchers break (see SettlesOnFiles in section 7).

`Pipeline_proofs` (Pipeline and the operators of Balance), for every set of names,
zone, address width and configuration
- `NamesAgree` (NamesMatch). The invariant `IInv` links key, question and client's name
  of a context (`Rewritten`: groups, cache and rules see the original domain of an
  alias in the key always, in the question where names can be rewritten), a response
  to the context it answers (`Sourced`, `Named`, `Restorable`), and an entry to its key
  (`Entries`).
- `CapIsKept`, `RecordsAreKept`, `BestAreKept`, `SkipIsHonoured` (CapKept, RecordsKept,
  BestKept, SkipHonoured). First what the balance stage makes of one answer,
  whatever chance and the latencies decide: `FamilyBalanced` (a rotation or a sort
  permutes the records of a family among the slots of that family), `HandleReorders`
  and `HandleShuffles` (the reply is a prefix of such a rearrangement), `CapCuts`,
  `BestHandled` (no address is cut in favour of one that the CIDRs rank lower). Then
  `RInv`, as an answer goes round through cache and balance any number of times: an
  entry is a rearrangement of what was first stored, within the cap, and with the
  best of the upstream's records (`StoredWell`); a response is so on its way to
  balance (`Coming`) and after it (`Going`, `FreshWell`); and `skip_balance` in a
  context is the group's on a miss and the configured one on a hit. Each of the
  four properties fails as an induction hypothesis of its own, as none of them says
  what is in the cache. What the cache holds is stated without the groups as they
  are now, only by whether a group with `skip_balance` had it fetched, so that a
  reload disturbs nothing.

`Lifecycle_proofs` (Lifecycle and Bootstrap)
- `LinesAccounted` (LossBounded), for any number of queries, rotations and faults.
  `LoggedInv`: a query that is being answered, or has been, has handed its line over or
  was passed over by `log_query`; so the lines due are those handed over.
  `InOnePlace`: a line is handed over once, and is in one file or one background write
  at most. `Counted`: the lost lines, plus one while an error is owed, are at most
  two per fault; the owed line is what makes the bound inductive.
- `StartsAsItShould` (StartsIffResolvable) and `PoolsAreJustified` (PoolsJustified), for
  every configuration, hosts table and set of replies. The invariant `BootInv`: the
  servers before `at` are resolved and those after it are not (`Placed`, `Resolved`); the
  addresses collected for the one at `at` are those of the bootstrap queries that
  were answered, and every failure on record has been one (`Asking`). That ranking
  loses and invents no address is `RankMoves` with `SortedOnce`. `walk` is a recursive
  function along aliases; that one exists (`WalkExists`: the names not yet visited
  decrease, so a least counterexample is impossible), that it ends, and where
  (`WalkEnds`), is proved for every table, loops included.
- `ReadyMeansReady` (ReadyIsComplete). `ReadyInv` carries from one await of `run` to the
  next what has been set up: the log is open, the groups are those of the names of
  the configuration (`Grouped`), the sockets bound so far are the first ones of the
  configuration; BootInv supplies that the pools of all members are there.

Assumptions are the named ASSUMEs of each module, and TLC evaluates them in the
runs. They say what the code's types and parsers guarantee: finitely many slots and
names; TTLs are naturals with `min_ttl <= max_ttl`; a match target is one of four
well-formed kinds and a rule action has the fields of its kind; records are
records, tables map names to entries, flags are Boolean, a parsed `prefers` is a
list of networks; no name is the value that stands for "no name"; a reply of an
address type carries an address. `PlainTtls` is a hypothesis of its theorem only,
satisfied by the run that checks the property, and needed, as the model shows.

`Faith`, `Window`, `BootInv` and `ReadyInv` were also checked by TLC on the instances of
section 4, which is the quickest way to see what a change of the model breaks: add
them as invariants of a module that extends the instance.

Only model-checked: all liveness (QueryEnds, QueryReturns, OutdatedLeaves, LookupEnds,
ChangesArrive, ServesOrEnds, RotationSettles): fairness and ENABLED are out of reach of
the prover. All safety invariants and action properties of the passing runs are
proved.

## 7. Where code and comments differ

Checked by a run each:

- `cache_fresh` and `hosts_swap`: see the table of section 3.
- `startup_prefers` (`PrefersOrdered`): `with_proto` sorts the addresses again
  (`pool.rs:189`), so that the order in which start-up put them, preferred family
  first, is lost; `mod.rs:850`, `balance.rs:252-256` and the design note
  `docs/design/2026-10-23-rsdns-upstream-bootstrap-hosts-balance.md:38-39` speak of
  an order that is kept.

The following are stated as definitions next to the properties and are violated
by the models, but have no run of their own:

| Module | Definition | What happens |
|---|---|---|
| ConnPool | `NoneOnlyIfAllFail`, `ExpiredDroppedOnCheckout`, `GaugeIsIdleCount` | a checkout whose cursor others advance may give up with an address untried; expired connections behind a fresh one stay in the queue until they come to its front (`pool.rs:225-240`); the gauge may show more idle connections than there are, and with two servers of one protocol in a group it shows the count of the pool that published last (`pool.rs:142-145`, 168; `mod.rs:910-915`), "Idle connections per upstream pool" notwithstanding. |
| UpstreamGroup | `ReturnsLastError` | the first error is kept, `mod.rs:46-49` says the last. |
| UpstreamGroup | `SkipsOnlyCooling` | a client is skipped by the clock read when the query began, although its cooldown is over. |
| CacheStage | `HitsNotStored` | a hit's action starts with `forward`, so it is stored again. |
| CacheStage | `NoDataMeansEmpty`, `NxdomainStaysNegative` | answers with only record types the cache does not know (PTR, SRV, NS, CAA, SOA) are stored as empty, so that every query but the first is told that there is nothing (`util.rs:117-126`); an NXDOMAIN with records (a CNAME) is stored as records. |
| CacheStage | `SkipBalanceKept` | a hit overwrites the group's `skip_balance` with the cache's. |
| HostsReload | `SettlesOnFiles` | with two files an older read may be swapped in last. |
| GroupReload | `SettlesOnFiles` | with two sources an old trie may stay behind a new fingerprint (`groups.rs:140`). |
| GroupReload | `SettlesFromStart` | a change between the initial load and the registration of its watcher is seen by nobody. |
| RuleMatch | `InOrder` | inline rules are asked first and by longest suffix, whatever the order of the table. |
| RuleMatch | `HitRuleMatches` | the trie's tag is used as a position in `tag_to_idx` (`rules.rs:658`, against the comment at 655), so that `inline_hit` may name a rule the query does not match. |
| RuleMatch | `CapturesIndexed` | captures are pushed in the order of the template's text: `{2}.{1}.com` exchanges them. |
| ForwardRule | `EmptyDropsCname` | when the target of the last CNAME resolves to no answer, the original response is kept with its chain (`rules.rs:952`, as the comment at 898 says); `docs/design/2026-08-27-rsdns-forward-resolve-cname.md:29-30` and 43 and the comment on `Resolved::Empty` (`rules.rs:1012-1013`) say that the CNAME is dropped. NeverWorse is what the code keeps. |
| ForwardRule | `TemplateOfOwnUpstream` | the template cache does not know the upstream it was filled from. |
| ForwardRule | `SubnetOnEveryQuery` | the query for an ECH template carries no subnet. |
| ForwardRule | `CnameIsReturned` | a cname rule returns the target's records under the queried name, `rules.rs:958` speaks of the CNAME. |
| Pipeline | `OneTarget` | `rewrite_name` sets the key always and the question only when `Name::from_utf8` takes the target (`query.rs:126-129`); the comment at 122-125 says that it updates both |
| Pipeline | `SkipAlwaysHonoured` | with `skip_balance = false` in the cache's configuration the hits of a group that skips balancing are balanced, and what was cut before a name joined its group stays cut in the cache, against `query.rs:64-67` and `config.rs:67-69`. |
| Pipeline | `CapIsGlobal` | what a group with `skip_balance` had fetched is stored uncut; once a reload has taken the name out of the group, hits serve it uncut (`cache.rs:281`), while `docs/design/2026-09-04-rsdns-balance.md:54` calls the cap global for each answer. CapKept is what remains. |
| Pipeline | `OneOrder` | a cached answer is balanced again at each hit; `docs/design/2026-09-04-rsdns-balance.md:132` says it keeps one order. |

FirstMatchDecides and LongestSuffixWins carry the condition under which they
hold (the inline rules lead the table) in their antecedent: outside of it
`HitRuleMatches` and `InOrder` show that they do not.

Noted while reading, without a definition:

- A failure that is recorded after one with a later stamp sets an earlier end to the
  cooldown (`mod.rs:193-203`); CoolingSitOut allows for it.
- Hits renew what `max_ttl` cut off, up to the upstream's own TTL (`cache.rs:309`).
- The process exits with SUCCESS after a listener has failed, so that
  `Restart=on-failure` of `example/rsdns.service` does not restart it.
- A SIGHUP between READY and the installation of its handler ends the process.
- A configuration without binds reports READY, then exits with SUCCESS.
- An IPv6 literal as the server of a tls, https, h3 or quic upstream is taken for
  a domain; `mod.rs:777` says "A server whose address is an IP is used directly".
- `logs.rs:399` says that lines are written immediately; the flush is a no-op and
  one failed write costs two lines.
- `server.rs:627-630` says that `%XX` escapes are left untouched and rejected by
  the decoder; `percent_decode` is applied first (`server.rs:427`).

## 8. What is not modelled

- *Listeners*: accept loops and framing over library sockets, TLS, HTTP and QUIC.
  Each request is independent, and enters the Pipeline module where `handle` is
  called. The wrap of a length prefix at 65536 bytes (`server.rs:158`) would need
  the sizes of serialised messages. What their ends mean for the process is in
  Lifecycle.
- *Configuration*: its deserialisation and defaults. The values that steer a
  component are constants of its module.
- *Transport factories*: dialling and TLS set-up of each protocol. A dial is an
  action of ConnPool that succeeds or fails.
- *Metrics, status pages, logging, allocator*: they read the state and change none
  of it, the pool's gauge excepted, which ConnPool has.
- *Formatting and parsing*: wire format, hosts lines, regular expressions,
  templates' text, log lines, metrics labels. Their results are the data of the models.
- *moka*: entries leave when their lifetime ends or at any moment (`Evict`); its
  eviction policy is left open.
- *Latency probing* of balance: network I/O; a probe may report any outcome.

## 9. Plan

1. Abstract specification: an atomic register of the files' content for HostsReload
   and GroupReload, and the proof that one-file instances implement it; two-file
   instances do not (`SettlesOnFiles`).
2. Proof that what the two coarse models assume of each other holds: the outcomes of
   ForwardRule as the ways in which Pipeline's and CacheStage's rules stage ends.
3. Runs for the two hazards that no property covers: the template cache that
   does not know its upstream (`rules.rs:860`) and the load that precedes the
   watch (`groups.rs:219`). Both are reached by the models today, as
   `TemplateOfOwnUpstream` and `SettlesFromStart`.
