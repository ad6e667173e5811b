# Verification of Gapura

TLA+ models of Gapura, a Gateway API data plane with an optional control plane. The modules
follow the Rust source under `crates/`; every definition that models code is listed with its
lines under `map` in `PROJECT.json`. TLC checks small instances of all of it; TLAPS proves what
matters most of twelve components for every value of their constants.

    tlc -config MC_LeaderElection.cfg MC_LeaderElection     # one run
    tlapm DataPlaneProofs.tla                               # one set of proofs

## 1. The system

### Data plane (`crates/gapura`)

| Component | State | Operations | Hard because |
|---|---|---|---|
| Runtime store (`store.rs`) | current generation, ready, generation counter, outlier registry, unknown-kid flag | swap, swap_from_cache, load, want/take_jwks_refresh | requests keep the generation they started with |
| Control source (`source/control.rs`) | configuration held, lookups in flight, cache file | prime, poll, refresh, write_cache, resolve, swap | stops anywhere; polls, lookups and fetches fail or outlast a tick |
| JWT key sources (`source/jwks.rs`) | per source: document, due time, last asked, fetch task | seed, refresh, fill | late fetches, unknown kids, restarts without the IdP |
| Kubernetes source (`source/kubernetes/mod.rs`, `reconcile.rs`) | snapshot, known and pending objects, synced kinds | watch events, relist, debounce, translate, swap | relists interleaved with events, kinds that appear later |
| Leader election (`leader.rs`) | the Lease, leadership and last renewal of each replica | tick, read, decide, commit | clocks, timeouts, writes that take effect late, restarts |
| Status writer (`status.rs`) | hashes of what was written | flush, write_one | leadership lost within a batch; patches carry no precondition |
| Request path (`proxy/mod.rs`, `plugin.rs`, `failure.rs`) | Ctx of a request | filters, chain steps, retries, failure answers | callbacks of Pingora in many orders |
| Endpoint selection and outlier detection (`select.rs`, `outlier.rs`) | a record per address | pick_endpoint, record, sync | outcomes of requests in flight, swaps, everything ejected |
| Request limits (`rate_limit.rs`) | windows, header-window counts, sweep marks | check_at, sweep | instants read before the lock, table at its caps |
| Export queues (`telemetry/export.rs`) | queue, bytes, counters, worker | push, take, deliver | wake-ups outside the lock, retry budget, shutdown |
| Shutdown (`main.rs`, `admin.rs`) | draining flag | drain, signals | second signals |

### Control plane (`crates/gapura-control`)

| Component | State | Operations | Hard because |
|---|---|---|---|
| Configuration endpoint (`config_api.rs`) | one long poll per data plane | authenticate, read, record, hold, reread, answer | a change between read and wait |
| Change notifications (`store/mod.rs`, migration 0013) | version, LISTEN connection, watch channel | trigger, listen, reconnect | notifications lost with the connection; changes that notify nobody |
| Attempt limits (`throttle.rs`) | counters by name and address | reserve, settle, drop, sweep | bursts verified concurrently, full map |
| Accounts, sign-in, sign-up (`store/accounts.rs`, `identity.rs`, `settings.rs`, `login.rs`) | users, session cut-offs, the sign-up switch | one transaction per operation | row locks and their order, races with sessions |
| Grants, workspaces, configuration, consumers, policies, data planes (`store/*.rs`) | rows | one transaction per operation: rights read again under share locks, the row locked, written, audited | lost updates, deadlock and retry, the last superuser and workspace |
| Migrations (`store/mod.rs`) | applied names | apply under a session lock | replicas that start together, a stop half way |

### Core (`crates/gapura-core`)

Pure functions: translation of Gateway API objects (`translate/`), the store compiler
(`store.rs`), route matching (`matcher.rs`, `path.rs`, `hostname.rs`), client addresses, JWT
claims.

### Interactions

Rows written by the console bump a version and notify (a rename of a workspace only bumps); the
listener turns notifications into changes of a watch channel; held polls wake and answer; the data
plane's control source receives the configuration, fetches keys, caches, resolves and swaps;
`Runtime::build` carries outlier records into the new generation; requests load a generation, are
limited and matched, and make attempts whose outcomes go to those records; their log lines and spans
go to the export queues. In Kubernetes mode the watch feeds the same swap and the leader writes
status.

What would make each component wrong is listed under `hazards` in `PROJECT.json`, at the line
where it bites.

## 2. Modules

| Module | Models | Proofs | Run |
|---|---|---|---|
| `LeaderElection` | `leader.rs` on one Lease | `DataPlaneProofs` | `leader_election` |
| `ConfigFeed` | trigger, rename, expiry, listener, snapshot, long poll | `ControlPlaneProofs` | `config_feed` |
| `ControlSource` | `control.rs`, `jwks.rs`, `store.rs` | `DataPlaneProofs` | `control_source` |
| `Throttle` | `throttle.rs`, both policies | `ControlPlaneProofs` | `sign_in` |
| `RateLimiter` | `rate_limit.rs`, the limit step, `Config::rate_limit_for` | `RateLimiterProofs` | `rate_limiter` |
| `UpstreamAttempts` | `outlier.rs`, `pick_endpoint`, the retry callbacks | `UpstreamAttemptsProofs` | `upstream_attempts` |
| `ExportQueue` | `export.rs` | `DataPlaneProofs` | `export_queue` |
| `Transactions` | PostgreSQL's row and advisory locks, deadlock, retry (external) | - | under the next three |
| `Accounts` | accounts, sessions, sign-in, sign-up, settings, the first superuser | `ConsoleProofs` | `accounts` |
| `ConsoleStart` | replicas that connect, migrate and serve | `ConsoleProofs` | `accounts` |
| `Workspaces`, `Configuration` | roles, mappings, workspaces; what a workspace holds, data planes, tokens | `ConfigurationProofs` | `configuration`, `service_moved` |
| `StoreCompiler` | rows to `Config`; matching, paths, hosts, client addresses | `RequestPathProofs` | `request_path` |
| `PluginChain` | `plugin.rs`, `transform.rs` | `RequestPathProofs` | `request_path` |
| `RequestPath` | `proxy/mod.rs`, `failure.rs`, `attrs.rs` | `RequestPathProofs` | `request_path` |
| `ClusterFeed` | what a source that follows the API server promises (abstract) | `KubeProofs` | `kubernetes` |
| `KubeSource` | `source/kubernetes/mod.rs`, `reconcile.rs`, `kinds.rs` | `KubeProofs` | `kubernetes` |
| `StatusWriter` | `status.rs` over `KubeSource` | - | `kubernetes` |
| `Translation` | `translate/`, `input.rs`, `status.rs`, the port tables | - | `kubernetes` |
| `FileSource` | `source/file.rs` over `Translation` | - | `kubernetes` |

Each run has an `MC_` module with its instance. Operators whose comment begins with "Mutant" are
plausible mistakes in the operator that follows them; no specification uses them, `PROJECT.json`
pairs those of the standing runs with the property they must break, the rest belong to properties
of the further configurations (section 3).

**LeaderElection.** One action per await of `step`: the tick that starts it, the answer of the
read with `decide`, the moment the server stores the commit, and its answer. A call that fails,
times out or dies with its process may leave a write in `late`, which the server applies whenever
it likes, under its resourceVersion. `renewedAt` and `budget` are `renewed_at` and
`step_budget`. `now` is the slowest wall clock; a replica reads any time up to `Skew` later.

**ConfigFeed.** What is served changes in three ways. `Commit` is a transaction on what a workspace
holds, with the trigger that moves the version and notifies; `Rename` renames a workspace, which
moves the version and notifies nobody; `KeyExpires` is time passing, which does neither: the next
snapshot leaves the key out. `announced` says whether the last of them was notified, `notices`
counts the notifications and `at` how many a poll's snapshot includes. `conn` distinguishes a
connection, a LISTEN the server has taken and one that has been answered. A poll is `Ask`,
`Authenticate` (where the receiver is marked), `ReadSnapshot`, `Record`, then held or answered;
`Reread` replaces body, tag and needs together. A row that does not parse fails the snapshot, and so
the poll (`PollFails`): the data plane keeps what it has.

**ControlSource.** A tick is cut at every await and at the cache write; `Stop` takes everything
but the file. A configuration names at most one host to resolve and one key source. `calls`
counts blocking lookups, `inFlight` the ones a later tick waits for.

**Throttle.** `Begin` is `reserve_at` and `Settle`/`Drop` the end of an `Attempt`, each a whole
critical section with an instant that may be stale. `PairRules` and `AddressRules` give the two
policies.

**RateLimiter.** `Check` is `check_at`, a whole critical section: the sweep of a grown table, the
sweep at the cap, the fallback to the address, the window. `granted` follows one client's
allowance as a history; `LimitHeld` compares it with the limit.

**UpstreamAttempts.** A request is a `Ctx` that goes through Pingora's callbacks; its generation
is fixed when it starts. The round-robin cursor is shared with every other request, so a pick is
any member of the pool. A record is named by its address and the generation it was made in, which
is what an `Arc` identifies.

**ExportQueue.** `Push` ends where it leaves the lock and `NotifyOne` follows; the worker is cut
at every await. Time is counted only while a batch is delivered, where the code compares it.

**Transactions, Accounts, Workspaces, Configuration.** A console request runs a program: the list
of stages its handler awaits (a read without a lock, a turn at hashing, each lock of its
transaction). A stage decides over rows it has locked; the last one writes, audits and commits,
since nothing after the last lock waits. `locks` holds row locks in PostgreSQL's four modes and
advisory locks; a circle of waiters is broken by aborting one, which runs its transaction again up
to `Attempts` times (`retrying`). READ COMMITTED shows in `Supers`: a list is read first, then
each row is locked and looked at again. In `Accounts` a password is the number of its hash and
`now` the database's clock in milliseconds, which is what cut-offs are compared in. In
`Configuration` a stamp is `updated_at`, and `seen` keeps whole what the author of a save was
shown, so that properties can compare what the code compares by stamps. A delete takes with it what
the foreign keys cascade to, a workspace's too; a data plane is registered with its first token; a
policy that names an anonymous consumer locks it. `SignIn` is the statement in which a sign-in
through the provider replaces an account's groups: it waits for the row and counts no admins.
`hands` counts what changes admins without counting them, a superuser's writes and sign-ins. An
insert's key is locked like a row, where the code meets a unique violation and runs again: the
request goes on with what the second run would read.
In `Accounts`, which of the accounts waiting for a role have one by now is any set, as grants
belong to `Configuration`.

**ConsoleStart.** Replicas of two builds connect, take the session lock, pass over recorded
migrations, apply the others each in a transaction with its record, and unlock whatever the result.
A statement may fail, the answer to a commit may be lost, a process may die anywhere; its session,
with the lock, outlives it until the database notices. `MC_Accounts` composes it with `Accounts`:
one load is a start, the others are requests to replicas that serve.

**StoreCompiler, PluginChain, RequestPath.** `compile` turns rows into rules in their order with
the policies that reach them; `access` runs the steps of a rule by their rank; `RequestPath` is
the request through the filters Pingora calls, with a swap between any two, an upstream that
refuses, stalls, answers interim and final heads, closes early, and a client that goes away. What
is written to the client and the upstream is kept in `out`, which the properties are about. Every
write of an answer may fail, before its head or after it (`BrokenOff`, `Lost`): `request_filter`
then fails the request, `fail_to_proxy` notes it and logs what was meant. A head that cannot be
built from the client's is an error of its own (`InvalidHeader`). The head sent is the client's with
the three headers of the gateway replaced, then the header filters of a Gateway API rule, then the
policies' edits; a rule whose edits HTTP does not allow refuses every request (`misplaced`). The
limiter answers as it likes: its counting is `RateLimiter`.

**KubeSource, ClusterFeed, StatusWriter.** Each kind has a stream of kube's watcher (external):
`Init`, an event for each object of a list, `InitDone`, then changes; a list may break anywhere and
begin again. A kind may be served before the role may list it (`listable`, `Permit`): its lists fail
until then, and the rediscovery waits for it. Events go through a bounded channel into `State`,
folded by `apply`; the loop debounces, drains, translates and swaps. `ClusterFeed` says what that
amounts to: for every kind contents the API server really had, never older than what was served,
with the published addresses of the same contents. `StatusWriter` adds passes over the computed
statuses while the replica leads, the cache that suppresses a patch already written, both leadership
checks, reads that fail, refused patches, lost answers and other writers.

**Translation, FileSource.** Translation is a function, written as operators named after the
functions of `translate/`: classes, listeners and their conflicts, certificates and grants, routes
and their parents, host isolation between listeners, address overrides and remapped ports, rules,
filters, backends and their TLS, the port tables in order of precedence, and the conditions of
every status. `FileSource` reads a directory once, refuses all of it when one document does not
load, and installs the result, over which the properties of a whole configuration are stated.

## 3. What the runs show

| Run | Properties | Shown |
|---|---|---|
| `leader_election` | `AtMostOneLeader`, `TakenOnlyExpired` | one leader at a time, through timeouts, late writes and a restart |
| `config_feed` | `NoChangeSleptThrough`, `NeverSentUnreadable`, `Delivered` | an announced change reaches the data plane by notifications and reconnects alone, a rename or an expiry when a hold ends; nothing unreadable is sent |
| `control_source` | `CacheCurrent`, `EndpointsOfOwnHost`, `KeysKept`, `Converges` | keys and addresses outlive failures, restarts find a usable cache, the served configuration settles |
| `sign_in` | `PendingExact`, `WithinLimit`, `LocksStand` | a burst gets as far as a sequence; no slot leaks, also where the map is full |
| `rate_limiter` | `HeldExact`, `LimitHeld` | exact counts under sweeps, no client over its limit |
| `upstream_attempts` | `RecordsFollowAddresses`, `EjectionUndisturbed` | records follow addresses through swaps, an ejection ends when its time does |
| `export_queue` | `Conserved`, `Drained` | every record delivered or counted |
| `accounts` | `WrittenWithRight`, `SessionOfCurrentPassword`, `ClosedStaysClosed`, `SuperuserRemains`, `EveryRequestAnswered`, `SchemaAsDesigned`, `ReplicasStart` | the last superuser stays, rights are held at the commit, no session of a replaced password, no account after sign-up closed, no deadlock without an answer; migrations applied once and in order, every replica serves in the end |
| `configuration` | `RightsHeld`, `OneWorkspacePerHost`, `LastWorkspaceKept`, `NoLostUpdate`, `NothingLostUnseen`, `AdminRemains` | no write without its right at the commit, no host in two workspaces, no save over what its author did not see, no row taken by a cascade nobody saw; a workspace is left, and an admin in it |
| `request_path` | `GuardsHeld`, `HeadsHonest`, `BodyWithinLimit`, `AnsweredOnce` | what reaches an upstream passed every policy of the rule the upstream will resolve it to, as anonymous only without a credential; heads carry nothing they may not; one answer, one log line that says what the client got, or was to get |
| `kubernetes` | `FollowsCluster`, `ContentsServed`, `StatusSettles`, `GrantedOnly`, `IsolatedListeners` | the watch implements `ClusterFeed` and catches up; statuses settle while the replica leads; nothing crosses namespaces without a grant, a request is served by the narrowest listener |
| `service_moved` | `RouteStaysOnSeenService` | violated: see below |

### Finding

`service_moved`: `try_write_route` reads the service's stamp without a lock when it locks the route
and looks the service up by its name in a later statement. A rename of that service, and a new one
of the old name, committed in between, move the route onto the new row although the save carried
the old one's stamp; the comment there says such a save is stale. TLC finds the order:
the replace of the route, with the rename and the create of the service inside it.

### Known disagreements, kept beside the standing runs

Each of these configurations checks a sentence of the repository and is violated:

- `MC_RenameSlept.cfg` (`HeldUntilChange`): `config_api.rs:7` says a poll is "held until that
  changes, woken by the `bump_config_version` trigger's notification", and migration 0013 that it
  wakes held polls "when the configuration may have changed, instead of one poll interval later".
  `try_rename_workspace` (`store/workspaces.rs:223`) changes what is served, as its own comment says,
  and moves the version itself because no trigger watches `workspaces`; it does not notify. A poll
  held at that moment is answered 304 when its wait is up and the next one brings the change:
  nothing is lost (`Delivered`), it is an interval late.
- `MC_ControlSourceCacheOrder.cfg` (`CachedAfterSwap`): `write_cache` runs before the swap
  (`control.rs:271`), although its comment says "Written only after a configuration has been
  swapped in, never before". A stop in between leaves a file with a configuration never served.
- `MC_ControlSourceGauge.cfg` (`BlindUntilConfirmed`): any swap clears `gapura_config_from_cache`,
  also one caused by a fetched key or a changed address while every poll has failed.
- `MC_RateLimiterLate.cfg` (`LiveWindowsKept`): a check whose instant is older than a window
  another check opened replaces that window by one that ended, and the next check starts the live
  one from zero. `LimitHeld` excepts a client with such a late check.
- `MC_UpstreamStalls.cfg` (`FailuresEject`): an attempt counts at its final head and again when its
  body times out; an endpoint that answers heads and then stalls is never ejected.

Noticed while modelling, without a property:

- a host removed from the configuration and named again while its lookup hangs costs a second
  blocking call; a check with an instant before the last capped sweep sweeps again at once; a 503
  whose body then times out counts as two failures;
- `rate_limit_of` (`translate/rules.rs:1120`) reads the annotation of a Service of another
  namespace also where no grant lets the route use it; the backend itself is refused;
- a wildcard or any-host entry that only overlaps a narrower sibling is kept
  (`translate/routes.rs:243`), because the narrower host ranks first: `IsolatedListeners` checks
  that a route of the most specific listener wins whenever one matches. Where none matches, a wider
  listener's route may answer, although the status message (`translate/routes.rs:313`) says "served
  by the most specific matching listener only";
- a sign-in through the provider replaces an account's groups with no count of admins
  (`store/identity.rs:198`), so a workspace whose last admin is one by a group may be left to the
  superusers; a grant that counted before such a sign-in may commit after it. `AdminRemains` is about
  the grants, which are counted, and excepts both;
- a key that expires is served until the next poll, a held one included: `store/mod.rs:392` gives
  the polling interval as the bound;
- a Gateway API header filter, and a transformer stored before the names were reserved, may write
  the headers by which the gateway names the caller: `HeadsHonest` excepts what the operator writes;
- a kind that is served when discovery runs and may not be listed holds back every change until it
  may (`synced_all`): the check that it can be listed is made for kinds that appear later only.
  `ContentsServed` excepts it;
- a status of an HTTPRoute carries all parents: what another controller writes between the get and
  the merge patch is overwritten.

### Further configurations

`MC_ControlSourceMore.cfg` checks the type invariant and further properties of its instance
(`LookupsBounded`, `CachedKeysServed`, `OnlyAnswersEmpty`); `MC_SignUpFull.cfg` is `Throttle` with the
sign-up policy and a map with no room for a second key. Both pass. `RetriesBounded`,
`NoLostWakeup`, `SendsInBudget`, `ShutdownBounded`, `HeldCapped`, `TableBounded`,
`RevokedStaysRevoked`, `LeaderHoldsLease`, `WithinCapacity` and `LiveFailuresKept` are proved (section
4); `SeenInSync` of `ConfigFeed`, `NeverStranded` of `UpstreamAttempts`, `WithinBounds` of
`ExportQueue`, `NothingInDeletedWorkspace`, `GroupsChangeSingly` and `ChangesAreVersioned` of
`Configuration`, and `TypeOK`, `CorsDecides` and `RefusedSpendsNothing` of `RequestPath` hold on the
instances of their runs when named in the cfg.

### Bounds

Every bound is a constant, or a field of a load, guarding a counter. A load is an initial table and
the requests or failures that may follow; splitting what may happen over several loads keeps each
small while every pair of operations that shares a row meets in one of them.

- `leader_election`: a Lease of 4 renewed every 2 with skew 1 is the smallest with
  `Hold + Skew < LeaseSecs`; 7 instants hold an acquisition, its expiry and a takeover; one
  restart and one late write. The proof removes all of them.
- `config_feed`: two writes, a rename and an expiry over three configurations (a change, another,
  back to the first, one unreadable), one loss and one failure: every order of an announced and an
  unannounced change around a hold; data planes do not interact, so one is enough.
- `control_source`: configurations that share a key source and differ in host, one with neither,
  one unreadable; two changes, two faults, one restart: the shortest histories with a failure
  before and after a restart.
- `sign_in`: three requests against a limit of two or three, two keys more than the map holds,
  windows short enough to lapse twice within 6 instants.
- `rate_limiter`: two addresses of one group, two header values against a cap of one, three
  instants, one step back of the clock, one reload, instants one old.
- `upstream_attempts`: one idempotent request and one that is not, two endpoints or one beside an
  address that does not parse, two swaps (an address leaves and comes back), two failures to eject.
- `export_queue`: five pushes by two threads of light, heavy and oversized records against 5 entries
  and 10 bytes; batches of two; budgets of a few units with a doubling delay that overruns them.
- `accounts`: two requests at a time, two or three over a load, three ids, three attempts (the
  code's number), one place to hash and one for sign-up, so that both run out; three milliseconds,
  which order an issue time before, at and after a cut-off. A start: two replicas, two migrations,
  none or one applied before, an older build or not, three failures or deaths.
- `configuration`: two requests at a time, three accounts of which one is in a group until it signs
  in without it, two workspaces, four rows, three hosts with a wildcard over one of them.
  `service_moved` has three requests over its load, two of them under way at once.
- `request_path`: one request (requests share only what `UpstreamAttempts` and `RateLimiter` model)
  of each kind over several sets of rows, a swap, two attempts, bodies of a few chunks around the
  limit, upstream heads 100, 101 and 200.
- `kubernetes`: two kinds, one of them optional, three objects, a channel of two events, two
  writes, a kind that is installed later and may be listed later still, up
  to two broken lists or ended tasks, two changes of leadership, a patch that fails, one
  other writer; and directories of two Gateways and two routes over any, wildcard and exact hosts
  with every grant, certificate and override that a rule distinguishes.

Symmetry is used for replicas, request slots and header values, in runs without liveness only.

### Deadlock

Deadlock is checked except where a bound or the system ends every behaviour: `leader_election` and
`sign_in` stop at `MaxTime`, `export_queue` may go quiet with nothing queued, the loads of
`accounts` and `configuration` end, and `kubernetes` may have nothing left to do. Requests that
wait for each other are not such an end: `EveryRequestAnswered` finds them.

### Fairness

- `config_feed`: `WakeSpec` lets the listener and the handlers run on (tokio tasks that are ready
  are polled, and the listener reconnects in a loop). That is all the first half of `Delivered`
  assumes; its second half and `SeenInSync` also assume `HoldsEnd`, that the hold's timer fires.
- `control_source`: the loop runs on and a scheduled fetch comes due. Faults are bounded by
  `MaxFaults`: convergence is claimed once they stop.
- `export_queue`: worker and request threads run on, and a send ends within its timeout, which the
  HTTP client of `telemetry/sinks.rs` sets.
- `accounts`: a request whose stage can run runs it, and the database breaks circles after its
  deadlock timeout. A lock that comes and goes is not assumed to be granted (weak fairness only).
  A start: processes run and are started again, and the database notices a dead connection.
- `kubernetes`: the tasks run, the timer ticks and the API server answers (nobody is assumed to give
  the right to list a kind); broken lists, refused
  patches, other writers and elections are bounded and nothing hurries them.

### Refinement

`StatusWriter` instantiates `ClusterFeed` over the variables of `KubeSource`, whose auxiliary
`folded`, `seen` and `servedAt` say how far into the history of its kind each stream, the snapshot
and what is served have come; `FollowsCluster` is the abstract specification as a property. A
broken list begun again, a kind relisted, a restart and a translator that panics are all
stuttering or steps forward of it. TLC checks it on the instance, `KubeProofs` for every one.

## 4. What is proved

For every value of the constants, from the assumptions named in each module:

- **ControlPlaneProofs**: of `ConfigFeed`, `AlwaysWoken` and `OnlyReadableSent`. `FeedInv` moves the
  promise of a wake-up back to the moment the snapshot is read (`WillBeWoken`, by the number of
  notifications, since a rename can bring back what was served before), says that a snapshot since
  the last notification is current unless a rename or an expiry followed (`SnapshotCurrent`), and
  ties needs to the snapshot they are of. Of `Throttle`, `PendingIsExact`, `LimitsHold`,
  `LocksAlwaysStand`, `FailuresKept` and `CapacityHolds`, for any requests, names, addresses, rules,
  instants and capacity. Both halves of an attempt run over its keys, and what they do to the map is
  shown by induction on the number of keys: `SettledUpTo` and `ReservedUpTo` say of the map after
  the first i keys that only those entries changed, by how much, and that all else is gone only
  where it had expired (`SameBut`). `ThrottleInv` adds to the properties what they need: the keys of
  an attempt are distinct, only the first may be a pair and each is reserved unless the map was full
  (`HeldKeys`); and a lock comes with as many failures as its limit (`AllFull`), so that a counter
  with a lock has nothing in flight whose outcome could clear it. Assumed (`PolicyAssumption`): no
  limit, window or lock is zero, and the rules of an address differ.
- **RateLimiterProofs**: `LimitKept`, `HeaderWindowsExact`, `HeaderWindowsCapped`, `SweptInTime`,
  `LimiterTyped`. `TableInv` says the table is well formed; each part of a check (a sweep, a second
  sweep, a new window) keeps an arbitrary well-formed table so. `LimitHeld` counts what a client was
  let through, which the table forgets when it sweeps: `GrantInv` says that until some check has
  seen the client's newest window end, that window is in the table under the key the client is
  counted by, with a count no smaller than what was let through (`Followed`). An earlier window of
  the same length has ended when a later one opens, so a check that still counts there is late,
  which is the exception `LimitHeld` makes.
- **UpstreamAttemptsProofs**: `RecordsFollow`, `RetriesAreBounded`, `EjectionsUndisturbed`,
  `AttemptsTyped`. `ReqsInv` counts what a request has done at each point: its attempts are the
  addresses it failed to connect to, the retry of a pooled connection and the attempt at hand.
  `GensInv` and `HealthInv` give every endpoint that parses a record short of ejection. `FollowInv`
  says of any two generations that an address has one record in both exactly when every generation
  between them had it too, and that no record is younger than its generation.
- **DataPlaneProofs**: of `ExportQueue`, `EveryRecordCounted`, `WorkerWoken`, `LastSendInBudget`,
  `GraceBounded`, each with its own small invariant (`ConservedInv`, `WakeupInv`, `ClockInv`). Of
  `ControlSource`, `CacheIsCurrent`, `OwnHostServed`, `LoadedKeysKept`, `StartsWithCachedKeys`,
  `ErrorsEmptyNothing`, `LookupsStayBounded`, `SourceTyped`, for any configurations, sources,
  documents and hosts, and any number of faults and restarts. A tick is cut at every await, so
  `SourceInv` says what holds at each cut: which source has a key state (`OwnKeys`), when what is
  served is what is held (`ServesHeld`), since when the file is current and which steps of the same
  tick will write it again (`DiskFollows`), that a document served is still held (`DocHeld`), and
  that every running lookup is either waited for or had its handle dropped (`LookupsCounted`).
  Of `LeaderElection`, `OneLeader`, `LeaderIsCovered`, `OnlyExpiredTaken`. Assumed
  (`LeaseAssumption`): one renewal's hold plus the skew is shorter than the Lease, and timers fire
  on time. `AtMostOneLeader` says nothing about writes under way, so `IndInv` adds: when a step and
  a leadership end (`StepTiming`, `LeaderTiming`), that who leads is the holder
  (`HolderIsLeader`), that a write the server would still take is justified (`WritesJustified`),
  and that a leader has no such abandoned write of its own (`LateWritesStale`).
- **RequestPathProofs**: `GuardsAlwaysHeld`, `AnonymousPresentedNothing`, `BodiesWithinLimit`,
  `EveryRequestAnsweredOnce`, for any requests, any generations and any statuses of an upstream.
  The properties speak of the rows an operator wrote; the code acts on a compiled rule and on what
  its chain left in the context some callbacks earlier. The proof bridges the two in three parts.
  `RuleHas`: of each kind a rule has exactly the most specific row, stamped with its workspace, and
  none only where no row governs (`MostSpecificIs`, `StampedIs`). `AccessAdmits`: a chain that ends
  without an answer leaves a request the governing rows admit; `StepPasses` says what each step
  that goes on has established, `EightSteps` puts the eight ranks together, and `AnyVerdict` says of
  `any_of` that it admits whom one credential admits, or as anonymous who presented none.
  `PathInv`: what was found when the request was matched is true of it until it is logged
  (`Routing`), and of every attempt that was sent (`Sending`); nothing follows a final head,
  there is one unless the client went away or a write failed, and what was meant to be answered is
  what will be logged (`Answering`); what was counted of a body is what this
  attempt was fed, and no attempt was fed more than the limit (`Feeding`, over partial sums); a
  failure is one `classify` knows (`Failing`); a copy was sent only by a request that says so
  (`Mirroring`). Assumed (`PathAssumption`): header lines and chunks are sequences; a generation's
  rules are those compiled from its rows, or it has no rows with policies (the Gateway API source);
  one policy of a kind per route, service and workspace, which
  `migrations/0005_one_policy_per_target.sql` enforces; statuses have three digits.
- **KubeProofs**: `SourceFollowsCluster`, the refinement of `ClusterFeed`. `SourceInv` says where
  in the history of its kind each piece of state comes from: the events in the channel lead, one by
  one, from where the loop is to where the stream is (`InStep`); the snapshot is what the history
  had at the place seen, a relist under way is at a place no earlier than what is served
  (`KindOK`); a kind not watched has nothing (`WatchedInv`); a history changes one object at a time
  (`HistoryInv`). Every step of the watch, the loop and the status writer maps to one step of
  `ClusterFeed` or none.
- **ConsoleProofs**: of `ConsoleStart`, `SchemaDesigned`; `StartInv` says that who is past the lock
  holds it, and that the migration at hand is the next one unrecorded. Of `Accounts`,
  `RightAtCommit`, `SignUpWhileOpen`, `SessionsCurrent`, `SuperuserKept`, `RevokedForGood` and
  `AccountsTypeOK`, for any number of requests at once. `AccountsInv` states for every stage of
  every program what the request has locked and what it therefore still knows: its caller's right
  (`RightsLocked`) and the open switch (`SwitchLocked`); besides, every session is of the password
  its account has or was given no later than the cut-off (`SessionsFit`), and no instant lies ahead
  of the clock (`InTime`). For the last superuser: who takes one away is, under its own lock,
  another enabled one.
- **ConfigurationProofs**: `RightAtEveryCommit`, `HostsApart`, `NoneGoesUnseen`,
  `SavedOverWhatWasShown`, `AnAdminIsLeft`, for any number of requests, accounts, workspaces and
  rows. None of them is inductive: at the commit each rests on what the request read some stages
  before. `ConfigInv` therefore says of every request what it knows at the stage it is at, and which
  lock of its own keeps that true: the caller, the workspaces and the row of the role (`Entitled`);
  the row to be changed, the rows it will be attached to, the others' hosts, the emptiness of a
  workspace (`Informed`); the admins as its grant will leave them, unless a sign-in or a superuser
  overtook its count (`KnowsAdmins`). Conflicting locks are never held by two requests
  (`Exclusive`), so a step of another request spares all of it (`RightsSpared`, `RowsSpared`): each
  commit is then a proof about one row. For lost updates, no two rows and no running request share a
  stamp (`Stamped`), and a row under the stamp an author was shown is the row that was shown
  (`Shown`); a consumer's groups are the one thing written without a new stamp, and no save is over
  a consumer. Assumed (`ConfigurationAssumption`): a load begins with tables whose foreign keys
  hold, whose hosts do not overlap between workspaces and whose rows have stamps of their own, and
  no two transactions have one `updated_at`.

Only model-checked: every liveness property (`Delivered`, `Converges`, `Drained`,
`EveryRequestAnswered`, `ReplicasStart`, `ContentsServed`, `StatusSettles`), which needs fairness;
`WithinBounds`, whose sum over the queue is a recursive definition; `LastWorkspaceKept`,
`GroupsChangeSingly` and `ChangesAreVersioned` of `Configuration`; `HeadsHonest`
of the request path, which compares whole heads after a fold of edits and needs to know what clients
and edits may contain; and `GrantedOnly` and `IsolatedListeners` of `Translation`, which are about
functions of whole documents with folds over sequences at several levels. (The library's induction
theorems take an operator the provers cannot instantiate. `Induction` in `ControlPlaneProofs` and
`RequestPathProofs` states induction over a set instead: it carries the loops of `Throttle`, the
steps of a chain and the sum of a body; the passes of a translation would need it at every one of
their levels.)

## 5. Not modelled, and why

- The web console, the chart, argument parsing, admin pages, metrics, traces and log wording: no
  state of the gateway depends on them.
- Pages of the console that only read (lists, the audit trail, what is in sync, the cluster view)
  and the same-origin check: one query or one header test, no later step.
- Validation of fields (names, policies, CIDRs, durations): a refused form changes nothing; what
  passes is a member of the small sets of the loads.
- Encodings and cryptography: TLS handshakes, password hashing, JWT signatures and claims, the
  byte-level normalisation of paths, regular expressions. Each is an outcome or an abstract value.
- The exchange with an OIDC provider before verified claims exist.
- The drain before shutdown: one flag and a sleep before Pingora's own shutdown.

What a team would add next: `ConfigFeed` composed with `ControlSource` (a console write reaches the
served runtime); proofs about the translation; an atomic specification of each console operation
that its transaction implements.
