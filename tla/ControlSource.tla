----------------------------- MODULE ControlSource -----------------------------
(***************************************************************************)
(* The data plane's side of the control plane: the loop that polls,        *)
(* refreshes JWT keys, writes the disk cache, resolves backends and swaps  *)
(* the result in (crates/gapura/src/source/control.rs), its key sources    *)
(* (source/jwks.rs) and the store it swaps into (store.rs).  A tick is     *)
(* cut at every await and at the cache write, and the process may stop     *)
(* between any two steps and start again from its cache.                   *)
(*                                                                         *)
(* A configuration stands for its tag; it names at most one backend host   *)
(* to resolve and at most one key source.  The clocks behind due fetches   *)
(* and the gap between fetches for an unknown kid are arbitrary: they run  *)
(* out at any moment.                                                      *)
(***************************************************************************)
EXTENDS Naturals, FiniteSets

CONSTANTS
    Configs, NoConfig,
    Readable,            \* the configurations whose features this build reads
    Hosts, NoHost,
    Target,              \* the host a configuration's cluster resolves
    AddressesOf,         \* the addresses a host may resolve to
    Sources, NoSource,
    SourceOf,            \* the key source a configuration's JWT policy names
    Docs, NoDoc,         \* the documents an IdP may publish
    NoCache, NotServing,
    MaxChanges,          \* bound: times the control plane serves something else
    MaxRestarts,         \* bound: restarts of this process
    MaxFaults            \* bound: failed or late polls, fetches, lookups and cache writes

ASSUME SourceAssumption ==
    /\ Readable \subseteq Configs /\ NoConfig \notin Configs
    /\ Target \in [Configs -> Hosts \union {NoHost}] /\ NoHost \notin Hosts
    /\ SourceOf \in [Configs -> Sources \union {NoSource}] /\ NoSource \notin Sources
    /\ NoDoc \notin Docs
    /\ NoCache \notin [config : Configs, docs : [Sources -> Docs \union {NoDoc}]]
    /\ MaxChanges \in Nat /\ MaxRestarts \in Nat /\ MaxFaults \in Nat

VARIABLES
    serving,     \* what the control plane serves
    stage,       \* where the loop `run` is
    latest,      \* `held` and `latest`, which are set together
    changed,     \* whether this tick's poll brought a configuration
    keys,        \* KeySources::states
    kidMiss,     \* Store::jwks_kid_miss
    disk,        \* the cache file
    inFlight,    \* the lookups a tick gave up on and the next one waits for
    calls,       \* blocking lookups running, by host
    dropped,     \* history: handles of a host dropped with its lookup running
    served,      \* the store's current runtime
    fromCache,   \* gapura_config_from_cache
    refused,     \* gapura_config_incompatible
    confirmed,   \* history: a poll of this process was answered 200 or 304
    cacheFailed, \* history: the last cache write failed
    changes, restarts, faults

sourceVars == <<serving, stage, latest, changed, keys, kidMiss, disk, inFlight, calls, dropped, served,
          fromCache, refused, confirmed, cacheFailed,
          changes, restarts, faults>>

names == <<inFlight, calls, dropped>>
store == <<served, fromCache>>
history == <<confirmed, cacheFailed>>
bounds == <<changes, restarts, faults>>

MaybeDoc == Docs \union {NoDoc}

KeyState == [named : BOOLEAN, doc : MaybeDoc, due : BOOLEAN, asked : BOOLEAN, task : BOOLEAN]

(* A source nothing names, and State::new. *)
Forgotten == [named |-> FALSE, doc |-> NoDoc, due |-> FALSE, asked |-> FALSE, task |-> FALSE]
NewState == [Forgotten EXCEPT !.named = TRUE, !.due = TRUE]

Cached == [config : Configs, docs : [Sources -> MaybeDoc]]

AllAddresses == UNION {AddressesOf[h] : h \in Hosts}

Runtime == [config : Configs, endpoints : SUBSET AllAddresses, doc : MaybeDoc]

SourceTypeOK ==
    /\ serving \in Configs
    /\ stage \in {"down", "priming", "polling", "refreshing", "fetching", "caching",
                  "resolving", "sleeping"}
    /\ latest \in Readable \union {NoConfig}
    /\ changed \in BOOLEAN
    /\ keys \in [Sources -> KeyState]
    /\ kidMiss \in BOOLEAN
    /\ disk \in Cached \union {NoCache}
    /\ inFlight \in SUBSET Hosts
    /\ calls \in [Hosts -> Nat] /\ dropped \in [Hosts -> Nat]
    /\ served \in Runtime \union {NotServing}
    /\ fromCache \in BOOLEAN /\ refused \in BOOLEAN /\ confirmed \in BOOLEAN
    /\ cacheFailed \in BOOLEAN

SourceInit ==
    /\ serving \in Configs
    /\ stage = "down"
    /\ latest = NoConfig /\ changed = FALSE
    /\ keys = [s \in Sources |-> Forgotten]
    /\ kidMiss = FALSE
    /\ disk = NoCache
    /\ inFlight = {} /\ calls = [h \in Hosts |-> 0] /\ dropped = [h \in Hosts |-> 0]
    /\ served = NotServing /\ fromCache = FALSE /\ refused = FALSE
    /\ confirmed = FALSE /\ cacheFailed = FALSE
    /\ changes = 0 /\ restarts = 0 /\ faults = 0

-----------------------------------------------------------------------------
(* The environment. *)

ServesAnother(c) ==
    /\ changes < MaxChanges /\ c # serving
    /\ serving' = c
    /\ changes' = changes + 1
    /\ UNCHANGED <<stage, latest, changed, keys, kidMiss, disk, names, store, refused,
                   history, restarts, faults>>

(* A scheduled fetch comes due; the gap after a fetch for an unknown kid is over. *)
FetchDue(s) ==
    /\ keys[s].named /\ ~keys[s].due /\ ~keys[s].task
    /\ keys' = [keys EXCEPT ![s].due = TRUE]
    /\ UNCHANGED <<serving, stage, latest, changed, kidMiss, disk, names, store, refused,
                   history, bounds>>

GapOver(s) ==
    /\ keys[s].asked
    /\ keys' = [keys EXCEPT ![s].asked = FALSE]
    /\ UNCHANGED <<serving, stage, latest, changed, kidMiss, disk, names, store, refused,
                   history, bounds>>

(* A request's token names a key a jwks_uri policy does not hold. *)
UnknownKid ==
    /\ served # NotServing /\ SourceOf[served.config] # NoSource /\ ~kidMiss
    /\ kidMiss' = TRUE
    /\ UNCHANGED <<serving, stage, latest, changed, keys, disk, names, store, refused,
                   history, bounds>>

LookedUp(c) == IF Target[c] = NoHost THEN {} ELSE {Target[c]}

(* The host has a lookup whose handle this tick or the next one waits on. *)
Attached(h) == h \in inFlight \/ (stage \in {"priming", "resolving"} /\ h \in LookedUp(latest))

(* A lookup nobody waits for ends. *)
DetachedLookupEnds(h) ==
    /\ calls[h] > IF Attached(h) THEN 1 ELSE 0
    /\ calls' = [calls EXCEPT ![h] = @ - 1]
    /\ UNCHANGED <<serving, stage, latest, changed, keys, kidMiss, disk, inFlight, dropped,
                   store, refused, history, bounds>>

(* The process stops at any point; only the file is left. *)
Stop ==
    /\ stage # "down" /\ restarts < MaxRestarts
    /\ stage' = "down"
    /\ latest' = NoConfig /\ changed' = FALSE
    /\ keys' = [s \in Sources |-> Forgotten]
    /\ kidMiss' = FALSE
    /\ inFlight' = {} /\ calls' = [h \in Hosts |-> 0] /\ dropped' = [h \in Hosts |-> 0]
    /\ served' = NotServing /\ fromCache' = FALSE /\ refused' = FALSE
    /\ confirmed' = FALSE
    /\ restarts' = restarts + 1
    /\ UNCHANGED <<serving, disk, cacheFailed, changes, faults>>

-----------------------------------------------------------------------------
(* resolve: one lookup per named host, joined with the one still in flight. *)

StartLookups(c) ==
    /\ inFlight' = inFlight \intersect LookedUp(c)
    /\ calls' = [h \in Hosts |->
                    IF h \in LookedUp(c) \ inFlight THEN calls[h] + 1 ELSE calls[h]]
    /\ dropped' = [h \in Hosts |->
                    IF h \in inFlight \ LookedUp(c) THEN dropped[h] + 1 ELSE dropped[h]]

(* Mutant: the addresses are kept whatever host they were of. *)
KeptAnyHost(c) == IF served = NotServing THEN {} ELSE served.endpoints

(* Mutant: a resolver error is an empty answer. *)
KeptNothing(c) == {}

(* The addresses served for the same cluster, while it names the same host. *)
Kept(c) ==
    IF served # NotServing /\ Target[served.config] = Target[c]
    THEN served.endpoints ELSE {}

(* A lookup ended; one that did not is kept in flight. *)
LookupEnds(h) ==
    /\ inFlight' = inFlight \ {h}
    /\ calls' = [calls EXCEPT ![h] = @ - 1]
    /\ UNCHANGED dropped

(* Mutant: the handle of a lookup that outlasts the tick is dropped. *)
LookupForgotten(h) ==
    /\ inFlight' = inFlight \ {h}
    /\ UNCHANGED <<calls, dropped>>

LookupKept(h) ==
    /\ inFlight' = inFlight \union {h}
    /\ UNCHANGED <<calls, dropped>>

(* The lookup answers, fails, or outlasts the tick. *)
ResolveTo(c, endpoints) ==
    \/ /\ Target[c] = NoHost /\ endpoints = {}
       /\ UNCHANGED <<names, faults>>
    \/ /\ Target[c] # NoHost /\ endpoints \in SUBSET AddressesOf[Target[c]]
       /\ LookupEnds(Target[c])
       /\ UNCHANGED faults
    \/ /\ Target[c] # NoHost /\ endpoints = Kept(c) /\ faults < MaxFaults
       /\ faults' = faults + 1
       /\ LookupEnds(Target[c]) \/ LookupKept(Target[c])

(* KeySources::fill *)
Filled(c) == IF SourceOf[c] = NoSource THEN NoDoc ELSE keys[SourceOf[c]].doc

-----------------------------------------------------------------------------
(* prime *)

(* No cache, or one that cannot be read: nothing to serve until a poll succeeds. *)
StartEmpty ==
    /\ stage = "down"
    /\ \/ disk = NoCache /\ UNCHANGED faults
       \/ disk # NoCache /\ faults < MaxFaults /\ faults' = faults + 1
    /\ stage' = "polling"
    /\ UNCHANGED <<serving, latest, changed, keys, kidMiss, disk, names, store, refused,
                   history, changes, restarts>>

(* Mutant: the documents of the cache are not handed to the key sources. *)
StartUnseeded ==
    /\ stage = "down" /\ disk # NoCache
    /\ stage' = "priming"
    /\ latest' = disk.config
    /\ StartLookups(disk.config)
    /\ UNCHANGED <<serving, changed, keys, kidMiss, disk, store, refused, history, bounds>>

(* The cache is read, the key sources are seeded, the lookups begin. *)
StartFromCache ==
    /\ stage = "down" /\ disk # NoCache
    /\ stage' = "priming"
    /\ latest' = disk.config
    /\ keys' = [s \in Sources |->
                  IF disk.docs[s] # NoDoc THEN [NewState EXCEPT !.doc = disk.docs[s]]
                  ELSE Forgotten]
    /\ StartLookups(disk.config)
    /\ UNCHANGED <<serving, changed, kidMiss, disk, store, refused, history, bounds>>

(* swap_from_cache *)
PrimeSwap ==
    /\ stage = "priming"
    /\ \E endpoints \in SUBSET AllAddresses :
         /\ ResolveTo(latest, endpoints)
         /\ served' = [config |-> latest, endpoints |-> endpoints, doc |-> Filled(latest)]
    /\ fromCache' = TRUE
    /\ stage' = "polling"
    /\ UNCHANGED <<serving, latest, changed, keys, kidMiss, disk, refused, confirmed,
                   cacheFailed, changes, restarts>>

-----------------------------------------------------------------------------
(* poll *)

AfterPoll(config) == IF config = NoConfig THEN "sleeping" ELSE "refreshing"

PollChanged ==
    /\ stage = "polling" /\ serving \in Readable /\ serving # latest
    /\ latest' = serving
    /\ changed' = TRUE
    /\ refused' = FALSE
    /\ confirmed' = TRUE
    /\ stage' = "refreshing"
    /\ UNCHANGED <<serving, keys, kidMiss, disk, names, store, cacheFailed,
                   bounds>>

(* Mutant: a 304 says nothing about the cache. *)
PollUnchangedSilently ==
    /\ stage = "polling" /\ serving = latest
    /\ refused' = FALSE
    /\ confirmed' = TRUE
    /\ stage' = "refreshing"
    /\ UNCHANGED <<serving, latest, changed, keys, kidMiss, disk, names, served, fromCache,
                   cacheFailed, bounds>>

PollUnchanged ==
    /\ stage = "polling" /\ serving = latest
    /\ fromCache' = FALSE
    /\ refused' = FALSE
    /\ confirmed' = TRUE
    /\ stage' = "refreshing"
    /\ UNCHANGED <<serving, latest, changed, keys, kidMiss, disk, names, served, cacheFailed, bounds>>

(* Mutant: the configuration refused is held. *)
PollIncompatibleHeld ==
    /\ stage = "polling" /\ serving \notin Readable /\ serving # latest
    /\ refused' = TRUE
    /\ latest' = serving
    /\ stage' = AfterPoll(latest)
    /\ UNCHANGED <<serving, changed, keys, kidMiss, disk, names, store, history, bounds>>

PollIncompatible ==
    /\ stage = "polling" /\ serving \notin Readable /\ serving # latest
    /\ refused' = TRUE
    /\ stage' = AfterPoll(latest)
    /\ UNCHANGED <<serving, latest, changed, keys, kidMiss, disk, names, store, history, bounds>>

PollFails ==
    /\ stage = "polling" /\ faults < MaxFaults
    /\ faults' = faults + 1
    /\ stage' = AfterPoll(latest)
    /\ UNCHANGED <<serving, latest, changed, keys, kidMiss, disk, names, store, refused,
                   history, changes, restarts>>

-----------------------------------------------------------------------------
(* KeySources::refresh *)

(* Mutant: every configuration starts its sources over. *)
BegunAfresh(s) ==
    IF s # SourceOf[latest] THEN Forgotten
    ELSE IF changed THEN [NewState EXCEPT !.task = TRUE]
    ELSE keys[s]

(* The sources the configuration does not name are forgotten, a new one is due, and a *)
(* fetch starts where one is due or an unknown kid asked for it outside the gap.      *)
Begun(s) ==
    LET state == IF keys[s].named THEN keys[s] ELSE NewState
        asked == kidMiss /\ ~state.asked
    IN  IF s # SourceOf[latest] THEN Forgotten
        ELSE IF state.task THEN state
        ELSE [state EXCEPT !.asked = @ \/ asked, !.task = asked \/ state.due]

RefreshBegins ==
    /\ stage = "refreshing"
    /\ kidMiss' = FALSE
    /\ keys' = [s \in Sources |-> Begun(s)]
    /\ stage' = "fetching"
    /\ UNCHANGED <<serving, latest, changed, disk, names, store, refused, history, bounds>>

(* No fetch runs, or the one that does is left for a later tick. *)
FetchNothing ==
    /\ stage = "fetching"
    /\ \/ \A s \in Sources : ~keys[s].task
          /\ UNCHANGED faults
       \/ \E s \in Sources : keys[s].task
          /\ faults < MaxFaults /\ faults' = faults + 1
    /\ stage' = IF changed THEN "caching" ELSE "resolving"
    /\ IF changed THEN UNCHANGED names ELSE StartLookups(latest)
    /\ UNCHANGED <<serving, latest, changed, keys, kidMiss, disk, store, refused, history,
                   changes, restarts>>

(* Mutant: a document fetched between configurations is not cached. *)
FetchOkUncached(s) ==
    /\ stage = "fetching" /\ keys[s].task
    /\ \E doc \in Docs :
         keys' = [keys EXCEPT ![s].task = FALSE, ![s].due = FALSE, ![s].doc = doc]
    /\ stage' = IF changed THEN "caching" ELSE "resolving"
    /\ IF changed THEN UNCHANGED names ELSE StartLookups(latest)
    /\ UNCHANGED <<serving, latest, changed, kidMiss, disk, store, refused, history, bounds>>

(* A fetch brings a usable document: the cache is written whether or not the *)
(* configuration changed.                                                    *)
FetchOk(s) ==
    /\ stage = "fetching" /\ keys[s].task
    /\ \E doc \in Docs :
         keys' = [keys EXCEPT ![s].task = FALSE, ![s].due = FALSE, ![s].doc = doc]
    /\ stage' = "caching"
    /\ UNCHANGED <<serving, latest, changed, kidMiss, disk, names, store, refused, history, bounds>>

(* A fetch fails in any of its ways, or its document is refused: the last good one stays. *)
FetchFails(s) ==
    /\ stage = "fetching" /\ keys[s].task /\ faults < MaxFaults
    /\ faults' = faults + 1
    /\ keys' = [keys EXCEPT ![s].task = FALSE, ![s].due = FALSE]
    /\ stage' = IF changed THEN "caching" ELSE "resolving"
    /\ IF changed THEN UNCHANGED names ELSE StartLookups(latest)
    /\ UNCHANGED <<serving, latest, changed, kidMiss, disk, store, refused, history,
                   changes, restarts>>

-----------------------------------------------------------------------------
(* write_cache, atomically: version, configuration and the documents held. *)
WriteCache ==
    /\ stage = "caching"
    /\ disk' = [config |-> latest, docs |-> [s \in Sources |-> keys[s].doc]]
    /\ cacheFailed' = FALSE
    /\ StartLookups(latest)
    /\ stage' = "resolving"
    /\ UNCHANGED <<serving, latest, changed, keys, kidMiss, store, refused, confirmed, bounds>>

WriteCacheFails ==
    /\ stage = "caching" /\ faults < MaxFaults
    /\ faults' = faults + 1
    /\ cacheFailed' = TRUE
    /\ StartLookups(latest)
    /\ stage' = "resolving"
    /\ UNCHANGED <<serving, latest, changed, keys, kidMiss, disk, store, refused, confirmed, changes, restarts>>

(* The lookups are over: fill, and swap when the result differs from what is served. *)
Swap ==
    /\ stage = "resolving"
    /\ \E endpoints \in SUBSET AllAddresses :
         /\ ResolveTo(latest, endpoints)
         /\ LET resolved == [config |-> latest, endpoints |-> endpoints, doc |-> Filled(latest)]
            IN  IF served # resolved
                THEN /\ served' = resolved
                     /\ fromCache' = FALSE
                ELSE UNCHANGED store
    /\ stage' = "sleeping"
    /\ UNCHANGED <<serving, latest, changed, keys, kidMiss, disk, refused, confirmed,
                   cacheFailed, changes, restarts>>

TickBegins ==
    /\ stage = "sleeping"
    /\ stage' = "polling"
    /\ changed' = FALSE
    /\ UNCHANGED <<serving, latest, keys, kidMiss, disk, names, store, refused, history, bounds>>

-----------------------------------------------------------------------------
(* A step of the loop that is not a fault. *)
Step ==
    \/ StartEmpty \/ StartFromCache \/ PrimeSwap
    \/ PollChanged \/ PollUnchanged \/ PollIncompatible
    \/ RefreshBegins \/ FetchNothing \/ (\E s \in Sources : FetchOk(s))
    \/ WriteCache \/ Swap \/ TickBegins

SourceNext ==
    \/ Step
    \/ PollFails \/ (\E s \in Sources : FetchFails(s)) \/ WriteCacheFails
    \/ Stop
    \/ \E c \in Configs : ServesAnother(c)
    \/ \E s \in Sources : FetchDue(s) \/ GapOver(s)
    \/ UnknownKid
    \/ \E h \in Hosts : DetachedLookupEnds(h)

SourceSpec == SourceInit /\ [][SourceNext]_sourceVars

(* The loop runs on, and the time of a scheduled fetch comes. *)
SourceFairSpec == SourceSpec /\ WF_sourceVars(Step) /\ \A s \in Sources : WF_sourceVars(FetchDue(s))

-----------------------------------------------------------------------------
(* A key set that loaded stays: no poll, failed fetch, resolution or swap    *)
(* takes the keys from a policy that goes on naming the same source, which   *)
(* would refuse every token.                                                 *)
KeysKept ==
    [][ \/ served = NotServing \/ served' = NotServing
        \/ SourceOf[served.config] = NoSource
        \/ SourceOf[served'.config] # SourceOf[served.config]
        \/ served.doc = NoDoc
        \/ served'.doc # NoDoc ]_sourceVars

(* Between two ticks the file holds what a restart needs: the configuration  *)
(* held and its documents, unless the last write of it failed.               *)
CacheCurrent ==
    stage = "sleeping" /\ latest # NoConfig /\ ~cacheFailed =>
        /\ disk # NoCache /\ disk.config = latest
        /\ \A s \in Sources : disk.docs[s] = keys[s].doc

(* A start from the cache serves at once with the documents it kept, control *)
(* plane, IdP and resolver unreachable or not.                               *)
CachedKeysServed ==
    [][ stage = "priming" /\ stage' = "polling" =>
          /\ served'.config = disk.config
          /\ SourceOf[disk.config] # NoSource => served'.doc = disk.docs[SourceOf[disk.config]]
      ]_sourceVars

(* A backend's addresses are only ever ones its own host resolved to.        *)
EndpointsOfOwnHost ==
    served # NotServing =>
        served.endpoints \subseteq
            (IF Target[served.config] = NoHost THEN {} ELSE AddressesOf[Target[served.config]])

(* A backend loses its addresses only to an answer that says so: never to a  *)
(* resolver error, while it names the same host.                             *)
OnlyAnswersEmpty ==
    [][ \/ served = NotServing \/ served' = NotServing
        \/ Target[served'.config] # Target[served.config]
        \/ served.endpoints = {} \/ served'.endpoints # {}
        \/ faults' = faults ]_sourceVars

(* When the control plane settles on a configuration this build reads, the   *)
(* data plane ends up serving it, with the keys its policy names, and says   *)
(* neither that it runs from its cache nor that it was refused.              *)
Converges ==
    <>[](serving \in Readable =>
           /\ served # NotServing /\ served.config = serving
           /\ SourceOf[serving] # NoSource => served.doc # NoDoc
           /\ ~fromCache /\ ~refused)

(* Blocking lookups do not pile up on a name that hangs: one that outlasts   *)
(* its tick is waited for, not started again, and only a name removed and    *)
(* configured again costs another.                                           *)
LookupsBounded == \A h \in Hosts : calls[h] <= 1 + dropped[h]

-----------------------------------------------------------------------------
(* control.rs:132, "Written only after a configuration has been swapped in,  *)
(* never before": what is written is the configuration served.               *)
CachedAfterSwap ==
    [][disk' # disk => served # NotServing /\ served.config = disk'.config]_sourceVars

(* telemetry.rs, "1 while serving a configuration read from the disk cache   *)
(* and not since confirmed": the gauge says so until a poll is answered.     *)
BlindUntilConfirmed == served # NotServing /\ ~confirmed => fromCache
=============================================================================
