----------------------------- MODULE KubeSource -----------------------------
(***************************************************************************)
(* The Kubernetes source of the data plane (source/kubernetes): discovery, *)
(* one watch stream per kind, the channel they share, the State that folds *)
(* their events into a snapshot (reconcile.rs), the loop that translates   *)
(* it and swaps the result in, and the restarts of all that (mod.rs).      *)
(*                                                                         *)
(* The API server is external: history[k] is what kind k has held, oldest  *)
(* first, and a place in it is a resourceVersion.  The streams are those   *)
(* of kube's watcher, external too, as the source uses them: Init, one     *)
(* InitApply for each object of a list, InitDone, then the changes after   *)
(* the list in order; a list that fails, or a version that is gone, starts *)
(* again from Init.  Events carry where the stream is after them (then)    *)
(* only to state the refinement of ClusterFeed: the code does not read it. *)
(*                                                                         *)
(* A document stands for a whole object, its uid included, so an object    *)
(* created anew has a document it never had.  A configuration is a         *)
(* function of the snapshot it was translated from, so served is that      *)
(* snapshot; Translation has the function.                                 *)
(***************************************************************************)
EXTENDS Integers, Sequences, FiniteSets

CONSTANTS Kinds, Objects, KindOf, Docs, Usable, Absent, Publish,
          Optional,     \* kinds whose absence is a warning (BackendTLSPolicy)
          Poison,       \* documents the translator panics on
          ChannelCap    \* events the channel holds (1024)

ASSUME KubeSourceAssumption ==
    /\ KindOf \in [Objects -> Kinds] /\ Publish \in Objects
    /\ Usable \subseteq Docs /\ Absent \notin Docs
    /\ Optional \subseteq Kinds /\ ChannelCap \in Nat \ {0}

VARIABLES history,     \* kind -> sequence of contents                       (API server)
          installed,   \* kinds the API server serves                        (API server)
          listable,    \* kinds the gateway's role may list                  (API server)
          stream,      \* kind -> its watcher task                           (kube's watcher)
          channel,     \* events on their way to the loop
          phase,       \* the loop: down between runs, wait for an event, drain the channel
          watched,     \* kinds discovery resolved
          snapshot,    \* State: kind -> contents
          known,       \* State: kind -> objects put and not dropped since
          pending,     \* State: kind -> objects of the list in progress
          synced,      \* State: kinds whose first list ended
          address,     \* State: what Publish says, or Absent
          dirty,       \* something changed since the loop woke
          folded,      \* kind -> then of the last event folded in (auxiliary)
          seen,        \* kind -> the place the snapshot is of (auxiliary)
          served, servedAt, addresses,   \* the store: see ClusterFeed
          budget       \* writes to the API server and failures that may still happen (bound)

api == <<history, installed, listable>>
state == <<snapshot, known, pending, synced, address, folded, seen>>
store == <<served, servedAt, addresses>>
sourceVars == <<history, installed, listable, stream, channel, phase, watched, snapshot, known, pending, synced,
                address, dirty, folded, seen, served, servedAt, addresses, budget>>

Empty == [o \in Objects |-> Absent]

Of(k) == {o \in Objects : KindOf[o] = k}

Content == [Objects -> Docs \cup {Absent}]

Now(k) == history[k][Len(history[k])]

Off == [at |-> "off", rv |-> 0, sent |-> {}]

Fresh ==
    /\ snapshot' = [k \in Kinds |-> Empty]
    /\ known' = [k \in Kinds |-> {}]
    /\ pending' = [k \in Kinds |-> Empty]
    /\ synced' = {}
    /\ address' = Absent
    /\ folded' = [k \in Kinds |-> Off]
    /\ seen' = [k \in Kinds |-> 1]

-----------------------------------------------------------------------------
(* The API server *)

\* Someone writes or deletes an object of a kind that is installed.
Happen(o, doc) ==
    /\ KindOf[o] \in installed
    /\ doc # Now(KindOf[o])[o]
    /\ Now(KindOf[o])[o] = Absent =>
          \A i \in DOMAIN history[KindOf[o]] : history[KindOf[o]][i][o] # doc
    /\ history' = [history EXCEPT ![KindOf[o]] = Append(@, [Now(KindOf[o]) EXCEPT ![o] = doc])]
    /\ budget.writes > 0
    /\ budget' = [budget EXCEPT !.writes = @ - 1]
    /\ UNCHANGED <<installed, listable, stream, channel, phase, watched, state, dirty, store>>

\* A status is written: another version of the object, the same document to the source (project).  Of
\* an HTTPRoute's the document keeps the controllers with an entry; such a change is another Happen.
StatusChanges(k) ==
    /\ k \in installed
    /\ history' = [history EXCEPT ![k] = Append(@, Now(k))]
    /\ UNCHANGED <<installed, listable, stream, channel, phase, watched, state, dirty, store>>

\* The definition of an optional kind is installed.
Install(k) ==
    /\ k \in Optional \ installed
    /\ installed' = installed \cup {k}
    /\ UNCHANGED <<history, listable, stream, channel, phase, watched, state, dirty, store, budget>>

\* The role is given the right to list it.
Permit(k) ==
    /\ k \in installed \ listable
    /\ listable' = listable \cup {k}
    /\ UNCHANGED <<history, installed, stream, channel, phase, watched, state, dirty, store, budget>>

-----------------------------------------------------------------------------
(* The watcher tasks *)

change_of(k, what, o, doc, then) ==
    [kind |-> k, what |-> what, obj |-> o, doc |-> doc, then |-> then]

Send(change) ==
    /\ Len(channel) < ChannelCap
    /\ channel' = Append(channel, change)
    /\ stream' = [stream EXCEPT ![change.kind] = change.then]
    /\ UNCHANGED <<api, phase, watched, state, dirty, store, budget>>

ListStarts(k) ==
    /\ stream[k].at = "empty"
    /\ Send(change_of(k, "Init", Publish, Absent,
                      [at |-> "listing", rv |-> Len(history[k]), sent |-> {}]))

\* The objects of the list in progress; while it is forbidden it is only asked for again.
Listed(k) == {o \in Objects : history[k][stream[k].rv][o] # Absent}

ListItem(k, o) ==
    /\ stream[k].at = "listing" /\ k \in listable
    /\ o \in Listed(k) \ stream[k].sent
    /\ Send(change_of(k, "InitApply", o, history[k][stream[k].rv][o],
                      [at |-> "listing", rv |-> stream[k].rv, sent |-> stream[k].sent \cup {o}]))

ListEnds(k) ==
    /\ stream[k].at = "listing" /\ k \in listable
    /\ stream[k].sent = Listed(k)
    /\ Send(change_of(k, "InitDone", Publish, Absent,
                      [at |-> "watching", rv |-> stream[k].rv, sent |-> {}]))

\* The change after the last one sent: of the one object the next contents differ in, or of one whose
\* status alone was written.
WatchSends(k, o) ==
    /\ stream[k].at = "watching"
    /\ stream[k].rv < Len(history[k])
    /\ \/ history[k][stream[k].rv + 1][o] # history[k][stream[k].rv][o]
       \/ history[k][stream[k].rv + 1] = history[k][stream[k].rv] /\ o \in Listed(k)
    /\ Send(change_of(k, IF history[k][stream[k].rv + 1][o] = Absent THEN "Delete" ELSE "Apply",
                      o, history[k][stream[k].rv + 1][o],
                      [at |-> "watching", rv |-> stream[k].rv + 1, sent |-> {}]))

\* A page of a list fails, or a watch is told its version is gone: Init again after a backoff.
StreamBreaks(k) ==
    /\ budget.faults > 0
    /\ stream[k].at \in {"listing", "watching"}
    /\ budget' = [budget EXCEPT !.faults = @ - 1]
    /\ stream' = [stream EXCEPT ![k] = [Off EXCEPT !.at = "empty"]]
    /\ UNCHANGED <<api, channel, phase, watched, state, dirty, store>>

-----------------------------------------------------------------------------
(* State::apply.  put of a document the schema refuses drops the object.  *)

put(content, o, doc) == [content EXCEPT ![o] = IF doc \in Usable THEN doc ELSE Absent]

\* What the published addresses are once object o became doc.
PublishedBy(k, o, doc) ==
    IF o = Publish /\ k = KindOf[Publish] THEN (IF doc \in Usable THEN doc ELSE Absent) ELSE address

\* Mutant of ApplyInit: a list that is begun again goes on with what the first one sent.
InitKeeps(c) == UNCHANGED <<pending, snapshot, known, synced, address, seen>>

ApplyInit(c) ==
    /\ pending' = [pending EXCEPT ![c.kind] = Empty]
    /\ UNCHANGED <<snapshot, known, synced, address, seen>>

ApplyListed(c) ==
    /\ pending' = [pending EXCEPT ![c.kind][c.obj] = c.doc]
    /\ UNCHANGED <<snapshot, known, synced, address, seen>>

\* Both an upsert and a delete: the snapshot and known change together.
ApplyChange(c) ==
    /\ snapshot' = [snapshot EXCEPT ![c.kind] = put(@, c.obj, c.doc)]
    /\ known' = [known EXCEPT ![c.kind] = IF c.doc \in Usable THEN @ \cup {c.obj} ELSE @ \ {c.obj}]
    /\ address' = PublishedBy(c.kind, c.obj, c.doc)
    /\ seen' = [seen EXCEPT ![c.kind] = c.then.rv]
    /\ UNCHANGED <<pending, synced>>

\* The list ends: what is known and was not listed is dropped, what was listed is put.
Relisted(c) ==
    [o \in Objects |->
        CASE pending[c.kind][o] \in Usable -> pending[c.kind][o]
          [] pending[c.kind][o] = Absent /\ o \notin known[c.kind] -> snapshot[c.kind][o]
          [] OTHER -> Absent]

ApplyDone(c) ==
    /\ snapshot' = [snapshot EXCEPT ![c.kind] = Relisted(c)]
    /\ known' = [known EXCEPT ![c.kind] = {o \in Objects : pending[c.kind][o] \in Usable}]
    /\ pending' = [pending EXCEPT ![c.kind] = Empty]
    /\ synced' = synced \cup {c.kind}
    /\ address' = IF /\ KindOf[Publish] = c.kind
                     /\ pending[c.kind][Publish] # Absent \/ Publish \in known[c.kind]
                  THEN Relisted(c)[Publish]
                  ELSE address
    /\ seen' = [seen EXCEPT ![c.kind] = c.then.rv]

Held(k, o) == snapshot[k][o] # Absent \/ o \in known[k]

\* Mutant of changed: the first list of a kind counts only when it has something.
ChangedByObjects(c) ==
    CASE c.what \in {"Init", "InitApply"} -> FALSE
      [] c.what \in {"Apply", "Delete"} -> c.doc \in Usable \/ Held(c.kind, c.obj)
      [] c.what = "InitDone" ->
            \E o \in Objects : pending[c.kind][o] \in Usable \/ (Relisted(c)[o] = Absent /\ Held(c.kind, o))

\* apply's answer: whether there is something to translate.
changed(c) ==
    CASE c.what \in {"Init", "InitApply"} -> FALSE
      [] c.what \in {"Apply", "Delete"} -> c.doc \in Usable \/ Held(c.kind, c.obj)
      [] c.what = "InitDone" ->
            \/ c.kind \notin synced
            \/ \E o \in Objects : \/ pending[c.kind][o] \in Usable
                                  \/ Relisted(c)[o] = Absent /\ Held(c.kind, o)

apply(c) ==
    /\ folded' = [folded EXCEPT ![c.kind] = c.then]
    /\ c.what = "Init" => ApplyInit(c)
    /\ c.what = "InitApply" => ApplyListed(c)
    /\ c.what \in {"Apply", "Delete"} => ApplyChange(c)
    /\ c.what = "InitDone" => ApplyDone(c)

synced_all == watched \subseteq synced

-----------------------------------------------------------------------------
(* The loop *)

\* Kind::resolve: the server serves one of the kind's versions.
resolved == installed

\* The kinds rediscovery looks for again.
missing_optional == Optional \ watched

\* Discovery: kinds the server does not serve are left out when optional; a required one missing
\* fails the run.  Everything of the run starts empty.
Discover ==
    /\ phase = "down"
    /\ Kinds \ Optional \subseteq resolved
    /\ phase' = "wait"
    /\ watched' = resolved
    /\ stream' = [k \in Kinds |-> IF k \in resolved THEN [Off EXCEPT !.at = "empty"] ELSE Off]
    /\ channel' = <<>>
    /\ dirty' = FALSE
    /\ Fresh
    /\ UNCHANGED <<api, store, budget>>

\* Both receives: the first event wakes the loop, the rest are drained after the debounce.
Receive ==
    /\ phase \in {"wait", "drain"}
    /\ channel # <<>>
    /\ apply(Head(channel))
    /\ dirty' = ((phase = "drain" /\ dirty) \/ changed(Head(channel)))
    /\ channel' = Tail(channel)
    /\ phase' = "drain"
    /\ UNCHANGED <<api, stream, watched, store, budget>>

translates == \A k \in Kinds : \A o \in Objects : snapshot[k][o] \notin Poison

\* The channel is empty: translate and swap, or go on waiting.  A panic keeps what is served.
Reload ==
    /\ phase = "drain"
    /\ channel = <<>>
    /\ phase' = "wait"
    /\ IF dirty /\ synced_all /\ translates
       THEN /\ served' = snapshot
            /\ servedAt' = seen
            /\ addresses' = address
       ELSE UNCHANGED store
    /\ UNCHANGED <<api, stream, channel, watched, state, dirty, budget>>

Stop ==
    /\ phase' = "down"
    /\ stream' = [k \in Kinds |-> Off]
    /\ channel' = <<>>
    /\ watched' = {}
    /\ dirty' = FALSE
    /\ Fresh
    /\ UNCHANGED <<api, store>>

\* The rediscovery task finds a kind that was missing served, and can list it: the run ends so that
\* the next watches it.
KindAppears ==
    /\ phase = "wait"
    /\ missing_optional \cap resolved \cap listable # {}
    /\ Stop
    /\ UNCHANGED budget

\* A watcher or a support task ends.
TaskEnds ==
    /\ phase = "wait"
    /\ budget.faults > 0
    /\ budget' = [budget EXCEPT !.faults = @ - 1]
    /\ Stop

-----------------------------------------------------------------------------

SourceInit(contents, kinds, bounds) ==
    /\ history = [k \in Kinds |-> <<contents[k]>>]
    /\ installed = kinds /\ listable = kinds
    /\ stream = [k \in Kinds |-> Off]
    /\ channel = <<>>
    /\ phase = "down"
    /\ watched = {}
    /\ snapshot = [k \in Kinds |-> Empty]
    /\ known = [k \in Kinds |-> {}]
    /\ pending = [k \in Kinds |-> Empty]
    /\ synced = {}
    /\ address = Absent
    /\ dirty = FALSE
    /\ folded = [k \in Kinds |-> Off]
    /\ seen = [k \in Kinds |-> 1]
    /\ served = Absent
    /\ servedAt = [k \in Kinds |-> 0]
    /\ addresses = Absent
    /\ budget = bounds

\* Contents of kinds that are not installed yet are empty.
Starts == {start \in [Kinds -> Content] \X SUBSET Kinds :
              \A k \in Kinds \ start[2] : start[1][k] = Empty}

WatcherStep(k) ==
    ListStarts(k) \/ ListEnds(k) \/ \E o \in Objects : ListItem(k, o) \/ WatchSends(k, o)

\* What the source does by itself; the API server, failures and restarts are not hurried.
SourceStep == Discover \/ Receive \/ Reload \/ KindAppears

SourceNext ==
    \/ \E o \in Objects : \E doc \in Docs \cup {Absent} : Happen(o, doc)
    \/ \E k \in Kinds : Install(k) \/ Permit(k) \/ WatcherStep(k) \/ StreamBreaks(k) \/ StatusChanges(k)
    \/ SourceStep
    \/ TaskEnds

SourceSpec ==
    /\ \E start \in Starts : SourceInit(start[1], start[2], budget)
    /\ [][SourceNext]_sourceVars
=============================================================================
