------------------------------ MODULE ConfigFeed ------------------------------
(***************************************************************************)
(* How a configuration written through the console reaches the data        *)
(* planes: the trigger that bumps the version and notifies                 *)
(* (migrations/0013), the listener that counts notifications into a watch  *)
(* channel (store/mod.rs), and the long poll `GET /v1/config` with its     *)
(* hold (config_api.rs).  A data plane polls with the tag of what it holds *)
(* and asks to be held while that is what is served.                       *)
(*                                                                         *)
(* What is served also changes without a notification: renaming a          *)
(* workspace moves the version but fires no trigger, and a key drops out   *)
(* of the snapshot when its time is up, with no write at all.              *)
(*                                                                         *)
(* A configuration stands for its bytes and so for its tag, a digest of    *)
(* them; writes may bring an earlier one back.                             *)
(***************************************************************************)
EXTENDS Integers, FiniteSets

CONSTANTS
    DataPlanes,
    Configs,       \* what the rows may compile to
    NoConfig,      \* a data plane that holds nothing, and sends no tag
    Features,
    Needs,         \* Config::needs, by configuration
    Reads,         \* the features each data plane names
    MaxWrites,     \* bound: committed writes that notify
    MaxRenames,    \* bound: renames of a workspace
    MaxExpiries,   \* bound: keys that expire
    MaxLosses,     \* bound: losses of the listening connection, refused LISTENs included
    MaxFailures    \* bound: polls that fail, and liveness records that are lost

ASSUME FeedAssumption ==
    /\ Needs \in [Configs -> SUBSET Features]
    /\ Reads \in [DataPlanes -> SUBSET Features]
    /\ NoConfig \notin Configs
    /\ MaxWrites \in Nat /\ MaxRenames \in Nat /\ MaxExpiries \in Nat
    /\ MaxLosses \in Nat /\ MaxFailures \in Nat

VARIABLES
    config,    \* what the committed rows compile to at this time
    version,   \* config_state.version
    notices,   \* history: commits whose trigger notified
    announced, \* history: the newest change of what is served was one of them
    expiries,
    conn,      \* the listening connection
    queue,     \* notifications on their way to the listener
    changes,   \* the value of the watch channel
    phase,     \* where each data plane's poll is
    have,      \* what each data plane holds
    sent,      \* If-None-Match of the poll
    seen,      \* the value the poll's receiver has seen
    snap,      \* the configuration the poll read, NoConfig before
    needs,     \* what that configuration needs
    stamp,     \* the version the poll read first
    at,        \* history: notices when the poll read its snapshot
    lastSeen,  \* data_planes.last_seen_version and last_seen_etag
    losses, failures

vars == <<config, version, notices, announced, expiries, conn, queue, changes, phase, have,
          sent, seen, snap, needs, stamp, at, lastSeen, losses, failures>>

store == <<config, version, notices, announced, expiries>>
listener == <<conn, queue, changes, losses>>
poll == <<phase, have, sent, seen, snap, needs, stamp, at, lastSeen>>

MaybeConfig == Configs \union {NoConfig}

TypeOK ==
    /\ config \in Configs /\ version \in Nat
    /\ notices \in Nat /\ announced \in BOOLEAN /\ expiries \in Nat
    /\ conn \in {"down", "connected", "subscribed", "listening"}
    /\ queue \in Nat /\ changes \in Nat
    /\ phase \in [DataPlanes -> {"idle", "asking", "reading", "recording", "held",
                                 "rereading", "answering"}]
    /\ have \in [DataPlanes -> MaybeConfig]
    /\ sent \in [DataPlanes -> MaybeConfig]
    /\ seen \in [DataPlanes -> Nat]
    /\ snap \in [DataPlanes -> MaybeConfig]
    /\ needs \in [DataPlanes -> SUBSET Features]
    /\ stamp \in [DataPlanes -> Nat]
    /\ at \in [DataPlanes -> Nat]
    /\ lastSeen \in [DataPlanes -> [version : Nat, tag : MaybeConfig]]
    /\ losses \in Nat /\ failures \in Nat

Init ==
    /\ config \in Configs /\ version = 0
    /\ notices = 0 /\ announced = TRUE /\ expiries = 0
    /\ conn = "down" /\ queue = 0 /\ changes = 0
    /\ phase = [d \in DataPlanes |-> "idle"]
    /\ have = [d \in DataPlanes |-> NoConfig]
    /\ sent = [d \in DataPlanes |-> NoConfig]
    /\ seen = [d \in DataPlanes |-> 0]
    /\ snap = [d \in DataPlanes |-> NoConfig]
    /\ needs = [d \in DataPlanes |-> {}]
    /\ stamp = [d \in DataPlanes |-> 0]
    /\ at = [d \in DataPlanes |-> 0]
    /\ lastSeen = [d \in DataPlanes |-> [version |-> 0, tag |-> NoConfig]]
    /\ losses = 0 /\ failures = 0

-----------------------------------------------------------------------------
(* The store. *)

(* A transaction that changed rows a workspace holds commits: the trigger's      *)
(* notification goes to whoever LISTENs at that moment.                           *)
Commit(c) ==
    /\ notices < MaxWrites
    /\ config' = c
    /\ version' = version + 1
    /\ notices' = notices + 1
    /\ announced' = TRUE
    /\ queue' = IF conn \in {"subscribed", "listening"} THEN queue + 1 ELSE queue
    /\ UNCHANGED <<expiries, conn, changes, losses, poll, failures>>

(* A change that leaves the policies alone, and so what they need of a data plane. *)
SamePolicies(c) == c # config /\ Needs[c] = Needs[config]

(* A workspace is renamed: its name is in the configuration, so the transaction   *)
(* moves the version itself, and no trigger of this table notifies.               *)
Rename(c) ==
    /\ version - notices < MaxRenames
    /\ SamePolicies(c)
    /\ config' = c
    /\ version' = version + 1
    /\ announced' = FALSE
    /\ UNCHANGED <<notices, expiries, listener, poll, failures>>

(* A key's time is up: the next snapshot leaves it out. *)
KeyExpires(c) ==
    /\ expiries < MaxExpiries
    /\ SamePolicies(c)
    /\ config' = c
    /\ expiries' = expiries + 1
    /\ announced' = FALSE
    /\ UNCHANGED <<version, notices, listener, poll, failures>>

-----------------------------------------------------------------------------
(* The task `listen`. *)

Connect ==
    /\ conn = "down"
    /\ conn' = "connected"
    /\ UNCHANGED <<store, queue, changes, losses, poll, failures>>

(* The server takes the LISTEN; its answer is on the way. *)
Subscribe ==
    /\ conn = "connected"
    /\ conn' = "subscribed"
    /\ UNCHANGED <<store, queue, changes, losses, poll, failures>>

(* Mutant: a connection made anew does not count as a change. *)
ListenQuietly ==
    /\ conn = "subscribed"
    /\ conn' = "listening"
    /\ UNCHANGED <<store, queue, changes, losses, poll, failures>>

(* The LISTEN is answered: counted once for whatever was missed without it. *)
Listen ==
    /\ conn = "subscribed"
    /\ conn' = "listening"
    /\ changes' = changes + 1
    /\ UNCHANGED <<store, queue, losses, poll, failures>>

(* Mutant: the count goes up although nothing was handed over. *)
HearNothing ==
    /\ conn = "listening"
    /\ queue' = queue - 1
    /\ changes' = changes + 1
    /\ UNCHANGED <<store, conn, losses, poll, failures>>

Hear ==
    /\ conn = "listening" /\ queue > 0
    /\ queue' = queue - 1
    /\ changes' = changes + 1
    /\ UNCHANGED <<store, conn, losses, poll, failures>>

(* The connection fails, or the LISTEN is refused; what it had not handed over is lost. *)
Lose ==
    /\ conn # "down" /\ losses < MaxLosses
    /\ conn' = "down"
    /\ queue' = 0
    /\ losses' = losses + 1
    /\ UNCHANGED <<store, changes, poll, failures>>

-----------------------------------------------------------------------------
(* The handler `serve`, for one data plane at a time, and the poll that calls it. *)

Ask(d) ==
    /\ phase[d] = "idle"
    /\ phase' = [phase EXCEPT ![d] = "asking"]
    /\ sent' = [sent EXCEPT ![d] = have[d]]
    /\ UNCHANGED <<store, listener, have, seen, snap, needs, stamp, at, lastSeen, failures>>

(* The token is good; the receiver is marked up to date before the snapshot is read. *)
Authenticate(d) ==
    /\ phase[d] = "asking"
    /\ seen' = [seen EXCEPT ![d] = changes]
    /\ phase' = [phase EXCEPT ![d] = "reading"]
    /\ UNCHANGED <<store, listener, have, sent, snap, needs, stamp, at, lastSeen, failures>>

(* `snapshot`: version and rows in one repeatable-read transaction. *)
ReadSnapshot(d) ==
    /\ phase[d] = "reading"
    /\ snap' = [snap EXCEPT ![d] = config]
    /\ needs' = [needs EXCEPT ![d] = Needs[config]]
    /\ stamp' = [stamp EXCEPT ![d] = version]
    /\ at' = [at EXCEPT ![d] = notices]
    /\ phase' = [phase EXCEPT ![d] = "recording"]
    /\ UNCHANGED <<store, listener, have, sent, seen, lastSeen, failures>>

(* After the record the poll is held if it has what is served. *)
HoldOrAnswer(d) ==
    phase' = [phase EXCEPT ![d] = IF sent[d] = snap[d] THEN "held" ELSE "answering"]

(* Mutant: the receiver is taken when the poll is about to be held. *)
RecordThenMark(d) ==
    /\ phase[d] = "recording"
    /\ lastSeen' = [lastSeen EXCEPT ![d] = [version |-> stamp[d], tag |-> sent[d]]]
    /\ seen' = [seen EXCEPT ![d] = changes]
    /\ HoldOrAnswer(d)
    /\ UNCHANGED <<store, listener, have, sent, snap, needs, stamp, at, failures>>

(* Mutant: a call that gets nothing new is not recorded. *)
RecordChangesOnly(d) ==
    /\ phase[d] = "recording"
    /\ lastSeen' = IF sent[d] = snap[d] THEN lastSeen
                   ELSE [lastSeen EXCEPT ![d] = [version |-> stamp[d], tag |-> sent[d]]]
    /\ HoldOrAnswer(d)
    /\ UNCHANGED <<store, listener, have, sent, seen, snap, needs, stamp, at, failures>>

Record(d) ==
    /\ phase[d] = "recording"
    /\ lastSeen' = [lastSeen EXCEPT ![d] = [version |-> stamp[d], tag |-> sent[d]]]
    /\ HoldOrAnswer(d)
    /\ UNCHANGED <<store, listener, have, sent, seen, snap, needs, stamp, at, failures>>

(* `record_call` fails and the poll goes on. *)
RecordFails(d) ==
    /\ phase[d] = "recording" /\ failures < MaxFailures
    /\ failures' = failures + 1
    /\ HoldOrAnswer(d)
    /\ UNCHANGED <<store, listener, have, sent, seen, snap, needs, stamp, at, lastSeen>>

Wake(d) ==
    /\ phase[d] = "held" /\ seen[d] # changes
    /\ seen' = [seen EXCEPT ![d] = changes]
    /\ phase' = [phase EXCEPT ![d] = "rereading"]
    /\ UNCHANGED <<store, listener, have, sent, snap, needs, stamp, at, lastSeen, failures>>

(* The wait is up: answered with what was read before it. *)
HoldTimesOut(d) ==
    /\ phase[d] = "held"
    /\ phase' = [phase EXCEPT ![d] = "answering"]
    /\ UNCHANGED <<store, listener, have, sent, seen, snap, needs, stamp, at, lastSeen, failures>>

(* Mutant: what the new configuration needs is not read again. *)
RereadKeepingNeeds(d) ==
    /\ phase[d] = "rereading"
    /\ snap' = [snap EXCEPT ![d] = config]
    /\ at' = [at EXCEPT ![d] = notices]
    /\ phase' = [phase EXCEPT ![d] = "answering"]
    /\ UNCHANGED <<store, listener, have, sent, seen, needs, stamp, lastSeen, failures>>

(* `reread`: snapshot, body, tag and needs are replaced together. *)
Reread(d) ==
    /\ phase[d] = "rereading"
    /\ snap' = [snap EXCEPT ![d] = config]
    /\ needs' = [needs EXCEPT ![d] = Needs[config]]
    /\ at' = [at EXCEPT ![d] = notices]
    /\ phase' = [phase EXCEPT ![d] = "answering"]
    /\ UNCHANGED <<store, listener, have, sent, seen, stamp, lastSeen, failures>>

(* The poll is over: its locals are gone. *)
Done(d) ==
    /\ phase' = [phase EXCEPT ![d] = "idle"]
    /\ sent' = [sent EXCEPT ![d] = NoConfig]
    /\ seen' = [seen EXCEPT ![d] = 0]
    /\ snap' = [snap EXCEPT ![d] = NoConfig]
    /\ needs' = [needs EXCEPT ![d] = {}]
    /\ stamp' = [stamp EXCEPT ![d] = 0]
    /\ at' = [at EXCEPT ![d] = 0]
    /\ UNCHANGED <<store, listener, lastSeen>>

AnswerNotModified(d) ==
    /\ phase[d] = "answering" /\ sent[d] = snap[d]
    /\ Done(d)
    /\ UNCHANGED <<have, failures>>

AnswerIncompatible(d) ==
    /\ phase[d] = "answering" /\ sent[d] # snap[d]
    /\ ~(needs[d] \subseteq Reads[d])
    /\ Done(d)
    /\ UNCHANGED <<have, failures>>

AnswerConfig(d) ==
    /\ phase[d] = "answering" /\ sent[d] # snap[d]
    /\ needs[d] \subseteq Reads[d]
    /\ have' = [have EXCEPT ![d] = snap[d]]
    /\ Done(d)
    /\ UNCHANGED failures

(* A refused token or a store that cannot be read (401, 503), where one row that *)
(* does not parse fails the whole snapshot; a lost request or answer.            *)
PollFails(d) ==
    /\ phase[d] # "idle" /\ failures < MaxFailures
    /\ failures' = failures + 1
    /\ Done(d)
    /\ UNCHANGED have

-----------------------------------------------------------------------------
Serve(d) ==
    \/ Ask(d) \/ Authenticate(d) \/ ReadSnapshot(d) \/ Record(d)
    \/ Wake(d) \/ Reread(d)
    \/ AnswerNotModified(d) \/ AnswerIncompatible(d) \/ AnswerConfig(d)

ListenerSteps == Connect \/ Subscribe \/ Listen \/ Hear

Next ==
    \/ \E c \in Configs : Commit(c) \/ Rename(c) \/ KeyExpires(c)
    \/ ListenerSteps
    \/ Lose
    \/ \E d \in DataPlanes :
         Serve(d) \/ RecordFails(d) \/ HoldTimesOut(d) \/ PollFails(d)

Spec == Init /\ [][Next]_vars

(* The listener and the polls make progress; changes, losses, failures and the *)
(* end of a wait may happen or not.                                            *)
WakeSpec ==
    Spec /\ WF_vars(ListenerSteps) /\ \A d \in DataPlanes : WF_vars(Serve(d))

(* The end of a wait is a timer, and timers fire. *)
HoldsEnd == \A d \in DataPlanes : WF_vars(HoldTimesOut(d))

-----------------------------------------------------------------------------
(* What is coming to a poll that is about to be held, or is: a notification it   *)
(* has not looked at, one on its way to the listener, or a listener without a     *)
(* connection, whose next one counts as a change.                                 *)
WakeUpComing(d) == seen[d] # changes \/ queue > 0 \/ conn # "listening"

(* No announced change is slept through.  A held poll that read its snapshot      *)
(* before some write's notification has a wake-up coming, wherever between the    *)
(* mark of the receiver, the snapshot and the wait that write committed; so has   *)
(* one whose snapshot is not what is served, unless a rename or an expiry made    *)
(* the difference.                                                                *)
NoChangeSleptThrough ==
    \A d \in DataPlanes :
        /\ phase[d] = "held"
        /\ at[d] # notices \/ (announced /\ snap[d] # config)
        => WakeUpComing(d)

(* What config_api.rs says of a held poll, "held until that changes", and         *)
(* migrations/0013 of its notification: once what is served is not what the poll  *)
(* read, a wake-up is coming.  Renaming a workspace breaks it: it changes what is *)
(* served and moves the version, but notifies nobody.                             *)
HeldUntilChange ==
    \A d \in DataPlanes : phase[d] = "held" /\ snap[d] # config => WakeUpComing(d)

(* A data plane is never sent a configuration it cannot read, also when the  *)
(* configuration changed while its poll was held.                            *)
NeverSentUnreadable ==
    \A d \in DataPlanes : have[d] # NoConfig => Needs[have[d]] \subseteq Reads[d]

-----------------------------------------------------------------------------
(* The inductive strengthening: the promise NoChangeSleptThrough makes already *)
(* holds from the moment the snapshot is read, a snapshot read since the last   *)
(* notification is current unless something changed unannounced, and needs     *)
(* belong to a snapshot.                                                       *)
ReceiverBehind == \A d \in DataPlanes : seen[d] <= changes /\ at[d] <= notices

WillBeWoken ==
    \A d \in DataPlanes :
        phase[d] \in {"recording", "held"} /\ at[d] # notices => WakeUpComing(d)

SnapshotCurrent ==
    \A d \in DataPlanes :
        phase[d] \in {"recording", "held"} /\ at[d] = notices /\ announced =>
            snap[d] = config

NeedsOfSnapshot ==
    \A d \in DataPlanes : phase[d] \in {"recording", "held", "answering"} =>
        snap[d] \in Configs /\ needs[d] = Needs[snap[d]]

FeedInv ==
    /\ TypeOK
    /\ ReceiverBehind
    /\ WillBeWoken
    /\ SnapshotCurrent
    /\ NeedsOfSnapshot
    /\ NeverSentUnreadable

-----------------------------------------------------------------------------
(* Once changes stop, every data plane that can read what is served ends up      *)
(* holding it.  When the last change was announced that takes no end of a hold:   *)
(* losing notifications with the connection, or polls, only delays it.  After a   *)
(* rename or an expiry, which nobody is told of, it takes the end of a hold,      *)
(* the polling interval the code gives as the bound.                              *)
Holds(d) == Needs[config] \subseteq Reads[d] => have[d] = config

Delivered ==
    /\ \A d \in DataPlanes : <>[](announced => Holds(d))
    /\ HoldsEnd => \A d \in DataPlanes : <>[]Holds(d)

(* What the console compares to say "in sync" catches up, although a record  *)
(* of a call may be lost, as long as holds end.                              *)
SeenInSync ==
    HoldsEnd => \A d \in DataPlanes :
        <>[](Needs[config] \subseteq Reads[d] => lastSeen[d].tag = config)
=============================================================================
