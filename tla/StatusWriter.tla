---------------------------- MODULE StatusWriter ----------------------------
(***************************************************************************)
(* The status writer of the Kubernetes source (source/kubernetes/status.rs *)
(* and the channel Reload sends on), over the source that feeds it: while  *)
(* this replica leads, the status the last translation computed is patched *)
(* onto the objects.                                                       *)
(*                                                                         *)
(* A status is a function of the translation; here an object's status is   *)
(* its document, so a status is current exactly when it is of the document *)
(* the object has.  live is external: what the API server holds.  Who      *)
(* leads is decided in LeaderElection; here leadership comes and goes, and *)
(* patches of other replicas that led, or of people, land at any time.     *)
(***************************************************************************)
EXTENDS KubeSource

CONSTANTS StatusKinds,   \* kinds whose objects get a status (GatewayClass, Gateway, HTTPRoute)
          ForgetEvery,   \* ticks after which written is forgotten (120)
          Jobs           \* writes in flight at once (8)

ASSUME StatusWriterAssumption ==
    StatusKinds \subseteq Kinds \ Optional /\ ForgetEvery \in Nat \ {0} /\ Jobs \in Nat \ {0}

VARIABLES live,       \* target -> the status it has, or Absent      (API server)
          leader,     \* the leadership channel's value
          led,        \* the leadership channel has a value the writer has not seen
          latest,     \* the status channel's value: target -> status to write, or Absent
          news,       \* the status channel has a value the writer has not seen
          ticks,      \* ticks of the timer since written was forgotten
          written,    \* target -> the status patched last, or Absent
          job,        \* target -> where its write is
          read_only   \* the run has neither election nor writer

writerVars == <<live, leader, led, latest, news, ticks, written, job, read_only>>
ownVars == <<led, latest, news, ticks, written, job, read_only>>
statusVars == <<sourceVars, writerVars>>

Targets == {o \in Objects : KindOf[o] \in StatusKinds}

NoStatus == [t \in Targets |-> Absent]

Idle == [at |-> "none", status |-> Absent]

NoJobs == [t \in Targets |-> Idle]

flushing == \E t \in Targets : job[t].at # "none"

\* What a translation of these contents says of every target.
status_of(contents) == [t \in Targets |-> contents[KindOf[t]][t]]

-----------------------------------------------------------------------------
(* run and flush.  Up to the jobs a pass has no await: it is one step. *)

Flush(forgotten) ==
    LET kept == [t \in Targets |-> IF latest[t] = Absent THEN Absent ELSE forgotten[t]]
    IN  /\ news' = FALSE
        /\ IF leader
           THEN /\ written' = kept
                /\ job' = [t \in Targets |-> IF latest[t] # kept[t]
                                             THEN [at |-> "todo", status |-> latest[t]] ELSE Idle]
           ELSE written' = NoStatus /\ UNCHANGED job
        /\ UNCHANGED <<sourceVars, live, leader, latest, read_only>>

Running == phase # "down" /\ ~read_only /\ ~flushing

OnLatest == Running /\ news /\ Flush(written) /\ UNCHANGED <<led, ticks>>

\* Mutant of OnTick: what was written is believed for ever.
TickKeeping ==
    /\ Running
    /\ ticks' = (ticks + 1) % ForgetEvery
    /\ Flush(written)
    /\ UNCHANGED led

OnTick ==
    /\ Running
    /\ ticks' = (ticks + 1) % ForgetEvery
    /\ Flush(IF ticks' = 0 THEN NoStatus ELSE written)
    /\ UNCHANGED led

OnLeadership == Running /\ led /\ led' = FALSE /\ Flush(NoStatus) /\ UNCHANGED ticks

-----------------------------------------------------------------------------
(* write_one *)

inFlight == Cardinality({t \in Targets : job[t].at \in {"got", "sent"}})

Step(t, at) == job' = [job EXCEPT ![t].at = at] /\ UNCHANGED <<leader, led, latest, news, ticks, written, read_only>>

Exists(t) == Now(KindOf[t])[t] # Absent

\* Not leader any more, or the object is gone: nothing is written, and nothing remembered.
Skip(t) ==
    /\ \/ job[t].at \in {"todo", "got"} /\ ~leader
       \/ job[t].at = "todo" /\ leader /\ ~Exists(t)
    /\ Step(t, "skipped")
    /\ UNCHANGED <<sourceVars, live>>

Get(t) ==
    /\ job[t].at = "todo"
    /\ leader /\ inFlight < Jobs
    /\ Exists(t)
    /\ Step(t, "got")
    /\ UNCHANGED <<sourceVars, live>>

\* The object cannot be read: the write is tried again at a later pass.
GetFails(t) ==
    /\ job[t].at = "todo"
    /\ leader /\ inFlight < Jobs
    /\ budget.patches > 0
    /\ budget' = [budget EXCEPT !.patches = @ - 1]
    /\ Step(t, "skipped")
    /\ UNCHANGED <<live, api, stream, channel, phase, watched, state, dirty, store>>

\* The second check of leadership, right before the patch goes out.
Patch(t) ==
    /\ job[t].at = "got"
    /\ leader
    /\ Step(t, "sent")
    /\ UNCHANGED <<sourceVars, live>>

\* A patch that says what is there changes nothing: stamp keeps the transition times.
Landed(t, status) ==
    /\ live' = [live EXCEPT ![t] = status]
    /\ IF live[t] = status THEN UNCHANGED sourceVars
                           ELSE StatusChanges(KindOf[t]) /\ UNCHANGED budget

PatchLands(t) ==
    /\ job[t].at = "sent"
    /\ Exists(t)
    /\ Landed(t, job[t].status)
    /\ Step(t, "done")

\* The patch is refused, or the answer to one that landed is lost.
PatchFails(t) ==
    /\ job[t].at = "sent"
    /\ \/ ~Exists(t) /\ UNCHANGED <<sourceVars, live>>
       \/ /\ budget.patches > 0
          /\ budget' = [budget EXCEPT !.patches = @ - 1]
          /\ \/ /\ UNCHANGED <<live, api, stream, channel, phase, watched>>
                /\ UNCHANGED <<state, dirty, store>>
             \/ /\ Exists(t) /\ live[t] # job[t].status
                /\ live' = [live EXCEPT ![t] = job[t].status]
                /\ StatusChanges(KindOf[t])
    /\ Step(t, "skipped")

\* Every job of the pass ended: what was written is remembered.
FlushEnds ==
    /\ flushing
    /\ \A t \in Targets : job[t].at \in {"none", "skipped", "done"}
    /\ written' = [t \in Targets |-> IF job[t].at = "done" THEN job[t].status ELSE written[t]]
    /\ job' = NoJobs
    /\ UNCHANGED <<sourceVars, live, leader, led, latest, news, ticks, read_only>>

-----------------------------------------------------------------------------
(* Around the writer *)

\* The election gives or takes the lead.
LeadChanges ==
    /\ phase # "down" /\ ~read_only
    /\ budget.flips > 0
    /\ budget' = [budget EXCEPT !.flips = @ - 1]
    /\ leader' = ~leader
    /\ led' = TRUE
    /\ UNCHANGED <<api, stream, channel, phase, watched, state, dirty, store>>
    /\ UNCHANGED <<live, latest, news, ticks, written, job, read_only>>

\* A patch of a replica that led when it sent it, or of a person, with any status or none.
OthersPatch(t, status) ==
    /\ budget.others > 0
    /\ budget' = [budget EXCEPT !.others = @ - 1]
    /\ Exists(t) /\ live[t] # status
    /\ live' = [live EXCEPT ![t] = status]
    /\ StatusChanges(KindOf[t])
    /\ UNCHANGED <<leader, ownVars>>

\* An object that is deleted takes its status along.
ObjectHappens(o, doc) ==
    /\ Happen(o, doc)
    /\ live' = [t \in Targets |-> IF t = o /\ doc = Absent THEN Absent ELSE live[t]]
    /\ UNCHANGED <<leader, ownVars>>

\* A reload that swapped sends its status to the writer.
ReloadSends ==
    /\ Reload
    /\ IF ~read_only /\ dirty /\ synced_all /\ translates THEN latest' = status_of(snapshot) /\ news' = TRUE
                                                          ELSE UNCHANGED <<latest, news>>
    /\ UNCHANGED <<live, leader, led, ticks, written, job, read_only>>

\* The writer and the election stop and start with the run.
WriterAnew ==
    /\ leader' = FALSE /\ led' = FALSE
    /\ latest' = NoStatus /\ news' = FALSE
    /\ ticks' = 0 /\ written' = NoStatus
    /\ job' = NoJobs
    /\ UNCHANGED <<live, read_only>>

WriterInit(statuses, readonly) ==
    /\ live = statuses
    /\ read_only = readonly
    /\ leader = FALSE /\ led = FALSE
    /\ latest = NoStatus /\ news = FALSE
    /\ ticks = 0 /\ written = NoStatus
    /\ job = NoJobs

-----------------------------------------------------------------------------

Alone(step) == step /\ UNCHANGED writerVars

Run == \/ Alone(Receive) \/ ReloadSends
       \/ (Discover \/ KindAppears) /\ WriterAnew

Write(t) == Skip(t) \/ Get(t) \/ GetFails(t) \/ Patch(t) \/ PatchLands(t) \/ PatchFails(t)

Others ==
    \/ \E o \in Objects : \E doc \in budget.docs : ObjectHappens(o, doc)
    \/ \E k \in Kinds : Alone(Install(k)) \/ Alone(Permit(k)) \/ Alone(StreamBreaks(k))
    \/ TaskEnds /\ WriterAnew
    \/ LeadChanges
    \/ \E t \in Targets : \E status \in Docs \cup {Absent} : OthersPatch(t, status)

Next ==
    \/ Run
    \/ \E k \in Kinds : Alone(WatcherStep(k))
    \/ OnLatest \/ OnTick \/ OnLeadership \/ FlushEnds
    \/ \E t \in Targets : Write(t)
    \/ Others

\* Any contents, statuses and bounds to start from.
Bounds == [writes : Nat, docs : SUBSET (Docs \cup {Absent}), faults : Nat, patches : Nat, flips : Nat,
           others : Nat]

StatusInit ==
    /\ budget \in Bounds
    /\ \E start \in Starts : SourceInit(start[1], start[2], budget)
    /\ \E statuses \in [Targets -> Docs \cup {Absent}], readonly \in BOOLEAN : WriterInit(statuses, readonly)

StatusSpec == StatusInit /\ [][Next]_statusVars

\* The tasks run and the timer ticks; the API server answers.  Nothing else is hurried: not the
\* writes of others, not the election, not failures.
Fairness ==
    /\ WF_statusVars(Run)
    /\ \A k \in Kinds : WF_statusVars(Alone(WatcherStep(k)))
    /\ WF_statusVars(OnLatest \/ OnTick \/ OnLeadership \/ FlushEnds)
    /\ \A t \in Targets : WF_statusVars(Write(t))

-----------------------------------------------------------------------------
(* Properties *)

Feed == INSTANCE ClusterFeed WITH history <- history, served <- served, servedAt <- servedAt,
                                 addresses <- addresses

\* The source implements ClusterFeed (reconcile.rs apply, mod.rs run): whatever lists fail half way
\* and are begun again, whatever kinds are relisted or watched anew after a restart, what is
\* translated is for every kind contents the API server had, never older than what was served, and
\* the published addresses go with them.
FollowsCluster == Feed!FeedSpec

\* Once the API server stops changing its contents are served, unless the translator panics on them
\* or a kind that is served may not be listed: the first list of the last kind, a relist, an object
\* dropped for its schema all wake the loop.
ContentsServed ==
    <>[](\/ ~(Kinds \ Optional \subseteq installed) \/ ~(installed \subseteq listable)
         \/ \E o \in Objects : Now(KindOf[o])[o] \in Poison
         \/ served = [k \in Kinds |-> Feed!Accepted(Now(k))])

\* A replica that goes on leading gets the status of its last translation onto every object, whatever
\* other replicas' late patches put there before, and with every failed patch retried (status.rs run,
\* flush, write_one).
StatusSettles ==
    <>[](leader => \A t \in Targets : latest[t] # Absent /\ Exists(t) => live[t] = latest[t])
=============================================================================
