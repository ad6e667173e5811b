--------------------------- MODULE DataPlaneProofs ---------------------------
(***************************************************************************)
(* Proofs about three parts of the data plane.                             *)
(*                                                                         *)
(* ExportQueue, for any number of threads and any bounds: no telemetry is  *)
(* lost without being counted.                                             *)
(*                                                                         *)
(* ControlSource, for any configurations, key sources, documents and       *)
(* hosts: what a restart finds on disk, which keys and endpoints are       *)
(* served through failures, and how many lookups may be under way.         *)
(*                                                                         *)
(* LeaderElection, for any number of replicas, any lease and renewal       *)
(* periods that satisfy LeaseAssumption and any bounds: IndInv is          *)
(* inductive, so there is never more than one leader.                      *)
(***************************************************************************)
EXTENDS ExportQueue, ControlSource, LeaderElection, TLAPS

-----------------------------------------------------------------------------
(* The export queues. *)

CountsTyped ==
    /\ items \in Seq(Nat)
    /\ batch \in Nat /\ pushed \in Nat
    /\ delivered \in Nat /\ queueFull \in Nat /\ sendFailed \in Nat

(* What Conserved needs: a batch is counted only while it is delivered. *)
ConservedInv ==
    /\ CountsTyped
    /\ worker \notin {"posting", "retrying"} => batch = 0
    /\ Conserved

(* Initially nothing was pushed. *)
LEMMA ConservedInit == Init => ConservedInv
  BY DEF Init, ConservedInv, CountsTyped, Conserved

(* What is left of a queue without its k oldest entries. *)
LEMMA RestLength ==
  ASSUME NEW s \in Seq(Nat), NEW k \in 0..Len(s)
  PROVE  SubSeq(s, k + 1, Len(s)) \in Seq(Nat) /\ Len(SubSeq(s, k + 1, Len(s))) = Len(s) - k
  BY SMT

(* The same with the entry pushed. *)
LEMMA PushLength ==
  ASSUME NEW s \in Seq(Nat), NEW w \in Nat, NEW k \in 0..Len(s)
  PROVE  /\ Append(SubSeq(s, k + 1, Len(s)), w) \in Seq(Nat)
         /\ Len(Append(SubSeq(s, k + 1, Len(s)), w)) = Len(s) - k + 1
  BY RestLength

(* Every step moves records between the terms of the sum. *)
LEMMA ConservedStep == ConservedInv /\ [Next]_vars => ConservedInv'
<1> SUFFICES ASSUME ConservedInv, [Next]_vars PROVE ConservedInv'
  OBVIOUS
<1> USE DEF ConservedInv, CountsTyped, Conserved
<1>1. ASSUME NEW t \in Threads, NEW w \in Weights, PushOversized(t, w) PROVE ConservedInv'
  BY <1>1 DEF PushOversized, queue
<1>2. ASSUME NEW t \in Threads, NEW w \in Weights, Push(t, w) PROVE ConservedInv'
  <2>1. PICK k \in 0..Len(items) :
          /\ items' = Append(SubSeq(items, k + 1, Len(items)), w)
          /\ queueFull' = queueFull + k
    BY <1>2 DEF Push
  <2>2. w \in Nat  BY QueueAssumption
  <2>3. items' \in Seq(Nat) /\ Len(items') = Len(items) - k + 1
    BY <2>1, <2>2, PushLength
  <2>4. /\ pushed' = pushed + 1
        /\ UNCHANGED <<worker, batch, delivered, sendFailed>>
    BY <1>2 DEF Push
  <2>5. Len(items) \in Nat /\ k \in Nat  OBVIOUS
  <2>6. CountsTyped'  BY <2>1, <2>3, <2>4, <2>5
  <2>7. Conserved'
    <3>1. Len(items') = Len(items) - k + 1 /\ queueFull' = queueFull + k  BY <2>1, <2>3
    <3> QED  BY <3>1, <2>4, <2>5, SMT
  <2> QED  BY <2>4, <2>6, <2>7
<1>3. ASSUME NEW t \in Threads, NotifyOne(t) PROVE ConservedInv'
  BY <1>3 DEF NotifyOne, queue, counters
<1>4. CASE Take
  <2> DEFINE n == IF Len(items) < MaxBatch THEN Len(items) ELSE MaxBatch
  <2>1. n \in 0..Len(items)  BY QueueAssumption
  <2>2. items' = SubSeq(items, n + 1, Len(items)) /\ batch' = n  BY <1>4 DEF Take
  <2>3. items' \in Seq(Nat) /\ Len(items') = Len(items) - n  BY <2>1, <2>2, RestLength
  <2>4. worker' = "posting" /\ batch = 0 /\ UNCHANGED counters  BY <1>4 DEF Take
  <2> HIDE DEF n
  <2>5. n \in Nat /\ Len(items) \in Nat  BY <2>1
  <2> QED  BY <2>2, <2>3, <2>4, <2>5 DEF counters
<1>5. CASE PostOk
  BY <1>5 DEF PostOk, queue
<1>6. CASE PostFailsForGood
  BY <1>6 DEF PostFailsForGood, queue
<1>7. CASE PostFails \/ Resend \/ Tick
  BY <1>7 DEF PostFails, Resend, Tick, queue, counters
<1>8. CASE Top \/ Notified \/ StopWakes \/ Fill \/ CoalesceEnds
  BY <1>8 DEF Top, Notified, StopWakes, Fill, CoalesceEnds, queue, counters
<1>9. CASE Shutdown
  BY <1>9 DEF Shutdown, queue, counters
<1>10. CASE UNCHANGED vars
  BY <1>10 DEF vars, queue, counters
<1> QED
  BY <1>1, <1>2, <1>3, <1>4, <1>5, <1>6, <1>7, <1>8, <1>9, <1>10 DEF Next, WorkerStep

(* No record is lost uncounted, whatever the bounds, the threads and the     *)
(* sends that fail.                                                          *)
THEOREM EveryRecordCounted == Spec => []Conserved
<1>1. ConservedInv => Conserved  BY DEF ConservedInv
<1> QED  BY <1>1, ConservedInit, ConservedStep, PTL DEF Spec

-----------------------------------------------------------------------------
(* NoLostWakeup is inductive as it stands: a queue fills only through a push, *)
(* and a push that makes it non-empty, or a batch full, notifies.             *)
WakeupInv == items \in Seq(Nat) /\ NoLostWakeup

(* A worker waits, at first, with an empty queue. *)
LEMMA WakeupInit == Init => WakeupInv
  BY DEF Init, WakeupInv, NoLostWakeup

(* No step leaves a waiting worker behind. *)
LEMMA WakeupStep == WakeupInv /\ [Next]_vars => WakeupInv'
<1> SUFFICES ASSUME WakeupInv, [Next]_vars PROVE WakeupInv'
  OBVIOUS
<1> USE DEF WakeupInv, NoLostWakeup
<1>1. ASSUME NEW t \in Threads, NEW w \in Weights, PushOversized(t, w) PROVE WakeupInv'
  BY <1>1 DEF PushOversized, queue
<1>2. ASSUME NEW t \in Threads, NEW w \in Weights, Push(t, w) PROVE WakeupInv'
  <2>1. PICK k \in 0..Len(items) : items' = Append(SubSeq(items, k + 1, Len(items)), w)
    BY <1>2 DEF Push
  <2>2. w \in Nat  BY QueueAssumption
  <2>3. items' \in Seq(Nat) /\ Len(items') = Len(items) - k + 1
    BY <2>1, <2>2, PushLength
  <2>4. /\ worker' = worker /\ permit' = permit
        /\ notifying' = IF Len(items') = 1 \/ Len(items') = MaxBatch
                        THEN notifying \union {t} ELSE notifying
    BY <1>2 DEF Push, Notifies
  <2>5. CASE Len(items') = 1 \/ Len(items') = MaxBatch
    <3>1. notifying' # {}  BY <2>4, <2>5
    <3> QED  BY <3>1, <2>3
  <2>6. CASE ~(Len(items') = 1 \/ Len(items') = MaxBatch)
    <3>1. notifying' = notifying  BY <2>4, <2>6
    <3>2. Len(items) # 0  BY <2>3, <2>6
    <3>3. items # <<>>  BY <3>2
    <3>4. Len(items) < MaxBatch => Len(items') < MaxBatch
      BY <2>3, <2>6, QueueAssumption
    <3> QED  BY <3>1, <3>3, <3>4, <2>3, <2>4
  <2> QED  BY <2>5, <2>6
<1>3. ASSUME NEW t \in Threads, NotifyOne(t) PROVE WakeupInv'
  BY <1>3 DEF NotifyOne, queue
<1>4. CASE Take
  <2> DEFINE n == IF Len(items) < MaxBatch THEN Len(items) ELSE MaxBatch
  <2>1. n \in 0..Len(items)  BY QueueAssumption
  <2>2. items' = SubSeq(items, n + 1, Len(items)) /\ worker' = "posting"  BY <1>4 DEF Take
  <2>3. items' \in Seq(Nat)  BY <2>1, <2>2, RestLength
  <2> QED  BY <2>2, <2>3
<1>5. CASE PostOk \/ PostFailsForGood \/ PostFails \/ Resend \/ Tick
  BY <1>5 DEF PostOk, PostFailsForGood, PostFails, Resend, Tick, queue
<1>6. CASE Top \/ Notified \/ StopWakes \/ CoalesceEnds
  BY <1>6 DEF Top, Notified, StopWakes, CoalesceEnds, queue
<1>7. CASE Fill
  BY <1>7 DEF Fill, queue
<1>8. CASE Shutdown \/ UNCHANGED vars
  BY <1>8 DEF Shutdown, vars, queue
<1> QED
  BY <1>1, <1>2, <1>3, <1>4, <1>5, <1>6, <1>7, <1>8 DEF Next, WorkerStep

(* The worker never sleeps on a queue it should be draining, for any number  *)
(* of threads between their lock and their notify.                           *)
THEOREM WorkerWoken == Spec => []NoLostWakeup
<1>1. WakeupInv => NoLostWakeup  BY DEF WakeupInv
<1> QED  BY <1>1, WakeupInit, WakeupStep, PTL DEF Spec

-----------------------------------------------------------------------------
(* The clock of a batch: a wait ends within the budget it was cut to, and a  *)
(* send begins within it.  After shutdown a send either began in the short   *)
(* budget or had spent none of the grace period when it began or when the    *)
(* shutdown came.                                                            *)
ClockInv ==
    /\ timer \in Nat /\ elapsed \in Nat /\ grace \in Nat /\ delay \in Nat
    /\ stopping \in BOOLEAN /\ stopSeen \in BOOLEAN
    /\ stopSeen => stopping
    /\ grace <= elapsed
    /\ ~stopping /\ worker \in {"posting", "retrying"} => grace = 0
    /\ worker = "retrying" => elapsed + timer <= MaxRetryTime
    /\ worker = "retrying" /\ stopSeen => elapsed + timer <= StoppingRetryTime
    /\ worker = "retrying" /\ ~stopSeen => grace = 0
    /\ worker = "posting" =>
         /\ timer <= SendTimeout
         /\ elapsed + timer <= MaxRetryTime + SendTimeout
         /\ \/ grace + timer <= SendTimeout
            \/ elapsed + timer <= StoppingRetryTime + SendTimeout

(* No batch is being delivered at first. *)
LEMMA ClockInit == Init => ClockInv
<1> SUFFICES ASSUME Init PROVE ClockInv
  OBVIOUS
<1>1. stopping \in BOOLEAN /\ stopSeen \in BOOLEAN /\ (stopSeen => stopping)
  BY Zenon DEF Init
<1>2. worker = "top" /\ timer = 0 /\ elapsed = 0 /\ grace = 0 /\ delay = 0
  BY DEF Init
<1> QED  BY <1>1, <1>2 DEF ClockInv

(* Every step keeps the clock within its bounds. *)
LEMMA ClockStep == ClockInv /\ [Next]_vars => ClockInv'
<1> SUFFICES ASSUME ClockInv, [Next]_vars PROVE ClockInv'
  OBVIOUS
<1> USE QueueAssumption DEF ClockInv
<1>1. ASSUME NEW t \in Threads, NEW w \in Weights, PushOversized(t, w) \/ Push(t, w)
      PROVE ClockInv'
  BY <1>1 DEF PushOversized, Push, clock
<1>2. ASSUME NEW t \in Threads, NotifyOne(t) PROVE ClockInv'
  BY <1>2 DEF NotifyOne, clock
<1>3. CASE Take
  BY <1>3 DEF Take
<1>4. CASE Top \/ Notified \/ StopWakes \/ Fill \/ CoalesceEnds
  BY <1>4 DEF Top, Notified, StopWakes, Fill, CoalesceEnds, clock
<1>5. CASE PostOk \/ PostFailsForGood
  BY <1>5 DEF PostOk, PostFailsForGood, clock
<1>6. CASE PostFails
  BY <1>6 DEF PostFails, Budget
<1>7. CASE Resend
  BY <1>7 DEF Resend, WaitCut
<1>8. CASE Tick
  BY <1>8 DEF Tick, WaitCut
<1>9. CASE Shutdown
  <2>1. stopping' \in BOOLEAN /\ (stopSeen' => stopping') /\ stopping'
    BY <1>9, Zenon DEF Shutdown
  <2>2. ~stopping /\ ~stopSeen /\ UNCHANGED <<worker, stopSeen, clock>>
    BY <1>9 DEF Shutdown
  <2> QED  BY <2>1, <2>2 DEF clock
<1>10. CASE UNCHANGED vars
  BY <1>10 DEF vars, clock
<1> QED
  BY <1>1, <1>2, <1>3, <1>4, <1>5, <1>6, <1>7, <1>8, <1>9, <1>10 DEF Next, WorkerStep

(* A batch's last send begins when its budget is up, for every delay,        *)
(* budget and timeout.                                                       *)
THEOREM LastSendInBudget == Spec => []SendsInBudget
<1>1. ClockInv => SendsInBudget  BY DEF ClockInv, SendsInBudget
<1> QED  BY <1>1, ClockInit, ClockStep, PTL DEF Spec

(* One dead collector costs the grace period at most the short budget and a  *)
(* send for each batch.                                                      *)
THEOREM GraceBounded == Spec => []ShutdownBounded
<1>1. ClockInv => ShutdownBounded
  BY QueueAssumption DEF ClockInv, ShutdownBounded
<1> QED  BY <1>1, ClockInit, ClockStep, PTL DEF Spec

-----------------------------------------------------------------------------
(* The control source. *)

(* Only the source the configuration names has a state, but for the moment between a *)
(* poll that changed the configuration and the refresh that follows it.              *)
OwnKeys ==
    /\ \A s \in Sources : keys[s].named \/ keys[s] = Forgotten
    /\ stage # "refreshing" \/ ~changed =>
         \A s \in Sources : latest = NoConfig \/ s # SourceOf[latest] => keys[s] = Forgotten

(* A process serves nothing before it swaps, and between two ticks it serves what it holds. *)
ServesHeld ==
    /\ latest = NoConfig => stage \in {"down", "polling", "sleeping"}
    /\ stage \in {"down", "priming"} => served = NotServing
    /\ stage \in {"polling", "sleeping"} /\ served # NotServing =>
         latest # NoConfig /\ served.config = latest
    /\ stage \in {"down", "priming", "polling"} => ~changed

(* The file holds the configuration held and its documents. *)
DiskCurrent ==
    /\ disk # NoCache /\ disk.config = latest
    /\ \A s \in Sources : disk.docs[s] = keys[s].doc

(* The file is current from its write to the poll that brings something else or the  *)
(* fetch that brings a document, which the same tick writes.                         *)
DiskFollows ==
    /\ disk # NoCache =>
         disk.config \in Readable
         /\ \A s \in Sources : s # SourceOf[disk.config] => disk.docs[s] = NoDoc
    /\ stage = "priming" => DiskCurrent
    /\ \/ latest = NoConfig \/ cacheFailed \/ stage = "caching"
       \/ stage \in {"refreshing", "fetching"} /\ changed
       \/ DiskCurrent

(* The document served is still held where the configuration goes on naming its source. *)
DocHeld ==
    (/\ served # NotServing /\ served.doc # NoDoc /\ SourceOf[served.config] # NoSource
     /\ stage = "refreshing" \/ SourceOf[latest] = SourceOf[served.config])
        => keys[SourceOf[served.config]].doc # NoDoc

(* A lookup that is waited for runs, and every other one had its handle dropped. *)
LookupsCounted ==
    \A h \in Hosts : IF Attached(h) THEN calls[h] \in 1..1 + dropped[h] ELSE calls[h] <= dropped[h]

SourceInv ==
    SourceTypeOK /\ OwnKeys /\ ServesHeld /\ DiskFollows /\ DocHeld /\ LookupsCounted /\ EndpointsOfOwnHost


(* A source nothing names, a new one and a seeded one are key states. *)
LEMMA FreshStates ==
  /\ Forgotten \in KeyState /\ ~Forgotten.named /\ Forgotten.doc = NoDoc
  /\ ~Forgotten.task /\ ~Forgotten.asked
  /\ NewState \in KeyState /\ NewState.named /\ NewState.doc = NoDoc
  /\ \A d \in MaybeDoc : /\ [NewState EXCEPT !.doc = d] \in KeyState
                         /\ [NewState EXCEPT !.doc = d].named
                         /\ [NewState EXCEPT !.doc = d].doc = d
  BY DEF Forgotten, NewState, KeyState, MaybeDoc

(* What a refresh makes of a source the configuration goes on naming: its document stays. *)
LEMMA BegunKeeps ==
  ASSUME SourceTypeOK, OwnKeys, NEW s \in Sources
  PROVE  /\ Begun(s) \in KeyState
         /\ s # SourceOf[latest] => Begun(s) = Forgotten
         /\ s = SourceOf[latest] => Begun(s).named /\ Begun(s).doc = keys[s].doc
<1>1. keys[s] \in KeyState /\ (keys[s].named \/ keys[s] = Forgotten) /\ kidMiss \in BOOLEAN
  BY DEF SourceTypeOK, OwnKeys
<1>2. PICK state : state = IF keys[s].named THEN keys[s] ELSE NewState
  OBVIOUS
<1>3. state \in KeyState /\ state.named /\ state.doc = keys[s].doc
  BY <1>1, <1>2, FreshStates
<1>4. PICK asked : asked = (kidMiss /\ ~state.asked)
  OBVIOUS
<1>5. asked \in BOOLEAN /\ state.asked \in BOOLEAN /\ state.due \in BOOLEAN
  BY <1>1, <1>3, <1>4 DEF KeyState
<1>6. Begun(s) = IF s # SourceOf[latest] THEN Forgotten
                 ELSE IF state.task THEN state
                 ELSE [state EXCEPT !.asked = state.asked \/ asked, !.task = asked \/ state.due]
  BY <1>2, <1>4 DEF Begun
<1>7. (state.asked \/ asked) \in BOOLEAN /\ (asked \/ state.due) \in BOOLEAN
  BY <1>5
<1>8. /\ [state EXCEPT !.asked = state.asked \/ asked, !.task = asked \/ state.due] \in KeyState
      /\ [state EXCEPT !.asked = state.asked \/ asked, !.task = asked \/ state.due].named = state.named
      /\ [state EXCEPT !.asked = state.asked \/ asked, !.task = asked \/ state.due].doc = state.doc
  <2> PICK p, q : p = (state.asked \/ asked) /\ q = (asked \/ state.due)  OBVIOUS
  <2>1. p \in BOOLEAN /\ q \in BOOLEAN  BY <1>7
  <2>2. /\ [state EXCEPT !.asked = p, !.task = q] \in KeyState
        /\ [state EXCEPT !.asked = p, !.task = q].named = state.named
        /\ [state EXCEPT !.asked = p, !.task = q].doc = state.doc
    BY <2>1, <1>3 DEF KeyState
  <2> QED  BY <2>2
<1> QED  BY <1>3, <1>6, <1>8, FreshStates


(* Which lookups run follows from which are waited for, whatever configuration they are begun for. *)
LEMMA LookupsBegin ==
  ASSUME NEW c \in Configs, NEW inf \in SUBSET Hosts,
         NEW n \in [Hosts -> Nat], NEW d \in [Hosts -> Nat],
         \A h \in Hosts : IF h \in inf THEN n[h] \in 1..1 + d[h] ELSE n[h] <= d[h],
         NEW m, m = [h \in Hosts |-> IF h \in LookedUp(c) \ inf THEN n[h] + 1 ELSE n[h]],
         NEW e, e = [h \in Hosts |-> IF h \in inf \ LookedUp(c) THEN d[h] + 1 ELSE d[h]]
  PROVE  /\ m \in [Hosts -> Nat] /\ e \in [Hosts -> Nat]
         /\ \A h \in Hosts : IF h \in LookedUp(c) THEN m[h] \in 1..1 + e[h] ELSE m[h] <= e[h]
<1>1. m \in [Hosts -> Nat] /\ e \in [Hosts -> Nat]  OBVIOUS
<1>2. ASSUME NEW h \in Hosts
      PROVE  IF h \in LookedUp(c) THEN m[h] \in 1..1 + e[h] ELSE m[h] <= e[h]
  BY SMT
<1> QED  BY <1>1, <1>2

(* Every step of the loop and of its environment preserves the invariant. *)
LEMMA SourceInvStep == SourceInv /\ [SourceNext]_sourceVars => SourceInv'
<1> SUFFICES ASSUME SourceInv, [SourceNext]_sourceVars PROVE SourceInv'
  OBVIOUS
<1> USE SourceAssumption
    DEF SourceInv, SourceTypeOK, OwnKeys, ServesHeld, DiskFollows, DiskCurrent, DocHeld,
        LookupsCounted, EndpointsOfOwnHost, names, store, history, bounds, MaybeDoc, KeyState,
        Forgotten, NewState, Cached, Runtime, LookedUp, Attached, AfterPoll
<1>1. ASSUME NEW c \in Configs, ServesAnother(c) PROVE SourceInv'
  BY <1>1 DEF ServesAnother
<1>2. ASSUME NEW s \in Sources, FetchDue(s) PROVE SourceInv'
  <2>1. keys' = [t \in Sources |-> IF t = s THEN [keys[s] EXCEPT !.due = TRUE] ELSE keys[t]]
    BY <1>2 DEF FetchDue
  <2>2. keys[s] \in KeyState  OBVIOUS
  <2>3. [keys[s] EXCEPT !.due = TRUE] \in KeyState /\ [keys[s] EXCEPT !.due = TRUE].named = keys[s].named
        /\ [keys[s] EXCEPT !.due = TRUE].doc = keys[s].doc
    BY <2>2
  <2>4. keys' \in [Sources -> KeyState]  BY <2>1, <2>3
  <2>5. \A t \in Sources : keys'[t].named = keys[t].named /\ keys'[t].doc = keys[t].doc
    BY <2>1, <2>3
  <2>6. keys[s].named /\ keys[s] # Forgotten  BY <1>2, FreshStates DEF FetchDue
  <2>7. SourceTypeOK'  BY <1>2, <2>4 DEF FetchDue
  <2>8. OwnKeys'
    BY <1>2, <2>1, <2>5, <2>6 DEF FetchDue, OwnKeys
  <2>9. DiskFollows'  BY <1>2, <2>5 DEF FetchDue
  <2>10. DocHeld'  BY <1>2, <2>5 DEF FetchDue
  <2>11. ServesHeld' /\ LookupsCounted' /\ EndpointsOfOwnHost'  BY <1>2 DEF FetchDue
  <2> QED  BY <2>7, <2>8, <2>9, <2>10, <2>11
<1>3. ASSUME NEW s \in Sources, GapOver(s) PROVE SourceInv'
  <2>1. keys' = [t \in Sources |-> IF t = s THEN [keys[s] EXCEPT !.asked = FALSE] ELSE keys[t]]
    BY <1>3 DEF GapOver
  <2>2. keys[s] \in KeyState  OBVIOUS
  <2>3. [keys[s] EXCEPT !.asked = FALSE] \in KeyState /\ [keys[s] EXCEPT !.asked = FALSE].named = keys[s].named
        /\ [keys[s] EXCEPT !.asked = FALSE].doc = keys[s].doc
    BY <2>2
  <2>4. keys' \in [Sources -> KeyState]  BY <2>1, <2>3
  <2>5. \A t \in Sources : keys'[t].named = keys[t].named /\ keys'[t].doc = keys[t].doc
    BY <2>1, <2>3
  <2>6. keys[s].named /\ keys[s] # Forgotten  BY <1>3, FreshStates DEF GapOver, OwnKeys
  <2>7. SourceTypeOK'  BY <1>3, <2>4 DEF GapOver
  <2>8. OwnKeys'
    BY <1>3, <2>1, <2>5, <2>6 DEF GapOver, OwnKeys
  <2>9. DiskFollows'  BY <1>3, <2>5 DEF GapOver
  <2>10. DocHeld'  BY <1>3, <2>5 DEF GapOver
  <2>11. ServesHeld' /\ LookupsCounted' /\ EndpointsOfOwnHost'  BY <1>3 DEF GapOver
  <2> QED  BY <2>7, <2>8, <2>9, <2>10, <2>11
<1>4. ASSUME UnknownKid PROVE SourceInv'
  BY <1>4 DEF UnknownKid
<1>5. ASSUME NEW h \in Hosts, DetachedLookupEnds(h) PROVE SourceInv'
  BY <1>5 DEF DetachedLookupEnds
<1>6. ASSUME Stop PROVE SourceInv'
  <2>1. keys' \in [Sources -> KeyState]  BY <1>6, FreshStates DEF Stop
  <2>2. SourceTypeOK'  BY <1>6, <2>1 DEF Stop
  <2>3. OwnKeys' /\ ServesHeld' /\ DiskFollows' /\ DocHeld' /\ EndpointsOfOwnHost'  BY <1>6 DEF Stop
  <2>4. LookupsCounted'  BY <1>6 DEF Stop
  <2> QED  BY <2>2, <2>3, <2>4
<1>7. ASSUME StartEmpty PROVE SourceInv'
  BY <1>7 DEF StartEmpty
<1>8. ASSUME StartFromCache PROVE SourceInv'
  <2>1. disk \in Cached /\ disk.config \in Readable /\ disk.docs \in [Sources -> MaybeDoc]
    BY <1>8 DEF StartFromCache
  <2>2. \A t \in Sources : keys'[t] = IF disk.docs[t] # NoDoc THEN [NewState EXCEPT !.doc = disk.docs[t]]
                                      ELSE Forgotten
    BY <1>8 DEF StartFromCache
  <2>3. \A t \in Sources : keys'[t] \in KeyState /\ (keys'[t].named \/ keys'[t] = Forgotten)
                           /\ keys'[t].doc = disk.docs[t]
    <3> SUFFICES ASSUME NEW t \in Sources
                 PROVE  keys'[t] \in KeyState /\ (keys'[t].named \/ keys'[t] = Forgotten)
                        /\ keys'[t].doc = disk.docs[t]
      OBVIOUS
    <3>1. PICK d \in MaybeDoc : d = disk.docs[t]  BY <2>1
    <3>2. keys'[t] = IF d # NoDoc THEN [NewState EXCEPT !.doc = d] ELSE Forgotten  BY <2>2, <3>1
    <3>3. CASE d # NoDoc  BY <3>1, <3>2, <3>3, ZenonT(60)
    <3>4. CASE d = NoDoc  BY <3>1, <3>2, <3>4
    <3> QED  BY <3>3, <3>4
  <2>4. keys' \in [Sources -> KeyState]
    <3>1. keys' = [t \in Sources |-> keys'[t]]  BY <1>8 DEF StartFromCache
    <3> QED  BY <2>3, <3>1
  <2>5. \A h \in Hosts : IF h \in inFlight THEN calls[h] \in 1..1 + dropped[h] ELSE calls[h] <= dropped[h]
    BY <1>8 DEF StartFromCache
  <2>6. /\ calls' \in [Hosts -> Nat] /\ dropped' \in [Hosts -> Nat]
        /\ \A h \in Hosts : IF h \in LookedUp(disk.config) THEN calls'[h] \in 1..1 + dropped'[h]
                            ELSE calls'[h] <= dropped'[h]
    <3>1. PICK c \in Configs : c = disk.config  BY <2>1
    <3>2. /\ calls' = [h \in Hosts |-> IF h \in LookedUp(c) \ inFlight THEN calls[h] + 1 ELSE calls[h]]
          /\ dropped' = [h \in Hosts |-> IF h \in inFlight \ LookedUp(c) THEN dropped[h] + 1 ELSE dropped[h]]
      BY <1>8, <3>1 DEF StartFromCache, StartLookups
    <3>3. calls \in [Hosts -> Nat] /\ dropped \in [Hosts -> Nat] /\ inFlight \in SUBSET Hosts  OBVIOUS
    <3> HIDE DEF LookedUp, Attached, SourceInv
    <3> QED  BY <3>1, <3>2, <3>3, <2>5, LookupsBegin
  <2>7. inFlight' \subseteq LookedUp(disk.config) /\ inFlight' \in SUBSET Hosts
    BY <1>8 DEF StartFromCache, StartLookups
  <2>8. SourceTypeOK'  BY <1>8, <2>1, <2>4, <2>6, <2>7 DEF StartFromCache
  <2>9. LookupsCounted'  BY <1>8, <2>6, <2>7 DEF StartFromCache
  <2>10. OwnKeys' /\ DiskFollows'  BY <1>8, <2>1, <2>2, <2>3 DEF StartFromCache
  <2>11. ServesHeld' /\ DocHeld' /\ EndpointsOfOwnHost'  BY <1>8 DEF StartFromCache
  <2> QED  BY <2>8, <2>9, <2>10, <2>11
<1>9. ASSUME PrimeSwap PROVE SourceInv'
  <2>1. SourceTypeOK'  BY <1>9 DEF PrimeSwap, ResolveTo, LookupEnds, LookupKept, Filled, Kept
  <2>2. OwnKeys' /\ ServesHeld'  BY <1>9 DEF PrimeSwap, ResolveTo, LookupEnds, LookupKept, Filled, Kept
  <2>3. DiskFollows' /\ DocHeld'  BY <1>9 DEF PrimeSwap, ResolveTo, LookupEnds, LookupKept, Filled, Kept
  <2>4. LookupsCounted'  BY <1>9 DEF PrimeSwap, ResolveTo, LookupEnds, LookupKept, Filled, Kept
  <2>5. EndpointsOfOwnHost'  BY <1>9 DEF PrimeSwap, ResolveTo, LookupEnds, LookupKept, Filled, Kept
  <2> QED  BY <2>1, <2>2, <2>3, <2>4, <2>5
<1>10. ASSUME PollChanged PROVE SourceInv'
  BY <1>10 DEF PollChanged
<1>11. ASSUME PollUnchanged PROVE SourceInv'
  BY <1>11 DEF PollUnchanged
<1>12. ASSUME PollIncompatible PROVE SourceInv'
  BY <1>12 DEF PollIncompatible
<1>13. ASSUME PollFails PROVE SourceInv'
  BY <1>13 DEF PollFails
<1>14. ASSUME RefreshBegins PROVE SourceInv'
  <2>1. keys' = [t \in Sources |-> Begun(t)] /\ latest # NoConfig /\ latest' = latest
    BY <1>14 DEF RefreshBegins
  <2>2. \A t \in Sources : /\ keys'[t] \in KeyState
                           /\ t # SourceOf[latest] => keys'[t] = Forgotten
                           /\ t = SourceOf[latest] => keys'[t].named /\ keys'[t].doc = keys[t].doc
    BY <2>1, BegunKeeps
  <2>3. keys' \in [Sources -> KeyState]  BY <2>1, <2>2
  <2>4. SourceTypeOK'  BY <1>14, <2>3 DEF RefreshBegins
  <2>5. OwnKeys'  BY <2>1, <2>2
  <2>6. ~changed => \A t \in Sources : keys'[t].doc = keys[t].doc
    BY <1>14, <2>1, <2>2 DEF RefreshBegins
  <2>7. DiskFollows'  BY <1>14, <2>6 DEF RefreshBegins
  <2>8. served # NotServing => SourceOf[served.config] \in Sources \union {NoSource}  OBVIOUS
  <2>9. DocHeld'  BY <1>14, <2>2, <2>8 DEF RefreshBegins
  <2>10. ServesHeld' /\ LookupsCounted' /\ EndpointsOfOwnHost'  BY <1>14 DEF RefreshBegins
  <2> QED  BY <2>4, <2>5, <2>7, <2>9, <2>10
<1>15. ASSUME FetchNothing PROVE SourceInv'
  <2>1. SourceTypeOK'  BY <1>15 DEF FetchNothing, StartLookups
  <2>2. OwnKeys' /\ ServesHeld'  BY <1>15 DEF FetchNothing, StartLookups
  <2>3. DiskFollows' /\ DocHeld'  BY <1>15 DEF FetchNothing, StartLookups
  <2>4. LookupsCounted'  BY <1>15 DEF FetchNothing, StartLookups
  <2>5. EndpointsOfOwnHost'  BY <1>15 DEF FetchNothing, StartLookups
  <2> QED  BY <2>1, <2>2, <2>3, <2>4, <2>5
<1>16. ASSUME NEW s \in Sources, FetchOk(s) PROVE SourceInv'
  <2>1. PICK doc \in Docs : keys' = [keys EXCEPT ![s].task = FALSE, ![s].due = FALSE, ![s].doc = doc]
    BY <1>16 DEF FetchOk
  <2>2. PICK k : k = [keys[s] EXCEPT !.task = FALSE, !.due = FALSE, !.doc = doc]  OBVIOUS
  <2>3. keys[s] \in KeyState  OBVIOUS
  <2>4. k \in KeyState /\ k.named = keys[s].named /\ k.doc = doc  BY <2>2, <2>3
  <2>5. keys' = [t \in Sources |-> IF t = s THEN k ELSE keys[t]]  BY <2>1, <2>2
  <2>6. keys' \in [Sources -> KeyState]  BY <2>4, <2>5
  <2>7. keys[s].named /\ keys[s] # Forgotten  BY <1>16, FreshStates DEF FetchOk
  <2>8. latest # NoConfig /\ s = SourceOf[latest]  BY <1>16, <2>7 DEF FetchOk
  <2>9. SourceTypeOK'  BY <1>16, <2>6 DEF FetchOk
  <2>10. OwnKeys'  BY <1>16, <2>4, <2>5, <2>7, <2>8 DEF FetchOk
  <2>11. DocHeld'  BY <1>16, <2>4, <2>5 DEF FetchOk
  <2>12. ServesHeld' /\ DiskFollows' /\ LookupsCounted' /\ EndpointsOfOwnHost'  BY <1>16 DEF FetchOk
  <2> QED  BY <2>9, <2>10, <2>11, <2>12
<1>17. ASSUME NEW s \in Sources, FetchFails(s) PROVE SourceInv'
  <2>1. PICK k : k = [keys[s] EXCEPT !.task = FALSE, !.due = FALSE]  OBVIOUS
  <2>2. keys[s] \in KeyState  OBVIOUS
  <2>3. k \in KeyState /\ k.named = keys[s].named /\ k.doc = keys[s].doc  BY <2>1, <2>2
  <2>4. keys' = [t \in Sources |-> IF t = s THEN k ELSE keys[t]]  BY <1>17, <2>1 DEF FetchFails
  <2>5. keys' \in [Sources -> KeyState]  BY <2>3, <2>4
  <2>6. keys[s].named /\ keys[s] # Forgotten  BY <1>17, FreshStates DEF FetchFails
  <2>7. latest # NoConfig /\ s = SourceOf[latest]  BY <1>17, <2>6 DEF FetchFails
  <2>8. SourceTypeOK'  BY <1>17, <2>5 DEF FetchFails, StartLookups
  <2>9. OwnKeys'
    <3>1. \A t \in Sources : t # s => keys'[t] = Forgotten  BY <1>17, <2>4, <2>7 DEF FetchFails
    <3>2. keys'[s].named /\ latest' = latest  BY <1>17, <2>3, <2>4, <2>6 DEF FetchFails
    <3> QED  BY <3>1, <3>2, <2>7
  <2>10. \A t \in Sources : keys'[t].doc = keys[t].doc  BY <2>3, <2>4
  <2>11. DiskFollows' /\ DocHeld'  BY <1>17, <2>10 DEF FetchFails
  <2>12. ServesHeld' /\ EndpointsOfOwnHost'  BY <1>17 DEF FetchFails
  <2>13. LookupsCounted'  BY <1>17 DEF FetchFails, StartLookups
  <2> QED  BY <2>8, <2>9, <2>11, <2>12, <2>13
<1>18. ASSUME WriteCache PROVE SourceInv'
  <2>1. latest \in Readable /\ latest \in Configs  BY <1>18 DEF WriteCache
  <2>2. [s \in Sources |-> keys[s].doc] \in [Sources -> MaybeDoc]  OBVIOUS
  <2>3. disk' \in Cached /\ disk' # NoCache  BY <1>18, <2>1, <2>2 DEF WriteCache
  <2>4. calls' \in [Hosts -> Nat] /\ dropped' \in [Hosts -> Nat] /\ inFlight' \in SUBSET Hosts
    BY <1>18 DEF WriteCache, StartLookups
  <2>5. SourceTypeOK'  BY <1>18, <2>3, <2>4 DEF WriteCache
  <2>6. OwnKeys' /\ ServesHeld' /\ DocHeld' /\ EndpointsOfOwnHost'  BY <1>18 DEF WriteCache
  <2>7. DiskFollows'  BY <1>18, <2>1, <2>3 DEF WriteCache
  <2>8. LookupsCounted'  BY <1>18 DEF WriteCache, StartLookups
  <2> QED  BY <2>5, <2>6, <2>7, <2>8
<1>19. ASSUME WriteCacheFails PROVE SourceInv'
  <2>1. SourceTypeOK'  BY <1>19 DEF WriteCacheFails, StartLookups
  <2>2. OwnKeys' /\ ServesHeld'  BY <1>19 DEF WriteCacheFails, StartLookups
  <2>3. DiskFollows' /\ DocHeld'  BY <1>19 DEF WriteCacheFails, StartLookups
  <2>4. LookupsCounted'  BY <1>19 DEF WriteCacheFails, StartLookups
  <2>5. EndpointsOfOwnHost'  BY <1>19 DEF WriteCacheFails, StartLookups
  <2> QED  BY <2>1, <2>2, <2>3, <2>4, <2>5
<1>20. ASSUME Swap PROVE SourceInv'
  <2>1. PICK endpoints \in SUBSET AllAddresses :
          /\ ResolveTo(latest, endpoints)
          /\ served' \in {served, [config |-> latest, endpoints |-> endpoints, doc |-> Filled(latest)]}
          /\ served # [config |-> latest, endpoints |-> endpoints, doc |-> Filled(latest)] =>
               served' = [config |-> latest, endpoints |-> endpoints, doc |-> Filled(latest)]
          /\ fromCache' \in BOOLEAN
    BY <1>20 DEF Swap
  <2>2. served' = [config |-> latest, endpoints |-> endpoints, doc |-> Filled(latest)]  BY <2>1
  <2>3. latest \in Configs /\ latest \in Readable  BY <1>20 DEF Swap
  <2>4. Filled(latest) \in MaybeDoc  BY <2>3 DEF Filled
  <2>5. served' \in Runtime  BY <2>2, <2>3, <2>4
  <2>6. calls' \in [Hosts -> Nat] /\ dropped' \in [Hosts -> Nat] /\ inFlight' \in SUBSET Hosts
    BY <1>20, <2>1 DEF Swap, ResolveTo, LookupEnds, LookupKept
  <2>7. SourceTypeOK'  BY <1>20, <2>1, <2>5, <2>6 DEF Swap
  <2>8. OwnKeys' /\ DiskFollows'  BY <1>20 DEF Swap
  <2>9. ServesHeld'  BY <1>20, <2>2, <2>3 DEF Swap
  <2>10. DocHeld'  BY <1>20, <2>2, <2>3 DEF Swap, Filled
  <2>11. LookupsCounted'  BY <1>20, <2>1 DEF Swap, ResolveTo, LookupEnds, LookupKept
  <2>12. EndpointsOfOwnHost'  BY <2>1, <2>2, <2>3 DEF ResolveTo, Kept
  <2> QED  BY <2>7, <2>8, <2>9, <2>10, <2>11, <2>12
<1>21. ASSUME TickBegins PROVE SourceInv'
  BY <1>21, ZenonT(60) DEF TickBegins
<1>22. CASE UNCHANGED sourceVars
  BY <1>22 DEF sourceVars
<1> QED
  BY <1>1, <1>2, <1>3, <1>4, <1>5, <1>6, <1>7, <1>8, <1>9, <1>10, <1>11, <1>12, <1>13,
     <1>14, <1>15, <1>16, <1>17, <1>18, <1>19, <1>20, <1>21, <1>22
  DEF SourceNext, Step

(* A process that never ran has no cache, no keys and no lookup. *)
LEMMA SourceInvInit == SourceInit => SourceInv
<1> SUFFICES ASSUME SourceInit PROVE SourceInv
  OBVIOUS
<1>1. keys \in [Sources -> KeyState]  BY FreshStates DEF SourceInit
<1>2. SourceTypeOK  BY <1>1 DEF SourceInit, SourceTypeOK
<1>3. OwnKeys /\ ServesHeld /\ DiskFollows /\ DocHeld /\ EndpointsOfOwnHost
  BY DEF SourceInit, OwnKeys, ServesHeld, DiskFollows, DocHeld, EndpointsOfOwnHost
<1>4. LookupsCounted  BY DEF SourceInit, LookupsCounted, Attached
<1> QED  BY <1>2, <1>3, <1>4 DEF SourceInv

(* The invariant holds in every reachable state. *)
LEMMA SourceInvAlways == SourceSpec => []SourceInv
  BY SourceInvInit, SourceInvStep, PTL DEF SourceSpec

(* The data plane's state is of its type in every behaviour. *)
THEOREM SourceTyped == SourceSpec => []SourceTypeOK
<1>1. SourceInv => SourceTypeOK  BY DEF SourceInv
<1> QED  BY <1>1, SourceInvAlways, PTL

(* Between two ticks the cache file holds the configuration held and its documents. *)
THEOREM CacheIsCurrent == SourceSpec => []CacheCurrent
<1>1. SourceInv => CacheCurrent
  BY DEF SourceInv, DiskFollows, DiskCurrent, CacheCurrent
<1> QED  BY <1>1, SourceInvAlways, PTL

(* A cluster is never served with another host's addresses. *)
THEOREM OwnHostServed == SourceSpec => []EndpointsOfOwnHost
<1>1. SourceInv => EndpointsOfOwnHost  BY DEF SourceInv
<1> QED  BY <1>1, SourceInvAlways, PTL

(* Blocking lookups do not pile up on a name that hangs. *)
THEOREM LookupsStayBounded == SourceSpec => []LookupsBounded
<1>1. SourceInv => LookupsBounded
  BY DEF SourceInv, SourceTypeOK, LookupsCounted, LookupsBounded
<1> QED  BY <1>1, SourceInvAlways, PTL

(* Only the two swaps and a stop touch what is served. *)
LEMMA ServedChanges ==
  ASSUME SourceInv, [SourceNext]_sourceVars
  PROVE  \/ UNCHANGED served
         \/ Stop
         \/ stage = "priming" /\ PrimeSwap
         \/ Swap
  BY DEF SourceNext, Step, sourceVars, store, ServesAnother, FetchDue, GapOver, UnknownKid,
         DetachedLookupEnds, StartEmpty, StartFromCache, PrimeSwap, PollChanged, PollUnchanged,
         PollIncompatible, PollFails, RefreshBegins, FetchNothing, FetchOk, FetchFails, WriteCache,
         WriteCacheFails, TickBegins

(* What a swap serves. *)
LEMMA SwapServes ==
  ASSUME SourceInv, Swap
  PROVE  \E endpoints \in SUBSET AllAddresses :
           /\ ResolveTo(latest, endpoints)
           /\ served' = [config |-> latest, endpoints |-> endpoints, doc |-> Filled(latest)]
  BY DEF Swap, store

(* Keys that loaded stay with a policy that goes on naming their source. *)
THEOREM LoadedKeysKept == SourceSpec => KeysKept
<1> DEFINE A == \/ served = NotServing \/ served' = NotServing
                \/ SourceOf[served.config] = NoSource
                \/ SourceOf[served'.config] # SourceOf[served.config]
                \/ served.doc = NoDoc
                \/ served'.doc # NoDoc
<1>1. ASSUME SourceInv, [SourceNext]_sourceVars PROVE [A]_sourceVars
  <2>1. CASE UNCHANGED served  BY <2>1
  <2>2. CASE Stop  BY <2>2 DEF Stop
  <2>3. CASE stage = "priming" /\ PrimeSwap  BY <1>1, <2>3 DEF SourceInv, ServesHeld
  <2>4. CASE Swap
    <3>1. PICK endpoints : served' = [config |-> latest, endpoints |-> endpoints, doc |-> Filled(latest)]
      BY <1>1, <2>4, SwapServes
    <3>2. served'.config = latest /\ served'.doc = Filled(latest)  BY <3>1
    <3> QED  BY <1>1, <3>2 DEF SourceInv, DocHeld, Filled
  <2> QED  BY <1>1, <2>1, <2>2, <2>3, <2>4, ServedChanges
<1> QED  BY <1>1, SourceInvAlways, PTL DEF SourceSpec, KeysKept

(* A resolver error never empties a cluster that goes on naming the same host. *)
THEOREM ErrorsEmptyNothing == SourceSpec => OnlyAnswersEmpty
<1> DEFINE A == \/ served = NotServing \/ served' = NotServing
                \/ Target[served'.config] # Target[served.config]
                \/ served.endpoints = {} \/ served'.endpoints # {}
                \/ faults' = faults
<1>1. ASSUME SourceInv, [SourceNext]_sourceVars PROVE [A]_sourceVars
  <2>1. CASE UNCHANGED served  BY <2>1
  <2>2. CASE Stop  BY <2>2 DEF Stop
  <2>3. CASE stage = "priming" /\ PrimeSwap  BY <1>1, <2>3 DEF SourceInv, ServesHeld
  <2>4. CASE Swap
    <3>1. PICK endpoints : /\ ResolveTo(latest, endpoints)
                           /\ served' = [config |-> latest, endpoints |-> endpoints, doc |-> Filled(latest)]
      BY <1>1, <2>4, SwapServes
    <3>2. served'.config = latest /\ served'.endpoints = endpoints  BY <3>1
    <3>3. faults' = faults \/ endpoints = Kept(latest)  BY <3>1 DEF ResolveTo
    <3> QED  BY <3>2, <3>3 DEF Kept
  <2> QED  BY <1>1, <2>1, <2>2, <2>3, <2>4, ServedChanges
<1> QED  BY <1>1, SourceInvAlways, PTL DEF SourceSpec, OnlyAnswersEmpty

(* A start from the cache serves the configuration and the documents the file kept. *)
THEOREM StartsWithCachedKeys == SourceSpec => CachedKeysServed
<1> DEFINE A == stage = "priming" /\ stage' = "polling" =>
                  /\ served'.config = disk.config
                  /\ SourceOf[disk.config] # NoSource => served'.doc = disk.docs[SourceOf[disk.config]]
<1>1. ASSUME SourceInv, [SourceNext]_sourceVars PROVE [A]_sourceVars
  <2> SUFFICES ASSUME stage = "priming", stage' = "polling" PROVE A
    OBVIOUS
  <2>1. PrimeSwap
    BY <1>1 DEF SourceNext, Step, sourceVars, ServesAnother, FetchDue, GapOver, UnknownKid, Stop, Swap,
         DetachedLookupEnds, StartEmpty, StartFromCache, PollChanged, PollUnchanged,
         PollIncompatible, PollFails, RefreshBegins, FetchNothing, FetchOk, FetchFails, WriteCache,
         WriteCacheFails, TickBegins
  <2>2. PICK endpoints : served' = [config |-> latest, endpoints |-> endpoints, doc |-> Filled(latest)]
    BY <2>1 DEF PrimeSwap
  <2>3. served'.config = latest /\ served'.doc = Filled(latest)  BY <2>2
  <2>4. latest \in Configs /\ SourceOf[latest] \in Sources \union {NoSource}
    BY <1>1, SourceAssumption DEF SourceInv, SourceTypeOK, ServesHeld
  <2>5. disk.config = latest /\ \A s \in Sources : disk.docs[s] = keys[s].doc
    BY <1>1 DEF SourceInv, DiskFollows, DiskCurrent
  <2> QED  BY <2>3, <2>4, <2>5 DEF Filled
<1> QED  BY <1>1, SourceInvAlways, PTL DEF SourceSpec, CachedKeysServed

-----------------------------------------------------------------------------
(* Leader election. *)

USE LeaseAssumption, BoundAssumption

(* The deadline and the hold time are natural numbers a lease outlives. *)
LEMMA HoldFacts ==
    /\ Deadline \in Nat /\ Hold \in Nat
    /\ Deadline <= Hold /\ RenewEvery <= Hold
    /\ Hold + Skew < LeaseSecs
BY DEF Deadline, Hold

(* The initial state satisfies the inductive invariant: nobody leads, nothing is in flight. *)
LEMMA InitInv == LeaderInit => IndInv
BY DEF LeaderInit, IndInv, LeaderTypeOK, StepTiming, LeaderTiming, HolderIsLeader, WritesJustified,
       LateWritesStale, Lease, Write, InStep, Outstanding, SentBy, Never

(* Ending a step, as no leader, preserves the invariant: a failed, timed out,  *)
(* refused or waiting step and a restart are all of this form.                 *)
LEMMA DemotedInv ==
    ASSUME IndInv, NEW r \in Replicas, Conclude(r, FALSE), Abandon(r),
           UNCHANGED <<now, lease>>,
           replicaRestarts' \in Nat,
           nextTick' \in [Replicas -> Nat],
           \A q \in Replicas \ {r} : nextTick'[q] = nextTick[q]
    PROVE  IndInv'
<1> USE DEF IndInv
<1>a. /\ SentBy(r) \in Write
      /\ \A q \in Replicas : phase'[q] = "saving" =>
            phase[q] = "saving" /\ SentBy(q)' = SentBy(q)
      /\ late' \subseteq Outstanding /\ late' \subseteq late \union {SentBy(r)}
      /\ late' \subseteq Write
  BY DEF LeaderTypeOK, Conclude, Abandon, SentBy, Write, Outstanding
<1>b. Outstanding' \subseteq Outstanding
  BY <1>a DEF Outstanding
<1>1. LeaderTypeOK'
  BY <1>a DEF LeaderTypeOK, Conclude, Never
<1>2. StepTiming'
  BY DEF LeaderTypeOK, StepTiming, InStep, Conclude
<1>3. LeaderTiming'
  BY DEF LeaderTypeOK, LeaderTiming, InStep, Conclude
<1>4. HolderIsLeader'
  BY DEF LeaderTypeOK, HolderIsLeader, Conclude
<1>5. WritesJustified'
  BY <1>b DEF WritesJustified
<1>6. LateWritesStale'
  <2>1. SUFFICES ASSUME NEW q \in Replicas, leader'[q] \/ phase'[q] = "saved",
                        NEW w \in late', w.who = q
                 PROVE  w.rv < lease.rv
    BY DEF LateWritesStale
  <2>2. q # r /\ (leader[q] \/ phase[q] = "saved")
    BY <2>1 DEF LeaderTypeOK, Conclude
  <2>3. w \in late
    BY <1>a, <2>1, <2>2 DEF SentBy
  <2>4. QED  BY <2>1, <2>2, <2>3 DEF LateWritesStale
<1>7. QED  BY <1>1, <1>2, <1>3, <1>4, <1>5, <1>6

(* Storing a write the server accepts at a resourceVersion nobody else holds on to: *)
(* every replica that leads or is about to is the writer itself.                    *)
LEMMA StoreTakesNobodysLease ==
    ASSUME IndInv, NEW w \in Outstanding, Accepts(w),
           NEW q \in Replicas, leader[q] \/ phase[q] = "saved"
    PROVE  w.who = q /\ lease.rv # 0
<1> USE DEF IndInv
<1>1. lease.holder = q /\ now + Skew < lease.renew + LeaseSecs
  <2>1. CASE leader[q]
    BY <2>1, HoldFacts DEF HolderIsLeader, LeaderTiming, LeaderTypeOK, Lease, Never
  <2>2. CASE phase[q] = "saved"
    BY <2>2, HoldFacts DEF HolderIsLeader, StepTiming, InStep, LeaderTypeOK, Lease
  <2>3. QED  BY <2>1, <2>2
<1>2. lease.rv # 0
  BY <1>1 DEF HolderIsLeader
<1>3. w \in Write
  BY DEF Outstanding, SentBy, Write, LeaderTypeOK
<1>4. w.wall \in Nat /\ lease.renew \in Nat
  BY <1>3 DEF Write, LeaderTypeOK, Lease
<1>5. ~(lease.renew + LeaseSecs <= w.wall)
  BY <1>1, <1>4 DEF WritesJustified, LeaderTypeOK
<1>6. QED
  BY <1>1, <1>2, <1>5 DEF WritesJustified, Accepts

(* The start of a step: its budget ends within Hold of the renewal a leader rests on. *)
LEMMA TickInv == ASSUME IndInv, NEW r \in Replicas, TickFires(r) PROVE IndInv'
<1> USE DEF IndInv
<1>a. StepBudget(r) \in Nat /\ StepBudget(r) <= Deadline
  BY HoldFacts DEF StepBudget, LeaderTypeOK, LeaderTiming, Never
<1>b. leader[r] => now + StepBudget(r) <= renewedAt[r] + Hold
  BY HoldFacts DEF StepBudget, LeaderTypeOK, LeaderTiming, Never, InStep, TickFires
<1>c. PICK s \in 0 .. Skew : wall' = [wall EXCEPT ![r] = now + s]
  BY DEF TickFires
<1>d. Outstanding' = Outstanding
  <2>1. \A q \in Replicas : /\ phase'[q] = "saving" <=> phase[q] = "saving"
                            /\ phase[q] = "saving" => SentBy(q)' = SentBy(q)
    BY DEF TickFires, LeaderTypeOK, SentBy
  <2>2. late' = late  BY DEF TickFires
  <2>3. QED  BY <2>1, <2>2 DEF Outstanding
<1>1. LeaderTypeOK'
  BY <1>a, <1>c DEF LeaderTypeOK, TickFires
<1>2. StepTiming'
  BY <1>a, <1>c DEF LeaderTypeOK, StepTiming, InStep, TickFires
<1>3. LeaderTiming'
  <2>1. ASSUME NEW q \in Replicas, leader'[q]
        PROVE  /\ renewedAt'[q] # Never
               /\ renewedAt'[q] <= now'
               /\ now' <= renewedAt'[q] + Hold
               /\ ~InStep(q)' => nextTick'[q] <= renewedAt'[q] + RenewEvery
               /\ InStep(q)' => /\ renewedAt'[q] <= started'[q]
                                /\ started'[q] + budget'[q] <= renewedAt'[q] + Hold
    <3>1. CASE q = r
      BY <1>a, <1>b, <2>1, <3>1 DEF LeaderTypeOK, LeaderTiming, InStep, TickFires
    <3>2. CASE q # r
      BY <2>1, <3>2 DEF LeaderTypeOK, LeaderTiming, InStep, TickFires
    <3>3. QED  BY <3>1, <3>2
  <2>2. QED  BY <2>1 DEF LeaderTiming
<1>4. HolderIsLeader'
  BY DEF LeaderTypeOK, HolderIsLeader, TickFires
<1>5. WritesJustified'
  BY <1>d DEF WritesJustified, TickFires
<1>6. LateWritesStale'
  BY DEF LateWritesStale, TickFires, LeaderTypeOK
<1>7. QED  BY <1>1, <1>2, <1>3, <1>4, <1>5, <1>6

(* A read that leads to a write: the write is justified by what was read. *)
LEMMA ReadThenSaveInv == ASSUME IndInv, NEW r \in Replicas, ReadThenSave(r) PROVE IndInv'
<1> USE DEF IndInv
<1>1. LeaderTypeOK'
  BY DEF LeaderTypeOK, ReadThenSave, Lease, stepVars
<1>2. StepTiming'
  BY DEF LeaderTypeOK, StepTiming, InStep, ReadThenSave, stepVars
<1>3. LeaderTiming'
  BY DEF LeaderTypeOK, LeaderTiming, InStep, ReadThenSave, stepVars
<1>4. HolderIsLeader'
  BY DEF LeaderTypeOK, HolderIsLeader, ReadThenSave, stepVars
<1>5. WritesJustified'
  <2>1. SUFFICES ASSUME NEW w \in Outstanding'
                 PROVE  /\ w.rv <= lease.rv
                        /\ w.wall <= now + Skew
                        /\ w.rv = lease.rv =>
                              lease.rv = 0 \/ lease.holder = w.who
                              \/ lease.renew + LeaseSecs <= w.wall
    BY DEF WritesJustified, ReadThenSave
  <2>2. w \in Outstanding \/ w = SentBy(r)'
    BY <2>1 DEF Outstanding, ReadThenSave, SentBy, LeaderTypeOK, stepVars
  <2>3. CASE w \in Outstanding
    BY <2>3 DEF WritesJustified
  <2>4. CASE w = SentBy(r)'
    <3>1. w.who = r /\ w.rv = lease.rv /\ w.wall = wall[r]
      BY <2>4 DEF SentBy, ReadThenSave, LeaderTypeOK, stepVars
    <3>2. wall[r] <= now + Skew
      BY DEF StepTiming, InStep, ReadThenSave, LeaderTypeOK
    <3>3. lease.rv = 0 \/ lease.holder = r \/ lease.renew + LeaseSecs <= wall[r]
      BY DEF ReadThenSave, Decide
    <3>4. QED  BY <3>1, <3>2, <3>3 DEF LeaderTypeOK, Lease
  <2>5. QED  BY <2>2, <2>3, <2>4
<1>6. LateWritesStale'
  BY DEF LateWritesStale, ReadThenSave, LeaderTypeOK
<1>7. QED  BY <1>1, <1>2, <1>3, <1>4, <1>5, <1>6

(* Storing an outstanding write leaves every other outstanding write refused. *)
LEMMA StoredWrites ==
    ASSUME IndInv, NEW w \in Outstanding, Accepts(w), lease' = Stored(w),
           now' = now, Outstanding' \subseteq Outstanding
    PROVE  /\ WritesJustified'
           /\ lease' \in Lease
           /\ lease'.rv = lease.rv + 1 /\ lease'.holder = w.who /\ lease'.renew = w.wall
           /\ w \in Write
           /\ \A v \in late : v.rv < lease'.rv
<1> USE DEF IndInv
<1>1. w \in Write
  BY DEF Outstanding, SentBy, Write, LeaderTypeOK
<1>2. /\ lease' \in Lease
      /\ lease'.rv = lease.rv + 1 /\ lease'.holder = w.who /\ lease'.renew = w.wall
  BY <1>1 DEF Stored, Lease, Write, LeaderTypeOK
<1>3. \A v \in Outstanding : v.rv \in Nat /\ v.rv <= lease.rv
  BY DEF WritesJustified, Outstanding, SentBy, LeaderTypeOK, Write
<1>4. \A v \in Outstanding : v.rv < lease'.rv /\ v.rv # lease'.rv
  BY <1>2, <1>3 DEF LeaderTypeOK, Lease
<1>5. \A v \in Outstanding : v.rv <= lease'.rv
  BY <1>2, <1>3 DEF LeaderTypeOK, Lease
<1>6. WritesJustified'
  BY <1>4, <1>5 DEF WritesJustified
<1>7. QED  BY <1>1, <1>2, <1>4, <1>6 DEF Outstanding

(* The commit of a step that is still waited for is stored. *)
LEMMA SaveStoredInv == ASSUME IndInv, NEW r \in Replicas, SaveStored(r) PROVE IndInv'
<1> USE DEF IndInv
<1>a. /\ SentBy(r) \in Outstanding /\ Accepts(SentBy(r))
      /\ lease' = Stored(SentBy(r)) /\ now' = now /\ late' = late
      /\ \A q \in Replicas : phase'[q] = "saving" => phase[q] = "saving" /\ SentBy(q)' = SentBy(q)
  BY DEF SaveStored, Outstanding, LeaderTypeOK, SentBy, stepVars
<1>b. Outstanding' \subseteq Outstanding
  BY <1>a DEF Outstanding
<1>c. /\ WritesJustified'
      /\ lease' \in Lease
      /\ lease'.rv = lease.rv + 1 /\ lease'.holder = r /\ lease'.renew = wall[r]
      /\ \A v \in late : v.rv < lease'.rv
  BY <1>a, <1>b, StoredWrites DEF SentBy
<1>d. \A q \in Replicas : leader[q] \/ phase[q] = "saved" => q = r
  <2>1. ASSUME NEW q \in Replicas, leader[q] \/ phase[q] = "saved" PROVE q = r
    BY <1>a, <2>1, StoreTakesNobodysLease DEF SentBy
  <2>2. QED  BY <2>1
<1>1. LeaderTypeOK'
  BY <1>c DEF LeaderTypeOK, SaveStored, stepVars
<1>2. StepTiming'
  BY DEF LeaderTypeOK, StepTiming, InStep, SaveStored, stepVars
<1>3. LeaderTiming'
  BY DEF LeaderTypeOK, LeaderTiming, InStep, SaveStored, stepVars
<1>4. HolderIsLeader'
  <2>1. started[r] <= wall[r]
    BY DEF StepTiming, InStep, SaveStored
  <2>2. leader[r] => renewedAt[r] <= started[r]
    BY DEF LeaderTiming, InStep, SaveStored
  <2>3. leader[r] => renewedAt[r] <= wall[r]
    BY <2>1, <2>2 DEF LeaderTypeOK, Never
  <2>4. lease'.rv # 0
    BY <1>c DEF LeaderTypeOK, Lease
  <2>5. ASSUME NEW q \in Replicas
        PROVE  /\ leader'[q] => lease'.holder = q /\ renewedAt'[q] <= lease'.renew
               /\ phase'[q] = "saved" => lease'.holder = q /\ started'[q] <= lease'.renew
    BY <1>c, <1>d, <2>1, <2>3 DEF SaveStored, stepVars, LeaderTypeOK
  <2>6. QED  BY <2>4, <2>5 DEF HolderIsLeader
<1>5. LateWritesStale'
  BY <1>a, <1>c DEF LateWritesStale
<1>6. QED  BY <1>1, <1>2, <1>3, <1>4, <1>5, <1>c

(* A write nobody waits for is applied or refused. *)
LEMMA LateWriteInv == ASSUME IndInv, NEW w \in late, LateWriteArrives(w) PROVE IndInv'
<1> USE DEF IndInv
<1>a. /\ w \in Outstanding /\ now' = now /\ late' \subseteq late
      /\ \A q \in Replicas : phase'[q] = phase[q] /\ SentBy(q)' = SentBy(q)
  BY DEF LateWriteArrives, Outstanding, SentBy, stepVars
<1>b. Outstanding' \subseteq Outstanding
  BY <1>a DEF Outstanding
<1>c. CASE Accepts(w)
  <2>a. /\ WritesJustified'
        /\ lease' \in Lease
        /\ lease'.rv = lease.rv + 1
        /\ \A v \in late : v.rv < lease'.rv
    BY <1>a, <1>b, <1>c, StoredWrites DEF LateWriteArrives
  <2>b. \A q \in Replicas : ~leader[q] /\ phase[q] # "saved"
    <3>1. ASSUME NEW q \in Replicas, leader[q] \/ phase[q] = "saved" PROVE FALSE
      <4>1. w.who = q
        BY <1>a, <1>c, <3>1, StoreTakesNobodysLease
      <4>2. w.rv < lease.rv
        BY <3>1, <4>1 DEF LateWritesStale
      <4>3. QED  BY <1>c, <4>2 DEF Accepts, LeaderTypeOK, Lease
    <3>2. QED  BY <3>1
  <2>1. LeaderTypeOK'
    BY <2>a, <1>a DEF LeaderTypeOK, LateWriteArrives, stepVars
  <2>2. StepTiming' /\ LeaderTiming'
    BY DEF StepTiming, LeaderTiming, InStep, LateWriteArrives, stepVars
  <2>3. HolderIsLeader'
    BY <2>a, <2>b DEF HolderIsLeader, LateWriteArrives, LeaderTypeOK, Lease
  <2>4. LateWritesStale'
    BY <2>b DEF LateWritesStale, LateWriteArrives
  <2>5. QED  BY <2>a, <2>1, <2>2, <2>3, <2>4
<1>d. CASE ~Accepts(w)
  <2>1. lease' = lease
    BY <1>d DEF LateWriteArrives
  <2>2. LeaderTypeOK'
    BY <2>1, <1>a DEF LeaderTypeOK, LateWriteArrives, stepVars
  <2>3. StepTiming' /\ LeaderTiming' /\ HolderIsLeader'
    BY <2>1 DEF StepTiming, LeaderTiming, HolderIsLeader, InStep, LateWriteArrives, stepVars
  <2>4. WritesJustified'
    BY <1>a, <1>b, <2>1 DEF WritesJustified
  <2>5. LateWritesStale'
    BY <1>a, <2>1 DEF LateWritesStale, LateWriteArrives
  <2>6. QED  BY <2>2, <2>3, <2>4, <2>5
<1>e. QED  BY <1>c, <1>d

(* A stored commit is answered: its replica leads on the renewal it just made. *)
LEMMA SaveAnsweredInv == ASSUME IndInv, NEW r \in Replicas, SaveAnswered(r) PROVE IndInv'
<1> USE DEF IndInv
<1>a. \A q \in Replicas : phase'[q] = "saving" => phase[q] = "saving" /\ SentBy(q)' = SentBy(q)
  BY DEF SaveAnswered, Conclude, LeaderTypeOK, SentBy
<1>b. Outstanding' \subseteq Outstanding
  BY <1>a DEF Outstanding, SaveAnswered
<1>1. LeaderTypeOK'
  BY DEF LeaderTypeOK, SaveAnswered, Conclude
<1>2. StepTiming'
  BY DEF LeaderTypeOK, StepTiming, InStep, SaveAnswered, Conclude
<1>3. LeaderTiming'
  BY HoldFacts DEF LeaderTypeOK, LeaderTiming, StepTiming, InStep, SaveAnswered, Conclude, Never
<1>4. HolderIsLeader'
  BY DEF LeaderTypeOK, HolderIsLeader, SaveAnswered, Conclude
<1>5. WritesJustified'
  BY <1>b DEF WritesJustified, SaveAnswered
<1>6. LateWritesStale'
  BY DEF LateWritesStale, SaveAnswered, Conclude, LeaderTypeOK
<1>7. QED  BY <1>1, <1>2, <1>3, <1>4, <1>5, <1>6

(* Time passes only when no timer is due. *)
LEMMA TimeInv == ASSUME IndInv, TimePasses PROVE IndInv'
<1> USE DEF IndInv
<1>a. \A q \in Replicas : NothingDue(q)
  BY DEF TimePasses
<1>b. Outstanding' = Outstanding
  BY DEF Outstanding, TimePasses, SentBy, stepVars
<1>1. LeaderTypeOK'
  BY DEF LeaderTypeOK, TimePasses, stepVars
<1>2. StepTiming'
  BY <1>a DEF LeaderTypeOK, StepTiming, InStep, TimePasses, stepVars, NothingDue
<1>3. LeaderTiming'
  BY <1>a, HoldFacts DEF LeaderTypeOK, LeaderTiming, InStep, TimePasses, stepVars, NothingDue, Never
<1>4. HolderIsLeader' /\ LateWritesStale'
  BY DEF HolderIsLeader, LateWritesStale, TimePasses, stepVars
<1>5. WritesJustified'
  <2>1. \A w \in Outstanding : w.wall \in Nat
    BY DEF Outstanding, SentBy, LeaderTypeOK, Write
  <2>2. QED  BY <1>b, <2>1 DEF WritesJustified, TimePasses, LeaderTypeOK
<1>6. QED  BY <1>1, <1>2, <1>3, <1>4, <1>5

(* Every step preserves the inductive invariant. *)
LEMMA NextInv == IndInv /\ [LeaderNext]_leaderVars => IndInv'
<1> SUFFICES ASSUME IndInv, [LeaderNext]_leaderVars PROVE IndInv'
  OBVIOUS
<1>1. ASSUME NEW r \in Replicas, TickFires(r) PROVE IndInv'
  BY <1>1, TickInv
<1>2. ASSUME NEW r \in Replicas, ReadThenSave(r) PROVE IndInv'
  BY <1>2, ReadThenSaveInv
<1>3. ASSUME NEW r \in Replicas, ReadThenWait(r) \/ SaveConflicts(r) PROVE IndInv'
  <2>1. /\ Conclude(r, FALSE) /\ Abandon(r) /\ UNCHANGED <<now, lease>>
        /\ UNCHANGED <<replicaRestarts, nextTick>>
    BY <1>3 DEF ReadThenWait, SaveConflicts, Abandon
  <2>2. replicaRestarts \in Nat /\ nextTick \in [Replicas -> Nat]
    BY DEF IndInv, LeaderTypeOK
  <2>3. QED  BY <2>1, <2>2, DemotedInv
<1>4. ASSUME NEW r \in Replicas, SaveStored(r) PROVE IndInv'
  BY <1>4, SaveStoredInv
<1>5. ASSUME NEW r \in Replicas, SaveAnswered(r) PROVE IndInv'
  BY <1>5, SaveAnsweredInv
<1>6. ASSUME NEW r \in Replicas, StepFails(r) \/ StepTimesOut(r) PROVE IndInv'
  <2>1. /\ Conclude(r, FALSE) /\ Abandon(r) /\ UNCHANGED <<now, lease>>
        /\ UNCHANGED <<replicaRestarts, nextTick>>
    BY <1>6 DEF StepFails, StepTimesOut
  <2>2. replicaRestarts \in Nat /\ nextTick \in [Replicas -> Nat]
    BY DEF IndInv, LeaderTypeOK
  <2>3. QED  BY <2>1, <2>2, DemotedInv
<1>7. ASSUME NEW r \in Replicas, Restart(r) PROVE IndInv'
  <2>1. Conclude(r, FALSE) /\ Abandon(r) /\ UNCHANGED <<now, lease>>
    BY <1>7 DEF Restart
  <2>2. replicaRestarts' \in Nat /\ nextTick' \in [Replicas -> Nat]
    BY <1>7 DEF Restart, IndInv, LeaderTypeOK
  <2>3. \A q \in Replicas \ {r} : nextTick'[q] = nextTick[q]
    BY <1>7 DEF Restart, IndInv, LeaderTypeOK
  <2>4. QED  BY <2>1, <2>2, <2>3, DemotedInv
<1>8. ASSUME NEW w \in late, LateWriteArrives(w) PROVE IndInv'
  BY <1>8, LateWriteInv
<1>9. CASE TimePasses
  BY <1>9, TimeInv
<1>10. CASE UNCHANGED leaderVars
  BY <1>10 DEF leaderVars, IndInv, LeaderTypeOK, StepTiming, LeaderTiming, HolderIsLeader,
               WritesJustified, LateWritesStale, InStep, Outstanding, SentBy
<1>11. QED
  BY <1>1, <1>2, <1>3, <1>4, <1>5, <1>6, <1>7, <1>8, <1>9, <1>10 DEF LeaderNext

(* The inductive invariant holds in every reachable state. *)
THEOREM InvariantHolds == LeaderSpec => []IndInv
<1>1. QED  BY InitInv, NextInv, PTL DEF LeaderSpec

(* There is never more than one leader. *)
THEOREM OneLeader == LeaderSpec => []AtMostOneLeader
<1>1. IndInv => AtMostOneLeader
  BY DEF IndInv, HolderIsLeader, AtMostOneLeader
<1>2. QED  BY <1>1, InvariantHolds, PTL

(* A leader's Lease is its own and unexpired by every clock. *)
THEOREM LeaderIsCovered == LeaderSpec => []LeaderHoldsLease
<1>1. IndInv => LeaderHoldsLease
  BY HoldFacts DEF IndInv, HolderIsLeader, LeaderTiming, LeaderHoldsLease, LeaderTypeOK, Lease, Never
<1>2. QED  BY <1>1, InvariantHolds, PTL

(* Only an expired Lease changes hands. *)
THEOREM OnlyExpiredTaken == LeaderSpec => TakenOnlyExpired
<1>1. ASSUME IndInv, LeaderNext, lease.holder # NoOne, lease'.holder # lease.holder
      PROVE  lease.renew + LeaseSecs <= now + Skew
  <2>1. PICK w \in Outstanding : Accepts(w) /\ lease' = Stored(w)
    <3>1. (\E r \in Replicas : SaveStored(r)) \/ (\E w \in late : LateWriteArrives(w) /\ Accepts(w))
      BY <1>1 DEF LeaderNext, TickFires, ReadThenSave, ReadThenWait, SaveConflicts, SaveAnswered,
                  StepFails, StepTimesOut, Restart, LateWriteArrives, TimePasses
    <3>2. QED  BY <3>1 DEF SaveStored, LateWriteArrives, Outstanding
  <2>2. w.rv = lease.rv /\ lease'.holder = w.who /\ lease.rv # 0
    BY <2>1, <1>1 DEF Accepts, Stored, IndInv, HolderIsLeader
  <2>3. lease.renew + LeaseSecs <= w.wall /\ w.wall <= now + Skew
    BY <1>1, <2>2 DEF IndInv, WritesJustified
  <2>4. w.wall \in Nat
    BY <1>1 DEF IndInv, Outstanding, SentBy, LeaderTypeOK, Write
  <2>5. QED  BY <1>1, <2>3, <2>4 DEF IndInv, LeaderTypeOK, Lease
<1>2. IndInv /\ [LeaderNext]_leaderVars =>
        [lease.holder # NoOne /\ lease'.holder # lease.holder
           => lease.renew + LeaseSecs <= now + Skew]_leaderVars
  BY <1>1
<1>3. QED  BY <1>2, InvariantHolds, PTL DEF LeaderSpec, TakenOnlyExpired
=============================================================================
