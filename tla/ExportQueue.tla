------------------------------ MODULE ExportQueue ------------------------------
(***************************************************************************)
(* Delivery to one export sink (crates/gapura/src/telemetry/export.rs): a  *)
(* bounded queue that request threads push into and one worker drains in   *)
(* batches.  A push is cut where it leaves the lock, before it notifies;   *)
(* the worker is cut at every await.  An entry stands for its weight.      *)
(*                                                                         *)
(* Time is counted in units while a batch is being delivered, which is     *)
(* where the code compares it; the wait for a batch to fill ends when it   *)
(* likes.  `ready` is tokio's Notify: one permit, kept when nobody waits.  *)
(***************************************************************************)
EXTENDS Naturals, Sequences, Functions

CONSTANTS
    Threads,             \* the request threads
    Weights,             \* what a record may weigh
    Capacity, MaxBytes,  \* CAPACITY, MAX_BYTES
    MaxBatch,            \* MAX_BATCH
    FirstRetry, MaxRetryDelay, MaxRetryTime, StoppingRetryTime,
    SendTimeout,         \* SEND_TIMEOUT of the sink's HTTP client
    MaxPushes            \* bound: records pushed

ASSUME QueueAssumption ==
    /\ Weights \subseteq Nat
    /\ Capacity \in Nat \ {0} /\ MaxBytes \in Nat /\ MaxBatch \in Nat \ {0}
    /\ FirstRetry \in Nat \ {0} /\ MaxRetryDelay \in Nat \ {0}
    /\ MaxRetryTime \in Nat /\ StoppingRetryTime \in Nat
    /\ StoppingRetryTime <= MaxRetryTime
    /\ SendTimeout \in Nat /\ MaxPushes \in Nat

VARIABLES
    items,      \* Inner::items, as weights
    bytes,      \* Inner::bytes
    warned,     \* Inner::warned
    permit,     \* Queue::ready
    notifying,  \* the threads past the lock that are to notify
    worker,     \* where `run` and `deliver` are
    stopping,   \* the shutdown watch
    stopSeen,   \* the `stopping` the worker read last
    batch,      \* `n`: records in the batch being delivered
    delay,      \* `delay` of deliver
    timer,      \* what is left of the send's timeout or of the wait
    elapsed,    \* time since the batch was first sent
    grace,      \* history: the part of it since shutdown began
    pushed, delivered, queueFull, sendFailed

queue == <<items, bytes, warned>>
clock == <<delay, timer, elapsed, grace>>
counters == <<pushed, delivered, queueFull, sendFailed>>
vars == <<queue, permit, notifying, worker, stopping, stopSeen, batch, clock, counters>>

TypeOK ==
    /\ items \in Seq(Nat) /\ bytes \in Nat /\ warned \in BOOLEAN
    /\ permit \in BOOLEAN /\ notifying \in SUBSET Threads
    /\ worker \in {"top", "waiting", "filling", "coalescing", "taking", "posting", "retrying"}
    /\ stopping \in BOOLEAN /\ stopSeen \in BOOLEAN
    /\ batch \in Nat /\ delay \in Nat /\ timer \in Nat /\ elapsed \in Nat /\ grace \in Nat
    /\ pushed \in Nat /\ delivered \in Nat /\ queueFull \in Nat /\ sendFailed \in Nat

Init ==
    /\ items = <<>> /\ bytes = 0 /\ warned = FALSE
    /\ permit = FALSE /\ notifying = {}
    /\ worker = "top" /\ stopping = FALSE /\ stopSeen = FALSE
    /\ batch = 0 /\ delay = 0 /\ timer = 0 /\ elapsed = 0 /\ grace = 0
    /\ pushed = 0 /\ delivered = 0 /\ queueFull = 0 /\ sendFailed = 0

-----------------------------------------------------------------------------
(* push *)

Weigh(s) == FoldFunction(LAMBDA w, sum : w + sum, 0, s)

(* Mutant: an entry that leaves keeps its bytes. *)
FreedNothing(k) == 0

(* Mutant: the bytes of an entry that leaves are given back twice. *)
FreedTwice(k) == 2 * Weigh(SubSeq(items, 1, k))

(* The bytes of the k oldest entries. *)
Freed(k) == Weigh(SubSeq(items, 1, k))

(* After k drops the queue has room for an entry of weight w, or is empty. *)
RoomAfter(k, w) ==
    \/ k = Len(items)
    \/ /\ Len(items) - k < Capacity
       /\ bytes + w <= MaxBytes + Freed(k)

NearlyFull(n, b) == n * 5 >= Capacity * 4 \/ b * 5 >= MaxBytes * 4

(* Mutant: only the first entry notifies. *)
NotifiesFirst(n) == n = 1

(* Mutant: only a full batch notifies. *)
NotifiesFull(n) == n = MaxBatch

(* The lengths a push notifies at: a first entry, a full batch. *)
Notifies(n) == n \in {1, MaxBatch}

(* Mutant: an entry over the whole budget goes unnoticed. *)
PushOversizedSilently(t, w) ==
    /\ t \notin notifying /\ pushed < MaxPushes
    /\ w > MaxBytes
    /\ pushed' = pushed + 1
    /\ UNCHANGED <<queue, permit, notifying, worker, stopping, stopSeen, batch, clock,
                   delivered, queueFull, sendFailed>>

(* An entry over the whole budget is counted and not queued. *)
PushOversized(t, w) ==
    /\ t \notin notifying /\ pushed < MaxPushes
    /\ w > MaxBytes
    /\ pushed' = pushed + 1 /\ queueFull' = queueFull + 1
    /\ UNCHANGED <<queue, permit, notifying, worker, stopping, stopSeen, batch, clock,
                   delivered, sendFailed>>

(* The oldest entries are dropped, one by one, until there is room. *)
Push(t, w) ==
    /\ t \notin notifying /\ pushed < MaxPushes
    /\ w <= MaxBytes
    /\ \E k \in 0..Len(items) :
         /\ RoomAfter(k, w) /\ \A j \in 0..(k - 1) : ~RoomAfter(j, w)
         /\ items' = Append(SubSeq(items, k + 1, Len(items)), w)
         /\ bytes' = bytes + w - Freed(k)
         /\ queueFull' = queueFull + k
    /\ warned' = (warned \/ NearlyFull(Len(items'), bytes'))
    /\ notifying' = IF Notifies(Len(items')) THEN notifying \union {t} ELSE notifying
    /\ pushed' = pushed + 1
    /\ UNCHANGED <<permit, worker, stopping, stopSeen, batch, clock, delivered, sendFailed>>

(* notify_one, outside the lock. *)
NotifyOne(t) ==
    /\ t \in notifying
    /\ notifying' = notifying \ {t}
    /\ permit' = TRUE
    /\ UNCHANGED <<queue, worker, stopping, stopSeen, batch, clock, counters>>

-----------------------------------------------------------------------------
(* run *)

Top ==
    /\ worker = "top"
    /\ stopSeen' = stopping
    /\ worker' = IF items = <<>> THEN "waiting" ELSE IF stopping THEN "taking" ELSE "filling"
    /\ UNCHANGED <<queue, permit, notifying, stopping, batch, clock, counters>>

Notified ==
    /\ worker \in {"waiting", "coalescing"} /\ permit
    /\ permit' = FALSE
    /\ worker' = IF worker = "waiting" THEN "top" ELSE "filling"
    /\ UNCHANGED <<queue, notifying, stopping, stopSeen, batch, clock, counters>>

StopWakes ==
    /\ stopping /\ ~stopSeen
    /\ \/ worker = "waiting" /\ worker' = "top"
       \/ worker = "coalescing" /\ worker' = "taking"
    /\ UNCHANGED <<queue, permit, notifying, stopping, stopSeen, batch, clock, counters>>

Fill ==
    /\ worker = "filling"
    /\ worker' = IF Len(items) < MaxBatch THEN "coalescing" ELSE "taking"
    /\ UNCHANGED <<queue, permit, notifying, stopping, stopSeen, batch, clock, counters>>

CoalesceEnds ==
    /\ worker = "coalescing"
    /\ worker' = "taking"
    /\ UNCHANGED <<queue, permit, notifying, stopping, stopSeen, batch, clock, counters>>

Take ==
    /\ worker = "taking"
    /\ LET n == IF Len(items) < MaxBatch THEN Len(items) ELSE MaxBatch IN
         /\ batch' = n
         /\ items' = SubSeq(items, n + 1, Len(items))
         /\ bytes' = bytes - Freed(n)
    /\ warned' = (warned /\ items' # <<>>)
    /\ worker' = "posting"
    /\ delay' = FirstRetry /\ timer' = SendTimeout /\ elapsed' = 0 /\ grace' = 0
    /\ UNCHANGED <<permit, notifying, stopping, stopSeen, counters>>

-----------------------------------------------------------------------------
(* deliver *)

PostOk ==
    /\ worker = "posting"
    /\ delivered' = delivered + batch /\ batch' = 0
    /\ worker' = "top"
    /\ UNCHANGED <<queue, permit, notifying, stopping, stopSeen, clock,
                   pushed, queueFull, sendFailed>>

Budget == IF stopping THEN StoppingRetryTime ELSE MaxRetryTime

PostFailsForGood ==
    /\ worker = "posting" /\ elapsed >= Budget
    /\ sendFailed' = sendFailed + batch /\ batch' = 0
    /\ stopSeen' = stopping
    /\ worker' = "top"
    /\ UNCHANGED <<queue, permit, notifying, stopping, clock, pushed, delivered, queueFull>>

(* Mutant: a wait is not cut to the budget. *)
PostFailsUncut ==
    /\ worker = "posting" /\ elapsed < Budget
    /\ stopSeen' = stopping
    /\ timer' = delay
    /\ worker' = "retrying"
    /\ UNCHANGED <<queue, permit, notifying, stopping, batch, delay, elapsed, grace, counters>>

(* The batch is sent again, after a wait that does not outlast the budget. *)
PostFails ==
    /\ worker = "posting" /\ elapsed < Budget
    /\ stopSeen' = stopping
    /\ timer' = IF delay < Budget - elapsed THEN delay ELSE Budget - elapsed
    /\ worker' = "retrying"
    /\ UNCHANGED <<queue, permit, notifying, stopping, batch, delay, elapsed, grace, counters>>

(* Mutant: shutdown does not cut a wait short. *)
WaitRunsOn == FALSE

(* The shutdown a wait has not seen yet. *)
WaitCut == stopping /\ ~stopSeen

Resend ==
    /\ worker = "retrying" /\ (timer = 0 \/ WaitCut)
    /\ timer' = SendTimeout
    /\ delay' = IF 2 * delay < MaxRetryDelay THEN 2 * delay ELSE MaxRetryDelay
    /\ worker' = "posting"
    /\ UNCHANGED <<queue, permit, notifying, stopping, stopSeen, batch, elapsed, grace, counters>>

-----------------------------------------------------------------------------
(* The environment. *)

(* Time passes while a batch is delivered; a timer that is up, and a select that is *)
(* ready, are served first.                                                         *)
Tick ==
    /\ worker \in {"posting", "retrying"} /\ timer > 0
    /\ worker = "retrying" => ~WaitCut
    /\ timer' = timer - 1 /\ elapsed' = elapsed + 1
    /\ grace' = IF stopping THEN grace + 1 ELSE grace
    /\ UNCHANGED <<queue, permit, notifying, worker, stopping, stopSeen, batch, delay, counters>>

Shutdown ==
    /\ ~stopping
    /\ stopping' = TRUE
    /\ UNCHANGED <<queue, permit, notifying, worker, stopSeen, batch, clock, counters>>

WorkerStep ==
    \/ Top \/ Notified \/ StopWakes \/ Fill \/ CoalesceEnds \/ Take
    \/ PostOk \/ PostFailsForGood \/ PostFails \/ Resend

Next ==
    \/ \E t \in Threads, w \in Weights : PushOversized(t, w) \/ Push(t, w)
    \/ \E t \in Threads : NotifyOne(t)
    \/ WorkerStep \/ Tick \/ Shutdown

Spec == Init /\ [][Next]_vars

(* The worker and the threads run on, and a send or a wait takes its time. *)
FairSpec ==
    /\ Spec
    /\ WF_vars(WorkerStep) /\ WF_vars(Tick)
    /\ \A t \in Threads : WF_vars(NotifyOne(t))

-----------------------------------------------------------------------------
(* Every record pushed is queued, being delivered, delivered, or counted as  *)
(* lost for one reason: "every record lost is counted" (export.rs:8).        *)
Conserved == pushed = Len(items) + batch + delivered + queueFull + sendFailed

(* The running total of bytes is the weight of what is queued, neither bound *)
(* of the queue is exceeded, and a queue at 80% of one has warned since it   *)
(* was last empty.                                                           *)
WithinBounds ==
    /\ bytes = Weigh(items) /\ bytes <= MaxBytes
    /\ Len(items) <= Capacity
    /\ items # <<>> /\ NearlyFull(Len(items), bytes) => warned

(* A worker that waits while there is something to take has a wake-up        *)
(* coming, though push notifies outside the lock and for two lengths only.   *)
NoLostWakeup ==
    \/ permit \/ notifying # {}
    \/ /\ worker = "waiting" => items = <<>>
       /\ worker = "coalescing" => Len(items) < MaxBatch

(* No send of a batch begins after MAX_RETRY_TIME.                           *)
SendsInBudget ==
    worker = "posting" => elapsed + timer <= MaxRetryTime + SendTimeout

(* Once shutdown began, no batch takes the worker longer than the short      *)
(* budget and the send under way when it ends.                               *)
ShutdownBounded ==
    worker \in {"posting", "retrying"} => grace <= StoppingRetryTime + SendTimeout

(* What is queued is delivered or given up.                                  *)
Drained == <>[](items = <<>> /\ batch = 0)
=============================================================================
