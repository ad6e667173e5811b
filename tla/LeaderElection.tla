---------------------------- MODULE LeaderElection ----------------------------
(***************************************************************************)
(* Leader election of the data plane replicas on one Kubernetes Lease      *)
(* (crates/gapura/src/source/kubernetes/leader.rs).  Every replica runs    *)
(* the loop `run`: a tick, then one bounded `step` that reads the Lease,   *)
(* decides, and writes it back under the resourceVersion it read.  Only    *)
(* the leader writes status, so two leaders at once is what must not be.   *)
(*                                                                         *)
(* `now` is the time of the slowest wall clock, in ticks; a replica reads  *)
(* its own clock anywhere in now .. now + Skew, which also absorbs the     *)
(* truncation of `as_second`.  The monotonic clock that drives the tick,   *)
(* `started` and the timeout runs at the rate of `now`.  Time advances     *)
(* only when no timer is due: a replica that is up is scheduled on time.   *)
(***************************************************************************)
EXTENDS Integers, FiniteSets

CONSTANTS
    Replicas,            \* the identities that compete
    NoOne,               \* the holder of a Lease that does not exist
    LeaseSecs,           \* LeaderOpts::lease_secs
    RenewEvery,          \* LeaderOpts::renew_every
    Skew,                \* how far apart two wall clocks may be
    MaxTime,             \* bound: the last instant looked at
    MaxReplicaRestarts,  \* bound: restarts of all replicas together
    MaxLate              \* bound: abandoned writes under way at once

(* `lease.saturating_sub(renew_every).max(1s)` *)
Deadline == IF LeaseSecs - RenewEvery > 1 THEN LeaseSecs - RenewEvery ELSE 1

(* How long a replica can stay leader on one renewal. *)
Hold == IF RenewEvery > Deadline THEN RenewEvery ELSE Deadline

ASSUME LeaseAssumption ==
    /\ LeaseSecs \in Nat /\ RenewEvery \in Nat /\ Skew \in Nat
    /\ RenewEvery >= 1
    /\ Hold + Skew < LeaseSecs
    /\ NoOne \notin Replicas

ASSUME BoundAssumption == MaxTime \in Nat /\ MaxReplicaRestarts \in Nat /\ MaxLate \in Nat

Never == -1

VARIABLES
    now,             \* the slowest wall clock
    lease,           \* the Lease object: holder, renewTime, resourceVersion (0: absent)
    phase,           \* where each replica's loop is
    started,         \* `started` of the step in progress
    budget,          \* the timeout of the step in progress
    wall,            \* Timestamp::now() of the step in progress
    seen,            \* the resourceVersion the step read
    leader,          \* what the replica publishes on the leadership channel
    renewedAt,       \* `renewed_at`, Never for None
    nextTick,        \* when the interval fires next
    late,            \* writes whose caller gave up and which may still reach the server
    replicaRestarts  \* how many restarts there were

leaderVars == <<now, lease, phase, started, budget, wall, seen, leader, renewedAt,
                nextTick, late, replicaRestarts>>

stepVars == <<started, budget, wall>>

Lease == [holder : Replicas \union {NoOne}, renew : Nat, rv : Nat]
Write == [who : Replicas, rv : Nat, wall : Nat]

LeaderTypeOK ==
    /\ now \in Nat
    /\ lease \in Lease
    /\ phase \in [Replicas -> {"waiting", "reading", "saving", "saved"}]
    /\ started \in [Replicas -> Nat]
    /\ budget \in [Replicas -> Nat]
    /\ wall \in [Replicas -> Nat]
    /\ seen \in [Replicas -> Nat]
    /\ leader \in [Replicas -> BOOLEAN]
    /\ renewedAt \in [Replicas -> Nat \union {Never}]
    /\ nextTick \in [Replicas -> Nat]
    /\ late \in SUBSET Write
    /\ replicaRestarts \in Nat

LeaderInit ==
    /\ now = 0
    /\ lease = [holder |-> NoOne, renew |-> 0, rv |-> 0]
    /\ phase = [r \in Replicas |-> "waiting"]
    /\ started = [r \in Replicas |-> 0]
    /\ budget = [r \in Replicas |-> 0]
    /\ wall = [r \in Replicas |-> 0]
    /\ seen = [r \in Replicas |-> 0]
    /\ leader = [r \in Replicas |-> FALSE]
    /\ renewedAt = [r \in Replicas |-> Never]
    /\ nextTick = [r \in Replicas |-> 0]
    /\ late = {}
    /\ replicaRestarts = 0

-----------------------------------------------------------------------------
(* Mutant: every step gets the full deadline. *)
StepBudgetFresh(r) == Deadline

(* `step_budget`: as leader, what is left of the deadline since the last renewal. *)
StepBudget(r) ==
    IF renewedAt[r] # Never /\ leader[r]
    THEN IF renewedAt[r] + Deadline > now THEN renewedAt[r] + Deadline - now ELSE 0
    ELSE Deadline

(* Mutant: a Lease counts as expired one tick early. *)
DecideEarly(r) ==
    IF lease.rv = 0 THEN "Acquire"
    ELSE IF lease.holder = r THEN "Renew"
    ELSE IF lease.renew + LeaseSecs - 1 <= wall[r] THEN "Acquire" ELSE "Wait"

(* `decide`, on the Lease as the server answers it. *)
Decide(r) ==
    IF lease.rv = 0 THEN "Acquire"
    ELSE IF lease.holder = r THEN "Renew"
    ELSE IF lease.renew + LeaseSecs <= wall[r] THEN "Acquire" ELSE "Wait"

(* The write a replica in phase "saving" has sent. *)
SentBy(r) == [who |-> r, rv |-> seen[r], wall |-> wall[r]]

(* Mutant: the commit carries no resourceVersion. *)
AcceptsAny(w) == TRUE

(* The server takes a write only at the resourceVersion it was based on. *)
Accepts(w) == w.rv = lease.rv

Stored(w) == [holder |-> w.who, renew |-> w.wall, rv |-> lease.rv + 1]

(* Mutant: leadership counts from the answer, not from the start of the step. *)
ConcludeFromAnswer(r, isLeader) ==
    /\ phase' = [phase EXCEPT ![r] = "waiting"]
    /\ renewedAt' = [renewedAt EXCEPT ![r] = IF isLeader THEN now ELSE Never]
    /\ leader' = [leader EXCEPT ![r] = isLeader]
    /\ started' = [started EXCEPT ![r] = 0]
    /\ budget' = [budget EXCEPT ![r] = 0]
    /\ wall' = [wall EXCEPT ![r] = 0]
    /\ seen' = [seen EXCEPT ![r] = 0]

(* The end of an iteration of `run`: what the step said is published, and the *)
(* locals of the iteration are gone.                                          *)
Conclude(r, isLeader) ==
    /\ phase' = [phase EXCEPT ![r] = "waiting"]
    /\ renewedAt' = [renewedAt EXCEPT ![r] = IF isLeader THEN started[r] ELSE Never]
    /\ leader' = [leader EXCEPT ![r] = isLeader]
    /\ started' = [started EXCEPT ![r] = 0]
    /\ budget' = [budget EXCEPT ![r] = 0]
    /\ wall' = [wall EXCEPT ![r] = 0]
    /\ seen' = [seen EXCEPT ![r] = 0]

(* A write in flight when its caller stops listening is lost, or is delivered later. *)
Abandon(r) ==
    \/ late' = late
    \/ /\ phase[r] = "saving" /\ Cardinality(late) < MaxLate
       /\ late' = late \union {SentBy(r)}

-----------------------------------------------------------------------------
(* The interval fires (missed ticks fire at once) and a step begins. *)
TickFires(r) ==
    /\ phase[r] = "waiting" /\ nextTick[r] <= now
    /\ nextTick' = [nextTick EXCEPT ![r] = @ + RenewEvery]
    /\ started' = [started EXCEPT ![r] = now]
    /\ budget' = [budget EXCEPT ![r] = StepBudget(r)]
    /\ \E s \in 0 .. Skew : wall' = [wall EXCEPT ![r] = now + s]
    /\ phase' = [phase EXCEPT ![r] = "reading"]
    /\ UNCHANGED <<now, lease, seen, leader, renewedAt, late, replicaRestarts>>

(* `api.entry` answers and the Lease is ours to write: the commit is sent. *)
ReadThenSave(r) ==
    /\ phase[r] = "reading" /\ Decide(r) # "Wait"
    /\ seen' = [seen EXCEPT ![r] = lease.rv]
    /\ phase' = [phase EXCEPT ![r] = "saving"]
    /\ UNCHANGED <<now, lease, stepVars, leader, renewedAt, nextTick, late, replicaRestarts>>

(* `api.entry` answers and someone else holds a live Lease. *)
ReadThenWait(r) ==
    /\ phase[r] = "reading" /\ Decide(r) = "Wait"
    /\ Conclude(r, FALSE)
    /\ UNCHANGED <<now, lease, nextTick, late, replicaRestarts>>

(* The server stores the commit; its answer is on the way. *)
SaveStored(r) ==
    /\ phase[r] = "saving" /\ Accepts(SentBy(r))
    /\ lease' = Stored(SentBy(r))
    /\ phase' = [phase EXCEPT ![r] = "saved"]
    /\ UNCHANGED <<now, stepVars, seen, leader, renewedAt, nextTick, late, replicaRestarts>>

(* The commit answers 409: another replica changed the Lease first. *)
SaveConflicts(r) ==
    /\ phase[r] = "saving" /\ ~Accepts(SentBy(r))
    /\ Conclude(r, FALSE)
    /\ UNCHANGED <<now, lease, nextTick, late, replicaRestarts>>

(* The commit answers Ok. *)
SaveAnswered(r) ==
    /\ phase[r] = "saved"
    /\ Conclude(r, TRUE)
    /\ UNCHANGED <<now, lease, nextTick, late, replicaRestarts>>

(* The API call fails; whether the write took effect is not known. *)
StepFails(r) ==
    /\ phase[r] # "waiting"
    /\ Conclude(r, FALSE)
    /\ Abandon(r)
    /\ UNCHANGED <<now, lease, nextTick, replicaRestarts>>

(* The timeout around the step elapses and drops the call. *)
StepTimesOut(r) ==
    /\ phase[r] # "waiting" /\ now >= started[r] + budget[r]
    /\ Conclude(r, FALSE)
    /\ Abandon(r)
    /\ UNCHANGED <<now, lease, nextTick, replicaRestarts>>

(* Shutdown or crash anywhere in the loop, and a new process of the same identity. *)
Restart(r) ==
    /\ replicaRestarts < MaxReplicaRestarts
    /\ replicaRestarts' = replicaRestarts + 1
    /\ Conclude(r, FALSE)
    /\ Abandon(r)
    /\ nextTick' = [nextTick EXCEPT ![r] = now]
    /\ UNCHANGED <<now, lease>>

(* The API server gets to a write nobody waits for any more. *)
LateWriteArrives(w) ==
    /\ late' = late \ {w}
    /\ lease' = IF Accepts(w) THEN Stored(w) ELSE lease
    /\ UNCHANGED <<now, phase, stepVars, seen, leader, renewedAt, nextTick, replicaRestarts>>

(* A replica whose timer is due runs before time goes on. *)
NothingDue(r) ==
    IF phase[r] = "waiting" THEN now < nextTick[r] ELSE now < started[r] + budget[r]

TimePasses ==
    /\ now < MaxTime
    /\ \A r \in Replicas : NothingDue(r)
    /\ now' = now + 1
    /\ UNCHANGED <<lease, phase, stepVars, seen, leader, renewedAt, nextTick, late, replicaRestarts>>

LeaderNext ==
    \/ \E r \in Replicas :
         \/ TickFires(r)
         \/ ReadThenSave(r)
         \/ ReadThenWait(r)
         \/ SaveStored(r)
         \/ SaveConflicts(r)
         \/ SaveAnswered(r)
         \/ StepFails(r)
         \/ StepTimesOut(r)
         \/ Restart(r)
    \/ \E w \in late : LateWriteArrives(w)
    \/ TimePasses

LeaderSpec == LeaderInit /\ [][LeaderNext]_leaderVars

-----------------------------------------------------------------------------
(* Two replicas never publish leadership at the same time, whatever the API *)
(* server delays, loses or applies late: status has a single writer.        *)
AtMostOneLeader ==
    \A r, q \in Replicas : leader[r] /\ leader[q] => r = q

(* A replica that publishes leadership still has its own name on a Lease    *)
(* no other clock would call expired: the step budget gives it up in time.  *)
LeaderHoldsLease ==
    \A r \in Replicas :
        leader[r] => lease.holder = r /\ now + Skew < lease.renew + LeaseSecs

(* The name on an existing Lease is replaced by another one only after it   *)
(* expired by some clock, also when the write that does it is a late one.   *)
TakenOnlyExpired ==
    [][ lease.holder # NoOne /\ lease'.holder # lease.holder
          => lease.renew + LeaseSecs <= now + Skew ]_leaderVars

-----------------------------------------------------------------------------
(* The inductive invariant. *)

InStep(r) == phase[r] # "waiting"

Outstanding == late \union {SentBy(r) : r \in {q \in Replicas : phase[q] = "saving"}}

(* The timers of a step bracket `now`, and a step started no later than now. *)
StepTiming ==
    \A r \in Replicas : InStep(r) =>
        /\ started[r] <= now /\ now <= started[r] + budget[r]
        /\ budget[r] <= Deadline
        /\ started[r] <= wall[r] /\ wall[r] <= started[r] + Skew
        /\ nextTick[r] <= started[r] + RenewEvery

(* A leader's next tick, its step and so its leadership end within Hold of  *)
(* the renewal it rests on.                                                 *)
LeaderTiming ==
    \A r \in Replicas : leader[r] =>
        /\ renewedAt[r] # Never
        /\ renewedAt[r] <= now
        /\ now <= renewedAt[r] + Hold
        /\ ~InStep(r) => nextTick[r] <= renewedAt[r] + RenewEvery
        /\ InStep(r) => /\ renewedAt[r] <= started[r]
                        /\ started[r] + budget[r] <= renewedAt[r] + Hold

(* Who leads, or is about to, is the holder, at a renewTime no older than its step. *)
HolderIsLeader ==
    /\ lease.rv = 0 => lease.holder = NoOne
    /\ \A r \in Replicas :
        /\ leader[r] => lease.holder = r /\ renewedAt[r] <= lease.renew
        /\ phase[r] = "saved" => lease.holder = r /\ started[r] <= lease.renew

(* An outstanding write that the server would still take is its holder's own, *)
(* or was decided on a Lease that had expired.                                *)
WritesJustified ==
    \A w \in Outstanding :
        /\ w.rv <= lease.rv
        /\ w.wall <= now + Skew
        /\ w.rv = lease.rv =>
              lease.rv = 0 \/ lease.holder = w.who \/ lease.renew + LeaseSecs <= w.wall

(* A leader has no abandoned write of its own that the server would still take. *)
LateWritesStale ==
    \A r \in Replicas : leader[r] \/ phase[r] = "saved" =>
        \A w \in late : w.who = r => w.rv < lease.rv

IndInv ==
    /\ LeaderTypeOK
    /\ StepTiming
    /\ LeaderTiming
    /\ HolderIsLeader
    /\ WritesJustified
    /\ LateWritesStale
=============================================================================
