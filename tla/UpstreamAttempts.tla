--------------------------- MODULE UpstreamAttempts ---------------------------
(***************************************************************************)
(* A cluster's endpoints as its requests meet them: the choice of an       *)
(* endpoint (proxy/select.rs), the retries (proxy/mod.rs), the outcomes    *)
(* counted against endpoints (proxy/outlier.rs) and the records carried    *)
(* from one configuration generation to the next (Registry::sync, called   *)
(* by Runtime::build in store.rs).                                         *)
(*                                                                         *)
(* A request keeps the generation it started with.  The round-robin cursor *)
(* is shared with every other request of the cluster, so a pick may be any *)
(* endpoint of the pool.  An outcome is counted under the record's lock.   *)
(***************************************************************************)
EXTENDS Naturals, Sequences, FiniteSets

CONSTANTS
    Requests,             \* requests in flight, each a slot that is used again
    Idempotent,           \* those whose method may be sent twice
    Addrs,                \* endpoint addresses that parse
    Unparsed,             \* an endpoint address that does not
    EndpointLists,        \* the lists a generation may give the cluster
    ConsecutiveFailures, SuccessesToRecover, BaseEjection, MaxEjection,
    MaxEjectedPercent,    \* the cluster's OutlierDetection
    MaxAttempts,          \* MAX_ATTEMPTS
    Watched,              \* the address whose failures in a row are followed
    RequestMs,            \* the rule's request timeout, 0 for none
    MaxTime,              \* bound: the last instant looked at
    MaxSwaps              \* bound: how often the configuration is swapped

ASSUME AttemptsAssumption ==
    /\ Idempotent \subseteq Requests /\ Unparsed \notin Addrs /\ Watched \in Addrs
    /\ EndpointLists \subseteq Seq(Addrs \union {Unparsed})
    /\ ConsecutiveFailures \in Nat /\ SuccessesToRecover \in Nat
    /\ BaseEjection \in Nat /\ MaxEjection \in Nat /\ MaxEjectedPercent \in Nat
    /\ MaxAttempts \in Nat \ {0} /\ RequestMs \in Nat
    /\ MaxTime \in Nat /\ MaxSwaps \in Nat

VARIABLES
    gens,    \* the generations so far, the last one current
    health,  \* every record, by the address and the generation it was made for
    clock,   \* outlier::now_ms
    reqs,    \* Ctx of each request
    streak   \* history: the attempts on Watched that failed in a row

vars == <<gens, health, clock, reqs, streak>>

NoRecord == <<>>
Records == Addrs \X (1 .. MaxSwaps + 1)
Fresh == [failures |-> 0, successes |-> 0, ejections |-> 0, until |-> 0]

Current == Len(gens)
RecordsOf(r) == gens[reqs[r].gen].records
EndpointsOf(r) == gens[reqs[r].gen].endpoints

(* Mutant: every generation has records of its own. *)
SyncAnew(eps, g) == [i \in DOMAIN eps |-> IF eps[i] = Unparsed THEN NoRecord ELSE <<eps[i], g>>]

(* Registry::sync for generation g: an address the generation before named *)
(* keeps its record, any other gets a fresh one.                           *)
Sync(eps, g) ==
    LET kept(a) == {gens[g - 1].records[j] : j \in {j \in DOMAIN gens[g - 1].endpoints :
                                                    gens[g - 1].endpoints[j] = a}}
    IN  [i \in DOMAIN eps |->
           IF eps[i] = Unparsed THEN NoRecord
           ELSE IF g > 1 /\ kept(eps[i]) # {} THEN CHOOSE h \in kept(eps[i]) : TRUE
           ELSE <<eps[i], g>>]

Idle == [pc |-> "idle", gen |-> 0, tried |-> <<>>, index |-> 0, reused |-> FALSE,
         reuseRetries |-> 0, started |-> 0, attempts |-> 0, sent |-> 0]

Init ==
    /\ \E eps \in EndpointLists :
         gens = <<[endpoints |-> eps,
                   records |-> [i \in DOMAIN eps |-> IF eps[i] = Unparsed THEN NoRecord
                                                     ELSE <<eps[i], 1>>]]>>
    /\ health = [h \in Records |-> Fresh]
    /\ clock = 1
    /\ reqs = [r \in Requests |-> Idle]
    /\ streak = 0

-----------------------------------------------------------------------------
(* struct Health. *)

IsEjected(h, t) == h # NoRecord /\ health[h].until > t

Succeeded(c) ==
    IF c.ejections = 0 THEN [c EXCEPT !.failures = 0]
    ELSE IF c.successes + 1 >= SuccessesToRecover
    THEN [failures |-> 0, successes |-> 0, ejections |-> 0, until |-> c.until]
    ELSE [failures |-> 0, successes |-> c.successes + 1, ejections |-> c.ejections,
          until |-> c.until]

(* Mutant: one failure too many is waited for. *)
LateThreshold(c) == IF c.ejections > 0 THEN 2 ELSE ConsecutiveFailures + 1

Threshold(c) == IF c.ejections > 0 THEN 1 ELSE ConsecutiveFailures

EjectionMs(n) == IF BaseEjection * n < MaxEjection THEN BaseEjection * n ELSE MaxEjection

Failed(c) ==
    IF c.failures + 1 < Threshold(c)
    THEN [failures |-> c.failures + 1, successes |-> 0, ejections |-> c.ejections,
          until |-> c.until]
    ELSE [failures |-> 0, successes |-> 0, ejections |-> c.ejections + 1,
          until |-> clock + EjectionMs(c.ejections + 1)]

(* Mutant: an answer in flight is counted while the endpoint is out. *)
CountsAlways(h) == h # NoRecord /\ ConsecutiveFailures > 0

(* Whether an outcome counts: detection is on, and the endpoint is not out. *)
Counts(h) == h # NoRecord /\ ConsecutiveFailures > 0 /\ ~IsEjected(h, clock)

(* Health::record *)
Recorded(h, failed) ==
    IF ~Counts(h) THEN health
    ELSE [health EXCEPT ![h] = IF failed THEN Failed(@) ELSE Succeeded(@)]

(* History: an attempt on record h has come to its end, as `failed` says.  A *)
(* streak is followed up to the number that ejects, and starts over with an   *)
(* ejection.                                                                  *)
Streaked(h, failed) ==
    IF h # <<Watched, 1>> \/ ~Counts(h) THEN streak
    ELSE IF ~failed \/ Recorded(h, failed)[h].ejections > health[h].ejections THEN 0
    ELSE IF streak < ConsecutiveFailures THEN streak + 1 ELSE streak

-----------------------------------------------------------------------------
(* pick_endpoint *)

Untried(eps, tried, i) == eps[i] # Unparsed /\ \A j \in DOMAIN tried : tried[j] # eps[i]

Out(r) == {i \in DOMAIN EndpointsOf(r) : IsEjected(RecordsOf(r)[i], clock)}

Panic(r) == Cardinality(Out(r)) * 100 > Len(EndpointsOf(r)) * MaxEjectedPercent

Left(r) == {i \in DOMAIN EndpointsOf(r) : Untried(EndpointsOf(r), reqs[r].tried, i)}

Healthy(r) == IF Panic(r) THEN Left(r) ELSE Left(r) \ Out(r)

(* Mutant: an ejected endpoint is never used. *)
PoolHealthy(r) == Healthy(r)

Pool(r) == IF Healthy(r) = {} THEN Left(r) ELSE Healthy(r)

-----------------------------------------------------------------------------
(* A request reaches upstream_peer: its Ctx holds the current generation. *)
Start(r) ==
    /\ reqs[r].pc = "idle"
    /\ reqs' = [reqs EXCEPT ![r] = [Idle EXCEPT !.pc = "pick", !.gen = Current, !.started = clock]]
    /\ UNCHANGED <<gens, health, clock, streak>>

Done(r) == [reqs EXCEPT ![r] = Idle]

(* request_budget_left is zero. *)
Spent(r) == RequestMs > 0 /\ clock >= reqs[r].started + RequestMs

(* upstream_peer finds an endpoint and the time to try it: the endpoint at *)
(* the cursor if it is untried and not out, else one of the pool by the    *)
(* same cursor; a member of the pool either way.                           *)
Peer(r) ==
    /\ reqs[r].pc = "pick" /\ ~Spent(r)
    /\ \E i \in Pool(r) :
         reqs' = [reqs EXCEPT ![r].pc = "connect", ![r].index = i, ![r].attempts = @ + 1]
    /\ UNCHANGED <<gens, health, clock, streak>>

(* upstream_peer fails: 503 with no endpoint left, 504 with no time left. *)
NoPeer(r) ==
    /\ reqs[r].pc = "pick" /\ (Pool(r) = {} \/ Spent(r))
    /\ reqs' = Done(r)
    /\ UNCHANGED <<gens, health, clock, streak>>

RecordOf(r) == RecordsOf(r)[reqs[r].index]

ConnectRetries(r, tried) == Len(tried) < MaxAttempts /\ Len(EndpointsOf(r)) > Len(tried)

(* fail_to_connect *)
FailToConnect(r) ==
    /\ reqs[r].pc = "connect"
    /\ health' = Recorded(RecordOf(r), TRUE)
    /\ streak' = Streaked(RecordOf(r), TRUE)
    /\ LET tried == Append(reqs[r].tried, EndpointsOf(r)[reqs[r].index])
       IN  reqs' = IF ConnectRetries(r, tried)
                   THEN [reqs EXCEPT ![r].pc = "pick", ![r].tried = tried, ![r].index = 0]
                   ELSE Done(r)
    /\ UNCHANGED <<gens, clock>>

(* The request goes out, on a new connection or one from the pool. *)
Connected(r, reused) ==
    /\ reqs[r].pc = "connect"
    /\ reqs' = [reqs EXCEPT ![r].pc = "sent", ![r].reused = reused, ![r].sent = @ + 1]
    /\ UNCHANGED <<gens, health, clock, streak>>

(* upstream_response_filter, for the final head: a 502, 503 or 504 or not.   *)
(* Nothing of the request but its record matters any more.                   *)
FinalHead(r, failed) ==
    /\ reqs[r].pc = "sent"
    /\ health' = Recorded(RecordOf(r), failed)
    /\ streak' = IF failed THEN Streaked(RecordOf(r), TRUE) ELSE streak
    /\ reqs' = [reqs EXCEPT ![r] = [Idle EXCEPT !.pc = IF failed THEN "refusal" ELSE "body",
                                                !.gen = reqs[r].gen, !.index = reqs[r].index]]
    /\ UNCHANGED <<gens, clock>>

(* Mutant: any method is sent again. *)
ReuseRetriesAny(r, truncated) == reqs[r].reused /\ reqs[r].reuseRetries = 0 /\ ~truncated

ReuseRetries(r, truncated) ==
    /\ reqs[r].reused /\ reqs[r].reuseRetries = 0
    /\ r \in Idempotent /\ ~truncated

(* error_while_proxy: the connection fails before the answer. *)
ErrorWhileProxy(r, truncated) ==
    /\ reqs[r].pc = "sent"
    /\ reqs' = IF ReuseRetries(r, truncated)
               THEN [reqs EXCEPT ![r].pc = "pick", ![r].reuseRetries = 1, ![r].index = 0,
                                 ![r].reused = FALSE]
               ELSE Done(r)
    /\ UNCHANGED <<gens, health, clock, streak>>

(* fail_to_proxy: the upstream goes quiet, before its answer or within it. *)
TimedOut(r) ==
    /\ reqs[r].pc \in {"sent", "body", "refusal"}
    /\ health' = Recorded(RecordOf(r), TRUE)
    /\ streak' = IF reqs[r].pc = "refusal" THEN streak ELSE Streaked(RecordOf(r), TRUE)
    /\ reqs' = Done(r)
    /\ UNCHANGED <<gens, clock>>

(* The answer is complete. *)
Answered(r) ==
    /\ reqs[r].pc \in {"body", "refusal"}
    /\ streak' = IF reqs[r].pc = "refusal" THEN streak ELSE Streaked(RecordOf(r), FALSE)
    /\ reqs' = Done(r)
    /\ UNCHANGED <<gens, health, clock>>

(* The client goes away, or the connection breaks within the answer: no *)
(* outcome is counted.                                                  *)
Dropped(r) ==
    /\ reqs[r].pc \in {"connect", "sent", "body", "refusal"}
    /\ reqs' = Done(r)
    /\ UNCHANGED <<gens, health, clock, streak>>

(* Runtime::build and the swap, for one that changes the endpoints: any other *)
(* keeps every record.                                                        *)
Swap(eps) ==
    /\ Current <= MaxSwaps /\ eps # gens[Current].endpoints
    /\ gens' = Append(gens, [endpoints |-> eps, records |-> Sync(eps, Current + 1)])
    /\ UNCHANGED <<health, clock, reqs, streak>>

Tick ==
    /\ clock < MaxTime
    /\ clock' = clock + 1
    /\ UNCHANGED <<gens, health, reqs, streak>>

Next ==
    \/ \E r \in Requests :
         \/ Start(r) \/ Peer(r) \/ NoPeer(r) \/ FailToConnect(r)
         \/ TimedOut(r) \/ Answered(r) \/ Dropped(r)
         \/ \E b \in BOOLEAN : Connected(r, b) \/ FinalHead(r, b) \/ ErrorWhileProxy(r, b)
    \/ \E eps \in EndpointLists : Swap(eps)
    \/ Tick

Spec == Init /\ [][Next]_vars

-----------------------------------------------------------------------------
(* Health::record: an endpoint that has taken as many failures, or as many   *)
(* successes, as it takes is ejected, or cleared, at once.                   *)
TypeOK ==
    /\ gens # <<>>
    /\ \A g \in DOMAIN gens :
         /\ gens[g].endpoints \in EndpointLists
         /\ gens[g].records \in [DOMAIN gens[g].endpoints -> Records \union {NoRecord}]
    /\ \A h \in Records :
         /\ health[h] \in [failures : Nat, successes : Nat, ejections : Nat, until : Nat]
         /\ health[h].failures > 0
              => health[h].failures < ConsecutiveFailures /\ health[h].ejections = 0
         /\ health[h].successes > 0 => health[h].successes < SuccessesToRecover
    /\ clock \in Nat
    /\ \A r \in Requests :
         /\ reqs[r].pc \in {"idle", "pick", "connect", "sent", "body", "refusal"}
         /\ reqs[r].pc # "idle" => reqs[r].gen \in DOMAIN gens
         /\ reqs[r].pc \in {"connect", "sent", "body", "refusal"}
              => reqs[r].index \in DOMAIN EndpointsOf(r) /\ RecordOf(r) # NoRecord

(* outlier.rs, "Answers to requests already in flight when it was ejected    *)
(* ... must neither extend nor end it": while an endpoint is out, nothing    *)
(* that any request does changes its record.                                 *)
EjectionUndisturbed ==
    [][\A h \in Records : health[h].until > clock => health'[h] = health[h]]_vars

(* select.rs, "it never fails a request that would otherwise have had        *)
(* somewhere to go": a request is turned away only when it has tried every   *)
(* endpoint there is, or its time is up.                                     *)
NeverStranded ==
    [][\A r \in Requests : reqs[r].pc = "pick" /\ reqs'[r].pc = "idle" =>
         \/ \A i \in DOMAIN EndpointsOf(r) : ~Untried(EndpointsOf(r), reqs[r].tried, i)
         \/ RequestMs > 0 /\ clock - reqs[r].started >= RequestMs]_vars

(* A request makes one attempt, one more when it could not connect, and one  *)
(* more when a pooled connection failed, never at an address it could not    *)
(* connect to; and one that may not be sent twice reaches one endpoint only, *)
(* whatever fails on the way.                                                *)
RetriesBounded ==
    \A r \in Requests :
      /\ reqs[r].attempts <= MaxAttempts + 1
      /\ reqs[r].sent <= IF r \in Idempotent THEN 2 ELSE 1
      /\ \A i, j \in DOMAIN reqs[r].tried : reqs[r].tried[i] = reqs[r].tried[j] => i = j

(* outlier.rs, "a swap neither resets them nor keeps them for addresses it   *)
(* dropped": through a swap an address that stays keeps its record, and one  *)
(* that comes back has a record no earlier generation had.                   *)
RecordsFollowAddresses ==
    \A g \in DOMAIN gens, f \in DOMAIN gens : f < g =>
      \A i \in DOMAIN gens[g].endpoints, j \in DOMAIN gens[f].endpoints :
        gens[g].endpoints[i] = gens[f].endpoints[j] /\ gens[g].endpoints[i] # Unparsed =>
          (gens[g].records[i] = gens[f].records[j]
             <=> \A m \in f .. g : \E k \in DOMAIN gens[m].endpoints :
                   gens[m].endpoints[k] = gens[g].endpoints[i])

(* config.rs:847, "Consecutive failures (connect error, timeout, 502/503/504) *)
(* that eject an endpoint": an endpoint whose attempts failed as often in a   *)
(* row has been ejected.                                                      *)
FailuresEject == streak < ConsecutiveFailures
=============================================================================
