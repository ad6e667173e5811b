------------------------ MODULE UpstreamAttemptsProofs ------------------------
(***************************************************************************)
(* For any number of requests, endpoints and generations: an ejection is   *)
(* undisturbed while it lasts, and retries are bounded.  The retries need  *)
(* a count of what each request has done at every point: its attempts are  *)
(* the addresses it failed to connect to, the one retry of a pooled        *)
(* connection, and the attempt at hand.                                    *)
(***************************************************************************)
EXTENDS UpstreamAttempts, TLAPS

Generation == [endpoints : EndpointLists, records : Seq(Records \union {NoRecord})]

Counters == [failures : Nat, successes : Nat, ejections : Nat, until : Nat]

Places == {"idle", "pick", "connect", "sent", "body", "refusal"}

Ctx == [pc : Places, gen : Nat,
        tried : Seq(Addrs), index : Nat, reused : BOOLEAN, reuseRetries : {0, 1},
        started : Nat, attempts : Nat, sent : Nat]

One(b) == IF b THEN 1 ELSE 0

(* A generation holds a record for every endpoint that parses. *)
GenOK(gen) ==
    /\ Len(gen.records) = Len(gen.endpoints)
    /\ \A i \in 1 .. Len(gen.endpoints) :
         gen.endpoints[i] # Unparsed => gen.records[i] \in Records

(* A record short of what ejects or clears it. *)
CountersOK(c) ==
    /\ c.failures > 0 => c.failures < ConsecutiveFailures /\ c.ejections = 0
    /\ c.successes > 0 => c.successes < SuccessesToRecover

(* What a request has done so far, by where it stands. *)
ReqOK(r, q, gs) ==
    /\ q.pc # "idle" => q.gen \in 1 .. Len(gs)
    /\ q.pc \in {"connect", "sent", "body", "refusal"} =>
         /\ q.index \in 1 .. Len(gs[q.gen].endpoints)
         /\ gs[q.gen].endpoints[q.index] # Unparsed
    /\ q.pc \in {"pick", "connect", "sent"} =>
         /\ Len(q.tried) < MaxAttempts
         /\ q.attempts = Len(q.tried) + q.reuseRetries + One(q.pc # "pick")
         /\ q.sent = q.reuseRetries + One(q.pc = "sent")
    /\ q.pc \in {"idle", "body", "refusal"} => q.attempts = 0 /\ q.sent = 0
    /\ q.reuseRetries = 1 => r \in Idempotent
    /\ \A i, j \in 1 .. Len(q.tried) : q.tried[i] = q.tried[j] => i = j
    /\ q.pc = "connect" =>
         \A i \in 1 .. Len(q.tried) : q.tried[i] # gs[q.gen].endpoints[q.index]

GensInv ==
    /\ gens \in Seq(Generation) /\ Len(gens) \in 1 .. MaxSwaps + 1
    /\ \A g \in 1 .. Len(gens) : GenOK(gens[g])

HealthInv ==
    /\ health \in [Records -> Counters] /\ clock \in Nat
    /\ \A h \in Records : CountersOK(health[h])

ReqsInv ==
    /\ reqs \in [Requests -> Ctx]
    /\ \A r \in Requests : ReqOK(r, reqs[r], gens)

-----------------------------------------------------------------------------
(* Health::record keeps a record's counters short of their thresholds. *)
LEMMA RecordedKeeps ==
    ASSUME HealthInv, NEW h, NEW failed \in BOOLEAN
    PROVE  /\ Recorded(h, failed) \in [Records -> Counters]
           /\ \A k \in Records : CountersOK(Recorded(h, failed)[k])
<1>1. ASSUME NEW n \in Nat PROVE EjectionMs(n) \in Nat
  <2>1. BaseEjection * n \in Nat BY AttemptsAssumption
  <2> QED BY <2>1, AttemptsAssumption DEF EjectionMs
<1>2. ASSUME NEW c \in Counters, CountersOK(c), ConsecutiveFailures > 0
      PROVE  Failed(c) \in Counters /\ CountersOK(Failed(c))
  <2>1. clock \in Nat /\ EjectionMs(c.ejections + 1) \in Nat BY <1>1 DEF HealthInv, Counters
  <2>2. CASE c.failures + 1 < Threshold(c)
    <3>1. /\ Failed(c) = [failures |-> c.failures + 1, successes |-> 0,
                           ejections |-> c.ejections, until |-> c.until]
          /\ Failed(c) \in Counters
      BY <2>2 DEF Failed, Counters
    <3>2. /\ Failed(c).failures = c.failures + 1 /\ Failed(c).successes = 0
          /\ Failed(c).ejections = c.ejections
      BY <3>1 DEF Counters
    <3>3. c.ejections = 0 /\ c.failures + 1 < ConsecutiveFailures
      BY <2>2, AttemptsAssumption DEF Threshold, Counters
    <3> QED BY <3>1, <3>2, <3>3 DEF CountersOK
  <2>3. CASE ~(c.failures + 1 < Threshold(c))
    BY <1>2, <2>1, <2>3 DEF Failed, Counters, CountersOK
  <2> QED BY <2>2, <2>3
<1>3. ASSUME NEW c \in Counters, CountersOK(c)
      PROVE  Succeeded(c) \in Counters /\ CountersOK(Succeeded(c))
  <2>1. /\ Succeeded(c) \in Counters /\ Succeeded(c).failures = 0
        /\ \/ Succeeded(c).successes = c.successes
           \/ Succeeded(c).successes = 0
           \/ Succeeded(c).successes = c.successes + 1
              /\ ~(c.successes + 1 >= SuccessesToRecover)
    <3>1. CASE c.ejections = 0
      <4>1. Succeeded(c) = [c EXCEPT !.failures = 0] BY <3>1 DEF Succeeded
      <4> QED BY <4>1 DEF Counters
    <3>2. CASE c.ejections # 0 /\ c.successes + 1 >= SuccessesToRecover
      <4>1. Succeeded(c) = [failures |-> 0, successes |-> 0, ejections |-> 0, until |-> c.until]
        BY <3>2 DEF Succeeded
      <4> QED BY <4>1 DEF Counters
    <3>3. CASE c.ejections # 0 /\ ~(c.successes + 1 >= SuccessesToRecover)
      <4>1. Succeeded(c) = [failures |-> 0, successes |-> c.successes + 1,
                            ejections |-> c.ejections, until |-> c.until]
        BY <3>3 DEF Succeeded
      <4> QED BY <3>3, <4>1 DEF Counters
    <3> QED BY <3>1, <3>2, <3>3
  <2> QED BY <1>3, <2>1, AttemptsAssumption DEF Counters, CountersOK
<1>4. CASE ~Counts(h) BY <1>4 DEF Recorded, HealthInv
<1>5. CASE Counts(h)
  <2>1. ConsecutiveFailures > 0 BY <1>5 DEF Counts
  <2>2. CASE h \in Records
    <3> DEFINE c == IF failed THEN Failed(health[h]) ELSE Succeeded(health[h])
    <3>1. c \in Counters /\ CountersOK(c) BY <1>2, <1>3, <2>1, <2>2 DEF HealthInv
    <3>2. Recorded(h, failed) = [health EXCEPT ![h] = c] BY <1>5 DEF Recorded
    <3> HIDE DEF c
    <3> QED BY <2>2, <3>1, <3>2 DEF HealthInv
  <2>3. CASE h \notin Records
    <3>1. Recorded(h, failed) = health BY <1>5, <2>3 DEF Recorded, HealthInv
    <3> QED BY <3>1 DEF HealthInv
  <2> QED BY <2>2, <2>3
<1> QED BY <1>4, <1>5

(* Health::record leaves a record that is out alone. *)
LEMMA RecordedSpares ==
    ASSUME HealthInv, NEW h, NEW failed \in BOOLEAN,
           NEW k \in Records, health[k].until > clock
    PROVE  Recorded(h, failed)[k] = health[k]
<1>1. CASE ~Counts(h) BY <1>1 DEF Recorded
<1>2. CASE Counts(h)
  <2>1. h # k BY <1>2 DEF Counts, IsEjected
  <2> QED BY <1>2, <2>1 DEF Recorded, HealthInv
<1> QED BY <1>1, <1>2

(* What any step may do to the records. *)
LEMMA HealthMoves ==
    ASSUME [Next]_vars
    PROVE  \/ UNCHANGED <<health, clock>>
           \/ /\ UNCHANGED clock
              /\ \E r \in Requests, failed \in BOOLEAN : health' = Recorded(RecordOf(r), failed)
           \/ UNCHANGED health /\ clock' = clock + 1
<1>1. ASSUME NEW r \in Requests,
             Start(r) \/ Peer(r) \/ NoPeer(r) \/ Answered(r) \/ Dropped(r)
      PROVE  UNCHANGED <<health, clock>>
  BY <1>1 DEF Start, Peer, NoPeer, Answered, Dropped
<1>2. ASSUME NEW r \in Requests, FailToConnect(r) \/ TimedOut(r)
      PROVE  UNCHANGED clock /\ health' = Recorded(RecordOf(r), TRUE)
  BY <1>2 DEF FailToConnect, TimedOut
<1>3. ASSUME NEW r \in Requests, NEW b \in BOOLEAN, Connected(r, b) \/ ErrorWhileProxy(r, b)
      PROVE  UNCHANGED <<health, clock>>
  BY <1>3 DEF Connected, ErrorWhileProxy
<1>4. ASSUME NEW r \in Requests, NEW b \in BOOLEAN, FinalHead(r, b)
      PROVE  UNCHANGED clock /\ health' = Recorded(RecordOf(r), b)
  BY <1>4 DEF FinalHead
<1>5. ASSUME NEW eps \in EndpointLists, Swap(eps) PROVE UNCHANGED <<health, clock>>
  BY <1>5 DEF Swap
<1>6. CASE Tick BY <1>6 DEF Tick
<1>7. CASE UNCHANGED vars BY <1>7 DEF vars
<1> QED BY <1>1, <1>2, <1>3, <1>4, <1>5, <1>6, <1>7 DEF Next

(* The records keep their shape. *)
LEMMA HealthAlways == Spec => []HealthInv
<1>1. Init => HealthInv
  BY AttemptsAssumption DEF Init, HealthInv, Counters, CountersOK, Fresh
<1>2. HealthInv /\ [Next]_vars => HealthInv'
  <2> SUFFICES ASSUME HealthInv, [Next]_vars PROVE HealthInv'
    OBVIOUS
  <2>1. CASE UNCHANGED <<health, clock>> BY <2>1 DEF HealthInv
  <2>2. ASSUME NEW r \in Requests, NEW failed \in BOOLEAN, UNCHANGED clock,
               health' = Recorded(RecordOf(r), failed)
        PROVE  HealthInv'
    <3>1. /\ Recorded(RecordOf(r), failed) \in [Records -> Counters]
          /\ \A k \in Records : CountersOK(Recorded(RecordOf(r), failed)[k])
      BY RecordedKeeps
    <3> QED BY <2>2, <3>1 DEF HealthInv
  <2>3. CASE UNCHANGED health /\ clock' = clock + 1 BY <2>3 DEF HealthInv
  <2> QED BY <2>1, <2>2, <2>3, HealthMoves
<1> QED BY <1>1, <1>2, PTL DEF Spec

(* Health::record, "Answers to requests already in flight when it was      *)
(* ejected ... must neither extend nor end it", for any number of requests *)
(* in flight and of generations that share the record.                     *)
THEOREM EjectionsUndisturbed == Spec => EjectionUndisturbed
<1>1. HealthInv /\ [Next]_vars =>
        [\A h \in Records : health[h].until > clock => health'[h] = health[h]]_vars
  <2> SUFFICES ASSUME HealthInv, [Next]_vars, NEW k \in Records, health[k].until > clock
               PROVE  health'[k] = health[k]
    OBVIOUS
  <2>1. CASE UNCHANGED <<health, clock>> BY <2>1
  <2>2. ASSUME NEW r \in Requests, NEW failed \in BOOLEAN,
               health' = Recorded(RecordOf(r), failed)
        PROVE  health'[k] = health[k]
    <3>1. Recorded(RecordOf(r), failed)[k] = health[k] BY RecordedSpares
    <3> QED BY <2>2, <3>1
  <2>3. CASE UNCHANGED health BY <2>3
  <2> QED BY <2>1, <2>2, <2>3, HealthMoves
<1> QED BY <1>1, HealthAlways, PTL DEF Spec, EjectionUndisturbed

-----------------------------------------------------------------------------
(* Registry::sync gives the next generation a record for every endpoint    *)
(* that parses.                                                            *)
LEMMA SyncOK ==
    ASSUME GensInv, NEW eps \in EndpointLists, Len(gens) <= MaxSwaps
    PROVE  /\ Sync(eps, Len(gens) + 1) \in Seq(Records \union {NoRecord})
           /\ GenOK([endpoints |-> eps, records |-> Sync(eps, Len(gens) + 1)])
<1> DEFINE g == Len(gens) + 1
           old == gens[g - 1]
           kept(a) == {old.records[j] : j \in {j \in DOMAIN old.endpoints : old.endpoints[j] = a}}
           new == Sync(eps, g)
<1>1. eps \in Seq(Addrs \union {Unparsed}) /\ DOMAIN eps = 1 .. Len(eps) /\ Len(eps) \in Nat
  BY AttemptsAssumption
<1>2. g \in 1 .. MaxSwaps + 1 /\ g > 1 /\ g - 1 = Len(gens) BY AttemptsAssumption DEF GensInv
<1>3. old \in Generation /\ GenOK(old) BY <1>2 DEF GensInv
<1>4. DOMAIN old.endpoints = 1 .. Len(old.endpoints)
  <2>1. old.endpoints \in Seq(Addrs \union {Unparsed}) BY <1>3, AttemptsAssumption DEF Generation
  <2> QED BY <2>1
<1>5. new = [i \in DOMAIN eps |->
               IF eps[i] = Unparsed THEN NoRecord
               ELSE IF g > 1 /\ kept(eps[i]) # {} THEN CHOOSE h \in kept(eps[i]) : TRUE
               ELSE <<eps[i], g>>]
  BY DEF Sync
<1>6. ASSUME NEW i \in 1 .. Len(eps), eps[i] # Unparsed PROVE new[i] \in Records
  <2>1. eps[i] \in Addrs BY <1>1, <1>6
  <2>2. kept(eps[i]) \subseteq Records
    <3> HIDE DEF old
    <3> QED BY <1>3, <1>4, <1>6 DEF GenOK
  <2>3. <<eps[i], g>> \in Records BY <1>2, <2>1 DEF Records
  <2>4. kept(eps[i]) # {} => (CHOOSE h \in kept(eps[i]) : TRUE) \in Records
    <3> DEFINE K == kept(eps[i])
    <3>1. K # {} => (CHOOSE h \in K : TRUE) \in K
      <4> HIDE DEF K
      <4> QED OBVIOUS
    <3> QED BY <2>2, <3>1
  <2> HIDE DEF kept, old, g, new
  <2> QED BY <1>1, <1>5, <1>6, <2>3, <2>4
<1>7. ASSUME NEW i \in 1 .. Len(eps), eps[i] = Unparsed PROVE new[i] = NoRecord
  <2> HIDE DEF kept, old, g, new
  <2> QED BY <1>1, <1>5, <1>7
<1>8. new \in [1 .. Len(eps) -> Records \union {NoRecord}]
  <2>1. DOMAIN new = 1 .. Len(eps) /\ new = [i \in 1 .. Len(eps) |-> new[i]]
    <3> HIDE DEF kept, old, g
    <3> QED BY <1>1, <1>5
  <2> HIDE DEF kept, old, g, new
  <2> QED BY <1>6, <1>7, <2>1
<1> HIDE DEF kept, old, new
<1>9. new \in Seq(Records \union {NoRecord}) /\ Len(new) = Len(eps) BY <1>1, <1>8
<1>10. GenOK([endpoints |-> eps, records |-> new]) BY <1>6, <1>9 DEF GenOK
<1> QED BY <1>9, <1>10 DEF new, g

(* Generations are only ever added. *)
LEMMA GensMove ==
    ASSUME [Next]_vars
    PROVE  \/ UNCHANGED gens
           \/ \E eps \in EndpointLists : Swap(eps)
BY DEF Next, vars, Start, Peer, NoPeer, FailToConnect, TimedOut, Answered, Dropped,
       Connected, FinalHead, ErrorWhileProxy, Tick

(* A generation added leaves the others as they are. *)
LEMMA SwapKeeps ==
    ASSUME GensInv, NEW eps \in EndpointLists, Swap(eps)
    PROVE  /\ GensInv' /\ Len(gens') = Len(gens) + 1
           /\ \A g \in 1 .. Len(gens) : gens'[g] = gens[g]
<1> DEFINE gen == [endpoints |-> eps, records |-> Sync(eps, Len(gens) + 1)]
<1>1. gens' = Append(gens, gen) /\ Len(gens) <= MaxSwaps BY DEF Swap, Current
<1>2. gen \in Generation /\ GenOK(gen) BY <1>1, SyncOK DEF Generation
<1>3. gens \in Seq(Generation) /\ Len(gens) \in Nat BY DEF GensInv
<1> HIDE DEF gen
<1>4. /\ gens' \in Seq(Generation) /\ Len(gens') = Len(gens) + 1
      /\ gens'[Len(gens) + 1] = gen
      /\ \A g \in 1 .. Len(gens) : gens'[g] = gens[g]
  BY <1>1, <1>2, <1>3
<1>5. \A g \in 1 .. Len(gens') : GenOK(gens'[g])
  <2>1. \A g \in 1 .. Len(gens') : g \in 1 .. Len(gens) \/ g = Len(gens) + 1 BY <1>3, <1>4
  <2> QED BY <1>2, <1>4, <2>1 DEF GensInv
<1> QED BY <1>1, <1>3, <1>4, <1>5, AttemptsAssumption DEF GensInv

(* The generations keep their shape. *)
LEMMA GensAlways == Spec => []GensInv
<1>1. Init => GensInv
  <2> SUFFICES ASSUME Init PROVE GensInv
    OBVIOUS
  <2>1. PICK eps \in EndpointLists :
          gens = <<[endpoints |-> eps,
                    records |-> [i \in DOMAIN eps |-> IF eps[i] = Unparsed THEN NoRecord
                                                      ELSE <<eps[i], 1>>]]>>
    BY DEF Init
  <2> DEFINE recs == [i \in DOMAIN eps |-> IF eps[i] = Unparsed THEN NoRecord ELSE <<eps[i], 1>>]
  <2>2. eps \in Seq(Addrs \union {Unparsed}) /\ DOMAIN eps = 1 .. Len(eps) /\ Len(eps) \in Nat
    BY AttemptsAssumption
  <2>3. ASSUME NEW i \in 1 .. Len(eps), eps[i] # Unparsed PROVE recs[i] \in Records
    <3>1. eps[i] \in Addrs BY <2>2, <2>3
    <3>2. 1 \in 1 .. MaxSwaps + 1 BY AttemptsAssumption
    <3>3. <<eps[i], 1>> \in Records BY <3>1, <3>2 DEF Records
    <3> QED BY <2>2, <2>3, <3>3
  <2>4. recs \in [1 .. Len(eps) -> Records \union {NoRecord}] BY <2>2, <2>3
  <2>5. gens = <<[endpoints |-> eps, records |-> recs]>> BY <2>1
  <2> HIDE DEF recs
  <2>6. recs \in Seq(Records \union {NoRecord}) /\ Len(recs) = Len(eps) BY <2>2, <2>4
  <2>7. Len(gens) = 1 /\ gens[1] = [endpoints |-> eps, records |-> recs] BY <2>5
  <2>8. gens[1] \in Generation /\ GenOK(gens[1]) BY <2>3, <2>6, <2>7 DEF Generation, GenOK
  <2>9. gens \in Seq(Generation) BY <2>5, <2>7, <2>8
  <2> QED BY <2>7, <2>8, <2>9, AttemptsAssumption DEF GensInv
<1>2. GensInv /\ [Next]_vars => GensInv'
  <2> SUFFICES ASSUME GensInv, [Next]_vars PROVE GensInv'
    OBVIOUS
  <2>1. CASE UNCHANGED gens BY <2>1 DEF GensInv
  <2>2. ASSUME NEW eps \in EndpointLists, Swap(eps) PROVE GensInv' BY <2>2, SwapKeeps
  <2> QED BY <2>1, <2>2, GensMove
<1> QED BY <1>1, <1>2, PTL DEF Spec

-----------------------------------------------------------------------------
(* A step of one request: it suffices to look at that request. *)
LEMMA OneRequest ==
    ASSUME ReqsInv, UNCHANGED gens, NEW r \in Requests, NEW q \in Ctx,
           reqs' = [reqs EXCEPT ![r] = q], ReqOK(r, q, gens)
    PROVE  ReqsInv'
<1>1. reqs' \in [Requests -> Ctx] BY DEF ReqsInv
<1>2. ASSUME NEW p \in Requests PROVE ReqOK(p, reqs'[p], gens)
  <2>1. CASE p = r BY <2>1 DEF ReqsInv
  <2>2. CASE p # r
    <3>1. reqs'[p] = reqs[p] BY <2>2 DEF ReqsInv
    <3> QED BY <3>1 DEF ReqsInv
  <2> QED BY <2>1, <2>2
<1>3. \A p \in Requests : ReqOK(p, reqs'[p], gens') BY <1>2
<1> QED BY <1>1, <1>3 DEF ReqsInv

(* A request that is done starts over with nothing. *)
LEMMA IdleOK == \A r \in Requests : Idle \in Ctx /\ ReqOK(r, Idle, gens)
BY DEF Idle, Ctx, Places, ReqOK

(* Every action of a request keeps the count of what it has done. *)
LEMMA ReqStep ==
    ASSUME GensInv, ReqsInv, clock \in Nat, NEW r \in Requests,
           \/ Start(r) \/ Peer(r) \/ NoPeer(r) \/ FailToConnect(r)
           \/ TimedOut(r) \/ Answered(r) \/ Dropped(r)
           \/ \E b \in BOOLEAN : Connected(r, b) \/ FinalHead(r, b) \/ ErrorWhileProxy(r, b)
    PROVE  ReqsInv'
<1> DEFINE q == reqs[r]
<1>1. q \in Ctx /\ ReqOK(r, q, gens) BY DEF ReqsInv
<1>2. ASSUME UNCHANGED gens, reqs' = Done(r) PROVE ReqsInv'
  BY <1>2, IdleOK, OneRequest DEF Done
<1>3. ASSUME Start(r) PROVE ReqsInv'
  <2> DEFINE n == [Idle EXCEPT !.pc = "pick", !.gen = Current, !.started = clock]
  <2>1. reqs' = [reqs EXCEPT ![r] = n] /\ UNCHANGED gens BY <1>3 DEF Start
  <2>2. n \in Ctx
    <3> DEFINE m == [Idle EXCEPT !.pc = "pick", !.gen = Current]
    <3>1. Idle \in Ctx /\ Current \in Nat BY IdleOK DEF GensInv, Current
    <3>2. m \in Ctx BY <3>1 DEF Ctx, Places
    <3>3. n = [m EXCEPT !.started = clock] OBVIOUS
    <3> HIDE DEF m, n
    <3> QED BY <3>2, <3>3 DEF Ctx
  <2>3. /\ n.pc = "pick" /\ n.gen = Len(gens) /\ n.tried = <<>>
        /\ n.reuseRetries = 0 /\ n.attempts = 0 /\ n.sent = 0
    BY DEF Idle, Current
  <2> HIDE DEF n
  <2>4. ReqOK(r, n, gens) BY <2>2, <2>3, AttemptsAssumption DEF ReqOK, One, GensInv
  <2> QED BY <2>1, <2>2, <2>4, OneRequest
<1>4. ASSUME Peer(r) PROVE ReqsInv'
  <2>1. PICK i \in Pool(r) :
          reqs' = [reqs EXCEPT ![r].pc = "connect", ![r].index = i, ![r].attempts = @ + 1]
    BY <1>4 DEF Peer
  <2> DEFINE m == [q EXCEPT !.pc = "connect", !.index = i]
             n == [m EXCEPT !.attempts = q.attempts + 1]
             eps == gens[q.gen].endpoints
  <2>2. reqs' = [reqs EXCEPT ![r] = n] /\ UNCHANGED gens BY <1>4, <2>1 DEF ReqsInv, Peer
  <2>3. q.pc = "pick" /\ q.gen \in 1 .. Len(gens) BY <1>1, <1>4 DEF Peer, ReqOK
  <2>4. DOMAIN eps = 1 .. Len(eps) /\ Len(eps) \in Nat
    <3>1. gens[q.gen] \in Generation BY <2>3 DEF GensInv
    <3>2. eps \in Seq(Addrs \union {Unparsed}) BY <3>1, AttemptsAssumption DEF Generation
    <3> QED BY <3>2
  <2>5. /\ i \in 1 .. Len(eps) /\ eps[i] # Unparsed
        /\ \A j \in 1 .. Len(q.tried) : q.tried[j] # eps[i]
    <3>1. Pool(r) \subseteq Left(r) BY DEF Pool, Healthy
    <3>2. i \in DOMAIN eps /\ Untried(eps, q.tried, i) BY <3>1 DEF Left, EndpointsOf
    <3>3. DOMAIN q.tried = 1 .. Len(q.tried) BY <1>1 DEF Ctx
    <3> QED BY <2>4, <3>2, <3>3 DEF Untried
  <2>6. m \in Ctx /\ n \in Ctx
    <3>1. i \in Nat BY <2>4, <2>5
    <3>2. q.attempts + 1 \in Nat BY <1>1 DEF Ctx
    <3> HIDE DEF q
    <3>3. m \in Ctx BY <1>1, <3>1 DEF Ctx, Places
    <3> HIDE DEF m
    <3> QED BY <3>2, <3>3 DEF Ctx
  <2>7. /\ n.pc = "connect" /\ n.gen = q.gen /\ n.tried = q.tried /\ n.index = i
        /\ n.reuseRetries = q.reuseRetries /\ n.attempts = q.attempts + 1 /\ n.sent = q.sent
    <3> HIDE DEF q
    <3> QED BY <1>1 DEF Ctx
  <2> HIDE DEF n, q, eps
  <2>8. Len(q.tried) \in Nat /\ q.reuseRetries \in {0, 1} BY <1>1 DEF Ctx
  <2>9. ReqOK(r, n, gens) BY <1>1, <2>3, <2>5, <2>7, <2>8 DEF ReqOK, One, eps
  <2> QED BY <2>2, <2>6, <2>9, OneRequest
<1>5. ASSUME FailToConnect(r) PROVE ReqsInv'
  <2> DEFINE addr == gens[q.gen].endpoints[q.index]
             tried == Append(q.tried, addr)
             m == [q EXCEPT !.pc = "pick", !.tried = tried]
             n == [m EXCEPT !.index = 0]
  <2>1. q.pc = "connect" /\ UNCHANGED gens BY <1>5 DEF FailToConnect
  <2>2. CASE ~ConnectRetries(r, tried)
    <3>1. reqs' = Done(r) BY <1>5, <2>2 DEF FailToConnect, EndpointsOf
    <3> QED BY <1>2, <2>1, <3>1
  <2>3. CASE ConnectRetries(r, tried)
    <3>1. reqs' = [reqs EXCEPT ![r] = n] BY <1>5, <2>3 DEF FailToConnect, EndpointsOf, ReqsInv
    <3>2. addr \in Addrs
      <4>1. q.gen \in 1 .. Len(gens) /\ q.index \in 1 .. Len(gens[q.gen].endpoints)
            /\ addr # Unparsed
        BY <1>1, <2>1 DEF ReqOK
      <4>2. gens[q.gen] \in Generation BY <4>1 DEF GensInv
      <4>3. gens[q.gen].endpoints \in Seq(Addrs \union {Unparsed})
        BY <4>2, AttemptsAssumption DEF Generation
      <4> QED BY <4>1, <4>3
    <3> HIDE DEF addr
    <3>3. /\ q.tried \in Seq(Addrs) /\ tried \in Seq(Addrs) /\ Len(tried) = Len(q.tried) + 1
          /\ \A j \in 1 .. Len(q.tried) : tried[j] = q.tried[j]
          /\ tried[Len(q.tried) + 1] = addr
      BY <1>1, <3>2 DEF Ctx
    <3>4. Len(tried) < MaxAttempts BY <2>3 DEF ConnectRetries
    <3> HIDE DEF tried
    <3>5. m \in Ctx /\ n \in Ctx
      <4> HIDE DEF q
      <4>1. m \in Ctx BY <1>1, <3>3 DEF Ctx, Places
      <4> HIDE DEF m
      <4> QED BY <4>1 DEF Ctx
    <3>6. /\ n.pc = "pick" /\ n.gen = q.gen /\ n.tried = tried
          /\ n.reuseRetries = q.reuseRetries /\ n.attempts = q.attempts /\ n.sent = q.sent
      <4> HIDE DEF q
      <4> QED BY <1>1 DEF Ctx
    <3>7. \A j \in 1 .. Len(q.tried) : q.tried[j] # addr BY <1>1, <2>1 DEF ReqOK, addr
    <3>8. \A i, j \in 1 .. Len(tried) : tried[i] = tried[j] => i = j
      <4>1. \A i, j \in 1 .. Len(q.tried) : q.tried[i] = q.tried[j] => i = j
        BY <1>1 DEF ReqOK
      <4>2. Len(q.tried) \in Nat BY <3>3
      <4>3. \A i \in 1 .. Len(tried) : i \in 1 .. Len(q.tried) \/ i = Len(q.tried) + 1
        BY <3>3, <4>2
      <4> HIDE DEF q
      <4> QED BY <3>3, <3>7, <4>1, <4>2, <4>3
    <3> HIDE DEF n, q
    <3>9. Len(q.tried) \in Nat /\ q.reuseRetries \in {0, 1} BY <1>1 DEF Ctx
    <3>10. ReqOK(r, n, gens)
      BY <1>1, <2>1, <3>3, <3>4, <3>6, <3>8, <3>9 DEF ReqOK, One
    <3> QED BY <2>1, <3>1, <3>5, <3>10, OneRequest
  <2> QED BY <2>2, <2>3
<1>6. ASSUME NoPeer(r) \/ TimedOut(r) \/ Answered(r) \/ Dropped(r) PROVE ReqsInv'
  BY <1>2, <1>6 DEF NoPeer, TimedOut, Answered, Dropped
<1>7. ASSUME NEW b \in BOOLEAN, Connected(r, b) PROVE ReqsInv'
  <2> DEFINE m == [q EXCEPT !.pc = "sent", !.reused = b]
             n == [m EXCEPT !.sent = q.sent + 1]
  <2>1. reqs' = [reqs EXCEPT ![r] = n] /\ UNCHANGED gens /\ q.pc = "connect"
    BY <1>7 DEF Connected, ReqsInv
  <2>2. m \in Ctx /\ n \in Ctx
    <3>1. q.sent + 1 \in Nat BY <1>1 DEF Ctx
    <3> HIDE DEF q
    <3>2. m \in Ctx BY <1>1 DEF Ctx, Places
    <3> HIDE DEF m
    <3> QED BY <3>1, <3>2 DEF Ctx
  <2>3. /\ n.pc = "sent" /\ n.gen = q.gen /\ n.tried = q.tried /\ n.index = q.index
        /\ n.reuseRetries = q.reuseRetries /\ n.attempts = q.attempts /\ n.sent = q.sent + 1
    <3> HIDE DEF q
    <3> QED BY <1>1 DEF Ctx
  <2> HIDE DEF n, q
  <2>4. Len(q.tried) \in Nat /\ q.reuseRetries \in {0, 1} BY <1>1 DEF Ctx
  <2>5. ReqOK(r, n, gens) BY <1>1, <2>1, <2>3, <2>4 DEF ReqOK, One
  <2> QED BY <2>1, <2>2, <2>5, OneRequest
<1>8. ASSUME NEW b \in BOOLEAN, FinalHead(r, b) PROVE ReqsInv'
  <2> DEFINE pc == IF b THEN "refusal" ELSE "body"
             n == [Idle EXCEPT !.pc = pc, !.gen = q.gen, !.index = q.index]
  <2>1. reqs' = [reqs EXCEPT ![r] = n] /\ UNCHANGED gens /\ q.pc = "sent"
    BY <1>8 DEF FinalHead
  <2>2. pc \in {"body", "refusal"} OBVIOUS
  <2>3. n \in Ctx
    <3> DEFINE m == [Idle EXCEPT !.pc = pc, !.gen = q.gen]
    <3>1. Idle \in Ctx /\ q.gen \in Nat /\ q.index \in Nat BY <1>1, IdleOK DEF Ctx
    <3>2. n = [m EXCEPT !.index = q.index] OBVIOUS
    <3> HIDE DEF pc, q
    <3>3. m \in Ctx BY <2>2, <3>1 DEF Ctx, Places
    <3> HIDE DEF m, n
    <3> QED BY <3>1, <3>2, <3>3 DEF Ctx
  <2> HIDE DEF pc, q
  <2>4. /\ n.pc = pc /\ n.gen = q.gen /\ n.index = q.index
        /\ n.tried = <<>> /\ n.reuseRetries = 0 /\ n.attempts = 0 /\ n.sent = 0
    BY DEF Idle
  <2> HIDE DEF n
  <2>5. ReqOK(r, n, gens) BY <1>1, <2>1, <2>2, <2>4 DEF ReqOK, One
  <2> QED BY <2>1, <2>3, <2>5, OneRequest
<1>9. ASSUME NEW b \in BOOLEAN, ErrorWhileProxy(r, b) PROVE ReqsInv'
  <2> DEFINE m == [q EXCEPT !.pc = "pick", !.reuseRetries = 1]
             n == [m EXCEPT !.index = 0, !.reused = FALSE]
  <2>1. q.pc = "sent" /\ UNCHANGED gens BY <1>9 DEF ErrorWhileProxy
  <2>2. CASE ~ReuseRetries(r, b)
    <3>1. reqs' = Done(r) BY <1>9, <2>2 DEF ErrorWhileProxy
    <3> QED BY <1>2, <2>1, <3>1
  <2>3. CASE ReuseRetries(r, b)
    <3>1. reqs' = [reqs EXCEPT ![r] = n] BY <1>9, <2>3 DEF ErrorWhileProxy, ReqsInv
    <3>2. q.reuseRetries = 0 /\ r \in Idempotent
      BY <1>1, <2>3 DEF ReuseRetries, Ctx
    <3>3. m \in Ctx /\ n \in Ctx
      <4> HIDE DEF q
      <4>1. m \in Ctx BY <1>1 DEF Ctx, Places
      <4> HIDE DEF m
      <4> QED BY <4>1 DEF Ctx
    <3>4. /\ n.pc = "pick" /\ n.gen = q.gen /\ n.tried = q.tried
          /\ n.reuseRetries = 1 /\ n.attempts = q.attempts /\ n.sent = q.sent
      <4> HIDE DEF q
      <4> QED BY <1>1 DEF Ctx
    <3> HIDE DEF n, q
    <3>5. Len(q.tried) \in Nat BY <1>1 DEF Ctx
    <3>6. ReqOK(r, n, gens) BY <1>1, <2>1, <3>2, <3>4, <3>5 DEF ReqOK, One
    <3> QED BY <2>1, <3>1, <3>3, <3>6, OneRequest
  <2> QED BY <2>2, <2>3
<1> QED BY <1>3, <1>4, <1>5, <1>6, <1>7, <1>8, <1>9

(* A swap leaves every request with the generation it holds. *)
LEMMA ReqsSwap ==
    ASSUME GensInv, ReqsInv, NEW eps \in EndpointLists, Swap(eps)
    PROVE  ReqsInv'
<1>1. reqs' = reqs BY DEF Swap
<1>2. Len(gens') = Len(gens) + 1 /\ Len(gens) \in Nat
      /\ \A g \in 1 .. Len(gens) : gens'[g] = gens[g]
  BY SwapKeeps DEF GensInv
<1>3. ASSUME NEW r \in Requests PROVE ReqOK(r, reqs[r], gens')
  <2> DEFINE q == reqs[r]
  <2>1. q \in Ctx /\ ReqOK(r, q, gens) BY DEF ReqsInv
  <2>2. q.pc # "idle" => q.gen \in 1 .. Len(gens) /\ gens'[q.gen] = gens[q.gen]
    BY <1>2, <2>1 DEF ReqOK
  <2>3. q.gen \in 1 .. Len(gens) => q.gen \in 1 .. Len(gens') BY <1>2
  <2>4. q.pc \in {"connect", "sent", "body", "refusal"} => q.pc # "idle" OBVIOUS
  <2> HIDE DEF q
  <2>5. ReqOK(r, q, gens') BY <2>1, <2>2, <2>3, <2>4 DEF ReqOK
  <2> QED BY <2>5 DEF q
<1> QED BY <1>1, <1>3 DEF ReqsInv

(* The requests' counts hold throughout. *)
LEMMA ReqsAlways == Spec => []ReqsInv
<1>1. Init => ReqsInv
  <2> SUFFICES ASSUME Init PROVE ReqsInv
    OBVIOUS
  <2>1. reqs = [r \in Requests |-> Idle] BY DEF Init
  <2> QED BY <2>1, IdleOK DEF ReqsInv
<1>2. GensInv /\ HealthInv /\ ReqsInv /\ [Next]_vars => ReqsInv'
  <2> SUFFICES ASSUME GensInv, HealthInv, ReqsInv, [Next]_vars PROVE ReqsInv'
    OBVIOUS
  <2>1. clock \in Nat BY DEF HealthInv
  <2>2. CASE UNCHANGED vars BY <2>2 DEF ReqsInv, vars
  <2>3. CASE Tick BY <2>3 DEF ReqsInv, Tick
  <2>4. ASSUME NEW eps \in EndpointLists, Swap(eps) PROVE ReqsInv' BY <2>4, ReqsSwap
  <2>5. ASSUME NEW r \in Requests,
               \/ Start(r) \/ Peer(r) \/ NoPeer(r) \/ FailToConnect(r)
               \/ TimedOut(r) \/ Answered(r) \/ Dropped(r)
               \/ \E b \in BOOLEAN : Connected(r, b) \/ FinalHead(r, b) \/ ErrorWhileProxy(r, b)
        PROVE  ReqsInv'
    BY <2>1, <2>5, ReqStep
  <2> QED BY <2>2, <2>3, <2>4, <2>5 DEF Next
<1> QED BY <1>1, <1>2, GensAlways, HealthAlways, PTL DEF Spec

(* fail_to_connect and error_while_proxy: however requests, failures and   *)
(* swaps interleave, a request makes at most MAX_ATTEMPTS and one attempts, *)
(* never comes back to an address it could not connect to, and is sent     *)
(* again only when it is idempotent, and once.                             *)
THEOREM RetriesAreBounded == Spec => []RetriesBounded
<1>1. ReqsInv => RetriesBounded
  <2> SUFFICES ASSUME ReqsInv, NEW r \in Requests
               PROVE  /\ reqs[r].attempts <= MaxAttempts + 1
                      /\ reqs[r].sent <= IF r \in Idempotent THEN 2 ELSE 1
                      /\ \A i, j \in DOMAIN reqs[r].tried :
                           reqs[r].tried[i] = reqs[r].tried[j] => i = j
    BY DEF RetriesBounded
  <2> DEFINE q == reqs[r]
  <2>1. q \in Ctx /\ ReqOK(r, q, gens) BY DEF ReqsInv
  <2> HIDE DEF q
  <2>2. /\ q.tried \in Seq(Addrs) /\ Len(q.tried) \in Nat /\ DOMAIN q.tried = 1 .. Len(q.tried)
        /\ q.reuseRetries \in {0, 1}
    BY <2>1 DEF Ctx
  <2>3. q.attempts <= MaxAttempts + 1 /\ q.sent <= IF r \in Idempotent THEN 2 ELSE 1
    <3>1. CASE q.pc \in {"pick", "connect", "sent"}
      BY <2>1, <2>2, <3>1, AttemptsAssumption DEF ReqOK, One
    <3>2. CASE q.pc \in {"idle", "body", "refusal"}
      BY <2>1, <3>2, AttemptsAssumption DEF ReqOK
    <3> QED BY <2>1, <3>1, <3>2 DEF Ctx, Places
  <2>4. \A i, j \in DOMAIN q.tried : q.tried[i] = q.tried[j] => i = j BY <2>1, <2>2 DEF ReqOK
  <2> QED BY <2>3, <2>4 DEF q
<1> QED BY <1>1, ReqsAlways, PTL

(* Health::record, Registry::sync and Ctx keep their shapes: no counter    *)
(* stands at the number that ejects or clears, and every attempt is at an  *)
(* endpoint that has a record.                                             *)
THEOREM AttemptsTyped == Spec => []TypeOK
<1>1. GensInv /\ HealthInv /\ ReqsInv => TypeOK
  <2> SUFFICES ASSUME GensInv, HealthInv, ReqsInv PROVE TypeOK
    OBVIOUS
  <2>1. gens # <<>> /\ DOMAIN gens = 1 .. Len(gens) BY DEF GensInv
  <2>2. ASSUME NEW g \in 1 .. Len(gens)
        PROVE  /\ gens[g].endpoints \in EndpointLists /\ GenOK(gens[g])
               /\ DOMAIN gens[g].endpoints = 1 .. Len(gens[g].endpoints)
               /\ gens[g].records \in [DOMAIN gens[g].endpoints -> Records \union {NoRecord}]
    <3>1. gens[g] \in Generation /\ GenOK(gens[g]) BY DEF GensInv
    <3>2. /\ gens[g].endpoints \in EndpointLists
          /\ gens[g].records \in Seq(Records \union {NoRecord})
      BY <3>1 DEF Generation
    <3>3. gens[g].endpoints \in Seq(Addrs \union {Unparsed}) BY <3>2, AttemptsAssumption
    <3>4. Len(gens[g].records) = Len(gens[g].endpoints) BY <3>1 DEF GenOK
    <3> QED BY <3>1, <3>2, <3>3, <3>4
  <2>3. ASSUME NEW h \in Records
        PROVE  /\ health[h] \in [failures : Nat, successes : Nat, ejections : Nat, until : Nat]
               /\ health[h].failures > 0
                    => health[h].failures < ConsecutiveFailures /\ health[h].ejections = 0
               /\ health[h].successes > 0 => health[h].successes < SuccessesToRecover
    BY DEF HealthInv, Counters, CountersOK
  <2>4. NoRecord \notin Records
    <3>1. \A h \in Records : Len(h) = 2 BY DEF Records
    <3>2. Len(NoRecord) = 0 BY DEF NoRecord
    <3> QED BY <3>1, <3>2
  <2>5. ASSUME NEW r \in Requests
        PROVE  /\ reqs[r].pc \in {"idle", "pick", "connect", "sent", "body", "refusal"}
               /\ reqs[r].pc # "idle" => reqs[r].gen \in DOMAIN gens
               /\ reqs[r].pc \in {"connect", "sent", "body", "refusal"}
                    => reqs[r].index \in DOMAIN EndpointsOf(r) /\ RecordOf(r) # NoRecord
    <3> DEFINE q == reqs[r]
    <3>1. q \in Ctx /\ ReqOK(r, q, gens) BY DEF ReqsInv
    <3>2. q.pc \in Places BY <3>1 DEF Ctx
    <3>3. q.pc # "idle" => q.gen \in 1 .. Len(gens) BY <3>1 DEF ReqOK
    <3>4. ASSUME q.pc \in {"connect", "sent", "body", "refusal"}
          PROVE  q.index \in DOMAIN EndpointsOf(r) /\ RecordOf(r) # NoRecord
      <4>1. q.gen \in 1 .. Len(gens) BY <3>3, <3>4
      <4>2. /\ q.index \in 1 .. Len(gens[q.gen].endpoints)
            /\ gens[q.gen].endpoints[q.index] # Unparsed
        BY <3>1, <3>4 DEF ReqOK
      <4>3. gens[q.gen].records[q.index] \in Records BY <2>2, <4>1, <4>2 DEF GenOK
      <4> QED BY <2>2, <2>4, <4>1, <4>2, <4>3 DEF EndpointsOf, RecordOf, RecordsOf
    <3> QED BY <2>1, <3>2, <3>3, <3>4 DEF Places
  <2>6. clock \in Nat BY DEF HealthInv
  <2> QED BY <2>1, <2>2, <2>3, <2>5, <2>6 DEF TypeOK
<1> QED BY <1>1, GensAlways, HealthAlways, ReqsAlways, PTL

-----------------------------------------------------------------------------
(* Records and generations.  A record carries the generation it was made   *)
(* in, so one made anew differs from every earlier one; and an address     *)
(* named twice has one record.                                             *)
Made(gen, g) ==
    /\ \A i \in 1 .. Len(gen.endpoints) : gen.endpoints[i] # Unparsed => gen.records[i][2] <= g
    /\ \A i, j \in 1 .. Len(gen.endpoints) :
         gen.endpoints[i] # Unparsed /\ gen.endpoints[i] = gen.endpoints[j] =>
           gen.records[i] = gen.records[j]

Holds(gen, a) == \E k \in 1 .. Len(gen.endpoints) : gen.endpoints[k] = a

(* Generation g holds the records of f for exactly the addresses that were *)
(* in every generation between.                                            *)
FollowsFrom(gs, f, g) ==
    \A i \in 1 .. Len(gs[g].endpoints), j \in 1 .. Len(gs[f].endpoints) :
      gs[g].endpoints[i] = gs[f].endpoints[j] /\ gs[g].endpoints[i] # Unparsed =>
        (gs[g].records[i] = gs[f].records[j] <=> \A m \in f .. g : Holds(gs[m], gs[g].endpoints[i]))

FollowInv ==
    /\ \A g \in 1 .. Len(gens) : Made(gens[g], g)
    /\ \A f, g \in 1 .. Len(gens) : f < g => FollowsFrom(gens, f, g)

(* Registry::sync: the record of the generation before, or a new one. *)
LEMMA SyncFollows ==
    ASSUME GensInv, NEW eps \in EndpointLists, NEW i \in 1 .. Len(eps), eps[i] # Unparsed
    PROVE  LET new == Sync(eps, Len(gens) + 1)
               old == gens[Len(gens)]
           IN  /\ \A k \in 1 .. Len(eps) : eps[k] = eps[i] => new[k] = new[i]
               /\ \/ \E j \in 1 .. Len(old.endpoints) :
                       old.endpoints[j] = eps[i] /\ new[i] = old.records[j]
                  \/ ~Holds(old, eps[i]) /\ new[i] = <<eps[i], Len(gens) + 1>>
<1> DEFINE g == Len(gens) + 1
           old == gens[Len(gens)]
           kept(a) == {old.records[j] : j \in {j \in DOMAIN old.endpoints : old.endpoints[j] = a}}
           rec(a) == IF a = Unparsed THEN NoRecord
                     ELSE IF g > 1 /\ kept(a) # {} THEN CHOOSE h \in kept(a) : TRUE
                     ELSE <<a, g>>
           new == Sync(eps, g)
<1>1. DOMAIN eps = 1 .. Len(eps) BY AttemptsAssumption
<1>2. g > 1 /\ g - 1 = Len(gens) BY AttemptsAssumption DEF GensInv
<1>3. DOMAIN old.endpoints = 1 .. Len(old.endpoints)
  <2>1. old \in Generation BY <1>2 DEF GensInv
  <2>2. old.endpoints \in Seq(Addrs \union {Unparsed}) BY <2>1, AttemptsAssumption DEF Generation
  <2> QED BY <2>2
<1>4. new = [k \in DOMAIN eps |-> rec(eps[k])] BY <1>2 DEF Sync
<1>5. \A k \in 1 .. Len(eps) : new[k] = rec(eps[k])
  <2> HIDE DEF new, rec
  <2> QED BY <1>1, <1>4
<1>6. \A k \in 1 .. Len(eps) : eps[k] = eps[i] => new[k] = new[i]
  <2> HIDE DEF new, rec
  <2> QED BY <1>5
<1>7. CASE kept(eps[i]) # {}
  <2> DEFINE K == kept(eps[i])
  <2>1. new[i] = CHOOSE h \in K : TRUE
    <3>1. rec(eps[i]) = CHOOSE h \in K : TRUE BY <1>2, <1>7
    <3> HIDE DEF new, rec, K
    <3> QED BY <1>5, <3>1
  <2>2. (CHOOSE h \in K : TRUE) \in K
    <3>1. K # {} BY <1>7
    <3> HIDE DEF K
    <3> QED BY <3>1
  <2>3. new[i] \in K BY <2>1, <2>2
  <2>4. \E j \in DOMAIN old.endpoints : old.endpoints[j] = eps[i] /\ new[i] = old.records[j]
    <3> HIDE DEF new, old
    <3> QED BY <2>3
  <2> HIDE DEF kept, rec, K
  <2> QED BY <1>3, <1>6, <2>4
<1>8. CASE kept(eps[i]) = {}
  <2>1. rec(eps[i]) = <<eps[i], g>> BY <1>8
  <2>2. ~Holds(old, eps[i])
    <3> HIDE DEF old
    <3> QED BY <1>3, <1>8 DEF Holds
  <2> HIDE DEF kept, rec
  <2> QED BY <1>5, <1>6, <2>1, <2>2
<1> QED BY <1>7, <1>8

(* A swap: the generation added follows from every generation before it. *)
LEMMA FollowSwap ==
    ASSUME GensInv, FollowInv, NEW eps \in EndpointLists, Swap(eps)
    PROVE  FollowInv'
<1> DEFINE gs == gens'
           n == Len(gens)
<1>1. n \in Nat /\ n >= 1 BY AttemptsAssumption DEF GensInv
<1>2. /\ GensInv' /\ Len(gs) = n + 1
      /\ \A g \in 1 .. n : gs[g] = gens[g]
  BY SwapKeeps
<1>3. gs[n + 1] = [endpoints |-> eps, records |-> Sync(eps, n + 1)]
  <2>1. gens \in Seq(Generation) BY DEF GensInv
  <2>2. gens' = Append(gens, [endpoints |-> eps, records |-> Sync(eps, n + 1)])
    BY DEF Swap, Current
  <2>3. PICK gen : gen = [endpoints |-> eps, records |-> Sync(eps, n + 1)] OBVIOUS
  <2>4. gens' = Append(gens, gen) BY <2>2, <2>3
  <2>5. Append(gens, gen)[n + 1] = gen BY <2>1
  <2> QED BY <2>3, <2>4, <2>5
<1>4. PICK new : new = Sync(eps, n + 1) OBVIOUS
<1>5. gs[n + 1].endpoints = eps /\ gs[n + 1].records = new BY <1>3, <1>4
<1>6. PICK old : old = gens[n] OBVIOUS
<1>7. ASSUME NEW i \in 1 .. Len(eps), eps[i] # Unparsed
      PROVE  /\ \A k \in 1 .. Len(eps) : eps[k] = eps[i] => new[k] = new[i]
             /\ \/ \E j \in 1 .. Len(old.endpoints) :
                     old.endpoints[j] = eps[i] /\ new[i] = old.records[j]
                \/ ~Holds(old, eps[i]) /\ new[i] = <<eps[i], n + 1>>
  BY <1>4, <1>6, <1>7, SyncFollows
<1>8. ASSUME NEW f \in 1 .. n, NEW j \in 1 .. Len(gens[f].endpoints), gens[f].endpoints[j] # Unparsed
      PROVE  gens[f].records[j] \in Records /\ gens[f].records[j][2] \in Nat
             /\ gens[f].records[j][2] <= f
  <2>1. gens[f].records[j] \in Records BY <1>8 DEF GensInv, GenOK
  <2>2. gens[f].records[j][2] \in Nat BY <2>1, AttemptsAssumption DEF Records
  <2> QED BY <1>8, <2>1, <2>2 DEF FollowInv, Made
<1>9. Made(gs[n + 1], n + 1)
  <2>1. ASSUME NEW i \in 1 .. Len(eps), eps[i] # Unparsed PROVE new[i][2] <= n + 1
    <3>1. ASSUME NEW j \in 1 .. Len(old.endpoints), old.endpoints[j] = eps[i], new[i] = old.records[j]
          PROVE  new[i][2] <= n + 1
      <4>1. n \in 1 .. n BY <1>1
      <4>2. new[i][2] \in Nat /\ new[i][2] <= n BY <1>6, <1>8, <2>1, <3>1, <4>1
      <4> QED BY <1>1, <4>2
    <3>2. CASE new[i] = <<eps[i], n + 1>> BY <1>1, <3>2
    <3> QED BY <1>7, <2>1, <3>1, <3>2
  <2> QED BY <1>5, <1>7, <2>1 DEF Made
<1>10. ASSUME NEW f \in 1 .. n PROVE FollowsFrom(gs, f, n + 1)
  <2> SUFFICES ASSUME NEW i \in 1 .. Len(eps), NEW j \in 1 .. Len(gens[f].endpoints),
                      eps[i] = gens[f].endpoints[j], eps[i] # Unparsed
               PROVE  new[i] = gens[f].records[j]
                        <=> \A m \in f .. n + 1 : Holds(gs[m], eps[i])
    BY <1>2, <1>5 DEF FollowsFrom
  <2>1. Holds(gs[n + 1], eps[i]) BY <1>5 DEF Holds
  <2>2. (\A m \in f .. n + 1 : Holds(gs[m], eps[i])) <=> \A m \in f .. n : Holds(gens[m], eps[i])
    <3>1. \A m \in f .. n + 1 : m \in f .. n \/ m = n + 1 BY <1>1
    <3>2. \A m \in f .. n : m \in 1 .. n /\ m \in f .. n + 1 BY <1>1
    <3> QED BY <1>2, <2>1, <3>1, <3>2
  <2>3. CASE ~Holds(old, eps[i]) /\ new[i] = <<eps[i], n + 1>>
    <3>1. n \in f .. n BY <1>1
    <3>2. new[i][2] = n + 1 BY <2>3
    <3>3. gens[f].records[j][2] \in Nat /\ gens[f].records[j][2] <= f BY <1>8
    <3>4. new[i][2] # gens[f].records[j][2] BY <1>1, <3>2, <3>3
    <3> QED BY <1>6, <2>2, <2>3, <3>1, <3>4
  <2>4. ASSUME NEW k \in 1 .. Len(old.endpoints), old.endpoints[k] = eps[i], new[i] = old.records[k]
        PROVE  new[i] = gens[f].records[j] <=> \A m \in f .. n : Holds(gens[m], eps[i])
    <3>1. n \in 1 .. n BY <1>1
    <3>2. CASE f = n
      <4>1. new[i] = gens[f].records[j]
        <5>1. Made(gens[n], n) BY <3>1 DEF FollowInv
        <5> QED BY <1>6, <2>4, <3>2, <5>1 DEF Made
      <4>2. \A m \in f .. n : m = n BY <1>1, <3>2
      <4>3. Holds(gens[n], eps[i]) BY <1>6, <2>4 DEF Holds
      <4> QED BY <4>1, <4>2, <4>3
    <3>3. CASE f # n
      <4>1. f < n BY <1>1, <3>3
      <4>2. FollowsFrom(gens, f, n) BY <3>1, <4>1 DEF FollowInv
      <4> QED BY <1>6, <2>4, <4>2 DEF FollowsFrom
    <3> QED BY <3>2, <3>3
  <2> QED BY <1>7, <2>2, <2>3, <2>4
<1>11. ASSUME NEW f \in 1 .. n, NEW g \in 1 .. n, f < g PROVE FollowsFrom(gs, f, g)
  <2>1. FollowsFrom(gens, f, g) BY <1>11 DEF FollowInv
  <2>2. \A m \in f .. g : m \in 1 .. n BY <1>1
  <2>3. gs[f] = gens[f] /\ gs[g] = gens[g] /\ \A m \in f .. g : gs[m] = gens[m] BY <1>2, <2>2
  <2> HIDE DEF gs
  <2> QED BY <2>1, <2>3 DEF FollowsFrom
<1>12. \A g \in 1 .. n + 1 : g \in 1 .. n \/ g = n + 1 BY <1>1
<1>13. \A g \in 1 .. n + 1 : Made(gs[g], g) BY <1>2, <1>9, <1>12 DEF FollowInv
<1>14. \A f, g \in 1 .. n + 1 : f < g => FollowsFrom(gs, f, g)
  <2> SUFFICES ASSUME NEW f \in 1 .. n + 1, NEW g \in 1 .. n + 1, f < g PROVE FollowsFrom(gs, f, g)
    OBVIOUS
  <2>1. f \in 1 .. n BY <1>1
  <2> QED BY <1>10, <1>11, <1>12, <2>1
<1> QED BY <1>2, <1>13, <1>14 DEF FollowInv

(* Registry::sync: through any number of swaps an address that stays keeps *)
(* its record, and one that comes back has a new one.                      *)
THEOREM RecordsFollow == Spec => []RecordsFollowAddresses
<1>1. Init => FollowInv
  <2> SUFFICES ASSUME Init PROVE FollowInv
    OBVIOUS
  <2>1. PICK eps \in EndpointLists :
          gens = <<[endpoints |-> eps,
                    records |-> [i \in DOMAIN eps |-> IF eps[i] = Unparsed THEN NoRecord
                                                      ELSE <<eps[i], 1>>]]>>
    BY DEF Init
  <2>2. DOMAIN eps = 1 .. Len(eps) BY AttemptsAssumption
  <2>3. PICK recs : recs = [i \in DOMAIN eps |-> IF eps[i] = Unparsed THEN NoRecord ELSE <<eps[i], 1>>]
    OBVIOUS
  <2>4. gens = <<[endpoints |-> eps, records |-> recs]>> BY <2>1, <2>3
  <2>5. Len(gens) = 1 /\ gens[1].endpoints = eps /\ gens[1].records = recs BY <2>4
  <2>6. \A i \in 1 .. Len(eps) : eps[i] # Unparsed => recs[i] = <<eps[i], 1>> BY <2>2, <2>3
  <2>7. \A i \in 1 .. Len(eps) : eps[i] # Unparsed => recs[i][2] <= 1 BY <2>6
  <2>8. \A i, j \in 1 .. Len(eps) : eps[i] # Unparsed /\ eps[i] = eps[j] => recs[i] = recs[j]
    BY <2>6
  <2>9. Made(gens[1], 1) BY <2>5, <2>7, <2>8 DEF Made
  <2>10. \A g \in 1 .. 1 : g = 1 OBVIOUS
  <2> QED BY <2>5, <2>9, <2>10 DEF FollowInv
<1>2. GensInv /\ FollowInv /\ [Next]_vars => FollowInv'
  <2> SUFFICES ASSUME GensInv, FollowInv, [Next]_vars PROVE FollowInv'
    OBVIOUS
  <2>1. CASE UNCHANGED gens BY <2>1 DEF FollowInv
  <2>2. ASSUME NEW eps \in EndpointLists, Swap(eps) PROVE FollowInv' BY <2>2, FollowSwap
  <2> QED BY <2>1, <2>2, GensMove
<1>3. GensInv /\ FollowInv => RecordsFollowAddresses
  <2> SUFFICES ASSUME GensInv, FollowInv,
                      NEW g \in DOMAIN gens, NEW f \in DOMAIN gens, f < g,
                      NEW i \in DOMAIN gens[g].endpoints, NEW j \in DOMAIN gens[f].endpoints,
                      gens[g].endpoints[i] = gens[f].endpoints[j] /\ gens[g].endpoints[i] # Unparsed
               PROVE  gens[g].records[i] = gens[f].records[j]
                        <=> \A m \in f .. g : \E k \in DOMAIN gens[m].endpoints :
                              gens[m].endpoints[k] = gens[g].endpoints[i]
    BY DEF RecordsFollowAddresses
  <2>1. DOMAIN gens = 1 .. Len(gens) BY DEF GensInv
  <2>2. ASSUME NEW m \in 1 .. Len(gens) PROVE DOMAIN gens[m].endpoints = 1 .. Len(gens[m].endpoints)
    <3>1. gens[m] \in Generation BY DEF GensInv
    <3>2. gens[m].endpoints \in Seq(Addrs \union {Unparsed}) BY <3>1, AttemptsAssumption DEF Generation
    <3> QED BY <3>2
  <2>3. FollowsFrom(gens, f, g) BY <2>1 DEF FollowInv
  <2>4. gens[g].records[i] = gens[f].records[j]
          <=> \A m \in f .. g : Holds(gens[m], gens[g].endpoints[i])
    BY <2>1, <2>2, <2>3 DEF FollowsFrom
  <2>5. \A m \in f .. g : m \in 1 .. Len(gens) BY <2>1
  <2> QED BY <2>2, <2>4, <2>5 DEF Holds
<1> QED BY <1>1, <1>2, <1>3, GensAlways, PTL DEF Spec
=============================================================================
