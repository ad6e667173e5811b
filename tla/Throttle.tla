------------------------------- MODULE Throttle -------------------------------
(***************************************************************************)
(* The console's limits on sign-in and sign-up attempts                    *)
(* (crates/gapura-control/src/throttle.rs).  An attempt is let through and *)
(* reserved against its counters in one critical section, and settled in   *)
(* another when it fails, succeeds, is refunded or is dropped.  Both       *)
(* policies are instances: SIGN_IN counts a name at an address and the     *)
(* address, SIGN_UP counts the address under two windows.                  *)
(*                                                                         *)
(* An address is a bucket (an IPv4 address, an IPv6 /64) and a name is its *)
(* lowercased form.  A caller reads the clock before it gets the mutex, so *)
(* a critical section may work with an instant up to MaxLag old.           *)
(***************************************************************************)
EXTENDS Integers, Sequences, FiniteSets

CONSTANTS
    Names, NoName,      \* the user names; NoName where the attempt names no account
    Addrs,              \* the addresses
    Requests,           \* the requests that may hold an attempt
    PairRules,          \* << rule >> when a name at an address is counted, else << >>
    AddressRules,       \* the rules every address is counted under, in order
    Limit, Window, Lock,\* each rule's limit, window and lock
    FailClosed,         \* Policy::fail_closed
    OnDrop,             \* Policy::on_drop, "failed" or "refunded"
    Capacity,           \* Throttle::capacity
    MaxLag,             \* bound: how old the instant of a critical section is
    MaxTime             \* bound: the last instant looked at

Rules == {PairRules[i] : i \in DOMAIN PairRules}
           \union {AddressRules[i] : i \in DOMAIN AddressRules}

ASSUME PolicyAssumption ==
    /\ PairRules \in Seq(Rules) /\ Len(PairRules) <= 1
    /\ AddressRules \in Seq(Rules) /\ Len(AddressRules) >= 1
    /\ \A i, j \in DOMAIN AddressRules : AddressRules[i] = AddressRules[j] => i = j
    /\ Limit \in [Rules -> Nat \ {0}]
    /\ Window \in [Rules -> Nat \ {0}]
    /\ Lock \in [Rules -> Nat \ {0}]
    /\ FailClosed \in BOOLEAN /\ OnDrop \in {"failed", "refunded"}
    /\ Capacity \in Nat \ {0} /\ MaxLag \in Nat /\ MaxTime \in Nat
    /\ NoName \notin Names

VARIABLES
    counters,  \* the map from the keys it holds to their counters
    attempts,  \* Attempt::keys of each request, << >> when it holds none
    clock,     \* the monotonic clock
    uncounted  \* history: an attempt went uncounted at a full map

throttleVars == <<counters, attempts, clock, uncounted>>

Key == [rule : Rules, name : Names \union {NoName}, addr : Addrs]

IsPair(k) == k.name # NoName

Unlocked == 0  \* locked_until: None

Counter == [failures : Nat, pending : Nat, since : Nat, until : Nat]

ThrottleTypeOK ==
    /\ DOMAIN counters \subseteq Key
    /\ \A k \in DOMAIN counters : counters[k] \in Counter
    /\ attempts \in [Requests -> Seq([key : Key, reserved : BOOLEAN])]
    /\ clock \in Nat /\ uncounted \in BOOLEAN

ThrottleInit ==
    /\ counters = << >>
    /\ attempts = [r \in Requests |-> << >>]
    /\ clock = 1 /\ uncounted = FALSE

-----------------------------------------------------------------------------
(* struct Counter *)

Fresh(t) == [failures |-> 0, pending |-> 0, since |-> t, until |-> Unlocked]

Locked(c, t) == c.until > t

Lapsed(k, c, t) == ~Locked(c, t) /\ t >= c.since + Window[k.rule]

Expired(k, c, t) == c.pending = 0 /\ Lapsed(k, c, t)

(* Mutant: only settled failures count. *)
MustWaitSettled(k, c, t) ==
    \/ Locked(c, t)
    \/ (IF Lapsed(k, c, t) THEN 0 ELSE c.failures) >= Limit[k.rule]

(* Counter::wait is Some: locked, or the failures and the attempts in flight *)
(* reach the limit.                                                          *)
MustWait(k, c, t) ==
    \/ Locked(c, t)
    \/ (IF Lapsed(k, c, t) THEN 0 ELSE c.failures) + c.pending >= Limit[k.rule]

-----------------------------------------------------------------------------
(* fn counter: the entry for a key, made or restarted, if there is room. *)

Swept(tab, k, t) ==
    IF k \notin DOMAIN tab /\ Cardinality(DOMAIN tab) >= Capacity
    THEN [j \in {i \in DOMAIN tab : ~Expired(i, tab[i], t)} |-> tab[j]]
    ELSE tab

(* Mutant: off by one at the capacity. *)
HasRoomForOneMore(tab, k, t) ==
    k \in DOMAIN tab \/ Cardinality(DOMAIN Swept(tab, k, t)) <= Capacity

HasRoom(tab, k, t) ==
    k \in DOMAIN tab \/ Cardinality(DOMAIN Swept(tab, k, t)) < Capacity

(* A lapsed counter starts over, its attempts in flight stay counted. *)
Restarted(k, c, t) ==
    IF Lapsed(k, c, t) THEN [Fresh(t) EXCEPT !.pending = c.pending] ELSE c

Obtained(tab, k, t) ==
    LET swept == Swept(tab, k, t)
        found == IF k \in DOMAIN swept THEN swept[k] ELSE Fresh(t)
    IN  [j \in DOMAIN swept \union {k} |-> IF j = k THEN Restarted(k, found, t) ELSE swept[j]]

-----------------------------------------------------------------------------
(* reserve_at, for one key. *)
ReserveKey(tab, k, t) ==
    IF HasRoom(tab, k, t)
    THEN [Obtained(tab, k, t) EXCEPT ![k].pending = @ + 1]
    ELSE Swept(tab, k, t)

(* Mutant: a key that was let through uncounted is given back all the same. *)
ReleasedBlindly(tab, kr) ==
    IF kr.key \in DOMAIN tab THEN [tab EXCEPT ![kr.key].pending = @ - 1] ELSE tab

(* settle_in, for one key: give the reservation back, then what the outcome *)
(* does, then drop an entry left with nothing.                              *)
Released(tab, kr) ==
    IF kr.reserved /\ kr.key \in DOMAIN tab
    THEN [tab EXCEPT ![kr.key].pending = IF @ > 0 THEN @ - 1 ELSE 0]
    ELSE tab

Struck(k, c, t) ==
    LET failed == [c EXCEPT !.failures = @ + 1]
    IN  IF failed.failures >= Limit[k.rule] /\ ~Locked(failed, t)
        THEN [failed EXCEPT !.until = t + Lock[k.rule]]
        ELSE failed

(* Mutant: a success forgives the address too. *)
JudgedForgiving(tab, k, outcome, t) ==
    IF outcome = "failed"
    THEN IF HasRoom(tab, k, t)
         THEN [Obtained(tab, k, t) EXCEPT ![k] = Struck(k, @, t)]
         ELSE Swept(tab, k, t)
    ELSE IF outcome = "succeeded" /\ k \in DOMAIN tab
    THEN [tab EXCEPT ![k].failures = 0, ![k].until = Unlocked]
    ELSE tab

Judged(tab, k, outcome, t) ==
    IF outcome = "failed"
    THEN IF HasRoom(tab, k, t)
         THEN [Obtained(tab, k, t) EXCEPT ![k] = Struck(k, @, t)]
         ELSE Swept(tab, k, t)
    ELSE IF outcome = "succeeded" /\ IsPair(k) /\ k \in DOMAIN tab
    THEN [tab EXCEPT ![k].failures = 0, ![k].until = Unlocked]
    ELSE tab

Tidied(tab, k) ==
    IF /\ k \in DOMAIN tab
       /\ tab[k].pending = 0 /\ tab[k].failures = 0 /\ tab[k].until = Unlocked
    THEN [j \in DOMAIN tab \ {k} |-> tab[j]]
    ELSE tab

SettleKey(tab, kr, outcome, t) ==
    Tidied(Judged(Released(tab, kr), kr.key, outcome, t), kr.key)

(* settle_in: the keys one after the other, under the same lock. *)
SettleIn(tab, keys, outcome, t) ==
    LET F[i \in 0 .. Len(keys)] ==
          IF i = 0 THEN tab ELSE SettleKey(F[i - 1], keys[i], outcome, t)
    IN  F[Len(keys)]

(* The keys of an attempt: its pair if the policy counts pairs, its address *)
(* under each rule.                                                         *)
KeysOf(name, addr) ==
    [i \in 1 .. (IF name = NoName THEN 0 ELSE Len(PairRules)) |->
        [rule |-> PairRules[i], name |-> name, addr |-> addr]]
    \o [i \in DOMAIN AddressRules |->
        [rule |-> AddressRules[i], name |-> NoName, addr |-> addr]]

(* The loop of reserve_at: the map after each key, and whether each got its place. *)
Reservations(tab, keys, t) ==
    LET F[i \in 0 .. Len(keys)] ==
          IF i = 0 THEN tab ELSE ReserveKey(F[i - 1], keys[i], t)
    IN  [i \in 1 .. Len(keys) |->
            [before |-> F[i - 1], after |-> F[i], got |-> HasRoom(F[i - 1], keys[i], t)]]

-----------------------------------------------------------------------------
Instants == {t \in 1 .. clock : t + MaxLag >= clock}

LetThrough(keys, t) ==
    \A i \in DOMAIN keys :
        keys[i] \in DOMAIN counters => ~MustWait(keys[i], counters[keys[i]], t)

(* begin: checked and reserved; under a policy that fails open, a key without *)
(* room goes uncounted.                                                       *)
Begin(r, name, addr, t) ==
    LET keys == KeysOf(name, addr)
        res == Reservations(counters, keys, t)
    IN  /\ attempts[r] = << >>
        /\ LetThrough(keys, t)
        /\ FailClosed => \A i \in DOMAIN keys : res[i].got
        /\ counters' = res[Len(keys)].after
        /\ attempts' = [attempts EXCEPT ![r] =
                          [i \in DOMAIN keys |-> [key |-> keys[i], reserved |-> res[i].got]]]
        /\ uncounted' = (uncounted \/ \E i \in DOMAIN keys : ~res[i].got)
        /\ UNCHANGED clock

(* Mutant: what was reserved before the full key stays reserved. *)
BeginFullKeeping(r, name, addr, t) ==
    LET keys == KeysOf(name, addr)
        res == Reservations(counters, keys, t)
    IN  /\ attempts[r] = << >>
        /\ LetThrough(keys, t)
        /\ FailClosed
        /\ \E n \in DOMAIN keys :
             /\ ~res[n].got /\ \A i \in 1 .. n - 1 : res[i].got
             /\ counters' = res[n].after
        /\ UNCHANGED <<attempts, clock, uncounted>>

(* begin under a policy that fails closed, at a full map: what was reserved is *)
(* given back and the attempt is refused.                                      *)
BeginFull(r, name, addr, t) ==
    LET keys == KeysOf(name, addr)
        res == Reservations(counters, keys, t)
    IN  /\ attempts[r] = << >>
        /\ LetThrough(keys, t)
        /\ FailClosed
        /\ \E n \in DOMAIN keys :
             /\ ~res[n].got /\ \A i \in 1 .. n - 1 : res[i].got
             /\ counters' = SettleIn(res[n].after,
                                     [i \in 1 .. n - 1 |-> [key |-> keys[i], reserved |-> TRUE]],
                                     "refunded", t)
        /\ UNCHANGED <<attempts, clock, uncounted>>

(* failed, succeeded and refund: the attempt is consumed. *)
Settle(r, outcome, t) ==
    /\ attempts[r] # << >>
    /\ counters' = SettleIn(counters, attempts[r], outcome, t)
    /\ attempts' = [attempts EXCEPT ![r] = << >>]
    /\ UNCHANGED <<clock, uncounted>>

(* Mutant: a client that hangs up keeps its reservation. *)
DropForgets(r, t) ==
    /\ attempts[r] # << >>
    /\ attempts' = [attempts EXCEPT ![r] = << >>]
    /\ UNCHANGED <<counters, clock, uncounted>>

(* Drop: the client hung up before there was an outcome. *)
Drop(r, t) == Settle(r, OnDrop, t)

ClockTicks ==
    /\ clock < MaxTime
    /\ clock' = clock + 1
    /\ UNCHANGED <<counters, attempts, uncounted>>

ThrottleNext ==
    \/ \E r \in Requests, t \in Instants :
         \/ \E name \in Names \union {NoName}, addr \in Addrs :
              Begin(r, name, addr, t) \/ BeginFull(r, name, addr, t)
         \/ \E outcome \in {"failed", "succeeded", "refunded"} : Settle(r, outcome, t)
         \/ Drop(r, t)
    \/ ClockTicks

ThrottleSpec == ThrottleInit /\ [][ThrottleNext]_throttleVars

-----------------------------------------------------------------------------
(* The requests that hold a reservation against a key. *)
Holders(k) ==
    {r \in Requests : \E i \in DOMAIN attempts[r] :
        attempts[r][i].key = k /\ attempts[r][i].reserved}

(* No outcome leaks a slot and none is given back twice: a counter's pending *)
(* is the number of attempts in flight that reserved it, a sweep or a        *)
(* restarted window in between included.                                     *)
PendingExact ==
    \A k \in Key : Cardinality(Holders(k)) =
        IF k \in DOMAIN counters THEN counters[k].pending ELSE 0

(* A burst sent at once gets as far as a sequence would: failures and        *)
(* attempts in flight together never pass the limit of a counter, as long as *)
(* no attempt went uncounted.                                                *)
WithinLimit ==
    ~uncounted =>
        \A k \in DOMAIN counters :
            counters[k].failures + counters[k].pending <= Limit[k.rule]

(* The map never outgrows its capacity. *)
WithinCapacity == Cardinality(DOMAIN counters) <= Capacity

(* A lock in force stands until it is over: no attempt that was in flight    *)
(* when it was made lifts it, and no sweep forgets it.  (One that went       *)
(* uncounted may.)                                                           *)
LocksStand ==
    [][ ~uncounted =>
          \A k \in DOMAIN counters : Locked(counters[k], clock) =>
              k \in DOMAIN counters' /\ counters'[k].until = counters[k].until ]_throttleVars

(* Failures that still count are forgotten only by a success of their own    *)
(* pair; never by a sweep, another key's success or a stale clock.           *)
LiveFailuresKept ==
    [][ \A k \in DOMAIN counters :
          \/ counters[k].failures = 0 \/ Lapsed(k, counters[k], clock)
          \/ k \in DOMAIN counters' /\ counters'[k].failures >= counters[k].failures
          \/ IsPair(k) /\ \E r \in Requests :
               /\ attempts[r] # << >> /\ attempts'[r] = << >>
               /\ attempts[r][1].key = k ]_throttleVars
=============================================================================
