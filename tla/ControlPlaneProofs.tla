-------------------------- MODULE ControlPlaneProofs --------------------------
(***************************************************************************)
(* Proofs about two parts of the control plane.                            *)
(*                                                                         *)
(* ConfigFeed, for any number of data planes, configurations, changes,     *)
(* losses and failures: no held poll sleeps through an announced change,   *)
(* and no data plane is sent a configuration it cannot read.               *)
(*                                                                         *)
(* Throttle, for any number of requests, names, addresses and rules and    *)
(* any capacity: reservations are neither leaked nor given back twice, no  *)
(* burst passes a limit, no lock is lifted before its time and no failure  *)
(* that still counts is forgotten.  What a run over the keys of an attempt *)
(* does to the map is shown by induction on the number of keys.            *)
(***************************************************************************)
EXTENDS ConfigFeed, Throttle, FiniteSetTheorems, WellFoundedInduction, TLAPS

-----------------------------------------------------------------------------
(* The configuration feed. *)

USE FeedAssumption

(* The initial states satisfy the invariant: nobody polls. *)
LEMMA InitFeed == Init => FeedInv
BY DEF Init, FeedInv, TypeOK, MaybeConfig, ReceiverBehind, WillBeWoken, WakeUpComing,
              SnapshotCurrent, NeedsOfSnapshot,
       NeverSentUnreadable

(* A change of what is served.  The trigger's notification of a commit covers every *)
(* poll that read before it; a rename and an expiry are not announced.               *)
LEMMA ChangeFeed ==
    ASSUME FeedInv, NEW c \in Configs, Commit(c) \/ Rename(c) \/ KeyExpires(c)
    PROVE  FeedInv'
<1> USE DEF FeedInv, poll
<1>1. CASE Commit(c)
  <2> USE <1>1 DEF Commit
  <2>1. TypeOK'  BY DEF TypeOK, MaybeConfig
  <2>2. ReceiverBehind'  BY DEF ReceiverBehind, TypeOK
  <2>3. WillBeWoken'  BY DEF WillBeWoken, WakeUpComing, TypeOK
  <2>4. \A d \in DataPlanes : at'[d] # notices'
    BY DEF ReceiverBehind, TypeOK
  <2>5. SnapshotCurrent'  BY <2>4 DEF SnapshotCurrent
  <2>6. NeedsOfSnapshot' /\ NeverSentUnreadable'  BY DEF NeedsOfSnapshot, NeverSentUnreadable
  <2>7. QED  BY <2>1, <2>2, <2>3, <2>5, <2>6
<1>2. CASE Rename(c) \/ KeyExpires(c)
  <2> USE <1>2 DEF Rename, KeyExpires, listener
  <2>1. TypeOK'
    <3>1. /\ config' \in Configs /\ version' \in Nat
          /\ notices' \in Nat /\ expiries' \in Nat
      BY DEF TypeOK
    <3>2. announced' \in BOOLEAN
      OBVIOUS
    <3>3. UNCHANGED <<conn, queue, changes, losses, poll, failures>>
      OBVIOUS
    <3>4. QED  BY ONLY <3>1, <3>2, <3>3, TypeOK DEF TypeOK, MaybeConfig, poll
  <2>2. ReceiverBehind'  BY DEF ReceiverBehind
  <2>3. WillBeWoken'  BY DEF WillBeWoken, WakeUpComing
  <2>4. SnapshotCurrent'  BY DEF SnapshotCurrent
  <2>5. NeedsOfSnapshot' /\ NeverSentUnreadable'  BY DEF NeedsOfSnapshot, NeverSentUnreadable
  <2>6. QED  BY <2>1, <2>2, <2>3, <2>4, <2>5
<1>3. QED  BY <1>1, <1>2

(* The listener's steps: each one that makes it deaf is undone only by one that counts. *)
LEMMA ListenerFeed == ASSUME FeedInv, ListenerSteps \/ Lose PROVE FeedInv'
<1> USE DEF FeedInv, ListenerSteps, Connect, Subscribe, Listen, Hear, Lose, store, poll
<1>1. TypeOK'  BY DEF TypeOK, MaybeConfig
<1>2. ReceiverBehind'  BY DEF ReceiverBehind, TypeOK
<1>3. WillBeWoken'
  <2>1. CASE Connect \/ Subscribe \/ Lose
    BY <2>1 DEF WillBeWoken, WakeUpComing
  <2>2. CASE Listen \/ Hear
    <3>1. \A d \in DataPlanes : seen'[d] # changes'
      BY <2>2 DEF ReceiverBehind, TypeOK
    <3>2. QED  BY <3>1 DEF WillBeWoken, WakeUpComing
  <2>3. QED  BY <2>1, <2>2
<1>4. SnapshotCurrent' /\ NeedsOfSnapshot' /\ NeverSentUnreadable'
  BY DEF SnapshotCurrent, NeedsOfSnapshot, NeverSentUnreadable
<1>5. QED  BY <1>1, <1>2, <1>3, <1>4

(* The end of a poll. *)
LEMMA DoneFeed ==
    ASSUME FeedInv, NEW d \in DataPlanes, Done(d),
           failures' \in Nat,
           have' \in [DataPlanes -> MaybeConfig],
           \A q \in DataPlanes : have'[q] # NoConfig => Needs[have'[q]] \subseteq Reads[q]
    PROVE  FeedInv'
<1> USE DEF FeedInv, Done, store, listener
<1>1. TypeOK'  BY DEF TypeOK, MaybeConfig
<1>2. ReceiverBehind'  BY DEF ReceiverBehind, TypeOK
<1>3. WillBeWoken' /\ SnapshotCurrent'
  BY DEF WillBeWoken, WakeUpComing, SnapshotCurrent, TypeOK
<1>4. NeedsOfSnapshot'  BY DEF NeedsOfSnapshot, TypeOK
<1>5. NeverSentUnreadable'  BY DEF NeverSentUnreadable
<1>6. QED  BY <1>1, <1>2, <1>3, <1>4, <1>5

(* The steps of a poll before its answer. *)
LEMMA PollFeed ==
    ASSUME FeedInv, NEW d \in DataPlanes,
           \/ Ask(d) \/ Authenticate(d) \/ ReadSnapshot(d) \/ Record(d) \/ RecordFails(d)
           \/ Wake(d) \/ HoldTimesOut(d) \/ Reread(d)
    PROVE  FeedInv'
<1> USE DEF FeedInv, store, listener
<1>1. CASE Ask(d)
  <2> USE <1>1 DEF Ask
  <2>1. TypeOK'  BY DEF TypeOK, MaybeConfig
  <2>2. ReceiverBehind' /\ WillBeWoken' /\ SnapshotCurrent'
    BY DEF ReceiverBehind, WillBeWoken, WakeUpComing, SnapshotCurrent, TypeOK
  <2>3. NeedsOfSnapshot' /\ NeverSentUnreadable'
    BY DEF NeedsOfSnapshot, NeverSentUnreadable, TypeOK
  <2>4. QED  BY <2>1, <2>2, <2>3
<1>2. CASE Authenticate(d)
  <2> USE <1>2 DEF Authenticate
  <2>1. TypeOK'  BY DEF TypeOK, MaybeConfig
  <2>2. ReceiverBehind' /\ WillBeWoken' /\ SnapshotCurrent'
    BY DEF ReceiverBehind, WillBeWoken, WakeUpComing, SnapshotCurrent, TypeOK
  <2>3. NeedsOfSnapshot' /\ NeverSentUnreadable'
    BY DEF NeedsOfSnapshot, NeverSentUnreadable, TypeOK
  <2>4. QED  BY <2>1, <2>2, <2>3
<1>3. CASE ReadSnapshot(d)
  <2> USE <1>3 DEF ReadSnapshot
  <2>1. TypeOK'  BY DEF TypeOK, MaybeConfig
  <2>2. ReceiverBehind' /\ WillBeWoken' /\ SnapshotCurrent'
    BY DEF ReceiverBehind, WillBeWoken, WakeUpComing, SnapshotCurrent, TypeOK
  <2>3. NeedsOfSnapshot' /\ NeverSentUnreadable'
    BY DEF NeedsOfSnapshot, NeverSentUnreadable, TypeOK
  <2>4. QED  BY <2>1, <2>2, <2>3
<1>4. CASE Record(d)
  <2> USE <1>4 DEF Record, HoldOrAnswer
  <2>1. TypeOK'  BY DEF TypeOK, MaybeConfig
  <2>2. ReceiverBehind' /\ WillBeWoken' /\ SnapshotCurrent'
    BY DEF ReceiverBehind, WillBeWoken, WakeUpComing, SnapshotCurrent, TypeOK
  <2>3. NeedsOfSnapshot' /\ NeverSentUnreadable'
    BY DEF NeedsOfSnapshot, NeverSentUnreadable, TypeOK
  <2>4. QED  BY <2>1, <2>2, <2>3
<1>5. CASE RecordFails(d)
  <2> USE <1>5 DEF RecordFails, HoldOrAnswer
  <2>1. TypeOK'  BY DEF TypeOK, MaybeConfig
  <2>2. ReceiverBehind' /\ WillBeWoken' /\ SnapshotCurrent'
    BY DEF ReceiverBehind, WillBeWoken, WakeUpComing, SnapshotCurrent, TypeOK
  <2>3. NeedsOfSnapshot' /\ NeverSentUnreadable'
    BY DEF NeedsOfSnapshot, NeverSentUnreadable, TypeOK
  <2>4. QED  BY <2>1, <2>2, <2>3
<1>6. CASE Wake(d)
  <2> USE <1>6 DEF Wake
  <2>1. TypeOK'  BY DEF TypeOK, MaybeConfig
  <2>2. ReceiverBehind' /\ WillBeWoken' /\ SnapshotCurrent'
    BY DEF ReceiverBehind, WillBeWoken, WakeUpComing, SnapshotCurrent, TypeOK
  <2>3. NeedsOfSnapshot' /\ NeverSentUnreadable'
    BY DEF NeedsOfSnapshot, NeverSentUnreadable, TypeOK
  <2>4. QED  BY <2>1, <2>2, <2>3
<1>7. CASE HoldTimesOut(d)
  <2> USE <1>7 DEF HoldTimesOut
  <2>1. TypeOK'  BY DEF TypeOK, MaybeConfig
  <2>2. ReceiverBehind' /\ WillBeWoken' /\ SnapshotCurrent'
    BY DEF ReceiverBehind, WillBeWoken, WakeUpComing, SnapshotCurrent, TypeOK
  <2>3. NeedsOfSnapshot' /\ NeverSentUnreadable'
    BY DEF NeedsOfSnapshot, NeverSentUnreadable, TypeOK
  <2>4. QED  BY <2>1, <2>2, <2>3
<1>8. CASE Reread(d)
  <2> USE <1>8 DEF Reread
  <2>1. TypeOK'  BY DEF TypeOK, MaybeConfig
  <2>2. ReceiverBehind' /\ WillBeWoken' /\ SnapshotCurrent'
    BY DEF ReceiverBehind, WillBeWoken, WakeUpComing, SnapshotCurrent, TypeOK
  <2>3. NeedsOfSnapshot' /\ NeverSentUnreadable'
    BY DEF NeedsOfSnapshot, NeverSentUnreadable, TypeOK
  <2>4. QED  BY <2>1, <2>2, <2>3
<1>9. QED  BY <1>1, <1>2, <1>3, <1>4, <1>5, <1>6, <1>7, <1>8

(* Every step preserves the invariant. *)
LEMMA NextFeed == FeedInv /\ [Next]_vars => FeedInv'
<1> SUFFICES ASSUME FeedInv, [Next]_vars PROVE FeedInv'
  OBVIOUS
<1>1. ASSUME NEW c \in Configs, Commit(c) \/ Rename(c) \/ KeyExpires(c) PROVE FeedInv'
  BY <1>1, ChangeFeed
<1>2. CASE ListenerSteps \/ Lose
  BY <1>2, ListenerFeed
<1>3. ASSUME NEW d \in DataPlanes,
             \/ Ask(d) \/ Authenticate(d) \/ ReadSnapshot(d) \/ Record(d) \/ RecordFails(d)
             \/ Wake(d) \/ HoldTimesOut(d) \/ Reread(d)
      PROVE  FeedInv'
  BY <1>3, PollFeed
<1>4. ASSUME NEW d \in DataPlanes,
             AnswerNotModified(d) \/ AnswerIncompatible(d) \/ PollFails(d)
      PROVE  FeedInv'
  <2>1. Done(d) /\ failures' \in Nat /\ have' = have
    BY <1>4 DEF AnswerNotModified, AnswerIncompatible, PollFails, FeedInv, TypeOK
  <2>2. have' \in [DataPlanes -> MaybeConfig]
    BY <2>1 DEF FeedInv, TypeOK
  <2>3. \A q \in DataPlanes : have'[q] # NoConfig => Needs[have'[q]] \subseteq Reads[q]
    BY <2>1 DEF FeedInv, NeverSentUnreadable
  <2>4. QED  BY <2>1, <2>2, <2>3, DoneFeed
<1>5. ASSUME NEW d \in DataPlanes, AnswerConfig(d) PROVE FeedInv'
  <2>1. snap[d] \in Configs /\ Needs[snap[d]] \subseteq Reads[d]
    BY <1>5 DEF AnswerConfig, FeedInv, NeedsOfSnapshot
  <2>2. Done(d) /\ failures' \in Nat /\ have' = [have EXCEPT ![d] = snap[d]]
    BY <1>5 DEF AnswerConfig, FeedInv, TypeOK
  <2>3. have' \in [DataPlanes -> MaybeConfig]
    BY <2>1, <2>2 DEF FeedInv, TypeOK, MaybeConfig
  <2>4. \A q \in DataPlanes : have'[q] # NoConfig => Needs[have'[q]] \subseteq Reads[q]
    BY <2>1, <2>2 DEF FeedInv, NeverSentUnreadable, TypeOK
  <2>5. QED  BY <2>2, <2>3, <2>4, DoneFeed
<1>6. CASE UNCHANGED vars
  BY <1>6 DEF vars, FeedInv, TypeOK, ReceiverBehind, WillBeWoken, WakeUpComing,
              SnapshotCurrent, NeedsOfSnapshot,
              NeverSentUnreadable
<1>7. QED
  BY <1>1, <1>2, <1>3, <1>4, <1>5, <1>6 DEF Next, Serve

(* The strengthened invariant holds in every reachable state. *)
THEOREM FeedInvariant == Spec => []FeedInv
<1>1. QED  BY InitFeed, NextFeed, PTL DEF Spec

(* No held poll sleeps through an announced change. *)
THEOREM AlwaysWoken == Spec => []NoChangeSleptThrough
<1>1. FeedInv => NoChangeSleptThrough
  BY DEF FeedInv, WillBeWoken, SnapshotCurrent, NoChangeSleptThrough
<1>2. QED  BY <1>1, FeedInvariant, PTL

(* No data plane is sent a configuration it cannot read. *)
THEOREM OnlyReadableSent == Spec => []NeverSentUnreadable
<1>1. FeedInv => NeverSentUnreadable
  BY DEF FeedInv
<1>2. QED  BY <1>1, FeedInvariant, PTL

HIDE FeedAssumption

-----------------------------------------------------------------------------
(* The attempt limits. *)

(* What a map of counters is. *)
IsTable(tab) == DOMAIN tab \subseteq Key /\ \A k \in DOMAIN tab : tab[k] \in Counter

(* The attempts in flight a map counts for a key. *)
PendingOf(tab, k) == IF k \in DOMAIN tab THEN tab[k].pending ELSE 0

(* Outside a set of keys nothing happened but that expired entries may be gone. *)
SameBut(tab, new, touched, t) ==
    /\ \A j \in DOMAIN new \ touched : j \in DOMAIN tab /\ new[j] = tab[j]
    /\ \A j \in DOMAIN tab \ touched : j \in DOMAIN new \/ Expired(j, tab[j], t)

(* The entry `counter` finds or makes for a key. *)
Found(tab, k, t) == IF k \in DOMAIN tab THEN tab[k] ELSE Fresh(t)

(* The rule of a key, and that none of its numbers is zero. *)
LEMMA KeyParts == \A k \in Key : k.rule \in Rules /\ Limit[k.rule] \in Nat \ {0}
                    /\ Window[k.rule] \in Nat \ {0} /\ Lock[k.rule] \in Nat \ {0}
  BY PolicyAssumption DEF Key

(* A counter that was just made. *)
LEMMA FreshCounter == \A t \in Nat : Fresh(t) \in Counter /\ Fresh(t).failures = 0
     /\ Fresh(t).pending = 0 /\ Fresh(t).until = Unlocked /\ Fresh(t).since = t
  BY DEF Fresh, Counter, Unlocked

(* A sweep drops expired entries only, and never the one it makes room for. *)
LEMMA SweptTable ==
  ASSUME NEW tab, IsTable(tab), NEW k \in Key, NEW t \in Nat
  PROVE  /\ IsTable(Swept(tab, k, t))
         /\ SameBut(tab, Swept(tab, k, t), {}, t)
         /\ k \in DOMAIN tab <=> k \in DOMAIN Swept(tab, k, t)
         /\ k \in DOMAIN tab => Swept(tab, k, t) = tab
  BY DEF Swept, IsTable, SameBut

(* Restarting a counter forgets what lapsed and keeps its attempts in flight. *)
LEMMA RestartedCounter ==
  ASSUME NEW k \in Key, NEW c \in Counter, NEW t \in Nat
  PROVE  /\ Restarted(k, c, t) \in Counter
         /\ Restarted(k, c, t).pending = c.pending
         /\ Lapsed(k, c, t) => Restarted(k, c, t).failures = 0 /\ Restarted(k, c, t).until = Unlocked
         /\ ~Lapsed(k, c, t) => Restarted(k, c, t) = c
  BY DEF Restarted, Fresh, Counter, Unlocked

(* The entry of a key is the one found, or a new one; no other entry changes. *)
LEMMA ObtainedTable ==
  ASSUME NEW tab, IsTable(tab), NEW k \in Key, NEW t \in Nat,
         NEW sw, sw = Swept(tab, k, t), NEW ob, ob = Obtained(tab, k, t),
         NEW c, c = Found(tab, k, t)
  PROVE  /\ DOMAIN ob = DOMAIN sw \union {k}
         /\ ob[k] = Restarted(k, c, t)
         /\ \A j \in DOMAIN sw : j # k => ob[j] = sw[j]
         /\ c \in Counter
<1>1. c = IF k \in DOMAIN sw THEN sw[k] ELSE Fresh(t)
  BY SweptTable DEF Found
<1>2. ob = [j \in DOMAIN sw \union {k} |-> IF j = k THEN Restarted(k, c, t) ELSE sw[j]]
  BY <1>1 DEF Obtained
<1>3. c \in Counter  BY FreshCounter DEF Found, IsTable
<1> QED  BY <1>2, <1>3

(* What reserving one key does to the map. *)
ReservedTo(tab, new, k, t) ==
    /\ IsTable(new)
    /\ SameBut(tab, new, {k}, t)
    /\ HasRoom(tab, k, t) =>
         /\ k \in DOMAIN new
         /\ new[k].failures = Restarted(k, Found(tab, k, t), t).failures
         /\ new[k].until = Restarted(k, Found(tab, k, t), t).until
         /\ new[k].since = Restarted(k, Found(tab, k, t), t).since
         /\ new[k].pending = Found(tab, k, t).pending + 1
    /\ ~HasRoom(tab, k, t) => k \notin DOMAIN tab /\ k \notin DOMAIN new

(* One reservation. *)
LEMMA ReserveKeyTable ==
  ASSUME NEW tab, IsTable(tab), NEW k \in Key, NEW t \in Nat, NEW new, new = ReserveKey(tab, k, t)
  PROVE  ReservedTo(tab, new, k, t)
<1> USE DEF ReservedTo
<1>0. PICK sw : sw = Swept(tab, k, t)  OBVIOUS
<1>1. /\ IsTable(sw)
      /\ SameBut(tab, sw, {}, t)
      /\ k \in DOMAIN tab <=> k \in DOMAIN sw
  BY <1>0, SweptTable
<1>2. \A j \in DOMAIN sw : j \in DOMAIN tab /\ sw[j] = tab[j]  BY <1>1 DEF SameBut
<1>3. \A j \in DOMAIN tab : j \in DOMAIN sw \/ Expired(j, tab[j], t)  BY <1>1 DEF SameBut
<1>4. CASE ~HasRoom(tab, k, t)
  <2>1. new = sw /\ k \notin DOMAIN tab  BY <1>0, <1>4 DEF ReserveKey, HasRoom
  <2>2. SameBut(tab, new, {k}, t)  BY <1>2, <1>3, <2>1 DEF SameBut
  <2> QED  BY <1>1, <1>4, <2>1, <2>2
<1>5. CASE HasRoom(tab, k, t)
  <2>1. new = [Obtained(tab, k, t) EXCEPT ![k].pending = @ + 1]  BY <1>5 DEF ReserveKey
  <2>2. PICK ob : ob = Obtained(tab, k, t)  OBVIOUS
  <2>12. PICK f : f = Found(tab, k, t)  OBVIOUS
  <2>13. /\ DOMAIN ob = DOMAIN sw \union {k} /\ ob[k] = Restarted(k, f, t) /\ f \in Counter
        /\ \A j \in DOMAIN sw : j # k => ob[j] = sw[j]
    BY <1>0, <2>2, <2>12, ObtainedTable
  <2>3. PICK c : c = Restarted(k, Found(tab, k, t), t)  OBVIOUS
  <2>4. /\ DOMAIN ob = DOMAIN sw \union {k} /\ ob[k] = c /\ Found(tab, k, t) \in Counter
        /\ \A j \in DOMAIN sw : j # k => ob[j] = sw[j]
    BY <2>3, <2>12, <2>13
  <2>5. c \in Counter /\ c.pending = Found(tab, k, t).pending
    BY <2>3, <2>4, RestartedCounter
  <2>6. PICK e : e = [c EXCEPT !.pending = c.pending + 1]  OBVIOUS
  <2>7. e \in Counter /\ e.failures = c.failures /\ e.until = c.until /\ e.since = c.since
        /\ e.pending = c.pending + 1
    BY <2>5, <2>6 DEF Counter
  <2>8. new = [j \in DOMAIN ob |-> IF j = k THEN e ELSE ob[j]]
    BY <2>1, <2>2, <2>4, <2>6
  <2>9. DOMAIN new = DOMAIN sw \union {k} /\ new[k] = e /\ \A j \in DOMAIN sw : j # k => new[j] = sw[j]
    BY <2>4, <2>8
  <2>10. IsTable(new)  BY <1>1, <2>7, <2>9 DEF IsTable
  <2>11. SameBut(tab, new, {k}, t)  BY <1>2, <1>3, <2>9 DEF SameBut
  <2> QED  BY <1>5, <2>3, <2>5, <2>7, <2>9, <2>10, <2>11
<1> QED  BY <1>4, <1>5

(* The keys of an attempt. *)
Reserved == [key : Key, reserved : BOOLEAN]

(* What may come of an attempt. *)
Outcomes == {"failed", "succeeded", "refunded"}

(* A lock comes with its failures. *)
Full(k, c) == c.until = Unlocked \/ c.failures >= Limit[k.rule]

(* Giving a reservation back changes no failures and no lock. *)
LEMMA ReleasedTable ==
  ASSUME NEW tab, IsTable(tab), NEW kr \in Reserved, NEW new, new = Released(tab, kr),
         NEW k, k = kr.key
  PROVE  /\ IsTable(new)
         /\ DOMAIN new = DOMAIN tab
         /\ \A j \in DOMAIN tab : j # k => new[j] = tab[j]
         /\ k \in DOMAIN tab =>
              /\ new[k].failures = tab[k].failures /\ new[k].until = tab[k].until
              /\ new[k].since = tab[k].since
              /\ new[k].pending = IF kr.reserved /\ tab[k].pending > 0 THEN tab[k].pending - 1
                                  ELSE tab[k].pending
<1>1. CASE ~(kr.reserved /\ k \in DOMAIN tab)
  <2>1. new = tab  BY <1>1 DEF Released
  <2> QED  BY <1>1, <2>1
<1>2. CASE kr.reserved /\ k \in DOMAIN tab
  <2>1. PICK c : c = tab[k]  OBVIOUS
  <2>2. c \in Counter  BY <1>2, <2>1 DEF IsTable
  <2>3. PICK e : e = [c EXCEPT !.pending = IF c.pending > 0 THEN c.pending - 1 ELSE 0]  OBVIOUS
  <2>4. /\ e \in Counter /\ e.failures = c.failures /\ e.until = c.until /\ e.since = c.since
        /\ e.pending = IF c.pending > 0 THEN c.pending - 1 ELSE 0
    BY <2>2, <2>3 DEF Counter
  <2>5. new = [j \in DOMAIN tab |-> IF j = k THEN e ELSE tab[j]]
    BY <1>2, <2>1, <2>3 DEF Released
  <2>6. c.pending \in Nat  BY <2>2 DEF Counter
  <2> QED  BY <1>2, <2>1, <2>4, <2>5, <2>6 DEF IsTable
<1> QED  BY <1>1, <1>2

(* A failure counted: it locks at the limit, and forgets nothing. *)
LEMMA StruckCounter ==
  ASSUME NEW k \in Key, NEW c \in Counter, NEW t \in Nat, NEW e, e = Struck(k, c, t)
  PROVE  /\ e \in Counter /\ e.pending = c.pending /\ e.since = c.since
         /\ e.failures = c.failures + 1
         /\ Full(k, c) => Full(k, e)
         /\ ~Lapsed(k, c, t) => ~Lapsed(k, e, t)
<1>1. PICK f : f = [c EXCEPT !.failures = c.failures + 1]  OBVIOUS
<1>2. /\ f \in Counter /\ f.pending = c.pending /\ f.since = c.since /\ f.until = c.until
      /\ f.failures = c.failures + 1
  BY <1>1 DEF Counter
<1>3. Lock[k.rule] \in Nat \ {0} /\ Limit[k.rule] \in Nat /\ Window[k.rule] \in Nat  BY KeyParts
<1>4. e = IF f.failures >= Limit[k.rule] /\ ~Locked(f, t) THEN [f EXCEPT !.until = t + Lock[k.rule]] ELSE f
  BY <1>1 DEF Struck
<1>5. CASE f.failures >= Limit[k.rule] /\ ~Locked(f, t)
  <2>1. e = [f EXCEPT !.until = t + Lock[k.rule]]  BY <1>4, <1>5
  <2>2. /\ e \in Counter /\ e.pending = f.pending /\ e.since = f.since /\ e.failures = f.failures
        /\ e.until = t + Lock[k.rule]
    BY <1>2, <1>3, <2>1 DEF Counter
  <2>3. Locked(e, t)  BY <1>3, <2>2 DEF Locked
  <2> QED  BY <1>2, <1>5, <2>2, <2>3 DEF Full, Lapsed
<1>6. CASE ~(f.failures >= Limit[k.rule] /\ ~Locked(f, t))
  <2>1. e = f  BY <1>4, <1>6
  <2>2. c.failures \in Nat  BY DEF Counter
  <2>3. Full(k, c) => Full(k, e)  BY <1>2, <1>3, <2>1, <2>2 DEF Full
  <2>4. ~Lapsed(k, c, t) => ~Lapsed(k, e, t)  BY <1>2, <2>1 DEF Lapsed, Locked
  <2> QED  BY <1>2, <2>1, <2>3, <2>4
<1> QED  BY <1>5, <1>6

(* What judging a key does to the map. *)
JudgedTo(tab, new, k, outcome, t) ==
    /\ IsTable(new)
    /\ SameBut(tab, new, {k}, t)
    /\ PendingOf(new, k) = PendingOf(tab, k)
    /\ k \in DOMAIN tab => k \in DOMAIN new
    /\ k \in DOMAIN tab => new[k].failures <= tab[k].failures + 1
    /\ (k \in DOMAIN tab => Full(k, tab[k])) => (k \in DOMAIN new => Full(k, new[k]))
    /\ k \in DOMAIN tab /\ ~Lapsed(k, tab[k], t) /\ ~(outcome = "succeeded" /\ IsPair(k)) =>
         new[k].failures >= tab[k].failures /\ ~Lapsed(k, new[k], t)

(* One outcome. *)
LEMMA JudgedTable ==
  ASSUME NEW tab, IsTable(tab), NEW k \in Key, NEW outcome \in Outcomes, NEW t \in Nat,
         NEW new, new = Judged(tab, k, outcome, t)
  PROVE  JudgedTo(tab, new, k, outcome, t)
<1> USE DEF JudgedTo
<1>0. Limit[k.rule] \in Nat \ {0}  BY KeyParts
<1>1. CASE new = tab
  <2>1. k \in DOMAIN tab => tab[k].failures \in Nat  BY DEF IsTable, Counter
  <2>2. SameBut(tab, tab, {k}, t)  BY DEF SameBut
  <2> QED  BY <1>1, <2>1, <2>2
<1>2. CASE outcome = "failed" /\ ~HasRoom(tab, k, t)
  <2>1. new = Swept(tab, k, t) /\ k \notin DOMAIN tab  BY <1>2 DEF Judged, HasRoom
  <2>2. IsTable(new) /\ SameBut(tab, new, {}, t) /\ k \notin DOMAIN new  BY <2>1, SweptTable
  <2> QED  BY <2>1, <2>2 DEF SameBut, PendingOf
<1>3. CASE outcome = "failed" /\ HasRoom(tab, k, t)
  <2>1. PICK sw : sw = Swept(tab, k, t)  OBVIOUS
  <2>2. PICK ob : ob = Obtained(tab, k, t)  OBVIOUS
  <2>3. PICK f : f = Found(tab, k, t)  OBVIOUS
  <2>4. /\ DOMAIN ob = DOMAIN sw \union {k} /\ ob[k] = Restarted(k, f, t) /\ f \in Counter
        /\ \A j \in DOMAIN sw : j # k => ob[j] = sw[j]
    BY <2>1, <2>2, <2>3, ObtainedTable
  <2>5. PICK c : c = Restarted(k, f, t)  OBVIOUS
  <2>6. /\ c \in Counter /\ c.pending = f.pending
        /\ Lapsed(k, f, t) => c.failures = 0 /\ c.until = Unlocked
        /\ ~Lapsed(k, f, t) => c = f
    BY <2>4, <2>5, RestartedCounter
  <2>7. PICK e : e = Struck(k, c, t)  OBVIOUS
  <2>8. /\ e \in Counter /\ e.pending = c.pending /\ e.failures = c.failures + 1
        /\ Full(k, c) => Full(k, e)
        /\ ~Lapsed(k, c, t) => ~Lapsed(k, e, t)
    <3>1. c \in Counter  BY <2>6
    <3> HIDE <2>6
    <3> QED  BY <3>1, <2>7, StruckCounter
  <2>9. new = [ob EXCEPT ![k] = Struck(k, ob[k], t)]  BY <1>3, <2>2 DEF Judged
  <2>10. /\ DOMAIN new = DOMAIN sw \union {k} /\ new[k] = e
         /\ \A j \in DOMAIN sw : j # k => new[j] = sw[j]
    BY <2>4, <2>5, <2>7, <2>9
  <2>11. IsTable(sw) /\ SameBut(tab, sw, {}, t)  BY <2>1, SweptTable
  <2>12. IsTable(new)  BY <2>8, <2>10, <2>11 DEF IsTable
  <2>13. SameBut(tab, new, {k}, t)  BY <2>10, <2>11 DEF SameBut
  <2>14. f.pending = PendingOf(tab, k)  BY <2>3, FreshCounter DEF Found, PendingOf
  <2>15. PendingOf(new, k) = PendingOf(tab, k)  BY <2>6, <2>8, <2>10, <2>14 DEF PendingOf
  <2>16. k \in DOMAIN tab => f = tab[k]  BY <2>3 DEF Found
  <2>17. f.failures \in Nat /\ c.failures \in Nat  BY <2>4, <2>6 DEF Counter
  <2>18. c.failures <= f.failures  BY <2>6, <2>17
  <2>19. k \in DOMAIN tab => new[k].failures <= tab[k].failures + 1
    BY <2>8, <2>10, <2>16, <2>17, <2>18
  <2>20. (k \in DOMAIN tab => Full(k, tab[k])) => Full(k, f)
    BY <2>3, <2>16, FreshCounter DEF Found, Full
  <2>21. Full(k, f) => Full(k, c)  BY <2>6 DEF Full
  <2>22. k \in DOMAIN tab /\ ~Lapsed(k, tab[k], t) =>
           new[k].failures >= tab[k].failures /\ ~Lapsed(k, new[k], t)
    <3> SUFFICES ASSUME k \in DOMAIN tab, ~Lapsed(k, tab[k], t)
                 PROVE  new[k].failures >= tab[k].failures /\ ~Lapsed(k, new[k], t)
      OBVIOUS
    <3>1. c = f /\ f = tab[k] /\ new[k] = e  BY <2>6, <2>10, <2>16
    <3> QED  BY <2>8, <2>17, <3>1
  <2> QED  BY <2>8, <2>10, <2>12, <2>13, <2>15, <2>19, <2>20, <2>21, <2>22
<1>4. CASE outcome = "succeeded" /\ IsPair(k) /\ k \in DOMAIN tab
  <2>1. PICK c : c = tab[k]  OBVIOUS
  <2>2. c \in Counter  BY <1>4, <2>1 DEF IsTable
  <2>3. PICK e : e = [c EXCEPT !.failures = 0, !.until = Unlocked]  OBVIOUS
  <2>4. e \in Counter /\ e.failures = 0 /\ e.until = Unlocked /\ e.pending = c.pending
    BY <2>2, <2>3 DEF Counter, Unlocked
  <2>5. new = [tab EXCEPT ![k].failures = 0, ![k].until = Unlocked]  BY <1>4 DEF Judged
  <2>6. new = [j \in DOMAIN tab |-> IF j = k THEN e ELSE tab[j]]
    BY <1>4, <2>1, <2>3, <2>5
  <2>7. c.failures \in Nat  BY <2>2 DEF Counter
  <2>8. DOMAIN new = DOMAIN tab /\ new[k] = e /\ \A j \in DOMAIN tab : j # k => new[j] = tab[j]
    BY <1>4, <2>6
  <2>9. IsTable(new)  BY <2>4, <2>8 DEF IsTable
  <2>10. SameBut(tab, new, {k}, t)  BY <2>8 DEF SameBut
  <2>11. PendingOf(new, k) = PendingOf(tab, k)  BY <1>4, <2>1, <2>4, <2>8 DEF PendingOf
  <2>12. Full(k, new[k])  BY <2>4, <2>8 DEF Full
  <2> QED  BY <1>4, <2>1, <2>4, <2>7, <2>8, <2>9, <2>10, <2>11, <2>12
<1> QED  BY <1>1, <1>2, <1>3, <1>4 DEF Judged, Outcomes

(* Only an entry left with nothing is dropped. *)
LEMMA TidiedTable ==
  ASSUME NEW tab, IsTable(tab), NEW k \in Key, NEW new, new = Tidied(tab, k)
  PROVE  /\ IsTable(new)
         /\ \A j \in DOMAIN new : j \in DOMAIN tab /\ new[j] = tab[j]
         /\ \A j \in DOMAIN tab : j # k \/ tab[k].failures > 0 => j \in DOMAIN new
         /\ PendingOf(new, k) = PendingOf(tab, k)
  BY DEF Tidied, IsTable, PendingOf, Counter

(* What settling one key does to the map. *)
SettledTo(tab, new, kr, k, outcome, t) ==
    /\ IsTable(new)
    /\ SameBut(tab, new, {k}, t)
    /\ PendingOf(new, k) = IF kr.reserved /\ PendingOf(tab, k) > 0 THEN PendingOf(tab, k) - 1
                           ELSE PendingOf(tab, k)
    /\ kr.reserved /\ PendingOf(tab, k) > 0 /\ k \in DOMAIN new =>
         new[k].failures + new[k].pending <= tab[k].failures + tab[k].pending
    /\ (k \in DOMAIN tab => Full(k, tab[k])) => (k \in DOMAIN new => Full(k, new[k]))
    /\ /\ k \in DOMAIN tab /\ tab[k].failures > 0 /\ ~Lapsed(k, tab[k], t)
       /\ ~(outcome = "succeeded" /\ IsPair(k))
       => k \in DOMAIN new /\ new[k].failures >= tab[k].failures /\ ~Lapsed(k, new[k], t)

(* One key settled. *)
LEMMA SettleKeyTable ==
  ASSUME NEW tab, IsTable(tab), NEW kr \in Reserved, NEW outcome \in Outcomes, NEW t \in Nat,
         NEW new, new = SettleKey(tab, kr, outcome, t), NEW k, k = kr.key
  PROVE  SettledTo(tab, new, kr, k, outcome, t)
<1>1. k \in Key /\ kr.reserved \in BOOLEAN  BY DEF Reserved
<1>2. PICK rel : rel = Released(tab, kr)  OBVIOUS
<1>3. PICK jud : jud = Judged(rel, k, outcome, t)  OBVIOUS
<1>4. new = Tidied(jud, k)  BY <1>2, <1>3 DEF SettleKey
<1>5. /\ IsTable(rel)
      /\ DOMAIN rel = DOMAIN tab
      /\ \A j \in DOMAIN tab : j # k => rel[j] = tab[j]
      /\ k \in DOMAIN tab =>
           /\ rel[k].failures = tab[k].failures /\ rel[k].until = tab[k].until
           /\ rel[k].since = tab[k].since
           /\ rel[k].pending = IF kr.reserved /\ tab[k].pending > 0 THEN tab[k].pending - 1
                               ELSE tab[k].pending
  BY <1>2, ReleasedTable
<1>6. IsTable(rel)  BY <1>5
<1>16. JudgedTo(rel, jud, k, outcome, t)  BY <1>1, <1>3, <1>6, JudgedTable
<1>7. /\ IsTable(jud)
      /\ SameBut(rel, jud, {k}, t)
      /\ PendingOf(jud, k) = PendingOf(rel, k)
      /\ k \in DOMAIN rel => k \in DOMAIN jud
      /\ k \in DOMAIN rel => jud[k].failures <= rel[k].failures + 1
      /\ (k \in DOMAIN rel => Full(k, rel[k])) => (k \in DOMAIN jud => Full(k, jud[k]))
      /\ k \in DOMAIN rel /\ ~Lapsed(k, rel[k], t) /\ ~(outcome = "succeeded" /\ IsPair(k)) =>
           jud[k].failures >= rel[k].failures /\ ~Lapsed(k, jud[k], t)
  BY <1>16 DEF JudgedTo
<1>8. IsTable(jud)  BY <1>7
<1>9. /\ IsTable(new)
      /\ \A j \in DOMAIN new : j \in DOMAIN jud /\ new[j] = jud[j]
      /\ \A j \in DOMAIN jud : j # k \/ jud[k].failures > 0 => j \in DOMAIN new
      /\ PendingOf(new, k) = PendingOf(jud, k)
  <2> HIDE <1>5, <1>7
  <2> QED  BY <1>1, <1>4, <1>8, TidiedTable
<1>10. SameBut(tab, new, {k}, t)
  <2>1. \A j \in DOMAIN new \ {k} : j \in DOMAIN tab /\ new[j] = tab[j]
    BY <1>5, <1>7, <1>9 DEF SameBut
  <2>2. \A j \in DOMAIN tab \ {k} : j \in DOMAIN new \/ Expired(j, tab[j], t)
    BY <1>5, <1>7, <1>9 DEF SameBut
  <2> QED  BY <2>1, <2>2 DEF SameBut
<1>11. k \in DOMAIN tab => tab[k].failures \in Nat /\ tab[k].pending \in Nat  BY DEF IsTable, Counter
<1>12. PendingOf(new, k) = IF kr.reserved /\ PendingOf(tab, k) > 0 THEN PendingOf(tab, k) - 1
                           ELSE PendingOf(tab, k)
  BY <1>5, <1>7, <1>9, <1>11 DEF PendingOf
<1>13. ASSUME kr.reserved, PendingOf(tab, k) > 0, k \in DOMAIN new
       PROVE  new[k].failures + new[k].pending <= tab[k].failures + tab[k].pending
  <2>1. k \in DOMAIN tab /\ PendingOf(tab, k) = tab[k].pending  BY <1>13 DEF PendingOf
  <2>2. new[k].pending = tab[k].pending - 1  BY <1>12, <1>13, <2>1 DEF PendingOf
  <2>3. new[k].failures <= tab[k].failures + 1  BY <1>5, <1>7, <1>9, <1>13, <2>1
  <2>4. new[k].failures \in Nat  BY <1>9, <1>13 DEF IsTable, Counter
  <2> QED  BY <1>11, <2>1, <2>2, <2>3, <2>4
<1>14. (k \in DOMAIN tab => Full(k, tab[k])) => (k \in DOMAIN new => Full(k, new[k]))
  BY <1>5, <1>7, <1>9 DEF Full
<1>15. ASSUME k \in DOMAIN tab, tab[k].failures > 0, ~Lapsed(k, tab[k], t),
              ~(outcome = "succeeded" /\ IsPair(k))
       PROVE  k \in DOMAIN new /\ new[k].failures >= tab[k].failures /\ ~Lapsed(k, new[k], t)
  <2>1. rel[k].failures = tab[k].failures /\ ~Lapsed(k, rel[k], t) /\ k \in DOMAIN rel
    BY <1>5, <1>15 DEF Lapsed, Locked
  <2>2. jud[k].failures >= tab[k].failures /\ ~Lapsed(k, jud[k], t) /\ k \in DOMAIN jud
    BY <1>7, <1>15, <2>1
  <2>3. jud[k].failures \in Nat  BY <1>7, <2>2 DEF IsTable, Counter
  <2>4. jud[k].failures > 0  BY <1>11, <1>15, <2>2, <2>3
  <2> QED  BY <1>9, <2>2, <2>4
<1> QED  BY <1>9, <1>10, <1>12, <1>13, <1>14, <1>15 DEF SettledTo

-----------------------------------------------------------------------------
(* Induction over the keys of an attempt. *)

(* The order of the numbers, as a relation. *)
Less == {p \in Nat \X Nat : p[1] < p[2]}

(* A set that holds 0 and with each number the next one holds them all. *)
LEMMA Induction ==
  ASSUME NEW S, 0 \in S, \A n \in Nat : n \in S => n + 1 \in S
  PROVE  \A n \in Nat : n \in S
<1>1. IsWellFoundedOn(Less, Nat)  BY NatLessThanWellFounded DEF OpToRel, Less
<1>2. SUFFICES ASSUME Nat \ S # {} PROVE FALSE
  OBVIOUS
<1>3. PICK T : T = Nat \ S  OBVIOUS
<1>4. PICK x \in T : \A y \in T : ~(<<y, x>> \in Less)
  BY <1>1, <1>2, <1>3, WFMin
<1>5. x \in Nat /\ x - 1 \in Nat /\ (x - 1) + 1 = x  BY <1>3
<1>6. x - 1 \in T  BY <1>3, <1>5
<1>7. <<x - 1, x>> \in Less  BY <1>5 DEF Less
<1> QED  BY <1>4, <1>6, <1>7

(* The maps a settlement goes through. *)
SettleRun(f, m, tab, keys, outcome, t) ==
    f = [i \in 0 .. m |-> IF i = 0 THEN tab ELSE SettleKey(f[i - 1], keys[i], outcome, t)]

(* The maps between the keys of a settlement exist, however many keys there are. *)
LEMMA SettleRuns ==
  ASSUME NEW tab, NEW keys, NEW outcome, NEW t
  PROVE  \A m \in Nat : \E f : SettleRun(f, m, tab, keys, outcome, t)
<1> DEFINE S == {m \in Nat : \E f : SettleRun(f, m, tab, keys, outcome, t)}
<1>1. 0 \in S
  <2>1. PICK f : f = [i \in 0 .. 0 |-> tab]  OBVIOUS
  <2>2. f = [i \in 0 .. 0 |-> IF i = 0 THEN tab ELSE SettleKey(f[i - 1], keys[i], outcome, t)]
    BY <2>1
  <2> QED  BY <2>2 DEF SettleRun
<1>2. ASSUME NEW m \in Nat, m \in S PROVE m + 1 \in S
  <2>1. PICK f : SettleRun(f, m, tab, keys, outcome, t)  BY <1>2
  <2>2. PICK g : g = [i \in 0 .. m + 1 |-> IF i = m + 1 THEN SettleKey(f[m], keys[m + 1], outcome, t) ELSE f[i]]
    OBVIOUS
  <2>3. \A i \in 0 .. m : f[i] = IF i = 0 THEN tab ELSE SettleKey(f[i - 1], keys[i], outcome, t)
    BY <2>1 DEF SettleRun
  <2>4. \A i \in 0 .. m : g[i] = f[i]  BY <2>2
  <2>5. ASSUME NEW i \in 0 .. m + 1
        PROVE  g[i] = IF i = 0 THEN tab ELSE SettleKey(g[i - 1], keys[i], outcome, t)
    <3>1. CASE i = m + 1
      <4>1. g[i] = SettleKey(f[m], keys[m + 1], outcome, t)  BY <2>2, <3>1
      <4>2. g[i - 1] = f[m] /\ i # 0  BY <2>4, <3>1
      <4> QED  BY <3>1, <4>1, <4>2
    <3>2. CASE i = 0  BY <2>3, <2>4, <3>2
    <3>3. CASE i \in 1 .. m
      <4>1. g[i] = f[i] /\ g[i - 1] = f[i - 1]  BY <2>4, <3>3
      <4> QED  BY <2>3, <3>3, <4>1
    <3> QED  BY <3>1, <3>2, <3>3
  <2>6. g = [i \in 0 .. m + 1 |-> IF i = 0 THEN tab ELSE SettleKey(g[i - 1], keys[i], outcome, t)]
    BY <2>2, <2>5
  <2>7. m + 1 \in Nat  OBVIOUS
  <2> QED  BY <2>6, <2>7 DEF SettleRun
<1> HIDE DEF S
<1>3. \A m \in Nat : m \in S  BY <1>1, <1>2, Induction
<1> QED  BY <1>3 DEF S

(* What settle_in returns is the last of them. *)
LEMMA SettleInRun ==
  ASSUME NEW tab, NEW keys \in Seq(Reserved), NEW outcome, NEW t
  PROVE  \E f : SettleRun(f, Len(keys), tab, keys, outcome, t) /\ SettleIn(tab, keys, outcome, t) = f[Len(keys)]
<1> DEFINE F == CHOOSE f : f = [i \in 0 .. Len(keys) |->
                    IF i = 0 THEN tab ELSE SettleKey(f[i - 1], keys[i], outcome, t)]
<1>1. \E f : f = [i \in 0 .. Len(keys) |->
                    IF i = 0 THEN tab ELSE SettleKey(f[i - 1], keys[i], outcome, t)]
  <2>1. Len(keys) \in Nat  OBVIOUS
  <2>2. \E f : SettleRun(f, Len(keys), tab, keys, outcome, t)  BY <2>1, SettleRuns
  <2> QED  BY <2>2 DEF SettleRun
<1>2. F = [i \in 0 .. Len(keys) |-> IF i = 0 THEN tab ELSE SettleKey(F[i - 1], keys[i], outcome, t)]
  BY <1>1
<1>3. SettleIn(tab, keys, outcome, t) = F[Len(keys)]  BY DEF SettleIn
<1> HIDE DEF F
<1> QED  BY <1>2, <1>3 DEF SettleRun

-----------------------------------------------------------------------------
(* The map and its capacity. *)

(* A map within the capacity. *)
Fits(tab) == IsFiniteSet(DOMAIN tab) /\ Cardinality(DOMAIN tab) <= Capacity

(* A sweep only makes room. *)
LEMMA SweptFits == ASSUME NEW tab, Fits(tab), NEW k, NEW t PROVE Fits(Swept(tab, k, t))
<1>1. Capacity \in Nat  BY PolicyAssumption
<1>2. DOMAIN Swept(tab, k, t) \in SUBSET DOMAIN tab  BY DEF Swept
<1>3. IsFiniteSet(DOMAIN tab) /\ Cardinality(DOMAIN tab) \in Nat  BY FS_CardinalityType DEF Fits
<1>4. IsFiniteSet(DOMAIN Swept(tab, k, t)) /\ Cardinality(DOMAIN Swept(tab, k, t)) <= Cardinality(DOMAIN tab)
  BY <1>2, <1>3, FS_Subset
<1>5. Cardinality(DOMAIN Swept(tab, k, t)) \in Nat  BY <1>4, FS_CardinalityType
<1> QED  BY <1>1, <1>3, <1>4, <1>5 DEF Fits

(* An entry is made only where there is room for it. *)
LEMMA ObtainedFits ==
  ASSUME NEW tab, IsTable(tab), Fits(tab), NEW k \in Key, NEW t \in Nat, HasRoom(tab, k, t)
  PROVE  Fits(Obtained(tab, k, t))
<1>1. Capacity \in Nat  BY PolicyAssumption
<1>2. PICK D : D = DOMAIN Swept(tab, k, t)  OBVIOUS
<1>3. DOMAIN Obtained(tab, k, t) = D \union {k}  BY <1>2, ObtainedTable
<1>4. IsFiniteSet(D) /\ Cardinality(D) <= Capacity  BY <1>2, SweptFits DEF Fits
<1>5. Cardinality(D) \in Nat  BY <1>4, FS_CardinalityType
<1>6. /\ IsFiniteSet(D \union {k})
      /\ Cardinality(D \union {k}) = IF k \in D THEN Cardinality(D) ELSE Cardinality(D) + 1
  BY <1>4, FS_AddElement
<1>7. k \in D \/ Cardinality(D) < Capacity  BY <1>2, SweptTable DEF HasRoom
<1> QED  BY <1>1, <1>3, <1>4, <1>5, <1>6, <1>7 DEF Fits

(* So a reservation keeps the capacity, *)
LEMMA ReserveKeyFits ==
  ASSUME NEW tab, IsTable(tab), Fits(tab), NEW k \in Key, NEW t \in Nat
  PROVE  Fits(ReserveKey(tab, k, t))
<1>1. CASE HasRoom(tab, k, t)
  <2>1. DOMAIN ReserveKey(tab, k, t) = DOMAIN Obtained(tab, k, t)  BY <1>1 DEF ReserveKey
  <2> QED  BY <1>1, <2>1, ObtainedFits DEF Fits
<1>2. CASE ~HasRoom(tab, k, t)  BY <1>2, SweptFits DEF ReserveKey
<1> QED  BY <1>1, <1>2

(* and so does a settlement, which may make an entry for a failure. *)
LEMMA SettleKeyFits ==
  ASSUME NEW tab, IsTable(tab), Fits(tab), NEW kr \in Reserved, NEW outcome \in Outcomes, NEW t \in Nat
  PROVE  Fits(SettleKey(tab, kr, outcome, t))
<1>1. PICK k \in Key : k = kr.key  BY DEF Reserved
<1>2. PICK rel : rel = Released(tab, kr)  OBVIOUS
<1>3. IsTable(rel) /\ DOMAIN rel = DOMAIN tab  BY <1>2, ReleasedTable
<1>4. Fits(rel)  BY <1>3 DEF Fits
<1>5. PICK jud : jud = Judged(rel, k, outcome, t)  OBVIOUS
<1>6. Fits(jud)
  <2>1. CASE outcome = "failed" /\ HasRoom(rel, k, t)
    <3>1. DOMAIN jud = DOMAIN Obtained(rel, k, t)  BY <1>5, <2>1 DEF Judged
    <3> QED  BY <1>3, <1>4, <2>1, <3>1, ObtainedFits DEF Fits
  <2>2. CASE outcome = "failed" /\ ~HasRoom(rel, k, t)  BY <1>4, <1>5, <2>2, SweptFits DEF Judged
  <2>3. CASE outcome # "failed"
    <3>1. DOMAIN jud = DOMAIN rel  BY <1>5, <2>3 DEF Judged
    <3> QED  BY <1>4, <3>1 DEF Fits
  <2> QED  BY <2>1, <2>2, <2>3
<1>7. PICK new : new = Tidied(jud, k)  OBVIOUS
<1>8. DOMAIN new = DOMAIN jud \/ DOMAIN new = DOMAIN jud \ {k}  BY <1>7 DEF Tidied
<1>9. IsFiniteSet(DOMAIN jud) /\ Cardinality(DOMAIN jud) <= Capacity /\ Capacity \in Nat
  BY <1>6, PolicyAssumption DEF Fits
<1>10. Cardinality(DOMAIN jud) \in Nat  BY <1>9, FS_CardinalityType
<1>11. /\ IsFiniteSet(DOMAIN jud \ {k})
       /\ Cardinality(DOMAIN jud \ {k}) =
            IF k \in DOMAIN jud THEN Cardinality(DOMAIN jud) - 1 ELSE Cardinality(DOMAIN jud)
  BY <1>9, FS_RemoveElement
<1>12. Fits(new)  BY <1>8, <1>9, <1>10, <1>11 DEF Fits
<1> QED  BY <1>1, <1>2, <1>5, <1>7, <1>12 DEF SettleKey

-----------------------------------------------------------------------------
(* Two changes, one after the other. *)
LEMMA SameButComposes ==
  ASSUME NEW a, NEW b, NEW c, NEW X, NEW Y, NEW t, SameBut(a, b, X, t), SameBut(b, c, Y, t)
  PROVE  SameBut(a, c, X \union Y, t)
  BY DEF SameBut

(* An entry that a sweep dropped had nothing in flight. *)
LEMMA PendingSame ==
  ASSUME NEW a, NEW b, NEW X, NEW t, SameBut(a, b, X, t), IsTable(a), NEW j, j \notin X
  PROVE  PendingOf(b, j) = PendingOf(a, j)
  BY DEF SameBut, PendingOf, Expired

(* Attempts in flight are counted by a number. *)
LEMMA PendingNat == ASSUME NEW a, IsTable(a), NEW j PROVE PendingOf(a, j) \in Nat
  BY DEF IsTable, PendingOf, Counter

(* Every lock comes with its failures. *)
AllFull(tab) == \A k \in DOMAIN tab : Full(k, tab[k])

(* Every counter is within its limit. *)
AllWithin(tab) == \A k \in DOMAIN tab : tab[k].failures + tab[k].pending <= Limit[k.rule]

(* A counter whose failures still count. *)
Live(tab, k, t) == k \in DOMAIN tab /\ tab[k].failures > 0 /\ ~Lapsed(k, tab[k], t)

(* Live failures are kept. *)
LiveKept(tab, new, k, t) == Live(new, k, t) /\ new[k].failures >= tab[k].failures

(* A change to other keys keeps the failures of a key that still count. *)
LEMMA LiveSame ==
  ASSUME NEW a, NEW b, NEW X, NEW t, SameBut(a, b, X, t), IsTable(a), NEW j, j \notin X, Live(a, j, t)
  PROVE  LiveKept(a, b, j, t)
<1>1. ~Expired(j, a[j], t) /\ j \in DOMAIN a  BY DEF Live, Expired
<1>2. j \in DOMAIN b /\ b[j] = a[j]  BY <1>1 DEF SameBut
<1>3. a[j].failures \in Nat  BY <1>1 DEF IsTable, Counter
<1> QED  BY <1>2, <1>3 DEF LiveKept, Live

(* Two changes that keep them. *)
LEMMA LiveComposes ==
  ASSUME NEW a, NEW b, NEW c, NEW k, NEW t, IsTable(a), IsTable(b), IsTable(c), k \in DOMAIN a,
         LiveKept(a, b, k, t), LiveKept(b, c, k, t)
  PROVE  LiveKept(a, c, k, t)
<1>1. a[k].failures \in Nat /\ b[k].failures \in Nat /\ c[k].failures \in Nat
  BY DEF IsTable, Counter, LiveKept, Live
<1> QED  BY <1>1 DEF LiveKept

(* The first i keys of an attempt in flight, *)
KeysUpTo(keys, i) == {keys[m].key : m \in 1 .. i}

(* and whether one of them gives a reservation of j back. *)
GivesBack(keys, i, j) == \E m \in 1 .. i : keys[m].key = j /\ keys[m].reserved

(* What settling the first i keys of an attempt does to the map. *)
SettledUpTo(tab, new, keys, i, outcome, t) ==
    /\ IsTable(new)
    /\ SameBut(tab, new, KeysUpTo(keys, i), t)
    /\ \A j \in Key : PendingOf(new, j) =
         IF GivesBack(keys, i, j) THEN PendingOf(tab, j) - 1 ELSE PendingOf(tab, j)
    /\ Fits(tab) => Fits(new)
    /\ AllFull(tab) => AllFull(new)
    /\ AllWithin(tab) /\ (\A m \in DOMAIN keys : keys[m].reserved) => AllWithin(new)
    /\ \A k \in Key : Live(tab, k, t) =>
         \/ LiveKept(tab, new, k, t)
         \/ outcome = "succeeded" /\ IsPair(k) /\ k \in KeysUpTo(keys, i)

(* The keys of an attempt are distinct, and what it reserved is pending. *)
Settleable(tab, keys) ==
    /\ \A i, j \in DOMAIN keys : keys[i].key = keys[j].key => i = j
    /\ \A i \in DOMAIN keys : keys[i].reserved => PendingOf(tab, keys[i].key) > 0

(* One more key settled. *)
LEMMA SettledNext ==
  ASSUME NEW tab, IsTable(tab), NEW keys \in Seq(Reserved), Settleable(tab, keys),
         NEW outcome \in Outcomes, NEW t \in Nat, NEW i \in Nat, i + 1 <= Len(keys),
         NEW old, SettledUpTo(tab, old, keys, i, outcome, t),
         NEW new, new = SettleKey(old, keys[i + 1], outcome, t)
  PROVE  SettledUpTo(tab, new, keys, i + 1, outcome, t)
<1>1. i + 1 \in DOMAIN keys /\ keys[i + 1] \in Reserved  OBVIOUS
<1>2. PICK kr \in Reserved : kr = keys[i + 1]  BY <1>1
<1>3. PICK k \in Key : k = kr.key  BY <1>2 DEF Reserved
<1>4. IsTable(old) /\ SameBut(tab, old, KeysUpTo(keys, i), t)  BY DEF SettledUpTo
<1>5. SettledTo(old, new, kr, k, outcome, t)  BY <1>2, <1>3, <1>4, SettleKeyTable
<1>6. IsTable(new) /\ SameBut(old, new, {k}, t)  BY <1>5 DEF SettledTo
<1>7. KeysUpTo(keys, i + 1) = KeysUpTo(keys, i) \union {k}
  BY <1>2, <1>3 DEF KeysUpTo
<1>8. SameBut(tab, new, KeysUpTo(keys, i + 1), t)  BY <1>4, <1>6, <1>7, SameButComposes
<1>9. k \notin KeysUpTo(keys, i)
  BY <1>1, <1>2, <1>3 DEF KeysUpTo, Settleable
<1>10. \A j : GivesBack(keys, i, j) => j \in KeysUpTo(keys, i)  BY DEF GivesBack, KeysUpTo
<1>11. \A j : GivesBack(keys, i + 1, j) <=> GivesBack(keys, i, j) \/ (j = k /\ kr.reserved)
  BY <1>2, <1>3 DEF GivesBack
<1>12. PendingOf(old, k) = PendingOf(tab, k)  BY <1>9, <1>10 DEF SettledUpTo
<1>13. kr.reserved => PendingOf(tab, k) > 0  BY <1>1, <1>2, <1>3 DEF Settleable
<1>14. ASSUME NEW j \in Key
       PROVE  PendingOf(new, j) = IF GivesBack(keys, i + 1, j) THEN PendingOf(tab, j) - 1
                                  ELSE PendingOf(tab, j)
  <2>1. CASE j = k
    <3>1. PendingOf(new, k) = IF kr.reserved /\ PendingOf(old, k) > 0 THEN PendingOf(old, k) - 1
                              ELSE PendingOf(old, k)
      BY <1>5 DEF SettledTo
    <3>2. GivesBack(keys, i + 1, k) <=> kr.reserved  BY <1>9, <1>10, <1>11
    <3> QED  BY <1>12, <1>13, <2>1, <3>1, <3>2
  <2>2. CASE j # k
    <3>1. PendingOf(new, j) = PendingOf(old, j)  BY <1>4, <1>6, <2>2, PendingSame
    <3>2. GivesBack(keys, i + 1, j) <=> GivesBack(keys, i, j)  BY <1>11, <2>2
    <3> QED  BY <3>1, <3>2 DEF SettledUpTo
  <2> QED  BY <2>1, <2>2
<1>15. AllFull(tab) => AllFull(new)
  <2> SUFFICES ASSUME AllFull(tab), NEW j \in DOMAIN new PROVE Full(j, new[j])
    BY DEF AllFull
  <2>1. AllFull(old)  BY DEF SettledUpTo
  <2>2. CASE j = k  BY <1>5, <2>1, <2>2 DEF SettledTo, AllFull
  <2>3. CASE j # k  BY <1>6, <2>1, <2>3 DEF SameBut, AllFull
  <2> QED  BY <2>2, <2>3
<1>16. ASSUME AllWithin(tab), \A m \in DOMAIN keys : keys[m].reserved PROVE AllWithin(new)
  <2> SUFFICES ASSUME NEW j \in DOMAIN new PROVE new[j].failures + new[j].pending <= Limit[j.rule]
    BY DEF AllWithin
  <2>1. AllWithin(old)  BY <1>16 DEF SettledUpTo
  <2>2. CASE j # k  BY <1>6, <2>1, <2>2 DEF SameBut, AllWithin
  <2>3. CASE j = k
    <3>1. kr.reserved /\ PendingOf(old, k) > 0  BY <1>1, <1>2, <1>12, <1>13, <1>16
    <3>2. k \in DOMAIN old  BY <3>1 DEF PendingOf
    <3>3. new[k].failures + new[k].pending <= old[k].failures + old[k].pending
      BY <1>5, <2>3, <3>1 DEF SettledTo
    <3>4. old[k].failures + old[k].pending <= Limit[k.rule]  BY <2>1, <3>2 DEF AllWithin
    <3>5. /\ old[k].failures \in Nat /\ old[k].pending \in Nat
          /\ new[k].failures \in Nat /\ new[k].pending \in Nat
      BY <1>4, <1>6, <2>3, <3>2 DEF IsTable, Counter
    <3>6. Limit[k.rule] \in Nat  BY KeyParts
    <3> QED  BY <2>3, <3>3, <3>4, <3>5, <3>6, SMTT(30)
  <2> QED  BY <2>2, <2>3
<1>17. ASSUME NEW j \in Key, Live(tab, j, t)
       PROVE  \/ LiveKept(tab, new, j, t)
              \/ outcome = "succeeded" /\ IsPair(j) /\ j \in KeysUpTo(keys, i + 1)
  <2>1. CASE outcome = "succeeded" /\ IsPair(j) /\ j \in KeysUpTo(keys, i)  BY <1>7, <2>1
  <2>2. CASE LiveKept(tab, old, j, t)
    <3>1. j \in DOMAIN tab  BY <1>17 DEF Live
    <3>2. Live(old, j, t)  BY <2>2 DEF LiveKept
    <3>3. CASE j # k
      <4>1. LiveKept(old, new, j, t)  BY <1>4, <1>6, <3>2, <3>3, LiveSame
      <4> QED  BY <1>4, <1>6, <2>2, <3>1, <4>1, LiveComposes
    <3>4. CASE j = k /\ ~(outcome = "succeeded" /\ IsPair(k))
      <4>1. k \in DOMAIN new /\ new[k].failures >= old[k].failures /\ ~Lapsed(k, new[k], t)
        BY <1>5, <3>2, <3>4 DEF SettledTo, Live
      <4>2. new[k].failures \in Nat /\ old[k].failures \in Nat /\ old[k].failures > 0
        BY <1>4, <1>6, <3>2, <3>4, <4>1 DEF IsTable, Counter, Live
      <4>3. LiveKept(old, new, k, t)  BY <4>1, <4>2 DEF LiveKept, Live
      <4> QED  BY <1>4, <1>6, <2>2, <3>1, <3>4, <4>3, LiveComposes
    <3>5. CASE j = k /\ outcome = "succeeded" /\ IsPair(k)  BY <1>7, <3>5
    <3> QED  BY <3>3, <3>4, <3>5
  <2> QED  BY <1>17, <2>1, <2>2 DEF SettledUpTo
<1>18. Fits(tab) => Fits(new)  BY <1>2, <1>4, SettleKeyFits DEF SettledUpTo
<1> QED  BY <1>6, <1>8, <1>14, <1>15, <1>16, <1>17, <1>18 DEF SettledUpTo

(* No key settled. *)
LEMMA SettledNone ==
  ASSUME NEW tab, IsTable(tab), NEW keys \in Seq(Reserved), NEW outcome, NEW t \in Nat
  PROVE  SettledUpTo(tab, tab, keys, 0, outcome, t)
<1>1. KeysUpTo(keys, 0) = {} /\ \A j : ~GivesBack(keys, 0, j)  BY DEF KeysUpTo, GivesBack
<1>2. SameBut(tab, tab, {}, t)  BY DEF SameBut
<1>3. \A k : Live(tab, k, t) => LiveKept(tab, tab, k, t)  BY DEF IsTable, Counter, Live, LiveKept
<1> QED  BY <1>1, <1>2, <1>3 DEF SettledUpTo

(* What settle_in does to the map. *)
LEMMA SettleInTable ==
  ASSUME NEW tab, IsTable(tab), NEW keys \in Seq(Reserved), Settleable(tab, keys),
         NEW outcome \in Outcomes, NEW t \in Nat
  PROVE  SettledUpTo(tab, SettleIn(tab, keys, outcome, t), keys, Len(keys), outcome, t)
<1>1. PICK n \in Nat : n = Len(keys)  OBVIOUS
<1>2. PICK f : SettleRun(f, n, tab, keys, outcome, t) /\ SettleIn(tab, keys, outcome, t) = f[n]
  BY <1>1, SettleInRun
<1>3. f[0] = tab /\ \A i \in 1 .. n : f[i] = SettleKey(f[i - 1], keys[i], outcome, t)
  BY <1>2 DEF SettleRun
<1> DEFINE S == {i \in Nat : i <= n => SettledUpTo(tab, f[i], keys, i, outcome, t)}
<1>4. 0 \in S  BY <1>3, SettledNone
<1>5. ASSUME NEW i \in Nat, i \in S PROVE i + 1 \in S
  <2> SUFFICES ASSUME i + 1 <= n PROVE SettledUpTo(tab, f[i + 1], keys, i + 1, outcome, t)
    OBVIOUS
  <2>1. SettledUpTo(tab, f[i], keys, i, outcome, t)  BY <1>5
  <2>2. i + 1 \in 1 .. n /\ (i + 1) - 1 = i  OBVIOUS
  <2>3. f[i + 1] = SettleKey(f[i], keys[i + 1], outcome, t)  BY <1>3, <2>2
  <2> QED  BY <1>1, <2>1, <2>3, SettledNext
<1> HIDE DEF S
<1>6. \A i \in Nat : i \in S  BY <1>4, <1>5, Induction
<1>7. n \in S /\ n <= n  BY <1>6
<1> QED  BY <1>1, <1>2, <1>7 DEF S

-----------------------------------------------------------------------------
(* The loop of reserve_at. *)

(* The maps between the keys of a reservation. *)
ReserveRun(f, m, tab, keys, t) ==
    f = [i \in 0 .. m |-> IF i = 0 THEN tab ELSE ReserveKey(f[i - 1], keys[i], t)]

(* They exist, however many keys there are. *)
LEMMA ReserveRuns ==
  ASSUME NEW tab, NEW keys, NEW t
  PROVE  \A m \in Nat : \E f : ReserveRun(f, m, tab, keys, t)
<1> DEFINE S == {m \in Nat : \E f : ReserveRun(f, m, tab, keys, t)}
<1>1. 0 \in S
  <2>1. PICK f : f = [i \in 0 .. 0 |-> tab]  OBVIOUS
  <2>2. f = [i \in 0 .. 0 |-> IF i = 0 THEN tab ELSE ReserveKey(f[i - 1], keys[i], t)]
    BY <2>1
  <2> QED  BY <2>2 DEF ReserveRun
<1>2. ASSUME NEW m \in Nat, m \in S PROVE m + 1 \in S
  <2>1. PICK f : ReserveRun(f, m, tab, keys, t)  BY <1>2
  <2>2. PICK g : g = [i \in 0 .. m + 1 |-> IF i = m + 1 THEN ReserveKey(f[m], keys[m + 1], t) ELSE f[i]]
    OBVIOUS
  <2>3. \A i \in 0 .. m : f[i] = IF i = 0 THEN tab ELSE ReserveKey(f[i - 1], keys[i], t)
    BY <2>1 DEF ReserveRun
  <2>4. \A i \in 0 .. m : g[i] = f[i]  BY <2>2
  <2>5. ASSUME NEW i \in 0 .. m + 1
        PROVE  g[i] = IF i = 0 THEN tab ELSE ReserveKey(g[i - 1], keys[i], t)
    <3>1. CASE i = m + 1
      <4>1. g[i] = ReserveKey(f[m], keys[m + 1], t)  BY <2>2, <3>1
      <4>2. g[i - 1] = f[m] /\ i # 0  BY <2>4, <3>1
      <4> QED  BY <3>1, <4>1, <4>2
    <3>2. CASE i = 0  BY <2>3, <2>4, <3>2
    <3>3. CASE i \in 1 .. m
      <4>1. g[i] = f[i] /\ g[i - 1] = f[i - 1]  BY <2>4, <3>3
      <4> QED  BY <2>3, <3>3, <4>1
    <3> QED  BY <3>1, <3>2, <3>3
  <2>6. g = [i \in 0 .. m + 1 |-> IF i = 0 THEN tab ELSE ReserveKey(g[i - 1], keys[i], t)]
    BY <2>2, <2>5
  <2>7. m + 1 \in Nat  OBVIOUS
  <2> QED  BY <2>6, <2>7 DEF ReserveRun
<1> HIDE DEF S
<1>3. \A m \in Nat : m \in S  BY <1>1, <1>2, Induction
<1> QED  BY <1>3 DEF S

(* What Reservations tells of them. *)
LEMMA ReservationsRun ==
  ASSUME NEW tab, NEW keys \in Seq(Key), NEW t
  PROVE  \E f : /\ ReserveRun(f, Len(keys), tab, keys, t)
                /\ Reservations(tab, keys, t) =
                     [i \in 1 .. Len(keys) |->
                        [before |-> f[i - 1], after |-> f[i], got |-> HasRoom(f[i - 1], keys[i], t)]]
<1> DEFINE F == CHOOSE f : f = [i \in 0 .. Len(keys) |->
                    IF i = 0 THEN tab ELSE ReserveKey(f[i - 1], keys[i], t)]
<1>1. \E f : f = [i \in 0 .. Len(keys) |-> IF i = 0 THEN tab ELSE ReserveKey(f[i - 1], keys[i], t)]
  <2>1. Len(keys) \in Nat  OBVIOUS
  <2>2. \E f : ReserveRun(f, Len(keys), tab, keys, t)  BY <2>1, ReserveRuns
  <2> QED  BY <2>2 DEF ReserveRun
<1>2. F = [i \in 0 .. Len(keys) |-> IF i = 0 THEN tab ELSE ReserveKey(F[i - 1], keys[i], t)]
  BY <1>1
<1>3. Reservations(tab, keys, t) =
        [i \in 1 .. Len(keys) |->
           [before |-> F[i - 1], after |-> F[i], got |-> HasRoom(F[i - 1], keys[i], t)]]
  BY DEF Reservations
<1> HIDE DEF F
<1> QED  BY <1>2, <1>3 DEF ReserveRun

(* No key twice. *)
Distinct(keys) == \A i, j \in DOMAIN keys : keys[i] = keys[j] => i = j

(* Every key of the attempt may go on, for the counters it is checked against. *)
MayGoOn(tab, keys, t) ==
    \A i \in DOMAIN keys : keys[i] \in DOMAIN tab => ~MustWait(keys[i], tab[keys[i]], t)

(* The first i keys of an attempt. *)
FirstKeys(keys, i) == {keys[m] : m \in 1 .. i}

(* The keys among the first i that found room. *)
Placed(f, keys, i, t, j) == \E m \in 1 .. i : keys[m] = j /\ HasRoom(f[m - 1], keys[m], t)

(* What reserving the first i keys of an attempt does to the map. *)
ReservedUpTo(tab, new, f, keys, i, t) ==
    /\ IsTable(new)
    /\ SameBut(tab, new, FirstKeys(keys, i), t)
    /\ \A j \in Key : PendingOf(new, j) =
         IF Placed(f, keys, i, t, j) THEN PendingOf(tab, j) + 1 ELSE PendingOf(tab, j)
    /\ Fits(tab) => Fits(new)
    /\ AllFull(tab) => AllFull(new)
    /\ AllWithin(tab) => AllWithin(new)
    /\ \A k \in Key : Live(tab, k, t) => LiveKept(tab, new, k, t)

(* One more key reserved. *)
LEMMA ReservedNext ==
  ASSUME NEW tab, IsTable(tab), NEW keys \in Seq(Key), Distinct(keys),
         NEW t \in Nat, MayGoOn(tab, keys, t), NEW i \in Nat, i + 1 <= Len(keys), NEW f,
         NEW old, old = f[i], ReservedUpTo(tab, old, f, keys, i, t),
         NEW new, new = ReserveKey(old, keys[i + 1], t)
  PROVE  ReservedUpTo(tab, new, f, keys, i + 1, t)
<1>1. i + 1 \in DOMAIN keys /\ (i + 1) - 1 = i  OBVIOUS
<1>2. PICK k \in Key : k = keys[i + 1]  BY <1>1
<1>3. IsTable(old) /\ SameBut(tab, old, FirstKeys(keys, i), t)  BY DEF ReservedUpTo
<1>4. PICK fc : fc = Found(old, k, t)  OBVIOUS
<1>5. PICK c : c = Restarted(k, fc, t)  OBVIOUS
<1>6. /\ IsTable(new)
      /\ SameBut(old, new, {k}, t)
      /\ HasRoom(old, k, t) =>
           /\ k \in DOMAIN new
           /\ new[k].failures = c.failures /\ new[k].until = c.until /\ new[k].since = c.since
           /\ new[k].pending = fc.pending + 1
      /\ ~HasRoom(old, k, t) => k \notin DOMAIN old /\ k \notin DOMAIN new
  <2>1. ReservedTo(old, new, k, t)  BY <1>2, <1>3, ReserveKeyTable
  <2> QED  BY <1>4, <1>5, <2>1 DEF ReservedTo
<1>7. fc \in Counter  BY <1>3, <1>4, FreshCounter DEF Found, IsTable
<1>8. /\ c \in Counter /\ c.pending = fc.pending
      /\ Lapsed(k, fc, t) => c.failures = 0 /\ c.until = Unlocked
      /\ ~Lapsed(k, fc, t) => c = fc
  BY <1>5, <1>7, RestartedCounter
<1>9. k \notin FirstKeys(keys, i)  BY <1>1, <1>2 DEF FirstKeys, Distinct
<1>10. FirstKeys(keys, i + 1) = FirstKeys(keys, i) \union {k}  BY <1>2 DEF FirstKeys
<1>11. SameBut(tab, new, FirstKeys(keys, i + 1), t)  BY <1>3, <1>6, <1>10, SameButComposes
<1>12. \A j : Placed(f, keys, i, t, j) => j \in FirstKeys(keys, i)  BY DEF Placed, FirstKeys
<1>13. \A j : Placed(f, keys, i + 1, t, j) <=> Placed(f, keys, i, t, j) \/ (j = k /\ HasRoom(old, k, t))
  BY <1>1, <1>2 DEF Placed
<1>14. fc.pending = PendingOf(old, k)  BY <1>4, FreshCounter DEF Found, PendingOf
<1>15. PendingOf(old, k) = PendingOf(tab, k)  BY <1>9, <1>12 DEF ReservedUpTo
<1>16. ASSUME NEW j \in Key
       PROVE  PendingOf(new, j) = IF Placed(f, keys, i + 1, t, j) THEN PendingOf(tab, j) + 1
                                  ELSE PendingOf(tab, j)
  <2>1. CASE j = k
    <3>1. Placed(f, keys, i + 1, t, k) <=> HasRoom(old, k, t)  BY <1>9, <1>12, <1>13
    <3>2. CASE HasRoom(old, k, t)  BY <1>6, <1>14, <1>15, <2>1, <3>1, <3>2 DEF PendingOf
    <3>3. CASE ~HasRoom(old, k, t)  BY <1>6, <1>15, <2>1, <3>1, <3>3 DEF PendingOf
    <3> QED  BY <3>2, <3>3
  <2>2. CASE j # k
    <3>1. PendingOf(new, j) = PendingOf(old, j)  BY <1>3, <1>6, <2>2, PendingSame
    <3>2. Placed(f, keys, i + 1, t, j) <=> Placed(f, keys, i, t, j)  BY <1>13, <2>2
    <3> QED  BY <3>1, <3>2 DEF ReservedUpTo
  <2> QED  BY <2>1, <2>2
<1>17. Fits(tab) => Fits(new)  BY <1>2, <1>3, ReserveKeyFits DEF ReservedUpTo
<1>18. AllFull(tab) => AllFull(new)
  <2> SUFFICES ASSUME AllFull(tab), NEW j \in DOMAIN new PROVE Full(j, new[j])
    BY DEF AllFull
  <2>1. AllFull(old)  BY DEF ReservedUpTo
  <2>2. CASE j = k
    <3>1. HasRoom(old, k, t)  BY <1>6, <2>2
    <3>2. Full(k, fc)  BY <1>4, <2>1, FreshCounter DEF Found, Full, AllFull
    <3>3. Full(k, c)  BY <1>8, <3>2 DEF Full
    <3> QED  BY <1>6, <2>2, <3>1, <3>3 DEF Full
  <2>3. CASE j # k  BY <1>6, <2>1, <2>3 DEF SameBut, AllFull
  <2> QED  BY <2>2, <2>3
<1>19. AllWithin(tab) => AllWithin(new)
  <2> SUFFICES ASSUME AllWithin(tab), NEW j \in DOMAIN new
               PROVE  new[j].failures + new[j].pending <= Limit[j.rule]
    BY DEF AllWithin
  <2>1. AllWithin(old)  BY DEF ReservedUpTo
  <2>2. CASE j # k  BY <1>6, <2>1, <2>2 DEF SameBut, AllWithin
  <2>3. CASE j = k
    <3>1. HasRoom(old, k, t)  BY <1>6, <2>3
    <3>2. new[k].failures = c.failures /\ new[k].pending = fc.pending + 1  BY <1>6, <3>1
    <3>3. Limit[k.rule] \in Nat \ {0}  BY KeyParts
    <3>4. fc.failures \in Nat /\ fc.pending \in Nat  BY <1>7 DEF Counter
    <3>5. CASE k \notin DOMAIN old
      <4>1. fc.failures = 0 /\ fc.pending = 0 /\ c.failures = 0
        BY <1>4, <1>8, <3>5, FreshCounter DEF Found
      <4> QED  BY <2>3, <3>2, <3>3, <4>1
    <3>6. CASE k \in DOMAIN old
      <4>1. k \in DOMAIN tab /\ fc = tab[k]  BY <1>3, <1>4, <1>9, <3>6 DEF Found, SameBut
      <4>2. ~MustWait(k, fc, t)  BY <1>1, <1>2, <4>1 DEF MayGoOn
      <4>3. (IF Lapsed(k, fc, t) THEN 0 ELSE fc.failures) + fc.pending < Limit[k.rule]
        BY <3>3, <3>4, <4>2 DEF MustWait
      <4>4. c.failures = IF Lapsed(k, fc, t) THEN 0 ELSE fc.failures  BY <1>8
      <4> QED  BY <2>3, <3>2, <3>3, <3>4, <4>3, <4>4
    <3> QED  BY <3>5, <3>6
  <2> QED  BY <2>2, <2>3
<1>20. ASSUME NEW j \in Key, Live(tab, j, t) PROVE LiveKept(tab, new, j, t)
  <2>1. LiveKept(tab, old, j, t) /\ j \in DOMAIN tab  BY <1>20 DEF ReservedUpTo, Live
  <2>2. Live(old, j, t)  BY <2>1 DEF LiveKept
  <2>3. LiveKept(old, new, j, t)
    <3>1. CASE j # k  BY <1>3, <1>6, <2>2, <3>1, LiveSame
    <3>2. CASE j = k
      <4>1. k \in DOMAIN old /\ fc = old[k] /\ ~Lapsed(k, fc, t) /\ fc.failures > 0
        BY <1>4, <2>2, <3>2 DEF Live, Found
      <4>2. HasRoom(old, k, t) /\ c = fc  BY <1>8, <4>1 DEF HasRoom
      <4>3. k \in DOMAIN new /\ new[k].failures = fc.failures /\ new[k].until = fc.until
            /\ new[k].since = fc.since
        BY <1>6, <4>2
      <4>4. ~Lapsed(k, new[k], t)  BY <4>1, <4>3 DEF Lapsed, Locked
      <4>5. fc.failures \in Nat  BY <1>7 DEF Counter
      <4> QED  BY <3>2, <4>1, <4>3, <4>4, <4>5 DEF LiveKept, Live
    <3> QED  BY <3>1, <3>2
  <2> QED  BY <1>3, <1>6, <2>1, <2>3, LiveComposes
<1> QED  BY <1>6, <1>11, <1>16, <1>17, <1>18, <1>19, <1>20 DEF ReservedUpTo

(* No key reserved. *)
LEMMA ReservedNone ==
  ASSUME NEW tab, IsTable(tab), NEW keys \in Seq(Key), NEW t \in Nat, NEW f
  PROVE  ReservedUpTo(tab, tab, f, keys, 0, t)
<1>1. FirstKeys(keys, 0) = {} /\ \A j : ~Placed(f, keys, 0, t, j)  BY DEF FirstKeys, Placed
<1>2. SameBut(tab, tab, {}, t)  BY DEF SameBut
<1>3. \A k : Live(tab, k, t) => LiveKept(tab, tab, k, t)  BY DEF IsTable, Counter, Live, LiveKept
<1> QED  BY <1>1, <1>2, <1>3 DEF ReservedUpTo

(* What the loop of reserve_at does to the map, up to any of its keys. *)
LEMMA ReservationsTable ==
  ASSUME NEW tab, IsTable(tab), NEW keys \in Seq(Key), Distinct(keys), NEW t \in Nat,
         MayGoOn(tab, keys, t)
  PROVE  \E f : /\ \A i \in 0 .. Len(keys) : ReservedUpTo(tab, f[i], f, keys, i, t)
                /\ Reservations(tab, keys, t) =
                     [i \in 1 .. Len(keys) |->
                        [before |-> f[i - 1], after |-> f[i], got |-> HasRoom(f[i - 1], keys[i], t)]]
<1>1. PICK n \in Nat : n = Len(keys)  OBVIOUS
<1>2. PICK f : /\ ReserveRun(f, n, tab, keys, t)
               /\ Reservations(tab, keys, t) =
                    [i \in 1 .. Len(keys) |->
                       [before |-> f[i - 1], after |-> f[i], got |-> HasRoom(f[i - 1], keys[i], t)]]
  BY <1>1, ReservationsRun
<1>3. f[0] = tab /\ \A i \in 1 .. n : f[i] = ReserveKey(f[i - 1], keys[i], t)
  BY <1>2 DEF ReserveRun
<1> DEFINE S == {i \in Nat : i <= n => ReservedUpTo(tab, f[i], f, keys, i, t)}
<1>4. 0 \in S  BY <1>3, ReservedNone
<1>5. ASSUME NEW i \in Nat, i \in S PROVE i + 1 \in S
  <2> SUFFICES ASSUME i + 1 <= n PROVE ReservedUpTo(tab, f[i + 1], f, keys, i + 1, t)
    OBVIOUS
  <2>1. ReservedUpTo(tab, f[i], f, keys, i, t)  BY <1>5
  <2>2. i + 1 \in 1 .. n /\ (i + 1) - 1 = i  OBVIOUS
  <2>3. f[i + 1] = ReserveKey(f[i], keys[i + 1], t)  BY <1>3, <2>2
  <2> QED  BY <1>1, <2>1, <2>3, ReservedNext
<1> HIDE DEF S
<1>6. \A i \in Nat : i \in S  BY <1>4, <1>5, Induction
<1>7. \A i \in 0 .. Len(keys) : ReservedUpTo(tab, f[i], f, keys, i, t)
  BY <1>1, <1>6 DEF S
<1> QED  BY <1>2, <1>7

-----------------------------------------------------------------------------
(* The keys of an attempt are distinct, and only the first may be a pair. *)
LEMMA KeysOfAttempt ==
  ASSUME NEW name \in Names \union {NoName}, NEW addr \in Addrs
  PROVE  /\ KeysOf(name, addr) \in Seq(Key)
         /\ Len(KeysOf(name, addr)) \in Nat \ {0}
         /\ Distinct(KeysOf(name, addr))
         /\ \A i \in DOMAIN KeysOf(name, addr) : IsPair(KeysOf(name, addr)[i]) => i = 1
<1>1. PICK p \in Nat : p = IF name = NoName THEN 0 ELSE Len(PairRules)  BY PolicyAssumption
<1>2. PICK n \in Nat : n = Len(AddressRules) /\ n # 0  BY PolicyAssumption
<1>3. DOMAIN AddressRules = 1 .. n /\ p <= 1  BY <1>1, <1>2, PolicyAssumption
<1>4. \A i \in 1 .. p : PairRules[i] \in Rules /\ name # NoName
  BY <1>1, PolicyAssumption
<1>5. \A i \in 1 .. n : AddressRules[i] \in Rules  BY <1>2, PolicyAssumption
<1>6. PICK a : a = [i \in 1 .. p |-> [rule |-> PairRules[i], name |-> name, addr |-> addr]]
  OBVIOUS
<1>7. PICK b : b = [i \in 1 .. n |-> [rule |-> AddressRules[i], name |-> NoName, addr |-> addr]]
  OBVIOUS
<1>8. a \in Seq(Key) /\ Len(a) = p /\ \A i \in 1 .. p : a[i].name # NoName
  BY <1>4, <1>6 DEF Key
<1>9. b \in Seq(Key) /\ Len(b) = n
      /\ \A i \in 1 .. n : b[i].name = NoName /\ b[i].rule = AddressRules[i]
  BY <1>5, <1>7 DEF Key
<1>10. PICK ks : ks = KeysOf(name, addr)  OBVIOUS
<1>11. ks = a \o b  BY <1>1, <1>3, <1>6, <1>7, <1>10 DEF KeysOf
<1>12. ks \in Seq(Key) /\ Len(ks) = p + n
  <2>1. a \in Seq(Key) /\ b \in Seq(Key)  BY <1>8, <1>9
  <2>2. a \o b \in Seq(Key) /\ Len(a \o b) = Len(a) + Len(b)  BY <2>1
  <2> QED  BY <1>8, <1>9, <1>11, <2>2
<1>13. \A i \in 1 .. p + n : ks[i] = IF i <= p THEN a[i] ELSE b[i - p]
  BY <1>8, <1>9, <1>11
<1>14. Distinct(ks)
  <2> SUFFICES ASSUME NEW i \in 1 .. p + n, NEW j \in 1 .. p + n, ks[i] = ks[j] PROVE i = j
    BY <1>12 DEF Distinct
  <2>1. CASE i <= p /\ j <= p  BY <1>3, <2>1
  <2>2. CASE i <= p /\ j > p
    <3>1. ks[i].name # NoName /\ ks[j].name = NoName  BY <1>8, <1>9, <1>13, <2>2
    <3> QED  BY <3>1
  <2>3. CASE i > p /\ j <= p
    <3>1. ks[j].name # NoName /\ ks[i].name = NoName  BY <1>8, <1>9, <1>13, <2>3
    <3> QED  BY <3>1
  <2>4. CASE i > p /\ j > p
    <3>1. i - p \in 1 .. n /\ j - p \in 1 .. n  BY <2>4
    <3>2. ks[i] = b[i - p] /\ ks[j] = b[j - p]  BY <1>13, <2>4
    <3>3. AddressRules[i - p] = AddressRules[j - p]  BY <1>9, <3>1, <3>2
    <3>4. i - p = j - p  BY <1>3, <3>1, <3>3, PolicyAssumption
    <3> QED  BY <3>4
  <2> QED  BY <2>1, <2>2, <2>3, <2>4
<1>15. ASSUME NEW i \in DOMAIN ks, IsPair(ks[i]) PROVE i = 1
  <2>1. i \in 1 .. p + n /\ ks[i].name # NoName  BY <1>12, <1>15 DEF IsPair
  <2>2. i <= p  BY <1>9, <1>13, <2>1
  <2> QED  BY <1>3, <2>1, <2>2
<1> QED  BY <1>10, <1>12, <1>14, <1>15, <1>2

(* The attempts in flight: their keys are distinct, only the first may be a pair, and one *)
(* that is not reserved was let through at a full map.                                    *)
HeldKeys ==
    \A r \in Requests : \A i \in DOMAIN attempts[r] :
        /\ attempts[r][i].reserved \/ uncounted
        /\ IsPair(attempts[r][i].key) => i = 1
        /\ \A j \in DOMAIN attempts[r] : attempts[r][i].key = attempts[r][j].key => i = j

(* The inductive invariant: the counts are exact, a lock comes with its failures. *)
ThrottleInv ==
    /\ ThrottleTypeOK
    /\ HeldKeys
    /\ \A k \in Key : IsFiniteSet(Holders(k))
    /\ PendingExact
    /\ WithinLimit
    /\ AllFull(counters)
    /\ Fits(counters)

(* The invariant in the terms of the lemmas about maps. *)
LEMMA InvTable ==
  ASSUME ThrottleInv
  PROVE  /\ IsTable(counters)
         /\ \A k \in Key : Cardinality(Holders(k)) = PendingOf(counters, k)
         /\ ~uncounted => AllWithin(counters)
         /\ \A t \in Instants : t \in Nat /\ t <= clock
         /\ clock \in Nat /\ uncounted \in BOOLEAN
         /\ attempts \in [Requests -> Seq(Reserved)]
<1>1. ThrottleTypeOK /\ PendingExact /\ WithinLimit  BY DEF ThrottleInv
<1>2. IsTable(counters)  BY <1>1 DEF ThrottleTypeOK, IsTable
<1>3. \A k \in Key : Cardinality(Holders(k)) = PendingOf(counters, k)
  BY <1>1 DEF PendingExact, PendingOf
<1>4. ~uncounted => AllWithin(counters)  BY <1>1 DEF WithinLimit, AllWithin
<1>5. clock \in Nat /\ uncounted \in BOOLEAN  BY <1>1 DEF ThrottleTypeOK
<1>6. \A t \in Instants : t \in Nat /\ t <= clock  BY <1>5 DEF Instants
<1>7. attempts \in [Requests -> Seq(Reserved)]  BY <1>1 DEF ThrottleTypeOK, Reserved
<1> QED  BY <1>2, <1>3, <1>4, <1>5, <1>6, <1>7

(* What an attempt in flight reserved is pending. *)
LEMMA HeldIsPending ==
  ASSUME ThrottleInv, NEW r \in Requests
  PROVE  Settleable(counters, attempts[r])
<1>1. attempts[r] \in Seq(Reserved)  BY InvTable
<1>2. ASSUME NEW i \in DOMAIN attempts[r], attempts[r][i].reserved
      PROVE  PendingOf(counters, attempts[r][i].key) > 0
  <2>0. attempts[r][i] \in Reserved  BY <1>1
  <2>1. PICK k \in Key : k = attempts[r][i].key  BY <2>0 DEF Reserved
  <2>2. r \in Holders(k)  BY <1>2, <2>1 DEF Holders
  <2>3. IsFiniteSet(Holders(k))  BY DEF ThrottleInv
  <2>4. Cardinality(Holders(k)) \in Nat /\ Cardinality(Holders(k)) # 0
    BY <2>2, <2>3, FS_EmptySet, FS_CardinalityType
  <2>5. Cardinality(Holders(k)) = PendingOf(counters, k)  BY InvTable
  <2> QED  BY <2>1, <2>4, <2>5
<1> QED  BY <1>2 DEF Settleable, ThrottleInv, HeldKeys

-----------------------------------------------------------------------------
(* The step keeps the locks in force and the failures that count. *)
KeepsLocks ==
    ~uncounted =>
        \A k \in DOMAIN counters : Locked(counters[k], clock) =>
            k \in DOMAIN counters' /\ counters'[k].until = counters[k].until

(* What LiveFailuresKept says of a step. *)
KeepsLive ==
    \A k \in DOMAIN counters :
        \/ counters[k].failures = 0 \/ Lapsed(k, counters[k], clock)
        \/ k \in DOMAIN counters' /\ counters'[k].failures >= counters[k].failures
        \/ IsPair(k) /\ \E r \in Requests :
             /\ attempts[r] # << >> /\ attempts'[r] = << >>
             /\ attempts[r][1].key = k

(* What each step must be shown to do. *)
StepOK == ThrottleInv' /\ KeepsLocks /\ KeepsLive

(* A lock in force is in force, and failures that count count, at an instant in the past too. *)
LEMMA Earlier ==
  ASSUME NEW tab, IsTable(tab), NEW k \in DOMAIN tab, NEW t \in Nat, NEW now \in Nat, t <= now
  PROVE  /\ Locked(tab[k], now) => Locked(tab[k], t) /\ tab[k].until # Unlocked
         /\ ~Lapsed(k, tab[k], now) => ~Lapsed(k, tab[k], t)
<1>1. tab[k].until \in Nat /\ tab[k].since \in Nat /\ Window[k.rule] \in Nat
  BY KeyParts DEF IsTable, Counter
<1> QED  BY <1>1 DEF Locked, Lapsed, Unlocked

(* No change to other keys lifts a lock in force. *)
LEMMA LockSame ==
  ASSUME NEW a, NEW b, NEW X, NEW t, SameBut(a, b, X, t), NEW k \in DOMAIN a, k \notin X, Locked(a[k], t)
  PROVE  k \in DOMAIN b /\ b[k] = a[k]
  BY DEF SameBut, Expired, Lapsed

(* Live failures of the map in the terms of KeepsLive. *)
LEMMA LiveNow ==
  ASSUME ThrottleInv, NEW t \in Instants, NEW k \in DOMAIN counters,
         counters[k].failures # 0, ~Lapsed(k, counters[k], clock)
  PROVE  k \in Key /\ Live(counters, k, t)
<1>1. IsTable(counters) /\ t \in Nat /\ t <= clock /\ clock \in Nat  BY InvTable
<1>2. counters[k].failures \in Nat /\ k \in Key  BY <1>1 DEF IsTable, Counter
<1> QED  BY <1>1, <1>2, Earlier DEF Live

(* What begin knows when every key may go on: the maps of reserve_at. *)
LEMMA BeginMaps ==
  ASSUME ThrottleInv, NEW name \in Names \union {NoName}, NEW addr \in Addrs, NEW t \in Instants,
         NEW keys, keys = KeysOf(name, addr), LetThrough(keys, t)
  PROVE  /\ keys \in Seq(Key) /\ Len(keys) \in Nat \ {0} /\ DOMAIN keys = 1 .. Len(keys)
         /\ Distinct(keys)
         /\ \A i \in DOMAIN keys : IsPair(keys[i]) => i = 1
         /\ MayGoOn(counters, keys, t)
         /\ \E f : /\ \A i \in 0 .. Len(keys) : ReservedUpTo(counters, f[i], f, keys, i, t)
                   /\ Reservations(counters, keys, t) =
                        [i \in 1 .. Len(keys) |->
                          [before |-> f[i - 1], after |-> f[i], got |-> HasRoom(f[i - 1], keys[i], t)]]
<1>1. /\ keys \in Seq(Key) /\ Len(keys) \in Nat \ {0} /\ Distinct(keys)
      /\ \A i \in DOMAIN keys : IsPair(keys[i]) => i = 1
  BY KeysOfAttempt
<1>2. MayGoOn(counters, keys, t)  BY DEF LetThrough, MayGoOn
<1>3. IsTable(counters) /\ t \in Nat  BY InvTable
<1>4. \E f : /\ \A i \in 0 .. Len(keys) : ReservedUpTo(counters, f[i], f, keys, i, t)
             /\ Reservations(counters, keys, t) =
                  [i \in 1 .. Len(keys) |->
                    [before |-> f[i - 1], after |-> f[i], got |-> HasRoom(f[i - 1], keys[i], t)]]
  BY <1>1, <1>2, <1>3, ReservationsTable
<1>5. DOMAIN keys = 1 .. Len(keys)  BY <1>1
<1> QED  BY <1>1, <1>2, <1>4, <1>5

(* A key that may go on is not locked. *)
LEMMA GoingOnUnlocked ==
  ASSUME ThrottleInv, NEW keys \in Seq(Key), NEW t \in Instants, MayGoOn(counters, keys, t),
         NEW k \in DOMAIN counters, Locked(counters[k], clock), NEW i \in 0 .. Len(keys)
  PROVE  k \notin FirstKeys(keys, i) /\ Locked(counters[k], t)
<1>1. IsTable(counters) /\ t \in Nat /\ t <= clock /\ clock \in Nat  BY InvTable
<1>2. Locked(counters[k], t)  BY <1>1, Earlier
<1>3. ASSUME NEW m \in 1 .. i, keys[m] = k PROVE FALSE
  <2>1. m \in DOMAIN keys  OBVIOUS
  <2> QED  BY <1>2, <1>3, <2>1 DEF MayGoOn, MustWait
<1> QED  BY <1>2, <1>3 DEF FirstKeys

(* An attempt begun: every key that found room counts one more in flight. *)
LEMMA BeginStep ==
  ASSUME ThrottleInv, NEW r \in Requests, NEW t \in Instants, NEW name \in Names \union {NoName},
         NEW addr \in Addrs, Begin(r, name, addr, t)
  PROVE  StepOK
<1>1. PICK keys : keys = KeysOf(name, addr)  OBVIOUS
<1>2. LetThrough(keys, t) /\ attempts[r] = << >>  BY <1>1 DEF Begin
<1>3. /\ keys \in Seq(Key) /\ Len(keys) \in Nat \ {0} /\ DOMAIN keys = 1 .. Len(keys)
      /\ Distinct(keys)
      /\ \A i \in DOMAIN keys : IsPair(keys[i]) => i = 1
      /\ MayGoOn(counters, keys, t)
  BY <1>1, <1>2, BeginMaps
<1>4. PICK f : /\ \A i \in 0 .. Len(keys) : ReservedUpTo(counters, f[i], f, keys, i, t)
               /\ Reservations(counters, keys, t) =
                    [i \in 1 .. Len(keys) |->
                      [before |-> f[i - 1], after |-> f[i], got |-> HasRoom(f[i - 1], keys[i], t)]]
  BY <1>1, <1>2, BeginMaps, SMTT(30)
<1>5. PICK res : res = Reservations(counters, keys, t)  OBVIOUS
<1>6. PICK n \in Nat \ {0} : n = Len(keys)  BY <1>3
<1>7. \A i \in 1 .. n : res[i].after = f[i] /\ res[i].got = HasRoom(f[i - 1], keys[i], t)
  BY <1>4, <1>5, <1>6
<1>8. counters' = f[n]  BY <1>1, <1>5, <1>6, <1>7 DEF Begin
<1>9. PICK held : held = [i \in 1 .. n |-> [key |-> keys[i], reserved |-> res[i].got]]  OBVIOUS
<1>10. attempts' = [attempts EXCEPT ![r] = held]  BY <1>1, <1>3, <1>5, <1>6, <1>9 DEF Begin
<1>11. /\ uncounted' = (uncounted \/ \E i \in 1 .. n : ~res[i].got)
       /\ clock' = clock
  BY <1>1, <1>3, <1>5, <1>6 DEF Begin
<1>12. ReservedUpTo(counters, counters', f, keys, n, t)  BY <1>4, <1>6, <1>8
<1>13. \A i \in 1 .. n : res[i].got \in BOOLEAN  BY <1>7 DEF HasRoom
<1>14. held \in Seq(Reserved) /\ Len(held) = n /\ DOMAIN held = 1 .. n
  <2>1. \A i \in 1 .. n : held[i] \in Reserved  BY <1>3, <1>6, <1>9, <1>13 DEF Reserved
  <2> QED  BY <1>9, <2>1
<1>15. \A i \in 1 .. n : held[i].key = keys[i] /\ held[i].reserved = res[i].got  BY <1>9
<1>16. /\ attempts \in [Requests -> Seq(Reserved)]
       /\ \A q \in Requests : attempts'[q] = IF q = r THEN held ELSE attempts[q]
       /\ attempts' \in [Requests -> Seq(Reserved)]
  <2>1. attempts \in [Requests -> Seq(Reserved)]  BY InvTable
  <2> QED  BY <1>10, <1>14, <2>1
<1>17. ThrottleTypeOK'
  <2>1. IsTable(counters')  BY <1>12 DEF ReservedUpTo
  <2>2. clock' \in Nat /\ uncounted' \in BOOLEAN  BY <1>11, InvTable
  <2> QED  BY <1>16, <2>1, <2>2 DEF ThrottleTypeOK, IsTable, Reserved
<1>18. HeldKeys'
  <2> SUFFICES ASSUME NEW q \in Requests, NEW i \in DOMAIN attempts'[q]
               PROVE  /\ attempts'[q][i].reserved \/ uncounted'
                      /\ IsPair(attempts'[q][i].key) => i = 1
                      /\ \A j \in DOMAIN attempts'[q] : attempts'[q][i].key = attempts'[q][j].key => i = j
    BY DEF HeldKeys
  <2>1. CASE q # r
    <3>1. attempts'[q] = attempts[q]  BY <1>16, <2>1
    <3> QED  BY <1>11, <3>1 DEF ThrottleInv, HeldKeys
  <2>2. CASE q = r
    <3>1. attempts'[q] = held /\ i \in 1 .. n  BY <1>14, <1>16, <2>2
    <3>2. held[i].reserved \/ uncounted'  BY <1>11, <1>15, <3>1
    <3>3. IsPair(held[i].key) => i = 1  BY <1>3, <1>6, <1>15, <3>1
    <3>4. \A j \in DOMAIN held : held[i].key = held[j].key => i = j
      BY <1>3, <1>6, <1>14, <1>15, <3>1 DEF Distinct
    <3> QED  BY <3>1, <3>2, <3>3, <3>4
  <2> QED  BY <2>1, <2>2
<1>19. ASSUME NEW k \in Key
       PROVE  IsFiniteSet(Holders(k))' /\ Cardinality(Holders(k)') = PendingOf(counters', k)
  <2>1. IsFiniteSet(Holders(k)) /\ Cardinality(Holders(k)) = PendingOf(counters, k)
    BY InvTable DEF ThrottleInv
  <2>2. r \notin Holders(k)  BY <1>2 DEF Holders
  <2>3. Placed(f, keys, n, t, k) <=> \E i \in 1 .. n : held[i].key = k /\ held[i].reserved
    BY <1>7, <1>15 DEF Placed
  <2>4. Holders(k)' = IF Placed(f, keys, n, t, k) THEN Holders(k) \union {r} ELSE Holders(k)
    <3>1. \A q \in Requests : q \in Holders(k)' <=>
             \E i \in DOMAIN attempts'[q] : attempts'[q][i].key = k /\ attempts'[q][i].reserved
      BY DEF Holders
    <3>2. \A q \in Requests : q # r => (q \in Holders(k)' <=> q \in Holders(k))
      BY <1>16, <3>1 DEF Holders
    <3>3. r \in Holders(k)' <=> Placed(f, keys, n, t, k)  BY <1>14, <1>16, <2>3, <3>1
    <3>4. Holders(k)' \subseteq Requests /\ Holders(k) \subseteq Requests  BY DEF Holders
    <3> QED  BY <2>2, <3>2, <3>3, <3>4
  <2>5. PendingOf(counters', k) = IF Placed(f, keys, n, t, k) THEN PendingOf(counters, k) + 1
                                  ELSE PendingOf(counters, k)
    BY <1>12 DEF ReservedUpTo
  <2>6. IsFiniteSet(Holders(k) \union {r}) /\ Cardinality(Holders(k) \union {r}) = Cardinality(Holders(k)) + 1
    BY <2>1, <2>2, FS_AddElement
  <2> QED  BY <2>1, <2>4, <2>5, <2>6
<1>20. PendingExact'  BY <1>19 DEF PendingExact, PendingOf
<1>21. WithinLimit'
  <2>1. ~uncounted' => AllWithin(counters)  BY <1>11, InvTable
  <2>2. AllWithin(counters) => AllWithin(counters')  BY <1>12 DEF ReservedUpTo
  <2> QED  BY <2>1, <2>2 DEF WithinLimit, AllWithin
<1>22. AllFull(counters') /\ Fits(counters')  BY <1>12 DEF ReservedUpTo, ThrottleInv
<1>23. KeepsLocks
  <2> SUFFICES ASSUME NEW k \in DOMAIN counters, Locked(counters[k], clock)
               PROVE  k \in DOMAIN counters' /\ counters'[k].until = counters[k].until
    BY DEF KeepsLocks
  <2>1. k \notin FirstKeys(keys, n) /\ Locked(counters[k], t)  BY <1>3, <1>6, GoingOnUnlocked
  <2>2. SameBut(counters, counters', FirstKeys(keys, n), t)  BY <1>12 DEF ReservedUpTo
  <2> QED  BY <2>1, <2>2, LockSame
<1>24. KeepsLive
  <2> SUFFICES ASSUME NEW k \in DOMAIN counters, counters[k].failures # 0, ~Lapsed(k, counters[k], clock)
               PROVE  k \in DOMAIN counters' /\ counters'[k].failures >= counters[k].failures
    BY DEF KeepsLive
  <2>1. k \in Key /\ Live(counters, k, t)  BY LiveNow
  <2>2. LiveKept(counters, counters', k, t)  BY <1>12, <2>1 DEF ReservedUpTo
  <2> QED  BY <2>2 DEF LiveKept, Live
<1>25. ThrottleInv'  BY <1>17, <1>18, <1>19, <1>20, <1>21, <1>22 DEF ThrottleInv
<1> QED  BY <1>23, <1>24, <1>25 DEF StepOK

(* The maps of a begin refused at a full map: what was reserved is given back. *)
LEMMA BeginFullStep ==
  ASSUME ThrottleInv, NEW r \in Requests, NEW t \in Instants, NEW name \in Names \union {NoName},
         NEW addr \in Addrs, BeginFull(r, name, addr, t)
  PROVE  StepOK
<1>1. PICK keys : keys = KeysOf(name, addr)  OBVIOUS
<1>2. LetThrough(keys, t)  BY <1>1 DEF BeginFull
<1>3. /\ keys \in Seq(Key) /\ Len(keys) \in Nat \ {0} /\ DOMAIN keys = 1 .. Len(keys)
      /\ Distinct(keys)
      /\ MayGoOn(counters, keys, t)
  BY <1>1, <1>2, BeginMaps
<1>4. PICK f : /\ \A i \in 0 .. Len(keys) : ReservedUpTo(counters, f[i], f, keys, i, t)
               /\ Reservations(counters, keys, t) =
                    [i \in 1 .. Len(keys) |->
                      [before |-> f[i - 1], after |-> f[i], got |-> HasRoom(f[i - 1], keys[i], t)]]
  BY <1>1, <1>2, BeginMaps
<1>5. PICK res : res = Reservations(counters, keys, t)  OBVIOUS
<1>6. \A i \in 1 .. Len(keys) : res[i].after = f[i] /\ res[i].got = HasRoom(f[i - 1], keys[i], t)
  BY <1>4, <1>5
<1>7. PICK n \in DOMAIN keys :
        /\ ~res[n].got /\ \A i \in 1 .. n - 1 : res[i].got
        /\ counters' = SettleIn(res[n].after, [i \in 1 .. n - 1 |-> [key |-> keys[i], reserved |-> TRUE]],
                                "refunded", t)
  BY <1>1, <1>5 DEF BeginFull
<1>8. n \in 1 .. Len(keys) /\ n \in Nat /\ n - 1 \in Nat  BY <1>3
<1>9. PICK given : given = [i \in 1 .. n - 1 |-> [key |-> keys[i], reserved |-> TRUE]]  OBVIOUS
<1>10. counters' = SettleIn(f[n], given, "refunded", t)  BY <1>6, <1>7, <1>8, <1>9
<1>11. ReservedUpTo(counters, f[n], f, keys, n, t)  BY <1>4, <1>8
<1>12. given \in Seq(Reserved) /\ Len(given) = n - 1 /\ DOMAIN given = 1 .. n - 1
  <2>1. \A i \in 1 .. n - 1 : given[i] \in Reserved  BY <1>3, <1>8, <1>9 DEF Reserved
  <2> QED  BY <1>8, <1>9, <2>1
<1>13. \A i \in 1 .. n - 1 : given[i].key = keys[i] /\ given[i].reserved  BY <1>9
<1>14. \A i \in 1 .. n - 1 : HasRoom(f[i - 1], keys[i], t)  BY <1>6, <1>7, <1>8
<1>15. ~HasRoom(f[n - 1], keys[n], t)  BY <1>6, <1>7, <1>8
<1>16. \A j \in Key : Placed(f, keys, n, t, j) <=> GivesBack(given, n - 1, j)
  <2> SUFFICES ASSUME NEW j \in Key PROVE Placed(f, keys, n, t, j) <=> GivesBack(given, n - 1, j)
    OBVIOUS
  <2>1. \A m \in 1 .. n : m = n \/ m \in 1 .. n - 1  BY <1>8
  <2>2. Placed(f, keys, n, t, j) => GivesBack(given, n - 1, j)
    BY <1>13, <1>15, <2>1 DEF Placed, GivesBack
  <2>3. GivesBack(given, n - 1, j) => Placed(f, keys, n, t, j)
    BY <1>8, <1>13, <1>14 DEF Placed, GivesBack
  <2> QED  BY <2>2, <2>3
<1>17. IsTable(counters) /\ IsTable(f[n]) /\ t \in Nat  BY <1>11, InvTable DEF ReservedUpTo
<1>18. Settleable(f[n], given)
  <2>1. \A i, j \in DOMAIN given : given[i].key = given[j].key => i = j
    BY <1>3, <1>8, <1>12, <1>13 DEF Distinct
  <2>2. ASSUME NEW i \in DOMAIN given PROVE PendingOf(f[n], given[i].key) > 0
    <3>1. PICK k \in Key : k = given[i].key  BY <1>3, <1>8, <1>12, <1>13
    <3>2. GivesBack(given, n - 1, k)  BY <1>12, <1>13, <3>1 DEF GivesBack
    <3>3. PendingOf(f[n], k) = PendingOf(counters, k) + 1  BY <1>11, <1>16, <3>2 DEF ReservedUpTo
    <3>4. PendingOf(counters, k) \in Nat  BY <1>17, PendingNat
    <3> QED  BY <3>1, <3>3, <3>4
  <2> QED  BY <2>1, <2>2 DEF Settleable
<1>19. SettledUpTo(f[n], counters', given, n - 1, "refunded", t)
  BY <1>10, <1>12, <1>17, <1>18, SettleInTable DEF Outcomes
<1>20. UNCHANGED <<attempts, clock, uncounted>>  BY DEF BeginFull
<1>21. ThrottleTypeOK'
  <2>1. IsTable(counters')  BY <1>19 DEF SettledUpTo
  <2> QED  BY <1>20, <2>1 DEF ThrottleInv, ThrottleTypeOK, IsTable
<1>22. HeldKeys'  BY <1>20 DEF ThrottleInv, HeldKeys
<1>23. \A k : Holders(k)' = Holders(k)  BY <1>20 DEF Holders
<1>24. ASSUME NEW k \in Key
       PROVE  IsFiniteSet(Holders(k))' /\ Cardinality(Holders(k)') = PendingOf(counters', k)
  <2>1. IsFiniteSet(Holders(k)) /\ Cardinality(Holders(k)) = PendingOf(counters, k)
    BY InvTable DEF ThrottleInv
  <2>2. PendingOf(counters', k) = IF GivesBack(given, n - 1, k) THEN PendingOf(f[n], k) - 1
                                  ELSE PendingOf(f[n], k)
    BY <1>19 DEF SettledUpTo
  <2>3. PendingOf(f[n], k) = IF GivesBack(given, n - 1, k) THEN PendingOf(counters, k) + 1
                             ELSE PendingOf(counters, k)
    BY <1>11, <1>16 DEF ReservedUpTo
  <2>4. PendingOf(counters, k) \in Nat  BY <1>17, PendingNat
  <2>5. PendingOf(counters', k) = PendingOf(counters, k)  BY <2>2, <2>3, <2>4
  <2> QED  BY <1>23, <2>1, <2>5
<1>25. PendingExact'  BY <1>24 DEF PendingExact, PendingOf
<1>26. WithinLimit'
  <2>1. ~uncounted' => AllWithin(f[n])  BY <1>11, <1>20, InvTable DEF ReservedUpTo
  <2>2. AllWithin(f[n]) => AllWithin(counters')  BY <1>12, <1>13, <1>19 DEF SettledUpTo
  <2> QED  BY <2>1, <2>2 DEF WithinLimit, AllWithin
<1>27. AllFull(counters') /\ Fits(counters')
  <2>1. AllFull(f[n]) /\ Fits(f[n])  BY <1>11 DEF ReservedUpTo, ThrottleInv
  <2> QED  BY <1>19, <2>1 DEF SettledUpTo
<1>28. KeepsLocks
  <2> SUFFICES ASSUME NEW k \in DOMAIN counters, Locked(counters[k], clock)
               PROVE  k \in DOMAIN counters' /\ counters'[k].until = counters[k].until
    BY DEF KeepsLocks
  <2>1. k \notin FirstKeys(keys, n) /\ Locked(counters[k], t)  BY <1>3, <1>8, GoingOnUnlocked
  <2>2. SameBut(counters, f[n], FirstKeys(keys, n), t)  BY <1>11 DEF ReservedUpTo
  <2>3. k \in DOMAIN f[n] /\ f[n][k] = counters[k]  BY <2>1, <2>2, LockSame
  <2>4. KeysUpTo(given, n - 1) \subseteq FirstKeys(keys, n)  BY <1>8, <1>13 DEF KeysUpTo, FirstKeys
  <2>5. SameBut(f[n], counters', KeysUpTo(given, n - 1), t)  BY <1>19 DEF SettledUpTo
  <2>6. k \notin KeysUpTo(given, n - 1) /\ Locked(f[n][k], t)  BY <2>1, <2>3, <2>4
  <2>7. k \in DOMAIN counters' /\ counters'[k] = f[n][k]  BY <2>3, <2>5, <2>6, LockSame
  <2> QED  BY <2>3, <2>7
<1>29. KeepsLive
  <2> SUFFICES ASSUME NEW k \in DOMAIN counters, counters[k].failures # 0, ~Lapsed(k, counters[k], clock)
               PROVE  k \in DOMAIN counters' /\ counters'[k].failures >= counters[k].failures
    BY DEF KeepsLive
  <2>1. k \in Key /\ Live(counters, k, t)  BY LiveNow
  <2>2. LiveKept(counters, f[n], k, t)  BY <1>11, <2>1 DEF ReservedUpTo
  <2>3. Live(f[n], k, t)  BY <2>2 DEF LiveKept
  <2>4. LiveKept(f[n], counters', k, t)  BY <1>19, <2>1, <2>3 DEF SettledUpTo
  <2>5. IsTable(counters')  BY <1>19 DEF SettledUpTo
  <2>6. LiveKept(counters, counters', k, t)  BY <1>17, <2>2, <2>4, <2>5, LiveComposes
  <2> QED  BY <2>6 DEF LiveKept, Live
<1>30. ThrottleInv'  BY <1>21, <1>22, <1>24, <1>25, <1>26, <1>27 DEF ThrottleInv
<1> QED  BY <1>28, <1>29, <1>30 DEF StepOK

(* An outcome, or a client that hung up: what the attempt reserved is given back, once. *)
LEMMA SettleStep ==
  ASSUME ThrottleInv, NEW r \in Requests, NEW t \in Instants, NEW outcome \in Outcomes,
         Settle(r, outcome, t)
  PROVE  StepOK
<1>1. PICK keys : keys = attempts[r]  OBVIOUS
<1>2. keys \in Seq(Reserved) /\ keys # << >> /\ Settleable(counters, keys)
  BY <1>1, InvTable, HeldIsPending DEF Settle
<1>3. PICK n \in Nat : n = Len(keys) /\ DOMAIN keys = 1 .. n  BY <1>2
<1>4. IsTable(counters) /\ t \in Nat /\ t <= clock /\ clock \in Nat  BY InvTable
<1>5. SettledUpTo(counters, counters', keys, n, outcome, t)
  BY <1>1, <1>2, <1>3, <1>4, SettleInTable DEF Settle
<1>6. attempts' = [attempts EXCEPT ![r] = << >>] /\ UNCHANGED <<clock, uncounted>>  BY DEF Settle
<1>7. /\ attempts' \in [Requests -> Seq(Reserved)]
      /\ \A q \in Requests : attempts'[q] = IF q = r THEN << >> ELSE attempts[q]
  <2>1. attempts \in [Requests -> Seq(Reserved)]  BY InvTable
  <2> QED  BY <1>6, <2>1
<1>8. ThrottleTypeOK'
  <2>1. IsTable(counters')  BY <1>5 DEF SettledUpTo
  <2>2. clock' \in Nat /\ uncounted' \in BOOLEAN  BY <1>6, InvTable
  <2> QED  BY <1>7, <2>1, <2>2 DEF ThrottleTypeOK, IsTable, Reserved
<1>9. HeldKeys'
  <2> SUFFICES ASSUME NEW q \in Requests, NEW i \in DOMAIN attempts'[q]
               PROVE  /\ attempts'[q][i].reserved \/ uncounted'
                      /\ IsPair(attempts'[q][i].key) => i = 1
                      /\ \A j \in DOMAIN attempts'[q] : attempts'[q][i].key = attempts'[q][j].key => i = j
    BY DEF HeldKeys
  <2>1. q # r /\ attempts'[q] = attempts[q]  BY <1>7
  <2> QED  BY <1>6, <2>1 DEF ThrottleInv, HeldKeys
<1>10. ASSUME NEW k \in Key
       PROVE  IsFiniteSet(Holders(k))' /\ Cardinality(Holders(k)') = PendingOf(counters', k)
  <2>1. IsFiniteSet(Holders(k)) /\ Cardinality(Holders(k)) = PendingOf(counters, k)
    BY InvTable DEF ThrottleInv
  <2>2. r \in Holders(k) <=> GivesBack(keys, n, k)  BY <1>1, <1>3 DEF Holders, GivesBack
  <2>3. Holders(k)' = Holders(k) \ {r}
    <3>1. \A q \in Requests : q \in Holders(k)' <=>
             \E i \in DOMAIN attempts'[q] : attempts'[q][i].key = k /\ attempts'[q][i].reserved
      BY DEF Holders
    <3>2. \A q \in Requests : q # r => (q \in Holders(k)' <=> q \in Holders(k))
      BY <1>7, <3>1 DEF Holders
    <3>3. r \notin Holders(k)'  BY <1>7, <3>1
    <3>4. Holders(k)' \subseteq Requests /\ Holders(k) \subseteq Requests  BY DEF Holders
    <3> QED  BY <3>2, <3>3, <3>4
  <2>4. PendingOf(counters', k) = IF GivesBack(keys, n, k) THEN PendingOf(counters, k) - 1
                                  ELSE PendingOf(counters, k)
    BY <1>5 DEF SettledUpTo
  <2>5. /\ IsFiniteSet(Holders(k) \ {r})
        /\ Cardinality(Holders(k) \ {r}) =
             IF r \in Holders(k) THEN Cardinality(Holders(k)) - 1 ELSE Cardinality(Holders(k))
    BY <2>1, FS_RemoveElement
  <2> QED  BY <2>1, <2>2, <2>3, <2>4, <2>5
<1>11. PendingExact'  BY <1>10 DEF PendingExact, PendingOf
<1>12. ~uncounted => \A i \in DOMAIN keys : keys[i].reserved  BY <1>1 DEF ThrottleInv, HeldKeys
<1>13. WithinLimit'
  <2>1. ~uncounted' => AllWithin(counters) /\ \A i \in DOMAIN keys : keys[i].reserved
    BY <1>6, <1>12, InvTable
  <2>2. ~uncounted' => AllWithin(counters')  BY <1>5, <2>1 DEF SettledUpTo
  <2> QED  BY <2>2 DEF WithinLimit, AllWithin
<1>14. AllFull(counters') /\ Fits(counters')  BY <1>5 DEF SettledUpTo, ThrottleInv
<1>15. KeepsLocks
  <2> SUFFICES ASSUME ~uncounted, NEW k \in DOMAIN counters, Locked(counters[k], clock)
               PROVE  k \in DOMAIN counters' /\ counters'[k].until = counters[k].until
    BY DEF KeepsLocks
  <2>1. Locked(counters[k], t) /\ counters[k].until # Unlocked  BY <1>4, Earlier
  <2>2. k \in Key /\ counters[k].failures \in Nat /\ counters[k].pending \in Nat /\ Limit[k.rule] \in Nat
    BY <1>4, KeyParts DEF IsTable, Counter
  <2>3. counters[k].failures >= Limit[k.rule]  BY <2>1 DEF ThrottleInv, AllFull, Full
  <2>4. counters[k].failures + counters[k].pending <= Limit[k.rule]  BY InvTable DEF AllWithin
  <2>5. counters[k].pending = 0  BY <2>2, <2>3, <2>4
  <2>6. PendingOf(counters, k) = 0  BY <2>5 DEF PendingOf
  <2>7. k \notin KeysUpTo(keys, n)
    <3>1. ASSUME NEW m \in 1 .. n, keys[m].key = k PROVE FALSE
      <4>1. m \in DOMAIN keys /\ keys[m].reserved  BY <1>3, <1>12
      <4>2. PendingOf(counters, keys[m].key) > 0  BY <1>2, <4>1 DEF Settleable
      <4> QED  BY <2>6, <3>1, <4>2
    <3> QED  BY <3>1 DEF KeysUpTo
  <2>8. SameBut(counters, counters', KeysUpTo(keys, n), t)  BY <1>5 DEF SettledUpTo
  <2> QED  BY <2>1, <2>7, <2>8, LockSame
<1>16. KeepsLive
  <2> SUFFICES ASSUME NEW k \in DOMAIN counters, counters[k].failures # 0, ~Lapsed(k, counters[k], clock)
               PROVE  \/ k \in DOMAIN counters' /\ counters'[k].failures >= counters[k].failures
                      \/ IsPair(k) /\ attempts[r] # << >> /\ attempts'[r] = << >> /\ attempts[r][1].key = k
    BY DEF KeepsLive
  <2>1. k \in Key /\ Live(counters, k, t)  BY LiveNow
  <2>2. \/ LiveKept(counters, counters', k, t)
        \/ outcome = "succeeded" /\ IsPair(k) /\ k \in KeysUpTo(keys, n)
    BY <1>5, <2>1 DEF SettledUpTo
  <2>3. CASE LiveKept(counters, counters', k, t)  BY <2>3 DEF LiveKept, Live
  <2>4. CASE IsPair(k) /\ k \in KeysUpTo(keys, n)
    <3>1. PICK m \in 1 .. n : keys[m].key = k  BY <2>4 DEF KeysUpTo
    <3>2. m = 1  BY <1>1, <1>3, <2>4, <3>1 DEF ThrottleInv, HeldKeys
    <3> QED  BY <1>1, <1>2, <1>7, <2>4, <3>1, <3>2
  <2> QED  BY <2>2, <2>3, <2>4
<1>17. ThrottleInv'  BY <1>8, <1>9, <1>10, <1>11, <1>13, <1>14 DEF ThrottleInv
<1> QED  BY <1>15, <1>16, <1>17 DEF StepOK

(* Nothing but the clock moves, or nothing at all. *)
LEMMA QuietStep ==
  ASSUME ThrottleInv, UNCHANGED <<counters, attempts, uncounted>>, clock' \in Nat
  PROVE  StepOK
<1>1. ThrottleTypeOK'  BY DEF ThrottleInv, ThrottleTypeOK
<1>2. HeldKeys'  BY DEF ThrottleInv, HeldKeys
<1>3. \A k : Holders(k)' = Holders(k)  BY DEF Holders
<1>4. (\A k \in Key : IsFiniteSet(Holders(k)))' /\ PendingExact' /\ WithinLimit'
  BY <1>3 DEF ThrottleInv, PendingExact, WithinLimit
<1>5. AllFull(counters') /\ Fits(counters')  BY DEF ThrottleInv
<1>6. \A k \in DOMAIN counters : counters[k].failures \in Nat
  BY InvTable DEF IsTable, Counter
<1>7. KeepsLocks /\ KeepsLive  BY <1>6 DEF KeepsLocks, KeepsLive
<1> QED  BY <1>1, <1>2, <1>4, <1>5, <1>7 DEF StepOK, ThrottleInv

(* Every step. *)
LEMMA ThrottleStep == ASSUME ThrottleInv, [ThrottleNext]_throttleVars PROVE StepOK
<1>1. ASSUME NEW r \in Requests, NEW t \in Instants, NEW name \in Names \union {NoName}, NEW addr \in Addrs,
             Begin(r, name, addr, t)
      PROVE  StepOK
  BY <1>1, BeginStep
<1>2. ASSUME NEW r \in Requests, NEW t \in Instants, NEW name \in Names \union {NoName}, NEW addr \in Addrs,
             BeginFull(r, name, addr, t)
      PROVE  StepOK
  BY <1>2, BeginFullStep
<1>3. ASSUME NEW r \in Requests, NEW t \in Instants, NEW outcome \in Outcomes, Settle(r, outcome, t)
      PROVE  StepOK
  BY <1>3, SettleStep
<1>4. ASSUME NEW r \in Requests, NEW t \in Instants, Drop(r, t) PROVE StepOK
  <2>1. OnDrop \in Outcomes  BY PolicyAssumption DEF Outcomes
  <2> QED  BY <1>4, <2>1, SettleStep DEF Drop
<1>5. CASE ClockTicks
  <2>1. clock' \in Nat  BY <1>5, InvTable DEF ClockTicks
  <2> QED  BY <1>5, <2>1, QuietStep DEF ClockTicks
<1>6. CASE UNCHANGED throttleVars
  <2>1. clock' \in Nat  BY <1>6, InvTable DEF throttleVars
  <2> QED  BY <1>6, <2>1, QuietStep DEF throttleVars
<1> QED  BY <1>1, <1>2, <1>3, <1>4, <1>5, <1>6 DEF ThrottleNext, Outcomes

(* Initially the map is empty. *)
LEMMA ThrottleInvInit == ThrottleInit => ThrottleInv
<1> SUFFICES ASSUME ThrottleInit PROVE ThrottleInv
  OBVIOUS
<1>1. DOMAIN counters = {} /\ \A r \in Requests : attempts[r] = << >>  BY DEF ThrottleInit
<1>2. ThrottleTypeOK
  <2>1. << >> \in Seq([key : Key, reserved : BOOLEAN])  OBVIOUS
  <2>2. attempts \in [Requests -> Seq([key : Key, reserved : BOOLEAN])]  BY <2>1 DEF ThrottleInit
  <2> QED  BY <1>1, <2>2 DEF ThrottleInit, ThrottleTypeOK
<1>3. HeldKeys  BY <1>1 DEF HeldKeys
<1>4. \A k : Holders(k) = {}  BY <1>1 DEF Holders
<1>5. (\A k \in Key : IsFiniteSet(Holders(k))) /\ PendingExact
  BY <1>1, <1>4, FS_EmptySet DEF PendingExact
<1>6. WithinLimit /\ AllFull(counters)  BY <1>1 DEF WithinLimit, AllFull
<1>7. Fits(counters)  BY <1>1, FS_EmptySet, PolicyAssumption DEF Fits
<1> QED  BY <1>2, <1>3, <1>5, <1>6, <1>7 DEF ThrottleInv

(* The invariant holds in every reachable state. *)
LEMMA ThrottleInvAlways == ThrottleSpec => []ThrottleInv
<1>1. ThrottleInv /\ [ThrottleNext]_throttleVars => ThrottleInv'  BY ThrottleStep DEF StepOK
<1> QED  BY <1>1, ThrottleInvInit, PTL DEF ThrottleSpec

(* No outcome leaks a slot and none is given back twice. *)
THEOREM PendingIsExact == ThrottleSpec => []PendingExact
<1>1. ThrottleInv => PendingExact  BY DEF ThrottleInv
<1> QED  BY <1>1, ThrottleInvAlways, PTL

(* A burst sent at once gets no further than a sequence would. *)
THEOREM LimitsHold == ThrottleSpec => []WithinLimit
<1>1. ThrottleInv => WithinLimit  BY DEF ThrottleInv
<1> QED  BY <1>1, ThrottleInvAlways, PTL

(* The map never outgrows its capacity, and its state is of its type. *)
THEOREM CapacityHolds == ThrottleSpec => [](ThrottleTypeOK /\ WithinCapacity)
<1>1. ThrottleInv => ThrottleTypeOK /\ WithinCapacity  BY DEF ThrottleInv, Fits, WithinCapacity
<1> QED  BY <1>1, ThrottleInvAlways, PTL

(* A lock in force stands until it is over. *)
THEOREM LocksAlwaysStand == ThrottleSpec => LocksStand
<1>1. ThrottleInv /\ [ThrottleNext]_throttleVars => [KeepsLocks]_throttleVars  BY ThrottleStep DEF StepOK
<1> QED  BY <1>1, ThrottleInvAlways, PTL DEF ThrottleSpec, LocksStand, KeepsLocks

(* Failures that still count are forgotten only by a success of their own pair. *)
THEOREM FailuresKept == ThrottleSpec => LiveFailuresKept
<1>1. ThrottleInv /\ [ThrottleNext]_throttleVars => [KeepsLive]_throttleVars  BY ThrottleStep DEF StepOK
<1> QED  BY <1>1, ThrottleInvAlways, PTL DEF ThrottleSpec, LiveFailuresKept, KeepsLive
=============================================================================
