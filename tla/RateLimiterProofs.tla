--------------------------- MODULE RateLimiterProofs ---------------------------
(***************************************************************************)
(* The header windows of a name are counted exactly and never exceed the   *)
(* cap, and the table is swept in time, for every limit, cap and table.    *)
(* A check sweeps at most twice and then opens at most one window; each    *)
(* of these steps keeps a table well formed.                               *)
(***************************************************************************)
EXTENDS RateLimiter, FiniteSetTheorems, TLAPS

(* What every table a check works on satisfies. *)
WellFormed(tab) ==
    /\ DOMAIN tab.windows \subseteq Keys /\ IsFiniteSet(DOMAIN tab.windows)
    /\ \A k \in DOMAIN tab.windows : tab.windows[k] \in [ends : Nat, count : Nat]
    /\ tab.sweepAt \in Nat /\ tab.swept \in Nat
    /\ tab.held = [n \in Names |-> Cardinality(HeaderKeys(DOMAIN tab.windows, n))]
    /\ \A n \in Names : tab.held[n] <= HeaderWindows

(* Header keys are among the windows: finite, and counted by a number. *)
LEMMA HeaderKeysFinite ==
    ASSUME NEW dom, IsFiniteSet(dom), NEW n
    PROVE  /\ HeaderKeys(dom, n) \subseteq dom
           /\ IsFiniteSet(HeaderKeys(dom, n)) /\ Cardinality(HeaderKeys(dom, n)) \in Nat
<1>1. HeaderKeys(dom, n) \subseteq dom BY DEF HeaderKeys
<1>2. IsFiniteSet(HeaderKeys(dom, n)) BY <1>1, FS_Subset
<1> QED BY <1>1, <1>2, FS_CardinalityType

(* A well-formed table's counts are numbers. *)
LEMMA HeldType ==
    ASSUME NEW tab, WellFormed(tab) PROVE tab.held \in [Names -> Nat]
<1>1. \A n \in Names : Cardinality(HeaderKeys(DOMAIN tab.windows, n)) \in Nat
  BY HeaderKeysFinite DEF WellFormed
<1> QED BY <1>1 DEF WellFormed

(* Table::sweep keeps a table well formed and leaves room to grow. *)
LEMMA SweepKeeps ==
    ASSUME NEW tab, WellFormed(tab), NEW t \in Nat
    PROVE  /\ WellFormed(Sweep(tab, t))
           /\ Size(Sweep(tab, t)) <= Sweep(tab, t).sweepAt
<1> DEFINE live == {k \in DOMAIN tab.windows : Lives(tab.windows[k], t)}
           sw == Sweep(tab, t)
<1>1. /\ live \subseteq DOMAIN tab.windows /\ IsFiniteSet(live) /\ Cardinality(live) \in Nat
  <2>1. live \subseteq DOMAIN tab.windows OBVIOUS
  <2> QED BY <2>1, FS_Subset, FS_CardinalityType DEF WellFormed
<1>2. /\ sw.windows = [k \in live |-> tab.windows[k]]
      /\ DOMAIN sw.windows = live
      /\ sw.held = [n \in Names |-> Cardinality(HeaderKeys(live, n))]
      /\ sw.sweepAt = IF 2 * Cardinality(live) > SweepFloor THEN 2 * Cardinality(live)
                      ELSE SweepFloor
      /\ sw.swept = t
  BY DEF Sweep, Recounted
<1>3. sw.sweepAt \in Nat /\ Cardinality(live) <= sw.sweepAt
  <2> HIDE DEF live, sw
  <2> QED BY <1>1, <1>2, LimiterAssumption
<1>4. ASSUME NEW n \in Names PROVE sw.held[n] <= HeaderWindows
  <2> DEFINE was == HeaderKeys(DOMAIN tab.windows, n)
             is == HeaderKeys(live, n)
  <2>1. is \subseteq was BY <1>1 DEF HeaderKeys
  <2>2. IsFiniteSet(was) BY HeaderKeysFinite DEF WellFormed
  <2>3. Cardinality(is) <= Cardinality(was) BY <2>1, <2>2, FS_Subset
  <2>4. Cardinality(was) \in Nat /\ Cardinality(is) \in Nat
    BY <2>1, <2>2, FS_Subset, FS_CardinalityType
  <2>5. Cardinality(was) <= HeaderWindows BY DEF WellFormed
  <2>6. sw.held[n] = Cardinality(is) BY <1>2
  <2> HIDE DEF was, is, sw
  <2> QED BY <2>3, <2>4, <2>5, <2>6, LimiterAssumption
<1>5. \A k \in live : sw.windows[k] \in [ends : Nat, count : Nat] BY <1>1, <1>2 DEF WellFormed
<1> HIDE DEF live, sw
<1>6. WellFormed(sw)
  BY <1>1, <1>2, <1>3, <1>4, <1>5 DEF WellFormed
<1>7. Size(sw) <= sw.sweepAt BY <1>2, <1>3 DEF Size
<1> QED BY <1>6, <1>7 DEF sw

(* The sweeps of a check keep the table well formed and leave it no longer *)
(* than the size at which the next sweep is due.                           *)
LEMMA FoundKeeps ==
    ASSUME WellFormed(Table), NEW key, NEW t \in Nat
    PROVE  /\ WellFormed(Found(key, t))
           /\ Size(Found(key, t)) <= Found(key, t).sweepAt
<1> DEFINE g == SweepGrown(Table, t)
<1>1. Size(Table) \in Nat /\ Table.sweepAt \in Nat
  BY FS_CardinalityType DEF WellFormed, Size
<1>2. WellFormed(g) /\ Size(g) <= g.sweepAt
  <2>1. CASE Grown(Table)
    <3>1. g = Sweep(Table, t) BY <2>1 DEF SweepGrown
    <3> QED BY <3>1, SweepKeeps
  <2>2. CASE ~Grown(Table)
    <3>1. g = Table BY <2>2 DEF SweepGrown
    <3>2. Size(Table) <= Table.sweepAt
      <4> HIDE DEF g
      <4> QED BY <1>1, <2>2 DEF Grown
    <3> QED BY <3>1, <3>2
  <2> QED BY <2>1, <2>2
<1> HIDE DEF g
<1>3. SweepCapped(g, key, t) = g \/ SweepCapped(g, key, t) = Sweep(g, t) BY DEF SweepCapped
<1>4. WellFormed(Sweep(g, t)) /\ Size(Sweep(g, t)) <= Sweep(g, t).sweepAt BY <1>2, SweepKeeps
<1> QED BY <1>2, <1>3, <1>4 DEF Found, g

(* What a check installs: the counted window, and the count of its name. *)
After(tab, key, ip, w) ==
    [windows |-> Installed(tab, CountedKey(tab, key, ip), w), sweepAt |-> tab.sweepAt,
     held |-> HeldAfter(tab, key), swept |-> tab.swept]

(* A check that counts opens at most one window, and counts it under its   *)
(* name only when it is a header's and below the cap.                      *)
LEMMA InstallKeeps ==
    ASSUME NEW tab, WellFormed(tab), Size(tab) <= tab.sweepAt,
           NEW key \in Keys, NEW ip, ip \in Addrs \/ ~Capped(tab, key),
           NEW w \in [ends : Nat, count : Nat]
    PROVE  /\ WellFormed(After(tab, key, ip, w))
           /\ Size(After(tab, key, ip, w)) <= tab.sweepAt + 1
<1> DEFINE ck == CountedKey(tab, key, ip)
           dom == DOMAIN tab.windows
           af == After(tab, key, ip, w)
<1>1. /\ af.windows = [k \in dom \union {ck} |-> IF k = ck THEN w ELSE tab.windows[k]]
      /\ DOMAIN af.windows = dom \union {ck}
      /\ af.sweepAt = tab.sweepAt /\ af.swept = tab.swept /\ af.held = HeldAfter(tab, key)
  BY DEF After, Installed
<1>2. /\ ck \in Keys
      /\ Capped(tab, key) => ck[2][1] # "header"
      /\ ~Capped(tab, key) => ck = key
  <2>1. CASE Capped(tab, key)
    <3>1. ck = <<key[1], <<"ip", Grouped[ip]>>>> BY <2>1 DEF CountedKey, ByAddress
    <3>2. ip \in Addrs BY <2>1
    <3> HIDE DEF ck
    <3> QED BY <2>1, <3>1, <3>2 DEF Keys, Clients
  <2>2. CASE ~Capped(tab, key) BY <2>2 DEF CountedKey
  <2> QED BY <2>1, <2>2
<1>3. /\ IsFiniteSet(dom) /\ IsFiniteSet(dom \union {ck})
      /\ Cardinality(dom) \in Nat /\ Cardinality(dom \union {ck}) <= Cardinality(dom) + 1
      /\ Cardinality(dom \union {ck}) \in Nat
  <2>1. IsFiniteSet(dom) BY DEF WellFormed
  <2> HIDE DEF dom, ck
  <2>2. IsFiniteSet(dom \union {ck}) BY <2>1, FS_AddElement
  <2>3. /\ Cardinality(dom \union {ck}) = Cardinality(dom)
           \/ Cardinality(dom \union {ck}) = Cardinality(dom) + 1
        /\ Cardinality(dom) \in Nat /\ Cardinality(dom \union {ck}) \in Nat
    BY <2>1, <2>2, FS_AddElement, FS_CardinalityType
  <2> QED BY <2>1, <2>2, <2>3
<1>4. ASSUME NEW n \in Names
      PROVE  /\ af.held[n] = Cardinality(HeaderKeys(dom \union {ck}, n))
             /\ af.held[n] <= HeaderWindows
  <2>1. /\ tab.held \in [Names -> Nat]
        /\ tab.held[n] = Cardinality(HeaderKeys(dom, n)) /\ tab.held[n] <= HeaderWindows
    BY HeldType DEF WellFormed
  <2>2. IsFiniteSet(HeaderKeys(dom, n)) BY <1>3, HeaderKeysFinite
  <2>3. key[1] \in Names BY DEF Keys
  <2>4. CASE NewValue(tab, key) /\ ~Capped(tab, key) /\ n = key[1]
    <3>1. ck = key /\ key[2][1] = "header" /\ key \notin dom BY <1>2, <2>4 DEF NewValue
    <3>2. HeaderKeys(dom \union {ck}, n) = HeaderKeys(dom, n) \union {key}
      <4> HIDE DEF dom, ck
      <4> QED BY <2>4, <3>1 DEF HeaderKeys
    <3>3. key \notin HeaderKeys(dom, n) BY <3>1 DEF HeaderKeys
    <3>4. Cardinality(HeaderKeys(dom \union {ck}, n)) = Cardinality(HeaderKeys(dom, n)) + 1
      BY <2>2, <3>2, <3>3, FS_AddElement
    <3>5. af.held[n] = tab.held[n] + 1 BY <1>1, <2>1, <2>4 DEF HeldAfter
    <3>6. tab.held[n] < HeaderWindows
      BY <2>1, <2>4, LimiterAssumption DEF Capped, Full
    <3> HIDE DEF dom, ck, af
    <3> QED BY <2>1, <3>4, <3>5, <3>6, LimiterAssumption
  <2>5. CASE ~(NewValue(tab, key) /\ ~Capped(tab, key) /\ n = key[1])
    <3>1. af.held[n] = tab.held[n] BY <1>1, <2>1, <2>3, <2>5 DEF HeldAfter
    <3>2. HeaderKeys(dom \union {ck}, n) = HeaderKeys(dom, n)
      <4>1. CASE Capped(tab, key)
        <5>1. ck[2][1] # "header" BY <1>2, <4>1
        <5> HIDE DEF dom, ck
        <5> QED BY <5>1 DEF HeaderKeys
      <4>2. CASE ~Capped(tab, key)
        <5>1. ck = key BY <1>2, <4>2
        <5>2. key \in dom \/ key[2][1] # "header" \/ n # key[1]
          BY <2>5, <4>2 DEF NewValue
        <5> HIDE DEF dom, ck
        <5> QED BY <5>1, <5>2 DEF HeaderKeys
      <4> QED BY <4>1, <4>2
    <3> QED BY <2>1, <3>1, <3>2
  <2> QED BY <2>4, <2>5
<1>5. af.held = [n \in Names |-> Cardinality(HeaderKeys(dom \union {ck}, n))]
  <2>1. tab.held \in [Names -> Nat] BY HeldType
  <2>2. af.held \in [Names -> {af.held[n] : n \in Names}]
    BY <1>1, <2>1 DEF HeldAfter
  <2> HIDE DEF dom, ck, af
  <2> QED BY <1>4, <2>2
<1>6. \A k \in dom \union {ck} : af.windows[k] \in [ends : Nat, count : Nat]
  BY <1>1 DEF WellFormed
<1>7. dom \subseteq Keys /\ tab.sweepAt \in Nat /\ tab.swept \in Nat BY DEF WellFormed
<1>8. Cardinality(dom) <= tab.sweepAt BY DEF Size
<1> HIDE DEF dom, ck, af
<1>9. WellFormed(af)
  BY <1>1, <1>2, <1>3, <1>4, <1>5, <1>6, <1>7 DEF WellFormed
<1>10. Size(af) <= tab.sweepAt + 1 BY <1>1, <1>3, <1>7, <1>8 DEF Size
<1> QED BY <1>9, <1>10 DEF af


-----------------------------------------------------------------------------
(* The inductive invariant: the limiter's own table is well formed, and no *)
(* longer than the sweep allows.                                           *)
TableInv ==
    /\ limits \in [Rules -> Limits] /\ clock \in Nat
    /\ WellFormed(Table)
    /\ Cardinality(DOMAIN windows) <= sweepAt + 1

(* A request is counted under a key of the table. *)
LEMMA KeyTyped ==
    ASSUME limits \in [Rules -> Limits], NEW q \in Requests,
           LimitFor(q.rule, q.consumer) \in LimitRecord,
           Countable(LimitFor(q.rule, q.consumer).by, q.consumer, q.ip, q.lines)
    PROVE  <<WindowName(q.rule, q.consumer),
             ClientOf(LimitFor(q.rule, q.consumer).by, q.consumer, q.ip, q.lines)>> \in Keys
<1> DEFINE by == LimitFor(q.rule, q.consumer).by
<1>1. /\ q.rule \in Rules /\ q.consumer \in Consumers \union {NoConsumer}
      /\ q.ip \in Addrs \union {NoAddr} /\ q.lines \in Seq(Values \union {Empty})
  BY LimiterAssumption
<1>2. WindowName(q.rule, q.consumer) \in Names BY <1>1 DEF WindowName, Names, Own
<1>3. NamesValue(by, q.lines) => q.lines[1] \in Values BY <1>1 DEF NamesValue
<1>4. NamesConsumer(by, q.consumer) => q.consumer \in Consumers BY <1>1 DEF NamesConsumer
<1>5. NamesConsumer(by, q.consumer) \/ NamesValue(by, q.lines) \/ q.ip \in Addrs
  BY <1>1 DEF Countable
<1> HIDE DEF by
<1>6. ClientOf(by, q.consumer, q.ip, q.lines) \in Clients
  BY <1>3, <1>4, <1>5 DEF ClientOf, ByAddress, Clients
<1> QED BY <1>2, <1>6 DEF Keys, by

(* Every limit that counts is a limit. *)
LEMMA LimitTyped ==
    ASSUME limits \in [Rules -> Limits], NEW q \in Requests
    PROVE  LimitFor(q.rule, q.consumer) \in LimitRecord
BY LimiterAssumption DEF LimitFor, Own

(* A window ends at an instant. *)
LEMMA EndsTyped ==
    ASSUME NEW lim \in LimitRecord, NEW t \in Nat PROVE Ends(lim, t) \in Nat
<1>1. lim.window \in Nat \ {0} BY DEF LimitRecord
<1> DEFINE d == t \div lim.window
<1>2. d \in Nat BY <1>1
<1>3. ASSUME NEW a \in Nat, NEW b \in Nat PROVE (a + 1) * b \in Nat OBVIOUS
<1> HIDE DEF d
<1>4. (d + 1) * lim.window \in Nat BY <1>1, <1>2, <1>3
<1> QED BY <1>4 DEF Ends, d

(* Every step keeps the table well formed: a check, counted or not, by the *)
(* lemmas above; the other steps leave the table alone.                    *)
LEMMA TableStep == TableInv /\ [Next]_vars => TableInv'
<1> SUFFICES ASSUME TableInv, [Next]_vars PROVE TableInv'
  OBVIOUS
<1>1. ASSUME NEW q \in Requests, NEW t \in Instants, Check(q, t) PROVE TableInv'
  <2> DEFINE lim == LimitFor(q.rule, q.consumer)
             key == <<WindowName(q.rule, q.consumer),
                      ClientOf(lim.by, q.consumer, q.ip, q.lines)>>
             tab == Found(key, t)
             w == Current(tab, CountedKey(tab, key, q.ip), Ends(lim, t))
             n == IF Allowed(w, lim) THEN 1 ELSE 0
             nw == [w EXCEPT !.count = @ + n]
  <2>1. t \in Nat BY DEF Instants
  <2>2. lim \in LimitRecord BY LimitTyped DEF TableInv
  <2>3. key \in Keys BY <1>1, <2>2, KeyTyped DEF TableInv, Check
  <2>4. WellFormed(tab) /\ Size(tab) <= tab.sweepAt BY <2>1, FoundKeeps DEF TableInv
  <2>5. w \in [ends : Nat, count : Nat]
    <3>1. Ends(lim, t) \in Nat BY <2>1, <2>2, EndsTyped
    <3> HIDE DEF tab, lim, key
    <3> QED BY <2>4, <3>1 DEF Current, WellFormed
  <2>6. nw \in [ends : Nat, count : Nat]
    <3>1. n \in Nat OBVIOUS
    <3> HIDE DEF w, n
    <3> QED BY <2>5, <3>1
  <2>7. q.ip \in Addrs \/ ~Capped(tab, key)
    <3>1. q.ip \in Addrs \union {NoAddr} BY LimiterAssumption
    <3>2. q.ip # NoAddr \/ ~Capped(tab, key) BY <1>1 DEF Check
    <3> QED BY <3>1, <3>2
  <2>8. /\ windows' = Installed(tab, CountedKey(tab, key, q.ip), nw)
        /\ held' = HeldAfter(tab, key) /\ sweepAt' = tab.sweepAt /\ swept' = tab.swept
        /\ limits' = limits /\ clock' = clock
    BY <1>1 DEF Check
  <2> HIDE DEF lim, key, tab, w, n, nw
  <2>9. Table' = After(tab, key, q.ip, nw) BY <2>8 DEF Table, After
  <2>10. WellFormed(Table') /\ Size(Table') <= tab.sweepAt + 1
    BY <2>3, <2>4, <2>6, <2>7, <2>9, InstallKeeps
  <2> QED BY <2>8, <2>10 DEF TableInv, Table, Size, WellFormed
<1>2. ASSUME NEW q \in Requests, NEW t \in Instants, CheckUncounted(q, t) PROVE TableInv'
  <2> DEFINE key == <<WindowName(q.rule, q.consumer),
                      ClientOf(LimitFor(q.rule, q.consumer).by, q.consumer, q.ip, q.lines)>>
             tab == Found(key, t)
  <2>1. t \in Nat BY DEF Instants
  <2>2. WellFormed(tab) /\ Size(tab) <= tab.sweepAt BY <2>1, FoundKeeps DEF TableInv
  <2>3. /\ windows' = tab.windows /\ held' = tab.held
        /\ sweepAt' = tab.sweepAt /\ swept' = tab.swept
        /\ limits' = limits /\ clock' = clock
    BY <1>2 DEF CheckUncounted
  <2>4. Cardinality(DOMAIN tab.windows) \in Nat /\ tab.sweepAt \in Nat
    BY <2>2, FS_CardinalityType DEF WellFormed
  <2> HIDE DEF key, tab
  <2>5. /\ Table'.windows = tab.windows /\ Table'.held = tab.held
        /\ Table'.sweepAt = tab.sweepAt /\ Table'.swept = tab.swept
    BY <2>3 DEF Table
  <2>6. WellFormed(Table') BY <2>2, <2>5 DEF WellFormed
  <2> QED BY <2>2, <2>3, <2>4, <2>6 DEF TableInv, Size, WellFormed
<1>3. ASSUME NEW r \in Rules, NEW lim \in Limits, Reload(r, lim) PROVE TableInv'
  BY <1>3 DEF TableInv, Reload, table, Table, WellFormed
<1>4. CASE ClockTicks BY <1>4 DEF TableInv, ClockTicks, table, Table, WellFormed
<1>5. CASE ClockStepsBack
  BY <1>5 DEF TableInv, ClockStepsBack, table, Table, WellFormed
<1>6. CASE UNCHANGED vars BY <1>6 DEF TableInv, vars, table, Table, WellFormed
<1> QED BY <1>1, <1>2, <1>3, <1>4, <1>5, <1>6 DEF Next

(* The table starts well formed. *)
LEMMA TableInit == Init => TableInv
<1> SUFFICES ASSUME Init PROVE TableInv
  OBVIOUS
<1>1. DOMAIN windows = {} BY DEF Init
<1>2. \A n \in Names : HeaderKeys(DOMAIN windows, n) = {} BY <1>1 DEF HeaderKeys
<1>3. IsFiniteSet({}) /\ Cardinality({}) = 0 BY FS_EmptySet
<1>4. /\ Table.windows = windows /\ Table.held = [n \in Names |-> 0]
      /\ Table.sweepAt = SweepFloor /\ Table.swept = 0
  BY DEF Init, Table
<1>5. WellFormed(Table)
  <2>1. DOMAIN Table.windows = {} BY <1>1, <1>4
  <2>2. \A n \in Names : Cardinality(HeaderKeys(DOMAIN Table.windows, n)) = 0
    BY <1>2, <1>3, <1>4
  <2>3. Table.held = [n \in Names |-> Cardinality(HeaderKeys(DOMAIN Table.windows, n))]
    BY <1>4, <2>2
  <2>4. \A n \in Names : Table.held[n] <= HeaderWindows BY <1>4, LimiterAssumption
  <2> QED BY <1>3, <1>4, <2>1, <2>3, <2>4, LimiterAssumption DEF WellFormed
<1> QED BY <1>1, <1>3, <1>5, LimiterAssumption DEF Init, TableInv

(* The invariant holds throughout. *)
LEMMA TableAlways == Spec => []TableInv
BY TableInit, TableStep, PTL DEF Spec

(* check_at: windows, counts and instants keep their types, and every      *)
(* address in the table is a grouped one.                                  *)
THEOREM LimiterTyped == Spec => []TypeOK
<1>1. TableInv => TypeOK
  <2> SUFFICES ASSUME TableInv PROVE TypeOK
    OBVIOUS
  <2>1. held \in [Names -> Nat]
    <3>1. Table.held \in [Names -> Nat] BY HeldType DEF TableInv
    <3> QED BY <3>1 DEF Table
  <2> QED BY <2>1 DEF TableInv, TypeOK, WellFormed, Table
<1> QED BY <1>1, TableAlways, PTL

(* Table::sweep and check_at: the count of header windows of each name is  *)
(* exact, for any number of rules, consumers, values and sweeps.           *)
THEOREM HeaderWindowsExact == Spec => []HeldExact
<1>1. TableInv => HeldExact BY DEF TableInv, HeldExact, WellFormed, Table
<1> QED BY <1>1, TableAlways, PTL

(* check_at: no name ever holds more header windows than HEADER_WINDOWS.   *)
THEOREM HeaderWindowsCapped == Spec => []HeldCapped
<1>1. TableInv => HeldCapped BY DEF TableInv, HeldCapped, WellFormed, Table
<1> QED BY <1>1, TableAlways, PTL

(* check_at: the table never outgrows the size its last sweep set by more  *)
(* than the one window a check opens.                                      *)
THEOREM SweptInTime == Spec => []TableBounded
<1>1. TableInv => TableBounded BY DEF TableInv, TableBounded
<1> QED BY <1>1, TableAlways, PTL

-----------------------------------------------------------------------------
(* What one client is allowed.  The history follows the newest window the  *)
(* client was counted in; as long as no check has seen that window end, it *)
(* is in the table with a count of at least what was allowed.              *)

(* The limit that counts under a window name. *)
LimitOf(key) == LimitFor(key[1][1], key[1][2])

(* A window is cut from time by its length, and was opened by an instant a *)
(* check has worked with.                                                  *)
Cut(ends, len, new) == \E m \in Nat : ends = (m + 1) * len /\ m * len <= new

(* The window is in the table and has counted n. *)
Counted(wins, key, ends, n) ==
    key \in DOMAIN wins /\ wins[key].ends = ends /\ n <= wins[key].count

(* The history g, under limit lim and table wins, at newest instant new.   *)
Followed(g, lim, wins, new) ==
    /\ g \in [key : Watched, ends : Nat, n : Nat, late : BOOLEAN]
    /\ g.n <= lim.limit
    /\ g.late => g.n = 0
    /\ IF g.ends = 0 THEN g.n = 0 ELSE Cut(g.ends, lim.window, new)
    /\ g.n > 0 /\ g.ends > new => Counted(wins, g.key, g.ends, g.n)

GrantInv ==
    /\ newest \in Nat
    /\ Followed(granted, LimitOf(granted.key), windows, newest)

(* Ends: a window is open at the instant it is opened for. *)
LEMMA WindowOpen ==
    ASSUME NEW lim \in LimitRecord, NEW t \in Nat
    PROVE  /\ t < Ends(lim, t) /\ Ends(lim, t) \in Nat
           /\ \A new \in Nat : t <= new => Cut(Ends(lim, t), lim.window, new)
<1>1. lim.window \in Nat \ {0} BY DEF LimitRecord
<1>2. PICK l \in Nat \ {0} : l = lim.window BY <1>1
<1>3. (t \div l) * l <= t /\ t < ((t \div l) + 1) * l /\ t \div l \in Nat OBVIOUS
<1>4. PICK d \in Nat : d = t \div l BY <1>3
<1>5. d * l <= t /\ t < (d + 1) * l /\ d * l \in Nat BY <1>3, <1>4
<1>6. Ends(lim, t) = (d + 1) * l BY <1>2, <1>4 DEF Ends
<1>7. ASSUME NEW new \in Nat, t <= new PROVE Cut(Ends(lim, t), l, new)
  <2>1. d * l <= new BY <1>5, <1>7
  <2> QED BY <1>6, <2>1 DEF Cut
<1> QED BY <1>2, <1>5, <1>6, <1>7, EndsTyped

(* Of two windows of one length, the earlier has ended when the later opens. *)
LEMMA EarlierEnded ==
    ASSUME NEW l \in Nat \ {0}, NEW new \in Nat, NEW ends \in Nat, NEW later \in Nat,
           NEW any, Cut(ends, l, any), Cut(later, l, new), ends < later
    PROVE  ends <= new
<1>1. PICK a \in Nat : ends = (a + 1) * l BY DEF Cut
<1>2. PICK b \in Nat : later = (b + 1) * l /\ b * l <= new BY DEF Cut
<1>3. \A x \in Nat : x * l \in Nat OBVIOUS
<1>4. a + 1 <= b
  <2> SUFFICES ASSUME b <= a PROVE FALSE OBVIOUS
  <2>1. PICK d \in Nat : a = b + d OBVIOUS
  <2>2. (a + 1) * l = (b + 1) * l + d * l BY <2>1
  <2> QED BY <1>1, <1>2, <1>3, <2>2
<1>5. PICK d \in Nat : b = a + 1 + d BY <1>4
<1>6. b * l = (a + 1) * l + d * l BY <1>5
<1>7. (a + 1) * l \in Nat /\ d * l \in Nat /\ b * l \in Nat BY <1>3
<1> QED BY <1>1, <1>2, <1>6, <1>7

(* The sweeps of a check leave a window alone that has not ended. *)
LEMMA LiveKept ==
    ASSUME NEW key, NEW t, NEW k \in DOMAIN windows, windows[k].ends > t
    PROVE  /\ k \in DOMAIN Found(key, t).windows
           /\ Found(key, t).windows[k] = windows[k]
<1> DEFINE Has(tab) == k \in DOMAIN tab.windows /\ tab.windows[k] = windows[k]
<1>1. ASSUME NEW tab, Has(tab) PROVE Has(Sweep(tab, t))
  <2>1. Lives(tab.windows[k], t) BY <1>1 DEF Lives
  <2> QED BY <1>1, <2>1 DEF Sweep
<1>2. Has(Table) BY DEF Table
<1> HIDE DEF Has
<1>3. Has(SweepGrown(Table, t)) BY <1>1, <1>2 DEF SweepGrown
<1>4. Has(Found(key, t)) BY <1>1, <1>3 DEF Found, SweepCapped
<1> QED BY <1>4 DEF Has

(* Neighbours of a /64 are one client: a key of the table names its owner. *)
LEMMA OwnerIsKey == ASSUME NEW k \in Keys PROVE Owner(k) = k
<1>1. PICK n \in Names, c \in Clients : k = <<n, c>> BY DEF Keys
<1>2. k[1] = n /\ k[2] = c BY <1>1
<1>3. CASE c[1] = "ip"
  <2>1. PICK a \in Addrs : c = <<"ip", Grouped[a]>> BY <1>3 DEF Clients
  <2>2. Grouped[Grouped[a]] = Grouped[a] BY LimiterAssumption
  <2> QED BY <1>1, <1>2, <1>3, <2>1, <2>2 DEF Owner
<1>4. CASE c[1] # "ip" BY <1>2, <1>4 DEF Owner
<1> QED BY <1>3, <1>4

(* A request is counted under the limit of its window's name. *)
LEMMA LimitOfName ==
    ASSUME NEW q \in Requests, NEW k, k[1] = WindowName(q.rule, q.consumer)
    PROVE  LimitOf(k) = LimitFor(q.rule, q.consumer)
<1>1. k[1][1] = q.rule /\ k[1][2] = IF Own(q.consumer) THEN q.consumer ELSE NoConsumer
  BY DEF WindowName
<1>2. ~Own(NoConsumer) BY DEF Own
<1> QED BY <1>1, <1>2 DEF LimitOf, LimitFor

(* What is counted for another client leaves this one's history true. *)
LEMMA OtherCounted ==
    ASSUME NEW g, NEW lim, NEW wins, NEW new \in Nat, Followed(g, lim, wins, new),
           NEW after, NEW later \in Nat, new <= later,
           lim.window \in Nat,
           g.ends > later /\ g.key \in DOMAIN wins /\ wins[g.key].ends = g.ends =>
               g.key \in DOMAIN after /\ after[g.key] = wins[g.key]
    PROVE  Followed(g, lim, after, later)
<1>1. /\ g \in [key : Watched, ends : Nat, n : Nat, late : BOOLEAN]
      /\ g.n <= lim.limit
      /\ g.late => g.n = 0
      /\ IF g.ends = 0 THEN g.n = 0 ELSE Cut(g.ends, lim.window, new)
      /\ g.n > 0 /\ g.ends > new => Counted(wins, g.key, g.ends, g.n)
  BY DEF Followed
<1>2. g.ends \in Nat /\ g.n \in Nat BY <1>1
<1>3. ASSUME g.ends # 0 PROVE Cut(g.ends, lim.window, later)
  <2>1. PICK m \in Nat : g.ends = (m + 1) * lim.window /\ m * lim.window <= new
    BY <1>1, <1>3 DEF Cut
  <2>2. \A a, b \in Nat : a * b \in Nat OBVIOUS
  <2>3. m * lim.window \in Nat BY <2>2
  <2>4. m * lim.window <= later BY <2>1, <2>3
  <2> QED BY <2>1, <2>4 DEF Cut
<1>4. ASSUME g.n > 0, g.ends > later PROVE Counted(after, g.key, g.ends, g.n)
  <2>1. g.ends > new BY <1>2, <1>4
  <2>2. Counted(wins, g.key, g.ends, g.n) BY <1>1, <1>4, <2>1
  <2> QED BY <1>4, <2>2 DEF Counted
<1> QED BY <1>1, <1>3, <1>4 DEF Followed

(* What is counted for this client: in its newest window, in a window after *)
(* it, or late; a window before it has ended, so counting there is late.    *)
LEMMA SelfCounted ==
    ASSUME NEW lim \in LimitRecord, newest \in Nat, Followed(granted, lim, windows, newest),
           NEW t \in Nat, NEW w \in [ends : Nat, count : Nat], w.ends = Ends(lim, t),
           NEW n \in {0, 1}, n = 1 => w.count < lim.limit,
           granted.n > 0 /\ granted.ends = w.ends /\ w.ends > newest => granted.n <= w.count,
           NEW key, Owner(key) = Owner(granted.key), key = granted.key,
           NEW after, key \in DOMAIN after, after[key] = [ends |-> w.ends, count |-> w.count + n],
           NEW later \in Nat, newest <= later, t <= later
    PROVE  Followed(Tallied(key, w.ends, n), lim, after, later)
<1> DEFINE tl == Tallied(key, w.ends, n)
<1>1. /\ granted \in [key : Watched, ends : Nat, n : Nat, late : BOOLEAN]
      /\ granted.n <= lim.limit
      /\ granted.late => granted.n = 0
      /\ IF granted.ends = 0 THEN granted.n = 0 ELSE Cut(granted.ends, lim.window, newest)
  BY DEF Followed
<1>2. /\ lim.window \in Nat \ {0} /\ lim.limit \in Nat /\ w.ends \in Nat /\ w.count \in Nat
      /\ granted.ends \in Nat /\ granted.n \in Nat /\ granted.late \in BOOLEAN
  BY <1>1 DEF LimitRecord
<1>3. t < w.ends /\ Cut(w.ends, lim.window, later) BY WindowOpen
<1>4. w.ends > 0 BY <1>2, <1>3
<1>5. Counted(after, key, w.ends, w.count + n) BY <1>2 DEF Counted
<1>6. CASE w.ends > granted.ends
  <2> DEFINE late == w.ends <= newest
             num == IF late THEN 0 ELSE n
  <2>1. tl = [granted EXCEPT !.ends = w.ends, !.n = num, !.late = late]
    BY <1>6 DEF Tallied
  <2>a. late \in BOOLEAN /\ num \in {0, n} /\ (late => num = 0) OBVIOUS
  <2> HIDE DEF late, num
  <2>b. tl.key = key /\ tl.ends = w.ends /\ tl.n = num BY <1>1, <2>1
  <2>c. tl.late = late BY <1>1, <2>1, Zenon
  <2>d. tl \in [key : Watched, ends : Nat, n : Nat, late : BOOLEAN]
    <3>1. num \in Nat BY <2>a
    <3> HIDE DEF tl
    <3> QED BY <1>1, <1>2, <2>1, <2>a, <3>1 DEF tl
  <2>2. /\ tl \in [key : Watched, ends : Nat, n : Nat, late : BOOLEAN]
        /\ tl.key = key /\ tl.ends = w.ends /\ tl.n \in {0, n} /\ (tl.late => tl.n = 0)
    BY <2>a, <2>b, <2>c, <2>d
  <2> HIDE DEF tl
  <2>3. tl.n <= lim.limit BY <1>2, <2>2
  <2>4. tl.n <= w.count + n BY <1>2, <2>2
  <2>5. Counted(after, tl.key, tl.ends, tl.n) BY <1>2, <1>5, <2>2, <2>4 DEF Counted
  <2> QED BY <1>3, <1>4, <2>2, <2>3, <2>5 DEF Followed, tl
<1>7. CASE w.ends <= granted.ends /\ (w.ends <= newest \/ granted.late)
  <2>1. tl = [granted EXCEPT !.n = 0, !.late = TRUE] BY <1>2, <1>7 DEF Tallied
  <2>a. PICK late \in BOOLEAN : late = TRUE OBVIOUS
  <2>b. tl = [granted EXCEPT !.n = 0, !.late = late] BY <2>1, <2>a
  <2>c. tl.ends = granted.ends /\ tl.n = 0 BY <1>1, <2>b
  <2>d. tl \in [key : Watched, ends : Nat, n : Nat, late : BOOLEAN]
    <3> HIDE DEF tl
    <3>1. 0 \in Nat OBVIOUS
    <3>2. [granted EXCEPT !.n = 0, !.late = late] \in [key : Watched, ends : Nat, n : Nat, late : BOOLEAN]
      BY <1>1, <3>1, Zenon
    <3> QED BY <2>b, <3>2
  <2>2. /\ tl \in [key : Watched, ends : Nat, n : Nat, late : BOOLEAN]
        /\ tl.ends = granted.ends /\ tl.n = 0
    BY <2>c, <2>d
  <2>3. Cut(granted.ends, lim.window, newest) BY <1>1, <1>2, <1>4, <1>7
  <2>4. Cut(granted.ends, lim.window, later)
    <3>1. PICK m \in Nat : granted.ends = (m + 1) * lim.window /\ m * lim.window <= newest
      BY <2>3 DEF Cut
    <3>2. \A a, b \in Nat : a * b \in Nat OBVIOUS
    <3>3. m * lim.window \in Nat BY <1>2, <3>2
    <3> QED BY <3>1, <3>3 DEF Cut
  <2> HIDE DEF tl
  <2> QED BY <1>2, <2>2, <2>4 DEF Followed, tl
<1>8. CASE w.ends = granted.ends /\ ~(w.ends <= newest \/ granted.late)
  <2>1. tl = [granted EXCEPT !.n = granted.n + n] BY <1>2, <1>8 DEF Tallied
  <2>2. /\ tl \in [key : Watched, ends : Nat, n : Nat, late : BOOLEAN]
        /\ tl.key = key /\ tl.ends = w.ends /\ tl.n = granted.n + n /\ tl.late = granted.late
    BY <1>1, <1>2, <1>8, <2>1
  <2> HIDE DEF tl
  <2>3. granted.n <= w.count BY <1>2, <1>8
  <2>4. tl.n <= lim.limit BY <1>1, <1>2, <2>2, <2>3
  <2>5. tl.n <= w.count + n BY <1>2, <2>2, <2>3
  <2>6. Counted(after, tl.key, tl.ends, tl.n) BY <1>2, <1>5, <2>2, <2>5 DEF Counted
  <2> QED BY <1>3, <1>4, <1>8, <2>2, <2>4, <2>6 DEF Followed, tl
<1>9. CASE w.ends < granted.ends /\ ~(w.ends <= newest \/ granted.late)
  <2>1. Cut(granted.ends, lim.window, newest) BY <1>1, <1>2, <1>9
  <2>2. w.ends <= newest BY <1>2, <1>3, <1>9, <2>1, EarlierEnded
  <2> QED BY <1>9, <2>2
<1> QED BY <1>2, <1>6, <1>7, <1>8, <1>9

(* Every step leaves the history of the client true. *)
LEMMA GrantStep == TableInv /\ GrantInv /\ [Next]_vars => GrantInv'
<1> SUFFICES ASSUME TableInv, GrantInv, [Next]_vars PROVE GrantInv'
  OBVIOUS
<1>1. /\ newest \in Nat /\ Followed(granted, LimitOf(granted.key), windows, newest)
      /\ limits \in [Rules -> Limits]
  BY DEF GrantInv, TableInv
<1>2. granted \in [key : Watched, ends : Nat, n : Nat, late : BOOLEAN] BY <1>1 DEF Followed
<1>3. granted.key \in Watched /\ granted.key \in Keys /\ granted.ends \in Nat /\ granted.n \in Nat
  BY <1>2, LimiterAssumption DEF Keys, Names, Clients
<1>4. LimitOf(granted.key) \in LimitRecord
  <2>1. granted.key[1][1] \in Rules /\ granted.key[1][2] \in Consumers \union {NoConsumer}
    BY <1>3 DEF Keys, Names
  <2> QED BY <1>1, <2>1, LimiterAssumption DEF LimitOf, LimitFor, Own
<1>5. LimitOf(granted.key).window \in Nat BY <1>4 DEF LimitRecord
<1>6. ASSUME NEW q \in Requests, NEW t \in Instants, Check(q, t) PROVE GrantInv'
  <2> DEFINE lim == LimitFor(q.rule, q.consumer)
             key == <<WindowName(q.rule, q.consumer),
                      ClientOf(lim.by, q.consumer, q.ip, q.lines)>>
             tab == Found(key, t)
             ck == CountedKey(tab, key, q.ip)
             w == Current(tab, ck, Ends(lim, t))
             n == IF Allowed(w, lim) THEN 1 ELSE 0
             nw == [w EXCEPT !.count = @ + n]
  <2>1. t \in Nat BY DEF Instants
  <2>2. lim \in LimitRecord BY LimitTyped DEF TableInv
  <2>3. key \in Keys BY <1>6, <2>2, KeyTyped DEF TableInv, Check
  <2>4. WellFormed(tab) BY <2>1, FoundKeeps DEF TableInv
  <2>5. w \in [ends : Nat, count : Nat] /\ w.ends = Ends(lim, t)
    <3>1. Ends(lim, t) \in Nat BY <2>1, <2>2, EndsTyped
    <3> HIDE DEF tab, lim, key, ck
    <3> QED BY <2>4, <3>1 DEF Current, WellFormed
  <2>6. n \in {0, 1} /\ (n = 1 => w.count < lim.limit) BY DEF Allowed
  <2>7. q.ip \in Addrs \/ ~Capped(tab, key)
    <3>1. q.ip \in Addrs \union {NoAddr} BY LimiterAssumption
    <3>2. q.ip # NoAddr \/ ~Capped(tab, key) BY <1>6 DEF Check
    <3> QED BY <3>1, <3>2
  <2>8. /\ windows' = Installed(tab, ck, nw)
        /\ granted' = Tallied(ck, w.ends, n)
        /\ limits' = limits /\ newest' = IF t > newest THEN t ELSE newest
    BY <1>6 DEF Check
  <2>9. ck \in Keys /\ ck[1] = WindowName(q.rule, q.consumer)
    <3>1. CASE Capped(tab, key)
      <4>1. ck = <<WindowName(q.rule, q.consumer), <<"ip", Grouped[q.ip]>>>>
        BY <3>1 DEF CountedKey, ByAddress
      <4>2. q.ip \in Addrs BY <2>7, <3>1
      <4>3. WindowName(q.rule, q.consumer) \in Names BY <2>3 DEF Keys
      <4> HIDE DEF ck, key, tab
      <4> QED BY <4>1, <4>2, <4>3 DEF Keys, Clients
    <3>2. CASE ~Capped(tab, key)
      <4>1. ck = key BY <3>2 DEF CountedKey
      <4> QED BY <2>3, <4>1
    <3> QED BY <3>1, <3>2
  <2>10. nw = [ends |-> w.ends, count |-> w.count + n] BY <2>5
  <2> HIDE DEF n, nw
  <2>11. /\ DOMAIN windows' = DOMAIN tab.windows \union {ck} /\ windows'[ck] = nw
         /\ \A k \in DOMAIN tab.windows : k # ck => windows'[k] = tab.windows[k]
    <3> HIDE DEF tab, ck, nw
    <3> QED BY <2>8 DEF Installed
  <2>12. ASSUME NEW k \in DOMAIN windows, windows[k].ends > t
         PROVE  k \in DOMAIN tab.windows /\ tab.windows[k] = windows[k]
    BY <2>12, LiveKept
  <2>13. LimitOf(ck) = lim BY <2>9, LimitOfName
  <2>14. newest' \in Nat /\ newest <= newest' /\ t <= newest' BY <1>1, <2>1, <2>8
  <2>15. Owner(ck) = ck /\ Owner(granted.key) = granted.key BY <1>3, <2>9, OwnerIsKey
  <2>16. CASE ck = granted.key
    <3>1. Followed(granted, lim, windows, newest) BY <1>1, <2>13, <2>16
    <3>2. ASSUME granted.n > 0, granted.ends = w.ends, w.ends > newest
          PROVE  granted.n <= w.count
      <4>1. Counted(windows, ck, w.ends, granted.n) BY <1>1, <2>16, <3>2 DEF Followed
      <4>2. t < w.ends BY <2>1, <2>2, <2>5, WindowOpen
      <4>3. tab.windows[ck] = windows[ck] /\ ck \in DOMAIN tab.windows
        BY <2>12, <4>1, <4>2 DEF Counted
      <4>4. w = tab.windows[ck]
        <5>1. tab.windows[ck].ends = Ends(lim, t) BY <2>5, <4>1, <4>3 DEF Counted
        <5> QED BY <4>3, <5>1 DEF Current
      <4> QED BY <4>1, <4>3, <4>4 DEF Counted
    <3> HIDE DEF w, tab, ck, lim
    <3>3. Followed(Tallied(ck, w.ends, n), lim, windows', newest')
      BY <1>1, <2>1, <2>2, <2>5, <2>6, <2>10, <2>11, <2>14, <2>15, <2>16, <3>1, <3>2, SelfCounted
    <3>4. granted'.key = granted.key
      BY <1>2, <2>8, <2>15, <2>16 DEF Tallied
    <3>5. LimitOf(granted.key)' = lim
      BY <2>8, <2>13, <2>16, <3>4 DEF LimitOf, LimitFor
    <3> QED BY <2>8, <2>14, <3>3, <3>5 DEF GrantInv
  <2>17. CASE ck # granted.key
    <3>1. granted' = granted BY <2>8, <2>15, <2>17 DEF Tallied
    <3>2. ASSUME granted.ends > newest', granted.key \in DOMAIN windows,
                 windows[granted.key].ends = granted.ends
          PROVE  granted.key \in DOMAIN windows' /\ windows'[granted.key] = windows[granted.key]
      <4>1. windows[granted.key].ends > t BY <1>3, <2>1, <2>14, <3>2
      <4> QED BY <2>11, <2>12, <2>17, <3>2, <4>1
    <3> HIDE DEF w, tab, ck, lim
    <3>3. Followed(granted, LimitOf(granted.key), windows', newest')
      BY <1>1, <1>5, <2>14, <3>2, OtherCounted
    <3>4. LimitOf(granted.key)' = LimitOf(granted.key)
      BY <2>8, <3>1 DEF LimitOf, LimitFor
    <3> QED BY <2>14, <3>1, <3>3, <3>4 DEF GrantInv
  <2> QED BY <2>16, <2>17
<1>7. ASSUME NEW q \in Requests, NEW t \in Instants, CheckUncounted(q, t) PROVE GrantInv'
  <2> DEFINE key == <<WindowName(q.rule, q.consumer),
                      ClientOf(LimitFor(q.rule, q.consumer).by, q.consumer, q.ip, q.lines)>>
             tab == Found(key, t)
  <2>1. t \in Nat BY DEF Instants
  <2>2. /\ windows' = tab.windows /\ granted' = granted /\ limits' = limits
        /\ newest' = IF t > newest THEN t ELSE newest
    BY <1>7 DEF CheckUncounted
  <2>3. newest' \in Nat /\ newest <= newest' /\ t <= newest' BY <1>1, <2>1, <2>2
  <2>4. ASSUME granted.ends > newest', granted.key \in DOMAIN windows,
               windows[granted.key].ends = granted.ends
        PROVE  granted.key \in DOMAIN windows' /\ windows'[granted.key] = windows[granted.key]
    <3>1. windows[granted.key].ends > t BY <1>3, <2>1, <2>3, <2>4
    <3> QED BY <2>2, <2>4, <3>1, LiveKept
  <2> HIDE DEF key, tab
  <2>5. Followed(granted, LimitOf(granted.key), windows', newest')
    BY <1>1, <1>5, <2>3, <2>4, OtherCounted
  <2>6. LimitOf(granted.key)' = LimitOf(granted.key) BY <2>2 DEF LimitOf, LimitFor
  <2> QED BY <2>2, <2>3, <2>5, <2>6 DEF GrantInv
<1>8. ASSUME NEW r \in Rules, NEW lim \in Limits, Reload(r, lim) PROVE GrantInv'
  <2>1. /\ limits' = [limits EXCEPT ![r] = lim] /\ windows' = windows /\ newest' = newest
        /\ granted' = IF granted.key[1][1] = r THEN [granted EXCEPT !.ends = 0, !.n = 0] ELSE granted
    BY <1>8 DEF Reload, table
  <2>2. CASE granted.key[1][1] = r
    <3>1. granted' \in [key : Watched, ends : Nat, n : Nat, late : BOOLEAN]
          /\ granted'.key = granted.key /\ granted'.ends = 0 /\ granted'.n = 0
      BY <1>2, <2>1, <2>2
    <3>2. LimitOf(granted.key)' \in LimitRecord
      <4>1. granted.key[1][2] \in Consumers \union {NoConsumer} BY <1>3 DEF Keys, Names
      <4>2. limits'[r] \in LimitRecord BY <1>1, <2>1, LimiterAssumption
      <4> QED BY <2>2, <3>1, <4>1, <4>2, LimiterAssumption DEF LimitOf, LimitFor, Own
    <3>3. LimitOf(granted.key)'.limit \in Nat BY <3>2 DEF LimitRecord
    <3>4. Followed(granted', LimitOf(granted.key)', windows', newest')
      BY <3>1, <3>3 DEF Followed
    <3> QED BY <1>1, <2>1, <3>4 DEF GrantInv
  <2>3. CASE granted.key[1][1] # r
    <3>1. granted' = granted BY <2>1, <2>3
    <3>2. LimitOf(granted.key)' = LimitOf(granted.key)
      <4>1. limits'[granted.key[1][1]] = limits[granted.key[1][1]]
        BY <1>1, <1>3, <2>1, <2>3 DEF Keys, Names
      <4> QED BY <3>1, <4>1 DEF LimitOf, LimitFor
    <3> QED BY <1>1, <2>1, <3>1, <3>2 DEF GrantInv
  <2> QED BY <2>2, <2>3
<1>9. ASSUME UNCHANGED <<limits, windows, newest, granted>> PROVE GrantInv'
  BY <1>9 DEF GrantInv, LimitOf, LimitFor
<1> QED BY <1>6, <1>7, <1>8, <1>9
        DEF Next, ClockTicks, ClockStepsBack, vars, table

(* check_at: no client is allowed more than its limit in one window, for   *)
(* any number of clients, rules and reloads, whatever makes the table      *)
(* sweep and however the clock steps, late checks excepted.                *)
THEOREM LimitKept == Spec => []LimitHeld
<1>1. Init => GrantInv
  <2> SUFFICES ASSUME Init PROVE GrantInv
    OBVIOUS
  <2>1. PICK k \in Watched : granted = [key |-> k, ends |-> 0, n |-> 0, late |-> FALSE]
    BY DEF Init
  <2>2. k[1][1] \in Rules /\ k[1][2] \in Consumers \union {NoConsumer} BY LimiterAssumption
  <2>3. LimitOf(k) \in LimitRecord
    BY <2>2, LimiterAssumption DEF Init, LimitOf, LimitFor, Own
  <2>4. LimitOf(k).limit \in Nat BY <2>3 DEF LimitRecord
  <2>5. Followed(granted, LimitOf(granted.key), windows, 0) BY <2>1, <2>4 DEF Followed
  <2> QED BY <2>5 DEF Init, GrantInv
<1>2. GrantInv => LimitHeld BY DEF GrantInv, Followed, LimitHeld, LimitOf
<1>3. TableInv /\ GrantInv /\ [Next]_vars => GrantInv' BY GrantStep
<1> QED BY <1>1, <1>2, <1>3, TableAlways, PTL DEF Spec

=============================================================================
