------------------------------ MODULE RateLimiter ------------------------------
(***************************************************************************)
(* The request limits of one replica (crates/gapura/src/proxy/             *)
(* rate_limit.rs, and `limit` in proxy/plugin.rs): fixed windows by window *)
(* name and client in one table under one lock, swept as it grows, with a  *)
(* cap on the windows header values may open.                              *)
(*                                                                         *)
(* A check reads the clock before it takes the lock, so it works with an   *)
(* instant up to MaxLag old; the clock is the system's and may step back.  *)
(***************************************************************************)
EXTENDS Naturals, Sequences, FiniteSets

CONSTANTS
    Rules,                  \* the rules, each with a limit
    Limits,                 \* the limits a rule may be given
    Consumers, NoConsumer,
    OwnLimit,               \* a consumer's own limit, or NoLimit
    NoLimit,
    Addrs, NoAddr,
    Grouped,                \* an address's /64, or the address itself
    Values, Empty,          \* what a line of the counted header may hold
    Requests,               \* the requests looked at: rule, consumer, address, header lines
    Watched,                \* the clients whose allowance is followed
    SweepFloor,             \* SWEEP_FLOOR
    HeaderWindows,          \* HEADER_WINDOWS
    CappedSweepMs,          \* CAPPED_SWEEP_MS
    MaxLag,                 \* bound: how old the instant of a check is
    MaxTime,                \* bound: the last instant looked at
    MaxBack,                \* bound: how often the clock steps back
    MaxReloads              \* bound: how often a rule is given another limit

LimitRecord == [limit : Nat, window : Nat \ {0}, by : {"ip", "consumer", "header"}]

ASSUME LimiterAssumption ==
    /\ Limits \subseteq LimitRecord /\ NoLimit \notin LimitRecord
    /\ OwnLimit \in [Consumers -> LimitRecord \union {NoLimit}] /\ NoConsumer \notin Consumers
    /\ Grouped \in [Addrs -> Addrs] /\ NoAddr \notin Addrs
    /\ \A a \in Addrs : Grouped[Grouped[a]] = Grouped[a]
    /\ Empty \notin Values
    /\ Requests \subseteq [rule : Rules, consumer : Consumers \union {NoConsumer},
                           ip : Addrs \union {NoAddr}, lines : Seq(Values \union {Empty})]
    /\ Watched \subseteq (Rules \X (Consumers \union {NoConsumer})) \X
                       (({"ip"} \X {Grouped[a] : a \in Addrs}) \union ({"consumer"} \X Consumers)
                          \union ({"header"} \X Values))
    /\ SweepFloor \in Nat /\ HeaderWindows \in Nat \ {0} /\ CappedSweepMs \in Nat
    /\ MaxLag \in Nat /\ MaxTime \in Nat /\ MaxBack \in Nat /\ MaxReloads \in Nat

VARIABLES
    limits,   \* the limit of each rule
    windows,  \* Table::windows
    sweepAt,  \* Table::sweep_at
    held,     \* Table::header_windows, zero where the code has no entry
    swept,    \* Table::swept_ms
    clock,    \* the system clock
    newest,   \* history: the newest instant a check worked with
    granted,  \* history: what one client, any of Watched, was allowed in its newest window
    backs, reloads

table == <<windows, sweepAt, held, swept>>
vars == <<limits, table, clock, newest, granted, backs, reloads>>

(* A window name: the rule's, or the rule's and the consumer's. *)
Names == Rules \X (Consumers \union {NoConsumer})

(* Whom a window counts: an address as grouped, a consumer or a header's value. *)
Clients == ({"ip"} \X {Grouped[a] : a \in Addrs}) \union ({"consumer"} \X Consumers) \union ({"header"} \X Values)

Keys == Names \X Clients

TypeOK ==
    /\ limits \in [Rules -> Limits]
    /\ DOMAIN windows \subseteq Keys
    /\ \A k \in DOMAIN windows : windows[k] \in [ends : Nat, count : Nat]
    /\ sweepAt \in Nat /\ held \in [Names -> Nat] /\ swept \in Nat
    /\ clock \in Nat

Init ==
    /\ limits \in [Rules -> Limits]
    /\ windows = << >> /\ sweepAt = SweepFloor /\ held = [n \in Names |-> 0] /\ swept = 0
    /\ clock = 1 /\ newest = 0
    /\ \E k \in Watched : granted = [key |-> k, ends |-> 0, n |-> 0, late |-> FALSE]
    /\ backs = 0 /\ reloads = 0

-----------------------------------------------------------------------------
(* limit: the limit that counts, the window it counts in and the client. *)

Own(c) == c # NoConsumer /\ OwnLimit[c] # NoLimit

LimitFor(r, c) == IF Own(c) THEN OwnLimit[c] ELSE limits[r]

WindowName(r, c) == <<r, IF Own(c) THEN c ELSE NoConsumer>>

ByAddress(ip) == <<"ip", Grouped[ip]>>

NamesConsumer(by, c) == by = "consumer" /\ c # NoConsumer

(* Exactly one line of the header, and not an empty one. *)
NamesValue(by, lines) == by = "header" /\ Len(lines) = 1 /\ lines[1] # Empty

(* Whether there is anyone to count. *)
Countable(by, c, ip, lines) == ip # NoAddr \/ NamesConsumer(by, c) \/ NamesValue(by, lines)

ClientOf(by, c, ip, lines) ==
    IF NamesConsumer(by, c) THEN <<"consumer", c>>
    ELSE IF NamesValue(by, lines) THEN <<"header", lines[1]>>
    ELSE ByAddress(ip)

-----------------------------------------------------------------------------
(* struct Table.  The operators work on a table at hand, a record. *)

Table == [windows |-> windows, sweepAt |-> sweepAt, held |-> held, swept |-> swept]

Size(tab) == Cardinality(DOMAIN tab.windows)

HeaderKeys(dom, n) == {k \in dom : k[1] = n /\ k[2][1] = "header"}

(* Mutant: a window in its last millisecond is dropped. *)
LivesOn(w, t) == w.ends > t + 1

Lives(w, t) == w.ends > t

(* Mutant: the counts are added to what they were. *)
RecountedOnTop(tab, live) == [n \in Names |-> tab.held[n] + Cardinality(HeaderKeys(live, n))]

Recounted(tab, live) == [n \in Names |-> Cardinality(HeaderKeys(live, n))]

Sweep(tab, t) ==
    LET live == {k \in DOMAIN tab.windows : Lives(tab.windows[k], t)}
    IN  [windows |-> [k \in live |-> tab.windows[k]],
         sweepAt |-> IF 2 * Cardinality(live) > SweepFloor THEN 2 * Cardinality(live)
                     ELSE SweepFloor,
         held |-> Recounted(tab, live),
         swept |-> t]

(* Mutant: only a table twice the size is swept. *)
GrownTwice(tab) == Size(tab) > 2 * tab.sweepAt

Grown(tab) == Size(tab) > tab.sweepAt

SweepGrown(tab, t) == IF Grown(tab) THEN Sweep(tab, t) ELSE tab

NewValue(tab, key) == key[2][1] = "header" /\ key \notin DOMAIN tab.windows

(* Mutant: off by one at the cap. *)
OverFull(tab, n) == tab.held[n] > HeaderWindows

Full(tab, n) == tab.held[n] >= HeaderWindows

Due(tab, t) == t < tab.swept \/ t >= tab.swept + CappedSweepMs

SweepCapped(tab, key, t) ==
    IF NewValue(tab, key) /\ Full(tab, key[1]) /\ Due(tab, t) THEN Sweep(tab, t) ELSE tab

(* What a check finds: the table after the sweeps it runs. *)
Found(key, t) == SweepCapped(SweepGrown(Table, t), key, t)

(* A new value that meets the cap counts by address. *)
Capped(tab, key) == NewValue(tab, key) /\ Full(tab, key[1])

CountedKey(tab, key, ip) == IF Capped(tab, key) THEN <<key[1], ByAddress(ip)>> ELSE key

HeldAfter(tab, key) ==
    IF NewValue(tab, key) /\ ~Capped(tab, key)
    THEN [tab.held EXCEPT ![key[1]] = @ + 1] ELSE tab.held

Ends(lim, t) == ((t \div lim.window) + 1) * lim.window

(* The key's window, or a fresh one: it has none, its window ended, or it is *)
(* of another length.                                                        *)
Current(tab, key, ends) ==
    IF key \in DOMAIN tab.windows /\ tab.windows[key].ends = ends
    THEN tab.windows[key] ELSE [ends |-> ends, count |-> 0]

Allowed(w, lim) == w.count < lim.limit

Installed(tab, key, w) ==
    [k \in DOMAIN tab.windows \union {key} |-> IF k = key THEN w ELSE tab.windows[k]]

-----------------------------------------------------------------------------
(* History: what the client was allowed in its newest window, and whether a *)
(* check of it came late, after its window had ended for an earlier check.  *)
Owner(key) == IF key[2][1] = "ip" THEN <<key[1], <<"ip", Grouped[key[2][2]]>>>> ELSE key

Tallied(key, ends, n) ==
    LET late == ends <= newest
    IN  IF Owner(key) # Owner(granted.key) THEN granted
        ELSE IF ends > granted.ends
        THEN [granted EXCEPT !.ends = ends, !.n = IF late THEN 0 ELSE n, !.late = late]
        ELSE IF late \/ granted.late THEN [granted EXCEPT !.n = 0, !.late = TRUE]
        ELSE IF ends = granted.ends THEN [granted EXCEPT !.n = @ + n]
        ELSE granted

-----------------------------------------------------------------------------
Instants == {t \in 1 .. MaxTime : t <= clock /\ t + MaxLag >= clock}

(* check_at, a whole critical section, for a request that is counted. *)
Check(q, t) ==
    LET lim == LimitFor(q.rule, q.consumer)
        key == <<WindowName(q.rule, q.consumer), ClientOf(lim.by, q.consumer, q.ip, q.lines)>>
    IN  /\ Countable(lim.by, q.consumer, q.ip, q.lines)
        /\ \E tab \in {Found(key, t)} :
             /\ q.ip # NoAddr \/ ~Capped(tab, key)
             /\ \E w \in {Current(tab, CountedKey(tab, key, q.ip), Ends(lim, t))} :
                  LET n == IF Allowed(w, lim) THEN 1 ELSE 0 IN
                    /\ windows' = Installed(tab, CountedKey(tab, key, q.ip),
                                            [w EXCEPT !.count = @ + n])
                    /\ granted' = Tallied(CountedKey(tab, key, q.ip), w.ends, n)
             /\ held' = HeldAfter(tab, key)
             /\ sweepAt' = tab.sweepAt /\ swept' = tab.swept
        /\ newest' = IF t > newest THEN t ELSE newest
        /\ UNCHANGED <<limits, clock, backs, reloads>>

(* A new value meets the cap and there is no address: allowed, uncounted. *)
CheckUncounted(q, t) ==
    LET lim == LimitFor(q.rule, q.consumer)
        key == <<WindowName(q.rule, q.consumer), ClientOf(lim.by, q.consumer, q.ip, q.lines)>>
    IN  /\ q.ip = NoAddr /\ Countable(lim.by, q.consumer, q.ip, q.lines)
        /\ \E tab \in {Found(key, t)} :
             /\ Capped(tab, key)
             /\ windows' = tab.windows /\ held' = tab.held
             /\ sweepAt' = tab.sweepAt /\ swept' = tab.swept
        /\ newest' = IF t > newest THEN t ELSE newest
        /\ UNCHANGED <<limits, clock, granted, backs, reloads>>

(* A reload gives a rule another limit: windows of another length start over. *)
Reload(r, lim) ==
    /\ reloads < MaxReloads /\ lim # limits[r]
    /\ limits' = [limits EXCEPT ![r] = lim]
    /\ reloads' = reloads + 1
    /\ granted' = IF granted.key[1][1] = r THEN [granted EXCEPT !.ends = 0, !.n = 0] ELSE granted
    /\ UNCHANGED <<table, clock, newest, backs>>

ClockTicks ==
    /\ clock < MaxTime
    /\ clock' = clock + 1
    /\ UNCHANGED <<limits, table, newest, granted, backs, reloads>>

ClockStepsBack ==
    /\ backs < MaxBack /\ clock > 1
    /\ clock' \in 1 .. (clock - 1)
    /\ backs' = backs + 1
    /\ UNCHANGED <<limits, table, newest, granted, reloads>>

Next ==
    \/ \E q \in Requests, t \in Instants : Check(q, t) \/ CheckUncounted(q, t)
    \/ \E r \in Rules, lim \in Limits : Reload(r, lim)
    \/ ClockTicks \/ ClockStepsBack

Spec == Init /\ [][Next]_vars

-----------------------------------------------------------------------------
(* The count of header windows under each name is exact, through sweeps,     *)
(* fallbacks and windows that start over: a drift up would push every value  *)
(* onto its address, a drift down would lift the cap.                        *)
HeldExact == \A n \in Names : held[n] = Cardinality(HeaderKeys(DOMAIN windows, n))

(* No name ever holds more header windows than the cap.                      *)
HeldCapped == \A n \in Names : Cardinality(HeaderKeys(DOMAIN windows, n)) <= HeaderWindows

(* The table is swept before it grows past the size the last sweep set.      *)
TableBounded == Cardinality(DOMAIN windows) <= sweepAt + 1

(* No client is allowed more than its limit in one window, whatever other    *)
(* clients make the table sweep, and an address cannot be traded for its     *)
(* neighbour.  The exception is a check that comes late: after another check *)
(* had already seen its window end.                                          *)
LimitHeld ==
    granted.n <= LimitFor(granted.key[1][1], granted.key[1][2]).limit

(* rate_limit.rs:268, "A window that ended, or one created under a different *)
(* window length (the rule changed on a reload), starts over in the current  *)
(* window": while the clock runs forward and no rule changes, a window that  *)
(* has not ended is not thrown away.                                         *)
LiveWindowsKept ==
    [][ \/ backs > 0 \/ reloads > 0
        \/ \A k \in DOMAIN windows \intersect DOMAIN windows' :
             windows'[k].ends = windows[k].ends \/ windows[k].ends <= clock ]_vars
=============================================================================
