---------------------------- MODULE Transactions ----------------------------
(***************************************************************************)
(* PostgreSQL as the console's store uses it: transactions at READ         *)
(* COMMITTED that lock rows, wait for each other, and are aborted when     *)
(* they wait in a circle.  The database is external; the modes and what    *)
(* conflicts with what are the ones the statements of                      *)
(* crates/gapura-control/src/store ask for.                                *)
(*                                                                         *)
(* A request that runs a transaction is a member of Reqs.  locks holds a   *)
(* record for every row lock and every advisory lock until its transaction *)
(* ends.  What a request waits for is a function of its own state, so the  *)
(* operators below take it as a function wants, from requests to sets of   *)
(* <<row, mode>> pairs.                                                    *)
(***************************************************************************)
EXTENDS Integers, FiniteSets

CONSTANTS Reqs,      \* requests in progress at once
          Attempts   \* how often a transaction is tried (ATTEMPTS)

ASSUME TransactionsAssumption == Attempts \in Nat \ {0}

VARIABLE locks

\* The four row locks: FOR KEY SHARE, FOR SHARE, an UPDATE that changes no key, FOR UPDATE.
Modes == {"keyshare", "share", "nokey", "update"}

Conflict == {<<"keyshare", "update">>, <<"share", "nokey">>, <<"share", "update">>,
             <<"nokey", "share">>, <<"nokey", "nokey">>, <<"nokey", "update">>,
             <<"update", "keyshare">>, <<"update", "share">>, <<"update", "nokey">>,
             <<"update", "update">>}

Lock(r, row, mode) == [by |-> r, row |-> row, mode |-> mode]

\* The other requests whose locks r's pairs would have to wait for.
Blockers(r, pairs) ==
    {l.by : l \in {m \in locks : m.by # r /\ \E p \in pairs : m.row = p[1]
                                                           /\ <<p[2], m.mode>> \in Conflict}}

Free(r, pairs) == Blockers(r, pairs) = {}

Granted(r, pairs) == locks \cup {Lock(r, p[1], p[2]) : p \in pairs}

Released(r) == {l \in locks : l.by # r}

\* r waits, directly or not, for a lock of its own: some set of requests that wait for each other.
Deadlocked(r, wants) ==
    /\ ~Free(r, wants[r])
    /\ \E circle \in SUBSET Reqs :
          /\ r \in circle
          /\ \A a \in circle : \E b \in circle \ {a} : b \in Blockers(a, wants[a])
          /\ \A b \in circle : \E a \in circle \ {b} : b \in Blockers(a, wants[a])
=============================================================================
