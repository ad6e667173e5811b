---------------------------- MODULE ConsoleProofs ----------------------------
(***************************************************************************)
(* The console's start and its accounts, for any replicas, migrations,     *)
(* requests, tables and loads.                                             *)
(***************************************************************************)
EXTENDS Accounts, ConsoleStart, FiniteSetTheorems, TLAPS

(***************************************************************************)
(* Replicas that start.  Between taking the migration lock and giving it   *)
(* back a replica is the holder, and its session is alive; so it alone     *)
(* moves the schema, and what it has passed over is the schema's prefix.   *)
(***************************************************************************)
Holding == {"check", "apply", "commit", "unlock"}

StartRecord == [at : Holding \cup {"down", "connected", "serving"}, next : Nat \ {0}, known : Nat,
                failed : {"none", "statement"}]

StartTyped ==
    /\ schema \in Seq(Nat) /\ holder \in Replicas \cup {0} /\ orphaned \in BOOLEAN
    /\ start \in [Replicas -> StartRecord] /\ mishaps \in Nat

InOrder == (\A i \in 1 .. Len(schema) : schema[i] = i) /\ recorded = 1 .. Len(schema)

OneHolds ==
    /\ \A r \in Replicas : start[r].at \in Holding => holder = r /\ ~orphaned
    /\ holder = 0 => ~orphaned

\* How far a replica's start is in a schema of n migrations.
FarEnough(s, n) ==
    /\ s.at = "connected" => s.next = 1
    /\ s.at = "check" => s.next <= n + 1
    /\ s.at \in {"apply", "commit"} => s.next = n + 1
    /\ s.at = "unlock" /\ s.failed = "none" => s.known <= n
    /\ s.at = "serving" => s.known <= n

StartInv == StartTyped /\ InOrder /\ OneHolds /\ \A r \in Replicas : FarEnough(start[r], Len(schema))

LEMMA SchemaRange == ASSUME StartTyped, InOrder PROVE Range(schema) = 1 .. Len(schema)
  BY DEF StartTyped, InOrder, Range

\* A migration that is committed is the next one of the schema.
LEMMA SchemaGrows ==
    ASSUME StartTyped, InOrder, NEW r \in Replicas, start[r].next = Len(schema) + 1, Commits(r)
    PROVE  schema' \in Seq(Nat) /\ InOrder' /\ Len(schema') = Len(schema) + 1
  <1>1. schema' = Append(schema, Len(schema) + 1) /\ schema \in Seq(Nat) /\ Len(schema) \in Nat
    BY DEF Commits, StartTyped
  <1>2. schema' \in Seq(Nat) /\ Len(schema') = Len(schema) + 1
    BY <1>1
  <1>3. \A i \in 1 .. Len(schema) + 1 : schema'[i] = i
    BY <1>1 DEF InOrder
  <1>4. recorded' = 1 .. Len(schema')
    BY <1>1, <1>2 DEF InOrder, Commits
  <1> QED BY <1>2, <1>3, <1>4 DEF InOrder

LEMMA StartInvInit ==
    ASSUME NEW builds \in [Replicas -> Nat], NEW applied \in Nat, NEW bound \in Nat,
           StartInit(builds, applied, bound)
    PROVE  StartInv
  <1>1. schema \in Seq(Nat) /\ Len(schema) = applied /\ mishaps \in Nat
    BY DEF StartInit
  <1>2. start \in [Replicas -> StartRecord]
    BY DEF StartInit, Down, StartRecord
  <1>3. StartTyped /\ InOrder
    BY <1>1, <1>2 DEF StartInit, StartTyped, InOrder
  <1>4. \A r \in Replicas : start[r].at = "down"
    BY DEF StartInit, Down
  <1>5. OneHolds
    BY <1>4 DEF StartInit, OneHolds, Holding
  <1>6. \A r \in Replicas : FarEnough(start[r], Len(schema))
    BY <1>4 DEF FarEnough
  <1> QED BY <1>3, <1>5, <1>6 DEF StartInv

\* A step of one replica that leaves the schema, and one that only its holder takes.
LEMMA OthersFar ==
    ASSUME StartInv, NEW r \in Replicas, NEW s \in StartRecord,
           start' = [start EXCEPT ![r] = s], schema' \in Seq(Nat),
           schema' = schema \/ (holder = r /\ Len(schema') = Len(schema) + 1),
           FarEnough(s, Len(schema'))
    PROVE  start' \in [Replicas -> StartRecord] /\ \A q \in Replicas : FarEnough(start'[q], Len(schema'))
  <1> USE DEF StartInv
  <1>1. start' \in [Replicas -> StartRecord] /\ start'[r] = s
    BY DEF StartTyped
  <1>2. ASSUME NEW q \in Replicas, q # r PROVE FarEnough(start'[q], Len(schema'))
    <2>1. start'[q] = start[q] /\ FarEnough(start[q], Len(schema)) /\ start[q] \in StartRecord
      BY <1>2 DEF StartTyped
    <2>2. CASE schema' = schema
      BY <2>1, <2>2
    <2>3. CASE holder = r /\ Len(schema') = Len(schema) + 1
      <3>1. start[q].at \notin Holding
        BY <1>2, <2>3 DEF OneHolds
      <3>2. Len(schema) \in Nat /\ start[q].known \in Nat
        BY <2>1 DEF StartTyped, StartRecord
      <3> QED BY <2>1, <2>3, <3>1, <3>2 DEF FarEnough, Holding
    <2> QED BY <2>2, <2>3
  <1> QED BY <1>1, <1>2

LEMMA StartInvNext == ASSUME StartInv, [StartNext]_startVars PROVE StartInv'
  <1> USE ReplicasAssumption DEF StartInv
  <1>0. /\ Len(schema) \in Nat /\ Range(schema) = 1 .. Len(schema) /\ schema \in Seq(Nat)
        /\ \A r \in Replicas : /\ start[r] \in StartRecord /\ start[r].next \in Nat \ {0}
                               /\ start[r].known \in Nat /\ FarEnough(start[r], Len(schema))
    BY SchemaRange DEF StartTyped, StartRecord
  <1>1. CASE UNCHANGED startVars
    BY <1>1 DEF startVars, StartTyped, InOrder, OneHolds
  <1>2. ASSUME NEW r \in Replicas, connect_with(r) PROVE StartInv'
    <2>1. PICK s \in StartRecord : /\ start' = [start EXCEPT ![r] = s]
                                   /\ s.at = "connected" /\ s.next = 1
      <3>1. [Down(start[r].known) EXCEPT !.at = "connected"] \in StartRecord
        BY <1>0 DEF Down, StartRecord
      <3> QED BY <1>2, <3>1 DEF connect_with, Down
    <2>2. FarEnough(s, Len(schema'))
      BY <2>1 DEF FarEnough
    <2>3. StartTyped' /\ \A q \in Replicas : FarEnough(start'[q], Len(schema'))
      BY <1>0, <1>2, <2>1, <2>2, OthersFar DEF connect_with, StartTyped
    <2>4. InOrder' /\ OneHolds'
      BY <1>2, <2>1 DEF connect_with, InOrder, OneHolds, Holding, StartTyped
    <2> QED BY <2>3, <2>4
  <1>3. ASSUME NEW r \in Replicas, migrate(r) PROVE StartInv'
    <2>1. PICK s \in StartRecord : /\ start' = [start EXCEPT ![r] = s]
                                   /\ s.at = "check" /\ s.next = 1
      <3>1. [start[r] EXCEPT !.at = "check"] \in StartRecord
        BY <1>0 DEF StartRecord, Holding
      <3>2. start[r].next = 1
        BY <1>0, <1>3 DEF migrate, StartAt, FarEnough
      <3> QED BY <1>0, <1>3, <3>1, <3>2 DEF migrate, Goes, StartRecord
    <2>2. FarEnough(s, Len(schema')) /\ schema' = schema
      BY <1>0, <1>3, <2>1 DEF FarEnough, migrate
    <2>3. StartTyped' /\ \A q \in Replicas : FarEnough(start'[q], Len(schema'))
      BY <1>0, <1>3, <2>1, <2>2, OthersFar DEF migrate, StartTyped
    <2>4. InOrder' /\ OneHolds'
      BY <1>3, <2>1 DEF migrate, InOrder, OneHolds, Holding, StartTyped
    <2> QED BY <2>3, <2>4
  <1>4. ASSUME NEW r \in Replicas, Check(r) PROVE StartInv'
    <2>1. PICK s \in StartRecord : /\ start' = [start EXCEPT ![r] = s]
                                   /\ s.at \in Holding /\ FarEnough(s, Len(schema))
      <3> DEFINE q == start[r]
      <3>1. q \in StartRecord /\ q.at = "check" /\ q.next <= Len(schema) + 1
        BY <1>0, <1>4 DEF Check, StartAt, FarEnough
      <3>2. CASE q.next > q.known
        <4> DEFINE s == [q EXCEPT !.at = "unlock"]
        <4>1. s \in StartRecord /\ s.at = "unlock" /\ s.known = q.known
          BY <3>1 DEF StartRecord, Holding
        <4>2. FarEnough(s, Len(schema))
          BY <1>0, <3>1, <3>2, <4>1 DEF FarEnough
        <4>3. start' = [start EXCEPT ![r] = s]
          BY <1>4, <3>2 DEF Check
        <4> QED BY <4>1, <4>2, <4>3 DEF Holding
      <3>3. CASE ~(q.next > q.known) /\ q.next \in recorded
        <4> DEFINE s == [q EXCEPT !.next = q.next + 1]
        <4>1. s \in StartRecord /\ s.at = "check" /\ s.next = q.next + 1
          BY <3>1 DEF StartRecord, Holding
        <4>2. FarEnough(s, Len(schema))
          BY <1>0, <3>1, <3>3, <4>1 DEF FarEnough, InOrder
        <4>3. start' = [start EXCEPT ![r] = s]
          BY <1>4, <3>3 DEF Check
        <4> QED BY <4>1, <4>2, <4>3 DEF Holding
      <3>4. CASE ~(q.next > q.known) /\ q.next \notin recorded
        <4> DEFINE s == [q EXCEPT !.at = "apply"]
        <4>1. s \in StartRecord /\ s.at = "apply" /\ s.next = q.next
          BY <3>1 DEF StartRecord, Holding
        <4>2. FarEnough(s, Len(schema))
          BY <1>0, <3>1, <3>4, <4>1 DEF FarEnough, InOrder
        <4>3. start' = [start EXCEPT ![r] = s]
          BY <1>4, <3>4 DEF Check
        <4> QED BY <4>1, <4>2, <4>3 DEF Holding
      <3> QED BY <3>2, <3>3, <3>4
    <2>2. schema' = schema /\ StartTyped' /\ \A q \in Replicas : FarEnough(start'[q], Len(schema'))
      BY <1>0, <1>4, <2>1, OthersFar DEF Check, StartTyped
    <2>3. InOrder' /\ OneHolds'
      BY <1>4, <2>1 DEF Check, StartAt, InOrder, OneHolds, Holding, StartTyped
    <2> QED BY <2>2, <2>3
  <1>5. ASSUME NEW r \in Replicas, ApplySql(r) PROVE StartInv'
    <2>1. start[r].at = "apply" /\ start[r].next = Len(schema) + 1
      BY <1>0, <1>5 DEF ApplySql, StartAt, FarEnough
    <2>2. PICK s \in StartRecord : /\ start' = [start EXCEPT ![r] = s]
                                   /\ s.at = "commit" /\ s.next = Len(schema) + 1
      <3>1. [start[r] EXCEPT !.at = "commit"] \in StartRecord
        BY <1>0 DEF StartRecord, Holding
      <3>2. start' = [start EXCEPT ![r].at = "commit"]
        BY <1>0, <1>5, <2>1 DEF ApplySql, Goes
      <3>3. start' = [start EXCEPT ![r] = [start[r] EXCEPT !.at = "commit"]]
        BY <3>2
      <3> QED BY <1>0, <2>1, <3>1, <3>3 DEF StartRecord
    <2>3. FarEnough(s, Len(schema')) /\ schema' = schema
      BY <1>0, <1>5, <2>2 DEF FarEnough, ApplySql
    <2>4. StartTyped' /\ \A q \in Replicas : FarEnough(start'[q], Len(schema'))
      BY <1>0, <1>5, <2>2, <2>3, OthersFar DEF ApplySql, StartTyped
    <2>5. InOrder' /\ OneHolds'
      BY <1>5, <2>1, <2>2 DEF ApplySql, InOrder, OneHolds, Holding, StartTyped
    <2> QED BY <2>4, <2>5
  <1>6. ASSUME NEW r \in Replicas, CommitMigration(r) PROVE StartInv'
    <2>1. start[r].at = "commit" /\ start[r].next = Len(schema) + 1 /\ holder = r /\ ~orphaned
      BY <1>0, <1>6 DEF CommitMigration, StartAt, FarEnough, OneHolds, Holding
    <2>2. schema' \in Seq(Nat) /\ InOrder' /\ Len(schema') = Len(schema) + 1
      BY <1>0, <1>6, <2>1, SchemaGrows DEF CommitMigration
    <2>3. PICK s \in StartRecord : /\ start' = [start EXCEPT ![r] = s]
                                   /\ s.at = "check" /\ s.next = Len(schema) + 2
      <3>1. [start[r] EXCEPT !.at = "check", !.next = start[r].next + 1] \in StartRecord
        <4>1. start[r].next + 1 \in Nat \ {0}
          BY <1>0
        <4> QED BY <1>0, <4>1 DEF StartRecord, Holding
      <3>2. start' = [start EXCEPT ![r] = [start[r] EXCEPT !.at = "check", !.next = start[r].next + 1]]
        <4>1. start' = [start EXCEPT ![r].at = "check", ![r].next = @ + 1]
          BY <1>0, <1>6, <2>1 DEF CommitMigration
        <4>2. start \in [Replicas -> StartRecord]
          BY DEF StartTyped
        <4> QED BY <4>1, <4>2
      <3>3. start[r].next + 1 = Len(schema) + 2
        BY <1>0, <2>1
      <3> QED BY <1>0, <3>1, <3>2, <3>3 DEF StartRecord
    <2>4. FarEnough(s, Len(schema'))
      BY <1>0, <2>2, <2>3 DEF FarEnough
    <2>5. StartTyped' /\ \A q \in Replicas : FarEnough(start'[q], Len(schema'))
      BY <1>0, <1>6, <2>1, <2>2, <2>3, <2>4, OthersFar DEF CommitMigration, StartTyped
    <2>6. OneHolds'
      BY <1>6, <2>1, <2>3 DEF CommitMigration, OneHolds, Holding, StartTyped
    <2> QED BY <2>2, <2>5, <2>6
  <1>7. ASSUME NEW r \in Replicas, Unlock(r) PROVE StartInv'
    <2>1. start[r].at = "unlock" /\ holder = r /\ ~orphaned /\ holder' = 0 /\ schema' = schema
      BY <1>7 DEF Unlock, StartAt, OneHolds, Holding
    <2>2. PICK s \in StartRecord : /\ start' = [start EXCEPT ![r] = s] /\ s.at \notin Holding
                                   /\ FarEnough(s, Len(schema))
      <3>1. CASE start[r].failed = "none"
        <4> DEFINE s == [start[r] EXCEPT !.at = "serving"]
        <4>1. s \in StartRecord /\ s.at = "serving" /\ s.known = start[r].known
          BY <1>0 DEF StartRecord, Holding
        <4>2. start' = [start EXCEPT ![r] = s] /\ FarEnough(s, Len(schema))
          BY <1>0, <1>7, <2>1, <3>1, <4>1 DEF Unlock, FarEnough
        <4> QED BY <4>1, <4>2 DEF Holding
      <3>2. CASE start[r].failed # "none"
        <4> DEFINE s == Down(start[r].known)
        <4>1. s \in StartRecord /\ s.at = "down"
          BY <1>0 DEF StartRecord, Holding, Down
        <4>2. start' = [start EXCEPT ![r] = s] /\ FarEnough(s, Len(schema))
          BY <1>7, <3>2, <4>1 DEF Unlock, FarEnough
        <4> QED BY <4>1, <4>2 DEF Holding
      <3> QED BY <3>1, <3>2
    <2>3. StartTyped' /\ \A q \in Replicas : FarEnough(start'[q], Len(schema'))
      BY <1>0, <1>7, <2>1, <2>2, OthersFar DEF Unlock, StartTyped
    <2>4. InOrder' /\ OneHolds'
      BY <1>7, <2>1, <2>2 DEF Unlock, InOrder, OneHolds, StartTyped
    <2> QED BY <2>3, <2>4
  <1>8. ASSUME NEW r \in Replicas, Unanswered(r)
        PROVE  /\ schema' \in Seq(Nat) /\ InOrder'
               /\ \/ schema' = schema
                  \/ Len(schema') = Len(schema) + 1 /\ holder = r
    <2>1. CASE UNCHANGED <<schema, recorded>>
      BY <2>1, <1>0 DEF InOrder
    <2>2. CASE StartAt(r, "commit") /\ Commits(r)
      BY <1>0, <2>2, SchemaGrows DEF StartAt, FarEnough, OneHolds, Holding
    <2> QED BY <1>8, <2>1, <2>2 DEF Unanswered
  <1>9. ASSUME NEW r \in Replicas, StatementFails(r) PROVE StartInv'
    <2>1. holder = r /\ ~orphaned
      BY <1>9 DEF StatementFails, OneHolds, Holding
    <2>2. PICK s \in StartRecord : /\ start' = [start EXCEPT ![r] = s]
                                   /\ s.at = "unlock" /\ s.failed = "statement"
      <3>1. [start[r] EXCEPT !.at = "unlock", !.failed = "statement"] \in StartRecord
        BY <1>0 DEF StartRecord, Holding
      <3>2. start' = [start EXCEPT ![r] = [start[r] EXCEPT !.at = "unlock", !.failed = "statement"]]
        BY <1>9 DEF StatementFails
      <3> QED BY <1>0, <3>1, <3>2 DEF StartRecord
    <2>3. FarEnough(s, Len(schema')) /\ mishaps' \in Nat
      BY <1>9, <2>2 DEF FarEnough, StatementFails, StartTyped
    <2>4. Unanswered(r) /\ UNCHANGED <<holder, orphaned>>
      BY <1>9 DEF StatementFails
    <2>5. StartTyped' /\ \A q \in Replicas : FarEnough(start'[q], Len(schema'))
      BY <1>8, <2>2, <2>3, <2>4, OthersFar DEF StartTyped
    <2>6. InOrder' /\ OneHolds'
      BY <1>8, <2>1, <2>2, <2>4 DEF OneHolds, Holding, StartTyped
    <2> QED BY <2>5, <2>6
  <1>10. ASSUME NEW r \in Replicas, Dies(r) PROVE StartInv'
    <2>1. PICK s \in StartRecord : start' = [start EXCEPT ![r] = s] /\ s.at = "down"
      <3>1. Down(start[r].known) \in StartRecord /\ Down(start[r].known).at = "down"
        BY <1>0 DEF StartRecord, Down
      <3> QED BY <1>10, <3>1 DEF Dies
    <2>2. FarEnough(s, Len(schema')) /\ mishaps' \in Nat
      BY <1>10, <2>1 DEF FarEnough, Dies, StartTyped
    <2>3. Unanswered(r) /\ UNCHANGED holder /\ orphaned' = (orphaned \/ holder = r)
      BY <1>10 DEF Dies
    <2>4. start' \in [Replicas -> StartRecord] /\ \A q \in Replicas : FarEnough(start'[q], Len(schema'))
      BY <1>8, <2>1, <2>2, <2>3, OthersFar
    <2>5. OneHolds'
      BY <2>1, <2>3 DEF OneHolds, Holding, StartTyped
    <2>6. orphaned' \in BOOLEAN
      BY <2>3 DEF StartTyped
    <2> QED BY <1>8, <2>2, <2>3, <2>4, <2>5, <2>6 DEF StartTyped
  <1>11. CASE SessionEnds
    <2>1. StartTyped' /\ InOrder' /\ schema' = schema /\ start' = start
      BY <1>11 DEF SessionEnds, StartTyped, InOrder
    <2>2. OneHolds'
      BY <1>11 DEF SessionEnds, OneHolds
    <2> QED BY <1>0, <2>1, <2>2
  <1> QED BY <1>1, <1>2, <1>3, <1>4, <1>5, <1>6, <1>7, <1>9, <1>10, <1>11 DEF StartNext, StartStep

\* Each migration is applied once, in order and with its record, no start fails for what another
\* applied, and who serves has its schema (migrate, apply_migrations): for any number of replicas of
\* any builds, and any number of failures and crashes.
THEOREM SchemaDesigned == StartSpec => []SchemaAsDesigned
  <1>1. ASSUME StartInv PROVE SchemaAsDesigned
    <2>1. Range(schema) = 1 .. Len(schema) /\ DOMAIN schema = 1 .. Len(schema)
      BY <1>1, SchemaRange DEF StartInv, StartTyped
    <2>2. ASSUME NEW r \in Replicas
          PROVE  /\ start[r].failed # "duplicate"
                 /\ StartAt(r, "serving") => 1 .. start[r].known \subseteq Range(schema)
      BY <1>1, <2>1 DEF StartInv, StartTyped, StartRecord, StartAt, FarEnough
    <2> QED BY <1>1, <2>1, <2>2 DEF SchemaAsDesigned, StartInv, InOrder
  <1>2. ASSUME NEW known \in [Replicas -> Nat], NEW applied \in Nat, NEW bound \in Nat
        PROVE  StartInit(known, applied, bound) => StartInv
    BY StartInvInit
  <1>3. (\E known \in [Replicas -> Nat], applied \in Nat, bound \in Nat :
             StartInit(known, applied, bound)) => StartInv
    BY <1>2
  <1>4. StartInv /\ [StartNext]_startVars => StartInv'
    BY StartInvNext
  <1> QED BY <1>1, <1>3, <1>4, PTL DEF StartSpec

-----------------------------------------------------------------------------
(***************************************************************************)
(* Accounts.  A request past its caller stage holds the caller's row FOR   *)
(* SHARE, and the caller is an enabled superuser: every write that could   *)
(* end that conflicts with the lock.  In the same way a sign-up past its   *)
(* turn holds the switch, and the switch is on.                            *)
(***************************************************************************)
TargetKinds == {"reset", "disable", "enable", "promote", "demote", "delete"}

\* The stages a request of a kind may have before it.
Paths(kind) ==
    CASE kind \in TargetKinds -> {<<"target">>, <<"caller", "target">>, <<"supers", "caller", "target">>,
                                  <<"hash", "supers", "caller", "target">>}
      [] kind = "create"    -> {<<"insert">>, <<"caller", "insert">>, <<"hash", "caller", "insert">>}
      [] kind = "settings"  -> {<<"switch">>, <<"caller", "switch">>}
      [] kind = "password"  -> {<<"own">>, <<"hash", "own">>, <<"hash", "hash", "own">>,
                                <<"read", "hash", "hash", "own">>}
      [] kind = "signin"    -> {<<"record">>, <<"hash", "record">>, <<"read", "hash", "record">>}
      [] kind = "signup"    -> {<<"insert">>, <<"turn", "insert">>, <<"hash", "turn", "insert">>}
      [] kind = "oidc"      -> {<<"upsert">>}
      [] kind = "bootstrap" -> {<<"table">>}
      [] kind = "none"      -> {<<>>}

AllPaths == UNION {Paths(k) : k \in Kinds}

Request == [path : AllPaths, kind : Kinds, by : 0 .. MaxIds, to : 0 .. MaxIds,
            val : BOOLEAN, name : AllNames, tried : 1 .. Attempts, new : Nat, seen : Nat,
            left : SUBSET Ids, count : Nat]

\* What a request keeps to whatever else happens.
Sound(q) ==
    /\ q \in Request /\ q.path \in Paths(q.kind)
    /\ q.kind \in TargetKinds \cup {"create", "settings", "password"} => q.by \in Ids
    /\ q.kind \in TargetKinds \cup {"signin", "password"} => q.to \in Ids

\* Past the stage that looks at the caller, and past the one that looks at the switch.
Trusted(q) == q.path = <<"target">> \/ q.path = <<"switch">> \/ (q.kind = "create" /\ q.path = <<"insert">>)
Admitted(q) == q.kind = "signup" /\ q.path = <<"insert">>

AccountsTyped ==
    /\ users \in [Ids -> Account] /\ nextId \in 0 .. MaxIds /\ open \in BOOLEAN
    /\ sessions \subseteq [user : Ids, issued : Nat, hash : Nat]
    /\ DOMAIN req = Reqs /\ (\A r \in Reqs : Sound(req[r]))
    /\ \A l \in locks : l.by \in Reqs /\ l.mode \in Modes /\ req[l.by].path # <<>>
    /\ now \in Nat /\ now > 0 /\ ops \in Nat

\* Ids are given in order, and no time lies ahead of the clock.
InTime ==
    /\ \A u \in Ids : users[u].exists => u <= nextId
    /\ \A u \in Ids : users[u].cut <= now
    /\ \A s \in sessions : s.user <= nextId /\ s.issued <= now

\* A row that a request has locked FOR SHARE, of an enabled superuser.
Guarded(r, by, held, table) == Lock(r, by, "share") \in held /\ by \in SuperusersOf(table)

RightsLocked ==
    \A r \in Reqs : Trusted(req[r]) => Guarded(r, req[r].by, locks, users)

SwitchLocked ==
    \A r \in Reqs : Admitted(req[r]) => Lock(r, Settings, "update") \in locks /\ open

\* A session is for the password its account has, or was given no later than the cut-off.
SessionFits(s, account) ==
    account.exists /\ account.local => s.hash = account.hash \/ (account.cut > 0 /\ s.issued <= account.cut)

SessionsFit == \A s \in sessions : SessionFits(s, users[s.user])

AccountsInv ==
    /\ AccountsTyped /\ InTime /\ RightsLocked /\ SwitchLocked /\ SessionsFit
    /\ WrittenWithRight /\ ClosedStaysClosed

(* Stages *)

LEMMA Stages ==
    /\ Head(<<"target">>) = "target"
    /\ Head(<<"caller", "target">>) = "caller" /\ Tail(<<"caller", "target">>) = <<"target">>
    /\ Head(<<"supers", "caller", "target">>) = "supers"
    /\ Tail(<<"supers", "caller", "target">>) = <<"caller", "target">>
    /\ Head(<<"hash", "supers", "caller", "target">>) = "hash"
    /\ Tail(<<"hash", "supers", "caller", "target">>) = <<"supers", "caller", "target">>
    /\ Head(<<"insert">>) = "insert"
    /\ Head(<<"caller", "insert">>) = "caller" /\ Tail(<<"caller", "insert">>) = <<"insert">>
    /\ Head(<<"hash", "caller", "insert">>) = "hash"
    /\ Tail(<<"hash", "caller", "insert">>) = <<"caller", "insert">>
    /\ Head(<<"switch">>) = "switch"
    /\ Head(<<"caller", "switch">>) = "caller" /\ Tail(<<"caller", "switch">>) = <<"switch">>
    /\ Head(<<"own">>) = "own"
    /\ Head(<<"hash", "own">>) = "hash" /\ Tail(<<"hash", "own">>) = <<"own">>
    /\ Head(<<"hash", "hash", "own">>) = "hash"
    /\ Tail(<<"hash", "hash", "own">>) = <<"hash", "own">>
    /\ Head(<<"read", "hash", "hash", "own">>) = "read"
    /\ Tail(<<"read", "hash", "hash", "own">>) = <<"hash", "hash", "own">>
    /\ Head(<<"record">>) = "record"
    /\ Head(<<"hash", "record">>) = "hash" /\ Tail(<<"hash", "record">>) = <<"record">>
    /\ Head(<<"read", "hash", "record">>) = "read"
    /\ Tail(<<"read", "hash", "record">>) = <<"hash", "record">>
    /\ Head(<<"turn", "insert">>) = "turn" /\ Tail(<<"turn", "insert">>) = <<"insert">>
    /\ Head(<<"hash", "turn", "insert">>) = "hash"
    /\ Tail(<<"hash", "turn", "insert">>) = <<"turn", "insert">>
  OBVIOUS

LEMMA PathsOf ==
    /\ \A k \in TargetKinds :
          Paths(k) = {<<"target">>, <<"caller", "target">>, <<"supers", "caller", "target">>,
                      <<"hash", "supers", "caller", "target">>}
    /\ Paths("create") = {<<"insert">>, <<"caller", "insert">>, <<"hash", "caller", "insert">>}
    /\ Paths("settings") = {<<"switch">>, <<"caller", "switch">>}
    /\ Paths("password") = {<<"own">>, <<"hash", "own">>, <<"hash", "hash", "own">>,
                            <<"read", "hash", "hash", "own">>}
    /\ Paths("signin") = {<<"record">>, <<"hash", "record">>, <<"read", "hash", "record">>}
    /\ Paths("signup") = {<<"insert">>, <<"turn", "insert">>, <<"hash", "turn", "insert">>}
    /\ Paths("oidc") = {<<"upsert">>} /\ Paths("bootstrap") = {<<"table">>} /\ Paths("none") = {<<>>}
  BY DEF Paths, TargetKinds

LEMMA LastStage ==
    ASSUME NEW q, Sound(q), q.path # <<>>
    PROVE  /\ Head(q.path) = "target" => q.kind \in TargetKinds /\ q.path = <<"target">>
           /\ Head(q.path) = "insert" => q.kind \in {"create", "signup"} /\ q.path = <<"insert">>
           /\ Head(q.path) = "switch" => q.kind = "settings" /\ q.path = <<"switch">>
           /\ Head(q.path) = "own" => q.kind = "password"
           /\ Head(q.path) = "record" => q.kind = "signin"
           /\ Head(q.path) = "upsert" => q.kind = "oidc"
           /\ Head(q.path) = "table" => q.kind = "bootstrap"
  <1>1. q.kind \in TargetKinds \/ q.kind \in {"create", "settings", "password", "signin", "signup",
                                             "oidc", "bootstrap"}
    BY PathsOf DEF Sound, Request, Kinds, TargetKinds
  <1>2. CASE q.kind \in TargetKinds
    BY <1>2, PathsOf DEF Sound
  <1>3. CASE q.kind \in {"create", "settings", "password"}
    BY <1>3, PathsOf DEF Sound
  <1>4. CASE q.kind \in {"signin", "signup", "oidc", "bootstrap"}
    BY <1>4, PathsOf DEF Sound
  <1> QED BY <1>1, <1>2, <1>3, <1>4

\* The stages that are not a request's last, by what comes first and what is left.
Onward(k, h, t) ==
    /\ h \in {"read", "hash", "supers", "caller", "turn"} => t \in Paths(k) /\ t # <<>>
    /\ h \in {"read", "hash", "supers"} => t # <<"target">> /\ t # <<"switch">> /\ t # <<"insert">>
    /\ h = "read" => k \in {"password", "signin"}
    /\ h = "turn" => k = "signup" /\ t = <<"insert">>
    /\ h = "supers" => k \in TargetKinds
    /\ h = "caller" => k \in TargetKinds \/ k = "create" \/ k = "settings"

LEMMA EarlierStage ==
    ASSUME NEW k \in Kinds, NEW p \in Paths(k), p # <<>>
    PROVE  Onward(k, Head(p), Tail(p))
  <1>1. k \in TargetKinds \/ k \in {"create", "settings", "password", "signin", "signup", "oidc", "bootstrap"}
    BY PathsOf DEF Kinds, TargetKinds
  <1>2. ASSUME NEW t
        PROVE  \A h \in {"target", "insert", "switch", "own", "record", "upsert", "table"} : Onward(k, h, t)
    BY DEF Onward
  <1>3. CASE k \in TargetKinds
    <2>1. /\ Onward(k, "caller", <<"target">>)
          /\ Onward(k, "supers", <<"caller", "target">>)
          /\ Onward(k, "hash", <<"supers", "caller", "target">>)
      BY <1>3, PathsOf DEF Onward, TargetKinds
    <2>2. \/ p = <<"target">> \/ p = <<"caller", "target">> \/ p = <<"supers", "caller", "target">>
          \/ p = <<"hash", "supers", "caller", "target">>
      BY <1>3, PathsOf
    <2> QED BY <1>2, <2>1, <2>2, Stages, Zenon
  <1>4. CASE k = "create"
    <2>1. /\ Onward(k, "caller", <<"insert">>)
          /\ Onward(k, "hash", <<"caller", "insert">>)
      BY <1>4, PathsOf DEF Onward, TargetKinds
    <2> QED BY <1>4, <1>2, <2>1, PathsOf, Stages, Zenon
  <1>5. CASE k = "settings"
    <2>1. /\ Onward(k, "caller", <<"switch">>)
      BY <1>5, PathsOf DEF Onward, TargetKinds
    <2> QED BY <1>5, <1>2, <2>1, PathsOf, Stages, Zenon
  <1>6. CASE k = "password"
    <2>1. /\ Onward(k, "hash", <<"own">>)
          /\ Onward(k, "hash", <<"hash", "own">>)
          /\ Onward(k, "read", <<"hash", "hash", "own">>)
      BY <1>6, PathsOf DEF Onward, TargetKinds
    <2> QED BY <1>6, <1>2, <2>1, PathsOf, Stages, Zenon
  <1>7. CASE k = "signin"
    <2>1. /\ Onward(k, "hash", <<"record">>)
          /\ Onward(k, "read", <<"hash", "record">>)
      BY <1>7, PathsOf DEF Onward, TargetKinds
    <2> QED BY <1>7, <1>2, <2>1, PathsOf, Stages, Zenon
  <1>8. CASE k = "signup"
    <2>1. /\ Onward(k, "turn", <<"insert">>)
          /\ Onward(k, "hash", <<"turn", "insert">>)
      BY <1>8, PathsOf DEF Onward, TargetKinds
    <2> QED BY <1>8, <1>2, <2>1, PathsOf, Stages, Zenon
  <1>9. CASE k \in {"oidc", "bootstrap"}
    <2>1. Head(p) \in {"upsert", "table"}
      BY <1>9, PathsOf
    <2> QED BY <1>2, <2>1
  <1> QED BY <1>1, <1>3, <1>4, <1>5, <1>6, <1>7, <1>8, <1>9

\* A request as it arrives, and a transaction that is run again.
LEMMA Programs ==
    ASSUME NEW k \in Kinds \ {"none"}
    PROVE  /\ Program(k) \in Paths(k) /\ Program(k) # <<>>
           /\ Program(k) \notin {<<"target">>, <<"switch">>, <<"insert">>}
           /\ TxProgram(k) \in Paths(k) /\ TxProgram(k) # <<>>
           /\ TxProgram(k) \notin {<<"target">>, <<"switch">>, <<"insert">>}
  <1>1. CASE k \in TargetKinds
    BY <1>1, PathsOf DEF Program, TxProgram, TargetKinds
  <1>2. CASE k \in {"create", "settings", "password", "signin", "signup", "oidc", "bootstrap"}
    BY <1>2, PathsOf DEF Program, TxProgram, store_login, create, TargetKinds
  <1> QED BY <1>1, <1>2 DEF Kinds, TargetKinds

LEMMA WantsOf ==
    ASSUME NEW r \in Reqs
    PROVE  /\ At(r, "caller") => Wants[r] = {<<req[r].by, "share">>}
           /\ At(r, "target") => Wants[r] = {<<req[r].to, "update">>}
           /\ At(r, "switch") \/ At(r, "turn") => Wants[r] = {<<Settings, "update">>}
           /\ At(r, "own") => Wants[r] = {<<req[r].by, "nokey">>}
           /\ At(r, "table") => Wants[r] = {<<u, "update">> : u \in Ids}
           /\ At(r, "supers") /\ req[r].left # {} =>
                  Wants[r] = {<<CHOOSE u \in req[r].left : \A v \in req[r].left : u <= v, "update">>}
           /\ req[r].path = <<>> => Wants[r] = {}
  BY DEF Wants, At

\* What is locked by another is waited for.
LEMMA Blocked ==
    ASSUME NEW r, NEW q, q # r, NEW row, NEW mode, NEW m, Lock(q, row, m) \in locks,
           <<mode, m>> \in Conflict
    PROVE  ~Free(r, {<<row, mode>>})
  <1> DEFINE l == Lock(q, row, m)
             p == <<row, mode>>
  <1>1. l.by = q /\ l.row = row /\ l.mode = m /\ p[1] = row /\ p[2] = mode
    BY DEF Lock
  <1>2. q \in Blockers(r, {p})
    BY <1>1 DEF Blockers
  <1> QED BY <1>2 DEF Free

LEMMA IdleSound == Sound(Idle) /\ Idle.path = <<>> /\ ~Trusted(Idle) /\ ~Admitted(Idle)
  <1>1. Idle.path = <<>> /\ Idle.kind = "none"
    BY DEF Idle
  <1>2. <<>> \in Paths("none") /\ "none" \in Kinds
    BY PathsOf DEF Kinds
  <1>3. <<>> \in AllPaths
    BY <1>2 DEF AllPaths
  <1>4. 0 \in 0 .. MaxIds /\ 1 \in 1 .. Attempts
    BY TransactionsAssumption, AccountsAssumption
  <1>5. Idle \in Request
    BY <1>2, <1>3, <1>4 DEF Idle, Request, AllNames
  <1>6. Sound(Idle)
    BY <1>1, <1>2, <1>5 DEF Sound, TargetKinds
  <1> QED BY <1>1, <1>6 DEF Trusted, Admitted

(* Steps that only the request itself sees: users, sessions, the switch and the clock stay. *)
LEMMA PrivateStep ==
    ASSUME AccountsInv, NEW r \in Reqs, NEW q, Sound(q), req' = [req EXCEPT ![r] = q],
           \A l \in locks' : l \in locks \/ (l.by = r /\ l.mode \in Modes),
           \A l \in locks : l.by # r => l \in locks',
           q.path = <<>> => \A l \in locks' : l.by # r,
           Trusted(q) => Guarded(r, q.by, locks', users),
           Admitted(q) => Lock(r, Settings, "update") \in locks' /\ open,
           ops' \in Nat, UNCHANGED <<users, nextId, open, sessions, now, audit>>
    PROVE  AccountsInv'
  <1> USE DEF AccountsInv
  <1>1. DOMAIN req' = Reqs /\ req'[r] = q /\ \A x \in Reqs : x # r => req'[x] = req[x]
    BY DEF AccountsTyped
  <1>2. \A x \in Reqs : Sound(req'[x])
    BY <1>1 DEF AccountsTyped
  <1>3. ASSUME NEW l \in locks' PROVE l.by \in Reqs /\ l.mode \in Modes /\ req'[l.by].path # <<>>
    <2>1. l.by \in Reqs /\ l.mode \in Modes
      BY DEF AccountsTyped
    <2>2. CASE l.by = r
      <3>1. q.path # <<>>
        BY <2>2, Zenon
      <3> QED BY <1>1, <2>1, <2>2, <3>1, Zenon
    <2>3. CASE l.by # r
      BY <1>1, <2>1, <2>3 DEF AccountsTyped
    <2> QED BY <2>1, <2>2, <2>3
  <1>4. AccountsTyped'
    BY <1>1, <1>2, <1>3 DEF AccountsTyped
  <1>5. RightsLocked'
    <2> SUFFICES ASSUME NEW x \in Reqs, Trusted(req'[x]) PROVE Guarded(x, req'[x].by, locks', users')
      BY DEF RightsLocked
    <2>1. CASE x = r
      BY <1>1, <2>1
    <2>2. CASE x # r
      <3>1. Guarded(x, req[x].by, locks, users) /\ req'[x] = req[x]
        BY <1>1, <2>2 DEF RightsLocked
      <3>2. Lock(x, req[x].by, "share").by = x
        BY DEF Lock
      <3> QED BY <2>2, <3>1, <3>2 DEF Guarded
    <2> QED BY <2>1, <2>2
  <1>6. SwitchLocked'
    <2> SUFFICES ASSUME NEW x \in Reqs, Admitted(req'[x])
                 PROVE  Lock(x, Settings, "update") \in locks' /\ open'
      BY DEF SwitchLocked
    <2>1. CASE x = r
      BY <1>1, <2>1
    <2>2. CASE x # r
      <3>1. Lock(x, Settings, "update") \in locks /\ open
        BY <1>1, <2>2 DEF SwitchLocked
      <3>2. Lock(x, Settings, "update").by = x
        BY DEF Lock
      <3> QED BY <2>2, <3>1, <3>2
    <2> QED BY <2>1, <2>2
  <1>7. InTime' /\ SessionsFit' /\ WrittenWithRight' /\ ClosedStaysClosed'
    BY DEF InTime, SessionsFit, WrittenWithRight, ClosedStaysClosed
  <1> QED BY <1>4, <1>5, <1>6, <1>7

\* The last step of a request, which writes and answers.
LEMMA WriteStep ==
    ASSUME AccountsInv, NEW r \in Reqs, Answer(r), UNCHANGED <<now, ops>>,
           users' \in [Ids -> Account], nextId' \in 0 .. MaxIds, open' \in BOOLEAN,
           sessions' \subseteq [user : Ids, issued : Nat, hash : Nat],
           InTime', SessionsFit', WrittenWithRight', ClosedStaysClosed',
           \A x \in Reqs \ {r} : \A by \in SuperusersOf(users) :
               Lock(x, by, "share") \in locks => by \in SuperusersOf(users'),
           \A x \in Reqs \ {r} : Lock(x, Settings, "update") \in locks => open' = open
    PROVE  AccountsInv'
  <1> USE DEF AccountsInv
  <1>0. Sound(Idle) /\ Idle.path = <<>>
    BY IdleSound
  <1>1. DOMAIN req' = Reqs /\ req'[r] = Idle /\ \A x \in Reqs : x # r => req'[x] = req[x]
    BY DEF AccountsTyped, Answer
  <1>2. \A x \in Reqs : Sound(req'[x])
    BY <1>0, <1>1 DEF AccountsTyped
  <1>3. \A l \in locks' : l \in locks /\ l.by # r
    BY DEF Answer, Released
  <1>4. AccountsTyped'
    BY <1>1, <1>2, <1>3 DEF AccountsTyped
  <1>5. ~Trusted(Idle) /\ ~Admitted(Idle)
    BY IdleSound
  <1>6. RightsLocked'
    <2> SUFFICES ASSUME NEW x \in Reqs, Trusted(req'[x]) PROVE Guarded(x, req'[x].by, locks', users')
      BY DEF RightsLocked
    <2>1. x # r /\ req'[x] = req[x]
      BY <1>1, <1>5
    <2>2. Guarded(x, req[x].by, locks, users)
      BY <2>1 DEF RightsLocked
    <2>3. Lock(x, req[x].by, "share").by = x
      BY DEF Lock
    <2> QED BY <2>1, <2>2, <2>3 DEF Guarded, Answer, Released
  <1>7. SwitchLocked'
    <2> SUFFICES ASSUME NEW x \in Reqs, Admitted(req'[x])
                 PROVE  Lock(x, Settings, "update") \in locks' /\ open'
      BY DEF SwitchLocked
    <2>1. x # r /\ req'[x] = req[x]
      BY <1>1, <1>5
    <2>2. Lock(x, Settings, "update") \in locks /\ open
      BY <2>1 DEF SwitchLocked
    <2>3. Lock(x, Settings, "update").by = x
      BY DEF Lock
    <2> QED BY <2>1, <2>2, <2>3 DEF Answer, Released
  <1> QED BY <1>4, <1>6, <1>7

(* One lemma for each kind of private step. *)

LEMMA InAllPaths == ASSUME NEW k \in Kinds, NEW p \in Paths(k) PROVE p \in AllPaths
  BY DEF AllPaths

LEMMA BeginStep ==
    ASSUME AccountsInv, NEW r \in Reqs, NEW kind \in Kinds \ {"none"}, NEW by \in 0 .. MaxIds,
           NEW to \in 0 .. MaxIds, NEW val \in BOOLEAN, NEW name \in AllNames,
           kind \in TargetKinds \cup {"create", "settings", "password"} => by \in Ids,
           kind \in TargetKinds \cup {"signin", "password"} => to \in Ids,
           Begin(r, kind, by, to, val, name)
    PROVE  AccountsInv'
  <1>1. ops + 2 \in Nat /\ ops' \in Nat
    BY DEF AccountsInv, AccountsTyped, Begin
  <1>2. Program(kind) \in AllPaths
    BY Programs, InAllPaths
  <1>3. PICK q : q = [Idle EXCEPT !.path = Program(kind), !.kind = kind, !.by = by,
                                  !.to = to, !.val = val, !.name = name, !.new = ops + 2]
    OBVIOUS
  <1>4. Idle \in Request
    BY IdleSound DEF Sound
  <1>5. q \in Request
    BY <1>1, <1>2, <1>3, <1>4 DEF Request
  <1>6. q.path = Program(kind) /\ q.kind = kind /\ q.by = by /\ q.to = to
    BY <1>3, <1>4 DEF Request
  <1>7. Sound(q)
    BY <1>5, <1>6, Programs DEF Sound
  <1>8. q.path # <<>> /\ ~Trusted(q) /\ ~Admitted(q)
    BY <1>6, Programs DEF Trusted, Admitted
  <1>9. req' = [req EXCEPT ![r] = q] /\ locks' = locks
        /\ UNCHANGED <<users, nextId, open, sessions, now, audit>>
    BY <1>3 DEF Begin
  <1> QED BY <1>1, <1>7, <1>8, <1>9, PrivateStep

LEMMA AskStep == ASSUME AccountsInv, NEW r \in Reqs, Ask(r) PROVE AccountsInv'
  <1>1. /\ \A s \in sessions : s.user \in Ids /\ s.user \in 0 .. MaxIds
        /\ \A u \in 1 .. nextId : u \in Ids /\ u \in 0 .. MaxIds
        /\ \A u \in Ids : u \in 0 .. MaxIds
        /\ 0 \in 0 .. MaxIds /\ "none" \in AllNames /\ Names \subseteq AllNames
    BY AccountsAssumption DEF AccountsInv, AccountsTyped, Ids, AllNames
  <1> USE DEF Kinds, TargetKinds
  <1>2. ASSUME create_account(r) PROVE AccountsInv'
    BY <1>1, <1>2, BeginStep DEF create_account
  <1>3. ASSUME NEW kind \in TargetKinds, ChangeAccount(r, kind) PROVE AccountsInv'
    BY <1>1, <1>3, BeginStep DEF ChangeAccount
  <1>4. ASSUME put_settings(r) PROVE AccountsInv'
    BY <1>1, <1>4, BeginStep DEF put_settings
  <1>5. ASSUME change_password(r) PROVE AccountsInv'
    BY <1>1, <1>5, BeginStep DEF change_password
  <1>6. ASSUME login_local(r) PROVE AccountsInv'
    BY <1>1, <1>6, BeginStep DEF login_local
  <1>7. ASSUME submit(r) \/ callback(r) \/ apply(r) PROVE AccountsInv'
    BY <1>1, <1>7, BeginStep DEF submit, callback, apply
  <1> QED BY <1>2, <1>3, <1>4, <1>5, <1>6, <1>7
          DEF Ask, reset_password, set_status, set_superuser, delete_account

\* A request that is refused, or gives up.
LEMMA RefuseStep ==
    ASSUME AccountsInv, NEW r \in Reqs, Answer(r),
           UNCHANGED <<users, nextId, open, sessions, now, ops, audit>>
    PROVE  AccountsInv'
  <1>1. \A l \in locks' : l \in locks /\ l.by # r
    BY DEF Answer, Released
  <1>2. \A l \in locks : l.by # r => l \in locks'
    BY DEF Answer, Released
  <1>3. req' = [req EXCEPT ![r] = Idle] /\ ops' \in Nat
    BY DEF Answer, AccountsInv, AccountsTyped
  <1> QED BY <1>1, <1>2, <1>3, IdleSound, PrivateStep

\* A stage that is passed, with what it has locked.
LEMMA AdvanceStep ==
    ASSUME AccountsInv, NEW r \in Reqs, NEW stage \in {"read", "hash", "supers", "caller", "turn"},
           At(r, stage), NEW f \in Request, Advance(r, f),
           f.path = req[r].path, f.kind = req[r].kind, f.by = req[r].by, f.to = req[r].to,
           NEW pairs, \A p \in pairs : p[2] \in Modes, locks' = Granted(r, pairs),
           stage = "caller" => <<f.by, "share">> \in pairs /\ f.by \in SuperusersOf(users),
           stage = "turn" => <<Settings, "update">> \in pairs /\ open,
           UNCHANGED <<users, nextId, open, sessions, now, ops, audit>>
    PROVE  AccountsInv'
  <1>1. Sound(req[r]) /\ f.path # <<>> /\ Head(f.path) = stage
    BY DEF AccountsInv, AccountsTyped, At
  <1>2. Onward(f.kind, stage, Tail(f.path))
    BY <1>1, EarlierStage DEF Sound, Request
  <1>3. PICK q : q = [f EXCEPT !.path = Tail(f.path)]
    OBVIOUS
  <1>4. PICK t : t = Tail(f.path)
    OBVIOUS
  <1>5. t \in Paths(f.kind) /\ t # <<>>
    BY <1>2, <1>4 DEF Onward
  <1>6. q \in Request /\ q.path = t /\ q.kind = f.kind /\ q.by = f.by /\ q.to = f.to
    <2>1. t \in AllPaths
      BY <1>1, <1>5, InAllPaths DEF Request
    <2> QED BY <1>3, <1>4, <2>1 DEF Request
  <1>7. Sound(q)
    BY <1>1, <1>5, <1>6 DEF Sound
  <1>8. \A l \in locks' : l \in locks \/ (l.by = r /\ l.mode \in Modes)
    BY DEF Granted, Lock
  <1>9. \A l \in locks : l \in locks'
    BY DEF Granted
  <1>10. Trusted(q) => stage = "caller"
    <2>1. CASE stage \in {"read", "hash", "supers"}
      BY <1>2, <1>4, <1>6, <2>1 DEF Onward, Trusted
    <2>2. CASE stage = "turn"
      <3>1. q.path = <<"insert">> /\ q.kind = "signup"
        BY <1>2, <1>4, <1>6, <2>2 DEF Onward
      <3> QED BY <3>1 DEF Trusted
    <2> QED BY <2>1, <2>2
  <1>11. Admitted(q) => stage = "turn"
    <2>1. CASE stage \in {"read", "hash", "supers"}
      BY <1>2, <1>4, <1>6, <2>1 DEF Onward, Admitted
    <2>2. CASE stage = "caller"
      BY <1>2, <1>6, <2>2 DEF Onward, Admitted, TargetKinds
    <2> QED BY <2>1, <2>2
  <1>12. \A row, mode : <<row, mode>> \in pairs => Lock(r, row, mode) \in locks'
    BY DEF Granted, Lock
  <1>13. Trusted(q) => Guarded(r, q.by, locks', users)
    BY <1>6, <1>10, <1>12 DEF Guarded
  <1>14. Admitted(q) => Lock(r, Settings, "update") \in locks' /\ open
    BY <1>11, <1>12
  <1>15. req' = [req EXCEPT ![r] = q] /\ q.path # <<>> /\ ops' \in Nat
    BY <1>3, <1>5, <1>6 DEF Advance, AccountsInv, AccountsTyped
  <1> QED BY <1>7, <1>8, <1>9, <1>13, <1>14, <1>15, PrivateStep

\* A stage that goes on, or a transaction that is run again: nothing is decided.
LEMMA StayStep ==
    ASSUME AccountsInv, NEW r \in Reqs, req[r].path # <<>>, NEW q \in Request, req' = [req EXCEPT ![r] = q],
           q.path \in Paths(q.kind), q.path \notin {<<>>, <<"target">>, <<"switch">>, <<"insert">>},
           q.kind = req[r].kind, q.by = req[r].by, q.to = req[r].to,
           \A l \in locks' : l \in locks \/ (l.by = r /\ l.mode \in Modes),
           \A l \in locks : l.by # r => l \in locks',
           UNCHANGED <<users, nextId, open, sessions, now, ops, audit>>
    PROVE  AccountsInv'
  <1>1. Sound(q)
    BY DEF AccountsInv, AccountsTyped, Sound
  <1>2. ~Trusted(q) /\ ~Admitted(q) /\ q.path # <<>>
    BY DEF Trusted, Admitted
  <1>3. ops' \in Nat
    BY DEF AccountsInv, AccountsTyped
  <1> QED BY <1>1, <1>2, <1>3, PrivateStep

LEMMA SupersPath == ASSUME NEW p, p # <<>>, NEW h \in {"hash", "supers"}, Head(p) = h
                    PROVE  p \notin {<<>>, <<"target">>, <<"switch">>, <<"insert">>}
  OBVIOUS

LEMMA UnlockedStep ==
    ASSUME AccountsInv, NEW r \in Reqs, Read(r) \/ Enter(r) \/ Hash(r)
    PROVE  AccountsInv'
  <1>1. Sound(req[r]) /\ req[r] \in Request /\ req[r].kind \in Kinds /\ req[r].path \in Paths(req[r].kind)
    BY DEF AccountsInv, AccountsTyped, Sound, Request
  <1>2. locks = Granted(r, {})
    BY DEF Granted
  <1>3. ASSUME Read(r) PROVE AccountsInv'
    <2>1. req[r].path # <<>> /\ Head(req[r].path) = "read"
      BY <1>3 DEF Read, At
    <2>2. req[r].to \in Ids
      BY <1>1, <2>1, EarlierStage DEF Onward, Sound
    <2>3. users[req[r].to].hash \in Nat /\ Enabled(req[r].to) \in BOOLEAN
      BY <2>2 DEF AccountsInv, AccountsTyped, Account, Enabled
    <2>4. PICK f : f = [req[r] EXCEPT !.seen = users[req[r].to].hash, !.val = Enabled(req[r].to)]
      OBVIOUS
    <2>5. f \in Request /\ f.path = req[r].path /\ f.kind = req[r].kind /\ f.by = req[r].by
          /\ f.to = req[r].to
      BY <1>1, <2>3, <2>4 DEF Request
    <2>6. Advance(r, f)
      BY <1>3, <2>4 DEF Read
    <2> QED BY <1>2, <1>3, <2>5, <2>6, AdvanceStep DEF Read
  <1>4. ASSUME Enter(r) PROVE AccountsInv'
    <2>1. CASE Answer(r)
      BY <1>4, <2>1, RefuseStep DEF Enter
    <2>2. CASE req' = [req EXCEPT ![r].count = 1] /\ UNCHANGED locks
      <3>1. PICK q : q = [req[r] EXCEPT !.count = 1]
        OBVIOUS
      <3>2. q \in Request /\ q.path = req[r].path /\ q.kind = req[r].kind /\ q.by = req[r].by
            /\ q.to = req[r].to
        BY <1>1, <3>1 DEF Request
      <3>3. req' = [req EXCEPT ![r] = q]
        BY <2>2, <3>1
      <3>4. q.path \notin {<<>>, <<"target">>, <<"switch">>, <<"insert">>}
        BY <1>4, <3>2, SupersPath DEF Enter, At
      <3> QED BY <1>1, <1>4, <2>2, <3>2, <3>3, <3>4, StayStep DEF Enter, At
    <2> QED BY <1>4, <2>1, <2>2 DEF Enter
  <1>5. ASSUME Hash(r) PROVE AccountsInv'
    <2>1. CASE Answer(r)
      BY <1>5, <2>1, RefuseStep DEF Hash
    <2>2. CASE Advance(r, [req[r] EXCEPT !.count = 0]) /\ UNCHANGED locks
      <3>1. PICK f : f = [req[r] EXCEPT !.count = 0]
        OBVIOUS
      <3>2. f \in Request /\ f.path = req[r].path /\ f.kind = req[r].kind /\ f.by = req[r].by
            /\ f.to = req[r].to
        BY <1>1, <3>1 DEF Request
      <3>3. Advance(r, f) /\ At(r, "hash")
        BY <1>5, <2>2, <3>1 DEF Hash, Hashing
      <3> QED BY <1>2, <1>5, <2>2, <3>2, <3>3, AdvanceStep DEF Hash
    <2> QED BY <1>5, <2>1, <2>2 DEF Hash
  <1> QED BY <1>3, <1>4, <1>5

LEMMA SupersStep == ASSUME AccountsInv, NEW r \in Reqs, Supers(r) PROVE AccountsInv'
  <1>1. Sound(req[r]) /\ req[r] \in Request /\ req[r].path \in Paths(req[r].kind) /\ req[r].count \in Nat
        /\ req[r].left \subseteq Ids
    BY DEF AccountsInv, AccountsTyped, Sound, Request
  <1>2. req[r].path # <<>> /\ req[r].path \notin {<<>>, <<"target">>, <<"switch">>, <<"insert">>}
    BY SupersPath DEF Supers, At
  <1>3. At(r, "supers") /\ UNCHANGED <<users, nextId, open, sessions, now, ops, audit>>
    BY DEF Supers
  <1>4. ASSUME req' = [req EXCEPT ![r].left = SuperusersOf(users)], UNCHANGED locks PROVE AccountsInv'
    <2>1. PICK q : q = [req[r] EXCEPT !.left = SuperusersOf(users)]
      OBVIOUS
    <2>2. SuperusersOf(users) \subseteq Ids
      BY DEF SuperusersOf
    <2>3. q \in Request /\ q.path = req[r].path /\ q.kind = req[r].kind /\ q.by = req[r].by
          /\ q.to = req[r].to
      BY <1>1, <2>1, <2>2 DEF Request
    <2>4. req' = [req EXCEPT ![r] = q]
      BY <1>4, <2>1
    <2> QED BY <1>1, <1>2, <1>3, <1>4, <2>3, <2>4, StayStep
  <1>5. ASSUME req[r].left # {}, NEW u, LookedAt(r, u), locks' = Granted(r, Wants[r]) PROVE AccountsInv'
    <2>0. PICK f : /\ f = [req[r] EXCEPT !.left = @ \ {u},
                                         !.count = IF u \in SuperusersOf(users) THEN @ + 1 ELSE @]
                   /\ f.left = {} => Advance(r, f)
                   /\ f.left # {} => req' = [req EXCEPT ![r] = f]
      BY <1>5 DEF LookedAt
    <2>1. f \in Request /\ f.path = req[r].path /\ f.kind = req[r].kind /\ f.by = req[r].by
          /\ f.to = req[r].to
      <3>1. PICK n : n = IF u \in SuperusersOf(users) THEN req[r].count + 1 ELSE req[r].count
        OBVIOUS
      <3>2. PICK rest : rest = req[r].left \ {u}
        OBVIOUS
      <3>3. n \in Nat /\ rest \in SUBSET Ids
        BY <1>1, <3>1, <3>2
      <3>4. f = [req[r] EXCEPT !.left = rest, !.count = n]
        BY <2>0, <3>1, <3>2
      <3> QED BY <1>1, <3>3, <3>4 DEF Request
    <2>2. \A x \in Wants[r] : x[2] \in Modes
      BY <1>3, <1>5, WantsOf DEF Modes
    <2>3. CASE f.left = {}
      BY <1>3, <1>5, <2>0, <2>1, <2>2, <2>3, AdvanceStep
    <2>4. CASE f.left # {}
      <3>1. \A l \in locks' : l \in locks \/ (l.by = r /\ l.mode \in Modes)
        BY <1>5, <2>2 DEF Granted, Lock
      <3>2. \A l \in locks : l \in locks'
        BY <1>5 DEF Granted
      <3> QED BY <1>1, <1>2, <1>3, <2>0, <2>1, <2>4, <3>1, <3>2, StayStep
    <2> QED BY <2>3, <2>4
  <1>6. ASSUME Advance(r, req[r]), UNCHANGED locks PROVE AccountsInv'
    <2>1. locks' = Granted(r, {})
      BY <1>6 DEF Granted
    <2> QED BY <1>1, <1>3, <1>6, <2>1, AdvanceStep
  <1> QED BY <1>4, <1>5, <1>6 DEF Supers

LEMMA CallerStep == ASSUME AccountsInv, NEW r \in Reqs, Caller(r) PROVE AccountsInv'
  <1>1. req[r] \in Request /\ At(r, "caller")
    BY DEF AccountsInv, AccountsTyped, Sound, Caller, Ready
  <1>2. Wants[r] = {<<req[r].by, "share">>}
    BY <1>1, WantsOf
  <1>3. CASE Refuse(r)
    BY <1>3, RefuseStep DEF Refuse
  <1>4. CASE /\ req[r].by \in SuperusersOf(users) /\ Advance(r, req[r]) /\ locks' = Granted(r, Wants[r])
             /\ UNCHANGED <<users, nextId, open, sessions, now, load, ops, audit>>
    <2>1. \A p \in Wants[r] : p[2] \in Modes
      BY <1>2 DEF Modes
    <2>2. <<req[r].by, "share">> \in Wants[r]
      BY <1>2
    <2> QED BY <1>1, <1>4, <2>1, <2>2, AdvanceStep
  <1> QED BY <1>3, <1>4 DEF Caller

LEMMA TurnStep == ASSUME AccountsInv, NEW r \in Reqs, Turn(r) PROVE AccountsInv'
  <1>1. req[r] \in Request /\ At(r, "turn")
    BY DEF AccountsInv, AccountsTyped, Sound, Turn, Ready
  <1>2. Wants[r] = {<<Settings, "update">>}
    BY <1>1, WantsOf
  <1>3. CASE Refuse(r)
    BY <1>3, RefuseStep DEF Refuse
  <1>4. CASE /\ open /\ Advance(r, req[r]) /\ locks' = Granted(r, Wants[r])
             /\ UNCHANGED <<users, nextId, open, sessions, now, load, ops, audit>>
    BY <1>1, <1>2, <1>4, AdvanceStep DEF Modes
  <1> QED BY <1>3, <1>4 DEF Turn

LEMMA RetryStep == ASSUME AccountsInv, NEW r \in Reqs, Retry(r) PROVE AccountsInv'
  <1>1. Sound(req[r]) /\ req[r] \in Request /\ req[r].kind \in Kinds /\ req[r].tried \in 1 .. Attempts
        /\ req[r].path \in Paths(req[r].kind)
    BY DEF AccountsInv, AccountsTyped, Sound, Request
  <1>2. req[r].path # <<>>
    <2>1. ~Free(r, Wants[r])
      BY DEF Retry, Deadlocked
    <2>2. Wants[r] # {}
      BY <2>1 DEF Free, Blockers
    <2> QED BY <2>2, WantsOf
  <1>3. req[r].kind # "none"
    BY <1>1, <1>2, PathsOf
  <1>4. CASE Answer(r)
    BY <1>4, RefuseStep DEF Retry
  <1>5. CASE /\ req[r].tried < Attempts
             /\ req' = [req EXCEPT ![r] = [req[r] EXCEPT !.path = TxProgram(req[r].kind), !.left = {},
                                                         !.count = 0, !.tried = @ + 1]]
             /\ locks' = Released(r)
    <2>1. PICK q : q = [req[r] EXCEPT !.path = TxProgram(req[r].kind), !.left = {},
                                      !.count = 0, !.tried = @ + 1]
      OBVIOUS
    <2>2. TxProgram(req[r].kind) \in AllPaths
      BY <1>1, <1>3, Programs, InAllPaths
    <2>3. req[r].tried + 1 \in 1 .. Attempts
      BY <1>1, <1>5, TransactionsAssumption
    <2>4. q \in Request
      BY <1>1, <2>1, <2>2, <2>3 DEF Request
    <2>5. q.path = TxProgram(req[r].kind) /\ q.kind = req[r].kind /\ q.by = req[r].by /\ q.to = req[r].to
      BY <1>1, <2>1 DEF Request
    <2>6. q.path \in Paths(q.kind) /\ q.path \notin {<<>>, <<"target">>, <<"switch">>, <<"insert">>}
      BY <1>1, <1>3, <2>5, Programs
    <2>7. (\A l \in locks' : l \in locks) /\ \A l \in locks : l.by # r => l \in locks'
      BY <1>5 DEF Released
    <2> QED BY <1>2, <1>5, <2>1, <2>4, <2>5, <2>6, <2>7, StayStep DEF Retry
  <1> QED BY <1>4, <1>5 DEF Retry

(* Writes: each keeps the rows typed, in time, and the sessions with their passwords. *)

LEMMA GoneTyped == Gone \in Account /\ ~Gone.exists /\ Gone.cut = 0 /\ Gone.local
  BY DEF Gone, Account, AllNames

LEMMA ChangedRow ==
    ASSUME NEW r \in Reqs, Sound(req[r]), req[r].kind \in TargetKinds, now \in Nat, now > 0,
           NEW t \in Account, t.exists, t.cut <= now, NEW row, row = Changed(r, t)
    PROVE  /\ row \in Account /\ row.cut <= now
           /\ \A s : s.issued <= now /\ SessionFits(s, t) => SessionFits(s, row)
           /\ req[r].kind \in {"reset", "enable", "promote"} /\ t.super /\ ~t.disabled =>
                  row.exists /\ row.super /\ ~row.disabled
  <1>0. req[r].new \in Nat
    BY DEF Sound, Request
  <1>1. \A s : s.issued <= now /\ SessionFits(s, t) =>
               /\ row.cut = now => SessionFits(s, row)
               /\ row.hash = t.hash /\ row.cut = t.cut /\ row.exists = t.exists /\ row.local = t.local =>
                     SessionFits(s, row)
    BY DEF SessionFits
  <1>2. CASE row = t
    BY <1>2
  <1>3. CASE req[r].kind = "reset"
    <2>1. row = [t EXCEPT !.hash = req[r].new, !.must = TRUE, !.cut = now]
      BY <1>3 DEF Changed, try_reset_password
    <2>2. row \in Account /\ row.cut = now /\ row.exists = t.exists /\ row.super = t.super
          /\ row.disabled = t.disabled
      BY <1>0, <2>1 DEF Account
    <2> QED BY <1>1, <2>2
  <1>4. CASE req[r].kind = "disable" /\ row # t
    <2>1. row = [t EXCEPT !.disabled = TRUE, !.cut = now]
      BY <1>4 DEF Changed, try_set_disabled
    <2>2. row \in Account /\ row.cut = now
      BY <2>1 DEF Account
    <2>3. now <= now
      OBVIOUS
    <2>4. \A s : s.issued <= now /\ SessionFits(s, t) => SessionFits(s, row)
      BY <1>1, <2>2, Zenon
    <2>5. req[r].kind \notin {"reset", "enable", "promote"}
      BY <1>4
    <2> QED BY <2>2, <2>3, <2>4, <2>5, Zenon
  <1>5. CASE req[r].kind = "enable" /\ row # t
    <2>1. row = [t EXCEPT !.disabled = FALSE, !.cut = now]
      BY <1>5 DEF Changed, try_set_disabled
    <2>2. row \in Account /\ row.cut = now /\ row.exists = t.exists /\ row.super = t.super /\ ~row.disabled
      BY <2>1 DEF Account
    <2> QED BY <1>1, <2>2
  <1>6. CASE req[r].kind = "promote" /\ row # t
    <2>1. row = [t EXCEPT !.super = TRUE, !.cut = t.cut]
      BY <1>6 DEF Changed, try_set_superuser
    <2>2. row \in Account /\ row.cut = t.cut /\ row.exists = t.exists /\ row.super
          /\ row.disabled = t.disabled /\ row.hash = t.hash /\ row.local = t.local
      BY <2>1 DEF Account
    <2> QED BY <1>1, <2>2
  <1>7. CASE req[r].kind = "demote" /\ row # t
    <2>1. row = [t EXCEPT !.super = FALSE, !.cut = now]
      BY <1>7 DEF Changed, try_set_superuser
    <2>2. row \in Account /\ row.cut = now
      BY <2>1 DEF Account
    <2>3. now <= now
      OBVIOUS
    <2>4. \A s : s.issued <= now /\ SessionFits(s, t) => SessionFits(s, row)
      BY <1>1, <2>2, Zenon
    <2>5. req[r].kind \notin {"reset", "enable", "promote"}
      BY <1>7
    <2> QED BY <2>2, <2>3, <2>4, <2>5, Zenon
  <1>8. CASE req[r].kind = "delete"
    <2>1. row = Gone
      BY <1>8 DEF Changed, try_delete_account
    <2> QED BY <1>8, <2>1, GoneTyped DEF SessionFits
  <1> QED BY <1>2, <1>3, <1>4, <1>5, <1>6, <1>7, <1>8 DEF TargetKinds

LEMMA RowWritten ==
    ASSUME AccountsInv, NEW u \in Ids, users[u].exists, NEW row \in Account, row.cut <= now,
           users' = [users EXCEPT ![u] = row], UNCHANGED <<nextId, now>>,
           NEW more, sessions' = sessions \cup more,
           \A s \in more : /\ s \in [user : Ids, issued : Nat, hash : Nat] /\ s.user = u
                           /\ s.issued = now /\ SessionFits(s, row),
           \A s \in sessions : s.user = u => SessionFits(s, row)
    PROVE  /\ users' \in [Ids -> Account] /\ sessions' \subseteq [user : Ids, issued : Nat, hash : Nat]
           /\ InTime' /\ SessionsFit'
  <1> USE DEF AccountsInv, AccountsTyped
  <1>1. users' \in [Ids -> Account] /\ users'[u] = row /\ \A v \in Ids : v # u => users'[v] = users[v]
    OBVIOUS
  <1>2. sessions' \subseteq [user : Ids, issued : Nat, hash : Nat]
    OBVIOUS
  <1>3. u <= nextId /\ nextId \in Nat
    BY DEF InTime
  <1>4. InTime'
    <2>1. \A v \in Ids : (users'[v].exists => v <= nextId) /\ users'[v].cut <= now
      BY <1>1, <1>3 DEF InTime
    <2>2. \A s \in sessions' : s.user <= nextId /\ s.issued <= now
      BY <1>3 DEF InTime
    <2> QED BY <2>1, <2>2 DEF InTime
  <1>5. ASSUME NEW s \in sessions' PROVE SessionFits(s, users'[s.user])
    <2>1. s.user \in Ids
      BY <1>2
    <2>2. CASE s.user = u
      BY <1>1, <2>2
    <2>3. CASE s.user # u
      BY <1>1, <2>1, <2>3 DEF SessionsFit
    <2> QED BY <2>2, <2>3
  <1> QED BY <1>1, <1>2, <1>4, <1>5 DEF SessionsFit

LEMMA RowInserted ==
    ASSUME AccountsInv, NEW r \in Reqs, NEW row \in Account, row.cut = 0, Inserted(r, row), UNCHANGED now,
           NEW hash \in Nat, row.local => hash = row.hash,
           sessions' = sessions \/ sessions' = sessions \cup {Session(nextId', hash)}
    PROVE  /\ users' \in [Ids -> Account] /\ sessions' \subseteq [user : Ids, issued : Nat, hash : Nat]
           /\ nextId' \in 0 .. MaxIds /\ InTime' /\ SessionsFit'
           /\ SuperusersOf(users) \subseteq SuperusersOf(users')
  <1> USE AccountsAssumption DEF AccountsInv, AccountsTyped
  <1>1. PICK n : n = nextId + 1
    OBVIOUS
  <1>2. n \in Ids /\ n \in 0 .. MaxIds /\ n > nextId /\ nextId \in Nat /\ nextId' = n
    BY <1>1 DEF Inserted, Ids
  <1>3. users' = [users EXCEPT ![n] = row]
    BY <1>1 DEF Inserted
  <1>4. users' \in [Ids -> Account] /\ users'[n] = row /\ \A v \in Ids : v # n => users'[v] = users[v]
    BY <1>2, <1>3
  <1>5. PICK t : t = [user |-> n, issued |-> now, hash |-> hash]
    OBVIOUS
  <1>6. t \in [user : Ids, issued : Nat, hash : Nat] /\ t.user = n /\ t.issued = now /\ t.hash = hash
    BY <1>2, <1>5
  <1>7. sessions' = sessions \/ sessions' = sessions \cup {t}
    BY <1>2, <1>5 DEF Session
  <1>8. sessions' \subseteq [user : Ids, issued : Nat, hash : Nat]
    BY <1>6, <1>7
  <1>9. InTime'
    <2>1. \A v \in Ids : (users'[v].exists => v <= n) /\ users'[v].cut <= now
      BY <1>2, <1>4 DEF InTime, Ids
    <2>2. \A s \in sessions' : s.user <= n /\ s.issued <= now
      BY <1>2, <1>6, <1>7 DEF InTime, Ids
    <2> QED BY <1>2, <2>1, <2>2 DEF InTime
  <1>10. ASSUME NEW s \in sessions' PROVE SessionFits(s, users'[s.user])
    <2>1. CASE s \in sessions
      <3>1. s.user \in Ids /\ s.user # n
        BY <1>2, <2>1 DEF InTime, Ids
      <3> QED BY <1>4, <2>1, <3>1 DEF SessionsFit
    <2>2. CASE s = t
      BY <1>4, <1>6, <2>2 DEF SessionFits
    <2> QED BY <1>7, <2>1, <2>2
  <1>11. SuperusersOf(users) \subseteq SuperusersOf(users')
    <2> SUFFICES ASSUME NEW u \in SuperusersOf(users) PROVE u \in SuperusersOf(users')
      OBVIOUS
    <2>1. u \in Ids /\ users[u].exists /\ u # n
      BY <1>2 DEF SuperusersOf, InTime, Ids
    <2> QED BY <1>4, <2>1 DEF SuperusersOf
  <1> QED BY <1>2, <1>4, <1>8, <1>9, <1>10, <1>11 DEF SessionsFit

LEMMA NewRowTyped ==
    ASSUME AccountsInv, NEW r \in Reqs
    PROVE  NewRow(r) \in Account /\ NewRow(r).cut = 0 /\ NewRow(r).hash = req[r].new /\ req[r].new \in Nat
  <1>1. req[r].name \in AllNames /\ req[r].new \in Nat /\ req[r].val \in BOOLEAN
    BY DEF AccountsInv, AccountsTyped, Sound, Request
  <1> QED BY <1>1 DEF NewRow, Gone, Account

LEMMA OidcRowTyped ==
    ASSUME AccountsInv, NEW r \in Reqs
    PROVE  OidcRow(r) \in Account /\ OidcRow(r).cut = 0 /\ ~OidcRow(r).local
  <1>1. PICK n : n = NewRow(r)
    OBVIOUS
  <1>2. n \in Account /\ n.cut = 0
    BY <1>1, NewRowTyped
  <1>3. OidcRow(r) = [n EXCEPT !.local = FALSE, !.hash = 0]
    BY <1>1 DEF OidcRow
  <1> QED BY <1>2, <1>3 DEF Account

\* What SuperuserRemains says of a step.
Manned == SuperusersOf(users) # {} => SuperusersOf(users') # {}

LEMMA AuditedRow ==
    ASSUME NEW r \in Reqs, NEW id, Audited(r, id)
    PROVE  /\ audit'.kind = req[r].kind /\ (audit'.right <=> req[r].by \in SuperusersOf(users))
           /\ audit'.open = open
  BY DEF Audited

LEMMA TargetStep == ASSUME AccountsInv, NEW r \in Reqs, Target(r) PROVE AccountsInv' /\ Manned
  <1>1. At(r, "target") /\ Free(r, Wants[r]) /\ Sound(req[r])
    BY DEF Target, Ready, AccountsInv, AccountsTyped
  <1>2. req[r].kind \in TargetKinds /\ req[r].path = <<"target">> /\ req[r].to \in Ids
    BY <1>1, LastStage DEF At, Sound
  <1>3. req[r].by \in SuperusersOf(users) /\ req[r].by \in Ids
    BY <1>2 DEF AccountsInv, RightsLocked, Trusted, Guarded, SuperusersOf
  <1>4. Free(r, {<<req[r].to, "update">>})
    BY <1>1, WantsOf
  <1>5. ASSUME Refuse(r) PROVE AccountsInv' /\ Manned
    BY <1>5, RefuseStep DEF Refuse, Manned
  <1>6. ASSUME NEW t, t = users[req[r].to], t.exists, guard(r, t), NEW row, row = Changed(r, t),
               users' = [users EXCEPT ![req[r].to] = row],
               Audited(r, req[r].to), Answer(r), UNCHANGED <<nextId, open, sessions, now, load, ops>>
        PROVE  AccountsInv' /\ Manned
    <2>1. t \in Account /\ t.cut <= now /\ now \in Nat /\ now > 0 /\ users \in [Ids -> Account]
      BY <1>2, <1>6 DEF AccountsInv, AccountsTyped, InTime
    <2>2. /\ row \in Account /\ row.cut <= now
          /\ \A s : s.issued <= now /\ SessionFits(s, t) => SessionFits(s, row)
          /\ req[r].kind \in {"reset", "enable", "promote"} /\ t.super /\ ~t.disabled =>
                 row.exists /\ row.super /\ ~row.disabled
      BY <1>1, <1>2, <1>6, <2>1, ChangedRow
    <2>3. \A s \in sessions : s.user = req[r].to => SessionFits(s, row)
      BY <1>6, <2>2 DEF AccountsInv, InTime, SessionsFit
    <2>4. /\ users' \in [Ids -> Account] /\ sessions' \subseteq [user : Ids, issued : Nat, hash : Nat]
          /\ InTime' /\ SessionsFit'
      <3>1. PICK more : (\A s : s \notin more) /\ sessions' = sessions \cup more
        <4>1. (\A s : s \notin {}) /\ sessions' = sessions \cup {}
          BY <1>6
        <4> QED BY <4>1
      <3>2. UNCHANGED <<nextId, now>>
        BY <1>6
      <3>3. users[req[r].to].exists
        BY <1>6
      <3> QED BY <1>2, <1>6, <2>2, <2>3, <3>1, <3>2, <3>3, RowWritten
    <2>5. WrittenWithRight' /\ ClosedStaysClosed'
      BY <1>2, <1>3, <1>6, AuditedRow DEF WrittenWithRight, ClosedStaysClosed, TargetKinds
    <2>6. ASSUME NEW x \in Reqs \ {r}, NEW by \in SuperusersOf(users), Lock(x, by, "share") \in locks
          PROVE  by \in SuperusersOf(users')
      <3>1. by # req[r].to
        BY <1>4, <2>6, Blocked DEF Conflict
      <3> QED BY <1>6, <2>1, <3>1 DEF SuperusersOf
    <2>7. req[r].by \in SuperusersOf(users')
      <3>1. CASE req[r].by # req[r].to
        BY <1>3, <1>6, <2>1, <3>1 DEF SuperusersOf
      <3>2. CASE req[r].by = req[r].to
        <4>1. req[r].kind \in {"reset", "enable", "promote"}
          BY <1>2, <1>6, <3>2 DEF guard, TargetKinds
        <4>2. t.super /\ ~t.disabled
          BY <1>3, <1>6, <3>2 DEF SuperusersOf
        <4>3. row.exists /\ row.super /\ ~row.disabled
          BY <2>2, <4>1, <4>2
        <4> QED BY <1>2, <1>6, <2>1, <3>2, <4>3 DEF SuperusersOf
      <3> QED BY <3>1, <3>2
    <2>8. AccountsInv'
      <3>1. nextId' \in 0 .. MaxIds /\ open' \in BOOLEAN /\ open' = open /\ UNCHANGED <<now, ops>>
        BY <1>6 DEF AccountsInv, AccountsTyped
      <3> QED BY <1>6, <2>4, <2>5, <2>6, <3>1, WriteStep
    <2> QED BY <2>7, <2>8 DEF Manned
  <1> QED BY <1>5, <1>6 DEF Target

LEMMA InsertStep == ASSUME AccountsInv, NEW r \in Reqs, Insert(r) PROVE AccountsInv' /\ Manned
  <1>1. Sound(req[r]) /\ req[r].kind \in {"create", "signup"} /\ req[r].path = <<"insert">>
    BY LastStage DEF Insert, At, AccountsInv, AccountsTyped
  <1>2. ASSUME Refuse(r) PROVE AccountsInv' /\ Manned
    BY <1>2, RefuseStep DEF Refuse, Manned
  <1>3. ASSUME Inserted(r, NewRow(r)),
               sessions' = IF req[r].kind = "signup" THEN sessions \cup {Session(nextId', req[r].new)}
                                                     ELSE sessions,
               Audited(r, nextId'), Answer(r), UNCHANGED <<open, now, load, ops>>
        PROVE  AccountsInv' /\ Manned
    <2>1. NewRow(r) \in Account /\ NewRow(r).cut = 0 /\ NewRow(r).hash = req[r].new /\ req[r].new \in Nat
      BY NewRowTyped
    <2>2. sessions' = sessions \/ sessions' = sessions \cup {Session(nextId', req[r].new)}
      BY <1>3
    <2>3. /\ users' \in [Ids -> Account] /\ sessions' \subseteq [user : Ids, issued : Nat, hash : Nat]
          /\ nextId' \in 0 .. MaxIds /\ InTime' /\ SessionsFit'
          /\ SuperusersOf(users) \subseteq SuperusersOf(users')
      BY <1>3, <2>1, <2>2, RowInserted
    <2>4. req[r].kind = "create" => req[r].by \in SuperusersOf(users)
      BY <1>1 DEF AccountsInv, RightsLocked, Trusted, Guarded
    <2>5. req[r].kind = "signup" => open
      BY <1>1 DEF AccountsInv, SwitchLocked, Admitted
    <2>6. WrittenWithRight' /\ ClosedStaysClosed'
      BY <1>1, <1>3, <2>4, <2>5, AuditedRow DEF WrittenWithRight, ClosedStaysClosed
    <2>7. open' \in BOOLEAN /\ open' = open /\ UNCHANGED <<now, ops>>
      BY <1>3 DEF AccountsInv, AccountsTyped
    <2> QED BY <1>3, <2>3, <2>6, <2>7, WriteStep DEF Manned
  <1> QED BY <1>2, <1>3 DEF Insert

LEMMA SwitchStep == ASSUME AccountsInv, NEW r \in Reqs, Switch(r) PROVE AccountsInv' /\ Manned
  <1>1. At(r, "switch") /\ Free(r, Wants[r]) /\ Sound(req[r])
    BY DEF Switch, Ready, AccountsInv, AccountsTyped
  <1>2. req[r].kind = "settings" /\ req[r].path = <<"switch">> /\ req[r].val \in BOOLEAN
    BY <1>1, LastStage DEF At, Sound, Request
  <1>3. req[r].by \in SuperusersOf(users)
    BY <1>2 DEF AccountsInv, RightsLocked, Trusted, Guarded
  <1>4. Free(r, {<<Settings, "update">>})
    BY <1>1, WantsOf
  <1>5. ASSUME Refuse(r) PROVE AccountsInv' /\ Manned
    BY <1>5, RefuseStep DEF Refuse, Manned
  <1>6. ASSUME open' = req[r].val, Audited(r, 0), Answer(r),
               UNCHANGED <<users, nextId, sessions, now, load, ops>>
        PROVE  AccountsInv' /\ Manned
    <2>1. WrittenWithRight' /\ ClosedStaysClosed'
      BY <1>2, <1>3, <1>6, AuditedRow DEF WrittenWithRight, ClosedStaysClosed
    <2>2. \A x \in Reqs \ {r} : Lock(x, Settings, "update") \notin locks
      BY <1>4, Blocked DEF Conflict
    <2>3. InTime' /\ SessionsFit' /\ users' \in [Ids -> Account] /\ nextId' \in 0 .. MaxIds
          /\ sessions' \subseteq [user : Ids, issued : Nat, hash : Nat] /\ open' \in BOOLEAN
      BY <1>2, <1>6 DEF AccountsInv, AccountsTyped, InTime, SessionsFit
    <2>4. UNCHANGED <<now, ops>> /\ users' = users
      BY <1>6
    <2> QED BY <1>6, <2>1, <2>2, <2>3, <2>4, WriteStep DEF Manned
  <1> QED BY <1>5, <1>6 DEF Switch

LEMMA OwnStep == ASSUME AccountsInv, NEW r \in Reqs, Own(r) PROVE AccountsInv' /\ Manned
  <1>1. At(r, "own") /\ Sound(req[r])
    BY DEF Own, Ready, AccountsInv, AccountsTyped
  <1>2. req[r].kind = "password" /\ req[r].by \in Ids /\ req[r].new \in Nat
    BY <1>1, LastStage DEF At, Sound, Request
  <1>3. ASSUME Refuse(r) PROVE AccountsInv' /\ Manned
    BY <1>3, RefuseStep DEF Refuse, Manned
  <1>4. ASSUME users[req[r].by].exists, Chosen(r),
               sessions' = sessions \cup {Session(req[r].by, req[r].new)},
               Audited(r, req[r].by), Answer(r), UNCHANGED <<nextId, open, now, load, ops>>
        PROVE  AccountsInv' /\ Manned
    <2>0. PICK u : u = req[r].by
      OBVIOUS
    <2>1. users \in [Ids -> Account] /\ users[u] \in Account /\ now \in Nat /\ now > 0 /\ u \in Ids
      BY <1>2, <2>0 DEF AccountsInv, AccountsTyped
    <2>2. PICK row : row = [users[u] EXCEPT !.hash = req[r].new, !.must = FALSE, !.cut = now]
      OBVIOUS
    <2>3. row \in Account /\ row.cut = now /\ row.hash = req[r].new /\ row.exists = users[u].exists
          /\ row.super = users[u].super /\ row.disabled = users[u].disabled
      BY <1>2, <2>1, <2>2 DEF Account
    <2>4. users' = [users EXCEPT ![u] = row]
      BY <1>4, <2>0, <2>1, <2>2 DEF Chosen
    <2>5. PICK s : s = [user |-> u, issued |-> now, hash |-> req[r].new]
      OBVIOUS
    <2>6. /\ s \in [user : Ids, issued : Nat, hash : Nat] /\ s.user = u /\ s.issued = now
          /\ SessionFits(s, row) /\ sessions' = sessions \cup {s}
      BY <1>2, <1>4, <2>0, <2>1, <2>3, <2>5 DEF SessionFits, Session
    <2>7. \A x \in sessions : SessionFits(x, row)
      BY <2>1, <2>3 DEF AccountsInv, InTime, SessionFits
    <2>8. /\ users' \in [Ids -> Account] /\ sessions' \subseteq [user : Ids, issued : Nat, hash : Nat]
          /\ InTime' /\ SessionsFit'
      <3>1. \A x \in {s} : /\ x \in [user : Ids, issued : Nat, hash : Nat] /\ x.user = u
                           /\ x.issued = now /\ SessionFits(x, row)
        BY <2>6
      <3>2. row.cut <= now /\ UNCHANGED <<nextId, now>>
        BY <1>4, <2>1, <2>3
      <3>3. PICK more : more = {s}
        OBVIOUS
      <3> QED BY <1>4, <2>0, <2>1, <2>3, <2>4, <2>6, <2>7, <3>1, <3>2, <3>3, RowWritten
    <2>9. WrittenWithRight' /\ ClosedStaysClosed'
      BY <1>2, <1>4, AuditedRow DEF WrittenWithRight, ClosedStaysClosed
    <2>10. SuperusersOf(users) \subseteq SuperusersOf(users')
      BY <2>1, <2>3, <2>4 DEF SuperusersOf
    <2>11. nextId' \in 0 .. MaxIds /\ open' \in BOOLEAN /\ open' = open /\ UNCHANGED <<now, ops>>
      BY <1>4 DEF AccountsInv, AccountsTyped
    <2> QED BY <1>4, <2>8, <2>9, <2>10, <2>11, WriteStep DEF Manned
  <1> QED BY <1>3, <1>4 DEF Own

\* A session for an account that is there, with the password it has.
LEMMA SessionGiven ==
    ASSUME AccountsInv, NEW r \in Reqs, Answer(r), NEW u \in Ids, users[u].exists, NEW hash \in Nat,
           users[u].local => hash = users[u].hash, sessions' = sessions \cup {Session(u, hash)},
           UNCHANGED <<users, nextId, open, now, ops, audit>>
    PROVE  AccountsInv' /\ Manned
  <1>1. users \in [Ids -> Account] /\ users[u] \in Account /\ now \in Nat
    BY DEF AccountsInv, AccountsTyped
  <1>2. PICK s : s = [user |-> u, issued |-> now, hash |-> hash]
    OBVIOUS
  <1>3. /\ s \in [user : Ids, issued : Nat, hash : Nat] /\ s.user = u /\ s.issued = now
        /\ SessionFits(s, users[u]) /\ sessions' = sessions \cup {s}
    BY <1>1, <1>2 DEF SessionFits, Session
  <1>4. sessions' \subseteq [user : Ids, issued : Nat, hash : Nat]
    BY <1>3 DEF AccountsInv, AccountsTyped
  <1>5. InTime'
    <2>1. u <= nextId
      BY DEF AccountsInv, InTime
    <2>2. \A x \in sessions' : x.user <= nextId /\ x.issued <= now
      BY <1>1, <1>3, <2>1 DEF AccountsInv, InTime
    <2> QED BY <2>2 DEF AccountsInv, InTime
  <1>6. SessionsFit'
    BY <1>3 DEF AccountsInv, SessionsFit
  <1>7. WrittenWithRight' /\ ClosedStaysClosed'
    BY DEF AccountsInv, WrittenWithRight, ClosedStaysClosed
  <1>8. users' \in [Ids -> Account] /\ nextId' \in 0 .. MaxIds /\ open' \in BOOLEAN
    BY DEF AccountsInv, AccountsTyped
  <1> QED BY <1>4, <1>5, <1>6, <1>7, <1>8, WriteStep DEF Manned

LEMMA RecordStep == ASSUME AccountsInv, NEW r \in Reqs, Record(r) PROVE AccountsInv' /\ Manned
  <1>1. At(r, "record") /\ Sound(req[r])
    BY DEF Record, Ready, AccountsInv, AccountsTyped
  <1>2. req[r].to \in Ids /\ req[r].seen \in Nat
    BY <1>1, LastStage DEF At, Sound, Request
  <1>3. ASSUME Refuse(r) PROVE AccountsInv' /\ Manned
    BY <1>3, RefuseStep DEF Refuse, Manned
  <1>4. ASSUME users[req[r].to].exists, users[req[r].to].hash = req[r].seen,
               sessions' = sessions \cup {Session(req[r].to, req[r].seen)}, Answer(r),
               UNCHANGED <<users, nextId, open, now, load, ops, audit>>
        PROVE  AccountsInv' /\ Manned
    BY <1>2, <1>4, SessionGiven
  <1> QED BY <1>3, <1>4 DEF Record

LEMMA UpsertStep == ASSUME AccountsInv, NEW r \in Reqs, Upsert(r) PROVE AccountsInv' /\ Manned
  <1>1. ASSUME Refuse(r) PROVE AccountsInv' /\ Manned
    BY <1>1, RefuseStep DEF Refuse, Manned
  <1>2. ASSUME NEW u \in OidcAccount(req[r].name), sessions' = sessions \cup {Session(u, 0)}, Answer(r),
               UNCHANGED <<users, nextId, open, now, load, ops, audit>>
        PROVE  AccountsInv' /\ Manned
    BY <1>2, SessionGiven DEF OidcAccount
  <1>3. ASSUME NEW row, row = OidcRow(r), Inserted(r, row),
               sessions' = sessions \cup {Session(nextId', 0)}, Answer(r),
               UNCHANGED <<open, now, load, ops, audit>>
        PROVE  AccountsInv' /\ Manned
    <2>1. row \in Account /\ row.cut = 0 /\ ~row.local
      BY <1>3, OidcRowTyped
    <2>2. /\ users' \in [Ids -> Account] /\ sessions' \subseteq [user : Ids, issued : Nat, hash : Nat]
          /\ nextId' \in 0 .. MaxIds /\ InTime' /\ SessionsFit'
          /\ SuperusersOf(users) \subseteq SuperusersOf(users')
      BY <1>3, <2>1, RowInserted
    <2>3. WrittenWithRight' /\ ClosedStaysClosed'
      BY <1>3 DEF AccountsInv, WrittenWithRight, ClosedStaysClosed
    <2>4. open' \in BOOLEAN /\ open' = open /\ UNCHANGED <<now, ops>>
      BY <1>3 DEF AccountsInv, AccountsTyped
    <2> QED BY <1>3, <2>2, <2>3, <2>4, WriteStep DEF Manned
  <1> QED BY <1>1, <1>2, <1>3 DEF Upsert

LEMMA BootstrapStep == ASSUME AccountsInv, NEW r \in Reqs, Bootstrap(r) PROVE AccountsInv' /\ Manned
  <1>1. ASSUME Refuse(r) PROVE AccountsInv' /\ Manned
    BY <1>1, RefuseStep DEF Refuse, Manned
  <1>2. ASSUME Inserted(r, NewRow(r)), Answer(r), UNCHANGED <<open, sessions, now, load, ops, audit>>
        PROVE  AccountsInv' /\ Manned
    <2>1. NewRow(r) \in Account /\ NewRow(r).cut = 0 /\ NewRow(r).hash = req[r].new /\ req[r].new \in Nat
      BY NewRowTyped
    <2>2. /\ users' \in [Ids -> Account] /\ sessions' \subseteq [user : Ids, issued : Nat, hash : Nat]
          /\ nextId' \in 0 .. MaxIds /\ InTime' /\ SessionsFit'
          /\ SuperusersOf(users) \subseteq SuperusersOf(users')
      BY <1>2, <2>1, RowInserted
    <2>3. WrittenWithRight' /\ ClosedStaysClosed'
      BY <1>2 DEF AccountsInv, WrittenWithRight, ClosedStaysClosed
    <2>4. open' \in BOOLEAN /\ open' = open /\ UNCHANGED <<now, ops>>
      BY <1>2 DEF AccountsInv, AccountsTyped
    <2> QED BY <1>2, <2>2, <2>3, <2>4, WriteStep DEF Manned
  <1> QED BY <1>1, <1>2 DEF Bootstrap

LEMMA TickStep == ASSUME AccountsInv, Tick PROVE AccountsInv' /\ Manned
  <1>1. AccountsTyped'
    BY DEF AccountsInv, AccountsTyped, Tick
  <1>2. InTime'
    <2>1. now' = now + 1 /\ now \in Nat /\ UNCHANGED <<users, nextId, sessions>>
      BY DEF Tick, AccountsInv, AccountsTyped
    <2>2. \A u \in Ids : users[u].cut \in Nat
      BY DEF AccountsInv, AccountsTyped, Account
    <2>3. \A s \in sessions : s.issued \in Nat
      BY DEF AccountsInv, AccountsTyped
    <2> QED BY <2>1, <2>2, <2>3 DEF AccountsInv, InTime
  <1>3. RightsLocked' /\ SwitchLocked' /\ SessionsFit' /\ WrittenWithRight' /\ ClosedStaysClosed'
    BY DEF AccountsInv, RightsLocked, SwitchLocked, SessionsFit, WrittenWithRight, ClosedStaysClosed, Tick
  <1> QED BY <1>1, <1>2, <1>3 DEF AccountsInv, Manned, Tick

LEMMA AccountsNext == ASSUME AccountsInv, [Next]_vars PROVE AccountsInv' /\ Manned
  <1>1. CASE UNCHANGED vars
    <2>1. AccountsTyped' /\ InTime' /\ RightsLocked'
      BY <1>1 DEF vars, AccountsInv, AccountsTyped, InTime, RightsLocked
    <2>2. SwitchLocked' /\ SessionsFit' /\ WrittenWithRight' /\ ClosedStaysClosed' /\ Manned
      BY <1>1 DEF vars, AccountsInv, SwitchLocked, SessionsFit, WrittenWithRight, ClosedStaysClosed, Manned
    <2> QED BY <2>1, <2>2 DEF AccountsInv
  <1>2. CASE Tick
    BY <1>2, TickStep
  <1>3. ASSUME NEW r \in Reqs, Ask(r) PROVE AccountsInv' /\ Manned
    <2>1. \A kind, by, to, val, name : Begin(r, kind, by, to, val, name) => users' = users
      BY DEF Begin
    <2>2. users' = users
      BY <1>3, <2>1 DEF Ask, create_account, reset_password, set_status, set_superuser, delete_account,
                        ChangeAccount, put_settings, change_password, login_local, submit, callback, apply
    <2> QED BY <1>3, <2>2, AskStep DEF Manned
  <1>4. ASSUME NEW r \in Reqs, Stage(r) PROVE AccountsInv' /\ Manned
    <2>1. CASE Read(r) \/ Enter(r) \/ Hash(r)
      <3>1. users' = users
        BY <2>1 DEF Read, Enter, Hash
      <3> QED BY <2>1, <3>1, UnlockedStep DEF Manned
    <2>2. CASE Supers(r) \/ Caller(r) \/ Turn(r)
      <3>1. users' = users
        BY <2>2 DEF Supers, Caller, Turn, Refuse
      <3> QED BY <2>2, <3>1, SupersStep, CallerStep, TurnStep DEF Manned
    <2>3. CASE Target(r) \/ Insert(r) \/ Switch(r) \/ Own(r) \/ Record(r) \/ Upsert(r) \/ Bootstrap(r)
      BY <2>3, TargetStep, InsertStep, SwitchStep, OwnStep, RecordStep, UpsertStep, BootstrapStep
    <2> QED BY <1>4, <2>1, <2>2, <2>3 DEF Stage
  <1>5. ASSUME NEW r \in Reqs, Retry(r) PROVE AccountsInv' /\ Manned
    <2>1. users' = users
      BY <1>5 DEF Retry
    <2> QED BY <1>5, <2>1, RetryStep DEF Manned
  <1>6. ASSUME NEW r \in Reqs, GiveUp(r) PROVE AccountsInv' /\ Manned
    BY <1>6, RefuseStep DEF GiveUp, Refuse, Manned
  <1> QED BY <1>1, <1>2, <1>3, <1>4, <1>5, <1>6 DEF Next

LEMMA AccountsBegin == ASSUME Init PROVE AccountsInv
  <1> USE AccountsAssumption DEF Init
  <1>1. load \in Loads /\ users \in [Ids -> Account] /\ now \in Nat /\ now > 0
    OBVIOUS
  <1>2. PICK n \in 0 .. MaxIds : \A u \in Ids : users[u].exists <=> u <= n
    BY <1>1
  <1>3. nextId = n
    <2>1. {u \in Ids : users[u].exists} = 1 .. n
      BY <1>2 DEF Ids
    <2>2. Cardinality(1 .. n) = n
      BY FS_Interval
    <2> QED BY <2>1, <2>2
  <1>4. ASSUME NEW s \in sessions
        PROVE  /\ s \in [user : Ids, issued : Nat, hash : Nat] /\ s.issued = 0
               /\ users[s.user].exists /\ s.hash = users[s.user].hash
    <2>1. PICK u \in Ids : users[u].exists /\ s = [user |-> u, issued |-> 0, hash |-> users[u].hash]
      OBVIOUS
    <2>2. users[u].hash \in Nat
      BY <1>1 DEF Account
    <2> QED BY <2>1, <2>2
  <1>5. \A r \in Reqs : req[r] = Idle
    OBVIOUS
  <1>6. AccountsTyped
    BY <1>1, <1>3, <1>4, <1>5, IdleSound DEF AccountsTyped
  <1>7. InTime
    <2>1. \A u \in Ids : (users[u].exists => u <= nextId) /\ users[u].cut <= now
      BY <1>2, <1>3
    <2>2. \A s \in sessions : s.user <= nextId /\ s.issued <= now
      BY <1>4, <2>1
    <2> QED BY <2>1, <2>2 DEF InTime
  <1>8. RightsLocked /\ SwitchLocked
    BY <1>5, IdleSound DEF RightsLocked, SwitchLocked
  <1>9. SessionsFit
    BY <1>4 DEF SessionsFit, SessionFits
  <1>10. WrittenWithRight /\ ClosedStaysClosed
    BY DEF WrittenWithRight, ClosedStaysClosed
  <1> QED BY <1>6, <1>7, <1>8, <1>9, <1>10 DEF AccountsInv

LEMMA AccountsInvHolds == Spec => []AccountsInv
  <1>1. Init => AccountsInv
    BY AccountsBegin
  <1>2. AccountsInv /\ [Next]_vars => AccountsInv'
    BY AccountsNext
  <1> QED BY <1>1, <1>2, PTL DEF Spec

\* The state is well formed: a lock is of a request in progress, a session of an account that was
\* made and not from the future, and no transaction is tried more often than ATTEMPTS.
THEOREM AccountsTypeOK == Spec => []TypeOK
  <1>1. AccountsInv => TypeOK
    BY DEF AccountsInv, AccountsTyped, InTime, TypeOK, Sound, Request, Ids
  <1> QED BY <1>1, AccountsInvHolds, PTL

\* caller_rights FOR SHARE: whatever else commits between a request's checks and its own commit, its
\* caller is an enabled superuser then.
THEOREM RightAtCommit == Spec => []WrittenWithRight
  <1>1. AccountsInv => WrittenWithRight
    BY DEF AccountsInv
  <1> QED BY <1>1, AccountsInvHolds, PTL

\* try_sign_up reads the switch FOR UPDATE: no account is signed up once it is off.
THEOREM SignUpWhileOpen == Spec => []ClosedStaysClosed
  <1>1. AccountsInv => ClosedStaysClosed
    BY DEF AccountsInv
  <1> QED BY <1>1, AccountsInvHolds, PTL

\* record_sign_in and session_current: a session that is accepted was given for the password the
\* account has now, or in the millisecond of its cut-off.
THEOREM SessionsCurrent == Spec => []SessionOfCurrentPassword
  <1>1. AccountsInv => SessionOfCurrentPassword
    <2> SUFFICES ASSUME AccountsInv, NEW s \in sessions, Stands(s), users[s.user].local
                 PROVE  s.hash = users[s.user].hash \/ s.issued = users[s.user].cut
      BY DEF SessionOfCurrentPassword
    <2>1. s.issued \in Nat /\ users[s.user].cut \in Nat
      BY DEF AccountsInv, AccountsTyped, Account
    <2>2. SessionFits(s, users[s.user])
      BY DEF AccountsInv, SessionsFit
    <2> QED BY <2>1, <2>2 DEF Stands, Enabled, session_current, SessionFits
  <1> QED BY <1>1, AccountsInvHolds, PTL

\* decide and guard: once there is an enabled superuser there always is one.
THEOREM SuperuserKept == Spec => SuperuserRemains
  <1>1. AccountsInv /\ [Next]_vars => [SuperusersOf(users) # {} => SuperusersOf(users') # {}]_vars
    BY AccountsNext DEF Manned
  <1> QED BY <1>1, AccountsInvHolds, PTL DEF Spec, SuperuserRemains

(* A row only ages: it is never made again, its cut-off never moves back, and enabling it cuts. *)
Aged(row, next, t) ==
    next.exists => /\ row.exists /\ row.cut <= next.cut
                   /\ row.disabled /\ ~next.disabled => next.cut = t

LEMMA ChangedAges ==
    ASSUME NEW r \in Reqs, req[r].kind \in TargetKinds, now \in Nat, NEW t \in Account, t.exists, t.cut <= now
    PROVE  Aged(t, Changed(r, t), now)
  <1>0. t.cut \in Nat /\ Aged(t, t, now)
    BY DEF Account, Aged
  <1>1. CASE req[r].kind = "reset"
    <2>1. Changed(r, t) = [t EXCEPT !.hash = req[r].new, !.must = TRUE, !.cut = now]
      BY <1>1 DEF Changed, try_reset_password
    <2> QED BY <2>1 DEF Aged, Account
  <1>2. CASE req[r].kind = "disable"
    <2>1. Changed(r, t) = t \/ Changed(r, t) = [t EXCEPT !.disabled = TRUE, !.cut = now]
      BY <1>2 DEF Changed, try_set_disabled
    <2> QED BY <1>0, <2>1 DEF Aged, Account
  <1>3. CASE req[r].kind = "enable"
    <2>1. Changed(r, t) = t \/ Changed(r, t) = [t EXCEPT !.disabled = FALSE, !.cut = now]
      BY <1>3 DEF Changed, try_set_disabled
    <2> QED BY <1>0, <2>1 DEF Aged, Account
  <1>4. CASE req[r].kind = "promote"
    <2>1. Changed(r, t) = t \/ Changed(r, t) = [t EXCEPT !.super = TRUE, !.cut = t.cut]
      BY <1>4 DEF Changed, try_set_superuser
    <2> QED BY <1>0, <2>1 DEF Aged, Account
  <1>5. CASE req[r].kind = "demote"
    <2>1. Changed(r, t) = t \/ Changed(r, t) = [t EXCEPT !.super = FALSE, !.cut = now]
      BY <1>5 DEF Changed, try_set_superuser
    <2> QED BY <1>0, <2>1 DEF Aged, Account
  <1>6. CASE req[r].kind = "delete"
    BY <1>6, GoneTyped DEF Changed, try_delete_account, Aged
  <1> QED BY <1>1, <1>2, <1>3, <1>4, <1>5, <1>6 DEF TargetKinds

\* Who moves the clock, and who writes rows.
LEMMA StepWrites ==
    ASSUME [Next]_vars
    PROVE  /\ now' = now \/ now' = now + 1
           /\ \/ users' = users
              \/ \E r \in Reqs : \/ Target(r) \/ (At(r, "own") /\ Chosen(r)) \/ \E row : Inserted(r, row)
  <1>1. CASE UNCHANGED vars \/ Tick
    BY <1>1 DEF vars, Tick
  <1>2. ASSUME NEW r \in Reqs, Ask(r) PROVE UNCHANGED <<now, users>>
    <2>1. \A kind, by, to, val, name : Begin(r, kind, by, to, val, name) => UNCHANGED <<now, users>>
      BY DEF Begin
    <2> QED BY <1>2, <2>1 DEF Ask, create_account, reset_password, set_status, set_superuser,
                delete_account, ChangeAccount, put_settings, change_password, login_local, submit,
                callback, apply
  <1>3. ASSUME NEW r \in Reqs, Retry(r) \/ GiveUp(r) \/ Read(r) \/ Enter(r) \/ Hash(r) \/ Supers(r)
               \/ Caller(r) \/ Turn(r) \/ Switch(r) \/ Record(r)
        PROVE  UNCHANGED <<now, users>>
    <2>1. CASE Retry(r) \/ GiveUp(r) \/ Read(r) \/ Enter(r) \/ Hash(r)
      BY <2>1 DEF Retry, GiveUp, Refuse, Read, Enter, Hash
    <2>2. CASE Supers(r) \/ Caller(r) \/ Turn(r) \/ Switch(r) \/ Record(r)
      BY <2>2 DEF Supers, Caller, Turn, Switch, Record, Refuse
    <2> QED BY <1>3, <2>1, <2>2
  <1>4. ASSUME NEW r \in Reqs, Target(r) PROVE now' = now
    BY <1>4 DEF Target, Refuse
  <1>5. ASSUME NEW r \in Reqs, Own(r)
        PROVE  now' = now /\ (users' = users \/ (At(r, "own") /\ Chosen(r)))
    BY <1>5 DEF Own, Ready, Refuse
  <1>6. ASSUME NEW r \in Reqs, Insert(r) \/ Upsert(r) \/ Bootstrap(r)
        PROVE  now' = now /\ (users' = users \/ \E row : Inserted(r, row))
    BY <1>6 DEF Insert, Upsert, Bootstrap, Refuse
  <1>7. ASSUME NEW r \in Reqs, Stage(r) PROVE \/ Target(r) \/ Own(r) \/ Insert(r) \/ Upsert(r) \/ Bootstrap(r)
                                               \/ UNCHANGED <<now, users>>
    BY <1>3, <1>7 DEF Stage
  <1> QED BY <1>1, <1>2, <1>3, <1>4, <1>5, <1>6, <1>7 DEF Next

LEMMA RowsAge ==
    ASSUME AccountsInv, [Next]_vars
    PROVE  now <= now' /\ \A u \in 1 .. nextId : Aged(users[u], users'[u], now)
  <1> USE DEF AccountsInv
  <1>0. now \in Nat /\ users \in [Ids -> Account] /\ nextId \in Nat
        /\ \A u \in 1 .. nextId : /\ u \in Ids /\ users[u] \in Account /\ users[u].cut <= now
                                  /\ Aged(users[u], users[u], now)
    BY AccountsAssumption DEF AccountsTyped, InTime, Ids, Aged, Account
  <1>1. now <= now'
    BY <1>0, StepWrites
  <1>2. CASE users' = users
    BY <1>0, <1>1, <1>2
  <1>3. ASSUME NEW r \in Reqs, Target(r) PROVE \A u \in 1 .. nextId : Aged(users[u], users'[u], now)
    <2>1. At(r, "target") /\ Sound(req[r])
      BY <1>3 DEF Target, Ready, AccountsTyped
    <2>2. req[r].kind \in TargetKinds /\ req[r].to \in Ids
      BY <2>1, LastStage DEF At, Sound
    <2>3. CASE users' = users
      BY <1>0, <2>3
    <2>4. CASE users[req[r].to].exists /\ users' = [users EXCEPT ![req[r].to] = Changed(r, users[req[r].to])]
      <3>1. Aged(users[req[r].to], Changed(r, users[req[r].to]), now)
        BY <1>0, <2>2, <2>4, ChangedAges DEF InTime
      <3> QED BY <1>0, <2>2, <2>4, <3>1
    <2> QED BY <1>3, <2>3, <2>4 DEF Target, Refuse
  <1>4. ASSUME NEW r \in Reqs, NEW row, Inserted(r, row)
        PROVE  \A u \in 1 .. nextId : Aged(users[u], users'[u], now)
    BY <1>0, <1>4 DEF Inserted
  <1>5. ASSUME NEW r \in Reqs, At(r, "own"), Chosen(r)
        PROVE  \A u \in 1 .. nextId : Aged(users[u], users'[u], now)
    <2>1. PICK u : u = req[r].by
      OBVIOUS
    <2>2. u \in Ids
      BY <1>5, <2>1, LastStage DEF At, AccountsTyped, Sound
    <2>3. PICK row : row = [users[u] EXCEPT !.hash = req[r].new, !.must = FALSE, !.cut = now]
      OBVIOUS
    <2>4. users' = [users EXCEPT ![u] = row]
      BY <1>5, <2>1, <2>3 DEF Chosen
    <2>5. u \in 1 .. nextId => Aged(users[u], row, now)
      BY <1>0, <2>3 DEF Aged, Account
    <2> QED BY <1>0, <2>2, <2>4, <2>5
  <1> QED BY <1>1, <1>2, <1>3, <1>4, <1>5, StepWrites

\* session_current and the cut-offs: a session that is refused stays refused, through disabling and
\* enabling again, unless it is younger than the millisecond the cut-off is compared in.
THEOREM RevokedForGood == Spec => RevokedStaysRevoked
  <1>1. AccountsInv /\ [Next]_vars =>
            [\A s \in sessions : ~Stands(s) /\ s.issued < now => ~Stands(s)']_vars
    <2> SUFFICES ASSUME AccountsInv, [Next]_vars, NEW s \in sessions, s.issued < now, Stands(s)'
                 PROVE  Stands(s)
      OBVIOUS
    <2>1. s.user \in 1 .. nextId /\ s.issued \in Nat /\ now \in Nat /\ now' \in Nat /\ Lifetime \in Nat
      BY AccountsAssumption, AccountsNext DEF AccountsInv, AccountsTyped, InTime, Ids
    <2>2. now <= now' /\ Aged(users[s.user], users'[s.user], now)
      BY <2>1, RowsAge
    <2>3. users[s.user].cut \in Nat /\ users'[s.user].cut \in Nat
      BY AccountsNext DEF AccountsInv, AccountsTyped, Account
    <2>4. /\ now' < s.issued + Lifetime /\ users'[s.user].exists /\ ~users'[s.user].disabled
          /\ users'[s.user].cut = 0 \/ s.issued >= users'[s.user].cut
      BY DEF Stands, decode, Enabled, session_current
    <2>5. ~users[s.user].disabled
      BY <2>1, <2>2, <2>4 DEF Aged
    <2>6. now < s.issued + Lifetime
      BY <2>1, <2>2, <2>4
    <2>7. users[s.user].exists /\ (users[s.user].cut = 0 \/ s.issued >= users[s.user].cut)
      BY <2>1, <2>2, <2>3, <2>4 DEF Aged
    <2> QED BY <2>5, <2>6, <2>7 DEF Stands, decode, Enabled, session_current
  <1> QED BY <1>1, AccountsInvHolds, PTL DEF Spec, RevokedStaysRevoked
=============================================================================
