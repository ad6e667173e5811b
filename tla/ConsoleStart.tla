---------------------------- MODULE ConsoleStart ----------------------------
(***************************************************************************)
(* Replicas of the console that start on one database (gapura-control      *)
(* main.rs, store/mod.rs connect_with, migrate and apply_migrations): they *)
(* connect, migrate under a session lock, each migration in a transaction  *)
(* of its own with its record, and then serve.  A replica may be of an     *)
(* older build, which knows fewer migrations.  The database is external: a *)
(* session lock is released when its session ends, which the database may  *)
(* notice late (orphaned), and an open transaction ends with its session.  *)
(***************************************************************************)
EXTENDS Integers, Sequences, Functions

CONSTANT Replicas   \* numbers from 1: 0 stands for no replica

ASSUME ReplicasAssumption == Replicas \subseteq Nat \ {0}

VARIABLES schema,      \* migrations whose statements are committed, in the order they were
          recorded,    \* names in _migrations
          holder,      \* the replica whose session holds the migration lock, or 0
          orphaned,    \* that session's process is gone
          start,       \* replica -> [at, next, known, failed]: where its start is
          mishaps      \* failures and crashes that may still happen (bound)

startVars == <<schema, recorded, holder, orphaned, start, mishaps>>

StartAt(r, stage) == start[r].at = stage

Goes(r, stage) == start' = [start EXCEPT ![r].at = stage]

\* The process is not there, or is being started again; it holds nothing from before.
Down(known) == [at |-> "down", next |-> 1, known |-> known, failed |-> "none"]

\* connect_with: a probe, so that a database that is not there fails the start.
connect_with(r) ==
    /\ StartAt(r, "down")
    /\ start' = [start EXCEPT ![r] = [Down(@.known) EXCEPT !.at = "connected"]]
    /\ UNCHANGED <<schema, recorded, holder, orphaned, mishaps>>

\* Mutant of migrate: replicas that start together are not serialised.
LockUnasked(r) ==
    /\ StartAt(r, "connected")
    /\ Goes(r, "check")
    /\ UNCHANGED <<schema, recorded, holder, orphaned, mishaps>>

\* pg_advisory_lock: waits while another session has it.
migrate(r) ==
    /\ StartAt(r, "connected")
    /\ holder = 0
    /\ holder' = r
    /\ Goes(r, "check")
    /\ UNCHANGED <<schema, recorded, orphaned, mishaps>>

\* apply_migrations, one migration after the other: recorded ones are passed over.
Check(r) ==
    /\ StartAt(r, "check")
    /\ start' = [start EXCEPT ![r] =
                    IF @.next > @.known THEN [@ EXCEPT !.at = "unlock"]
                    ELSE IF @.next \in recorded THEN [@ EXCEPT !.next = start[r].next + 1]
                    ELSE [@ EXCEPT !.at = "apply"]]
    /\ UNCHANGED <<schema, recorded, holder, orphaned, mishaps>>

\* The statements: what they create is there already when someone else has committed them.
ApplySql(r) ==
    /\ StartAt(r, "apply")
    /\ IF start[r].next \in Range(schema)
       THEN start' = [start EXCEPT ![r].at = "unlock", ![r].failed = "duplicate"]
       ELSE Goes(r, "commit")
    /\ UNCHANGED <<schema, recorded, holder, orphaned, mishaps>>

\* The statements and the record take effect together.
Commits(r) ==
    /\ schema' = Append(schema, start[r].next)
    /\ recorded' = recorded \cup {start[r].next}

\* A commit whose answer nobody reads: it took effect or it did not.
Unanswered(r) ==
    \/ UNCHANGED <<schema, recorded>>
    \/ StartAt(r, "commit") /\ start[r].next \notin Range(schema) /\ Commits(r)

\* The record and the commit.  One of two that ran the same statements
\* at once fails here.
CommitMigration(r) ==
    /\ StartAt(r, "commit")
    /\ IF start[r].next \in Range(schema)
       THEN /\ start' = [start EXCEPT ![r].at = "unlock", ![r].failed = "duplicate"]
            /\ UNCHANGED <<schema, recorded>>
       ELSE /\ Commits(r)
            /\ start' = [start EXCEPT ![r].at = "check", ![r].next = @ + 1]
    /\ UNCHANGED <<holder, orphaned, mishaps>>

\* Mutant of Unlock: a start that went well leaves the lock to its pooled connection.
UnlockFailedOnly(r) ==
    /\ StartAt(r, "unlock")
    /\ holder' = IF start[r].failed = "none" THEN holder ELSE 0
    /\ start' = [start EXCEPT ![r] = IF @.failed = "none" THEN [@ EXCEPT !.at = "serving"] ELSE Down(@.known)]
    /\ UNCHANGED <<schema, recorded, orphaned, mishaps>>

\* pg_advisory_unlock, whatever the result was; a failed start ends the process, and it is started
\* again.  An unlock that fails does so with its connection, which gives the lock back too.
Unlock(r) ==
    /\ StartAt(r, "unlock")
    /\ holder' = IF holder = r /\ ~orphaned THEN 0 ELSE holder
    /\ start' = [start EXCEPT ![r] = IF @.failed = "none" THEN [@ EXCEPT !.at = "serving"] ELSE Down(@.known)]
    /\ UNCHANGED <<schema, recorded, orphaned, mishaps>>

\* A statement fails, or the answer to a commit that took effect is lost: the transaction is given up.
StatementFails(r) ==
    /\ mishaps > 0
    /\ mishaps' = mishaps - 1
    /\ start[r].at \in {"check", "apply", "commit"}
    /\ start' = [start EXCEPT ![r].at = "unlock", ![r].failed = "statement"]
    /\ Unanswered(r)
    /\ UNCHANGED <<holder, orphaned>>

\* The process dies, at any step; its session, and the lock, outlive it for a while.
Dies(r) ==
    /\ mishaps > 0
    /\ mishaps' = mishaps - 1
    /\ ~StartAt(r, "down")
    /\ start' = [start EXCEPT ![r] = Down(@.known)]
    /\ orphaned' = (orphaned \/ holder = r)
    /\ Unanswered(r)
    /\ UNCHANGED holder

\* The database finds the connection gone.
SessionEnds ==
    /\ orphaned
    /\ orphaned' = FALSE
    /\ holder' = 0
    /\ UNCHANGED <<schema, recorded, start, mishaps>>

StartInit(known, applied, bound) ==
    /\ schema = [i \in 1 .. applied |-> i]
    /\ recorded = 1 .. applied
    /\ holder = 0 /\ orphaned = FALSE
    /\ start = [r \in Replicas |-> Down(known[r])]
    /\ mishaps = bound

StartStep(r) == connect_with(r) \/ migrate(r) \/ Check(r) \/ ApplySql(r) \/ CommitMigration(r) \/ Unlock(r)

StartNext ==
    \/ \E r \in Replicas : StartStep(r) \/ StatementFails(r) \/ Dies(r)
    \/ SessionEnds

\* Builds of any number of migrations, a schema that an earlier start left anywhere.
StartSpec ==
    /\ \E known \in [Replicas -> Nat], applied \in Nat, bound \in Nat : StartInit(known, applied, bound)
    /\ [][StartNext]_startVars

\* Processes run and are started again, and the database notices connections that are gone.
StartFairness == (\A r \in Replicas : WF_startVars(StartStep(r))) /\ WF_startVars(SessionEnds)

-----------------------------------------------------------------------------
(* Properties *)

\* Whoever starts together and whatever dies half way, each migration is applied once, in order, with
\* its record; no start fails for what another replica applied at the same time; and a replica that
\* serves has the schema its build was written for (migrate, apply_migrations).
SchemaAsDesigned ==
    /\ \A i \in DOMAIN schema : schema[i] = i
    /\ recorded = Range(schema)
    /\ \A r \in Replicas : /\ start[r].failed # "duplicate"
                           /\ StartAt(r, "serving") => 1 .. start[r].known \subseteq Range(schema)

\* Every replica serves in the end: a lock whose holder died is given back, and one whose start went
\* well is not kept (migrate).
ReplicasStart == <>[](\A r \in Replicas : StartAt(r, "serving"))
=============================================================================
