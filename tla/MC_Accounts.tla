---------------------------- MODULE MC_Accounts ----------------------------
(* Small tables and loads for Accounts, and replicas that start for ConsoleStart. *)
EXTENDS Accounts, ConsoleStart

Row(name, super, disabled) ==
    [Gone EXCEPT !.exists = TRUE, !.name = name, !.super = super, !.disabled = disabled, !.hash = 1]

Table(rows) == [u \in Ids |-> IF u <= Len(rows) THEN rows[u] ELSE Gone]

Admin == {"reset", "disable", "enable", "promote", "demote", "delete"}

Pair == Table(<<Row("a", TRUE, FALSE), Row("b", TRUE, FALSE)>>)

\* The replicas start, and no request arrives before they serve.
Starting == [users |-> Table(<<>>), kinds |-> {}, ops |-> 0, time |-> 1]

MCLoads ==
    { \* the console starts: the table is empty
      [users |-> Table(<<>>), kinds |-> {"bootstrap", "oidc", "signup", "signin"}, ops |-> 3, time |-> 1],
      \* two superusers, and everything anyone may ask
      [users |-> Pair, kinds |-> Kinds, ops |-> 2, time |-> 1],
      \* one of them disabled: enabling it changes the order in which rows are locked
      [users |-> Table(<<Row("a", TRUE, TRUE), Row("b", TRUE, FALSE)>>),
       kinds |-> {"enable", "reset"}, ops |-> 3, time |-> 1],
      \* a password against its reset, and an account switched off and on
      [users |-> Table(<<Row("a", TRUE, FALSE), Row("b", FALSE, FALSE)>>),
       kinds |-> {"reset", "password", "signin", "enable", "disable"}, ops |-> 2, time |-> 3],
      Starting }

\* The replicas have started: the other loads are requests to them.
Serving ==
    /\ schema = <<1, 2>> /\ recorded = {1, 2}
    /\ holder = 0 /\ orphaned = FALSE /\ mishaps = 0
    /\ start = [r \in Replicas |-> [Down(2) EXCEPT !.at = "serving"]]

\* Two migrations.  The second replica may be of an older build, and the schema half way there.
MCInit ==
    /\ Init
    /\ IF load = Starting
       THEN \E older \in 1 .. 2, applied \in 0 .. 1 :
                ~open /\ StartInit([r \in Replicas |-> IF r = 2 THEN older ELSE 2], applied, 3)
       ELSE Serving

MCNext == (Next /\ UNCHANGED startVars) \/ (StartNext /\ UNCHANGED vars)

MCSpec ==
    /\ MCInit /\ [][MCNext]_<<vars, startVars>>
    /\ RequestFairness
    /\ StartFairness
=============================================================================
