------------------------------ MODULE Accounts ------------------------------
(***************************************************************************)
(* Accounts, sessions and sign-up of the console in store mode             *)
(* (crates/gapura-control): login.rs, login/signup.rs, accounts_api.rs,    *)
(* settings_api.rs, bootstrap.rs over store/accounts.rs, store/identity.rs *)
(* and store/settings.rs.                                                  *)
(*                                                                         *)
(* A request runs a program, the list of stages its handler awaits:        *)
(* reading without a lock, a turn at hashing, each lock its transaction    *)
(* waits for.  A stage that decides or writes does so over what it has     *)
(* locked; the last stage writes, audits and commits in one step, since    *)
(* nothing it does after its last lock waits.                              *)
(*                                                                         *)
(* now is the database's clock in milliseconds; every issue time and       *)
(* cut-off is read from it.  A password is the number of its hash, which   *)
(* its salt makes different from every other; 0 is none (OIDC).            *)
(***************************************************************************)
EXTENDS Transactions, Sequences

CONSTANTS Names,        \* usernames and OIDC subjects
          MaxIds,       \* bound: accounts ever made
          MaxChecks,    \* hashes that run at once (MAX_CONCURRENT_CHECKS)
          MaxWaiting,   \* accounts of sign-up that may wait (MAX_WAITING_SIGN_UPS)
          Lifetime,     \* of a session, in milliseconds
          Loads         \* bound: a table to begin with, the requests that will arrive, milliseconds

Ids == 1..MaxIds

\* The names that rows and requests may have.
AllNames == Names \cup {"none"} \cup UNION {{l.users[u].name : u \in Ids} : l \in Loads}

Account == [exists : BOOLEAN, name : AllNames, local : BOOLEAN, super : BOOLEAN, disabled : BOOLEAN,
            hash : Nat, must : BOOLEAN, cut : Nat, signedUp : BOOLEAN]

Kinds == {"none", "create", "reset", "disable", "enable", "promote", "demote", "delete",
          "settings", "password", "signin", "signup", "oidc", "bootstrap"}

\* Ids are given in order, and no cut-off lies in the future.
ASSUME AccountsAssumption ==
    /\ MaxIds \in Nat /\ MaxChecks \in Nat /\ MaxWaiting \in Nat /\ Lifetime \in Nat
    /\ \A l \in Loads :
          /\ l.users \in [Ids -> Account] /\ l.kinds \subseteq Kinds /\ l.ops \in Nat /\ l.time \in Nat
          /\ \E n \in 0..MaxIds : \A u \in Ids : l.users[u].exists <=> u <= n
          /\ \A u \in Ids : l.users[u].cut <= 1

VARIABLES users,     \* the users table, by id
          nextId,    \* ids up to here were used
          open,      \* console_settings.sign_up_open
          sessions,  \* the cookies browsers hold
          req,       \* a request: its program, what it asked and what it has read
          now,
          load, ops, \* the load, and how many of its requests have arrived
          audit      \* history: who committed what, as the rows stood

vars == <<locks, users, nextId, open, sessions, req, now, load, ops, audit>>

\* Rows are named by account; this is the one row of console_settings.
Settings == 0

Gone == [exists |-> FALSE, name |-> "none", local |-> TRUE, super |-> FALSE, disabled |-> FALSE,
         hash |-> 0, must |-> FALSE, cut |-> 0, signedUp |-> FALSE]

Idle == [path |-> <<>>, kind |-> "none", by |-> 0, to |-> 0, val |-> FALSE, name |-> "none",
         tried |-> 1, new |-> 0, seen |-> 0, left |-> {}, count |-> 0]

At(r, stage) == req[r].path # <<>> /\ Head(req[r].path) = stage

SuperusersOf(table) == {u \in Ids : table[u].exists /\ table[u].super /\ ~table[u].disabled}

Enabled(u) == users[u].exists /\ ~users[u].disabled

NameTaken(n) == \E u \in Ids : users[u].exists /\ users[u].local /\ users[u].name = n

\* An OIDC account is found by its subject, or is to be made.
OidcAccount(n) == {u \in Ids : users[u].exists /\ ~users[u].local /\ users[u].name = n}

\* Mutant of session_current: the cut-off is compared the wrong way round.
SessionUncut(s) == users[s.user].cut = 0 \/ s.issued <= users[s.user].cut

session_current(s) == users[s.user].cut = 0 \/ s.issued >= users[s.user].cut

\* open_signed: a cookie lasts its lifetime (its signature is the console's own).
decode(s) == now < s.issued + Lifetime

\* signed_in: what the console finds for a cookie, over rows read at once.
Stands(s) == decode(s) /\ Enabled(s.user) /\ session_current(s)

-----------------------------------------------------------------------------
(* Programs: the stages of each operation, and where its transaction starts. *)

TxProgram(kind) ==
    CASE kind \in {"reset", "disable", "enable", "promote", "demote", "delete"} ->
             <<"supers", "caller", "target">>
      [] kind = "create"    -> <<"caller", "insert">>
      [] kind = "settings"  -> <<"caller", "switch">>
      [] kind = "password"  -> <<"own">>
      [] kind = "signin"    -> <<"record">>
      [] kind = "signup"    -> <<"turn", "insert">>
      [] kind = "oidc"      -> <<"upsert">>
      [] kind = "bootstrap" -> <<"table">>

\* store_login: an account and its hash are read, the password is verified, the sign-in is recorded.
store_login == <<"read", "hash", "record">>

\* create of the sign-up page: the hash is made before the switch and the places left are looked at.
create == <<"hash", "turn", "insert">>

Program(kind) ==
    CASE kind = "password" -> <<"read", "hash", "hash", "own">>
      [] kind = "signin" -> store_login
      [] kind = "signup" -> create
      [] kind = "create" -> <<"hash", "caller", "insert">>
      [] kind = "reset" -> <<"hash", "supers", "caller", "target">>
      [] OTHER -> TxProgram(kind)

\* Mutant of Answer: the transaction of a refused request is left open.
AnswerHolding(r) == req' = [req EXCEPT ![r] = Idle] /\ UNCHANGED locks

\* An answer ends a request and, with it, its transaction.
Answer(r) == req' = [req EXCEPT ![r] = Idle] /\ locks' = Released(r)

Advance(r, f) == req' = [req EXCEPT ![r] = [f EXCEPT !.path = Tail(f.path)]]

\* The rows a request waits for at its stage.
Wants == [r \in Reqs |->
    CASE At(r, "supers") /\ req[r].left # {} ->
             {<<CHOOSE u \in req[r].left : \A v \in req[r].left : u <= v, "update">>}
      [] At(r, "caller") -> {<<req[r].by, "share">>}
      [] At(r, "target") -> {<<req[r].to, "update">>}
      [] At(r, "switch") \/ At(r, "turn") -> {<<Settings, "update">>}
      [] At(r, "own") -> {<<req[r].by, "nokey">>}
      [] At(r, "record") -> {<<req[r].to, "nokey">>}
      [] At(r, "upsert") -> {<<u, "nokey">> : u \in OidcAccount(req[r].name)}
      [] At(r, "table") -> {<<u, "update">> : u \in Ids}
      [] OTHER -> {}]

Ready(r, stage) == At(r, stage) /\ Free(r, Wants[r])

\* One audit row, with what the write rested on as it stood at the commit.
Audited(r, id) == audit' = [kind |-> req[r].kind, by |-> req[r].by, on |-> id,
                            right |-> req[r].by \in SuperusersOf(users), open |-> open]

-----------------------------------------------------------------------------
(* Handlers: what each decides over rows it reads before any transaction. *)

Begin(r, kind, by, to, val, name) ==
    /\ req[r].path = <<>> /\ kind \in load.kinds /\ ops < load.ops
    /\ ops' = ops + 1
    /\ req' = [req EXCEPT ![r] = [Idle EXCEPT !.path = Program(kind), !.kind = kind, !.by = by,
                                              !.to = to, !.val = val, !.name = name,
                                              !.new = ops + 2]]
    /\ UNCHANGED <<locks, users, nextId, open, sessions, now, load, audit>>

\* store_caller: a temporary password opens nothing but the page that changes it.
store_caller(s) == Stands(s) /\ ~users[s.user].must

\* may_administer and may_change_settings.
MayAdminister(s) == store_caller(s) /\ users[s.user].super

create_account(r) ==
    \E s \in sessions, n \in Names, super \in BOOLEAN :
        MayAdminister(s) /\ Begin(r, "create", s.user, 0, super, n)

ChangeAccount(r, kind) ==
    \E s \in sessions : \E to \in 1..nextId :
        MayAdminister(s) /\ Begin(r, kind, s.user, to, FALSE, "none")

reset_password(r) == ChangeAccount(r, "reset")
set_status(r) == ChangeAccount(r, "disable") \/ ChangeAccount(r, "enable")
set_superuser(r) == ChangeAccount(r, "promote") \/ ChangeAccount(r, "demote")
delete_account(r) == ChangeAccount(r, "delete")

put_settings(r) ==
    \E s \in sessions, val \in BOOLEAN :
        MayAdminister(s) /\ Begin(r, "settings", s.user, 0, val, "none")

\* Open to a temporary password, which is what it is for.
change_password(r) ==
    \E s \in sessions :
        Stands(s) /\ users[s.user].local /\ Begin(r, "password", s.user, s.user, FALSE, "none")

\* The form names an account; one that has none is verified against the dummy and refused.
login_local(r) ==
    \E u \in Ids : users[u].exists /\ users[u].local /\ Begin(r, "signin", 0, u, FALSE, "none")

\* submit: sign-up was open when the form arrived, and its fields pass check.
submit(r) == open /\ \E n \in Names : Begin(r, "signup", 0, 0, FALSE, n)

\* callback, once exchange has returned verified claims.
callback(r) ==
    \E n \in Names : Begin(r, "oidc", 0, 0, FALSE, n)

\* bootstrap::apply at the start of a replica: the table was empty when it was counted.
apply(r) ==
    /\ \A u \in Ids : ~users[u].exists
    /\ \E n \in Names : Begin(r, "bootstrap", 0, 0, FALSE, n)

-----------------------------------------------------------------------------
(* Stages without a lock. *)

\* local_user, and change_own_password's first query: the hash the password is checked against.
Read(r) ==
    /\ At(r, "read")
    /\ Advance(r, [req[r] EXCEPT !.seen = users[req[r].to].hash, !.val = Enabled(req[r].to)])
    /\ UNCHANGED <<locks, users, nextId, open, sessions, now, load, ops, audit>>

Hashing == {r \in Reqs : req[r].count = 1 /\ At(r, "hash")}

\* Checks::enter: a place to hash in.  Waiters past the queue's length are answered Busy.
Enter(r) ==
    /\ At(r, "hash") /\ req[r].count = 0
    /\ \/ /\ Cardinality(Hashing) < MaxChecks
          /\ req' = [req EXCEPT ![r].count = 1] /\ UNCHANGED locks
       \/ Cardinality(Hashing) >= MaxChecks /\ Answer(r)
    /\ UNCHANGED <<users, nextId, open, sessions, now, load, ops, audit>>

\* The hash is made or verified.  A wrong password, or a sign-in to a disabled account, is refused.
Hash(r) ==
    /\ r \in Hashing
    /\ \/ /\ req[r].kind = "signin" => req[r].val
          /\ Advance(r, [req[r] EXCEPT !.count = 0]) /\ UNCHANGED locks
       \/ req[r].kind \in {"signin", "password"} /\ Answer(r)
    /\ UNCHANGED <<users, nextId, open, sessions, now, load, ops, audit>>

-----------------------------------------------------------------------------
(* Stages of transactions. *)

Refuse(r) == Answer(r) /\ UNCHANGED <<users, nextId, open, sessions, now, load, ops, audit>>

\* A row of decide's first statement, counted if it is still an enabled superuser's.
LookedAt(r, u) ==
    LET f == [req[r] EXCEPT !.left = @ \ {u},
                            !.count = IF u \in SuperusersOf(users) THEN @ + 1 ELSE @]
    IN  \/ f.left = {} /\ Advance(r, f)
        \/ f.left # {} /\ req' = [req EXCEPT ![r] = f]

\* decide, step 1: the enabled superusers as the statement finds them, locked one by one in id
\* order, each looked at again once its lock is granted.
Supers(r) ==
    /\ At(r, "supers")
    /\ \/ /\ req[r].left = {} /\ req[r].count = 0 /\ SuperusersOf(users) # {}
          /\ req' = [req EXCEPT ![r].left = SuperusersOf(users)]
          /\ UNCHANGED locks
       \/ /\ req[r].left # {} /\ Free(r, Wants[r])
          /\ \E p \in Wants[r] : LookedAt(r, p[1])
          /\ locks' = Granted(r, Wants[r])
       \/ /\ req[r].left = {} /\ req[r].count = 0 /\ SuperusersOf(users) = {}
          /\ Advance(r, req[r]) /\ UNCHANGED locks
    /\ UNCHANGED <<users, nextId, open, sessions, now, load, ops, audit>>

\* Mutant of Caller: the caller is read again and not locked.
CallerUnlocked(r) ==
    /\ Ready(r, "caller")
    /\ \/ req[r].by \in SuperusersOf(users) /\ Advance(r, req[r])
          /\ UNCHANGED <<locks, users, nextId, open, sessions, now, load, ops, audit>>
       \/ req[r].by \notin SuperusersOf(users) /\ Refuse(r)

\* caller_rights and may_administer or may_change_settings, over the caller's row FOR SHARE.
Caller(r) ==
    /\ Ready(r, "caller")
    /\ \/ /\ req[r].by \in SuperusersOf(users) /\ Advance(r, req[r])
          /\ locks' = Granted(r, Wants[r])
          /\ UNCHANGED <<users, nextId, open, sessions, now, load, ops, audit>>
       \/ req[r].by \notin SuperusersOf(users) /\ Refuse(r)

\* Mutant of guard: the caller may lock themselves out, and the count is not looked at.
Unguarded(r, t) == (req[r].kind \in {"reset", "delete"} => t.local)

guard(r, t) ==
    LET locksOut == req[r].kind \in {"disable", "delete", "demote"}
    IN  /\ req[r].kind \in {"reset", "delete"} => t.local
        /\ locksOut => req[r].by # req[r].to
        /\ locksOut /\ t.super /\ ~t.disabled => req[r].count > 1

\* The four changes; every cut-off is the clock as the statement runs, and an account that is
\* already as asked is left as it is.
try_reset_password(r, t) == [t EXCEPT !.hash = req[r].new, !.must = TRUE, !.cut = now]

try_set_disabled(t, disabled) ==
    IF t.disabled = disabled THEN t ELSE [t EXCEPT !.disabled = disabled, !.cut = now]

try_set_superuser(t, super) ==
    IF t.super = super THEN t
    ELSE [t EXCEPT !.super = super, !.cut = IF super THEN @ ELSE now]

try_delete_account(t) == Gone

Changed(r, t) ==
    CASE req[r].kind = "reset"   -> try_reset_password(r, t)
      [] req[r].kind = "disable" -> try_set_disabled(t, TRUE)
      [] req[r].kind = "enable"  -> try_set_disabled(t, FALSE)
      [] req[r].kind = "promote" -> try_set_superuser(t, TRUE)
      [] req[r].kind = "demote"  -> try_set_superuser(t, FALSE)
      [] req[r].kind = "delete"  -> try_delete_account(t)

\* decide, step 3: the row FOR UPDATE, and the change if guard allows it.
Target(r) ==
    LET t == users[req[r].to]
        writes == t.exists /\ guard(r, t) /\ Changed(r, t) # t
    IN  /\ Ready(r, "target")
        /\ \/ /\ writes
              /\ users' = [users EXCEPT ![req[r].to] = Changed(r, t)]
              /\ Audited(r, req[r].to) /\ Answer(r)
              /\ UNCHANGED <<nextId, open, sessions, now, load, ops>>
           \/ ~writes /\ Refuse(r)

NewRow(r) ==
    [Gone EXCEPT !.exists = TRUE, !.name = req[r].name, !.hash = req[r].new,
                 !.super = (req[r].kind = "create" /\ req[r].val) \/ req[r].kind = "bootstrap",
                 !.must = req[r].kind = "create", !.signedUp = req[r].kind = "signup"]

\* The row of an account that signs in elsewhere: it has no password here.
OidcRow(r) == [NewRow(r) EXCEPT !.local = FALSE, !.hash = 0]

Inserted(r, row) == nextId < MaxIds /\ nextId' = nextId + 1 /\ users' = [users EXCEPT ![nextId + 1] = row]

Session(id, hash) == [user |-> id, issued |-> now, hash |-> hash]

\* The inserts of try_create_account and try_sign_up: a name taken inserts nothing.
Insert(r) ==
    /\ At(r, "insert")
    /\ \/ /\ ~NameTaken(req[r].name) /\ Inserted(r, NewRow(r))
          /\ sessions' = IF req[r].kind = "signup" THEN sessions \cup {Session(nextId', req[r].new)}
                                                   ELSE sessions
          /\ Audited(r, nextId') /\ Answer(r) /\ UNCHANGED <<open, now, load, ops>>
       \/ (NameTaken(req[r].name) \/ nextId = MaxIds) /\ Refuse(r)

\* try_set_sign_up_open: the switch FOR UPDATE, after the caller.
Switch(r) ==
    /\ Ready(r, "switch")
    /\ \/ /\ open # req[r].val /\ open' = req[r].val /\ Audited(r, 0) /\ Answer(r)
          /\ UNCHANGED <<users, nextId, sessions, now, load, ops>>
       \/ open = req[r].val /\ Refuse(r)

\* Who signed up and has no binding yet: bindings are another module's, so any accounts may have one.
Waiting(bound) == {u \in Ids \ bound : Enabled(u) /\ users[u].signedUp /\ ~users[u].super}

\* Mutant of Turn: the switch is read without its lock.
TurnUnlocked(r) ==
    /\ At(r, "turn")
    /\ \E bound \in SUBSET Ids :
         \/ /\ open /\ Cardinality(Waiting(bound)) < MaxWaiting /\ Advance(r, req[r])
            /\ UNCHANGED <<locks, users, nextId, open, sessions, now, load, ops, audit>>
         \/ ~(open /\ Cardinality(Waiting(bound)) < MaxWaiting) /\ Refuse(r)

\* try_sign_up up to its insert: the switch FOR UPDATE, then the count of who waits.
Turn(r) ==
    /\ Ready(r, "turn")
    /\ \E bound \in SUBSET Ids :
         \/ /\ open /\ Cardinality(Waiting(bound)) < MaxWaiting /\ Advance(r, req[r])
            /\ locks' = Granted(r, Wants[r])
            /\ UNCHANGED <<users, nextId, open, sessions, now, load, ops, audit>>
         \/ ~(open /\ Cardinality(Waiting(bound)) < MaxWaiting) /\ Refuse(r)

\* The password its owner chose, and the cut-off of every session before it.
Chosen(r) ==
    users' = [users EXCEPT ![req[r].by] = [@ EXCEPT !.hash = req[r].new, !.must = FALSE, !.cut = now]]

\* try_change_own_password, and the fresh session the handler answers with.
Own(r) ==
    LET u == req[r].by
        verified == users[u].exists /\ users[u].hash = req[r].seen /\ ~users[u].disabled
    IN  /\ Ready(r, "own")
        /\ \/ /\ verified
              /\ Chosen(r)
              /\ sessions' = sessions \cup {Session(u, req[r].new)}
              /\ Audited(r, u) /\ Answer(r) /\ UNCHANGED <<nextId, open, now, load, ops>>
           \/ ~verified /\ Refuse(r)

\* Mutant of Record: a sign-in is recorded whatever the hash is by now.
RecordUnchecked(r) ==
    /\ Ready(r, "record") /\ users[req[r].to].exists
    /\ sessions' = sessions \cup {Session(req[r].to, req[r].seen)}
    /\ Answer(r) /\ UNCHANGED <<users, nextId, open, now, load, ops, audit>>

\* record_sign_in: only if the hash is still the one that was verified.
Record(r) ==
    LET u == req[r].to
        verified == users[u].exists /\ users[u].hash = req[r].seen
    IN  /\ Ready(r, "record")
        /\ \/ /\ verified /\ sessions' = sessions \cup {Session(u, req[r].seen)}
              /\ Answer(r) /\ UNCHANGED <<users, nextId, open, now, load, ops, audit>>
           \/ ~verified /\ Refuse(r)

\* upsert_oidc_user: the row is made or brought up to date; a disabled account gets no session.
Upsert(r) ==
    LET found == OidcAccount(req[r].name)
    IN  /\ Ready(r, "upsert")
        /\ \/ /\ found = {} /\ Inserted(r, OidcRow(r))
              /\ sessions' = sessions \cup {Session(nextId', 0)}
              /\ Answer(r) /\ UNCHANGED <<open, now, load, ops, audit>>
           \/ /\ \E u \in found : ~users[u].disabled /\ sessions' = sessions \cup {Session(u, 0)}
              /\ Answer(r) /\ UNCHANGED <<users, nextId, open, now, load, ops, audit>>
           \/ /\ (\E u \in found : users[u].disabled) \/ (found = {} /\ nextId = MaxIds)
              /\ Refuse(r)

\* bootstrap_superuser: the table is locked before it is counted again.
Bootstrap(r) ==
    /\ Ready(r, "table")
    /\ \/ /\ \A u \in Ids : ~users[u].exists
          /\ Inserted(r, NewRow(r)) /\ Answer(r) /\ UNCHANGED <<open, sessions, now, load, ops, audit>>
       \/ (nextId = MaxIds \/ \E u \in Ids : users[u].exists) /\ Refuse(r)

Stage(r) ==
    /\ req[r].path # <<>>
    /\ \/ Read(r) \/ Enter(r) \/ Hash(r) \/ Supers(r) \/ Caller(r) \/ Target(r) \/ Insert(r)
       \/ Switch(r) \/ Turn(r) \/ Own(r) \/ Record(r) \/ Upsert(r) \/ Bootstrap(r)

\* Mutant of Retry: the transaction aborted keeps what it had locked.
RetryHolding(r) ==
    /\ Deadlocked(r, Wants)
    /\ req' = [req EXCEPT ![r].path = TxProgram(req[r].kind), ![r].left = {}, ![r].count = 0]
    /\ UNCHANGED <<locks, users, nextId, open, sessions, now, load, ops, audit>>

\* The database aborts a transaction in a circle of waits; retrying runs it again, ATTEMPTS times.
Retry(r) ==
    /\ Deadlocked(r, Wants)
    /\ \/ /\ req[r].tried < Attempts
          /\ req' = [req EXCEPT ![r] = [req[r] EXCEPT !.path = TxProgram(req[r].kind), !.left = {},
                                                      !.count = 0, !.tried = @ + 1]]
          /\ locks' = Released(r)
       \/ req[r].tried = Attempts /\ Answer(r)
    /\ UNCHANGED <<users, nextId, open, sessions, now, load, ops, audit>>

\* lock_timeout, which is not tried again, or a client that hangs up: the transaction is undone.
GiveUp(r) == req[r].path # <<>> /\ Refuse(r)

Tick ==
    /\ now < load.time /\ now' = now + 1
    /\ UNCHANGED <<locks, users, nextId, open, sessions, req, load, ops, audit>>

-----------------------------------------------------------------------------
Ask(r) ==
    /\ req[r].path = <<>> /\ ops < load.ops
    /\ \/ create_account(r) \/ reset_password(r) \/ set_status(r) \/ set_superuser(r)
       \/ delete_account(r) \/ put_settings(r) \/ change_password(r) \/ login_local(r)
       \/ submit(r) \/ callback(r) \/ apply(r)

Init ==
    /\ load \in Loads /\ users = load.users
    /\ nextId = Cardinality({u \in Ids : users[u].exists})
    /\ open \in BOOLEAN
    /\ sessions = {[user |-> u, issued |-> 0, hash |-> users[u].hash] : u \in {v \in Ids : users[v].exists}}
    /\ req = [r \in Reqs |-> Idle]
    /\ locks = {} /\ now = 1 /\ ops = 0
    /\ audit = [kind |-> "none", by |-> 0, on |-> 0, right |-> TRUE, open |-> TRUE]

Next ==
    \/ \E r \in Reqs : Ask(r) \/ Stage(r) \/ Retry(r) \/ GiveUp(r)
    \/ Tick

Spec == Init /\ [][Next]_vars

\* Requests that can run do, and the database breaks circles.
RequestFairness == \A r \in Reqs : WF_vars(Stage(r)) /\ WF_vars(Retry(r))
-----------------------------------------------------------------------------
(* Properties *)

TypeOK ==
    /\ \A u \in Ids : users[u].exists => u <= nextId
    /\ \A r \in Reqs : req[r].kind \in Kinds /\ req[r].tried \in 1..Attempts
                       /\ req[r].left \subseteq Ids
    /\ \A l \in locks : l.by \in Reqs /\ l.mode \in Modes /\ req[l.by].path # <<>>
    /\ \A s \in sessions : s.user \in 1..nextId /\ s.issued <= now

\* Once the console has an enabled superuser it never loses the last one, however the requests that
\* demote, disable and delete superusers interleave (decide and guard, store/accounts.rs).
SuperuserRemains == [][SuperusersOf(users) # {} => SuperusersOf(users') # {}]_vars

\* What only a superuser may write is committed by an account that is an enabled superuser at the
\* commit, not only when its request was let in (caller_rights FOR SHARE).
WrittenWithRight ==
    audit.kind \in {"create", "reset", "disable", "enable", "promote", "demote", "delete",
                    "settings"} => audit.right

\* A session that the console accepts for a local account was given for the password the account has
\* now; only one given in the very millisecond of the cut-off may outlive a change (record_sign_in
\* compares the hash it verified, session_current the issue time).
SessionOfCurrentPassword ==
    \A s \in sessions :
        Stands(s) /\ users[s.user].local =>
            s.hash = users[s.user].hash \/ s.issued = users[s.user].cut

\* A session that has been refused stays refused, through disabling and enabling again; the cut-off
\* is compared in milliseconds, so only one younger than that may return.
RevokedStaysRevoked ==
    [][\A s \in sessions : ~Stands(s) /\ s.issued < now => ~Stands(s)']_vars

\* No account is signed up after the switch was turned off, whatever the form's page was told
\* (try_sign_up reads it FOR UPDATE).
ClosedStaysClosed == audit.kind = "signup" => audit.open

\* Every request is answered: the database breaks each circle of waits, and the retry of the
\* request it aborted does not wait in it again.
EveryRequestAnswered == \A r \in Reqs : req[r].path # <<>> ~> req[r].path = <<>>
=============================================================================
