----------------------------- MODULE Workspaces -----------------------------
(***************************************************************************)
(* Workspaces and who may do what in them: roles, group mappings and the   *)
(* workspaces themselves as the console's requests read and write them     *)
(* (crates/gapura-control: access.rs, grants.rs, workspaces.rs and their   *)
(* _api and store/ files).                                                 *)
(*                                                                         *)
(* A request runs a program: the list of stages its transaction waits      *)
(* between.  Its locks are taken in the order of its statements, what it   *)
(* decides it decides over rows it has locked, and what it writes becomes  *)
(* visible at its last stage, "commit".  Configuration adds the programs   *)
(* of what a workspace holds, and the specification.                       *)
(*                                                                         *)
(* Roles are numbers: 0 none, 1 viewer, 2 editor, 3 admin.                 *)
(***************************************************************************)
EXTENDS Transactions, Sequences

CONSTANTS Users,       \* accounts
          Groups,      \* OIDC groups
          WorkspaceIds,
          Names,       \* names of workspaces and of what they hold
          Objects,     \* ids of what workspaces hold: a range of numbers from 1
          Loads        \* bound: a state to begin with, and the requests that will arrive

VARIABLES acct,      \* what the console's accounts are to a workspace, with the groups of their last sign-in
          name,      \* the workspaces table: a workspace's name, "none" when there is none
          binding,   \* role_bindings
          mapping,   \* group_bindings
          obj,       \* services, routes, consumers, keys, policies, data planes and tokens
          version,   \* config_state.version
          req,       \* a request: its program, what it asked and what it has read
          load, ops, \* the load, and how many of its requests have arrived
          audit,     \* history: the last entry of audit_log, with what its write rested on
          hands      \* history: how often a superuser wrote, or a sign-in brought other groups

tables == <<acct, name, binding, mapping, obj, version>>

vars == <<locks, acct, name, binding, mapping, obj, version, req, load, ops, audit, hands>>

\* No row: of an id not given yet, and of one whose row was deleted.
Nothing == [kind |-> "none", ws |-> "none", name |-> "none", stamp |-> 0, val |-> 0, svc |-> 0,
            hosts |-> {}, on |-> 0, owner |-> 0, groups |-> {}]

Deleted == [Nothing EXCEPT !.stamp = 1]

Live(i) == obj[i].kind # "none"

Idle == [path |-> <<>>, kind |-> "none", by |-> "none", over |-> {}, to |-> "none", role |-> 0, name |-> "none",
         new |-> Nothing, seen |-> Nothing, row |-> 0, n |-> 0, tried |-> 1,
         counted |-> 0]

At(r, stage) == req[r].path # <<>> /\ Head(req[r].path) = stage

Exists(w) == name[w] # "none"

Named(n) == {w \in WorkspaceIds : name[w] = n}

Best(roles) == CHOOSE x \in roles \cup {0} : \A y \in roles : y <= x

\* Rows::effective: the highest role an enabled account holds, however it holds it.
effective(u, w) ==
    IF acct[u].disabled THEN 0
    ELSE Best({IF acct[u].super THEN 3 ELSE 0, binding[<<u, w>>]}
              \cup {mapping[<<g, w>>] : g \in acct[u].groups})

\* Rows::grantable: where the caller is admin.
grantable(u) == {w \in WorkspaceIds : Exists(w) /\ effective(u, w) = 3}

authorise(u, over) == ~acct[u].disabled /\ over \subseteq grantable(u)

\* workspaces::may_write and data_planes::may_write.
may_write(u) == acct[u].super /\ ~acct[u].disabled

\* AN_ADMIN_IS_LEFT, over bindings and mappings as a transaction is about to leave them.
AdminLeft(b, m, w) ==
    \E u \in Users : /\ ~acct[u].disabled /\ ~acct[u].super
                     /\ b[<<u, w>>] = 3 \/ \E g \in acct[u].groups : m[<<g, w>>] = 3

-----------------------------------------------------------------------------
(* Requests and their transactions. *)

GrantKinds == {"roles", "mapping"}
WorkspaceKinds == {"ws_create", "ws_rename", "ws_delete"}
PlaneKinds == {"plane", "token", "plane_delete", "token_revoke"}

\* The stages of each operation's transaction, in the order of its statements: what gives the caller
\* the right, then what the write rests on.
Program(kind) ==
    CASE kind = "roles"   -> <<"caller", "scope", "bindings", "target", "held", "admins", "commit">>
      [] kind = "mapping" -> <<"caller", "scope", "bindings", "held_mapping", "admins", "commit">>
      [] kind \in {"ws_create", "plane"} -> <<"caller", "commit">>
      [] kind = "ws_rename" -> <<"caller", "workspace", "commit">>
      [] kind = "ws_delete" -> <<"caller", "deletes", "workspace", "commit">>
      [] kind = "token" -> <<"caller", "owner", "commit">>
      [] kind \in {"plane_delete", "token_revoke"} -> <<"caller", "row", "commit">>
      [] kind \in {"service_create", "consumer_create"} -> <<"caller", "scope", "bindings", "commit">>
      [] kind = "key_issue" -> <<"caller", "scope", "bindings", "owner", "commit">>
      [] kind = "route_create" -> <<"caller", "scope", "bindings", "hosts", "service", "commit">>
      [] kind = "route_replace" ->
             <<"caller", "scope", "bindings", "row", "hosts", "service", "commit">>
      [] kind \in {"policy_put", "policy_delete"} ->
             <<"caller", "scope", "bindings", "object", "owner", "policy", "commit">>
      [] OTHER -> <<"caller", "scope", "bindings", "row", "commit">>

\* An answer ends the request and its transaction.
Answer(r) == req' = [req EXCEPT ![r] = Idle] /\ locks' = Released(r)

Refuse(r) == Answer(r) /\ UNCHANGED <<tables, load, ops, audit, hands>>

Advance(r, f) == req' = [req EXCEPT ![r] = [f EXCEPT !.path = Tail(f.path)]]

\* A stage that locks pairs and goes on if it may, and is refused if not.
Locking(r, stage, pairs, may, f) ==
    /\ At(r, stage) /\ Free(r, pairs)
    /\ \/ /\ may /\ Advance(r, f) /\ locks' = Granted(r, pairs)
          /\ UNCHANGED <<tables, load, ops, audit, hands>>
       \/ ~may /\ Refuse(r)

DeleteKinds == {"service_delete", "route_delete", "consumer_delete", "key_revoke"}

\* Action::needs: the role a write needs where it writes.
needs(kind) == IF kind \in GrantKinds \cup DeleteKinds THEN 3 ELSE 2

\* What is saved over what its author was shown.
SavedOver == {"service_replace", "route_replace", "policy_put"}

\* audit: one entry, and whether the caller still had the right to the write as it was committed.
Audited(r, before) ==
    /\ audit' = [kind |-> req[r].kind, by |-> req[r].by, seen |-> req[r].seen,
                 before |-> IF req[r].kind \in SavedOver THEN before ELSE Nothing,
                 right |-> IF req[r].kind \in WorkspaceKinds \cup PlaneKinds THEN may_write(req[r].by)
                           ELSE \A w \in req[r].over : effective(req[r].by, w) >= needs(req[r].kind)]
    /\ hands' = IF acct[req[r].by].super THEN hands + 1 ELSE hands

-----------------------------------------------------------------------------
(* rights: the caller's own row, the workspaces, and what gives the caller a role there. *)

CallerRow(r) == {<<<<"user", req[r].by>>, "share">>}

ScopeRows(r) == {<<<<"ws", w>>, "share">> : w \in {v \in req[r].over : Exists(v)}}

BindingRows(r) ==
    {<<<<"bind", req[r].by, w>>, "share">> : w \in {v \in req[r].over : binding[<<req[r].by, v>>] > 0}}
    \cup {<<<<"map", p[1], p[2]>>, "share">> :
             p \in {q \in acct[req[r].by].groups \X req[r].over : mapping[<<q[1], q[2]>>] > 0}}

Caller(r) ==
    LET superusers == req[r].kind \in WorkspaceKinds \cup PlaneKinds
    IN  Locking(r, "caller", CallerRow(r), superusers => may_write(req[r].by), req[r])

\* A workspace that is gone is one the caller holds nothing in.
Scope(r) == Locking(r, "scope", ScopeRows(r), \A w \in req[r].over : Exists(w), req[r])

\* Mutant of Bindings: the roles the right rests on are read and not locked.
BindingsUnlocked(r) ==
    Locking(r, "bindings", {}, \A w \in req[r].over : effective(req[r].by, w) >= needs(req[r].kind), req[r])

\* authorise_again, or configuration's decide, over what is locked by now.
Bindings(r) ==
    Locking(r, "bindings", BindingRows(r),
            /\ req[r].kind \in GrantKinds => authorise(req[r].by, req[r].over)
            /\ \A w \in req[r].over : effective(req[r].by, w) >= needs(req[r].kind), req[r])

-----------------------------------------------------------------------------
(* Roles and mappings.  An insert's key is held like a row: another insert of it waits.  In the   *)
(* code the second then meets a unique violation and retrying runs it again; it has held all its *)
(* right rests on meanwhile, so it reads there what it goes on with here, one attempt the poorer. *)

\* The account, so that it is not deleted under the grant.
Target(r) == Locking(r, "target", {<<<<"user", req[r].to>>, "keyshare">>}, ~acct[req[r].to].gone, req[r])

\* try_set_direct_roles: the bindings it will change.
Held(r) == Locking(r, "held", {<<<<"bind", req[r].to, w>>, "update">> : w \in req[r].over}, TRUE, req[r])

\* try_write_group_mapping: the mapping it will change; one that is not there cannot be removed.
HeldMapping(r) ==
    Locking(r, "held_mapping", {<<<<"map", req[r].to, w>>, "update">> : w \in req[r].over},
            \A w \in req[r].over : mapping[<<req[r].to, w>>] # req[r].role, req[r])

NewBinding(r) ==
    [p \in DOMAIN binding |-> IF req[r].kind = "roles" /\ p[1] = req[r].to /\ p[2] \in req[r].over
                              THEN req[r].role ELSE binding[p]]

NewMapping(r) ==
    [p \in DOMAIN mapping |-> IF req[r].kind = "mapping" /\ p[1] = req[r].to /\ p[2] \in req[r].over
                              THEN req[r].role ELSE mapping[p]]

\* Mutant of keeps_an_admin: the admins are counted with no lock between the writers.
CountAdmins(r) ==
    Locking(r, "admins", {}, acct[req[r].by].super \/ \A w \in req[r].over :
                                 AdminLeft(NewBinding(r), NewMapping(r), w),
            [req[r] EXCEPT !.counted = hands])

\* A superuser may leave a workspace to superusers; anyone else counts, one writer at a time.
Counted(r) == IF acct[req[r].by].super THEN {} ELSE req[r].over

AdminsLocks(r) == {<<<<"admins", w>>, "update">> : w \in Counted(r)}

keeps_an_admin(r) ==
    Locking(r, "admins", AdminsLocks(r),
            \A w \in Counted(r) : AdminLeft(NewBinding(r), NewMapping(r), w),
            [req[r] EXCEPT !.counted = hands])

CommitGrant(r) ==
    /\ At(r, "commit") /\ req[r].kind \in GrantKinds
    /\ binding' = NewBinding(r) /\ mapping' = NewMapping(r)
    /\ Audited(r, Nothing) /\ Answer(r)
    /\ UNCHANGED <<acct, name, obj, version, load, ops>>

-----------------------------------------------------------------------------
(* Workspaces. *)

\* Mutant of DeletesLock: deletes run side by side.
DeletesUnlocked(r) == Locking(r, "deletes", {}, TRUE, req[r])

DeletesLock(r) == Locking(r, "deletes", {<<<<"deletes">>, "update">>}, TRUE, req[r])

not_the_last == Cardinality({w \in WorkspaceIds : Exists(w)}) > 1

emptiness(w) == \A i \in Objects : Live(i) => obj[i].ws # w

\* What a rename or a delete of a workspace rests on, once its row is found by its name.
WorkspaceStage(r, mode) ==
    LET found == Named(req[r].to)
        may == /\ found # {}
               /\ req[r].kind = "ws_rename" => Named(req[r].name) = {}
               /\ req[r].kind = "ws_delete" => not_the_last /\ \A w \in found : emptiness(w)
    IN  Locking(r, "workspace", {<<<<"ws", w>>, mode>> : w \in found}, may,
                [req[r] EXCEPT !.over = found])

\* Mutant of WorkspaceRow: the row is held against its deletion, and not against writes into it.
WorkspaceRowShared(r) == WorkspaceStage(r, "keyshare")

\* try_rename_workspace and try_delete_workspace: the row FOR UPDATE.
WorkspaceRow(r) == WorkspaceStage(r, "update")

try_create_workspace(r) ==
    /\ At(r, "commit") /\ req[r].kind = "ws_create"
    /\ \/ /\ Named(req[r].name) = {}
          /\ \E w \in WorkspaceIds : ~Exists(w) /\ name' = [name EXCEPT ![w] = req[r].name]
          /\ Audited(r, Nothing) /\ Answer(r)
          /\ UNCHANGED <<acct, binding, mapping, obj, version, load, ops>>
       \/ (Named(req[r].name) # {} \/ \A w \in WorkspaceIds : Exists(w)) /\ Refuse(r)

\* The new name may have been taken since it was looked for: the unique index aborts the write.
try_rename_workspace(r) ==
    /\ At(r, "commit") /\ req[r].kind = "ws_rename" /\ Named(req[r].name) = {}
    /\ name' = [w \in WorkspaceIds |-> IF w \in req[r].over THEN req[r].name ELSE name[w]]
    /\ version' = version + 1
    /\ Audited(r, Nothing) /\ Answer(r)
    /\ UNCHANGED <<acct, binding, mapping, obj, load, ops>>

\* What is granted in a workspace goes with it, and by on delete cascade whatever it still holds,
\* which the trigger of its table then counts.
try_delete_workspace(r) ==
    LET held == {i \in Objects : Live(i) /\ obj[i].ws \in req[r].over}
    IN  /\ At(r, "commit") /\ req[r].kind = "ws_delete"
        /\ name' = [w \in WorkspaceIds |-> IF w \in req[r].over THEN "none" ELSE name[w]]
        /\ binding' = [p \in DOMAIN binding |-> IF p[2] \in req[r].over THEN 0 ELSE binding[p]]
        /\ mapping' = [p \in DOMAIN mapping |-> IF p[2] \in req[r].over THEN 0 ELSE mapping[p]]
        /\ obj' = [i \in Objects |-> IF i \in held THEN Deleted ELSE obj[i]]
        /\ version' = IF held = {} THEN version ELSE version + 1
        /\ Audited(r, Nothing) /\ Answer(r)
        /\ UNCHANGED <<acct, load, ops>>

-----------------------------------------------------------------------------
(* Handlers: what is asked, and by whom, before any transaction. *)

Arrive(r, f) ==
    /\ req[r].path = <<>> /\ f.kind \in load.kinds /\ ops < load.ops
    /\ ops' = ops + 1
    /\ req' = [req EXCEPT ![r] = [f EXCEPT !.n = ops + 1, !.path = Program(f.kind)]]
    /\ UNCHANGED <<locks, tables, load, audit, hands>>

\* set_roles: one account, some workspaces, one role or none.
set_roles(r) ==
    \E by \in load.callers, to \in Users, role \in {0, 2, 3}, over \in load.scopes :
        /\ authorise(by, over)
        /\ Arrive(r, [Idle EXCEPT !.kind = "roles", !.by = by, !.to = to, !.role = role, !.over = over])

\* put_mapping and delete_mapping.
put_mapping(r) ==
    \E by \in load.callers, g \in Groups, role \in {0, 3}, over \in load.scopes :
        /\ Cardinality(over) = 1 /\ authorise(by, over)
        /\ Arrive(r, [Idle EXCEPT !.kind = "mapping", !.by = by, !.to = g, !.role = role, !.over = over])

create_workspace(r) ==
    \E by \in load.callers, n \in Names :
        /\ may_write(by)
        /\ Arrive(r, [Idle EXCEPT !.kind = "ws_create", !.by = by, !.name = n])

rename_workspace(r) ==
    \E by \in load.callers, from \in Names, n \in Names :
        /\ may_write(by)
        /\ Arrive(r, [Idle EXCEPT !.kind = "ws_rename", !.by = by, !.to = from, !.name = n])

delete_workspace(r) ==
    \E by \in load.callers, n \in Names :
        /\ may_write(by)
        /\ Arrive(r, [Idle EXCEPT !.kind = "ws_delete", !.by = by, !.to = n])

\* A superuser's change to an account, or its deletion with its grants (Accounts), under the locks
\* such a change takes.
ChangeAccount ==
    \E u \in Users : \E a \in [super : BOOLEAN, disabled : BOOLEAN, gone : BOOLEAN,
                              groups : {acct[u].groups}] :
        /\ "account" \in load.kinds /\ ops < load.ops /\ a # acct[u] /\ ~acct[u].gone
        /\ a.gone => a.disabled /\ ~a.super
        /\ \A l \in locks : l.row \notin {<<"user", u>>} \cup ({"bind"} \X {u} \X WorkspaceIds)
        /\ acct' = [acct EXCEPT ![u] = a] /\ ops' = ops + 1 /\ hands' = hands + 1
        /\ binding' = [p \in DOMAIN binding |-> IF a.gone /\ p[1] = u THEN 0 ELSE binding[p]]
        /\ UNCHANGED <<locks, name, mapping, obj, version, req, load, audit>>

\* upsert_oidc_user: a sign-in leaves the groups the provider gave this time, also on an account
\* that is disabled, in one statement that waits for whoever holds the row.  No admin is counted.
SignIn ==
    \E u \in Users, groups \in SUBSET Groups :
        /\ "sign_in" \in load.kinds /\ ops < load.ops /\ groups # acct[u].groups /\ ~acct[u].gone
        /\ \A l \in locks : l.row = <<"user", u>> => <<"nokey", l.mode>> \notin Conflict
        /\ acct' = [acct EXCEPT ![u].groups = groups] /\ ops' = ops + 1 /\ hands' = hands + 1
        /\ UNCHANGED <<locks, name, binding, mapping, obj, version, req, load, audit>>
=============================================================================
