--------------------------- MODULE Configuration ---------------------------
(***************************************************************************)
(* What a workspace holds, as the console writes it: services, routes,     *)
(* consumers with their groups and keys, and policies; and the data planes *)
(* with their tokens (crates/gapura-control: configuration.rs,             *)
(* consumers.rs, policies.rs, data_planes.rs and their _api and store/     *)
(* files).                                                                 *)
(*                                                                         *)
(* A row's stamp is its updated_at: the start of the transaction that      *)
(* wrote it, here the number of the request, taken to be different for any *)
(* two.  What a client saw when it began is kept in seen, whole, so that   *)
(* the properties can compare; the code compares stamps.                   *)
(***************************************************************************)
EXTENDS Workspaces

CONSTANTS Hosts,        \* hosts a route may claim
          Overlapping,  \* pairs of them that can name one request's host
          OneLabel,     \* those that are wildcards over a single label
          GroupNames, MaxGroups   \* groups of a consumer, and how many it may be in (MAX_GROUPS)

PolicyKinds == {"policy_put", "policy_delete"}

\* What a workspace holds, as rows of one table.
PolicyNames == {"key_auth", "jwt", "rate_limit", "other"}
Tables == {"service", "route", "consumer", "key", "plane", "token", "plugin"}
RowNames == Names \cup PolicyNames \cup {"p", "none"}
ObjectRow == [kind : Tables \cup {"none"}, ws : WorkspaceIds \cup {"none"}, name : RowNames, stamp : Nat,
              val : Nat, svc : Objects \cup {0}, hosts : SUBSET Hosts, on : Objects \cup {0},
              owner : Objects \cup {0}, groups : SUBSET GroupNames]
AccountRow == [super : BOOLEAN, disabled : BOOLEAN, gone : BOOLEAN, groups : SUBSET Groups]

hosts_overlap(a, b) == a = b \/ <<a, b>> \in Overlapping \/ <<b, a>> \in Overlapping

\* The foreign keys: a route's service, what a policy is on, and whose a policy, a key or a token is.
Attached(table) ==
    \A i \in Objects :
        /\ table[i].kind = "none" => table[i].ws = "none"
        /\ table[i].kind = "route" => table[i].svc # 0
        /\ table[i].svc # 0 => table[i].kind = "route" /\ table[table[i].svc].kind = "service"
        /\ table[i].on # 0 => table[i].kind = "plugin" /\ table[table[i].on].kind \in {"service", "route"}
        /\ table[i].owner # 0 => /\ table[i].kind \in {"plugin", "key", "token"}
                                 /\ table[table[i].owner].kind \in {"consumer", "plane"}

\* No host is claimed by routes of two workspaces.
Apart(table) ==
    \A i, j \in Objects :
        (table[i].kind = "route" /\ table[j].kind = "route" /\ table[i].ws # table[j].ws) =>
            \A h \in table[i].hosts, g \in table[j].hosts : ~hosts_overlap(h, g)

\* Rows and grants are in workspaces that are there.
Housed(table, names, bindings, mappings) ==
    /\ \A i \in Objects : table[i].ws # "none" => names[table[i].ws] # "none"
    /\ \A w \in WorkspaceIds : names[w] = "none" =>
          (\A u \in Users : bindings[<<u, w>>] = 0) /\ (\A g \in Groups : mappings[<<g, w>>] = 0)

\* A load begins with tables the console could have written, each row under a stamp of its own.
ASSUME ConfigurationAssumption ==
    /\ Objects \subseteq Nat \ {0} /\ IsFiniteSet(WorkspaceIds)
    /\ "none" \notin Names /\ "none" \notin WorkspaceIds
    /\ \A l \in Loads :
          /\ l.acct \in [Users -> AccountRow] /\ l.name \in [WorkspaceIds -> Names \cup {"none"}]
          /\ l.binding \in [Users \X WorkspaceIds -> 0..3] /\ l.mapping \in [Groups \X WorkspaceIds -> 0..3]
          /\ l.obj \in [Objects -> ObjectRow] /\ l.ops \in Nat
          /\ l.callers \subseteq Users /\ l.scopes \subseteq SUBSET WorkspaceIds
          /\ l.claims \subseteq SUBSET Hosts /\ l.policies \subseteq PolicyNames
          /\ Attached(l.obj) /\ Apart(l.obj) /\ Housed(l.obj, l.name, l.binding, l.mapping)
          /\ \A i, j \in Objects : l.obj[i].kind # "none" =>
                l.obj[i].stamp > l.ops /\ (l.obj[j].kind # "none" /\ l.obj[i].stamp = l.obj[j].stamp => i = j)

TableOf(kind) ==
    CASE kind \in {"service_create", "service_replace", "service_delete"} -> "service"
      [] kind \in {"route_create", "route_replace", "route_delete"} -> "route"
      [] kind \in {"consumer_create", "consumer_delete", "group"} -> "consumer"
      [] kind \in {"key_issue", "key_revoke"} -> "key"
      [] kind \in {"plane", "plane_delete"} -> "plane"
      [] kind \in {"token", "token_revoke"} -> "token"
      [] kind \in PolicyKinds -> "plugin"

\* The deletes of a table's rows.
Deletes(table) ==
    {kind \in DeleteKinds \cup PlaneKinds \cup {"policy_delete"} :
        kind \notin {"plane", "token"} /\ TableOf(kind) = table}

\* The rows of a table with a name, in the workspace the request is about.
Find(r, table, n) ==
    {i \in Objects : obj[i].kind = table /\ obj[i].name = n
                     /\ obj[i].ws \in (IF req[r].over = {} THEN {"none"} ELSE req[r].over)}

Rows(ids, mode) == {<<<<"obj", i>>, mode>> : i \in ids}

Only(ids) == IF ids = {} THEN 0 ELSE CHOOSE i \in ids : TRUE

\* What goes with a row by on delete cascade.
Cascade(i) == {j \in Objects : Live(j) /\ (obj[j].on = i \/ obj[j].owner = i)}

-----------------------------------------------------------------------------
(* Stages *)

\* no_policies, and the routes of a service: what keeps a row from being deleted.
no_policies(i) == \A j \in Objects : ~(Live(j) /\ obj[j].kind = "plugin" /\ obj[j].on = i)

unused(i) == \A j \in Objects : ~(Live(j) /\ obj[j].svc = i)

\* The stamp the client sent is the row's; a route's service is compared as it is at this moment,
\* if the client sent its stamp as well (0: it did not).
Fresh(r, i) ==
    /\ obj[i].stamp = req[r].seen.stamp
    /\ req[r].kind = "route_replace" => req[r].role \in {0, obj[obj[i].svc].stamp}

\* try_set_group: in already, out already, or one too many.
GroupsAfter(r, i) ==
    IF req[r].role = 1 THEN obj[i].groups \cup {req[r].name} ELSE obj[i].groups \ {req[r].name}

MaySetGroup(r, i) == GroupsAfter(r, i) # obj[i].groups /\ Cardinality(GroupsAfter(r, i)) <= MaxGroups

\* What the statements after a row's lock decide.
MayWriteRow(r, i) ==
    CASE req[r].kind = "service_delete" -> unused(i) /\ no_policies(i)
      [] req[r].kind = "route_delete" -> no_policies(i)
      [] req[r].kind = "group" -> MaySetGroup(r, i)
      [] req[r].kind \in {"service_replace", "route_replace"} -> Fresh(r, i)
      [] OTHER -> TRUE

\* The row a replace or a delete is about, FOR UPDATE, found by name.
Row(r) ==
    LET found == {i \in Find(r, TableOf(req[r].kind), req[r].to) :
                     req[r].kind \in {"key_revoke", "token_revoke"} => obj[i].val = req[r].role}
        i == Only(found)
    IN  Locking(r, "row", Rows(found, "update"),
                found # {} /\ MayWriteRow(r, i),
                [req[r] EXCEPT !.row = i, !.new.groups = IF req[r].kind = "group" THEN GroupsAfter(r, i) ELSE {}])

\* may_route before its lock: any host at all, or a wildcard over one label, is for a superuser.
MayClaim(r) ==
    acct[req[r].by].super \/ (req[r].new.hosts # {} /\ req[r].new.hosts \cap OneLabel = {})

Taken(r) == {h \in Hosts : \E i \in Objects : /\ obj[i].kind = "route" /\ obj[i].ws \notin req[r].over
                                              /\ h \in obj[i].hosts}

MayRoute(r) ==
    MayClaim(r) /\ \A h \in req[r].new.hosts, t \in Taken(r) : ~hosts_overlap(h, t)

\* Mutant of may_route: the hosts of other workspaces are read with no lock.
MayRouteUnlocked(r) == Locking(r, "hosts", {}, MayRoute(r), req[r])

may_route(r) == Locking(r, "hosts", {<<<<"hosts">>, "update">>}, MayRoute(r), req[r])

\* try_write_route: its service FOR SHARE, by the name the client sent.
Service(r) ==
    LET found == Find(r, "service", req[r].name)
    IN  Locking(r, "service", Rows(found, "share"), found # {}, [req[r] EXCEPT !.new.svc = Only(found)])

\* target_row: the service or route a policy is on, FOR SHARE; none for the workspace's own.
TargetOf(r) == Find(r, "service", req[r].to) \cup Find(r, "route", req[r].to)

target_row(r) ==
    LET found == TargetOf(r)
    IN  Locking(r, "object", Rows(found, "share"), req[r].to # "none" => found # {},
                [req[r] EXCEPT !.new.on = Only(found)])

\* consumer_row, the anonymous consumer another kind of policy names, and the consumer a key is
\* issued to or the data plane a token is; the anonymous one is held, and does not own the policy.
OwnerOf(r) == Find(r, IF req[r].kind = "token" THEN "plane" ELSE "consumer", req[r].name)

consumer_row(r) ==
    LET found == OwnerOf(r)
    IN  Locking(r, "owner", Rows(found, "share"), req[r].name # "none" => found # {},
                [req[r] EXCEPT !.new.owner = IF req[r].new.name = "other" THEN 0 ELSE Only(found)])

PolicyOf(r) ==
    {i \in Objects : /\ obj[i].kind = "plugin" /\ obj[i].ws \in req[r].over
                     /\ obj[i].name = req[r].new.name /\ obj[i].on = req[r].new.on /\ obj[i].owner = req[r].new.owner}

\* plugin_row FOR UPDATE, then fresh: what was shown is what is there.
plugin_row(r) ==
    LET i == Only(PolicyOf(r))
        may == IF req[r].kind = "policy_delete" THEN i # 0
               ELSE req[r].seen.stamp = (IF i = 0 THEN 0 ELSE obj[i].stamp)
    IN  Locking(r, "policy", Rows(PolicyOf(r), "update"), may, [req[r] EXCEPT !.row = i])

-----------------------------------------------------------------------------
(* Commits.  The trigger moves the version for what the data planes are sent. *)

Committed(r, before, table, bumps) ==
    /\ At(r, "commit") /\ obj' = table /\ version' = version + bumps
    /\ Audited(r, before) /\ Answer(r)
    /\ UNCHANGED <<acct, name, binding, mapping, load, ops>>

Bumps(kind) == IF kind \in PlaneKinds THEN 0 ELSE 1

Unused == {i \in Objects : obj[i] = Nothing}

NewRow(r) ==
    [req[r].new EXCEPT !.kind = TableOf(req[r].kind), !.stamp = req[r].n,
                       !.ws = IF req[r].over = {} THEN "none" ELSE CHOOSE w \in req[r].over : TRUE]

NameTaken(r) ==
    req[r].kind \notin {"key_issue", "token"} /\ Find(r, TableOf(req[r].kind), req[r].new.name) # {}

\* An insert: on conflict, nothing.
Create(r, kind) ==
    /\ At(r, "commit") /\ req[r].kind = kind
    /\ \/ /\ ~NameTaken(r)
          /\ \E i \in Unused : /\ \A j \in Unused : i <= j
                               /\ Committed(r, Nothing, [obj EXCEPT ![i] = NewRow(r)], Bumps(kind))
       \/ (NameTaken(r) \/ Unused = {}) /\ Refuse(r)

try_create_service(r) == Create(r, "service_create")
try_write_route(r) == Create(r, "route_create")
try_create_consumer(r) == Create(r, "consumer_create")
try_issue_key(r) == Create(r, "key_issue")
try_issue_data_plane_token(r) == Create(r, "token")

\* A data plane and its first token, in one transaction.
try_register_data_plane(r) ==
    /\ At(r, "commit") /\ req[r].kind = "plane"
    /\ \/ /\ ~NameTaken(r)
          /\ \E i, j \in Unused :
                /\ i < j /\ \A k \in Unused : k >= i /\ (k = i \/ k >= j)
                /\ Committed(r, Nothing,
                             [obj EXCEPT ![i] = NewRow(r),
                                         ![j] = [NewRow(r) EXCEPT !.kind = "token", !.owner = i]], 0)
       \/ (NameTaken(r) \/ Cardinality(Unused) < 2) /\ Refuse(r)

\* An update of the row locked: a new name must be free.  Settings the client did not send, val 0,
\* are kept.
Replace(r, kind) ==
    LET b == obj[req[r].row]
        n == [NewRow(r) EXCEPT !.val = IF @ = 0 THEN b.val ELSE @]
        taken == n.name # b.name /\ NameTaken(r)
        same == [n EXCEPT !.stamp = b.stamp, !.svc = b.svc] = b
    IN  /\ At(r, "commit") /\ req[r].kind = kind
        /\ \/ ~taken /\ ~same /\ Committed(r, b, [obj EXCEPT ![req[r].row] = n], 1)
           \/ (taken \/ same) /\ Refuse(r)

try_replace_service(r) == Replace(r, "service_replace")
ReplaceRoute(r) == Replace(r, "route_replace")

\* A delete of the row locked, once what goes with it is free.  A route's foreign key does not let
\* its service go: the statement would fail.
Delete(r, kind) ==
    LET i == req[r].row
        gone == {i} \cup Cascade(i)
    IN  /\ req[r].kind = kind /\ unused(i) /\ Free(r, Rows(gone, "update"))
        /\ Committed(r, obj[i], [j \in Objects |-> IF j \in gone THEN Deleted ELSE obj[j]], Bumps(kind))

try_delete_service(r) == Delete(r, "service_delete")
try_delete_route(r) == Delete(r, "route_delete")
try_delete_consumer(r) == Delete(r, "consumer_delete")
try_revoke_key(r) == Delete(r, "key_revoke")
try_delete_data_plane(r) == Delete(r, "plane_delete")
try_revoke_data_plane_token(r) == Delete(r, "token_revoke")

DeletePolicy(r, which) == req[r].new.name = which /\ Delete(r, "policy_delete")

try_delete_key_auth(r) == DeletePolicy(r, "key_auth")
try_delete_jwt(r) == DeletePolicy(r, "jwt")
try_delete_rate_limit(r) == DeletePolicy(r, "rate_limit")
try_delete_policy(r) == DeletePolicy(r, "other")

try_set_group(r) ==
    /\ req[r].kind = "group"
    /\ Committed(r, obj[req[r].row], [obj EXCEPT ![req[r].row].groups = req[r].new.groups], 1)

\* Mutant of PutPolicy: switched on over whatever was switched on meanwhile.
PutOver(r, which) ==
    LET i == IF req[r].row # 0 THEN req[r].row ELSE Only(PolicyOf(r))
    IN  /\ req[r].kind = "policy_put" /\ req[r].new.name = which
        /\ Committed(r, IF i = 0 THEN Nothing ELSE obj[i],
                     [obj EXCEPT ![IF i = 0 THEN CHOOSE j \in Unused : TRUE ELSE i] = NewRow(r)], 1)

\* The row found is changed; with none, one is made unless the unique index holds another by now
\* (Duplicate).
PutPolicy(r, which) ==
    LET i == req[r].row
    IN  /\ At(r, "commit") /\ req[r].kind = "policy_put" /\ req[r].new.name = which
        /\ \/ i # 0 /\ obj[i].val # req[r].new.val /\ Committed(r, obj[i], [obj EXCEPT ![i] = NewRow(r)], 1)
           \/ i # 0 /\ obj[i].val = req[r].new.val /\ Refuse(r)
           \/ /\ i = 0 /\ PolicyOf(r) = {}
              /\ \E j \in Unused : /\ \A k \in Unused : j <= k
                                   /\ Committed(r, Nothing, [obj EXCEPT ![j] = NewRow(r)], 1)
           \/ i = 0 /\ PolicyOf(r) = {} /\ Unused = {} /\ Refuse(r)

try_put_key_auth(r) == PutPolicy(r, "key_auth")
try_put_jwt(r) == PutPolicy(r, "jwt")
try_put_rate_limit(r) == PutPolicy(r, "rate_limit")
try_put_policy(r) == PutPolicy(r, "other")

\* A unique index finds what another request committed since this one looked.
Duplicate(r) ==
    /\ At(r, "commit")
    /\ \/ req[r].kind = "policy_put" /\ req[r].row = 0 /\ PolicyOf(r) # {}
       \/ req[r].kind = "ws_rename" /\ Named(req[r].name) # {}

-----------------------------------------------------------------------------
(* Handlers *)

\* workspace_in: the caller's role was enough when the request arrived.
workspace_in(by, over, kind) == \A w \in over : Exists(w) /\ effective(by, w) >= needs(kind)

One == {over \in load.scopes : Cardinality(over) = 1}

Ask(r, kind, by, over, f) ==
    /\ workspace_in(by, over, kind)
    /\ Arrive(r, [f EXCEPT !.kind = kind, !.by = by, !.over = over])

SeenIn(over, table, n) ==
    LET found == {i \in Objects : obj[i].kind = table /\ obj[i].ws \in over /\ obj[i].name = n}
    IN  IF found = {} THEN Nothing ELSE obj[Only(found)]

create_service(r) ==
    \E by \in load.callers, over \in One, n \in Names :
        Ask(r, "service_create", by, over, [Idle EXCEPT !.new.name = n, !.new.val = 1])

replace_service(r) ==
    \E by \in load.callers, over \in One, from \in Names, n \in Names, val \in {0, 2} :
        Ask(r, "service_replace", by, over,
            [Idle EXCEPT !.to = from, !.seen = SeenIn(over, "service", from),
                         !.new.name = n, !.new.val = val])

create_route(r) ==
    \E by \in load.callers, over \in One, n \in Names, s \in Names, hosts \in load.claims :
        Ask(r, "route_create", by, over,
            [Idle EXCEPT !.name = s, !.new.name = n, !.new.hosts = hosts, !.new.val = 1])

\* The client sends back the service it saw, by name, and that service's stamp if it has it.
replace_route(r) ==
    \E by \in load.callers, over \in One, from \in Names, n \in Names, hosts \in load.claims :
        LET seen == SeenIn(over, "route", from)
        IN  /\ seen # Nothing
            /\ \E stamp \in {0, obj[seen.svc].stamp} :
                  Ask(r, "route_replace", by, over,
                      [Idle EXCEPT !.to = from, !.seen = seen, !.role = stamp,
                                   !.name = obj[seen.svc].name, !.new.name = n, !.new.hosts = hosts])

DeleteNamed(r, kind, prefixes) ==
    \E by \in load.callers, over \in One, n \in Names, prefix \in prefixes :
        Ask(r, kind, by, over, [Idle EXCEPT !.to = n, !.role = prefix])

delete_service(r) == DeleteNamed(r, "service_delete", {0})
delete_route(r) == DeleteNamed(r, "route_delete", {0})
delete_consumer(r) == DeleteNamed(r, "consumer_delete", {0})

\* A key is named by its consumer and its prefix.
revoke_key(r) == DeleteNamed(r, "key_revoke", 0..load.ops)

create_consumer(r) ==
    \E by \in load.callers, over \in One, n \in Names :
        Ask(r, "consumer_create", by, over, [Idle EXCEPT !.new.name = n])

\* add_group and remove_group.
set_group(r) ==
    \E by \in load.callers, over \in One, n \in Names, g \in GroupNames, add \in {0, 1} :
        Ask(r, "group", by, over, [Idle EXCEPT !.to = n, !.name = g, !.role = add])

\* A key's prefix is drawn in the attempt.
issue_key(r) ==
    \E by \in load.callers, over \in One, n \in Names :
        Ask(r, "key_issue", by, over, [Idle EXCEPT !.name = n, !.new.name = n, !.new.val = ops + 1])

\* The policy of a name on a target, for everyone or as a consumer's own.
PolicyIn(over, which, to, owner) ==
    LET on == Only({i \in Objects : obj[i].kind \in {"service", "route"} /\ obj[i].ws \in over /\ obj[i].name = to})
        whose == Only({i \in Objects : obj[i].kind = "consumer" /\ obj[i].ws \in over /\ obj[i].name = owner})
    IN  {i \in Objects : /\ obj[i].kind = "plugin" /\ obj[i].ws \in over
                         /\ obj[i].name = which /\ obj[i].on = on /\ obj[i].owner = whose}

\* A policy on the workspace, a service or a route, and what its author was shown.
AskPolicy(r, kind, which, owners, vals) ==
    \E by \in load.callers, over \in One, to \in Names \cup {"none"}, owner \in owners, val \in vals :
        LET shown == PolicyIn(over, which, to, IF which = "other" THEN "none" ELSE owner)
        IN  /\ which \in load.policies
            /\ Ask(r, kind, by, over,
                   [Idle EXCEPT !.to = to, !.name = owner, !.new.name = which, !.new.val = val,
                                !.seen = IF shown = {} THEN Nothing ELSE obj[Only(shown)]])

put_key_auth(r) == AskPolicy(r, "policy_put", "key_auth", {"none"}, {1, 2})
put_jwt(r) == AskPolicy(r, "policy_put", "jwt", {"none"}, {1, 2})
put_rate_limit(r) == AskPolicy(r, "policy_put", "rate_limit", Names \cup {"none"}, {1, 2})
put_policy(r) == AskPolicy(r, "policy_put", "other", Names \cup {"none"}, {1, 2})

delete_key_auth(r) == AskPolicy(r, "policy_delete", "key_auth", {"none"}, {1})
delete_jwt(r) == AskPolicy(r, "policy_delete", "jwt", {"none"}, {1})
delete_rate_limit(r) == AskPolicy(r, "policy_delete", "rate_limit", Names \cup {"none"}, {1})
delete_policy(r) == AskPolicy(r, "policy_delete", "other", {"none"}, {1})

\* Data planes are a superuser's; the model has one name for them.
AskPlane(r, kind, prefixes, val) ==
    \E by \in load.callers, prefix \in prefixes :
        /\ may_write(by)
        /\ Arrive(r, [Idle EXCEPT !.kind = kind, !.by = by, !.to = "p", !.role = prefix,
                                  !.new.name = "p", !.name = "p", !.new.val = val])

register_data_plane(r) == AskPlane(r, "plane", {0}, 0)
issue_data_plane_token(r) == AskPlane(r, "token", {0}, ops + 1)
revoke_data_plane_token(r) == AskPlane(r, "token_revoke", 0..load.ops, 0)
delete_data_plane(r) == AskPlane(r, "plane_delete", {0}, 0)

-----------------------------------------------------------------------------
\* What each request waits for at its stage.
Wants == [r \in Reqs |->
    CASE At(r, "caller") -> CallerRow(r)
      [] At(r, "scope") -> ScopeRows(r)
      [] At(r, "bindings") -> BindingRows(r)
      [] At(r, "target") -> {<<<<"user", req[r].to>>, "keyshare">>}
      [] At(r, "held") -> {<<<<"bind", req[r].to, w>>, "update">> : w \in req[r].over}
      [] At(r, "held_mapping") -> {<<<<"map", req[r].to, w>>, "update">> : w \in req[r].over}
      [] At(r, "admins") -> AdminsLocks(r)
      [] At(r, "deletes") -> {<<<<"deletes">>, "update">>}
      [] At(r, "workspace") -> {<<<<"ws", w>>, "update">> : w \in Named(req[r].to)}
      [] At(r, "row") -> Rows(Find(r, TableOf(req[r].kind), req[r].to), "update")
      [] At(r, "hosts") -> {<<<<"hosts">>, "update">>}
      [] At(r, "service") -> Rows(Find(r, "service", req[r].name), "share")
      [] At(r, "object") -> Rows(TargetOf(r), "share")
      [] At(r, "owner") -> Rows(OwnerOf(r), "share")
      [] At(r, "policy") -> Rows(PolicyOf(r), "update")
      [] At(r, "commit") /\ req[r].row # 0 -> Rows({req[r].row} \cup Cascade(req[r].row), "update")
      [] OTHER -> {}]

\* retrying: a transaction the database aborted runs again from its first statement.
Retry(r) ==
    /\ Deadlocked(r, Wants) \/ Duplicate(r)
    /\ \/ /\ req[r].tried < Attempts
          /\ req' = [req EXCEPT ![r] = [req[r] EXCEPT !.path = Program(req[r].kind),
                                                      !.tried = req[r].tried + 1, !.row = 0]]
          /\ locks' = Released(r)
       \/ req[r].tried = Attempts /\ Answer(r)
    /\ UNCHANGED <<tables, load, ops, audit, hands>>

\* lock_timeout, or a client that hangs up: the transaction is undone.
GiveUp(r) == req[r].path # <<>> /\ Refuse(r)

HandleGrants(r) ==
    set_roles(r) \/ put_mapping(r) \/ create_workspace(r) \/ rename_workspace(r) \/ delete_workspace(r)

HandleObjects(r) ==
    \/ create_service(r) \/ replace_service(r) \/ delete_service(r)
    \/ create_route(r) \/ replace_route(r) \/ delete_route(r)
    \/ create_consumer(r) \/ delete_consumer(r) \/ set_group(r) \/ issue_key(r) \/ revoke_key(r)
    \/ register_data_plane(r) \/ delete_data_plane(r)
    \/ issue_data_plane_token(r) \/ revoke_data_plane_token(r)

HandlePolicies(r) ==
    \/ put_key_auth(r) \/ put_jwt(r) \/ put_rate_limit(r) \/ put_policy(r)
    \/ delete_key_auth(r) \/ delete_jwt(r) \/ delete_rate_limit(r) \/ delete_policy(r)

Handle(r) ==
    /\ req[r].path = <<>> /\ ops < load.ops
    /\ HandleGrants(r) \/ HandleObjects(r) \/ HandlePolicies(r)

Locks(r) ==
    \/ Caller(r) \/ Scope(r) \/ Bindings(r) \/ Target(r) \/ Held(r) \/ HeldMapping(r)
    \/ keeps_an_admin(r) \/ DeletesLock(r) \/ WorkspaceRow(r) \/ Row(r) \/ may_route(r)
    \/ Service(r) \/ target_row(r) \/ consumer_row(r) \/ plugin_row(r)

Commits(r) ==
    \/ CommitGrant(r) \/ try_create_workspace(r) \/ try_rename_workspace(r) \/ try_delete_workspace(r)
    \/ try_create_service(r) \/ try_replace_service(r) \/ try_delete_service(r)
    \/ try_write_route(r) \/ ReplaceRoute(r) \/ try_delete_route(r)
    \/ try_create_consumer(r) \/ try_delete_consumer(r) \/ try_set_group(r)
    \/ try_issue_key(r) \/ try_revoke_key(r)
    \/ try_register_data_plane(r) \/ try_delete_data_plane(r)
    \/ try_issue_data_plane_token(r) \/ try_revoke_data_plane_token(r)
    \/ try_put_key_auth(r) \/ try_put_jwt(r) \/ try_put_rate_limit(r) \/ try_put_policy(r)
    \/ try_delete_key_auth(r) \/ try_delete_jwt(r) \/ try_delete_rate_limit(r) \/ try_delete_policy(r)

Stage(r) == req[r].path # <<>> /\ IF At(r, "commit") THEN Commits(r) ELSE Locks(r)

Init ==
    /\ load \in Loads
    /\ acct = load.acct /\ name = load.name /\ binding = load.binding /\ mapping = load.mapping
    /\ obj = load.obj /\ version = 0 /\ ops = 0 /\ locks = {} /\ hands = 0
    /\ req = [r \in Reqs |-> Idle]
    /\ audit = [kind |-> "none", by |-> "none", seen |-> Nothing, before |-> Nothing, right |-> TRUE]

Next == (\E r \in Reqs : Handle(r) \/ Stage(r) \/ Retry(r) \/ GiveUp(r)) \/ ChangeAccount \/ SignIn

Spec == Init /\ [][Next]_vars
-----------------------------------------------------------------------------
(* Properties *)

TypeOK ==
    /\ \A r \in Reqs : req[r].tried \in 1..Attempts /\ req[r].over \subseteq WorkspaceIds
                       /\ req[r].row \in Objects \cup {0}
    /\ \A l \in locks : l.by \in Reqs /\ l.mode \in Modes /\ req[l.by].path # <<>>
    /\ \A i \in Objects : obj[i].svc \in Objects \cup {0} /\ obj[i].on \in Objects \cup {0}

\* A write into a workspace is committed by an account that has the role for it at the commit, not
\* only when the request was let in: rights locks every row the right rests on.
RightsHeld == audit.right

\* Since its count of the admins a superuser wrote, or someone signed in with other groups.
Overtaken(r) == req[r].counted # hands

\* Admins who take roles from each other leave a workspace one admin of its own, by a role or by a
\* group, however their grants interleave (keeps_an_admin, store/grants.rs).  What the rule does not
\* promise is left out: a superuser's write and a sign-in with other groups are not counted, and a
\* grant that had counted before one of them may commit after it.
AdminRemains ==
    [][\A w \in WorkspaceIds :
          (/\ AdminLeft(binding, mapping, w) /\ hands' = hands
           /\ \A r \in Reqs : Overtaken(r) => req'[r] = req[r])
          => AdminLeft(binding, mapping, w)']_vars

\* Nothing is left in, or written into, a workspace that has been deleted: no row and no role
\* (try_delete_workspace FOR UPDATE against rights FOR SHARE).
NothingInDeletedWorkspace == Housed(obj, name, binding, mapping)

\* Two deletes do not each leave the other's workspace as the last one (DELETES_LOCK).
LastWorkspaceKept == \E w \in WorkspaceIds : Exists(w)

\* No request's host is claimed by routes of two workspaces, whatever two saves at one moment do
\* (HOSTS_LOCK in may_route).
OneWorkspacePerHost == Apart(obj)

\* A delete takes what it was asked for and no more: a row goes by a delete of its own kind, or as
\* a consumer's own policy or key, or a data plane's token, with the one it belongs to.  So no
\* cascade takes a policy that was put on a service or route after its delete found none
\* (no_policies under the row's lock), and deleting a workspace that was found empty takes no row.
NothingLostUnseen ==
    [][\A i \in Objects : Live(i) /\ obj'[i].kind = "none" =>
          \/ audit'.kind \in Deletes(obj[i].kind)
          \/ obj[i].owner # 0 /\ obj'[obj[i].owner].kind = "none"]_vars

\* A request about one group of a consumer adds or takes away that one and no other, at the limit
\* too, through any two requests at once (groups read FOR UPDATE and written whole, try_set_group).
GroupsChangeSingly ==
    [][\A i \in Objects : obj[i].kind = "consumer" /\ obj'[i].kind = "consumer" =>
          Cardinality((obj[i].groups \ obj'[i].groups) \cup (obj'[i].groups \ obj[i].groups)) <= 1
          /\ Cardinality(obj'[i].groups) <= MaxGroups]_vars

\* A save is written over exactly the row its author was shown, or refused as stale
\* (updated_at compared FOR UPDATE, and the unique index where there was no row).
NoLostUpdate == audit.kind \in SavedOver => audit.before = audit.seen

\* Whatever the data planes are sent has a version of its own: no change of a workspace's name or
\* of its configuration is committed under an old one.
ChangesAreVersioned ==
    [][(\/ \E i \in Objects : obj'[i] # obj[i] /\ {obj[i].kind, obj'[i].kind} \cap {"plane", "token"} = {}
        \/ \E w \in WorkspaceIds : name[w] # "none" /\ name'[w] # "none" /\ name'[w] # name[w])
       => version' > version]_vars

\* A save that sends back the service its author saw, with its stamp, leaves the route on that
\* service, or is refused: "the save is stale whatever the name it carries now resolves to"
\* (store/configuration.rs).
RouteStaysOnSeenService ==
    [][\A r \in Reqs : (req[r].kind = "route_replace" /\ req[r].role # 0 /\ req[r].row # 0 /\ req'[r] # req[r])
          => obj'[req[r].row].svc = obj[req[r].row].svc]_vars
=============================================================================
