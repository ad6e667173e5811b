------------------------ MODULE ConfigurationProofs ------------------------
(***************************************************************************)
(* The console's writes to its workspaces, for any number of requests at   *)
(* once, accounts, workspaces and rows: what a write rests on is locked    *)
(* from the moment it was read until the commit, so it still holds then.   *)
(*                                                                         *)
(* The invariant says of every request what it knows at its stage, and     *)
(* which of its locks keeps that true.  Locks that conflict are never held *)
(* by two requests, so another request's write leaves all of it alone.     *)
(***************************************************************************)
EXTENDS Configuration, FiniteSetTheorems, TLAPS

SuperKinds == WorkspaceKinds \cup PlaneKinds
RouteKinds == {"route_create", "route_replace"}
CreateKinds == {"service_create", "consumer_create", "key_issue", "route_create"}
RowKinds == {"service_replace", "service_delete", "route_replace", "route_delete", "consumer_delete",
             "group", "key_revoke", "plane_delete", "token_revoke"}
OwnerKinds == PolicyKinds \cup {"key_issue", "token"}
RoomKinds == CreateKinds \cup PolicyKinds \cup (RowKinds \ PlaneKinds)
RightsKinds == GrantKinds \cup RoomKinds
AllKinds == RightsKinds \cup SuperKinds

\* What is left of each program, from its start to its end.
Paths(kind) ==
    CASE kind = "none" -> {<<>>}
      [] kind = "roles" ->
            {<<"caller", "scope", "bindings", "target", "held", "admins", "commit">>,
             <<"scope", "bindings", "target", "held", "admins", "commit">>,
             <<"bindings", "target", "held", "admins", "commit">>,
             <<"target", "held", "admins", "commit">>, <<"held", "admins", "commit">>,
             <<"admins", "commit">>, <<"commit">>}
      [] kind = "mapping" ->
            {<<"caller", "scope", "bindings", "held_mapping", "admins", "commit">>,
             <<"scope", "bindings", "held_mapping", "admins", "commit">>,
             <<"bindings", "held_mapping", "admins", "commit">>,
             <<"held_mapping", "admins", "commit">>, <<"admins", "commit">>, <<"commit">>}
      [] kind \in {"ws_create", "plane"} -> {<<"caller", "commit">>, <<"commit">>}
      [] kind = "ws_rename" -> {<<"caller", "workspace", "commit">>, <<"workspace", "commit">>, <<"commit">>}
      [] kind = "ws_delete" ->
            {<<"caller", "deletes", "workspace", "commit">>, <<"deletes", "workspace", "commit">>,
             <<"workspace", "commit">>, <<"commit">>}
      [] kind = "token" -> {<<"caller", "owner", "commit">>, <<"owner", "commit">>, <<"commit">>}
      [] kind \in {"plane_delete", "token_revoke"} ->
            {<<"caller", "row", "commit">>, <<"row", "commit">>, <<"commit">>}
      [] kind \in {"service_create", "consumer_create"} ->
            {<<"caller", "scope", "bindings", "commit">>, <<"scope", "bindings", "commit">>,
             <<"bindings", "commit">>, <<"commit">>}
      [] kind = "key_issue" ->
            {<<"caller", "scope", "bindings", "owner", "commit">>, <<"scope", "bindings", "owner", "commit">>,
             <<"bindings", "owner", "commit">>, <<"owner", "commit">>, <<"commit">>}
      [] kind = "route_create" ->
            {<<"caller", "scope", "bindings", "hosts", "service", "commit">>,
             <<"scope", "bindings", "hosts", "service", "commit">>,
             <<"bindings", "hosts", "service", "commit">>,
             <<"hosts", "service", "commit">>, <<"service", "commit">>, <<"commit">>}
      [] kind = "route_replace" ->
            {<<"caller", "scope", "bindings", "row", "hosts", "service", "commit">>,
             <<"scope", "bindings", "row", "hosts", "service", "commit">>,
             <<"bindings", "row", "hosts", "service", "commit">>,
             <<"row", "hosts", "service", "commit">>,
             <<"hosts", "service", "commit">>, <<"service", "commit">>, <<"commit">>}
      [] kind \in {"policy_put", "policy_delete"} ->
            {<<"caller", "scope", "bindings", "object", "owner", "policy", "commit">>,
             <<"scope", "bindings", "object", "owner", "policy", "commit">>,
             <<"bindings", "object", "owner", "policy", "commit">>,
             <<"object", "owner", "policy", "commit">>,
             <<"owner", "policy", "commit">>, <<"policy", "commit">>, <<"commit">>}
      [] kind \in {"service_replace", "service_delete", "route_delete", "consumer_delete", "group",
                   "key_revoke"} ->
            {<<"caller", "scope", "bindings", "row", "commit">>, <<"scope", "bindings", "row", "commit">>,
             <<"bindings", "row", "commit">>, <<"row", "commit">>, <<"commit">>}

\* Stage g follows stage h in the program of a kind.
Leads(kind, h, g) ==
    /\ g # "caller"
    /\ kind \in RightsKinds => (h = "caller" => g = "scope") /\ (h = "scope" => g = "bindings")
    /\ g = "admins" => (kind = "roles" /\ h = "held") \/ (kind = "mapping" /\ h = "held_mapping")
    /\ g = "owner" /\ kind \in PolicyKinds => h = "object"
    /\ g = "policy" => h = "owner"
    /\ g = "service" => h = "hosts"
    /\ g = "hosts" => h = "row" \/ kind = "route_create"
    /\ g = "commit" =>
          /\ kind \in GrantKinds => h = "admins"
          /\ kind \in {"ws_rename", "ws_delete"} => h = "workspace"
          /\ kind \in RouteKinds => h = "service"
          /\ kind \in RowKinds \ RouteKinds => h = "row"
          /\ kind \in PolicyKinds => h = "policy"
          /\ kind \in OwnerKinds \ PolicyKinds => h = "owner"

\* The kinds of request that have a stage.
Has(kind, h) ==
    /\ h \in {"scope", "bindings"} => kind \in RightsKinds
    /\ h \in {"target", "held"} => kind = "roles"
    /\ h = "held_mapping" => kind = "mapping"
    /\ h = "admins" => kind \in GrantKinds
    /\ h = "deletes" => kind = "ws_delete"
    /\ h = "workspace" => kind \in {"ws_rename", "ws_delete"}
    /\ h = "row" => kind \in RowKinds
    /\ h \in {"hosts", "service"} => kind \in RouteKinds
    /\ h \in {"object", "policy"} => kind \in PolicyKinds
    /\ h = "owner" => kind \in OwnerKinds

-----------------------------------------------------------------------------
(***************************************************************************)
(* The invariant.  What a request knows is stated of any tables and locks  *)
(* (A the accounts, N the workspaces' names, B and M the bindings and      *)
(* mappings, O the rows, L the locks), so that it can be asked of the ones *)
(* before a step and of the ones after.                                    *)
(***************************************************************************)
AllPaths == UNION {Paths(k) : k \in AllKinds \cup {"none"}}

Request == [path : AllPaths, kind : AllKinds \cup {"none"}, by : Users \cup {"none"},
            over : SUBSET WorkspaceIds, to : Users \cup Groups \cup RowNames, role : Nat,
            name : RowNames \cup GroupNames, new : ObjectRow, seen : ObjectRow, row : Objects \cup {0},
            n : Nat, tried : Nat, counted : Nat]

Active(q) == q.path # <<>>

\* A request as its handler made it.
Proper(q) ==
    /\ q.kind \in AllKinds /\ q.by \in Users
    /\ q.kind = "roles" => q.to \in Users /\ q.role \in 0..3
    /\ q.kind = "mapping" => q.to \in Groups /\ q.role \in 0..3
    /\ q.kind \in {"ws_create", "ws_rename"} => q.name \in Names
    /\ q.kind = "group" => q.name \in GroupNames
    /\ q.kind \in RoomKinds => \E w \in WorkspaceIds : q.over = {w}
    /\ q.kind \in PlaneKinds => q.over = {}
    /\ q.kind \notin RouteKinds => q.new.svc = 0
    /\ q.kind \notin PolicyKinds => q.new.on = 0
    /\ q.kind \notin OwnerKinds => q.new.owner = 0

Sound(q) == q \in Request /\ q.path \in Paths(q.kind) /\ (Active(q) => Proper(q))

\* No two requests hold locks that conflict.
Exclusive ==
    \A l, m \in locks : l.by # m.by /\ l.row = m.row => <<l.mode, m.mode>> \notin Conflict

\* A row of the configuration that a request has locked.
Holds(L, r, i, mode) == Lock(r, <<"obj", i>>, mode) \in L

Past(q, stages) == Active(q) /\ Head(q.path) \notin stages

Reached(q, stages) == Active(q) /\ Head(q.path) \in stages

\* The caller's row is locked, and who must be a superuser is one.
KnowsCaller(r, q, L, A) ==
    Past(q, {"caller"}) =>
        /\ Lock(r, <<"user", q.by>>, "share") \in L
        /\ q.kind \in SuperKinds => A[q.by].super /\ ~A[q.by].disabled

\* The workspaces are there, and locked.
KnowsScope(r, q, L, N) ==
    Past(q, {"caller", "scope"}) /\ q.kind \in RightsKinds =>
        \A w \in q.over : N[w] # "none" /\ Lock(r, <<"ws", w>>, "share") \in L

\* A role that is enough, in a row that is locked.
Backed(r, q, L, A, B, M, w) ==
    /\ ~A[q.by].disabled
    /\ \/ A[q.by].super
       \/ B[<<q.by, w>>] >= needs(q.kind) /\ Lock(r, <<"bind", q.by, w>>, "share") \in L
       \/ \E g \in A[q.by].groups : M[<<g, w>>] >= needs(q.kind) /\ Lock(r, <<"map", g, w>>, "share") \in L

KnowsRight(r, q, L, A, B, M) ==
    Past(q, {"caller", "scope", "bindings"}) /\ q.kind \in RightsKinds =>
        \A w \in q.over : Backed(r, q, L, A, B, M, w)

\* The grants that will change are locked.
KnowsGrant(r, q, L) ==
    Reached(q, {"admins", "commit"}) =>
        \A w \in q.over : /\ q.kind = "roles" => Lock(r, <<"bind", q.to, w>>, "update") \in L
                          /\ q.kind = "mapping" => Lock(r, <<"map", q.to, w>>, "update") \in L

\* No one else counts the admins there.
KnowsCount(r, q, L, A) ==
    Reached(q, {"commit"}) /\ q.kind \in GrantKinds /\ ~A[q.by].super =>
        \A w \in q.over : Lock(r, <<"admins", w>>, "update") \in L

Entitled(r, q, L, A, N, B, M) ==
    /\ KnowsCaller(r, q, L, A) /\ KnowsScope(r, q, L, N) /\ KnowsRight(r, q, L, A, B, M)
    /\ KnowsGrant(r, q, L) /\ KnowsCount(r, q, L, A)

\* No row is in a workspace, no route is on a service, no policy on a service or route.
Vacant(O, w) == \A i \in Objects : O[i].kind # "none" => O[i].ws # w

Unrouted(O, s) == \A i \in Objects : O[i].kind # "none" => O[i].svc # s

Unpoliced(O, s) == \A i \in Objects : O[i].kind = "plugin" => O[i].on # s

\* The workspaces that will be renamed or deleted are locked, the latter empty.
KnowsWorkspace(r, q, L, O) ==
    Reached(q, {"commit"}) /\ q.kind \in {"ws_rename", "ws_delete"} =>
        \A w \in q.over : Lock(r, <<"ws", w>>, "update") \in L /\ (q.kind = "ws_delete" => Vacant(O, w))

\* The row that will be changed is locked: of its table, and what its author was shown.
KnowsRow(r, q, L, O) ==
    /\ q.row # 0 => /\ Active(q) /\ Holds(L, r, q.row, "update")
                    /\ O[q.row].kind # "none" /\ O[q.row].kind = TableOf(q.kind)
                    /\ q.kind \in SavedOver => O[q.row] = q.seen
                    /\ q.kind = "service_delete" => Unrouted(O, q.row)
                    /\ q.kind \in {"service_delete", "route_delete"} => Unpoliced(O, q.row)
    /\ Reached(q, {"hosts", "service", "commit"}) /\ q.kind \in RowKinds => q.row # 0
    /\ Reached(q, {"commit"}) /\ q.kind = "policy_delete" => q.row # 0
    /\ Reached(q, {"commit"}) /\ q.kind = "policy_put" /\ q.row = 0 => q.seen = Nothing

\* No route of another workspace has a host that overlaps, and none can be written.
KnowsHosts(r, q, L, O) ==
    Reached(q, {"service", "commit"}) /\ q.kind \in RouteKinds =>
        /\ Lock(r, <<"hosts">>, "update") \in L
        /\ \A i \in Objects : O[i].kind = "route" /\ O[i].ws \notin q.over =>
              \A h \in q.new.hosts, t \in O[i].hosts : ~hosts_overlap(h, t)

\* What the new row is attached to is there, and locked.
KnowsService(r, q, L, O) ==
    Reached(q, {"commit"}) /\ q.kind \in RouteKinds =>
        q.new.svc # 0 /\ O[q.new.svc].kind = "service" /\ Holds(L, r, q.new.svc, "share")

KnowsObject(r, q, L, O) ==
    Reached(q, {"owner", "policy", "commit"}) /\ q.kind \in PolicyKinds /\ q.new.on # 0 =>
        O[q.new.on].kind \in {"service", "route"} /\ Holds(L, r, q.new.on, "share")

KnowsOwner(r, q, L, O) ==
    Reached(q, {"policy", "commit"}) /\ q.kind \in OwnerKinds /\ q.new.owner # 0 =>
        O[q.new.owner].kind \in {"consumer", "plane"} /\ Holds(L, r, q.new.owner, "share")

Informed(r, q, L, O) ==
    /\ KnowsWorkspace(r, q, L, O) /\ KnowsRow(r, q, L, O) /\ KnowsHosts(r, q, L, O)
    /\ KnowsService(r, q, L, O) /\ KnowsObject(r, q, L, O) /\ KnowsOwner(r, q, L, O)

\* An admin of a workspace who is left once a grant is written.
After(q, kind, T, x, w) == IF q.kind = kind /\ x = q.to /\ w \in q.over THEN q.role ELSE T[<<x, w>>]

LeavesAdmin(q, A, B, M, w) ==
    \E u \in Users : /\ ~A[u].disabled /\ ~A[u].super
                     /\ \/ After(q, "roles", B, u, w) = 3
                        \/ \E g \in A[u].groups : After(q, "mapping", M, g, w) = 3

\* As long as no superuser and no sign-in overtakes its count: the workspaces keep an admin.
KnowsAdmins(q, A, B, M, hand) ==
    /\ q.counted \in 0..hand
    /\ Reached(q, {"commit"}) /\ q.kind \in GrantKinds /\ q.counted = hand /\ ~A[q.by].super =>
          \A w \in q.over : LeavesAdmin(q, A, B, M, w)

\* A stamp some row has had: of the load, or of one of the n requests that have arrived.
Given(stamp, n, first) == stamp > first \/ stamp \in 1..n

\* The rows that are saved over what an author was shown.
SavedTables == {"service", "route", "plugin"}

\* No two of them, and no row and no request still running, share a stamp.
Stamped(Q, O, n, first) ==
    /\ \A i \in Objects : O[i].kind # "none" => Given(O[i].stamp, n, first)
    /\ \A i, j \in Objects : {O[i].kind, O[j].kind} \subseteq SavedTables /\ O[i].stamp = O[j].stamp => i = j
    /\ \A r \in Reqs : Active(Q[r]) => Q[r].n \in 1..n
    /\ \A r, s \in Reqs : Active(Q[r]) /\ Active(Q[s]) /\ Q[r].n = Q[s].n => r = s
    /\ \A r \in Reqs, i \in Objects : Active(Q[r]) /\ O[i].kind # "none" => O[i].stamp # Q[r].n

\* What a request was shown is what is there under that stamp.
Shown(Q, O, n, first) ==
    \A r \in Reqs : Active(Q[r]) =>
        /\ Q[r].seen = Nothing \/ Given(Q[r].seen.stamp, n, first)
        /\ \A s \in Reqs : Active(Q[s]) => Q[r].seen.stamp # Q[s].n
        /\ \A i \in Objects : O[i].kind \in SavedTables /\ O[i].stamp = Q[r].seen.stamp =>
              O[i] = Q[r].seen

TablesTyped ==
    /\ acct \in [Users -> AccountRow] /\ name \in [WorkspaceIds -> Names \cup {"none"}]
    /\ binding \in [Users \X WorkspaceIds -> 0..3] /\ mapping \in [Groups \X WorkspaceIds -> 0..3]
    /\ obj \in [Objects -> ObjectRow] /\ load \in Loads /\ ops \in 0..load.ops /\ hands \in Nat

RowsFit == Attached(obj) /\ Apart(obj) /\ Housed(obj, name, binding, mapping)

ConfigInv ==
    /\ TablesTyped /\ Exclusive /\ RowsFit
    /\ DOMAIN req = Reqs /\ (\A r \in Reqs : Sound(req[r]))
    /\ \A r \in Reqs : Entitled(r, req[r], locks, acct, name, binding, mapping)
    /\ \A r \in Reqs : Informed(r, req[r], locks, obj)
    /\ \A r \in Reqs : KnowsAdmins(req[r], acct, binding, mapping, hands)
    /\ Stamped(req, obj, ops, load.ops) /\ Shown(req, obj, ops, load.ops)
    /\ RightsHeld /\ NoLostUpdate

-----------------------------------------------------------------------------
(* Programs *)

\* The first stage of a path fits its kind, and what is left is a path too.
Along(k, p) ==
    /\ Has(k, Head(p))
    /\ Head(p) # "commit" => Tail(p) \in Paths(k) /\ Tail(p) # <<>> /\ Leads(k, Head(p), Head(Tail(p)))

LEMMA Steps ==
    ASSUME NEW k \in AllKinds, NEW p \in Paths(k), p # <<>>
    PROVE  Along(k, p)
  <1> USE DEF PolicyKinds, PlaneKinds, WorkspaceKinds, GrantKinds, RightsKinds, RoomKinds, CreateKinds,
            RowKinds,
              OwnerKinds, RouteKinds
  <1>0. Has(k, "commit") /\ Has(k, "caller")
    BY DEF Has
  <1>1. CASE k = "roles"
    <2>1. Paths(k) = {<<"caller", "scope", "bindings", "target", "held", "admins", "commit">>,
                      <<"scope", "bindings", "target", "held", "admins", "commit">>,
                      <<"bindings", "target", "held", "admins", "commit">>,
                      <<"target", "held", "admins", "commit">>, <<"held", "admins", "commit">>,
                      <<"admins", "commit">>, <<"commit">>}
      BY <1>1 DEF Paths
    <2>2. /\ Along(k, <<"caller", "scope", "bindings", "target", "held", "admins", "commit">>)
          /\ Along(k, <<"scope", "bindings", "target", "held", "admins", "commit">>)
          /\ Along(k, <<"bindings", "target", "held", "admins", "commit">>)
          /\ Along(k, <<"target", "held", "admins", "commit">>)
          /\ Along(k, <<"held", "admins", "commit">>)
          /\ Along(k, <<"admins", "commit">>)
          /\ Along(k, <<"commit">>)
      BY <1>1, <1>0, <2>1 DEF Along, Has, Leads
    <2> QED BY <2>1, <2>2, Zenon
  <1>2. CASE k = "mapping"
    <2>1. Paths(k) = {<<"caller", "scope", "bindings", "held_mapping", "admins", "commit">>,
                      <<"scope", "bindings", "held_mapping", "admins", "commit">>,
                      <<"bindings", "held_mapping", "admins", "commit">>,
                      <<"held_mapping", "admins", "commit">>, <<"admins", "commit">>, <<"commit">>}
      BY <1>2 DEF Paths
    <2>2. /\ Along(k, <<"caller", "scope", "bindings", "held_mapping", "admins", "commit">>)
          /\ Along(k, <<"scope", "bindings", "held_mapping", "admins", "commit">>)
          /\ Along(k, <<"bindings", "held_mapping", "admins", "commit">>)
          /\ Along(k, <<"held_mapping", "admins", "commit">>)
          /\ Along(k, <<"admins", "commit">>)
          /\ Along(k, <<"commit">>)
      BY <1>2, <1>0, <2>1 DEF Along, Has, Leads
    <2> QED BY <2>1, <2>2, Zenon
  <1>3. CASE k \in {"ws_create", "plane"}
    <2>1. Paths(k) = {<<"caller", "commit">>, <<"commit">>}
      BY <1>3 DEF Paths
    <2>2. /\ Along(k, <<"caller", "commit">>)
          /\ Along(k, <<"commit">>)
      BY <1>3, <1>0, <2>1 DEF Along, Has, Leads
    <2> QED BY <2>1, <2>2, Zenon
  <1>4. CASE k = "ws_rename"
    <2>1. Paths(k) = {<<"caller", "workspace", "commit">>, <<"workspace", "commit">>, <<"commit">>}
      BY <1>4 DEF Paths
    <2>2. /\ Along(k, <<"caller", "workspace", "commit">>)
          /\ Along(k, <<"workspace", "commit">>)
          /\ Along(k, <<"commit">>)
      BY <1>4, <1>0, <2>1 DEF Along, Has, Leads
    <2> QED BY <2>1, <2>2, Zenon
  <1>5. CASE k = "ws_delete"
    <2>1. Paths(k) = {<<"caller", "deletes", "workspace", "commit">>,
                      <<"deletes", "workspace", "commit">>, <<"workspace", "commit">>, <<"commit">>}
      BY <1>5 DEF Paths
    <2>2. /\ Along(k, <<"caller", "deletes", "workspace", "commit">>)
          /\ Along(k, <<"deletes", "workspace", "commit">>)
          /\ Along(k, <<"workspace", "commit">>)
          /\ Along(k, <<"commit">>)
      BY <1>5, <1>0, <2>1 DEF Along, Has, Leads
    <2> QED BY <2>1, <2>2, Zenon
  <1>6. CASE k = "token"
    <2>1. Paths(k) = {<<"caller", "owner", "commit">>, <<"owner", "commit">>, <<"commit">>}
      BY <1>6 DEF Paths
    <2>2. /\ Along(k, <<"caller", "owner", "commit">>)
          /\ Along(k, <<"owner", "commit">>)
          /\ Along(k, <<"commit">>)
      BY <1>6, <1>0, <2>1 DEF Along, Has, Leads
    <2> QED BY <2>1, <2>2, Zenon
  <1>7. CASE k \in {"plane_delete", "token_revoke"}
    <2>1. Paths(k) = {<<"caller", "row", "commit">>, <<"row", "commit">>, <<"commit">>}
      BY <1>7 DEF Paths
    <2>2. /\ Along(k, <<"caller", "row", "commit">>)
          /\ Along(k, <<"row", "commit">>)
          /\ Along(k, <<"commit">>)
      BY <1>7, <1>0, <2>1 DEF Along, Has, Leads
    <2> QED BY <2>1, <2>2, Zenon
  <1>8. CASE k \in {"service_create", "consumer_create"}
    <2>1. Paths(k) = {<<"caller", "scope", "bindings", "commit">>, <<"scope", "bindings", "commit">>,
                      <<"bindings", "commit">>, <<"commit">>}
      BY <1>8 DEF Paths
    <2>2. /\ Along(k, <<"caller", "scope", "bindings", "commit">>)
          /\ Along(k, <<"scope", "bindings", "commit">>)
          /\ Along(k, <<"bindings", "commit">>)
          /\ Along(k, <<"commit">>)
      BY <1>8, <1>0, <2>1 DEF Along, Has, Leads
    <2> QED BY <2>1, <2>2, Zenon
  <1>9. CASE k = "key_issue"
    <2>1. Paths(k) = {<<"caller", "scope", "bindings", "owner", "commit">>,
                      <<"scope", "bindings", "owner", "commit">>, <<"bindings", "owner", "commit">>,
                      <<"owner", "commit">>, <<"commit">>}
      BY <1>9 DEF Paths
    <2>2. /\ Along(k, <<"caller", "scope", "bindings", "owner", "commit">>)
          /\ Along(k, <<"scope", "bindings", "owner", "commit">>)
          /\ Along(k, <<"bindings", "owner", "commit">>)
          /\ Along(k, <<"owner", "commit">>)
          /\ Along(k, <<"commit">>)
      BY <1>9, <1>0, <2>1 DEF Along, Has, Leads
    <2> QED BY <2>1, <2>2, Zenon
  <1>10. CASE k = "route_create"
    <2>1. Paths(k) = {<<"caller", "scope", "bindings", "hosts", "service", "commit">>,
                      <<"scope", "bindings", "hosts", "service", "commit">>,
                      <<"bindings", "hosts", "service", "commit">>, <<"hosts", "service", "commit">>,
                      <<"service", "commit">>, <<"commit">>}
      BY <1>10 DEF Paths
    <2>2. /\ Along(k, <<"caller", "scope", "bindings", "hosts", "service", "commit">>)
          /\ Along(k, <<"scope", "bindings", "hosts", "service", "commit">>)
          /\ Along(k, <<"bindings", "hosts", "service", "commit">>)
          /\ Along(k, <<"hosts", "service", "commit">>)
          /\ Along(k, <<"service", "commit">>)
          /\ Along(k, <<"commit">>)
      BY <1>10, <1>0, <2>1 DEF Along, Has, Leads
    <2> QED BY <2>1, <2>2, Zenon
  <1>11. CASE k = "route_replace"
    <2>1. Paths(k) = {<<"caller", "scope", "bindings", "row", "hosts", "service", "commit">>,
                      <<"scope", "bindings", "row", "hosts", "service", "commit">>,
                      <<"bindings", "row", "hosts", "service", "commit">>,
                      <<"row", "hosts", "service", "commit">>, <<"hosts", "service", "commit">>,
                      <<"service", "commit">>, <<"commit">>}
      BY <1>11 DEF Paths
    <2>2. /\ Along(k, <<"caller", "scope", "bindings", "row", "hosts", "service", "commit">>)
          /\ Along(k, <<"scope", "bindings", "row", "hosts", "service", "commit">>)
          /\ Along(k, <<"bindings", "row", "hosts", "service", "commit">>)
          /\ Along(k, <<"row", "hosts", "service", "commit">>)
          /\ Along(k, <<"hosts", "service", "commit">>)
          /\ Along(k, <<"service", "commit">>)
          /\ Along(k, <<"commit">>)
      BY <1>11, <1>0, <2>1 DEF Along, Has, Leads
    <2> QED BY <2>1, <2>2, Zenon
  <1>12. CASE k \in {"policy_put", "policy_delete"}
    <2>1. Paths(k) = {<<"caller", "scope", "bindings", "object", "owner", "policy", "commit">>,
                      <<"scope", "bindings", "object", "owner", "policy", "commit">>,
                      <<"bindings", "object", "owner", "policy", "commit">>,
                      <<"object", "owner", "policy", "commit">>, <<"owner", "policy", "commit">>,
                      <<"policy", "commit">>, <<"commit">>}
      BY <1>12 DEF Paths
    <2>2. /\ Along(k, <<"caller", "scope", "bindings", "object", "owner", "policy", "commit">>)
          /\ Along(k, <<"scope", "bindings", "object", "owner", "policy", "commit">>)
          /\ Along(k, <<"bindings", "object", "owner", "policy", "commit">>)
          /\ Along(k, <<"object", "owner", "policy", "commit">>)
          /\ Along(k, <<"owner", "policy", "commit">>)
          /\ Along(k, <<"policy", "commit">>)
          /\ Along(k, <<"commit">>)
      BY <1>12, <1>0, <2>1 DEF Along, Has, Leads
    <2> QED BY <2>1, <2>2, Zenon
  <1>13. CASE k \in {"service_replace", "service_delete", "route_delete", "consumer_delete", "group",
                      "key_revoke"}
    <2>1. Paths(k) = {<<"caller", "scope", "bindings", "row", "commit">>,
                      <<"scope", "bindings", "row", "commit">>, <<"bindings", "row", "commit">>,
                      <<"row", "commit">>, <<"commit">>}
      BY <1>13 DEF Paths
    <2>2. /\ Along(k, <<"caller", "scope", "bindings", "row", "commit">>)
          /\ Along(k, <<"scope", "bindings", "row", "commit">>)
          /\ Along(k, <<"bindings", "row", "commit">>)
          /\ Along(k, <<"row", "commit">>)
          /\ Along(k, <<"commit">>)
      BY <1>13, <1>0, <2>1 DEF Along, Has, Leads
    <2> QED BY <2>1, <2>2, Zenon
  <1> QED BY <1>1, <1>2, <1>3, <1>4, <1>5, <1>6, <1>7, <1>8, <1>9, <1>10, <1>11, <1>12, <1>13 DEF AllKinds,
            SuperKinds

LEMMA Begins == ASSUME NEW k \in AllKinds
          PROVE Program(k) \in Paths(k) /\ Program(k) # <<>> /\ Head(Program(k)) = "caller"
  <1> USE DEF Program, Paths, AllKinds, SuperKinds, PolicyKinds, PlaneKinds, WorkspaceKinds, GrantKinds,
            RightsKinds,
              RoomKinds, CreateKinds, RowKinds, OwnerKinds
  <1>1. CASE k \in {"roles", "mapping", "ws_create", "plane", "ws_rename", "ws_delete", "token"}
    BY <1>1
  <1>2. CASE k \in {"plane_delete", "token_revoke", "service_create", "consumer_create", "key_issue"}
    BY <1>2
  <1>3. CASE k \in {"route_create", "route_replace", "policy_put", "policy_delete"}
    BY <1>3
  <1>4. CASE k \in {"service_replace", "service_delete", "route_delete", "consumer_delete", "group", "key_revoke"}
    BY <1>4
  <1> QED BY <1>1, <1>2, <1>3, <1>4

-----------------------------------------------------------------------------
(* Locks *)

\* FOR UPDATE shuts everyone else out.
LEMMA Alone ==
    ASSUME Exclusive, NEW r, NEW s, NEW row, NEW m \in Modes, Lock(r, row, "update") \in locks, Lock(s, row,
              m) \in locks
    PROVE  r = s
  BY DEF Exclusive, Lock, Modes, Conflict

LEMMA FreeForAll ==
    ASSUME NEW r, NEW pairs, Free(r, pairs), NEW row, <<row, "update">> \in pairs, NEW s, s # r, NEW m \in Modes
    PROVE  Lock(s, row, m) \notin locks
  <1> SUFFICES ASSUME Lock(s, row, m) \in locks PROVE FALSE
    OBVIOUS
  <1>1. <<"update", m>> \in Conflict
    BY DEF Modes, Conflict
  <1>2. s \in Blockers(r, pairs)
    BY <1>1 DEF Blockers, Lock
  <1> QED BY <1>2 DEF Free

LEMMA GrantedExclusive ==
    ASSUME Exclusive, NEW r, NEW pairs, Free(r, pairs), locks' = Granted(r, pairs)
    PROVE  Exclusive'
  <1>1. \A a, b : <<a, b>> \in Conflict <=> <<b, a>> \in Conflict
    BY DEF Conflict
  <1>2. ASSUME NEW l \in locks, l.by # r, NEW p \in pairs, l.row = p[1]
        PROVE  <<p[2], l.mode>> \notin Conflict
    BY <1>2 DEF Free, Blockers
  <1>3. ASSUME NEW l \in locks', NEW m \in locks', l.by # m.by, l.row = m.row
        PROVE  <<l.mode, m.mode>> \notin Conflict
    <2>1. CASE l \in locks /\ m \in locks
      BY <1>3, <2>1 DEF Exclusive
    <2>2. CASE l \notin locks
      BY <1>1, <1>2, <1>3, <2>2 DEF Granted, Lock
    <2>3. CASE l \in locks /\ m \notin locks
      <3>1. PICK p \in pairs : m = Lock(r, p[1], p[2])
        BY <2>3 DEF Granted
      <3>2. <<p[2], l.mode>> \notin Conflict /\ m.mode = p[2]
        BY <1>2, <1>3, <2>3, <3>1 DEF Lock
      <3> QED BY <1>1, <3>2
    <2> QED BY <2>1, <2>2, <2>3
  <1> QED BY <1>3 DEF Exclusive

LEMMA InGranted ==
    ASSUME NEW r, NEW row, NEW m, NEW pairs, <<row, m>> \in pairs
    PROVE  Lock(r, row, m) \in Granted(r, pairs)
  BY DEF Granted

LEMMA LocksKept ==
    ASSUME NEW r, NEW s, NEW row, NEW m, Lock(s, row, m) \in locks, NEW pairs
    PROVE  /\ Lock(s, row, m) \in Granted(r, pairs)
           /\ s # r => Lock(s, row, m) \in Released(r)
  BY DEF Granted, Released, Lock

-----------------------------------------------------------------------------
(***************************************************************************)
(* What another request does.  A step that leaves alone what request s has *)
(* locked leaves s knowing what it knew.                                   *)
(***************************************************************************)

\* L2 has every lock of s that L has.
Keeps(s, L, L2) == \A row, m : Lock(s, row, m) \in L => Lock(s, row, m) \in L2

SparesRights(s, L, A, N, B, M, A2, N2, B2, M2) ==
    /\ \A u \in Users : Lock(s, <<"user", u>>, "share") \in L => A2[u] = A[u]
    /\ \A w \in WorkspaceIds : Lock(s, <<"ws", w>>, "share") \in L =>
          /\ N[w] # "none" => N2[w] # "none"
          /\ \A u \in Users : Lock(s, <<"bind", u, w>>, "share") \in L => B2[<<u, w>>] = B[<<u, w>>]
          /\ \A g \in Groups : Lock(s, <<"map", g, w>>, "share") \in L => M2[<<g, w>>] = M[<<g, w>>]

SparesRows(s, L, O, O2) ==
    /\ \A w \in WorkspaceIds : Lock(s, <<"ws", w>>, "update") \in L /\ Vacant(O, w) => Vacant(O2, w)
    /\ \A i \in Objects : O[i].kind # "none" =>
          /\ Holds(L, s, i, "update") => /\ O2[i] = O[i] /\ (Unrouted(O, i) => Unrouted(O2, i))
                                         /\ Unpoliced(O, i) => Unpoliced(O2, i)
          /\ Holds(L, s, i, "share") => O2[i].kind = O[i].kind
    /\ Lock(s, <<"hosts">>, "update") \in L =>
          \A i \in Objects : O2[i].kind = "route" =>
              O[i].kind = "route" /\ O2[i].ws = O[i].ws /\ O2[i].hosts = O[i].hosts

LEMMA RightsSpared ==
    ASSUME NEW s, NEW q, Sound(q), NEW L, NEW L2, Keeps(s, L, L2),
           NEW A \in [Users -> AccountRow], NEW N, NEW B, NEW M, NEW A2, NEW N2, NEW B2, NEW M2,
           Entitled(s, q, L, A, N, B, M), SparesRights(s, L, A, N, B, M, A2, N2, B2, M2)
    PROVE  Entitled(s, q, L2, A2, N2, B2, M2)
  <1>0. Active(q) => q.by \in Users /\ q.over \subseteq WorkspaceIds /\ A[q.by].groups \subseteq Groups
    BY DEF Sound, Proper, Request, AccountRow
  <1>1. KnowsCaller(s, q, L2, A2)
    BY <1>0 DEF Entitled, KnowsCaller, SparesRights, Keeps, Past
  <1>2. KnowsScope(s, q, L2, N2)
    BY <1>0 DEF Entitled, KnowsScope, SparesRights, Keeps, Past
  <1>3. KnowsRight(s, q, L2, A2, B2, M2)
    <2> SUFFICES ASSUME Past(q, {"caller", "scope", "bindings"}), q.kind \in RightsKinds, NEW w \in q.over
                 PROVE  Backed(s, q, L2, A2, B2, M2, w)
      BY DEF KnowsRight
    <2>1. Backed(s, q, L, A, B, M, w)
      BY DEF Entitled, KnowsRight
    <2>2. /\ w \in WorkspaceIds /\ Lock(s, <<"ws", w>>, "share") \in L
          /\ Lock(s, <<"user", q.by>>, "share") \in L
      BY <1>0 DEF Entitled, KnowsScope, KnowsCaller, Past
    <2>3. A2[q.by] = A[q.by]
      BY <1>0, <2>2 DEF SparesRights, Past
    <2> QED BY <1>0, <2>1, <2>2, <2>3 DEF Backed, SparesRights, Keeps, Past
  <1>4. KnowsGrant(s, q, L2)
    BY DEF Entitled, KnowsGrant, Keeps
  <1>5. KnowsCount(s, q, L2, A2)
    BY <1>0 DEF Entitled, KnowsCaller, KnowsCount, SparesRights, Keeps, Past, Reached
  <1> QED BY <1>1, <1>2, <1>3, <1>4, <1>5 DEF Entitled

LEMMA RowsSpared ==
    ASSUME NEW s, NEW q, Sound(q), NEW L, NEW L2, Keeps(s, L, L2), NEW O, NEW O2,
           Informed(s, q, L, O), SparesRows(s, L, O, O2)
    PROVE  Informed(s, q, L2, O2)
  <1>0. /\ q.over \subseteq WorkspaceIds /\ q.row \in Objects \cup {0}
        /\ q.new.svc \in Objects \cup {0} /\ q.new.on \in Objects \cup {0} /\ q.new.owner \in Objects \cup {0}
    BY DEF Sound, Proper, Request, ObjectRow
  <1>1. KnowsWorkspace(s, q, L2, O2)
    BY <1>0 DEF Informed, KnowsWorkspace, SparesRows, Keeps
  <1>2. KnowsRow(s, q, L2, O2)
    BY <1>0 DEF Informed, KnowsRow, SparesRows, Keeps, Holds
  <1>3. KnowsHosts(s, q, L2, O2)
    BY <1>0 DEF Informed, KnowsHosts, SparesRows, Keeps
  <1>4. KnowsService(s, q, L2, O2)
    BY <1>0 DEF Informed, KnowsService, SparesRows, Keeps, Holds
  <1>5. KnowsObject(s, q, L2, O2)
    BY <1>0 DEF Informed, KnowsObject, SparesRows, Keeps, Holds
  <1>6. KnowsOwner(s, q, L2, O2)
    BY <1>0 DEF Informed, KnowsOwner, SparesRows, Keeps, Holds
  <1> QED BY <1>1, <1>2, <1>3, <1>4, <1>5, <1>6 DEF Informed

\* Once a superuser or a sign-in has overtaken the counts, none is relied on.
LEMMA OvertakenKnows ==
    ASSUME NEW q, NEW A, NEW B, NEW M, NEW hand \in Nat, KnowsAdmins(q, A, B, M, hand), NEW A2, NEW B2, NEW M2
    PROVE  KnowsAdmins(q, A2, B2, M2, hand + 1)
  <1>1. PICK c : c = q.counted
    OBVIOUS
  <1>2. c \in 0..hand
    BY <1>1 DEF KnowsAdmins
  <1>3. c \in 0..(hand + 1) /\ c # hand + 1
    BY <1>2
  <1> QED BY <1>1, <1>3 DEF KnowsAdmins

LEMMA IdleRests == ~Active(Idle)
  BY DEF Active, Idle

LEMMA IdleKnows ==
    ASSUME NEW r, NEW L, NEW A, NEW N, NEW B, NEW M, NEW O, NEW hand \in Nat
    PROVE  /\ Sound(Idle) /\ ~Active(Idle) /\ Entitled(r, Idle, L, A, N, B, M) /\ Informed(r, Idle, L, O)
           /\ KnowsAdmins(Idle, A, B, M, hand)
  <1>1. Nothing \in ObjectRow
    BY DEF Nothing, ObjectRow, RowNames
  <1>2. Paths("none") = {<<>>}
    BY DEF Paths
  <1>3. Idle \in Request
    BY <1>1, <1>2 DEF Idle, Request, AllPaths, RowNames
  <1>4. Idle.path = <<>> /\ Idle.kind = "none" /\ Idle.row = 0 /\ Idle.counted \in 0..hand
    BY DEF Idle
  <1> QED BY <1>2, <1>3, <1>4
      DEF Sound, Proper, Active, Entitled, Informed, KnowsAdmins, KnowsCaller, KnowsScope, KnowsRight,
          KnowsGrant, KnowsCount,
          KnowsWorkspace, KnowsRow, KnowsHosts, KnowsService, KnowsObject, KnowsOwner, Past, Reached

-----------------------------------------------------------------------------
(* Steps that leave the tables alone *)

LEMMA SameStamps ==
    ASSUME NEW Q, DOMAIN Q = Reqs, NEW O, NEW n, NEW first, Stamped(Q, O, n, first), Shown(Q, O, n, first),
           NEW r \in Reqs, Active(Q[r]), NEW q, Active(q) => q.n = Q[r].n /\ q.seen = Q[r].seen
    PROVE  Stamped([Q EXCEPT ![r] = q], O, n, first) /\ Shown([Q EXCEPT ![r] = q], O, n, first)
  <1> DEFINE Q2 == [Q EXCEPT ![r] = q]
  <1>1. ASSUME NEW s \in Reqs, Active(Q2[s])
        PROVE  Active(Q[s]) /\ Q2[s].n = Q[s].n /\ Q2[s].seen = Q[s].seen
    BY <1>1
  <1> HIDE DEF Q2
  <1>2. Stamped(Q2, O, n, first)
    BY <1>1 DEF Stamped
  <1>3. Shown(Q2, O, n, first)
    BY <1>1 DEF Shown
  <1> QED BY <1>2, <1>3 DEF Q2

LEMMA QuietStep ==
    ASSUME ConfigInv, NEW r \in Reqs, NEW q, req' = [req EXCEPT ![r] = q], UNCHANGED <<tables, load, audit,
              hands>>,
           \A s \in Reqs \ {r} : Keeps(s, locks, locks'), Exclusive', ops' \in 0..load.ops,
           Sound(q), Entitled(r, q, locks', acct, name, binding, mapping), Informed(r, q, locks', obj),
           KnowsAdmins(q, acct, binding, mapping, hands),
           Stamped(req', obj, ops', load.ops), Shown(req', obj, ops', load.ops)
    PROVE  ConfigInv'
  <1>0. UNCHANGED <<acct, name, binding, mapping, obj, load, audit, hands>>
    BY DEF tables
  <1>1. TablesTyped' /\ RowsFit' /\ RightsHeld' /\ NoLostUpdate'
    BY <1>0 DEF ConfigInv, TablesTyped, RowsFit, RightsHeld, NoLostUpdate
  <1>2. DOMAIN req = Reqs /\ DOMAIN req' = Reqs /\ req'[r] = q /\ \A s \in Reqs \ {r} : req'[s] = req[s]
    BY DEF ConfigInv
  <1>3. ASSUME NEW s \in Reqs
        PROVE  /\ Sound(req'[s]) /\ Entitled(s, req'[s], locks', acct, name, binding, mapping)
               /\ Informed(s, req'[s], locks', obj)
               /\ KnowsAdmins(req'[s], acct, binding, mapping, hands)
    <2>1. CASE s = r
      BY <1>2, <2>1
    <2>2. CASE s # r
      <3>1. /\ Sound(req[s]) /\ Entitled(s, req[s], locks, acct, name, binding, mapping)
            /\ Informed(s, req[s], locks, obj) /\ KnowsAdmins(req[s], acct, binding, mapping, hands)
            /\ req'[s] = req[s] /\ Keeps(s, locks, locks') /\ hands \in Nat /\ acct \in [Users -> AccountRow]
        BY <1>2, <2>2 DEF ConfigInv, TablesTyped
      <3>2. SparesRights(s, locks, acct, name, binding, mapping, acct, name, binding, mapping)
        BY DEF SparesRights
      <3>3. SparesRows(s, locks, obj, obj)
        BY DEF SparesRows
      <3>4. Entitled(s, req[s], locks', acct, name, binding, mapping)
        BY <3>1, <3>2, RightsSpared
      <3>5. Informed(s, req[s], locks', obj)
        BY <3>1, <3>3, RowsSpared
      <3> QED BY <3>1, <3>4, <3>5
    <2> QED BY <2>1, <2>2
  <1> QED BY <1>0, <1>1, <1>2, <1>3 DEF ConfigInv

\* A request that ends, with its transaction undone.
LEMMA RefuseStep == ASSUME ConfigInv, NEW r \in Reqs, Active(req[r]), Refuse(r) PROVE ConfigInv'
  <1>1. /\ req' = [req EXCEPT ![r] = Idle] /\ locks' = Released(r) /\ UNCHANGED <<tables, load, audit, hands>>
        /\ ops' = ops
    BY DEF Refuse, Answer
  <1>2. Stamped(req', obj, ops', load.ops) /\ Shown(req', obj, ops', load.ops)
    BY <1>1, SameStamps, IdleRests DEF ConfigInv
  <1>3. Exclusive' /\ (\A s \in Reqs \ {r} : Keeps(s, locks, locks')) /\ ops' \in 0..load.ops
    BY <1>1 DEF ConfigInv, TablesTyped, Exclusive, Released, Keeps, Lock
  <1>4. hands \in Nat
    BY DEF ConfigInv, TablesTyped
  <1> QED BY <1>1, <1>2, <1>3, <1>4, QuietStep, IdleKnows

\* A request that has been granted its locks, with what it knows by now.
LEMMA LockStage ==
    ASSUME ConfigInv, NEW r \in Reqs, Active(req[r]), NEW q, NEW pairs, Free(r, pairs), Sound(q),
           q.n = req[r].n, q.seen = req[r].seen,
           Entitled(r, q, Granted(r, pairs), acct, name, binding, mapping), Informed(r, q, Granted(r, pairs),
                     obj),
           KnowsAdmins(q, acct, binding, mapping, hands),
           req' = [req EXCEPT ![r] = q], locks' = Granted(r, pairs), UNCHANGED <<tables, load, ops, audit,
                     hands>>
    PROVE  ConfigInv'
  <1>1. Stamped(req', obj, ops', load.ops) /\ Shown(req', obj, ops', load.ops)
    BY SameStamps DEF ConfigInv
  <1>2. (\A s \in Reqs \ {r} : Keeps(s, locks, locks')) /\ ops' \in 0..load.ops
    BY DEF ConfigInv, TablesTyped, Granted, Keeps, Lock
  <1>3. Exclusive'
    BY GrantedExclusive DEF ConfigInv
  <1> QED BY <1>1, <1>2, <1>3, QuietStep

-----------------------------------------------------------------------------
(* A request's own stages *)

Onward(q) == [q EXCEPT !.path = Tail(q.path)]

LEMMA SoundOnward ==
    ASSUME NEW q, Sound(q), Active(q), Head(q.path) # "commit"
    PROVE  Sound(Onward(q)) /\ Active(Onward(q)) /\ Has(q.kind, Head(q.path)) /\ Leads(q.kind, Head(q.path),
              Head(Onward(q).path))
  <1>1. q.kind \in AllKinds /\ q \in Request /\ q.path \in Paths(q.kind) /\ q.path # <<>>
    BY DEF Sound, Proper, Active
  <1>2. Along(q.kind, q.path)
    BY <1>1, Steps
  <1>3. Tail(q.path) \in Paths(q.kind) /\ Tail(q.path) # <<>> /\ Tail(q.path) \in AllPaths
    BY <1>1, <1>2 DEF Along, AllPaths
  <1>4. PICK t : t = Tail(q.path)
    OBVIOUS
  <1>5. Onward(q) = [q EXCEPT !.path = t] /\ t \in Paths(q.kind) /\ t # <<>> /\ t \in AllPaths
    BY <1>3, <1>4 DEF Onward
  <1>6. /\ Onward(q) \in Request /\ Onward(q).path = t /\ Onward(q).kind = q.kind /\ Onward(q).by = q.by
        /\ Onward(q).to = q.to /\ Onward(q).role = q.role /\ Onward(q).name = q.name /\ Onward(q).over = q.over
        /\ Onward(q).new = q.new /\ Onward(q).counted = q.counted
    BY <1>1, <1>5 DEF Request
  <1>7. Sound(Onward(q)) /\ Active(Onward(q))
    BY <1>5, <1>6 DEF Sound, Proper, Active
  <1> QED BY <1>2, <1>4, <1>6, <1>7 DEF Along

\* What a request has read by a stage is in the fields that stage fills in.
Carries(q, f, h) ==
    /\ f.path = q.path /\ f.kind = q.kind /\ f.by = q.by /\ f.to = q.to /\ f.role = q.role /\ f.n = q.n
    /\ f.seen = q.seen /\ f.new.hosts = q.new.hosts
    /\ h # "workspace" => f.over = q.over
    /\ h \notin {"row", "policy"} => f.row = q.row
    /\ h # "service" => f.new.svc = q.new.svc
    /\ h # "object" => f.new.on = q.new.on
    /\ h # "owner" => f.new.owner = q.new.owner
    /\ h # "admins" => f.counted = q.counted

LEMMA EntitledOnward ==
    ASSUME NEW r, NEW q, NEW q2, NEW h, NEW g, NEW L, NEW L2, NEW A, NEW N, NEW B, NEW M,
           Active(q), Active(q2), Head(q.path) = h, Head(q2.path) = g, Has(q.kind, h), Leads(q.kind, h, g),
           q2.kind = q.kind, q2.by = q.by, q2.to = q.to, h # "workspace" => q2.over = q.over,
           Keeps(r, L, L2), Entitled(r, q, L, A, N, B, M),
           h = "caller" => KnowsCaller(r, q2, L2, A),
           h = "scope" => KnowsScope(r, q2, L2, N),
           h = "bindings" => KnowsRight(r, q2, L2, A, B, M),
           h \in {"held", "held_mapping"} => KnowsGrant(r, q2, L2),
           h = "admins" => KnowsCount(r, q2, L2, A)
    PROVE  Entitled(r, q2, L2, A, N, B, M)
  <1> USE DEF Past, Reached
  <1>1. KnowsCaller(r, q2, L2, A)
    BY DEF Entitled, KnowsCaller, Keeps
  <1>2. q.kind \in RightsKinds => h # "workspace"
    BY DEF Has, RightsKinds, RoomKinds, CreateKinds, RowKinds, PolicyKinds, GrantKinds, PlaneKinds
  <1>3. KnowsScope(r, q2, L2, N)
    BY <1>2 DEF Entitled, KnowsScope, Keeps, Leads
  <1>4. KnowsRight(r, q2, L2, A, B, M)
    <2> SUFFICES ASSUME Past(q2, {"caller", "scope", "bindings"}), q2.kind \in RightsKinds, h # "bindings",
                        NEW w \in q2.over
                 PROVE  Backed(r, q2, L2, A, B, M, w)
      BY DEF KnowsRight
    <2>1. Backed(r, q, L, A, B, M, w)
      BY <1>2 DEF Entitled, KnowsRight, Leads
    <2> QED BY <2>1 DEF Backed, Keeps
  <1>5. KnowsGrant(r, q2, L2)
    <2>1. CASE h \in {"held", "held_mapping"}
      BY <2>1
    <2>2. CASE q.kind \in {"roles", "mapping"} /\ h \notin {"held", "held_mapping"}
      <3>1. h # "workspace" /\ (g \in {"admins", "commit"} => h = "admins")
        BY <2>2 DEF Leads, GrantKinds, Has
      <3> QED BY <2>2, <3>1 DEF Entitled, KnowsGrant, Keeps
    <2> QED BY <2>1, <2>2 DEF KnowsGrant
  <1>6. KnowsCount(r, q2, L2, A)
    BY DEF KnowsCount, Leads
  <1> QED BY <1>1, <1>3, <1>4, <1>5, <1>6 DEF Entitled

LEMMA InformedOnward ==
    ASSUME NEW r, NEW q, NEW q2, NEW h, NEW g, NEW L, NEW L2, NEW O,
           Active(q), Active(q2), Head(q.path) = h, Head(q2.path) = g, Has(q.kind, h), Leads(q.kind, h, g),
           q2.kind = q.kind, q2.seen = q.seen, q2.new.hosts = q.new.hosts, h # "workspace" => q2.over = q.over,
           h \notin {"row", "policy"} => q2.row = q.row, h # "service" => q2.new.svc = q.new.svc,
           h # "object" => q2.new.on = q.new.on, h # "owner" => q2.new.owner = q.new.owner,
           h # "commit", Keeps(r, L, L2), Informed(r, q, L, O),
           h = "workspace" => KnowsWorkspace(r, q2, L2, O), h \in {"row", "policy"} => KnowsRow(r, q2, L2, O),
           h = "hosts" => KnowsHosts(r, q2, L2, O), h = "service" => KnowsService(r, q2, L2, O),
           h = "object" => KnowsObject(r, q2, L2, O), h = "owner" => KnowsOwner(r, q2, L2, O)
    PROVE  Informed(r, q2, L2, O)
  <1> USE DEF Past, Reached
  <1>1. KnowsWorkspace(r, q2, L2, O)
    BY DEF Leads, KnowsWorkspace
  <1>2. KnowsRow(r, q2, L2, O)
    <2>1. CASE h \in {"row", "policy"}
      BY <2>1
    <2>2. CASE h \notin {"row", "policy"}
      <3>1. q2.row = q.row /\ q2.seen = q.seen /\ KnowsRow(r, q, L, O)
        BY <2>2 DEF Informed
      <3>2. q.kind \in RowKinds /\ g \in {"hosts", "service", "commit"} => h \in {"hosts", "service"}
        BY <2>2 DEF Leads, RouteKinds, RowKinds
      <3>3. q.kind \in PolicyKinds => g # "commit"
        BY <2>2 DEF Leads
      <3>4. q.kind \in {"policy_delete", "policy_put"} => q.kind \in PolicyKinds
        BY DEF PolicyKinds
      <3> QED BY <3>1, <3>2, <3>3, <3>4 DEF KnowsRow, Keeps, Holds
    <2> QED BY <2>1, <2>2
  <1>3. KnowsHosts(r, q2, L2, O)
    <2>1. q.kind \in RouteKinds => h # "workspace"
      BY DEF Has, RouteKinds
    <2>2. q.kind \in RouteKinds /\ g \in {"service", "commit"} => h \in {"hosts", "service"}
      BY DEF Leads
    <2>3. CASE h = "hosts"
      BY <2>3
    <2>4. CASE h # "hosts"
      BY <2>1, <2>2, <2>4 DEF Informed, KnowsHosts, Keeps
    <2> QED BY <2>3, <2>4
  <1>4. KnowsService(r, q2, L2, O)
    BY DEF Leads, KnowsService
  <1>5. KnowsObject(r, q2, L2, O)
    <2>1. q.kind \in PolicyKinds /\ g \in {"owner", "policy", "commit"} => h \in {"object", "owner", "policy"}
      BY DEF Leads
    <2>2. CASE h = "object"
      BY <2>2
    <2>3. CASE h # "object"
      BY <2>1, <2>3 DEF Informed, KnowsObject, Keeps, Holds
    <2> QED BY <2>2, <2>3
  <1>6. KnowsOwner(r, q2, L2, O)
    <2>1. q.kind \in OwnerKinds /\ g \in {"policy", "commit"} => h \in {"owner", "policy"}
      BY DEF Leads
    <2>2. CASE h = "owner"
      BY <2>2
    <2>3. CASE h # "owner"
      BY <2>1, <2>3 DEF Informed, KnowsOwner, Keeps, Holds
    <2> QED BY <2>2, <2>3
  <1> QED BY <1>1, <1>2, <1>3, <1>4, <1>5, <1>6 DEF Informed

LEMMA OnwardSame ==
    ASSUME NEW q \in Request
    PROVE  /\ Onward(q).path = Tail(q.path) /\ Onward(q).kind = q.kind /\ Onward(q).by = q.by
           /\ Onward(q).over = q.over /\ Onward(q).to = q.to /\ Onward(q).role = q.role
           /\ Onward(q).name = q.name /\ Onward(q).new = q.new /\ Onward(q).seen = q.seen
           /\ Onward(q).row = q.row /\ Onward(q).n = q.n /\ Onward(q).counted = q.counted
  <1>1. PICK t : t = Tail(q.path)
    OBVIOUS
  <1>2. Onward(q) = [q EXCEPT !.path = t]
    BY <1>1 DEF Onward
  <1> QED BY <1>1, <1>2 DEF Request

\* What a stage has to establish for the request that passes it.
Establishes(r, q, h, L) ==
    /\ h = "caller" => KnowsCaller(r, q, L, acct)
    /\ h = "scope" => KnowsScope(r, q, L, name)
    /\ h = "bindings" => KnowsRight(r, q, L, acct, binding, mapping)
    /\ h \in {"held", "held_mapping"} => KnowsGrant(r, q, L)
    /\ h = "admins" => KnowsCount(r, q, L, acct) /\ KnowsAdmins(q, acct, binding, mapping, hands)
    /\ h = "workspace" => KnowsWorkspace(r, q, L, obj)
    /\ h \in {"row", "policy"} => KnowsRow(r, q, L, obj)
    /\ h = "hosts" => KnowsHosts(r, q, L, obj)
    /\ h = "service" => KnowsService(r, q, L, obj)
    /\ h = "object" => KnowsObject(r, q, L, obj)
    /\ h = "owner" => KnowsOwner(r, q, L, obj)

LEMMA Advancing ==
    ASSUME ConfigInv, NEW r \in Reqs, NEW h, At(r, h), h # "commit", NEW pairs, Free(r, pairs),
           NEW f, Sound(f), Carries(req[r], f, h), Establishes(r, Onward(f), h, Granted(r, pairs)),
           Advance(r, f), locks' = Granted(r, pairs), UNCHANGED <<tables, load, ops, audit, hands>>
    PROVE  ConfigInv'
  <1>1. PICK q, q2, g, L2 : q = req[r] /\ q2 = Onward(f) /\ g = Head(q2.path) /\ L2 = Granted(r, pairs)
    OBVIOUS
  <1>2. Active(q) /\ Head(q.path) = h /\ f.path = q.path /\ Active(f) /\ Head(f.path) = h
    BY <1>1 DEF At, Active, Carries
  <1>3. /\ Sound(q2) /\ Active(q2) /\ Has(q.kind, h) /\ Leads(q.kind, h, g) /\ f \in Request /\ f.kind = q.kind
    BY <1>1, <1>2, SoundOnward DEF Carries, Sound, Proper
  <1>4. /\ q2.kind = q.kind /\ q2.by = q.by /\ q2.to = q.to /\ (h # "workspace" => q2.over = q.over)
        /\ q2.seen = q.seen /\ q2.n = q.n /\ q2.new.hosts = q.new.hosts
        /\ (h \notin {"row", "policy"} => q2.row = q.row) /\ (h # "service" => q2.new.svc = q.new.svc)
        /\ (h # "object" => q2.new.on = q.new.on) /\ (h # "owner" => q2.new.owner = q.new.owner)
        /\ (h # "admins" => q2.counted = q.counted)
    BY <1>1, <1>3, OnwardSame DEF Carries
  <1>5. Keeps(r, locks, L2) /\ Establishes(r, q2, h, L2)
    BY <1>1 DEF Keeps, Granted
  <1>6. Entitled(r, q2, L2, acct, name, binding, mapping)
    <2>1. Entitled(r, q, locks, acct, name, binding, mapping)
      BY <1>1 DEF ConfigInv
    <2> QED BY <1>1, <1>2, <1>3, <1>4, <1>5, <2>1, EntitledOnward DEF Establishes
  <1>7. Informed(r, q2, L2, obj)
    <2>1. Informed(r, q, locks, obj)
      BY <1>1 DEF ConfigInv
    <2> QED BY <1>1, <1>2, <1>3, <1>4, <1>5, <2>1, InformedOnward DEF Establishes
  <1>8. KnowsAdmins(q2, acct, binding, mapping, hands)
    <2>1. CASE h = "admins"
      BY <1>1, <1>5, <2>1 DEF Establishes
    <2>2. CASE h # "admins"
      <3>1. q2.counted \in 0..hands
        BY <1>1, <1>4, <2>2 DEF ConfigInv, KnowsAdmins
      <3>2. ~(Reached(q2, {"commit"}) /\ q2.kind \in GrantKinds)
        BY <1>1, <1>3, <1>4, <2>2 DEF Leads, Reached
      <3> QED BY <3>1, <3>2 DEF KnowsAdmins
    <2> QED BY <2>1, <2>2
  <1>9. req' = [req EXCEPT ![r] = q2]
    BY <1>1 DEF Advance, Onward
  <1> QED BY <1>1, <1>2, <1>3, <1>4, <1>6, <1>7, <1>8, <1>9, LockStage

LEMMA Same == ASSUME NEW q, NEW h PROVE Carries(q, q, h)
  BY DEF Carries

LEMMA Stands ==
    ASSUME ConfigInv, NEW r \in Reqs, NEW h, At(r, h), h # "commit"
    PROVE  /\ Sound(req[r]) /\ Active(req[r]) /\ Has(req[r].kind,
              h) /\ req[r] \in Request /\ req[r].by \in Users
           /\ req[r].kind \in AllKinds
  BY SoundOnward DEF ConfigInv, At, Active, Sound, Proper

LEMMA CallerStep == ASSUME ConfigInv, NEW r \in Reqs, Caller(r) PROVE ConfigInv'
  <1>1. At(r, "caller") /\ Free(r, CallerRow(r)) /\ Active(req[r]) /\ Sound(req[r]) /\ req[r] \in Request
    BY Stands DEF Caller, Locking
  <1>2. CASE Refuse(r)
    BY <1>1, <1>2, RefuseStep
  <1>3. CASE ~Refuse(r)
    <2>1. /\ req[r].kind \in WorkspaceKinds \cup PlaneKinds => may_write(req[r].by)
          /\ Advance(r, req[r]) /\ locks' = Granted(r, CallerRow(r)) /\ UNCHANGED <<tables, load, ops, audit,
                    hands>>
      BY <1>3 DEF Caller, Locking
    <2>2. Lock(r, <<"user", req[r].by>>, "share") \in Granted(r, CallerRow(r))
      BY DEF Granted, CallerRow
    <2>3. Establishes(r, Onward(req[r]), "caller", Granted(r, CallerRow(r)))
      BY <1>1, <2>1, <2>2, OnwardSame DEF Establishes, KnowsCaller, SuperKinds, may_write
    <2> QED BY <1>1, <2>1, <2>3, Same, Advancing
  <1> QED BY <1>2, <1>3

LEMMA ScopeStep == ASSUME ConfigInv, NEW r \in Reqs, Scope(r) PROVE ConfigInv'
  <1>1. At(r, "scope") /\ Free(r, ScopeRows(r)) /\ Active(req[r]) /\ Sound(req[r]) /\ req[r] \in Request
    BY Stands DEF Scope, Locking
  <1>2. CASE Refuse(r)
    BY <1>1, <1>2, RefuseStep
  <1>3. CASE ~Refuse(r)
    <2>1. /\ \A w \in req[r].over : Exists(w)
          /\ Advance(r, req[r]) /\ locks' = Granted(r, ScopeRows(r)) /\ UNCHANGED <<tables, load, ops, audit,
                    hands>>
      BY <1>3 DEF Scope, Locking
    <2>2. \A w \in req[r].over : Lock(r, <<"ws", w>>, "share") \in Granted(r, ScopeRows(r))
      BY <2>1, InGranted DEF ScopeRows
    <2>3. Establishes(r, Onward(req[r]), "scope", Granted(r, ScopeRows(r)))
      BY <1>1, <2>1, <2>2, OnwardSame DEF Establishes, KnowsScope, Exists
    <2> QED BY <1>1, <2>1, <2>3, Same, Advancing
  <1> QED BY <1>2, <1>3

\* The highest role is one of those held, and none is higher.
LEMMA BestRole ==
    ASSUME NEW roles \in SUBSET (0..3)
    PROVE  Best(roles) \in roles \cup {0} /\ \A y \in roles : y <= Best(roles)
  <1>1. \E x \in roles \cup {0} : \A y \in roles : y <= x
    <2>1. CASE 3 \in roles
      BY <2>1
    <2>2. CASE 3 \notin roles /\ 2 \in roles
      BY <2>2
    <2>3. CASE 3 \notin roles /\ 2 \notin roles /\ 1 \in roles
      BY <2>3
    <2>4. CASE 3 \notin roles /\ 2 \notin roles /\ 1 \notin roles
      BY <2>4
    <2> QED BY <2>1, <2>2, <2>3, <2>4
  <1> QED BY <1>1 DEF Best

LEMMA GroupsTyped == ASSUME TablesTyped, NEW u \in Users PROVE acct[u].groups \subseteq Groups
  BY DEF TablesTyped, AccountRow

LEMMA EffectiveRole ==
    ASSUME TablesTyped, NEW u \in Users, NEW w \in WorkspaceIds, NEW n \in {2, 3}
    PROVE  effective(u, w) >= n <=>
             /\ ~acct[u].disabled
             /\ acct[u].super \/ binding[<<u, w>>] >= n \/ \E g \in acct[u].groups : mapping[<<g, w>>] >= n
  <1>0. PICK B, M, S : /\ B = binding[<<u, w>>] /\ B \in 0..3
                       /\ M = {mapping[<<g, w>>] : g \in acct[u].groups} /\ M \subseteq 0..3
                       /\ S = (IF acct[u].super THEN 3 ELSE 0)
    <2>1. binding[<<u, w>>] \in 0..3
      BY DEF TablesTyped
    <2>2. \A g \in acct[u].groups : mapping[<<g, w>>] \in 0..3
      BY GroupsTyped DEF TablesTyped
    <2> QED BY <2>1, <2>2
  <1>1. S \in 0..3 /\ (S >= n <=> acct[u].super)
    BY <1>0
  <1>2. PICK roles : roles = {S, B} \cup M /\ roles \in SUBSET (0..3)
    <2>1. \A x \in {S, B} \cup M : x \in 0..3
      BY <1>0, <1>1
    <2> QED BY <2>1
  <1>3. effective(u, w) = IF acct[u].disabled THEN 0 ELSE Best(roles)
    BY <1>0, <1>2 DEF effective
  <1>4. Best(roles) \in roles \cup {0} /\ \A y \in roles : y <= Best(roles)
    BY <1>2, BestRole
  <1>5. Best(roles) >= n <=> \E y \in roles : y >= n
    <2>1. PICK b : b = Best(roles)
      OBVIOUS
    <2>2. b \in roles \cup {0} /\ (\A y \in roles : y <= b)
      BY <1>4, <2>1
    <2>3. b \in 0..3 /\ \A y \in roles : y \in 0..3
      BY <1>2, <2>2
    <2>4. b >= n <=> \E y \in roles : y >= n
      BY <2>2, <2>3
    <2> QED BY <2>1, <2>4
  <1>6. (\E y \in roles : y >= n) <=> (S >= n \/ B >= n \/ \E y \in M : y >= n)
    BY <1>2
  <1>7. (\E y \in M : y >= n) <=> \E g \in acct[u].groups : mapping[<<g, w>>] >= n
    BY <1>0
  <1>8. CASE acct[u].disabled
    BY <1>3, <1>8
  <1>9. CASE ~acct[u].disabled
    <2>1. effective(u, w) >= n <=> Best(roles) >= n
      BY <1>3, <1>9
    <2>2. effective(u, w) >= n <=> (acct[u].super \/ B >= n \/ \E g \in acct[u].groups : mapping[<<g, w>>] >= n)
      BY <1>1, <1>5, <1>6, <1>7, <2>1
    <2> QED BY <1>0, <1>9, <2>2
  <1> QED BY <1>8, <1>9

LEMMA NeedsRole == \A k : needs(k) \in {2, 3}
  BY DEF needs

LEMMA BindingsStep == ASSUME ConfigInv, NEW r \in Reqs, Bindings(r) PROVE ConfigInv'
  <1>1. At(r, "bindings") /\ Free(r, BindingRows(r)) /\ Active(req[r]) /\ Sound(req[r]) /\ req[r] \in Request
        /\ req[r].by \in Users
    BY Stands DEF Bindings, Locking
  <1>2. CASE Refuse(r)
    BY <1>1, <1>2, RefuseStep
  <1>3. CASE ~Refuse(r)
    <2>1. /\ \A w \in req[r].over : effective(req[r].by, w) >= needs(req[r].kind)
          /\ Advance(r, req[r]) /\ locks' = Granted(r, BindingRows(r)) /\ UNCHANGED <<tables, load, ops, audit,
                    hands>>
      BY <1>3 DEF Bindings, Locking
    <2>2. PICK q, u, L2, n : q = Onward(req[r]) /\ u = req[r].by /\ L2 = Granted(r,
              BindingRows(r)) /\ n = needs(req[r].kind)
      OBVIOUS
    <2>3. q.by = u /\ q.over = req[r].over /\ q.kind = req[r].kind /\ u \in Users /\ n \in {2,
              3} /\ needs(q.kind) = n
      BY <1>1, <2>2, OnwardSame, NeedsRole
    <2>4. ASSUME NEW w \in q.over PROVE Backed(r, q, L2, acct, binding, mapping, w)
      <3>1. w \in WorkspaceIds /\ w \in req[r].over
        BY <1>1, <2>3, <2>4 DEF Request
      <3>2. /\ ~acct[u].disabled
            /\ acct[u].super \/ binding[<<u, w>>] >= n \/ \E g \in acct[u].groups : mapping[<<g, w>>] >= n
        BY <2>1, <2>2, <2>3, <3>1, EffectiveRole DEF ConfigInv
      <3>3. binding[<<u, w>>] >= n => Lock(r, <<"bind", u, w>>, "share") \in L2
        <4>1. binding[<<u, w>>] \in 0..3
          BY <2>3, <3>1 DEF ConfigInv, TablesTyped
        <4>2. SUFFICES ASSUME binding[<<u, w>>] > 0 PROVE Lock(r, <<"bind", u, w>>, "share") \in L2
          BY <2>3, <4>1
        <4>3. <<<<"bind", u, w>>, "share">> \in BindingRows(r)
          BY <2>2, <3>1, <4>2 DEF BindingRows
        <4> QED BY <2>2, <4>3, InGranted
      <3>4. ASSUME NEW g \in acct[u].groups, mapping[<<g, w>>] >= n PROVE Lock(r, <<"map", g, w>>, "share") \in L2
        <4>1. g \in Groups /\ mapping[<<g, w>>] \in 0..3
          BY <2>3, <3>1, GroupsTyped DEF ConfigInv, TablesTyped
        <4>2. mapping[<<g, w>>] > 0
          BY <2>3, <3>4, <4>1
        <4>3. <<<<"map", g, w>>, "share">> \in BindingRows(r)
          <5>1. <<g, w>> \in {p \in acct[req[r].by].groups \X req[r].over : mapping[<<p[1], p[2]>>] > 0}
            BY <2>2, <3>1, <3>4, <4>2
          <5>2. PICK p : p = <<g, w>>
            OBVIOUS
          <5>3. p \in {x \in acct[req[r].by].groups \X req[r].over : mapping[<<x[1], x[2]>>] > 0}
            BY <5>1, <5>2
          <5>4. <<<<"map", p[1], p[2]>>, "share">> \in BindingRows(r)
            BY <5>3, Zenon DEF BindingRows
          <5> QED BY <5>2, <5>4
        <4> QED BY <2>2, <4>3, InGranted
      <3> QED BY <2>3, <3>2, <3>3, <3>4 DEF Backed
    <2>5. Establishes(r, q, "bindings", L2)
      BY <2>4 DEF Establishes, KnowsRight
    <2> QED BY <1>1, <2>1, <2>2, <2>5, Same, Advancing
  <1> QED BY <1>2, <1>3

LEMMA TargetStep == ASSUME ConfigInv, NEW r \in Reqs, Target(r) PROVE ConfigInv'
  <1> DEFINE pairs == {<<<<"user", req[r].to>>, "keyshare">>}
  <1>1. At(r, "target") /\ Free(r, pairs) /\ Active(req[r]) /\ Sound(req[r])
    BY Stands DEF Target, Locking
  <1>2. CASE Refuse(r)
    BY <1>1, <1>2, RefuseStep
  <1>3. CASE ~Refuse(r)
    <2>1. Advance(r, req[r]) /\ locks' = Granted(r, pairs) /\ UNCHANGED <<tables, load, ops, audit, hands>>
      BY <1>3 DEF Target, Locking
    <2>2. Establishes(r, Onward(req[r]), "target", Granted(r, pairs))
      BY DEF Establishes
    <2> HIDE DEF pairs
    <2> QED BY <1>1, <2>1, <2>2, Same, Advancing
  <1> QED BY <1>2, <1>3

LEMMA HeldStep == ASSUME ConfigInv, NEW r \in Reqs, Held(r) PROVE ConfigInv'
  <1> DEFINE pairs == {<<<<"bind", req[r].to, w>>, "update">> : w \in req[r].over}
  <1>1. At(r, "held") /\ Free(r,
            pairs) /\ Active(req[r]) /\ Sound(req[r]) /\ req[r] \in Request /\ req[r].kind = "roles"
    BY Stands DEF Held, Locking, Has
  <1>2. CASE Refuse(r)
    BY <1>1, <1>2, RefuseStep
  <1>3. CASE ~Refuse(r)
    <2>1. Advance(r, req[r]) /\ locks' = Granted(r, pairs) /\ UNCHANGED <<tables, load, ops, audit, hands>>
      BY <1>3 DEF Held, Locking
    <2>2. \A w \in req[r].over : Lock(r, <<"bind", req[r].to, w>>, "update") \in Granted(r, pairs)
      BY InGranted
    <2> HIDE DEF pairs
    <2>3. Establishes(r, Onward(req[r]), "held", Granted(r, pairs))
      BY <1>1, <2>2, OnwardSame DEF Establishes, KnowsGrant
    <2> QED BY <1>1, <2>1, <2>3, Same, Advancing
  <1> QED BY <1>2, <1>3

LEMMA HeldMappingStep == ASSUME ConfigInv, NEW r \in Reqs, HeldMapping(r) PROVE ConfigInv'
  <1> DEFINE pairs == {<<<<"map", req[r].to, w>>, "update">> : w \in req[r].over}
  <1>1. /\ At(r, "held_mapping") /\ Free(r, pairs) /\ Active(req[r]) /\ Sound(req[r]) /\ req[r] \in Request
        /\ req[r].kind = "mapping"
    BY Stands DEF HeldMapping, Locking, Has
  <1>2. CASE Refuse(r)
    BY <1>1, <1>2, RefuseStep
  <1>3. CASE ~Refuse(r)
    <2>1. Advance(r, req[r]) /\ locks' = Granted(r, pairs) /\ UNCHANGED <<tables, load, ops, audit, hands>>
      BY <1>3 DEF HeldMapping, Locking
    <2>2. \A w \in req[r].over : Lock(r, <<"map", req[r].to, w>>, "update") \in Granted(r, pairs)
      BY InGranted
    <2> HIDE DEF pairs
    <2>3. Establishes(r, Onward(req[r]), "held_mapping", Granted(r, pairs))
      BY <1>1, <2>2, OnwardSame DEF Establishes, KnowsGrant
    <2> QED BY <1>1, <2>1, <2>3, Same, Advancing
  <1> QED BY <1>2, <1>3

\* The roles as a grant leaves them.
LEMMA GrantAfter ==
    ASSUME TablesTyped, NEW r, NEW w \in WorkspaceIds
    PROVE  /\ \A u \in Users : NewBinding(r)[<<u, w>>] = After(req[r], "roles", binding, u, w)
           /\ \A g \in Groups : NewMapping(r)[<<g, w>>] = After(req[r], "mapping", mapping, g, w)
           /\ AdminLeft(NewBinding(r), NewMapping(r), w) <=> LeavesAdmin(req[r], acct, binding, mapping, w)
  <1>1. DOMAIN binding = Users \X WorkspaceIds /\ DOMAIN mapping = Groups \X WorkspaceIds
    BY DEF TablesTyped
  <1>2. ASSUME NEW u \in Users PROVE NewBinding(r)[<<u, w>>] = After(req[r], "roles", binding, u, w)
    <2>0. <<u, w>> \in DOMAIN binding /\ <<u, w>>[1] = u /\ <<u, w>>[2] = w
      BY <1>1
    <2>1. PICK p : p = <<u, w>> /\ p \in DOMAIN binding /\ p[1] = u /\ p[2] = w
      BY <2>0
    <2>2. NewBinding(r)[p] = IF req[r].kind = "roles" /\ p[1] = req[r].to /\ p[2] \in req[r].over
                             THEN req[r].role ELSE binding[p]
      BY <2>1 DEF NewBinding
    <2> QED BY <2>1, <2>2 DEF After
  <1>3. ASSUME NEW g \in Groups PROVE NewMapping(r)[<<g, w>>] = After(req[r], "mapping", mapping, g, w)
    <2>0. <<g, w>> \in DOMAIN mapping /\ <<g, w>>[1] = g /\ <<g, w>>[2] = w
      BY <1>1
    <2>1. PICK p : p = <<g, w>> /\ p \in DOMAIN mapping /\ p[1] = g /\ p[2] = w
      BY <2>0
    <2>2. NewMapping(r)[p] = IF req[r].kind = "mapping" /\ p[1] = req[r].to /\ p[2] \in req[r].over
                             THEN req[r].role ELSE mapping[p]
      BY <2>1 DEF NewMapping
    <2> QED BY <2>1, <2>2 DEF After
  <1>4. \A u \in Users : acct[u].groups \subseteq Groups
    BY GroupsTyped
  <1>5. AdminLeft(NewBinding(r), NewMapping(r), w) <=> LeavesAdmin(req[r], acct, binding, mapping, w)
    BY <1>2, <1>3, <1>4 DEF AdminLeft, LeavesAdmin
  <1> QED BY <1>2, <1>3, <1>5

LEMMA AdminsStep == ASSUME ConfigInv, NEW r \in Reqs, keeps_an_admin(r) PROVE ConfigInv'
  <1>0. PICK f : f = [req[r] EXCEPT !.counted = hands]
    OBVIOUS
  <1>1. /\ At(r, "admins") /\ Free(r, AdminsLocks(r)) /\ Active(req[r]) /\ Sound(req[r]) /\ req[r] \in Request
    BY Stands DEF keeps_an_admin, Locking, Has
  <1>2. CASE Refuse(r)
    BY <1>1, <1>2, RefuseStep
  <1>3. CASE ~Refuse(r)
    <2>1. /\ \A w \in Counted(r) : AdminLeft(NewBinding(r), NewMapping(r), w)
          /\ Advance(r, f) /\ locks' = Granted(r, AdminsLocks(r)) /\ UNCHANGED <<tables, load, ops, audit,
                    hands>>
      BY <1>0, <1>3 DEF keeps_an_admin, Locking
    <2>b. hands \in Nat
      BY DEF ConfigInv, TablesTyped
    <2>2. ASSUME ~acct[req[r].by].super, NEW w \in req[r].over
          PROVE  /\ Lock(r, <<"admins", w>>, "update") \in Granted(r, AdminsLocks(r))
                 /\ LeavesAdmin(req[r], acct, binding, mapping, w)
      <3>1. w \in Counted(r) /\ w \in WorkspaceIds
        BY <1>1, <2>2 DEF Counted, Request
      <3>2. <<<<"admins", w>>, "update">> \in AdminsLocks(r)
        BY <3>1 DEF AdminsLocks
      <3> QED BY <2>1, <3>1, <3>2, InGranted, GrantAfter DEF ConfigInv
    <2>a. /\ f \in Request /\ f.over = req[r].over /\ f.path = req[r].path /\ f.kind = req[r].kind /\ f.by = req[r].by
          /\ f.to = req[r].to /\ f.role = req[r].role /\ f.n = req[r].n /\ f.seen = req[r].seen /\ f.new = req[r].new
          /\ f.row = req[r].row /\ f.name = req[r].name /\ f.counted = hands
      BY <1>0, <1>1, <2>b DEF Request
    <2>c. Sound(f) /\ Carries(req[r], f, "admins")
      BY <1>1, <2>a DEF Sound, Proper, Carries, Active
    <2>3. PICK q : q = Onward(f)
      OBVIOUS
    <2>4. q.over = req[r].over /\ q.by = req[r].by /\ q.kind = req[r].kind /\ q.to = req[r].to /\ q.role = req[r].role
          /\ q.counted = hands
      BY <2>a, <2>3, OnwardSame
    <2>5. \A w : LeavesAdmin(q, acct, binding, mapping, w) <=> LeavesAdmin(req[r], acct, binding, mapping, w)
      BY <2>4 DEF LeavesAdmin, After
    <2>6. Establishes(r, q, "admins", Granted(r, AdminsLocks(r)))
      <3>1. q.counted \in 0..hands
        BY <2>b, <2>4
      <3> QED BY <2>2, <2>4, <2>5, <3>1 DEF Establishes, KnowsAdmins, KnowsCount
    <2> QED BY <1>1, <2>1, <2>c, <2>3, <2>6, Advancing
  <1> QED BY <1>2, <1>3

LEMMA DeletesStep == ASSUME ConfigInv, NEW r \in Reqs, DeletesLock(r) PROVE ConfigInv'
  <1> DEFINE pairs == {<<<<"deletes">>, "update">>}
  <1>1. At(r, "deletes") /\ Free(r, pairs) /\ Active(req[r]) /\ Sound(req[r])
    BY Stands DEF DeletesLock, Locking
  <1>2. CASE Refuse(r)
    BY <1>1, <1>2, RefuseStep
  <1>3. CASE ~Refuse(r)
    <2>1. Advance(r, req[r]) /\ locks' = Granted(r, pairs) /\ UNCHANGED <<tables, load, ops, audit, hands>>
      BY <1>3 DEF DeletesLock, Locking
    <2>2. Establishes(r, Onward(req[r]), "deletes", Granted(r, pairs))
      BY DEF Establishes
    <2> HIDE DEF pairs
    <2> QED BY <1>1, <2>1, <2>2, Same, Advancing
  <1> QED BY <1>2, <1>3

LEMMA MayRouteStep == ASSUME ConfigInv, NEW r \in Reqs, may_route(r) PROVE ConfigInv'
  <1> DEFINE pairs == {<<<<"hosts">>, "update">>}
  <1>1. At(r, "hosts") /\ Free(r, pairs) /\ Active(req[r]) /\ Sound(req[r]) /\ req[r] \in Request
    BY Stands DEF may_route, Locking
  <1>2. CASE Refuse(r)
    BY <1>1, <1>2, RefuseStep
  <1>3. CASE ~Refuse(r)
    <2>1. /\ MayRoute(r) /\ Advance(r, req[r]) /\ locks' = Granted(r, pairs)
          /\ UNCHANGED <<tables, load, ops, audit, hands>>
      BY <1>3 DEF may_route, Locking
    <2>2. Lock(r, <<"hosts">>, "update") \in Granted(r, pairs)
      BY InGranted
    <2>3. ASSUME NEW i \in Objects, obj[i].kind = "route", obj[i].ws \notin req[r].over,
                 NEW h \in req[r].new.hosts, NEW t \in obj[i].hosts
          PROVE  ~hosts_overlap(h, t)
      <3>1. t \in Hosts
        BY <2>3 DEF ConfigInv, TablesTyped, ObjectRow
      <3> QED BY <2>1, <2>3, <3>1 DEF MayRoute, Taken
    <2> HIDE DEF pairs
    <2>4. Establishes(r, Onward(req[r]), "hosts", Granted(r, pairs))
      BY <1>1, <2>2, <2>3, OnwardSame DEF Establishes, KnowsHosts
    <2> QED BY <1>1, <2>1, <2>4, Same, Advancing
  <1> QED BY <1>2, <1>3

LEMMA WorkspaceStep == ASSUME ConfigInv, NEW r \in Reqs, WorkspaceRow(r) PROVE ConfigInv'
  <1>1. PICK found, pairs, f : /\ found = Named(req[r].to) /\ pairs = {<<<<"ws", w>>, "update">> : w \in found}
                               /\ f = [req[r] EXCEPT !.over = found]
    OBVIOUS
  <1>2. /\ At(r, "workspace") /\ Free(r, pairs)
        /\ Active(req[r]) /\ Sound(req[r]) /\ req[r] \in Request /\ req[r].kind \in {"ws_rename", "ws_delete"}
    BY <1>1, Stands DEF WorkspaceRow, WorkspaceStage, Locking, Has
  <1>3. CASE Refuse(r)
    BY <1>2, <1>3, RefuseStep
  <1>4. CASE ~Refuse(r)
    <2>1. /\ req[r].kind = "ws_delete" => \A w \in found : emptiness(w)
          /\ Advance(r, f) /\ locks' = Granted(r, pairs) /\ UNCHANGED <<tables, load, ops, audit, hands>>
      BY <1>1, <1>4 DEF WorkspaceRow, WorkspaceStage, Locking
    <2>2. found \subseteq WorkspaceIds
      BY <1>1 DEF Named
    <2>3. /\ f \in Request /\ f.over = found /\ f.path = req[r].path /\ f.kind = req[r].kind /\ f.by = req[r].by
          /\ f.to = req[r].to /\ f.role = req[r].role /\ f.n = req[r].n /\ f.seen = req[r].seen /\ f.new = req[r].new
          /\ f.row = req[r].row /\ f.name = req[r].name /\ f.counted = req[r].counted
      BY <1>1, <1>2, <2>2 DEF Request
    <2>4. Sound(f) /\ Carries(req[r], f, "workspace")
      BY <1>2, <2>3 DEF Sound, Proper, Carries, RoomKinds, CreateKinds, RowKinds, PolicyKinds, PlaneKinds,
                Active
    <2>5. \A w \in found : Lock(r, <<"ws", w>>, "update") \in Granted(r, pairs)
      BY <1>1, InGranted
    <2>6. Establishes(r, Onward(f), "workspace", Granted(r, pairs))
      BY <2>1, <2>3, <2>5, OnwardSame DEF Establishes, KnowsWorkspace, Vacant, emptiness, Live
    <2> QED BY <1>2, <2>1, <2>4, <2>6, Advancing
  <1> QED BY <1>3, <1>4

\* The one of some ids.
LEMMA NumberedFromOne == \A i \in Objects : i # 0
  BY ConfigurationAssumption

LEMMA OnlyOne == ASSUME NEW ids PROVE (ids = {} => Only(ids) = 0) /\ (ids # {} => Only(ids) \in ids)
  BY DEF Only

\* A request with its row, or fields of its new row, filled in.
Filled(q, i, new) == [q EXCEPT !.row = i, !.new = new]

LEMMA FilledIn ==
    ASSUME NEW q, Sound(q), NEW i \in Objects \cup {0}, NEW new \in ObjectRow, NEW h, NEW f,
           f = Filled(q, i, new), new.hosts = q.new.hosts,
           h \notin {"row", "policy"} => i = q.row,
           IF h = "service" THEN q.kind \in RouteKinds ELSE new.svc = q.new.svc,
           IF h = "object" THEN q.kind \in PolicyKinds ELSE new.on = q.new.on,
           IF h = "owner" THEN q.kind \in OwnerKinds ELSE new.owner = q.new.owner
    PROVE  /\ Sound(f) /\ Carries(q, f, h) /\ f \in Request /\ f.new = new /\ f.row = i /\ f.kind = q.kind
           /\ f.seen = q.seen /\ f.over = q.over /\ f.path = q.path
  <1>1. q \in Request /\ q.new \in ObjectRow
    BY DEF Sound, Proper, Request
  <1>2. /\ f \in Request /\ f.new = new /\ f.over = q.over /\ f.path = q.path /\ f.kind = q.kind /\ f.by = q.by
        /\ f.to = q.to /\ f.role = q.role /\ f.n = q.n /\ f.seen = q.seen /\ f.row = i /\ f.name = q.name
        /\ f.counted = q.counted
    BY <1>1 DEF Request, Filled
  <1>3. Carries(q, f, h)
    BY <1>2 DEF Carries
  <1>4. Sound(f)
    <2>1. f.kind \notin RouteKinds => new.svc = q.new.svc
      BY <1>2
    <2>2. f.kind \notin PolicyKinds => new.on = q.new.on
      BY <1>2
    <2>3. f.kind \notin OwnerKinds => new.owner = q.new.owner
      BY <1>2
    <2> QED BY <1>1, <1>2, <2>1, <2>2, <2>3 DEF Sound, Proper, Active
  <1> QED BY <1>2, <1>3, <1>4

LEMMA ServiceStep == ASSUME ConfigInv, NEW r \in Reqs, Service(r) PROVE ConfigInv'
  <1>1. PICK found, pairs, i, f : /\ found = Find(r, "service", req[r].name) /\ pairs = Rows(found, "share")
                                  /\ i = Only(found) /\ f = [req[r] EXCEPT !.new.svc = i]
    OBVIOUS
  <1>2. /\ At(r, "service") /\ Free(r, pairs)
        /\ Active(req[r]) /\ Sound(req[r]) /\ req[r].kind \in AllKinds /\ req[r].kind \in RouteKinds
    BY <1>1, Stands DEF Service, Locking, Has
  <1>3. CASE Refuse(r)
    BY <1>2, <1>3, RefuseStep
  <1>4. CASE ~Refuse(r)
    <2>1. found # {} /\ Advance(r, f) /\ locks' = Granted(r, pairs) /\ UNCHANGED <<tables, load, ops, audit,
              hands>>
      BY <1>1, <1>4 DEF Service, Locking
    <2>2. i \in Objects /\ i # 0 /\ obj[i].kind = "service" /\ i \in found
      <3>1. i \in found
        BY <1>1, <2>1, OnlyOne
      <3> QED BY <1>1, <3>1, NumberedFromOne DEF Find
    <2>3. Sound(f) /\ Carries(req[r], f, "service") /\ f.new.svc = i /\ f \in Request
      <3>0. req[r] \in Request /\ req[r].new \in ObjectRow /\ req[r].row \in Objects \cup {0}
        BY <1>2 DEF Sound, Proper, Request
      <3>a. PICK q : q = req[r]
        OBVIOUS
      <3>1. PICK new : new = [q.new EXCEPT !.svc = i]
        OBVIOUS
      <3>2. /\ new \in ObjectRow /\ new.svc = i /\ new.hosts = q.new.hosts /\ new.on = q.new.on
            /\ new.owner = q.new.owner
        BY <2>2, <3>0, <3>a, <3>1 DEF ObjectRow
      <3>3. f = Filled(q, q.row, new)
        BY <1>1, <3>0, <3>a, <3>1 DEF Request, Filled
      <3> QED BY <1>2, <3>0, <3>a, <3>2, <3>3, FilledIn
    <2>4. Holds(Granted(r, pairs), r, i, "share")
      BY <1>1, <2>2, InGranted DEF Rows, Holds
    <2>5. Establishes(r, Onward(f), "service", Granted(r, pairs))
      BY <2>2, <2>3, <2>4, OnwardSame DEF Establishes, KnowsService
    <2> QED BY <1>2, <2>1, <2>3, <2>5, Advancing
  <1> QED BY <1>3, <1>4

LEMMA ObjectStep == ASSUME ConfigInv, NEW r \in Reqs, target_row(r) PROVE ConfigInv'
  <1>1. PICK found, pairs, i, f : /\ found = TargetOf(r) /\ pairs = Rows(found, "share")
                                  /\ i = Only(found) /\ f = [req[r] EXCEPT !.new.on = i]
    OBVIOUS
  <1>2. /\ At(r, "object") /\ Free(r, pairs)
        /\ Active(req[r]) /\ Sound(req[r]) /\ req[r].kind \in AllKinds /\ req[r].kind \in PolicyKinds
    BY <1>1, Stands DEF target_row, Locking, Has
  <1>3. CASE Refuse(r)
    BY <1>2, <1>3, RefuseStep
  <1>4. CASE ~Refuse(r)
    <2>1. Advance(r, f) /\ locks' = Granted(r, pairs) /\ UNCHANGED <<tables, load, ops, audit, hands>>
      BY <1>1, <1>4 DEF target_row, Locking
    <2>2. i \in Objects \cup {0} /\ (i # 0 => obj[i].kind \in {"service", "route"} /\ i \in found)
      BY <1>1, OnlyOne DEF TargetOf, Find
    <2>3. Sound(f) /\ Carries(req[r], f, "object") /\ f.new.on = i /\ f \in Request
      <3>0. req[r] \in Request /\ req[r].new \in ObjectRow /\ req[r].row \in Objects \cup {0}
        BY <1>2 DEF Sound, Proper, Request
      <3>a. PICK q : q = req[r]
        OBVIOUS
      <3>1. PICK new : new = [q.new EXCEPT !.on = i]
        OBVIOUS
      <3>2. /\ new \in ObjectRow /\ new.on = i /\ new.hosts = q.new.hosts /\ new.svc = q.new.svc
            /\ new.owner = q.new.owner
        BY <2>2, <3>0, <3>a, <3>1 DEF ObjectRow
      <3>3. f = Filled(q, q.row, new)
        BY <1>1, <3>0, <3>a, <3>1 DEF Request, Filled
      <3> QED BY <1>2, <3>0, <3>a, <3>2, <3>3, FilledIn
    <2>4. i # 0 => Holds(Granted(r, pairs), r, i, "share")
      BY <1>1, <2>2, InGranted DEF Rows, Holds
    <2>5. Establishes(r, Onward(f), "object", Granted(r, pairs))
      BY <2>2, <2>3, <2>4, OnwardSame DEF Establishes, KnowsObject
    <2> QED BY <1>2, <2>1, <2>3, <2>5, Advancing
  <1> QED BY <1>3, <1>4

LEMMA OwnerStep == ASSUME ConfigInv, NEW r \in Reqs, consumer_row(r) PROVE ConfigInv'
  <1>1. PICK found, pairs, i, f : /\ found = OwnerOf(r) /\ pairs = Rows(found, "share")
                                  /\ i = (IF req[r].new.name = "other" THEN 0 ELSE Only(found))
                                  /\ f = [req[r] EXCEPT !.new.owner = i]
    OBVIOUS
  <1>2. /\ At(r, "owner") /\ Free(r, pairs)
        /\ Active(req[r]) /\ Sound(req[r]) /\ req[r].kind \in AllKinds /\ req[r].kind \in OwnerKinds
    BY <1>1, Stands DEF consumer_row, Locking, Has
  <1>3. CASE Refuse(r)
    BY <1>2, <1>3, RefuseStep
  <1>4. CASE ~Refuse(r)
    <2>1. Advance(r, f) /\ locks' = Granted(r, pairs) /\ UNCHANGED <<tables, load, ops, audit, hands>>
      BY <1>1, <1>4 DEF consumer_row, Locking
    <2>2. i \in Objects \cup {0} /\ (i # 0 => obj[i].kind \in {"consumer", "plane"} /\ i \in found)
      BY <1>1, OnlyOne DEF OwnerOf, Find
    <2>3. Sound(f) /\ Carries(req[r], f, "owner") /\ f.new.owner = i /\ f \in Request
      <3>0. req[r] \in Request /\ req[r].new \in ObjectRow /\ req[r].row \in Objects \cup {0}
        BY <1>2 DEF Sound, Proper, Request
      <3>a. PICK q : q = req[r]
        OBVIOUS
      <3>1. PICK new : new = [q.new EXCEPT !.owner = i]
        OBVIOUS
      <3>2. /\ new \in ObjectRow /\ new.owner = i /\ new.hosts = q.new.hosts /\ new.svc = q.new.svc
            /\ new.on = q.new.on
        BY <2>2, <3>0, <3>a, <3>1 DEF ObjectRow
      <3>3. f = Filled(q, q.row, new)
        BY <1>1, <3>0, <3>a, <3>1 DEF Request, Filled
      <3> QED BY <1>2, <3>0, <3>a, <3>2, <3>3, FilledIn
    <2>4. i # 0 => Holds(Granted(r, pairs), r, i, "share")
      BY <1>1, <2>2, InGranted DEF Rows, Holds
    <2>5. Establishes(r, Onward(f), "owner", Granted(r, pairs))
      BY <2>2, <2>3, <2>4, OnwardSame DEF Establishes, KnowsOwner
    <2> QED BY <1>2, <2>1, <2>3, <2>5, Advancing
  <1> QED BY <1>3, <1>4

\* A row under the stamp its author was shown is the row that was shown.
LEMMA AsShown ==
    ASSUME ConfigInv, NEW r \in Reqs, Active(req[r])
    PROVE  /\ \A i \in Objects : obj[i].kind \in SavedTables /\ obj[i].stamp = req[r].seen.stamp =>
                 obj[i] = req[r].seen
           /\ req[r].seen.stamp = 0 => req[r].seen = Nothing
  <1>1. Shown(req, obj, ops, load.ops) /\ load \in Loads /\ ops \in 0..load.ops /\ load.ops \in Nat
    BY ConfigurationAssumption DEF ConfigInv, TablesTyped
  <1>2. ~Given(0, ops, load.ops)
    BY <1>1 DEF Given
  <1> QED BY <1>1, <1>2 DEF Shown

LEMMA RowStep == ASSUME ConfigInv, NEW r \in Reqs, Row(r) PROVE ConfigInv'
  <1>0. PICK q : q = req[r]
    OBVIOUS
  <1>1. PICK found : found = {j \in Find(r, TableOf(q.kind), q.to) :
                                q.kind \in {"key_revoke", "token_revoke"} => obj[j].val = q.role}
    OBVIOUS
  <1>2. PICK i, pairs : i = Only(found) /\ pairs = Rows(found, "update")
    OBVIOUS
  <1>3. PICK groups : groups = IF q.kind = "group" THEN GroupsAfter(r, i) ELSE {}
    OBVIOUS
  <1>4. PICK f : f = [q EXCEPT !.row = i, !.new.groups = groups]
    OBVIOUS
  <1>5. Locking(r, "row", pairs, found # {} /\ MayWriteRow(r, i), f)
    BY <1>0, <1>1, <1>2, <1>3, <1>4 DEF Row
  <1>6. /\ At(r, "row") /\ Free(r, pairs) /\ Active(q) /\ Sound(q) /\ q.kind \in AllKinds /\ q.kind \in RowKinds
    BY <1>0, <1>5, Stands DEF Locking, Has
  <1>7. CASE Refuse(r)
    BY <1>0, <1>6, <1>7, RefuseStep
  <1>8. CASE ~Refuse(r)
    <2>1. /\ found # {} /\ MayWriteRow(r, i) /\ Advance(r, f) /\ locks' = Granted(r, pairs)
          /\ UNCHANGED <<tables, load, ops, audit, hands>>
      BY <1>5, <1>8 DEF Locking
    <2>2. i \in Objects /\ i # 0 /\ obj[i].kind = TableOf(q.kind) /\ i \in found
      <3>1. i \in found
        BY <1>2, <2>1, OnlyOne
      <3>2. i \in Find(r, TableOf(q.kind), q.to)
        BY <1>1, <3>1
      <3> QED BY <3>1, <3>2, ConfigurationAssumption DEF Find
    <2>3. groups \subseteq GroupNames
      <3>1. obj[i] \in ObjectRow /\ obj[i].groups \subseteq GroupNames
        BY <2>2 DEF ConfigInv, TablesTyped, ObjectRow
      <3>2. q.kind = "group" => q.name \in GroupNames
        BY <1>6 DEF Sound, Proper
      <3> QED BY <1>0, <1>3, <3>1, <3>2 DEF GroupsAfter
    <2>4. Sound(f) /\ Carries(q, f, "row") /\ f.row = i /\ f \in Request /\ f.kind = q.kind /\ f.seen = q.seen
          /\ f.path = q.path
      <3>0. q \in Request /\ q.new \in ObjectRow
        BY <1>6 DEF Sound, Proper, Request
      <3>1. PICK new : new = [q.new EXCEPT !.groups = groups]
        OBVIOUS
      <3>2. /\ new \in ObjectRow /\ new.hosts = q.new.hosts /\ new.svc = q.new.svc /\ new.on = q.new.on
            /\ new.owner = q.new.owner
        BY <2>3, <3>0, <3>1 DEF ObjectRow
      <3>3. f = Filled(q, i, new)
        BY <1>4, <3>0, <3>1 DEF Request, Filled
      <3> QED BY <1>6, <2>2, <3>2, <3>3, FilledIn
    <2>5. Holds(Granted(r, pairs), r, i, "update")
      BY <1>2, <2>2, InGranted DEF Rows, Holds
    <2>a. TableOf(q.kind) # "none"
      BY <1>6 DEF TableOf, RowKinds, PolicyKinds
    <2>6. /\ q.kind = "service_delete" => Unrouted(obj, i)
          /\ q.kind \in {"service_delete", "route_delete"} => Unpoliced(obj, i)
      <3>1. q.kind = "service_delete" => unused(i)
        BY <1>0, <2>1 DEF MayWriteRow
      <3>2. q.kind \in {"service_delete", "route_delete"} => no_policies(i)
        BY <1>0, <2>1 DEF MayWriteRow
      <3> QED BY <3>1, <3>2 DEF unused, no_policies, Unrouted, Unpoliced, Live
    <2>7. q.kind \in SavedOver => obj[i] = q.seen
      <3>1. ASSUME q.kind \in {"service_replace", "route_replace"} PROVE obj[i] = q.seen
        <4>1. Fresh(r, i)
          BY <1>0, <2>1, <3>1 DEF MayWriteRow
        <4>2. TableOf(q.kind) \in {"service", "route"}
          BY <3>1 DEF TableOf, PolicyKinds
        <4> QED BY <1>0, <1>6, <2>2, <4>1, <4>2, AsShown DEF Fresh, SavedTables
      <3> QED BY <1>6, <3>1 DEF SavedOver, RowKinds
    <2>8. PICK q2 : q2 = Onward(f)
      OBVIOUS
    <2>9. q2.kind = q.kind /\ q2.row = i /\ q2.seen = q.seen /\ Active(q2)
      <3>1. Active(f) /\ Head(f.path) # "commit"
        BY <1>0, <1>6, <2>4 DEF Active, At
      <3> QED BY <2>4, <2>8, <3>1, OnwardSame, SoundOnward
    <2>10. KnowsRow(r, q2, Granted(r, pairs), obj)
      BY <1>6, <2>2, <2>a, <2>5, <2>6, <2>7, <2>9 DEF KnowsRow, RowKinds
    <2>11. Establishes(r, Onward(f), "row", Granted(r, pairs))
      BY <2>8, <2>10 DEF Establishes
    <2> QED BY <1>0, <1>6, <2>1, <2>4, <2>11, Advancing
  <1> QED BY <1>7, <1>8

LEMMA PolicyStep == ASSUME ConfigInv, NEW r \in Reqs, plugin_row(r) PROVE ConfigInv'
  <1>0. PICK q : q = req[r]
    OBVIOUS
  <1>2. PICK i, pairs : i = Only(PolicyOf(r)) /\ pairs = Rows(PolicyOf(r), "update")
    OBVIOUS
  <1>3. PICK may : may = IF q.kind = "policy_delete" THEN i # 0 ELSE q.seen.stamp = (IF i = 0 THEN 0 ELSE obj[i].stamp)
    OBVIOUS
  <1>4. PICK f : f = [q EXCEPT !.row = i]
    OBVIOUS
  <1>5. Locking(r, "policy", pairs, may, f)
    BY <1>0, <1>2, <1>3, <1>4 DEF plugin_row
  <1>6. /\ At(r, "policy") /\ Free(r,
            pairs) /\ Active(q) /\ Sound(q) /\ q.kind \in AllKinds /\ q.kind \in PolicyKinds
    BY <1>0, <1>5, Stands DEF Locking, Has
  <1>7. CASE Refuse(r)
    BY <1>0, <1>6, <1>7, RefuseStep
  <1>8. CASE ~Refuse(r)
    <2>1. /\ may /\ Advance(r, f) /\ locks' = Granted(r, pairs) /\ UNCHANGED <<tables, load, ops, audit,
              hands>>
      BY <1>5, <1>8 DEF Locking
    <2>2. i \in Objects \cup {0} /\ (i # 0 => obj[i].kind = "plugin" /\ i \in PolicyOf(r))
      BY <1>2, OnlyOne DEF PolicyOf
    <2>4. Sound(f) /\ Carries(q, f, "policy") /\ f.row = i /\ f \in Request /\ f.kind = q.kind /\ f.seen = q.seen
          /\ f.path = q.path
      <3>0. q \in Request /\ q.new \in ObjectRow
        BY <1>6 DEF Sound, Proper, Request
      <3>1. PICK new : new = q.new
        OBVIOUS
      <3>3. f = Filled(q, i, new)
        BY <1>4, <3>0, <3>1 DEF Request, Filled
      <3> QED BY <1>6, <2>2, <3>0, <3>1, <3>3, FilledIn
    <2>5. i # 0 => Holds(Granted(r, pairs), r, i, "update")
      BY <1>2, <2>2, InGranted DEF Rows, Holds
    <2>6. TableOf(q.kind) = "plugin"
      BY <1>6 DEF TableOf, PolicyKinds
    <2>7. i # 0 /\ q.kind \in SavedOver => obj[i] = q.seen
      BY <1>0, <1>3, <1>6, <2>1, <2>2, AsShown DEF SavedOver, PolicyKinds, SavedTables
    <2>8. i = 0 => q.kind = "policy_put" /\ q.seen = Nothing
      BY <1>0, <1>3, <1>6, <2>1, AsShown DEF PolicyKinds
    <2>9. PICK q2 : q2 = Onward(f)
      OBVIOUS
    <2>10. q2.kind = q.kind /\ q2.row = i /\ q2.seen = q.seen /\ Active(q2)
      <3>1. Active(f) /\ Head(f.path) # "commit"
        BY <1>0, <1>6, <2>4 DEF Active, At
      <3> QED BY <2>4, <2>9, <3>1, OnwardSame, SoundOnward
    <2>11. KnowsRow(r, q2, Granted(r, pairs), obj)
      BY <1>6, <2>2, <2>5, <2>6, <2>7, <2>8, <2>10 DEF KnowsRow, RowKinds, PolicyKinds
    <2>12. Establishes(r, Onward(f), "policy", Granted(r, pairs))
      BY <2>9, <2>11 DEF Establishes
    <2> QED BY <1>0, <1>6, <2>1, <2>4, <2>12, Advancing
  <1> QED BY <1>7, <1>8

-----------------------------------------------------------------------------
(* Requests that begin, and begin again *)

\* A request at the start of its program rests on nothing yet.
LEMMA Unlocked ==
    ASSUME NEW r, NEW q, q.path # <<>>, Head(q.path) = "caller", q.row = 0,
           NEW L, NEW A, NEW N, NEW B, NEW M, NEW O, NEW hand, q.counted \in 0..hand
    PROVE  Entitled(r, q, L, A, N, B, M) /\ Informed(r, q, L, O) /\ KnowsAdmins(q, A, B, M, hand)
  BY DEF Entitled, Informed, KnowsAdmins, KnowsCaller, KnowsScope, KnowsRight, KnowsGrant, KnowsCount,
         KnowsWorkspace, KnowsRow,
         KnowsHosts, KnowsService, KnowsObject, KnowsOwner, Past, Reached

LEMMA Waiting == ASSUME NEW r \in Reqs, Deadlocked(r, Wants) \/ Duplicate(r) PROVE Active(req[r])
  <1>1. CASE Duplicate(r)
    BY <1>1 DEF Duplicate, At, Active
  <1>2. CASE Deadlocked(r, Wants)
    <2> SUFFICES ASSUME req[r].path = <<>> PROVE FALSE
      BY DEF Active
    <2>1. \A stage : ~At(r, stage)
      BY DEF At
    <2>2. Wants[r] = {}
      BY <2>1 DEF Wants
    <2>3. Blockers(r, {}) = {}
      BY DEF Blockers
    <2> QED BY <1>2, <2>2, <2>3 DEF Deadlocked, Free
  <1> QED BY <1>1, <1>2

LEMMA RetryStep == ASSUME ConfigInv, NEW r \in Reqs, Retry(r) PROVE ConfigInv'
  <1>1. Active(req[r]) /\ UNCHANGED <<tables, load, ops, audit, hands>>
    BY Waiting DEF Retry
  <1>2. CASE Answer(r)
    BY <1>1, <1>2, RefuseStep DEF Refuse
  <1>3. CASE ~Answer(r)
    <2>0. PICK p, t : p = Program(req[r].kind) /\ t = req[r].tried + 1
      OBVIOUS
    <2>1. PICK q : q = [req[r] EXCEPT !.path = p, !.tried = t, !.row = 0]
      OBVIOUS
    <2>2. req' = [req EXCEPT ![r] = q] /\ locks' = Released(r)
      BY <1>3, <2>0, <2>1 DEF Retry
    <2>3. Sound(req[r]) /\ req[r] \in Request /\ req[r].kind \in AllKinds /\ t \in Nat
      BY <1>1, <2>0 DEF ConfigInv, Sound, Proper, Request
    <2>4. p \in Paths(req[r].kind) /\ p # <<>> /\ Head(p) = "caller" /\ p \in AllPaths
      BY <2>0, <2>3, Begins DEF AllPaths
    <2>5. /\ q \in Request /\ q.path = p /\ q.row = 0 /\ q.kind = req[r].kind /\ q.by = req[r].by /\ q.to = req[r].to
          /\ q.role = req[r].role /\ q.name = req[r].name /\ q.over = req[r].over /\ q.new = req[r].new
          /\ q.n = req[r].n /\ q.seen = req[r].seen /\ q.counted = req[r].counted
      BY <2>1, <2>3, <2>4 DEF Request
    <2>6. Sound(q)
      BY <1>1, <2>3, <2>4, <2>5 DEF Sound, Proper
    <2>7. /\ Entitled(r, q, locks', acct, name, binding, mapping) /\ Informed(r, q, locks', obj)
          /\ KnowsAdmins(q, acct, binding, mapping, hands)
      <3>1. q.counted \in 0..hands
        BY <2>5 DEF ConfigInv, KnowsAdmins
      <3> QED BY <2>4, <2>5, <3>1, Unlocked
    <2>8. Exclusive' /\ (\A s \in Reqs \ {r} : Keeps(s, locks, locks')) /\ ops' \in 0..load.ops
      BY <1>1, <2>2 DEF ConfigInv, TablesTyped, Exclusive, Released, Keeps, Lock
    <2>9. Stamped(req', obj, ops', load.ops) /\ Shown(req', obj, ops', load.ops)
      BY <1>1, <2>2, <2>5, SameStamps DEF ConfigInv
    <2> QED BY <1>1, <2>2, <2>6, <2>7, <2>8, <2>9, QuietStep
  <1> QED BY <1>2, <1>3

\* A request that arrives takes a stamp no row and no other request has, and is shown a row that is there.
LEMMA NextStamp ==
    ASSUME NEW Q, DOMAIN Q = Reqs, NEW O \in [Objects -> ObjectRow], NEW n \in Nat, NEW first \in Nat,
              n < first,
           Stamped(Q, O, n, first), Shown(Q, O, n, first), \A s \in Reqs : Q[s].seen \in ObjectRow,
           NEW r \in Reqs, NEW q, q.n = n + 1,
           q.seen = Nothing \/ \E i \in Objects : O[i].kind \in SavedTables /\ q.seen = O[i]
    PROVE  Stamped([Q EXCEPT ![r] = q], O, n + 1, first) /\ Shown([Q EXCEPT ![r] = q], O, n + 1, first)
  <1>1. PICK Q2 : Q2 = [Q EXCEPT ![r] = q]
    OBVIOUS
  <1>2. Q2[r] = q /\ \A s \in Reqs \ {r} : Q2[s] = Q[s]
    BY <1>1
  <1>3. ASSUME NEW x \in Nat, Given(x, n, first) PROVE Given(x, n + 1, first) /\ x # n + 1 /\ x # 0
    BY <1>3 DEF Given
  <1>4. \A i \in Objects : O[i].stamp \in Nat
    BY DEF ObjectRow
  <1>5. Nothing.stamp = 0
    BY DEF Nothing
  <1>6. ASSUME NEW s \in Reqs \ {r}, Active(Q[s])
        PROVE  Q[s].n \in 1..n /\ Q[s].n # n + 1 /\ Q[s].n \in 1..(n + 1)
    BY <1>6 DEF Stamped
  <1>7. Stamped(Q2, O, n + 1, first)
    <2>1. \A i \in Objects : O[i].kind # "none" => Given(O[i].stamp, n + 1, first) /\ O[i].stamp # n + 1
      BY <1>3, <1>4 DEF Stamped
    <2>2. n + 1 \in 1..(n + 1)
      OBVIOUS
    <2> QED BY <1>2, <1>6, <2>1, <2>2 DEF Stamped
  <1>8. Shown(Q2, O, n + 1, first)
    <2> SUFFICES ASSUME NEW s \in Reqs, Active(Q2[s])
                 PROVE  /\ Q2[s].seen = Nothing \/ Given(Q2[s].seen.stamp, n + 1, first)
                        /\ \A v \in Reqs : Active(Q2[v]) => Q2[s].seen.stamp # Q2[v].n
                        /\ \A i \in Objects : O[i].kind \in SavedTables /\ O[i].stamp = Q2[s].seen.stamp =>
                              O[i] = Q2[s].seen
      BY DEF Shown
    <2>1. CASE s # r
      <3>1. Q2[s] = Q[s] /\ Active(Q[s]) /\ Q[s].seen.stamp \in Nat
        BY <1>2, <2>1 DEF ObjectRow
      <3>2. Q[s].seen = Nothing \/ Given(Q[s].seen.stamp, n, first)
        BY <3>1 DEF Shown
      <3>3. Q[s].seen.stamp # n + 1
        BY <1>3, <1>5, <3>1, <3>2
      <3>4. Q[s].seen = Nothing \/ Given(Q[s].seen.stamp, n + 1, first)
        BY <1>3, <3>1, <3>2
      <3> QED BY <1>2, <3>1, <3>3, <3>4 DEF Shown
    <2>2. CASE s = r /\ q.seen = Nothing
      <3>1. \A i \in Objects : O[i].kind \in SavedTables => O[i].stamp # 0
        BY <1>3, <1>4 DEF Stamped, SavedTables
      <3> QED BY <1>2, <1>5, <1>6, <2>2, <3>1
    <2>3. CASE s = r /\ q.seen # Nothing
      <3>1. PICK i \in Objects : O[i].kind \in SavedTables /\ O[i].kind # "none" /\ q.seen = O[i]
        BY <2>3 DEF SavedTables
      <3>2. Given(O[i].stamp, n + 1, first) /\ O[i].stamp # n + 1
        BY <1>3, <1>4, <3>1 DEF Stamped
      <3>3. \A v \in Reqs \ {r} : Active(Q[v]) => O[i].stamp # Q[v].n
        BY <3>1 DEF Stamped
      <3>4. \A j \in Objects : O[j].kind \in SavedTables /\ O[j].stamp = O[i].stamp => j = i
        BY <3>1 DEF Stamped
      <3> QED BY <1>2, <2>3, <3>1, <3>2, <3>3, <3>4
    <2> QED BY <2>1, <2>2, <2>3
  <1> QED BY <1>1, <1>7, <1>8

LEMMA ArriveStep ==
    ASSUME ConfigInv, NEW r \in Reqs, NEW f \in Request, Proper(f), f.row = 0, f.counted = 0, Arrive(r, f),
           f.seen = Nothing \/ \E i \in Objects : obj[i].kind \in SavedTables /\ f.seen = obj[i]
    PROVE  ConfigInv'
  <1>0. PICK p, n : p = Program(f.kind) /\ n = ops + 1
    OBVIOUS
  <1>1. PICK q : q = [f EXCEPT !.n = n, !.path = p]
    OBVIOUS
  <1>2. /\ req' = [req EXCEPT ![r] = q] /\ ops' = ops + 1 /\ ops < load.ops
        /\ UNCHANGED <<locks, tables, load, audit, hands>>
    BY <1>0, <1>1 DEF Arrive
  <1>3. load.ops \in Nat /\ ops \in Nat /\ ops' \in 0..load.ops /\ n \in Nat
    BY <1>0, <1>2, ConfigurationAssumption DEF ConfigInv, TablesTyped
  <1>4. f.kind \in AllKinds
    BY DEF Proper
  <1>5. p \in Paths(f.kind) /\ p # <<>> /\ Head(p) = "caller" /\ p \in AllPaths
    BY <1>0, <1>4, Begins DEF AllPaths
  <1>6. /\ q \in Request /\ q.path = p /\ q.row = 0 /\ q.kind = f.kind /\ q.by = f.by /\ q.to = f.to
        /\ q.role = f.role /\ q.name = f.name /\ q.over = f.over /\ q.new = f.new
        /\ q.n = n /\ q.seen = f.seen /\ q.counted = 0
    BY <1>1, <1>3, <1>5 DEF Request
  <1>7. Sound(q)
    BY <1>5, <1>6 DEF Sound, Proper
  <1>8. /\ Entitled(r, q, locks', acct, name, binding, mapping) /\ Informed(r, q, locks', obj)
        /\ KnowsAdmins(q, acct, binding, mapping, hands)
    <2>1. q.counted \in 0..hands
      BY <1>6 DEF ConfigInv, TablesTyped
    <2> QED BY <1>5, <1>6, <2>1, Unlocked
  <1>9. Exclusive' /\ (\A s \in Reqs \ {r} : Keeps(s, locks, locks'))
    BY <1>2 DEF ConfigInv, Exclusive, Keeps
  <1>10. Stamped(req', obj, ops', load.ops) /\ Shown(req', obj, ops', load.ops)
    <2>1. /\ DOMAIN req = Reqs /\ obj \in [Objects -> ObjectRow] /\ Stamped(req, obj, ops, load.ops)
          /\ Shown(req, obj, ops, load.ops)
      BY DEF ConfigInv, TablesTyped
    <2>2. \A s \in Reqs : req[s].seen \in ObjectRow
      BY DEF ConfigInv, Sound, Request
    <2> QED BY <1>0, <1>2, <1>3, <1>6, <2>1, <2>2, NextStamp
  <1> QED BY <1>2, <1>3, <1>7, <1>8, <1>9, <1>10, QuietStep

\* What a handler asks, of the fields it fills in.
Asks(k, by, over, to, role, nm, rowname, val, hosts, seen) ==
    [path |-> <<>>, kind |-> k, by |-> by, over |-> over, to |-> to, role |-> role, name |-> nm,
     new |-> [kind |-> "none", ws |-> "none", name |-> rowname, stamp |-> 0, val |-> val, svc |-> 0,
              hosts |-> hosts, on |-> 0, owner |-> 0, groups |-> {}],
     seen |-> seen, row |-> 0, n |-> 0, tried |-> 1, counted |-> 0]

\* Nothing, or a row that is there to be saved over.
Visible(seen) == seen = Nothing \/ \E i \in Objects : obj[i].kind \in SavedTables /\ seen = obj[i]

LEMMA AskStep ==
    ASSUME ConfigInv, NEW r \in Reqs, NEW k \in AllKinds, NEW by \in Users, NEW over \in SUBSET WorkspaceIds,
           NEW to \in Users \cup Groups \cup RowNames, NEW role \in Nat, NEW nm \in RowNames \cup GroupNames,
           NEW rowname \in RowNames, NEW val \in Nat, NEW hosts \in SUBSET Hosts, NEW seen, Visible(seen),
           k = "roles" => to \in Users /\ role \in 0..3,
           k = "mapping" => to \in Groups /\ role \in 0..3,
           k \in {"ws_create", "ws_rename"} => nm \in Names,
           k = "group" => nm \in GroupNames,
           k \in RoomKinds => \E w \in WorkspaceIds : over = {w},
           k \in PlaneKinds => over = {},
           Arrive(r, Asks(k, by, over, to, role, nm, rowname, val, hosts, seen))
    PROVE  ConfigInv'
  <1>1. PICK new : new = [kind |-> "none", ws |-> "none", name |-> rowname, stamp |-> 0, val |-> val, svc |-> 0,
                          hosts |-> hosts, on |-> 0, owner |-> 0, groups |-> {}]
    OBVIOUS
  <1>2. new \in ObjectRow /\ new.svc = 0 /\ new.on = 0 /\ new.owner = 0
    BY <1>1 DEF ObjectRow
  <1>3. seen \in ObjectRow
    BY DEF Visible, ConfigInv, TablesTyped, ObjectRow, Nothing, RowNames
  <1>4. PICK f : f = Asks(k, by, over, to, role, nm, rowname, val, hosts, seen)
    OBVIOUS
  <1>5. <<>> \in AllPaths
    <2>1. Paths("none") = {<<>>}
      BY DEF Paths
    <2> QED BY <2>1 DEF AllPaths
  <1>6. f = [path |-> <<>>, kind |-> k, by |-> by, over |-> over, to |-> to, role |-> role, name |-> nm,
             new |-> new, seen |-> seen, row |-> 0, n |-> 0, tried |-> 1, counted |-> 0]
    BY <1>1, <1>4 DEF Asks
  <1>7. /\ f \in Request /\ f.row = 0 /\ f.kind = k /\ f.by = by /\ f.over = over /\ f.to = to /\ f.role = role
        /\ f.name = nm /\ f.new = new /\ f.seen = seen /\ f.counted = 0
    BY <1>2, <1>3, <1>5, <1>6 DEF Request
  <1>8. Proper(f)
    BY <1>2, <1>7 DEF Proper
  <1> QED BY <1>4, <1>7, <1>8, ArriveStep DEF Visible

LEMMA OneWorkspace == ASSUME ConfigInv, NEW over \in One
          PROVE over \subseteq WorkspaceIds /\ \E w \in WorkspaceIds : over = {w}
  <1>1. over \subseteq WorkspaceIds /\ Cardinality(over) = 1 /\ IsFiniteSet(WorkspaceIds)
    BY ConfigurationAssumption DEF One, ConfigInv, TablesTyped
  <1>2. IsFiniteSet(over)
    BY <1>1, FS_Subset
  <1>3. \E w : over = {w}
    BY <1>1, <1>2, FS_Singleton
  <1> QED BY <1>1, <1>3

\* What a load's requests may be asked by and about.
LEMMA LoadFits ==
    ASSUME ConfigInv
    PROVE  /\ load.callers \subseteq Users /\ load.scopes \subseteq SUBSET WorkspaceIds
           /\ load.claims \subseteq SUBSET Hosts /\ load.policies \subseteq PolicyNames /\ load.ops \in Nat
           /\ ops \in Nat
  BY ConfigurationAssumption DEF ConfigInv, TablesTyped

LEMMA SetRoles == ASSUME ConfigInv, NEW r \in Reqs, set_roles(r) PROVE ConfigInv'
  <1>1. PICK by \in load.callers, to \in Users, role \in {0, 2, 3}, over \in load.scopes :
           Arrive(r, [Idle EXCEPT !.kind = "roles", !.by = by, !.to = to, !.role = role, !.over = over])
    BY DEF set_roles
  <1>2. [Idle EXCEPT !.kind = "roles", !.by = by, !.to = to, !.role = role, !.over = over]
          = Asks("roles", by, over, to, role, "none", "none", 0, {}, Nothing)
    <2>1. PICK f : f = [Idle EXCEPT !.kind = "roles", !.by = by, !.to = to, !.role = role, !.over = over]
      OBVIOUS
    <2>2. PICK none : none = Nothing
      OBVIOUS
    <2>5. f = [path |-> <<>>, kind |-> "roles", by |-> by, over |-> over, to |-> to, role |-> role,
               name |-> "none", new |-> none, seen |-> none, row |-> 0, n |-> 0, tried |-> 1, counted |-> 0]
      BY <2>1, <2>2 DEF Idle
    <2> QED BY <2>1, <2>2, <2>5 DEF Asks, Nothing
  <1>3. Arrive(r, Asks("roles", by, over, to, role, "none", "none", 0, {}, Nothing))
    BY <1>1, <1>2
  <1>4. "none" \in RowNames /\ Names \subseteq RowNames /\ Visible(Nothing)
    BY DEF RowNames, Visible
  <1> QED BY <1>3, <1>4, LoadFits, AskStep DEF AllKinds, SuperKinds, RightsKinds, RoomKinds, CreateKinds,
            RowKinds, PolicyKinds, PlaneKinds, WorkspaceKinds, GrantKinds

LEMMA PutMapping == ASSUME ConfigInv, NEW r \in Reqs, put_mapping(r) PROVE ConfigInv'
  <1>1. PICK by \in load.callers, g \in Groups, role \in {0, 3}, over \in load.scopes :
           Arrive(r, [Idle EXCEPT !.kind = "mapping", !.by = by, !.to = g, !.role = role, !.over = over])
    BY DEF put_mapping
  <1>2. [Idle EXCEPT !.kind = "mapping", !.by = by, !.to = g, !.role = role, !.over = over]
          = Asks("mapping", by, over, g, role, "none", "none", 0, {}, Nothing)
    <2>1. PICK f : f = [Idle EXCEPT !.kind = "mapping", !.by = by, !.to = g, !.role = role, !.over = over]
      OBVIOUS
    <2>2. PICK none : none = Nothing
      OBVIOUS
    <2>5. f = [path |-> <<>>, kind |-> "mapping", by |-> by, over |-> over, to |-> g, role |-> role,
               name |-> "none", new |-> none, seen |-> none, row |-> 0, n |-> 0, tried |-> 1, counted |-> 0]
      BY <2>1, <2>2 DEF Idle
    <2> QED BY <2>1, <2>2, <2>5 DEF Asks, Nothing
  <1>3. Arrive(r, Asks("mapping", by, over, g, role, "none", "none", 0, {}, Nothing))
    BY <1>1, <1>2
  <1>4. "none" \in RowNames /\ Names \subseteq RowNames /\ Visible(Nothing)
    BY DEF RowNames, Visible
  <1> QED BY <1>3, <1>4, LoadFits, AskStep DEF AllKinds, SuperKinds, RightsKinds, RoomKinds, CreateKinds,
            RowKinds, PolicyKinds, PlaneKinds, WorkspaceKinds, GrantKinds

LEMMA CreateWorkspace == ASSUME ConfigInv, NEW r \in Reqs, create_workspace(r) PROVE ConfigInv'
  <1>1. PICK by \in load.callers, n \in Names :
           Arrive(r, [Idle EXCEPT !.kind = "ws_create", !.by = by, !.name = n])
    BY DEF create_workspace
  <1>2. [Idle EXCEPT !.kind = "ws_create", !.by = by, !.name = n]
          = Asks("ws_create", by, {}, "none", 0, n, "none", 0, {}, Nothing)
    <2>1. PICK f : f = [Idle EXCEPT !.kind = "ws_create", !.by = by, !.name = n]
      OBVIOUS
    <2>2. PICK none : none = Nothing
      OBVIOUS
    <2>5. f = [path |-> <<>>, kind |-> "ws_create", by |-> by, over |-> {}, to |-> "none", role |-> 0,
               name |-> n, new |-> none, seen |-> none, row |-> 0, n |-> 0, tried |-> 1, counted |-> 0]
      BY <2>1, <2>2 DEF Idle
    <2> QED BY <2>1, <2>2, <2>5 DEF Asks, Nothing
  <1>3. Arrive(r, Asks("ws_create", by, {}, "none", 0, n, "none", 0, {}, Nothing))
    BY <1>1, <1>2
  <1>4. "none" \in RowNames /\ Names \subseteq RowNames /\ Visible(Nothing)
    BY DEF RowNames, Visible
  <1> QED BY <1>3, <1>4, LoadFits, AskStep DEF AllKinds, SuperKinds, RightsKinds, RoomKinds, CreateKinds,
            RowKinds, PolicyKinds, PlaneKinds, WorkspaceKinds, GrantKinds

LEMMA RenameWorkspace == ASSUME ConfigInv, NEW r \in Reqs, rename_workspace(r) PROVE ConfigInv'
  <1>1. PICK by \in load.callers, from \in Names, n \in Names :
           Arrive(r, [Idle EXCEPT !.kind = "ws_rename", !.by = by, !.to = from, !.name = n])
    BY DEF rename_workspace
  <1>2. [Idle EXCEPT !.kind = "ws_rename", !.by = by, !.to = from, !.name = n]
          = Asks("ws_rename", by, {}, from, 0, n, "none", 0, {}, Nothing)
    <2>1. PICK f : f = [Idle EXCEPT !.kind = "ws_rename", !.by = by, !.to = from, !.name = n]
      OBVIOUS
    <2>2. PICK none : none = Nothing
      OBVIOUS
    <2>5. f = [path |-> <<>>, kind |-> "ws_rename", by |-> by, over |-> {}, to |-> from, role |-> 0,
               name |-> n, new |-> none, seen |-> none, row |-> 0, n |-> 0, tried |-> 1, counted |-> 0]
      BY <2>1, <2>2 DEF Idle
    <2> QED BY <2>1, <2>2, <2>5 DEF Asks, Nothing
  <1>3. Arrive(r, Asks("ws_rename", by, {}, from, 0, n, "none", 0, {}, Nothing))
    BY <1>1, <1>2
  <1>4. "none" \in RowNames /\ Names \subseteq RowNames /\ Visible(Nothing)
    BY DEF RowNames, Visible
  <1> QED BY <1>3, <1>4, LoadFits, AskStep DEF AllKinds, SuperKinds, RightsKinds, RoomKinds, CreateKinds,
            RowKinds, PolicyKinds, PlaneKinds, WorkspaceKinds, GrantKinds

LEMMA DeleteWorkspace == ASSUME ConfigInv, NEW r \in Reqs, delete_workspace(r) PROVE ConfigInv'
  <1>1. PICK by \in load.callers, n \in Names :
           Arrive(r, [Idle EXCEPT !.kind = "ws_delete", !.by = by, !.to = n])
    BY DEF delete_workspace
  <1>2. [Idle EXCEPT !.kind = "ws_delete", !.by = by, !.to = n]
          = Asks("ws_delete", by, {}, n, 0, "none", "none", 0, {}, Nothing)
    <2>1. PICK f : f = [Idle EXCEPT !.kind = "ws_delete", !.by = by, !.to = n]
      OBVIOUS
    <2>2. PICK none : none = Nothing
      OBVIOUS
    <2>5. f = [path |-> <<>>, kind |-> "ws_delete", by |-> by, over |-> {}, to |-> n, role |-> 0,
               name |-> "none", new |-> none, seen |-> none, row |-> 0, n |-> 0, tried |-> 1, counted |-> 0]
      BY <2>1, <2>2 DEF Idle
    <2> QED BY <2>1, <2>2, <2>5 DEF Asks, Nothing
  <1>3. Arrive(r, Asks("ws_delete", by, {}, n, 0, "none", "none", 0, {}, Nothing))
    BY <1>1, <1>2
  <1>4. "none" \in RowNames /\ Names \subseteq RowNames /\ Visible(Nothing)
    BY DEF RowNames, Visible
  <1> QED BY <1>3, <1>4, LoadFits, AskStep DEF AllKinds, SuperKinds, RightsKinds, RoomKinds, CreateKinds,
            RowKinds, PolicyKinds, PlaneKinds, WorkspaceKinds, GrantKinds

LEMMA CreateService == ASSUME ConfigInv, NEW r \in Reqs, create_service(r) PROVE ConfigInv'
  <1>1. PICK by \in load.callers, over \in One, n \in Names :
           Arrive(r, [[Idle EXCEPT !.new.name = n, !.new.val = 1] EXCEPT !.kind = "service_create", !.by = by,
                     !.over = over])
    BY DEF create_service, Ask
  <1>2. [[Idle EXCEPT !.new.name = n, !.new.val = 1] EXCEPT !.kind = "service_create", !.by = by, !.over = over]
          = Asks("service_create", by, over, "none", 0, "none", n, 1, {}, Nothing)
    <2>1. PICK f : f = [[Idle EXCEPT !.new.name = n, !.new.val = 1] EXCEPT !.kind = "service_create",
              !.by = by, !.over = over]
      OBVIOUS
    <2>2. PICK none : none = Nothing
      OBVIOUS
    <2>3. PICK new : new = [[none EXCEPT !.name = n] EXCEPT !.val = 1]
      OBVIOUS
    <2>4. new = [kind |-> "none", ws |-> "none", name |-> n, stamp |-> 0, val |-> 1, svc |-> 0,
                 hosts |-> {}, on |-> 0, owner |-> 0, groups |-> {}]
      BY <2>2, <2>3 DEF Nothing
    <2>5. f = [path |-> <<>>, kind |-> "service_create", by |-> by, over |-> over, to |-> "none", role |-> 0,
               name |-> "none", new |-> new, seen |-> none, row |-> 0, n |-> 0, tried |-> 1, counted |-> 0]
      BY <2>1, <2>2, <2>3 DEF Idle
    <2> QED BY <2>1, <2>2, <2>4, <2>5 DEF Asks
  <1>3. Arrive(r, Asks("service_create", by, over, "none", 0, "none", n, 1, {}, Nothing))
    BY <1>1, <1>2
  <1>4. "none" \in RowNames /\ Names \subseteq RowNames /\ Visible(Nothing)
    BY DEF RowNames, Visible
  <1> QED BY <1>3, <1>4, LoadFits, AskStep, OneWorkspace DEF AllKinds, SuperKinds, RightsKinds, RoomKinds,
            CreateKinds, RowKinds, PolicyKinds, PlaneKinds, WorkspaceKinds, GrantKinds

LEMMA CreateRoute == ASSUME ConfigInv, NEW r \in Reqs, create_route(r) PROVE ConfigInv'
  <1>1. PICK by \in load.callers, over \in One, n \in Names, s \in Names, hosts \in load.claims :
           Arrive(r, [[Idle EXCEPT !.name = s, !.new.name = n, !.new.hosts = hosts, !.new.val = 1]
                     EXCEPT !.kind = "route_create", !.by = by, !.over = over])
    BY DEF create_route, Ask
  <1>2. [[Idle EXCEPT !.name = s, !.new.name = n, !.new.hosts = hosts, !.new.val = 1]
            EXCEPT !.kind = "route_create", !.by = by, !.over = over]
          = Asks("route_create", by, over, "none", 0, s, n, 1, hosts, Nothing)
    <2>1. PICK f : f = [[Idle EXCEPT !.name = s, !.new.name = n, !.new.hosts = hosts,
              !.new.val = 1] EXCEPT !.kind = "route_create", !.by = by, !.over = over]
      OBVIOUS
    <2>2. PICK none : none = Nothing
      OBVIOUS
    <2>3. PICK new : new = [[[none EXCEPT !.name = n] EXCEPT !.hosts = hosts] EXCEPT !.val = 1]
      OBVIOUS
    <2>4. new = [kind |-> "none", ws |-> "none", name |-> n, stamp |-> 0, val |-> 1, svc |-> 0,
                 hosts |-> hosts, on |-> 0, owner |-> 0, groups |-> {}]
      BY <2>2, <2>3 DEF Nothing
    <2>5. f = [path |-> <<>>, kind |-> "route_create", by |-> by, over |-> over, to |-> "none", role |-> 0,
               name |-> s, new |-> new, seen |-> none, row |-> 0, n |-> 0, tried |-> 1, counted |-> 0]
      BY <2>1, <2>2, <2>3 DEF Idle
    <2> QED BY <2>1, <2>2, <2>4, <2>5 DEF Asks
  <1>3. Arrive(r, Asks("route_create", by, over, "none", 0, s, n, 1, hosts, Nothing))
    BY <1>1, <1>2
  <1>4. "none" \in RowNames /\ Names \subseteq RowNames /\ Visible(Nothing)
    BY DEF RowNames, Visible
  <1> QED BY <1>3, <1>4, LoadFits, AskStep, OneWorkspace DEF AllKinds, SuperKinds, RightsKinds, RoomKinds,
            CreateKinds, RowKinds, PolicyKinds, PlaneKinds, WorkspaceKinds, GrantKinds

LEMMA CreateConsumer == ASSUME ConfigInv, NEW r \in Reqs, create_consumer(r) PROVE ConfigInv'
  <1>1. PICK by \in load.callers, over \in One, n \in Names :
           Arrive(r, [[Idle EXCEPT !.new.name = n] EXCEPT !.kind = "consumer_create", !.by = by, !.over = over])
    BY DEF create_consumer, Ask
  <1>2. [[Idle EXCEPT !.new.name = n] EXCEPT !.kind = "consumer_create", !.by = by, !.over = over]
          = Asks("consumer_create", by, over, "none", 0, "none", n, 0, {}, Nothing)
    <2>1. PICK f : f = [[Idle EXCEPT !.new.name = n] EXCEPT !.kind = "consumer_create", !.by = by,
              !.over = over]
      OBVIOUS
    <2>2. PICK none : none = Nothing
      OBVIOUS
    <2>3. PICK new : new = [none EXCEPT !.name = n]
      OBVIOUS
    <2>4. new = [kind |-> "none", ws |-> "none", name |-> n, stamp |-> 0, val |-> 0, svc |-> 0,
                 hosts |-> {}, on |-> 0, owner |-> 0, groups |-> {}]
      BY <2>2, <2>3 DEF Nothing
    <2>5. f = [path |-> <<>>, kind |-> "consumer_create", by |-> by, over |-> over, to |-> "none", role |-> 0,
               name |-> "none", new |-> new, seen |-> none, row |-> 0, n |-> 0, tried |-> 1, counted |-> 0]
      BY <2>1, <2>2, <2>3 DEF Idle
    <2> QED BY <2>1, <2>2, <2>4, <2>5 DEF Asks
  <1>3. Arrive(r, Asks("consumer_create", by, over, "none", 0, "none", n, 0, {}, Nothing))
    BY <1>1, <1>2
  <1>4. "none" \in RowNames /\ Names \subseteq RowNames /\ Visible(Nothing)
    BY DEF RowNames, Visible
  <1> QED BY <1>3, <1>4, LoadFits, AskStep, OneWorkspace DEF AllKinds, SuperKinds, RightsKinds, RoomKinds,
            CreateKinds, RowKinds, PolicyKinds, PlaneKinds, WorkspaceKinds, GrantKinds

LEMMA SetGroup == ASSUME ConfigInv, NEW r \in Reqs, set_group(r) PROVE ConfigInv'
  <1>1. PICK by \in load.callers, over \in One, n \in Names, g \in GroupNames, add \in {0, 1} :
           Arrive(r, [[Idle EXCEPT !.to = n, !.name = g, !.role = add] EXCEPT !.kind = "group", !.by = by,
                     !.over = over])
    BY DEF set_group, Ask
  <1>2. [[Idle EXCEPT !.to = n, !.name = g, !.role = add] EXCEPT !.kind = "group", !.by = by, !.over = over]
          = Asks("group", by, over, n, add, g, "none", 0, {}, Nothing)
    <2>1. PICK f : f = [[Idle EXCEPT !.to = n, !.name = g, !.role = add] EXCEPT !.kind = "group", !.by = by,
              !.over = over]
      OBVIOUS
    <2>2. PICK none : none = Nothing
      OBVIOUS
    <2>5. f = [path |-> <<>>, kind |-> "group", by |-> by, over |-> over, to |-> n, role |-> add,
               name |-> g, new |-> none, seen |-> none, row |-> 0, n |-> 0, tried |-> 1, counted |-> 0]
      BY <2>1, <2>2 DEF Idle
    <2> QED BY <2>1, <2>2, <2>5 DEF Asks, Nothing
  <1>3. Arrive(r, Asks("group", by, over, n, add, g, "none", 0, {}, Nothing))
    BY <1>1, <1>2
  <1>4. "none" \in RowNames /\ Names \subseteq RowNames /\ Visible(Nothing)
    BY DEF RowNames, Visible
  <1> QED BY <1>3, <1>4, LoadFits, AskStep, OneWorkspace DEF AllKinds, SuperKinds, RightsKinds, RoomKinds,
            CreateKinds, RowKinds, PolicyKinds, PlaneKinds, WorkspaceKinds, GrantKinds

LEMMA IssueKey == ASSUME ConfigInv, NEW r \in Reqs, issue_key(r) PROVE ConfigInv'
  <1>1. PICK by \in load.callers, over \in One, n \in Names :
           Arrive(r, [[Idle EXCEPT !.name = n, !.new.name = n, !.new.val = ops + 1]
                     EXCEPT !.kind = "key_issue", !.by = by, !.over = over])
    BY DEF issue_key, Ask
  <1>2. [[Idle EXCEPT !.name = n, !.new.name = n, !.new.val = ops + 1] EXCEPT !.kind = "key_issue", !.by = by,
            !.over = over]
          = Asks("key_issue", by, over, "none", 0, n, n, ops + 1, {}, Nothing)
    <2>1. PICK f : f = [[Idle EXCEPT !.name = n, !.new.name = n, !.new.val = ops + 1]
              EXCEPT !.kind = "key_issue", !.by = by, !.over = over]
      OBVIOUS
    <2>2. PICK none : none = Nothing
      OBVIOUS
    <2>3. PICK new : new = [[none EXCEPT !.name = n] EXCEPT !.val = ops + 1]
      OBVIOUS
    <2>4. new = [kind |-> "none", ws |-> "none", name |-> n, stamp |-> 0, val |-> ops + 1, svc |-> 0,
                 hosts |-> {}, on |-> 0, owner |-> 0, groups |-> {}]
      BY <2>2, <2>3 DEF Nothing
    <2>5. f = [path |-> <<>>, kind |-> "key_issue", by |-> by, over |-> over, to |-> "none", role |-> 0,
               name |-> n, new |-> new, seen |-> none, row |-> 0, n |-> 0, tried |-> 1, counted |-> 0]
      BY <2>1, <2>2, <2>3 DEF Idle
    <2> QED BY <2>1, <2>2, <2>4, <2>5 DEF Asks
  <1>3. Arrive(r, Asks("key_issue", by, over, "none", 0, n, n, ops + 1, {}, Nothing))
    BY <1>1, <1>2
  <1>4. "none" \in RowNames /\ Names \subseteq RowNames /\ Visible(Nothing)
    BY DEF RowNames, Visible
  <1> QED BY <1>3, <1>4, LoadFits, AskStep, OneWorkspace DEF AllKinds, SuperKinds, RightsKinds, RoomKinds,
            CreateKinds, RowKinds, PolicyKinds, PlaneKinds, WorkspaceKinds, GrantKinds

LEMMA SeenVisible == ASSUME NEW over, NEW table \in SavedTables, NEW n
                     PROVE  /\ Visible(SeenIn(over, table, n))
                            /\ SeenIn(over, table, n) # Nothing =>
                                  \E i \in Objects : obj[i].kind = table /\ SeenIn(over, table, n) = obj[i]
  <1>1. PICK found : found = {i \in Objects : obj[i].kind = table /\ obj[i].ws \in over /\ obj[i].name = n}
    OBVIOUS
  <1>2. SeenIn(over, table, n) = IF found = {} THEN Nothing ELSE obj[Only(found)]
    BY <1>1 DEF SeenIn
  <1>3. found # {} => Only(found) \in Objects /\ obj[Only(found)].kind = table
    BY <1>1, OnlyOne
  <1> QED BY <1>2, <1>3 DEF Visible

LEMMA ReplaceService == ASSUME ConfigInv, NEW r \in Reqs, replace_service(r) PROVE ConfigInv'
  <1>0. PICK by \in load.callers, over \in One, from \in Names, n \in Names, val \in {0, 2} :
           Ask(r, "service_replace", by, over,
               [Idle EXCEPT !.to = from, !.seen = SeenIn(over, "service", from), !.new.name = n,
                         !.new.val = val])
    BY DEF replace_service
  <1>1. PICK seen : seen = SeenIn(over, "service", from)
    OBVIOUS
  <1>2. [[Idle EXCEPT !.to = from, !.seen = seen, !.new.name = n, !.new.val = val]
            EXCEPT !.kind = "service_replace", !.by = by, !.over = over]
          = Asks("service_replace", by, over, from, 0, "none", n, val, {}, seen)
    <2>1. PICK f : f = [[Idle EXCEPT !.to = from, !.seen = seen, !.new.name = n, !.new.val = val]
              EXCEPT !.kind = "service_replace", !.by = by, !.over = over]
      OBVIOUS
    <2>2. PICK none : none = Nothing
      OBVIOUS
    <2>3. PICK new : new = [[none EXCEPT !.name = n] EXCEPT !.val = val]
      OBVIOUS
    <2>4. new = [kind |-> "none", ws |-> "none", name |-> n, stamp |-> 0, val |-> val, svc |-> 0,
                 hosts |-> {}, on |-> 0, owner |-> 0, groups |-> {}]
      BY <2>2, <2>3 DEF Nothing
    <2>5. f = [path |-> <<>>, kind |-> "service_replace", by |-> by, over |-> over, to |-> from, role |-> 0,
               name |-> "none", new |-> new, seen |-> seen, row |-> 0, n |-> 0, tried |-> 1, counted |-> 0]
      BY <2>1, <2>2, <2>3 DEF Idle
    <2> QED BY <2>1, <2>2, <2>4, <2>5 DEF Asks
  <1>3. Arrive(r, Asks("service_replace", by, over, from, 0, "none", n, val, {}, seen))
    BY <1>0, <1>1, <1>2 DEF Ask
  <1>4. "none" \in RowNames /\ Names \subseteq RowNames /\ Visible(seen)
    BY <1>1, SeenVisible DEF RowNames, SavedTables
  <1> QED BY <1>3, <1>4, LoadFits, AskStep, OneWorkspace DEF AllKinds, SuperKinds, RightsKinds, RoomKinds,
            CreateKinds, RowKinds, PolicyKinds, PlaneKinds, WorkspaceKinds, GrantKinds

LEMMA ReplaceRouteAsked == ASSUME ConfigInv, NEW r \in Reqs, replace_route(r) PROVE ConfigInv'
  <1>0. PICK by \in load.callers, over \in One, from \in Names, n \in Names, hosts \in load.claims :
           /\ SeenIn(over, "route", from) # Nothing
           /\ \E stamp \in {0, obj[SeenIn(over, "route", from).svc].stamp} :
                 Ask(r, "route_replace", by, over,
                     [Idle EXCEPT !.to = from, !.seen = SeenIn(over, "route", from), !.role = stamp,
                                  !.name = obj[SeenIn(over, "route", from).svc].name,
                                  !.new.name = n, !.new.hosts = hosts])
    BY DEF replace_route
  <1>1. PICK seen, service : seen = SeenIn(over, "route", from) /\ service = obj[seen.svc].name
    OBVIOUS
  <1>a. PICK stamp \in {0, obj[seen.svc].stamp} :
           Ask(r, "route_replace", by, over,
               [Idle EXCEPT !.to = from, !.seen = seen, !.role = stamp, !.name = service,
                            !.new.name = n, !.new.hosts = hosts])
    BY <1>0, <1>1
  <1>2. [[Idle EXCEPT !.to = from, !.seen = seen, !.role = stamp, !.name = service, !.new.name = n,
            !.new.hosts = hosts] EXCEPT !.kind = "route_replace", !.by = by, !.over = over]
          = Asks("route_replace", by, over, from, stamp, service, n, 0, hosts, seen)
    <2>1. PICK f : f = [[Idle EXCEPT !.to = from, !.seen = seen, !.role = stamp, !.name = service,
              !.new.name = n, !.new.hosts = hosts] EXCEPT !.kind = "route_replace", !.by = by, !.over = over]
      OBVIOUS
    <2>2. PICK none : none = Nothing
      OBVIOUS
    <2>3. PICK new : new = [[none EXCEPT !.name = n] EXCEPT !.hosts = hosts]
      OBVIOUS
    <2>4. new = [kind |-> "none", ws |-> "none", name |-> n, stamp |-> 0, val |-> 0, svc |-> 0,
                 hosts |-> hosts, on |-> 0, owner |-> 0, groups |-> {}]
      BY <2>2, <2>3 DEF Nothing
    <2>5. f = [path |-> <<>>, kind |-> "route_replace", by |-> by, over |-> over, to |-> from, role |-> stamp,
               name |-> service, new |-> new, seen |-> seen, row |-> 0, n |-> 0, tried |-> 1, counted |-> 0]
      BY <2>1, <2>2, <2>3 DEF Idle
    <2> QED BY <2>1, <2>2, <2>4, <2>5 DEF Asks
  <1>3. Arrive(r, Asks("route_replace", by, over, from, stamp, service, n, 0, hosts, seen))
    BY <1>a, <1>2 DEF Ask
  <1>4. Names \subseteq RowNames /\ Visible(seen)
    BY <1>1, SeenVisible DEF RowNames, SavedTables
  <1>5. stamp \in Nat /\ service \in RowNames
    <2>1. PICK i \in Objects : obj[i].kind = "route" /\ seen = obj[i]
      BY <1>0, <1>1, SeenVisible DEF SavedTables
    <2>2. obj \in [Objects -> ObjectRow] /\ Attached(obj)
      BY DEF ConfigInv, TablesTyped, RowsFit
    <2>3. seen.svc \in Objects
      BY <2>1, <2>2 DEF Attached, ObjectRow
    <2> QED BY <1>1, <2>2, <2>3 DEF ObjectRow
  <1> QED BY <1>3, <1>4, <1>5, LoadFits, AskStep, OneWorkspace DEF AllKinds, SuperKinds, RightsKinds,
            RoomKinds, CreateKinds, RowKinds, PolicyKinds, PlaneKinds, WorkspaceKinds, GrantKinds

LEMMA DeleteAsked ==
    ASSUME ConfigInv, NEW r \in Reqs, NEW kind \in DeleteKinds, NEW prefixes \in SUBSET Nat, DeleteNamed(r,
              kind, prefixes)
    PROVE  ConfigInv'
  <1>1. PICK by \in load.callers, over \in One, n \in Names, prefix \in prefixes :
           Arrive(r, [[Idle EXCEPT !.to = n, !.role = prefix] EXCEPT !.kind = kind, !.by = by, !.over = over])
    BY DEF DeleteNamed, Ask
  <1>2. [[Idle EXCEPT !.to = n, !.role = prefix] EXCEPT !.kind = kind, !.by = by, !.over = over]
          = Asks(kind, by, over, n, prefix, "none", "none", 0, {}, Nothing)
    <2>1. PICK f : f = [[Idle EXCEPT !.to = n, !.role = prefix] EXCEPT !.kind = kind, !.by = by, !.over = over]
      OBVIOUS
    <2>2. PICK none : none = Nothing
      OBVIOUS
    <2>5. f = [path |-> <<>>, kind |-> kind, by |-> by, over |-> over, to |-> n, role |-> prefix,
               name |-> "none", new |-> none, seen |-> none, row |-> 0, n |-> 0, tried |-> 1, counted |-> 0]
      BY <2>1, <2>2 DEF Idle
    <2> QED BY <2>1, <2>2, <2>5 DEF Asks, Nothing
  <1>3. Arrive(r, Asks(kind, by, over, n, prefix, "none", "none", 0, {}, Nothing))
    BY <1>1, <1>2
  <1>4. "none" \in RowNames /\ Names \subseteq RowNames /\ Visible(Nothing)
    BY DEF RowNames, Visible
  <1> QED BY <1>3, <1>4, LoadFits, AskStep, OneWorkspace DEF AllKinds, SuperKinds, RightsKinds, RoomKinds,
            CreateKinds, RowKinds, PolicyKinds, PlaneKinds, WorkspaceKinds, GrantKinds, DeleteKinds

LEMMA PlaneAsked ==
    ASSUME ConfigInv, NEW r \in Reqs, NEW kind \in PlaneKinds, NEW prefixes \in SUBSET Nat, NEW val \in Nat,
           AskPlane(r, kind, prefixes, val)
    PROVE  ConfigInv'
  <1>1. PICK by \in load.callers, prefix \in prefixes :
           Arrive(r, [Idle EXCEPT !.kind = kind, !.by = by, !.to = "p", !.role = prefix, !.new.name = "p",
                     !.name = "p", !.new.val = val])
    BY DEF AskPlane
  <1>2. [Idle EXCEPT !.kind = kind, !.by = by, !.to = "p", !.role = prefix, !.new.name = "p", !.name = "p",
            !.new.val = val]
          = Asks(kind, by, {}, "p", prefix, "p", "p", val, {}, Nothing)
    <2>1. PICK f : f = [Idle EXCEPT !.kind = kind, !.by = by, !.to = "p", !.role = prefix, !.new.name = "p",
              !.name = "p", !.new.val = val]
      OBVIOUS
    <2>2. PICK none : none = Nothing
      OBVIOUS
    <2>3. PICK new : new = [[none EXCEPT !.name = "p"] EXCEPT !.val = val]
      OBVIOUS
    <2>4. new = [kind |-> "none", ws |-> "none", name |-> "p", stamp |-> 0, val |-> val, svc |-> 0,
                 hosts |-> {}, on |-> 0, owner |-> 0, groups |-> {}]
      BY <2>2, <2>3 DEF Nothing
    <2>5. f = [path |-> <<>>, kind |-> kind, by |-> by, over |-> {}, to |-> "p", role |-> prefix,
               name |-> "p", new |-> new, seen |-> none, row |-> 0, n |-> 0, tried |-> 1, counted |-> 0]
      BY <2>1, <2>2, <2>3 DEF Idle
    <2> QED BY <2>1, <2>2, <2>4, <2>5 DEF Asks
  <1>3. Arrive(r, Asks(kind, by, {}, "p", prefix, "p", "p", val, {}, Nothing))
    BY <1>1, <1>2
  <1>4. "p" \in RowNames /\ Visible(Nothing)
    BY DEF RowNames, Visible
  <1> QED BY <1>3, <1>4, LoadFits, AskStep DEF AllKinds, SuperKinds, RightsKinds, RoomKinds, CreateKinds,
            RowKinds, PolicyKinds, PlaneKinds, WorkspaceKinds, GrantKinds

LEMMA PolicyAsked ==
    ASSUME ConfigInv, NEW r \in Reqs, NEW kind \in PolicyKinds, NEW which \in PolicyNames,
           NEW owners \in SUBSET (Names \cup {"none"}), NEW vals \in SUBSET Nat, AskPolicy(r, kind, which,
                     owners, vals)
    PROVE  ConfigInv'
  <1>a. PICK by \in load.callers, over \in One, to \in Names \cup {"none"}, owner \in owners, val \in vals :
           Ask(r, kind, by, over,
               [Idle EXCEPT !.to = to, !.name = owner, !.new.name = which, !.new.val = val,
                            !.seen = IF PolicyIn(over, which, to, IF which = "other" THEN "none" ELSE owner) = {}
                                     THEN Nothing
                                     ELSE obj[Only(PolicyIn(over, which, to,
                                                            IF which = "other" THEN "none" ELSE owner))]])
    BY DEF AskPolicy
  <1>e. PICK own : own = IF which = "other" THEN "none" ELSE owner
    OBVIOUS
  <1>c. PICK on : on = Only({i \in Objects : obj[i].kind \in {"service", "route"} /\ obj[i].ws \in over /\ obj[i].name = to})
    OBVIOUS
  <1>d. PICK whose : whose = Only({i \in Objects : obj[i].kind = "consumer" /\ obj[i].ws \in over /\ obj[i].name = own})
    OBVIOUS
  <1>b. PolicyIn(over, which, to, own) =
           {i \in Objects : /\ obj[i].kind = "plugin" /\ obj[i].ws \in over
                            /\ obj[i].name = which /\ obj[i].on = on /\ obj[i].owner = whose}
    BY <1>c, <1>d DEF PolicyIn
  <1>0. PICK shown \in SUBSET Objects : /\ shown = PolicyIn(over, which, to, own)
                                        /\ \A i \in shown : obj[i].kind = "plugin"
    <2>1. PolicyIn(over, which, to, own) \in SUBSET Objects
      BY <1>b
    <2>2. \A i \in PolicyIn(over, which, to, own) : obj[i].kind = "plugin"
      BY <1>b
    <2> QED BY <2>1, <2>2
  <1>1. PICK seen : seen = IF shown = {} THEN Nothing ELSE obj[Only(shown)]
    OBVIOUS
  <1>2. [[Idle EXCEPT !.to = to, !.name = owner, !.new.name = which, !.new.val = val,
            !.seen = seen] EXCEPT !.kind = kind, !.by = by, !.over = over]
          = Asks(kind, by, over, to, 0, owner, which, val, {}, seen)
    <2>1. PICK f : f = [[Idle EXCEPT !.to = to, !.name = owner, !.new.name = which, !.new.val = val,
              !.seen = seen] EXCEPT !.kind = kind, !.by = by, !.over = over]
      OBVIOUS
    <2>2. PICK none : none = Nothing
      OBVIOUS
    <2>3. PICK new : new = [[none EXCEPT !.name = which] EXCEPT !.val = val]
      OBVIOUS
    <2>4. new = [kind |-> "none", ws |-> "none", name |-> which, stamp |-> 0, val |-> val, svc |-> 0,
                 hosts |-> {}, on |-> 0, owner |-> 0, groups |-> {}]
      BY <2>2, <2>3 DEF Nothing
    <2>5. f = [path |-> <<>>, kind |-> kind, by |-> by, over |-> over, to |-> to, role |-> 0,
               name |-> owner, new |-> new, seen |-> seen, row |-> 0, n |-> 0, tried |-> 1, counted |-> 0]
      BY <2>1, <2>2, <2>3 DEF Idle
    <2> QED BY <2>1, <2>2, <2>4, <2>5 DEF Asks
  <1>3. Arrive(r, Asks(kind, by, over, to, 0, owner, which, val, {}, seen))
    BY <1>a, <1>e, <1>0, <1>1, <1>2 DEF Ask
  <1>4. "none" \in RowNames /\ Names \subseteq RowNames /\ PolicyNames \subseteq RowNames
    BY DEF RowNames
  <1>5. Visible(seen)
    BY <1>0, <1>1, OnlyOne DEF Visible, SavedTables
  <1> QED BY <1>3, <1>4, <1>5, LoadFits, AskStep, OneWorkspace DEF AllKinds, SuperKinds, RightsKinds,
            RoomKinds, CreateKinds, RowKinds, PolicyKinds, PlaneKinds, WorkspaceKinds, GrantKinds

LEMMA HandleStep == ASSUME ConfigInv, NEW r \in Reqs, Handle(r) PROVE ConfigInv'
  <1>1. CASE HandleGrants(r)
    BY <1>1, SetRoles, PutMapping, CreateWorkspace, RenameWorkspace, DeleteWorkspace DEF HandleGrants
  <1>2. CASE HandleObjects(r)
    <2>1. ops + 1 \in Nat /\ 0..load.ops \in SUBSET Nat /\ {0} \in SUBSET Nat
      BY LoadFits
    <2>2. CASE create_service(r) \/ replace_service(r) \/ create_route(r) \/ replace_route(r) \/ create_consumer(r)
               \/ set_group(r) \/ issue_key(r)
      BY <2>2, CreateService, ReplaceService, CreateRoute, ReplaceRouteAsked, CreateConsumer, SetGroup, IssueKey
    <2>3. CASE delete_service(r) \/ delete_route(r) \/ delete_consumer(r) \/ revoke_key(r)
      BY <2>1, <2>3, DeleteAsked DEF delete_service, delete_route, delete_consumer, revoke_key, DeleteKinds
    <2>4. CASE register_data_plane(r) \/ delete_data_plane(r) \/ issue_data_plane_token(r) \/ revoke_data_plane_token(r)
      BY <2>1, <2>4, PlaneAsked
      DEF register_data_plane, delete_data_plane, issue_data_plane_token, revoke_data_plane_token, PlaneKinds
    <2> QED BY <1>2, <2>2, <2>3, <2>4 DEF HandleObjects
  <1>3. CASE HandlePolicies(r)
    <2>1. /\ {"none"} \in SUBSET (Names \cup {"none"}) /\ Names \cup {"none"} \in SUBSET (Names \cup {"none"})
          /\ {1, 2} \in SUBSET Nat /\ {1} \in SUBSET Nat
      OBVIOUS
    <2>2. CASE put_key_auth(r) \/ put_jwt(r) \/ put_rate_limit(r) \/ put_policy(r)
      BY <2>1, <2>2, PolicyAsked DEF put_key_auth, put_jwt, put_rate_limit, put_policy, PolicyKinds, PolicyNames
    <2>3. CASE delete_key_auth(r) \/ delete_jwt(r) \/ delete_rate_limit(r) \/ delete_policy(r)
      BY <2>1, <2>3, PolicyAsked DEF delete_key_auth, delete_jwt, delete_rate_limit, delete_policy,
                PolicyKinds, PolicyNames
    <2> QED BY <1>3, <2>2, <2>3 DEF HandlePolicies
  <1> QED BY <1>1, <1>2, <1>3 DEF Handle

LEMMA LocksStep == ASSUME ConfigInv, NEW r \in Reqs, Locks(r) PROVE ConfigInv'
  BY CallerStep, ScopeStep, BindingsStep, TargetStep, HeldStep, HeldMappingStep, AdminsStep, DeletesStep,
     WorkspaceStep, RowStep, MayRouteStep, ServiceStep, ObjectStep, OwnerStep, PolicyStep
  DEF Locks

-----------------------------------------------------------------------------
(* Commits *)

LEMMA EndStep ==
    ASSUME ConfigInv, NEW r \in Reqs, Active(req[r]), Answer(r), TablesTyped', RowsFit',
           \A s \in Reqs \ {r} :
              /\ SparesRights(s, locks, acct, name, binding, mapping, acct', name', binding', mapping')
              /\ SparesRows(s, locks, obj, obj')
              /\ KnowsAdmins(req[s], acct', binding', mapping', hands'),
           Stamped(req', obj', ops', load'.ops), Shown(req', obj', ops', load'.ops), RightsHeld', NoLostUpdate'
    PROVE  ConfigInv'
  <1>1. /\ DOMAIN req = Reqs /\ DOMAIN req' = Reqs /\ req'[r] = Idle /\ \A s \in Reqs \ {r} : req'[s] = req[s]
        /\ locks' = Released(r)
    BY DEF ConfigInv, Answer
  <1>2. Exclusive' /\ (\A s \in Reqs \ {r} : Keeps(s, locks, locks'))
    BY <1>1 DEF ConfigInv, Exclusive, Released, Keeps, Lock
  <1>3. ASSUME NEW s \in Reqs
        PROVE  /\ Sound(req'[s]) /\ Entitled(s, req'[s], locks', acct', name', binding', mapping')
               /\ Informed(s, req'[s], locks', obj')
               /\ KnowsAdmins(req'[s], acct', binding', mapping', hands')
    <2>1. CASE s = r
      <3>1. hands' \in Nat
        BY DEF TablesTyped
      <3> QED BY <1>1, <2>1, <3>1, IdleKnows
    <2>2. CASE s # r
      <3>1. /\ Sound(req[s]) /\ Entitled(s, req[s], locks, acct, name, binding, mapping)
            /\ Informed(s, req[s], locks, obj) /\ req'[s] = req[s] /\ Keeps(s, locks, locks')
            /\ acct \in [Users -> AccountRow]
            /\ SparesRights(s, locks, acct, name, binding, mapping, acct', name', binding', mapping')
            /\ SparesRows(s, locks, obj, obj')
            /\ KnowsAdmins(req[s], acct', binding', mapping', hands')
        BY <1>1, <1>2, <2>2 DEF ConfigInv, TablesTyped
      <3>4. Entitled(s, req[s], locks', acct', name', binding', mapping')
        BY <3>1, RightsSpared
      <3>5. Informed(s, req[s], locks', obj')
        BY <3>1, RowsSpared
      <3> QED BY <3>1, <3>4, <3>5
    <2> QED BY <2>1, <2>2
  <1> QED BY <1>1, <1>2, <1>3 DEF ConfigInv

\* The right a write rested on when it was checked is still there when it is committed.
LEMMA AuditStep ==
    ASSUME ConfigInv, NEW r \in Reqs, At(r, "commit"), NEW before, Audited(r, before),
           req[r].kind \in SavedOver => before = req[r].seen
    PROVE  /\ RightsHeld' /\ NoLostUpdate' /\ hands \in Nat /\ hands' \in {hands, hands + 1}
           /\ (acct[req[r].by].super => hands' = hands + 1) /\ (req[r].kind \in SuperKinds => hands' = hands + 1)
  <1>1. PICK q : q = req[r]
    OBVIOUS
  <1>2. /\ Sound(q) /\ Active(q) /\ q.kind \in AllKinds /\ q.by \in Users /\ Past(q,
            {"caller"}) /\ q \in Request
        /\ Past(q, {"caller", "scope", "bindings"}) /\ Entitled(r, q, locks, acct, name, binding, mapping)
    BY <1>1 DEF ConfigInv, At, Active, Sound, Proper, Past
  <1>3. /\ hands \in Nat /\ acct[q.by].super \in BOOLEAN /\ TablesTyped
    BY <1>2 DEF ConfigInv, TablesTyped, AccountRow
  <1>4. q.kind \in SuperKinds => may_write(q.by)
    BY <1>2 DEF Entitled, KnowsCaller, may_write
  <1>5. ASSUME q.kind \notin SuperKinds, NEW w \in q.over PROVE effective(q.by, w) >= needs(q.kind)
    <2>1. q.kind \in RightsKinds /\ w \in WorkspaceIds
      BY <1>2, <1>5 DEF AllKinds, Request
    <2>2. Backed(r, q, locks, acct, binding, mapping, w)
      BY <1>2, <2>1 DEF Entitled, KnowsRight
    <2>3. PICK n : n = needs(q.kind) /\ n \in {2, 3}
      BY NeedsRole
    <2>4. /\ ~acct[q.by].disabled
          /\ acct[q.by].super \/ binding[<<q.by, w>>] >= n \/ \E g \in acct[q.by].groups : mapping[<<g, w>>] >= n
      BY <2>2, <2>3 DEF Backed
    <2> QED BY <1>2, <1>3, <2>1, <2>3, <2>4, EffectiveRole
  <1>6. RightsHeld'
    BY <1>1, <1>4, <1>5 DEF RightsHeld, Audited, SuperKinds
  <1>7. NoLostUpdate'
    BY <1>1 DEF NoLostUpdate, Audited
  <1>8. hands' = IF acct[q.by].super THEN hands + 1 ELSE hands
    BY <1>1 DEF Audited
  <1> QED BY <1>1, <1>3, <1>4, <1>6, <1>7, <1>8 DEF may_write

\* Steps that write no row of the configuration.
LEMMA RowsUntouched ==
    ASSUME ConfigInv, NEW r \in Reqs, Active(req[r]), Answer(r), UNCHANGED <<obj, load, ops>>
    PROVE  /\ Stamped(req', obj', ops', load'.ops) /\ Shown(req', obj', ops', load'.ops)
           /\ \A s : SparesRows(s, locks, obj, obj')
  <1>1. Stamped(req', obj, ops, load.ops) /\ Shown(req', obj, ops, load.ops)
    BY SameStamps, IdleRests DEF ConfigInv, Answer
  <1>2. \A s : SparesRows(s, locks, obj, obj')
    BY DEF SparesRows
  <1> QED BY <1>1, <1>2

\* Only the roles of the grant change.
LEMMA GrantOnly ==
    ASSUME TablesTyped, NEW r, NEW w \in WorkspaceIds
    PROVE  /\ \A u \in Users : NewBinding(r)[<<u, w>>] # binding[<<u, w>>] =>
                 req[r].kind = "roles" /\ u = req[r].to /\ w \in req[r].over
           /\ \A g \in Groups : NewMapping(r)[<<g, w>>] # mapping[<<g, w>>] =>
                 req[r].kind = "mapping" /\ g = req[r].to /\ w \in req[r].over
  BY GrantAfter DEF After

LEMMA GrantTyped ==
    ASSUME ConfigInv, NEW r \in Reqs, Active(req[r])
    PROVE  /\ NewBinding(r) \in [Users \X WorkspaceIds -> 0..3] /\ NewMapping(r) \in [Groups \X WorkspaceIds -> 0..3]
  <1>1. /\ req[r].kind = "roles" => req[r].role \in 0..3
        /\ req[r].kind = "mapping" => req[r].role \in 0..3
        /\ binding \in [Users \X WorkspaceIds -> 0..3] /\ mapping \in [Groups \X WorkspaceIds -> 0..3]
    BY DEF ConfigInv, Sound, Proper, TablesTyped
  <1>2. NewBinding(r) \in [Users \X WorkspaceIds -> 0..3]
    BY <1>1 DEF NewBinding
  <1>3. NewMapping(r) \in [Groups \X WorkspaceIds -> 0..3]
    BY <1>1 DEF NewMapping
  <1> QED BY <1>2, <1>3

LEMMA GrantStep == ASSUME ConfigInv, NEW r \in Reqs, CommitGrant(r) PROVE ConfigInv'
  <1>1. /\ At(r, "commit") /\ req[r].kind \in GrantKinds /\ binding' = NewBinding(r) /\ mapping' = NewMapping(r)
        /\ Audited(r, Nothing) /\ Answer(r) /\ UNCHANGED <<acct, name, obj, version, load, ops>> /\ TablesTyped
    BY DEF CommitGrant, ConfigInv
  <1>2. /\ RightsHeld' /\ NoLostUpdate' /\ hands \in Nat /\ hands' \in {hands, hands + 1}
        /\ (acct[req[r].by].super => hands' = hands + 1)
    BY <1>1, AuditStep DEF GrantKinds, SavedOver
  <1>3. PICK q : q = req[r]
    OBVIOUS
  <1>4. /\ Active(q) /\ Sound(q) /\ q.over \subseteq WorkspaceIds /\ q.by \in Users
        /\ q.kind \in RightsKinds /\ Past(q, {"caller", "scope"}) /\ Reached(q, {"admins", "commit"})
        /\ Reached(q, {"commit"}) /\ Entitled(r, q, locks, acct, name, binding, mapping)
        /\ KnowsAdmins(q, acct, binding, mapping, hands)
    BY <1>1, <1>3 DEF ConfigInv, At, Active, Sound, Proper, Past, Reached, Request, RightsKinds
  <1>5. TablesTyped'
    BY <1>1, <1>2, <1>3, <1>4, GrantTyped DEF TablesTyped
  <1>6. RowsFit'
    <2>1. \A w \in q.over : name[w] # "none"
      BY <1>4 DEF Entitled, KnowsScope
    <2>2. Housed(obj, name, binding, mapping) /\ Attached(obj) /\ Apart(obj)
      BY DEF ConfigInv, RowsFit
    <2>3. Housed(obj, name, binding', mapping')
      BY <1>1, <1>3, <2>1, <2>2, GrantOnly DEF Housed
    <2> QED BY <1>1, <2>2, <2>3 DEF RowsFit
  <1>7. ASSUME NEW s \in Reqs \ {r}
        PROVE  SparesRights(s, locks, acct, name, binding, mapping, acct', name', binding', mapping')
    <2>1. ASSUME NEW w \in WorkspaceIds, NEW u \in Users, Lock(s, <<"bind", u, w>>, "share") \in locks
          PROVE  binding'[<<u, w>>] = binding[<<u, w>>]
      <3> SUFFICES ASSUME q.kind = "roles", u = q.to, w \in q.over PROVE FALSE
        BY <1>1, <1>3, GrantOnly
      <3>1. Lock(r, <<"bind", u, w>>, "update") \in locks
        BY <1>4 DEF Entitled, KnowsGrant
      <3> QED BY <1>7, <2>1, <3>1, Alone DEF ConfigInv, Modes
    <2>2. ASSUME NEW w \in WorkspaceIds, NEW g \in Groups, Lock(s, <<"map", g, w>>, "share") \in locks
          PROVE  mapping'[<<g, w>>] = mapping[<<g, w>>]
      <3> SUFFICES ASSUME q.kind = "mapping", g = q.to, w \in q.over PROVE FALSE
        BY <1>1, <1>3, GrantOnly
      <3>1. Lock(r, <<"map", g, w>>, "update") \in locks
        BY <1>4 DEF Entitled, KnowsGrant
      <3> QED BY <1>7, <2>2, <3>1, Alone DEF ConfigInv, Modes
    <2> QED BY <1>1, <2>1, <2>2 DEF SparesRights
  <1>8. ASSUME NEW s \in Reqs \ {r}
        PROVE  KnowsAdmins(req[s], acct', binding', mapping', hands')
    <2>1. CASE hands' = hands + 1
      <3>1. KnowsAdmins(req[s], acct, binding, mapping, hands)
        BY DEF ConfigInv
      <3> QED BY <1>2, <2>1, <3>1, OvertakenKnows
    <2>2. CASE hands' = hands
      <3>0. hands + 1 # hands /\ req[s].counted \in 0..hands'
        BY <1>2, <2>2 DEF ConfigInv, KnowsAdmins
      <3> SUFFICES ASSUME Reached(req[s], {"commit"}), req[s].kind \in GrantKinds, req[s].counted = hands,
                          ~acct[req[s].by].super, NEW w \in req[s].over
                   PROVE  LeavesAdmin(req[s], acct, binding', mapping', w)
        BY <1>1, <2>2, <3>0 DEF KnowsAdmins
      <3>1. w \in WorkspaceIds
        BY DEF ConfigInv, Sound, Request
      <3>2. Lock(s, <<"admins", w>>, "update") \in locks /\ LeavesAdmin(req[s], acct, binding, mapping, w)
        BY DEF ConfigInv, KnowsAdmins, Entitled, KnowsCount
      <3>3. ~acct[q.by].super
        BY <1>2, <1>3, <2>2, <3>0
      <3>5. CASE w \in q.over
        <4>1. Lock(r, <<"admins", w>>, "update") \in locks
          BY <1>1, <1>3, <1>4, <3>3, <3>5 DEF Entitled, KnowsCount
        <4> QED BY <1>8, <3>2, <4>1, Alone DEF ConfigInv, Modes
      <3>6. CASE w \notin q.over
        <4>1. /\ \A u \in Users : binding'[<<u, w>>] = binding[<<u, w>>]
              /\ \A g \in Groups : mapping'[<<g, w>>] = mapping[<<g, w>>]
          BY <1>1, <1>3, <3>1, <3>6, GrantOnly
        <4>2. \A u \in Users : acct[u].groups \subseteq Groups
          BY <1>1, GroupsTyped
        <4> QED BY <3>2, <4>1, <4>2 DEF LeavesAdmin, After
      <3> QED BY <3>5, <3>6
    <2> QED BY <1>2, <2>1, <2>2
  <1> QED BY <1>1, <1>2, <1>3, <1>4, <1>5, <1>6, <1>7, <1>8, RowsUntouched, EndStep

\* A workspace's name, with what it is about.
LEMMA NameStep ==
    ASSUME ConfigInv, NEW r \in Reqs, At(r, "commit"), req[r].kind \in WorkspaceKinds, Audited(r, Nothing),
              Answer(r),
           UNCHANGED <<acct, obj, load, ops>>, name' \in [WorkspaceIds -> Names \cup {"none"}],
           binding' \in [Users \X WorkspaceIds -> 0..3], mapping' \in [Groups \X WorkspaceIds -> 0..3],
           Housed(obj, name', binding', mapping'),
           \A s \in Reqs \ {r}, w \in WorkspaceIds : Lock(s, <<"ws", w>>, "share") \in locks =>
              /\ name[w] # "none" => name'[w] # "none"
              /\ \A u \in Users : binding'[<<u, w>>] = binding[<<u, w>>]
              /\ \A g \in Groups : mapping'[<<g, w>>] = mapping[<<g, w>>]
    PROVE  ConfigInv'
  <1>1. RightsHeld' /\ NoLostUpdate' /\ hands \in Nat /\ hands' = hands + 1
    BY AuditStep DEF SuperKinds, SavedOver, WorkspaceKinds
  <1>2. Active(req[r]) /\ hands' \in Nat
    BY <1>1 DEF At, Active
  <1>3. TablesTyped'
    BY <1>2 DEF ConfigInv, TablesTyped
  <1>4. RowsFit'
    BY DEF ConfigInv, RowsFit
  <1>5. \A s \in Reqs \ {r} : SparesRights(s, locks, acct, name, binding, mapping, acct', name', binding',
            mapping')
    BY DEF SparesRights
  <1>6. \A s \in Reqs \ {r} : KnowsAdmins(req[s], acct', binding', mapping', hands')
    BY <1>1, OvertakenKnows DEF ConfigInv
  <1> QED BY <1>1, <1>2, <1>3, <1>4, <1>5, <1>6, RowsUntouched, EndStep

LEMMA CreateWorkspaceStep == ASSUME ConfigInv, NEW r \in Reqs, try_create_workspace(r) PROVE ConfigInv'
  <1>1. At(r, "commit") /\ req[r].kind = "ws_create" /\ Active(req[r])
    BY DEF try_create_workspace, At, Active
  <1>2. CASE Refuse(r)
    BY <1>1, <1>2, RefuseStep
  <1>3. CASE ~Refuse(r)
    <2>1. /\ Audited(r, Nothing) /\ Answer(r) /\ UNCHANGED <<acct, binding, mapping, obj, version, load, ops>>
          /\ \E w \in WorkspaceIds : ~Exists(w) /\ name' = [name EXCEPT ![w] = req[r].name]
      BY <1>3 DEF try_create_workspace
    <2>2. PICK w \in WorkspaceIds : ~Exists(w) /\ name' = [name EXCEPT ![w] = req[r].name]
      BY <2>1
    <2>3. /\ TablesTyped /\ req[r].name \in Names /\ req[r].name # "none" /\ Housed(obj, name, binding, mapping)
      BY <1>1, ConfigurationAssumption DEF ConfigInv, Sound, Proper, RowsFit
    <2>4. /\ name' \in [WorkspaceIds -> Names \cup {"none"}]
          /\ \A v \in WorkspaceIds : name[v] # "none" => name'[v] # "none"
          /\ \A v \in WorkspaceIds : name'[v] = "none" => name[v] = "none"
      BY <2>2, <2>3 DEF TablesTyped
    <2>5. Housed(obj, name', binding', mapping')
      <3>1. \A i \in Objects : obj[i].ws \in WorkspaceIds \cup {"none"}
        BY <2>3 DEF TablesTyped, ObjectRow
      <3> QED BY <2>1, <2>3, <2>4, <3>1 DEF Housed
    <2> QED BY <1>1, <2>1, <2>3, <2>4, <2>5, NameStep DEF WorkspaceKinds, TablesTyped
  <1> QED BY <1>2, <1>3

LEMMA RenameWorkspaceStep == ASSUME ConfigInv, NEW r \in Reqs, try_rename_workspace(r) PROVE ConfigInv'
  <1>1. /\ At(r, "commit") /\ req[r].kind = "ws_rename" /\ Active(req[r])
        /\ Audited(r, Nothing) /\ Answer(r) /\ UNCHANGED <<acct, binding, mapping, obj, load, ops>>
        /\ name' = [w \in WorkspaceIds |-> IF w \in req[r].over THEN req[r].name ELSE name[w]]
    BY DEF try_rename_workspace, At, Active
  <1>2. /\ TablesTyped /\ req[r].name \in Names /\ req[r].name # "none" /\ Housed(obj, name, binding, mapping)
        /\ \A w \in req[r].over : Lock(r, <<"ws", w>>, "update") \in locks
    BY <1>1, ConfigurationAssumption DEF ConfigInv, Sound, Proper, RowsFit, Informed, KnowsWorkspace, Reached,
              At
  <1>3. /\ name' \in [WorkspaceIds -> Names \cup {"none"}]
        /\ \A v \in WorkspaceIds : name[v] # "none" => name'[v] # "none"
    BY <1>1, <1>2 DEF TablesTyped
  <1>4. \A v \in WorkspaceIds : name'[v] = "none" => name[v] = "none"
    BY <1>1, <1>2
  <1>5. Housed(obj, name', binding', mapping')
    <2>1. \A i \in Objects : obj[i].ws \in WorkspaceIds \cup {"none"}
      BY <1>2 DEF TablesTyped, ObjectRow
    <2> QED BY <1>1, <1>2, <1>3, <1>4, <2>1 DEF Housed
  <1> QED BY <1>1, <1>2, <1>3, <1>5, NameStep DEF WorkspaceKinds, TablesTyped

\* The workspace was found empty, and no one has written into it since.
LEMMA EmptyDeleted == ASSUME ConfigInv, NEW r \in Reqs, try_delete_workspace(r) PROVE obj' = obj
  <1>1. At(r, "commit") /\ req[r].kind = "ws_delete" /\ obj \in [Objects -> ObjectRow]
    BY DEF try_delete_workspace, ConfigInv, TablesTyped
  <1>2. \A w \in req[r].over : Vacant(obj, w)
    BY <1>1 DEF ConfigInv, Informed, KnowsWorkspace, Reached, At, Active
  <1>3. {i \in Objects : Live(i) /\ obj[i].ws \in req[r].over} = {}
    BY <1>2 DEF Vacant, Live
  <1>4. obj' = [i \in Objects |-> IF i \in {} THEN Deleted ELSE obj[i]]
    BY <1>3 DEF try_delete_workspace
  <1> QED BY <1>1, <1>4

LEMMA DeleteWorkspaceStep == ASSUME ConfigInv, NEW r \in Reqs, try_delete_workspace(r) PROVE ConfigInv'
  <1>1. /\ At(r, "commit") /\ req[r].kind = "ws_delete" /\ Active(req[r])
        /\ Audited(r, Nothing) /\ Answer(r) /\ UNCHANGED <<acct, load, ops>>
        /\ name' = [w \in WorkspaceIds |-> IF w \in req[r].over THEN "none" ELSE name[w]]
        /\ binding' = [p \in DOMAIN binding |-> IF p[2] \in req[r].over THEN 0 ELSE binding[p]]
        /\ mapping' = [p \in DOMAIN mapping |-> IF p[2] \in req[r].over THEN 0 ELSE mapping[p]]
    BY DEF try_delete_workspace, At, Active
  <1>2. /\ TablesTyped /\ Housed(obj, name, binding, mapping) /\ Attached(obj)
        /\ \A w \in req[r].over : Lock(r, <<"ws", w>>, "update") \in locks /\ Vacant(obj, w)
    BY <1>1 DEF ConfigInv, RowsFit, Informed, KnowsWorkspace, Reached, At
  <1>3. /\ binding \in [Users \X WorkspaceIds -> 0..3] /\ mapping \in [Groups \X WorkspaceIds -> 0..3]
        /\ name \in [WorkspaceIds -> Names \cup {"none"}] /\ obj \in [Objects -> ObjectRow]
    BY <1>2 DEF TablesTyped
  <1>9. obj' = obj
    BY EmptyDeleted
  <1>4. /\ name' \in [WorkspaceIds -> Names \cup {"none"}]
        /\ binding' \in [Users \X WorkspaceIds -> 0..3] /\ mapping' \in [Groups \X WorkspaceIds -> 0..3]
    BY <1>1, <1>3
  <1>5. ASSUME NEW u \in Users, NEW w \in WorkspaceIds
        PROVE  binding'[<<u, w>>] = IF w \in req[r].over THEN 0 ELSE binding[<<u, w>>]
    <2>0. <<u, w>> \in DOMAIN binding /\ <<u, w>>[2] = w
      BY <1>3
    <2>1. PICK p : p = <<u, w>> /\ p \in DOMAIN binding /\ p[2] = w
      BY <2>0
    <2> QED BY <1>1, <2>1
  <1>6. ASSUME NEW g \in Groups, NEW w \in WorkspaceIds
        PROVE  mapping'[<<g, w>>] = IF w \in req[r].over THEN 0 ELSE mapping[<<g, w>>]
    <2>0. <<g, w>> \in DOMAIN mapping /\ <<g, w>>[2] = w
      BY <1>3
    <2>1. PICK p : p = <<g, w>> /\ p \in DOMAIN mapping /\ p[2] = w
      BY <2>0
    <2> QED BY <1>1, <2>1
  <1>7. Housed(obj, name', binding', mapping')
    <2>1. ASSUME NEW i \in Objects, obj[i].ws # "none" PROVE name'[obj[i].ws] # "none"
      <3>1. obj[i].ws \in WorkspaceIds /\ obj[i].kind # "none" /\ name[obj[i].ws] # "none"
        BY <1>2, <1>3, <2>1 DEF ObjectRow, Attached, Housed
      <3>2. obj[i].ws \notin req[r].over
        BY <1>2, <3>1 DEF Vacant
      <3> QED BY <1>1, <3>1, <3>2
    <2>2. ASSUME NEW w \in WorkspaceIds, name'[w] = "none"
          PROVE  (\A u \in Users : binding'[<<u, w>>] = 0) /\ (\A g \in Groups : mapping'[<<g, w>>] = 0)
      BY <1>1, <1>2, <1>5, <1>6, <2>2 DEF Housed
    <2> QED BY <2>1, <2>2 DEF Housed
  <1>8. ASSUME NEW s \in Reqs \ {r}, NEW w \in WorkspaceIds, Lock(s, <<"ws", w>>, "share") \in locks
        PROVE  /\ name[w] # "none" => name'[w] # "none"
               /\ \A u \in Users : binding'[<<u, w>>] = binding[<<u, w>>]
               /\ \A g \in Groups : mapping'[<<g, w>>] = mapping[<<g, w>>]
    <2>1. w \notin req[r].over
      BY <1>2, <1>8, Alone DEF ConfigInv, Modes
    <2> QED BY <1>1, <1>5, <1>6, <2>1
  <1> QED BY <1>1, <1>4, <1>7, <1>8, <1>9, NameStep DEF WorkspaceKinds

\* An account's row is written when no request rests on it, nor on the roles that go with it.
LEMMA PersonStep ==
    ASSUME ConfigInv, NEW u \in Users, NEW a \in AccountRow, ops < load.ops,
           acct' = [acct EXCEPT ![u] = a], ops' = ops + 1, hands' = hands + 1,
           UNCHANGED <<locks, name, mapping, obj, version, req, load, audit>>,
           \A s \in Reqs : Lock(s, <<"user", u>>, "share") \notin locks,
           binding' \in [Users \X WorkspaceIds -> 0..3],
           \A v \in Users, w \in WorkspaceIds : binding'[<<v, w>>] # binding[<<v, w>>] =>
              /\ binding'[<<v, w>>] = 0
              /\ \A s \in Reqs : Lock(s, <<"bind", v, w>>, "share") \notin locks
    PROVE  ConfigInv'
  <1>1. /\ TablesTyped /\ load.ops \in Nat /\ ops \in Nat /\ ops' \in 0..load.ops
        /\ hands \in Nat /\ acct \in [Users -> AccountRow]
    BY LoadFits DEF ConfigInv, TablesTyped
  <1>2. hands' \in Nat /\ acct' \in [Users -> AccountRow]
    BY <1>1
  <1>3. TablesTyped'
    BY <1>1, <1>2 DEF TablesTyped
  <1>4. RowsFit'
    BY DEF ConfigInv, RowsFit, Housed
  <1>5. ASSUME NEW s \in Reqs
        PROVE  SparesRights(s, locks, acct, name, binding, mapping, acct', name', binding', mapping')
    <2>1. ASSUME NEW v \in Users, Lock(s, <<"user", v>>, "share") \in locks PROVE acct'[v] = acct[v]
      BY <1>1, <2>1
    <2>2. ASSUME NEW w \in WorkspaceIds, NEW v \in Users, Lock(s, <<"bind", v, w>>, "share") \in locks
          PROVE  binding'[<<v, w>>] = binding[<<v, w>>]
      BY <2>2
    <2> QED BY <2>1, <2>2 DEF SparesRights
  <1>6. /\ Stamped(req', obj', ops', load'.ops) /\ Shown(req', obj', ops', load'.ops)
    <2>1. ASSUME NEW x, Given(x, ops, load.ops) PROVE Given(x, ops + 1, load.ops)
      BY <1>1, <2>1 DEF Given
    <2>2. \A x \in 1..ops : x \in 1..(ops + 1)
      BY <1>1
    <2>3. Stamped(req, obj, ops + 1, load.ops)
      BY <2>1, <2>2 DEF ConfigInv, Stamped
    <2>4. Shown(req, obj, ops + 1, load.ops)
      BY <2>1 DEF ConfigInv, Shown
    <2> QED BY <2>3, <2>4
  <1>7. ASSUME NEW s \in Reqs
        PROVE  /\ Sound(req[s]) /\ Entitled(s, req[s], locks, acct', name', binding', mapping')
               /\ Informed(s, req[s], locks, obj)
               /\ KnowsAdmins(req[s], acct', binding', mapping', hands')
    <2>1. Keeps(s, locks, locks)
      BY DEF Keeps
    <2>2. /\ Sound(req[s]) /\ Entitled(s, req[s], locks, acct, name, binding, mapping)
          /\ Informed(s, req[s], locks, obj) /\ KnowsAdmins(req[s], acct, binding, mapping, hands)
      BY DEF ConfigInv
    <2>3. KnowsAdmins(req[s], acct', binding', mapping', hands + 1)
      BY <1>1, <2>2, OvertakenKnows
    <2> QED BY <1>1, <1>5, <2>1, <2>2, <2>3, RightsSpared
  <1>8. Exclusive' /\ RightsHeld' /\ NoLostUpdate' /\ DOMAIN req = Reqs
    BY DEF ConfigInv, Exclusive, RightsHeld, NoLostUpdate
  <1> QED BY <1>3, <1>4, <1>6, <1>7, <1>8 DEF ConfigInv

\* A change to an account waits for the requests that rest on it.
LEMMA AccountStep == ASSUME ConfigInv, ChangeAccount PROVE ConfigInv'
  <1>0. PICK u \in Users : \E a \in [super : BOOLEAN, disabled : BOOLEAN, gone : BOOLEAN, groups : {acct[u].groups}] :
           /\ ops < load.ops
           /\ \A l \in locks : l.row \notin {<<"user", u>>} \cup ({"bind"} \X {u} \X WorkspaceIds)
           /\ acct' = [acct EXCEPT ![u] = a] /\ ops' = ops + 1 /\ hands' = hands + 1
           /\ binding' = [p \in DOMAIN binding |-> IF a.gone /\ p[1] = u THEN 0 ELSE binding[p]]
           /\ UNCHANGED <<locks, name, mapping, obj, version, req, load, audit>>
    BY Zenon DEF ChangeAccount
  <1>1. PICK a \in [super : BOOLEAN, disabled : BOOLEAN, gone : BOOLEAN, groups : {acct[u].groups}] :
           /\ ops < load.ops
           /\ \A l \in locks : l.row \notin {<<"user", u>>} \cup ({"bind"} \X {u} \X WorkspaceIds)
           /\ acct' = [acct EXCEPT ![u] = a] /\ ops' = ops + 1 /\ hands' = hands + 1
           /\ binding' = [p \in DOMAIN binding |-> IF a.gone /\ p[1] = u THEN 0 ELSE binding[p]]
           /\ UNCHANGED <<locks, name, mapping, obj, version, req, load, audit>>
    BY <1>0, Zenon
  <1>2. TablesTyped /\ binding \in [Users \X WorkspaceIds -> 0..3]
    BY DEF ConfigInv, TablesTyped
  <1>3. a \in AccountRow
    BY <1>2, GroupsTyped DEF AccountRow
  <1>4. binding' \in [Users \X WorkspaceIds -> 0..3]
    BY <1>1, <1>2
  <1>5. ASSUME NEW v \in Users, NEW w \in WorkspaceIds
        PROVE  binding'[<<v, w>>] = IF a.gone /\ v = u THEN 0 ELSE binding[<<v, w>>]
    <2>0. <<v, w>> \in DOMAIN binding /\ <<v, w>>[1] = v
      BY <1>2
    <2>1. PICK p : p = <<v, w>> /\ p \in DOMAIN binding /\ p[1] = v
      BY <2>0
    <2> QED BY <1>1, <2>1
  <1>6. ASSUME NEW s \in Reqs PROVE Lock(s, <<"user", u>>, "share") \notin locks
    <2>1. Lock(s, <<"user", u>>, "share").row = <<"user", u>>
      BY DEF Lock
    <2> QED BY <1>1, <2>1
  <1>7. ASSUME NEW s \in Reqs, NEW w \in WorkspaceIds PROVE Lock(s, <<"bind", u, w>>, "share") \notin locks
    <2>1. Lock(s, <<"bind", u, w>>, "share").row = <<"bind", u, w>>
      BY DEF Lock
    <2>2. <<"bind", u, w>> \in {"bind"} \X {u} \X WorkspaceIds
      OBVIOUS
    <2> QED BY <1>1, <2>1, <2>2
  <1> QED BY <1>1, <1>3, <1>4, <1>5, <1>6, <1>7, PersonStep

\* A sign-in waits for the requests whose right rests on the account's groups.
LEMMA SignInStep == ASSUME ConfigInv, SignIn PROVE ConfigInv'
  <1>1. PICK u \in Users, groups \in SUBSET Groups :
           /\ ops < load.ops
           /\ \A l \in locks : l.row = <<"user", u>> => <<"nokey", l.mode>> \notin Conflict
           /\ acct' = [acct EXCEPT ![u].groups = groups] /\ ops' = ops + 1 /\ hands' = hands + 1
           /\ UNCHANGED <<locks, name, binding, mapping, obj, version, req, load, audit>>
    BY Zenon DEF SignIn
  <1>2. acct \in [Users -> AccountRow] /\ binding \in [Users \X WorkspaceIds -> 0..3]
    BY DEF ConfigInv, TablesTyped
  <1>3. PICK a : a = [acct[u] EXCEPT !.groups = groups]
    OBVIOUS
  <1>4. a \in AccountRow /\ acct' = [acct EXCEPT ![u] = a]
    BY <1>1, <1>2, <1>3 DEF AccountRow
  <1>5. ASSUME NEW s \in Reqs PROVE Lock(s, <<"user", u>>, "share") \notin locks
    <2>1. Lock(s, <<"user", u>>, "share").row = <<"user", u>> /\ Lock(s, <<"user", u>>, "share").mode = "share"
      BY DEF Lock
    <2>2. <<"nokey", "share">> \in Conflict
      BY DEF Conflict
    <2> QED BY <1>1, <2>1, <2>2
  <1> QED BY <1>1, <1>2, <1>4, <1>5, PersonStep

-----------------------------------------------------------------------------
(* Commits to what workspaces hold *)

LEMMA CommittedStep ==
    ASSUME ConfigInv, NEW r \in Reqs, NEW before, NEW table \in [Objects -> ObjectRow], NEW bumps,
           Committed(r, before, table, bumps), req[r].kind \in SavedOver => before = req[r].seen,
           Attached(table), Apart(table), Housed(table, name, binding, mapping),
           \A s \in Reqs \ {r} : SparesRows(s, locks, obj, table),
           Stamped([req EXCEPT ![r] = Idle], table, ops, load.ops), Shown([req EXCEPT ![r] = Idle], table, ops,
                     load.ops)
    PROVE  ConfigInv'
  <1>1. /\ At(r, "commit") /\ obj' = table /\ Audited(r, before) /\ Answer(r) /\ Active(req[r])
        /\ UNCHANGED <<acct, name, binding, mapping, load, ops>>
    BY DEF Committed, At, Active
  <1>2. RightsHeld' /\ NoLostUpdate' /\ hands \in Nat /\ hands' \in {hands, hands + 1} /\ hands' \in Nat
    BY <1>1, AuditStep DEF ConfigInv, TablesTyped
  <1>3. TablesTyped' /\ RowsFit'
    BY <1>1, <1>2 DEF ConfigInv, TablesTyped, RowsFit
  <1>4. Stamped(req', obj', ops', load'.ops) /\ Shown(req', obj', ops', load'.ops)
    BY <1>1 DEF Answer
  <1>5. ASSUME NEW s \in Reqs \ {r}
        PROVE  /\ SparesRights(s, locks, acct, name, binding, mapping, acct', name', binding', mapping')
               /\ SparesRows(s, locks, obj, obj') /\ KnowsAdmins(req[s], acct', binding', mapping',
                         hands')
    <2>1. SparesRights(s, locks, acct, name, binding, mapping, acct', name', binding', mapping')
      BY <1>1 DEF SparesRights
    <2>2. KnowsAdmins(req[s], acct, binding, mapping, hands)
      BY DEF ConfigInv
    <2>3. KnowsAdmins(req[s], acct', binding', mapping', hands')
      BY <1>1, <1>2, <2>2, OvertakenKnows
    <2> QED BY <1>1, <2>1, <2>3
  <1> QED BY <1>1, <1>2, <1>3, <1>4, <1>5, EndStep

\* Rows written under one stamp, at most one of them, i, of a kind that is saved over.
Restamps(O, O2, stamp, i) ==
    \A j \in Objects : O2[j].kind # "none" =>
        (O2[j].stamp = stamp /\ (O2[j].kind \in SavedTables => j = i)) \/ O2[j] = O[j]

\* They are written with the stamp of the request that ends.
LEMMA NewStamp ==
    ASSUME NEW Q, DOMAIN Q = Reqs, NEW O, NEW O2, NEW n, NEW first, Stamped(Q, O, n, first),
           Shown(Q, O, n, first), NEW r \in Reqs, Active(Q[r]), NEW i,
           Restamps(O, O2, Q[r].n, i)
    PROVE  /\ Stamped([Q EXCEPT ![r] = Idle], O2, n, first) /\ Shown([Q EXCEPT ![r] = Idle], O2, n, first)
  <1>1. PICK Q2 : Q2 = [Q EXCEPT ![r] = Idle]
    OBVIOUS
  <1>3. \A s \in Reqs : Active(Q2[s]) => s # r /\ Q2[s] = Q[s] /\ Active(Q[s])
    BY <1>1, IdleRests
  <1>5. Q[r].n \in 1..n /\ Given(Q[r].n, n, first)
    BY DEF Stamped, Given
  <1>6. \A j \in Objects : O2[j].kind # "none" =>
           (O2[j].stamp = Q[r].n /\ (O2[j].kind \in SavedTables => j = i)) \/ (O2[j] = O[j] /\ O[j].kind # "none")
    BY DEF Restamps
  <1>7. Stamped(Q2, O2, n, first)
    <2>1. \A j \in Objects : O2[j].kind # "none" => Given(O2[j].stamp, n, first)
      BY <1>5, <1>6 DEF Stamped
    <2>2. ASSUME NEW j \in Objects, NEW k \in Objects, {O2[j].kind, O2[k].kind} \subseteq SavedTables,
              O2[j].stamp = O2[k].stamp
          PROVE  j = k
      <3>1. \A x \in Objects : O[x].kind # "none" => O[x].stamp # Q[r].n
        BY DEF Stamped
      <3>2. O2[j].kind # "none" /\ O2[k].kind # "none" /\ O2[j].kind \in SavedTables /\ O2[k].kind \in SavedTables
        BY <2>2 DEF SavedTables
      <3> QED BY <1>6, <2>2, <3>1, <3>2 DEF Stamped
    <2>3. \A s \in Reqs : Active(Q2[s]) => Q2[s].n \in 1..n
      BY <1>3 DEF Stamped
    <2>4. \A s, v \in Reqs : Active(Q2[s]) /\ Active(Q2[v]) /\ Q2[s].n = Q2[v].n => s = v
      BY <1>3 DEF Stamped
    <2>5. ASSUME NEW s \in Reqs, NEW j \in Objects, Active(Q2[s]), O2[j].kind # "none"
          PROVE  O2[j].stamp # Q2[s].n
      <3>1. s # r /\ Q2[s] = Q[s] /\ Active(Q[s]) /\ Q[s].n # Q[r].n
        BY <1>3, <2>5 DEF Stamped
      <3> QED BY <1>6, <2>5, <3>1 DEF Stamped
    <2> QED BY <2>1, <2>2, <2>3, <2>4, <2>5 DEF Stamped
  <1>8. Shown(Q2, O2, n, first)
    <2> SUFFICES ASSUME NEW s \in Reqs, Active(Q2[s])
                 PROVE  /\ Q2[s].seen = Nothing \/ Given(Q2[s].seen.stamp, n, first)
                        /\ \A v \in Reqs : Active(Q2[v]) => Q2[s].seen.stamp # Q2[v].n
                        /\ \A j \in Objects : O2[j].kind \in SavedTables /\ O2[j].stamp = Q2[s].seen.stamp =>
                              O2[j] = Q2[s].seen
      BY DEF Shown
    <2>1. s # r /\ Q2[s] = Q[s] /\ Active(Q[s]) /\ Q[s].seen.stamp # Q[r].n
      BY <1>3 DEF Shown
    <2>2. \A j \in Objects : O2[j].kind \in SavedTables => O2[j].stamp = Q[r].n \/ O2[j] = O[j]
      BY <1>6 DEF SavedTables
    <2> QED BY <1>3, <2>1, <2>2 DEF Shown
  <1> QED BY <1>1, <1>7, <1>8

\* Rows that go, or change only a consumer's groups.
LEMMA OldStamps ==
    ASSUME NEW Q, DOMAIN Q = Reqs, NEW O, NEW O2, NEW n, NEW first, Stamped(Q, O, n, first), Shown(Q, O, n,
              first),
           NEW r \in Reqs,
           \A i \in Objects : O2[i].kind # "none" =>
              /\ O[i].kind = O2[i].kind /\ O[i].stamp = O2[i].stamp /\ (O2[i] = O[i] \/ O2[i].kind \notin SavedTables)
    PROVE  Stamped([Q EXCEPT ![r] = Idle], O2, n, first) /\ Shown([Q EXCEPT ![r] = Idle], O2, n, first)
  <1>1. PICK Q2 : Q2 = [Q EXCEPT ![r] = Idle]
    OBVIOUS
  <1>2. \A s \in Reqs : Active(Q2[s]) => Q2[s] = Q[s] /\ Active(Q[s])
    BY <1>1, IdleRests
  <1>3. Stamped(Q2, O2, n, first)
    <2>1. \A i \in Objects : O2[i].kind \in SavedTables => O[i].kind \in SavedTables /\ O[i].stamp = O2[i].stamp
      BY DEF SavedTables
    <2> QED BY <1>2, <2>1 DEF Stamped
  <1>4. Shown(Q2, O2, n, first)
    <2> SUFFICES ASSUME NEW s \in Reqs, Active(Q2[s])
                 PROVE  /\ Q2[s].seen = Nothing \/ Given(Q2[s].seen.stamp, n, first)
                        /\ \A v \in Reqs : Active(Q2[v]) => Q2[s].seen.stamp # Q2[v].n
                        /\ \A j \in Objects : O2[j].kind \in SavedTables /\ O2[j].stamp = Q2[s].seen.stamp =>
                              O2[j] = Q2[s].seen
      BY DEF Shown
    <2>1. Q2[s] = Q[s] /\ Active(Q[s])
      BY <1>2
    <2>2. \A j \in Objects : O2[j].kind \in SavedTables => O2[j] = O[j]
      BY DEF SavedTables
    <2> QED BY <1>2, <2>1, <2>2 DEF Shown
  <1> QED BY <1>1, <1>3, <1>4

\* The requests that write a row of their own making.
WriteKinds == CreateKinds \cup {"plane", "token", "service_replace", "route_replace", "policy_put"}

LEMMA TableIs ==
    ASSUME NEW k \in WriteKinds
    PROVE  /\ TableOf(k) # "none" /\ TableOf(k) \in Tables /\ (TableOf(k) = "route" <=> k \in RouteKinds)
           /\ k \in PolicyKinds => TableOf(k) = "plugin"
           /\ k \in OwnerKinds => TableOf(k) \in {"plugin", "key", "token"}
           /\ TableOf(k) # "consumer" \/ k = "consumer_create"
           /\ k \in RoomKinds \cup PlaneKinds
  <1> USE DEF WriteKinds, CreateKinds, RouteKinds, PolicyKinds, OwnerKinds, TableOf, Tables, RoomKinds,
            RowKinds, PlaneKinds
  <1>1. CASE k \in {"service_create", "service_replace"}
    BY <1>1
  <1>2. CASE k \in {"route_create", "route_replace"}
    BY <1>2
  <1>3. CASE k \in {"consumer_create", "key_issue", "plane", "token", "policy_put"}
    BY <1>3
  <1> QED BY <1>1, <1>2, <1>3

\* A row as a request asked for it.
Fits(q, row) ==
    /\ row \in ObjectRow /\ row.kind = TableOf(q.kind) /\ row.stamp = q.n /\ row.hosts = q.new.hosts
    /\ row.svc = q.new.svc /\ row.on = q.new.on /\ row.owner = q.new.owner
    /\ q.over = {} => row.ws = "none"
    /\ q.over # {} => row.ws \in q.over

LEMMA WriteStep ==
    ASSUME ConfigInv, NEW r \in Reqs, At(r, "commit"), NEW q, q = req[r], q.kind \in WriteKinds,
              NEW i \in Objects,
           NEW row, Fits(q, row), obj[i].kind = "none" \/ (Holds(locks, r,
                     i, "update") /\ obj[i].kind = TableOf(q.kind)),
           NEW before, NEW bumps, Committed(r, before, [obj EXCEPT ![i] = row], bumps),
           q.kind \in SavedOver => before = q.seen
    PROVE  ConfigInv'
  <1>1. /\ Active(q) /\ Sound(q) /\ Reached(q, {"commit"}) /\ Reached(q, {"service", "commit"})
        /\ Reached(q, {"owner", "policy", "commit"}) /\ Reached(q, {"policy", "commit"}) /\ Past(q,
                  {"caller", "scope"})
        /\ Entitled(r, q, locks, acct, name, binding, mapping) /\ Informed(r, q, locks, obj) /\ q \in Request
        /\ Proper(q) /\ q.new \in ObjectRow
    BY DEF ConfigInv, At, Active, Sound, Past, Reached, Request
  <1>2. PICK O2 : O2 = [obj EXCEPT ![i] = row]
    OBVIOUS
  <1>3. /\ obj \in [Objects -> ObjectRow] /\ O2[i] = row /\ O2 \in [Objects -> ObjectRow]
        /\ \A j \in Objects \ {i} : O2[j] = obj[j]
    BY <1>2 DEF ConfigInv, TablesTyped, Fits
  <1>4. /\ row.kind # "none" /\ (row.kind = "route" <=> q.kind \in RouteKinds) /\ (q.kind \in PolicyKinds => row.kind = "plugin")
        /\ (q.kind \in OwnerKinds => row.kind \in {"plugin", "key", "token"})
        /\ row.kind = TableOf(q.kind) /\ (q.kind \in RoomKinds \/ q.kind \in PlaneKinds)
    BY TableIs DEF Fits
  <1>5. /\ row.ws \in WorkspaceIds \cup {"none"}
        /\ row.ws # "none" => /\ q.over = {row.ws} /\ name[row.ws] # "none"
                             /\ Lock(r, <<"ws", row.ws>>, "share") \in locks
    <2>1. CASE q.kind \in PlaneKinds
      BY <1>1, <2>1 DEF Proper, Fits
    <2>2. CASE q.kind \in RoomKinds
      <3>1. PICK w \in WorkspaceIds : q.over = {w}
        BY <1>1, <2>2 DEF Proper
      <3>2. row.ws = w
        BY <3>1 DEF Fits
      <3>3. name[w] # "none" /\ Lock(r, <<"ws", w>>, "share") \in locks
        BY <1>1, <2>2, <3>1 DEF Entitled, KnowsScope, RightsKinds
      <3> QED BY <3>1, <3>2, <3>3
    <2> QED BY <1>4, <2>1, <2>2
  <1>6. IF row.kind = "route"
        THEN row.svc \in Objects /\ row.svc # 0 /\ obj[row.svc].kind = "service" /\ Holds(locks, r,
                  row.svc, "share")
        ELSE row.svc = 0
    BY <1>1, <1>4 DEF Fits, Informed, KnowsService, Proper, ObjectRow
  <1>7. row.on # 0 => /\ row.kind = "plugin" /\ row.on \in Objects /\ obj[row.on].kind \in {"service", "route"}
                      /\ Holds(locks, r, row.on, "share")
    BY <1>1, <1>4 DEF Fits, Informed, KnowsObject, Proper, ObjectRow
  <1>8. row.owner # 0 => /\ row.kind \in {"plugin", "key", "token"} /\ row.owner \in Objects
                         /\ obj[row.owner].kind \in {"consumer", "plane"}
    BY <1>1, <1>4 DEF Fits, Informed, KnowsOwner, Proper, ObjectRow
  <1>9. \A j \in Objects : obj[j].kind # "none" => O2[j].kind = obj[j].kind
    BY <1>3, <1>4
  <1>10. Attached(O2)
    <2>1. Attached(obj)
      BY DEF ConfigInv, RowsFit
    <2>2. ASSUME NEW j \in Objects
          PROVE  /\ O2[j].kind = "none" => O2[j].ws = "none"
                 /\ O2[j].kind = "route" => O2[j].svc # 0
                 /\ O2[j].svc # 0 => O2[j].kind = "route" /\ O2[O2[j].svc].kind = "service"
                 /\ O2[j].on # 0 => O2[j].kind = "plugin" /\ O2[O2[j].on].kind \in {"service", "route"}
                 /\ O2[j].owner # 0 => /\ O2[j].kind \in {"plugin", "key", "token"}
                                       /\ O2[O2[j].owner].kind \in {"consumer", "plane"}
      <3>1. CASE j = i
        BY <1>3, <1>4, <1>6, <1>7, <1>8, <1>9, <3>1
      <3>2. CASE j # i
        <4>1. O2[j] = obj[j] /\ obj[j] \in ObjectRow
          BY <1>3, <3>2
        <4>2. obj[j].svc \in Objects \cup {0} /\ obj[j].on \in Objects \cup {0} /\ obj[j].owner \in Objects \cup {0}
          BY <4>1 DEF ObjectRow
        <4> QED BY <1>9, <2>1, <4>1, <4>2 DEF Attached
      <3> QED BY <3>1, <3>2
    <2> QED BY <2>2 DEF Attached
  <1>11. Apart(O2)
    <2>1. \A a, b : hosts_overlap(a, b) <=> hosts_overlap(b, a)
      BY DEF hosts_overlap
    <2>2. ASSUME row.kind = "route", NEW j \in Objects, obj[j].kind = "route", obj[j].ws # row.ws,
                 NEW h \in row.hosts, NEW g \in obj[j].hosts
          PROVE  ~hosts_overlap(h, g)
      <3>1. q.over = {row.ws} \/ q.over = {}
        <4>1. q.over \subseteq WorkspaceIds /\ "none" \notin WorkspaceIds
          BY <1>1, ConfigurationAssumption DEF Request
        <4> QED BY <1>5, <4>1 DEF Fits
      <3>2. obj[j].ws \notin q.over
        BY <2>2, <3>1
      <3> QED BY <1>1, <1>4, <2>2, <3>2 DEF Fits, Informed, KnowsHosts
    <2>3. Apart(obj)
      BY DEF ConfigInv, RowsFit
    <2>4. ASSUME NEW j \in Objects, NEW k \in Objects, O2[j].kind = "route", O2[k].kind = "route",
              O2[j].ws # O2[k].ws,
                 NEW h \in O2[j].hosts, NEW g \in O2[k].hosts
          PROVE  ~hosts_overlap(h, g)
      <3>1. CASE j # i /\ k # i
        BY <1>3, <2>3, <2>4, <3>1 DEF Apart
      <3>2. CASE j = i /\ k # i
        BY <1>3, <2>2, <2>4, <3>2
      <3>3. CASE j # i /\ k = i
        BY <1>3, <2>1, <2>2, <2>4, <3>3
      <3> QED BY <2>4, <3>1, <3>2, <3>3
    <2> QED BY <2>4 DEF Apart
  <1>12. Housed(O2, name, binding, mapping)
    BY <1>3, <1>5 DEF ConfigInv, RowsFit, Housed
  <1>13. ASSUME NEW s \in Reqs \ {r} PROVE SparesRows(s, locks, obj, O2)
    <2>1. ASSUME NEW w \in WorkspaceIds, Lock(s, <<"ws", w>>, "update") \in locks, Vacant(obj, w)
          PROVE  Vacant(O2, w)
      <3>1. row.ws # w
        <4> SUFFICES ASSUME row.ws = w PROVE FALSE
          OBVIOUS
        <4>1. w # "none"
          BY ConfigurationAssumption
        <4>2. Lock(r, <<"ws", w>>, "share") \in locks
          BY <1>5, <4>1
        <4> QED BY <1>13, <2>1, <4>2, Alone DEF ConfigInv, Modes
      <3> QED BY <1>3, <2>1, <3>1 DEF Vacant
    <2>2. ASSUME NEW j \in Objects, obj[j].kind # "none", NEW m \in {"update", "share"}, Holds(locks, s, j, m)
          PROVE  j # i
      BY <1>13, <2>2, Alone DEF ConfigInv, Holds, Modes
    <2>3. ASSUME NEW j \in Objects, Holds(locks, s, j, "update"), Unrouted(obj, j)
          PROVE  Unrouted(O2, j)
      <3>1. row.svc # j
        BY <1>6, <1>13, <2>3, Alone, NumberedFromOne DEF ConfigInv, Holds, Modes
      <3> QED BY <1>3, <2>3, <3>1 DEF Unrouted
    <2>5. ASSUME NEW j \in Objects, Holds(locks, s, j, "update"), Unpoliced(obj, j)
          PROVE  Unpoliced(O2, j)
      <3>1. row.on # j
        BY <1>7, <1>13, <2>5, Alone, NumberedFromOne DEF ConfigInv, Holds, Modes
      <3> QED BY <1>3, <2>5, <3>1 DEF Unpoliced
    <2>4. ASSUME Lock(s, <<"hosts">>, "update") \in locks, NEW j \in Objects, O2[j].kind = "route"
          PROVE  j # i
      <3> SUFFICES ASSUME j = i PROVE FALSE
        OBVIOUS
      <3>1. Lock(r, <<"hosts">>, "update") \in locks
        BY <1>1, <1>3, <1>4, <2>4 DEF Informed, KnowsHosts
      <3> QED BY <1>13, <2>4, <3>1, Alone DEF ConfigInv, Modes
    <2> QED BY <1>3, <2>1, <2>2, <2>3, <2>4, <2>5 DEF SparesRows
  <1>14. Stamped([req EXCEPT ![r] = Idle], O2, ops, load.ops) /\ Shown([req EXCEPT ![r] = Idle], O2, ops,
            load.ops)
    <2>1. Restamps(obj, O2, req[r].n, i) /\ Active(req[r])
      BY <1>1, <1>3 DEF Fits, Restamps
    <2>2. DOMAIN req = Reqs /\ Stamped(req, obj, ops, load.ops) /\ Shown(req, obj, ops, load.ops)
      BY DEF ConfigInv
    <2> QED BY <2>1, <2>2, NewStamp
  <1> QED BY <1>2, <1>3, <1>10, <1>11, <1>12, <1>13, <1>14, CommittedStep

LEMMA NewRowFits ==
    ASSUME ConfigInv, NEW r \in Reqs, Active(req[r]), req[r].kind \in WriteKinds
    PROVE  Fits(req[r], NewRow(r)) /\ \A v \in Nat : Fits(req[r], [NewRow(r) EXCEPT !.val = v])
  <1>1. PICK q : q = req[r]
    OBVIOUS
  <1>2. PICK k, w : k = TableOf(q.kind) /\ w = IF q.over = {} THEN "none" ELSE CHOOSE x \in q.over : TRUE
    OBVIOUS
  <1>3. q \in Request /\ q.new \in ObjectRow /\ q.over \subseteq WorkspaceIds /\ q.n \in Nat
    BY <1>1 DEF ConfigInv, Sound, Request
  <1>4. k \in Tables
    BY <1>1, <1>2, TableIs
  <1>5. (q.over = {} => w = "none") /\ (q.over # {} => w \in q.over)
    BY <1>2
  <1>6. NewRow(r) = [q.new EXCEPT !.kind = k, !.stamp = q.n, !.ws = w]
    BY <1>1, <1>2 DEF NewRow
  <1>7. PICK row : row = NewRow(r)
    OBVIOUS
  <1>8. /\ row \in ObjectRow /\ row.kind = k /\ row.stamp = q.n /\ row.hosts = q.new.hosts /\ row.svc = q.new.svc
        /\ row.on = q.new.on /\ row.owner = q.new.owner /\ row.ws = w
    BY <1>3, <1>4, <1>5, <1>6, <1>7 DEF ObjectRow
  <1>9. Fits(q, row)
    BY <1>2, <1>5, <1>8 DEF Fits
  <1>10. ASSUME NEW v \in Nat PROVE Fits(q, [row EXCEPT !.val = v])
    <2>1. PICK row2 : row2 = [row EXCEPT !.val = v]
      OBVIOUS
    <2>2. /\ row2 \in ObjectRow /\ row2.kind = k /\ row2.stamp = q.n /\ row2.hosts = q.new.hosts /\ row2.svc = q.new.svc
          /\ row2.on = q.new.on /\ row2.owner = q.new.owner /\ row2.ws = w
      BY <1>8, <2>1 DEF ObjectRow
    <2> QED BY <1>2, <1>5, <2>1, <2>2 DEF Fits
  <1> QED BY <1>1, <1>7, <1>9, <1>10

LEMMA CreateStep ==
    ASSUME ConfigInv, NEW r \in Reqs, NEW kind \in CreateKinds \cup {"token"}, Create(r, kind)
    PROVE  ConfigInv'
  <1>1. At(r, "commit") /\ req[r].kind = kind /\ Active(req[r]) /\ kind \in WriteKinds /\ kind \notin SavedOver
    BY DEF Create, At, Active, WriteKinds, CreateKinds, SavedOver
  <1>2. CASE Refuse(r)
    BY <1>1, <1>2, RefuseStep
  <1>3. CASE ~Refuse(r)
    <2>1. PICK i \in Unused : Committed(r, Nothing, [obj EXCEPT ![i] = NewRow(r)], Bumps(kind))
      BY <1>3 DEF Create
    <2>2. i \in Objects /\ obj[i].kind = "none"
      BY DEF Unused, Nothing
    <2>3. PICK row : row = NewRow(r)
      OBVIOUS
    <2>4. Fits(req[r], row)
      BY <1>1, <2>3, NewRowFits
    <2> QED BY <1>1, <2>1, <2>2, <2>3, <2>4, WriteStep
  <1> QED BY <1>2, <1>3

\* A data plane with its first token: in no workspace, and attached to nothing else.
LEMMA RegisterStep == ASSUME ConfigInv, NEW r \in Reqs, try_register_data_plane(r) PROVE ConfigInv'
  <1>1. At(r, "commit") /\ req[r].kind = "plane" /\ Active(req[r]) /\ req[r].kind \in WriteKinds
        /\ req[r].kind \notin SavedOver
    BY DEF try_register_data_plane, At, Active, WriteKinds, SavedOver
  <1>2. CASE Refuse(r)
    BY <1>1, <1>2, RefuseStep
  <1>3. CASE ~Refuse(r)
    <2>1. PICK row : row = NewRow(r)
      OBVIOUS
    <2>2. PICK i \in Unused, j \in Unused :
             i < j /\ Committed(r, Nothing, [obj EXCEPT ![i] = NewRow(r),
                                               ![j] = [NewRow(r) EXCEPT !.kind = "token", !.owner = i]], 0)
      BY <1>3 DEF try_register_data_plane
    <2>3. PICK tok : tok = [row EXCEPT !.kind = "token", !.owner = i]
      OBVIOUS
    <2>4. PICK O2 : O2 = [obj EXCEPT ![i] = row, ![j] = tok]
      OBVIOUS
    <2>5. Committed(r, Nothing, O2, 0)
      BY <2>1, <2>2, <2>3, <2>4
    <2>6. /\ i \in Objects /\ j \in Objects /\ i # 0 /\ i # j
          /\ obj[i].kind = "none" /\ obj[j].kind = "none"
      BY <2>2, ConfigurationAssumption DEF Unused, Nothing
    <2>7. /\ row \in ObjectRow /\ row.kind = "plane" /\ row.stamp = req[r].n /\ row.ws = "none"
          /\ row.svc = 0 /\ row.on = 0 /\ row.owner = 0
      <3>1. PICK q : q = req[r]
        OBVIOUS
      <3>2. Fits(q, row)
        BY <1>1, <2>1, <3>1, NewRowFits
      <3>3. Sound(q) /\ Active(q) /\ Proper(q)
        BY <1>1, <3>1 DEF ConfigInv, Sound
      <3>4. q.over = {} /\ q.new.svc = 0 /\ q.new.on = 0 /\ q.new.owner = 0
        BY <1>1, <3>1, <3>3 DEF Proper, PlaneKinds, RouteKinds, PolicyKinds, OwnerKinds
      <3>5. TableOf(q.kind) = "plane"
        BY <1>1, <3>1 DEF TableOf, PolicyKinds
      <3> QED BY <3>1, <3>2, <3>4, <3>5 DEF Fits
    <2>8. /\ tok \in ObjectRow /\ tok.kind = "token" /\ tok.stamp = req[r].n /\ tok.ws = "none"
          /\ tok.svc = 0 /\ tok.on = 0 /\ tok.owner = i
      BY <2>3, <2>6, <2>7 DEF ObjectRow, Tables
    <2>9. /\ obj \in [Objects -> ObjectRow] /\ Attached(obj) /\ Apart(obj)
          /\ Housed(obj, name, binding, mapping)
      BY DEF ConfigInv, TablesTyped, RowsFit
    <2>10. /\ O2 \in [Objects -> ObjectRow] /\ O2[i] = row /\ O2[j] = tok
           /\ \A k \in Objects \ {i, j} : O2[k] = obj[k]
      BY <2>4, <2>6, <2>7, <2>8, <2>9
    <2>11. \A k \in Objects : obj[k].kind # "none" => k \notin {i, j} /\ O2[k] = obj[k]
      BY <2>6, <2>10
    <2>12. Attached(O2)
      <3>1. ASSUME NEW k \in Objects
            PROVE  /\ O2[k].kind = "none" => O2[k].ws = "none"
                   /\ O2[k].kind = "route" => O2[k].svc # 0
                   /\ O2[k].svc # 0 => O2[k].kind = "route" /\ O2[O2[k].svc].kind = "service"
                   /\ O2[k].on # 0 => O2[k].kind = "plugin" /\ O2[O2[k].on].kind \in {"service", "route"}
                   /\ O2[k].owner # 0 => /\ O2[k].kind \in {"plugin", "key", "token"}
                                         /\ O2[O2[k].owner].kind \in {"consumer", "plane"}
        <4>1. CASE k = i
          BY <2>7, <2>10, <4>1
        <4>2. CASE k = j
          BY <2>6, <2>7, <2>8, <2>10, <4>2
        <4>3. CASE k \notin {i, j}
          <5>1. O2[k] = obj[k] /\ obj[k] \in ObjectRow
            BY <2>9, <2>10, <4>3
          <5>2. obj[k].svc \in Objects \cup {0} /\ obj[k].on \in Objects \cup {0} /\ obj[k].owner \in Objects \cup {0}
            BY <5>1 DEF ObjectRow
          <5> QED BY <2>9, <2>11, <5>1, <5>2 DEF Attached
        <4> QED BY <4>1, <4>2, <4>3
      <3> QED BY <3>1 DEF Attached
    <2>13. Apart(O2)
      <3>1. \A k \in Objects : O2[k].kind = "route" => O2[k] = obj[k]
        BY <2>7, <2>8, <2>10
      <3> QED BY <2>9, <3>1 DEF Apart
    <2>14. Housed(O2, name, binding, mapping)
      BY <2>7, <2>8, <2>9, <2>10 DEF Housed
    <2>15. ASSUME NEW s \in Reqs \ {r} PROVE SparesRows(s, locks, obj, O2)
      <3>1. \A w \in WorkspaceIds : w # "none"
        BY ConfigurationAssumption
      <3>2. \A k \in Objects : k # 0
        BY ConfigurationAssumption
      <3>3. \A w \in WorkspaceIds : Vacant(obj, w) => Vacant(O2, w)
        BY <2>7, <2>8, <2>10, <3>1 DEF Vacant
      <3>4. \A k \in Objects : (Unrouted(obj, k) => Unrouted(O2, k)) /\ (Unpoliced(obj, k) => Unpoliced(O2, k))
        BY <2>7, <2>8, <2>10, <3>2 DEF Unrouted, Unpoliced
      <3>5. \A k \in Objects : O2[k].kind = "route" => O2[k] = obj[k]
        BY <2>7, <2>8, <2>10
      <3> QED BY <2>11, <3>3, <3>4, <3>5 DEF SparesRows
    <2>16. Stamped([req EXCEPT ![r] = Idle], O2, ops, load.ops) /\ Shown([req EXCEPT ![r] = Idle], O2, ops,
              load.ops)
      <3>1. Restamps(obj, O2, req[r].n, 0)
        BY <2>7, <2>8, <2>10 DEF SavedTables, Restamps
      <3> QED BY <1>1, <3>1, NewStamp DEF ConfigInv
    <2> QED BY <1>1, <2>5, <2>10, <2>12, <2>13, <2>14, <2>15, <2>16, CommittedStep
  <1> QED BY <1>2, <1>3

LEMMA ReplaceStep ==
    ASSUME ConfigInv, NEW r \in Reqs, NEW kind \in {"service_replace", "route_replace"}, Replace(r, kind)
    PROVE  ConfigInv'
  <1>1. At(r, "commit") /\ req[r].kind = kind /\ Active(req[r]) /\ kind \in WriteKinds /\ kind \in SavedOver
        /\ kind \in RowKinds
    BY DEF Replace, At, Active, WriteKinds, SavedOver, RowKinds
  <1>2. CASE Refuse(r)
    BY <1>1, <1>2, RefuseStep
  <1>3. CASE ~Refuse(r)
    <2>1. PICK b : b = obj[req[r].row]
      OBVIOUS
    <2>2. PICK v : v = IF NewRow(r).val = 0 THEN b.val ELSE NewRow(r).val
      OBVIOUS
    <2>3. Committed(r, b, [obj EXCEPT ![req[r].row] = [NewRow(r) EXCEPT !.val = v]], 1)
      BY <1>3, <2>1, <2>2 DEF Replace
    <2>4. /\ req[r].row \in Objects /\ Holds(locks, r, req[r].row, "update") /\ b = req[r].seen
          /\ obj[req[r].row].kind = TableOf(kind)
      <3>1. KnowsRow(r, req[r], locks, obj) /\ req[r].row \in Objects \cup {0}
        BY DEF ConfigInv, Informed, Sound, Request
      <3>2. req[r].row # 0
        BY <1>1, <3>1 DEF KnowsRow, Reached, At, Active
      <3> QED BY <1>1, <2>1, <3>1, <3>2 DEF KnowsRow
    <2>5. v \in Nat
      <3>1. b \in ObjectRow
        BY <2>1, <2>4 DEF ConfigInv, TablesTyped
      <3>2. Fits(req[r], NewRow(r))
        BY <1>1, NewRowFits
      <3>3. NewRow(r) \in ObjectRow
        BY <3>2 DEF Fits
      <3> QED BY <2>2, <3>1, <3>3 DEF ObjectRow
    <2>6. PICK row : row = [NewRow(r) EXCEPT !.val = v]
      OBVIOUS
    <2>7. Fits(req[r], row)
      BY <1>1, <2>5, <2>6, NewRowFits
    <2> QED BY <1>1, <2>3, <2>4, <2>6, <2>7, WriteStep
  <1> QED BY <1>2, <1>3

LEMMA PutPolicyStep == ASSUME ConfigInv, NEW r \in Reqs, NEW which, PutPolicy(r, which) PROVE ConfigInv'
  <1>1. At(r, "commit") /\ req[r].kind = "policy_put" /\ Active(req[r]) /\ req[r].kind \in WriteKinds
    BY DEF PutPolicy, At, Active, WriteKinds
  <1>2. CASE Refuse(r)
    BY <1>1, <1>2, RefuseStep
  <1>3. CASE ~Refuse(r)
    <2>1. PICK row : row = NewRow(r)
      OBVIOUS
    <2>2. Fits(req[r], row)
      BY <1>1, <2>1, NewRowFits
    <2>3. KnowsRow(r, req[r], locks, obj) /\ req[r].row \in Objects \cup {0} /\ Reached(req[r], {"commit"})
      BY <1>1 DEF ConfigInv, Informed, Sound, Request, Reached, At
    <2>4. CASE req[r].row # 0
      <3>1. Committed(r, obj[req[r].row], [obj EXCEPT ![req[r].row] = row], 1)
        BY <1>3, <2>1, <2>4 DEF PutPolicy
      <3>2. /\ req[r].row \in Objects /\ Holds(locks, r, req[r].row, "update") /\ obj[req[r].row] = req[r].seen
            /\ obj[req[r].row].kind = TableOf(req[r].kind)
        BY <1>1, <2>3, <2>4 DEF KnowsRow, SavedOver
      <3> QED BY <1>1, <2>2, <3>1, <3>2, WriteStep
    <2>5. CASE req[r].row = 0
      <3>1. PICK i \in Unused : Committed(r, Nothing, [obj EXCEPT ![i] = row], 1)
        BY <1>3, <2>1, <2>5 DEF PutPolicy
      <3>2. i \in Objects /\ obj[i].kind = "none" /\ req[r].seen = Nothing
        BY <1>1, <2>3, <2>5 DEF Unused, Nothing, KnowsRow
      <3> QED BY <1>1, <2>2, <3>1, <3>2, WriteStep
    <2> QED BY <2>4, <2>5
  <1> QED BY <1>2, <1>3

\* The row that a request on its way to the commit is about.
LEMMA RowKnown ==
    ASSUME ConfigInv, NEW r \in Reqs, At(r, "commit"), req[r].kind \in RowKinds \cup {"policy_delete"}
    PROVE  /\ req[r].row \in Objects /\ req[r].row # 0 /\ Holds(locks, r, req[r].row, "update")
           /\ obj[req[r].row].kind = TableOf(req[r].kind)
           /\ req[r].kind = "service_delete" => Unrouted(obj, req[r].row)
           /\ req[r].kind \in {"service_delete", "route_delete"} => Unpoliced(obj, req[r].row)
  <1>1. KnowsRow(r, req[r], locks, obj) /\ req[r].row \in Objects \cup {0}
    BY DEF ConfigInv, Informed, Sound, Request
  <1>2. req[r].row # 0
    BY <1>1 DEF KnowsRow, Reached, At, Active
  <1> QED BY <1>1, <1>2 DEF KnowsRow

LEMMA GroupStep == ASSUME ConfigInv, NEW r \in Reqs, try_set_group(r) PROVE ConfigInv'
  <1>1. PICK i : i = req[r].row
    OBVIOUS
  <1>2. PICK gs : gs = req[r].new.groups
    OBVIOUS
  <1>3. PICK O2 : O2 = [obj EXCEPT ![i].groups = gs]
    OBVIOUS
  <1>4. Committed(r, obj[i], O2, 1) /\ req[r].kind = "group" /\ At(r, "commit")
    BY <1>1, <1>2, <1>3 DEF try_set_group, Committed
  <1>5. i \in Objects /\ Holds(locks, r, i, "update") /\ obj[i].kind = "consumer"
    <2>1. TableOf("group") = "consumer"
      BY DEF TableOf, PolicyKinds
    <2>2. "group" \in RowKinds
      BY DEF RowKinds
    <2> QED BY <1>1, <1>4, <2>1, <2>2, RowKnown
  <1>6. gs \subseteq GroupNames /\ obj \in [Objects -> ObjectRow]
    BY <1>2 DEF ConfigInv, TablesTyped, Sound, Request, ObjectRow
  <1>7. PICK row : row = [obj[i] EXCEPT !.groups = gs]
    OBVIOUS
  <1>8. /\ row \in ObjectRow /\ row.kind = obj[i].kind /\ row.ws = obj[i].ws /\ row.svc = obj[i].svc /\ row.on = obj[i].on
        /\ row.owner = obj[i].owner /\ row.stamp = obj[i].stamp
    BY <1>5, <1>6, <1>7 DEF ObjectRow
  <1>9. O2 \in [Objects -> ObjectRow] /\ O2[i] = row /\ \A j \in Objects \ {i} : O2[j] = obj[j]
    BY <1>3, <1>5, <1>6, <1>7, <1>8
  <1>10. \A j \in Objects : /\ O2[j].kind = obj[j].kind /\ O2[j].ws = obj[j].ws /\ O2[j].svc = obj[j].svc
                            /\ O2[j].on = obj[j].on /\ O2[j].owner = obj[j].owner /\ O2[j].stamp = obj[j].stamp
                            /\ obj[j].svc \in Objects \cup {0} /\ obj[j].on \in Objects \cup {0}
                            /\ obj[j].owner \in Objects \cup {0}
    BY <1>6, <1>8, <1>9 DEF ObjectRow
  <1>11. Attached(O2)
    BY <1>10 DEF ConfigInv, RowsFit, Attached
  <1>12. \A j \in Objects : O2[j].kind # "consumer" => O2[j] = obj[j]
    BY <1>5, <1>8, <1>9
  <1>13. Apart(O2)
    BY <1>12 DEF ConfigInv, RowsFit, Apart
  <1>14. Housed(O2, name, binding, mapping)
    BY <1>10 DEF ConfigInv, RowsFit, Housed
  <1>15. ASSUME NEW s \in Reqs \ {r} PROVE SparesRows(s, locks, obj, O2)
    <2>1. ASSUME NEW j \in Objects, Holds(locks, s, j, "update") PROVE O2[j] = obj[j]
      BY <1>5, <1>9, <1>15, <2>1, Alone DEF ConfigInv, Holds, Modes
    <2> QED BY <1>10, <1>12, <2>1 DEF SparesRows, Vacant, Unrouted, Unpoliced
  <1>16. Stamped([req EXCEPT ![r] = Idle], O2, ops, load.ops) /\ Shown([req EXCEPT ![r] = Idle], O2, ops,
            load.ops)
    <2>1. DOMAIN req = Reqs /\ Stamped(req, obj, ops, load.ops) /\ Shown(req, obj, ops, load.ops)
      BY DEF ConfigInv
    <2>2. \A j \in Objects : O2[j].kind # "none" =>
             obj[j].kind = O2[j].kind /\ obj[j].stamp = O2[j].stamp /\ (O2[j] = obj[j] \/ O2[j].kind \notin SavedTables)
      BY <1>10, <1>12 DEF SavedTables
    <2> QED BY <2>1, <2>2, OldStamps
  <1> QED BY <1>4, <1>9, <1>11, <1>13, <1>14, <1>15, <1>16, CommittedStep DEF SavedOver

\* The requests that delete a row.
RemoveKinds == DeleteKinds \cup {"plane_delete", "token_revoke", "policy_delete"}

LEMMA DeleteStep == ASSUME ConfigInv, NEW r \in Reqs, NEW kind \in RemoveKinds, Delete(r, kind) PROVE ConfigInv'
  <1>1. PICK i : i = req[r].row
    OBVIOUS
  <1>2. PICK gone : gone = {i} \cup Cascade(i)
    OBVIOUS
  <1>3. PICK O2 : O2 = [j \in Objects |-> IF j \in gone THEN Deleted ELSE obj[j]]
    OBVIOUS
  <1>4. /\ req[r].kind = kind /\ Free(r, Rows(gone, "update")) /\ Committed(r, obj[i], O2, Bumps(kind))
        /\ At(r, "commit") /\ kind \notin SavedOver
    BY <1>1, <1>2, <1>3 DEF Delete, Committed, RemoveKinds, DeleteKinds, SavedOver
  <1>5. /\ i \in Objects /\ i # 0 /\ obj[i].kind = TableOf(kind)
        /\ kind = "service_delete" => Unrouted(obj, i)
    BY <1>1, <1>4, RowKnown DEF RemoveKinds, DeleteKinds, RowKinds
  <1>6. obj[i].kind = "service" => kind = "service_delete"
    BY <1>5 DEF TableOf, RemoveKinds, DeleteKinds, PolicyKinds
  <1>7. /\ Deleted \in ObjectRow /\ Deleted.kind = "none" /\ Deleted.ws = "none" /\ Deleted.svc = 0
        /\ Deleted.on = 0 /\ Deleted.owner = 0
    BY DEF Deleted, Nothing, ObjectRow, RowNames
  <1>8. obj \in [Objects -> ObjectRow] /\ Attached(obj) /\ Apart(obj) /\ Housed(obj, name, binding, mapping)
    BY DEF ConfigInv, TablesTyped, RowsFit
  <1>9. /\ O2 \in [Objects -> ObjectRow]
        /\ \A j \in Objects : IF j \in gone THEN O2[j] = Deleted ELSE O2[j] = obj[j]
    BY <1>3, <1>7, <1>8
  <1>10. \A j \in Objects : O2[j].kind # "none" => j \notin gone /\ O2[j] = obj[j]
    BY <1>7, <1>9
  <1>11. ASSUME NEW j \in gone, j # i PROVE obj[j].kind \in {"plugin", "key", "token"}
    BY <1>2, <1>5, <1>8, <1>11 DEF Cascade, Attached
  <1>12. Attached(O2)
    <2>1. ASSUME NEW j \in Objects
          PROVE  /\ O2[j].kind = "none" => O2[j].ws = "none"
                 /\ O2[j].kind = "route" => O2[j].svc # 0
                 /\ O2[j].svc # 0 => O2[j].kind = "route" /\ O2[O2[j].svc].kind = "service"
                 /\ O2[j].on # 0 => O2[j].kind = "plugin" /\ O2[O2[j].on].kind \in {"service", "route"}
                 /\ O2[j].owner # 0 => /\ O2[j].kind \in {"plugin", "key", "token"}
                                       /\ O2[O2[j].owner].kind \in {"consumer", "plane"}
      <3>1. CASE j \in gone
        BY <1>7, <1>9, <3>1
      <3>2. CASE j \notin gone
        <4>1. O2[j] = obj[j] /\ obj[j] \in ObjectRow
          BY <1>8, <1>9, <3>2
        <4>2. obj[j].svc \in Objects \cup {0} /\ obj[j].on \in Objects \cup {0} /\ obj[j].owner \in Objects \cup {0}
          BY <4>1 DEF ObjectRow
        <4>3. j \notin Cascade(i)
          BY <1>2, <3>2
        <4>4. ASSUME obj[j].svc # 0 PROVE obj[j].svc \notin gone /\ obj[j].kind = "route" /\ obj[obj[j].svc].kind = "service"
          <5>1. obj[j].kind = "route" /\ obj[obj[j].svc].kind = "service"
            BY <1>8, <4>4 DEF Attached
          <5>2. obj[j].svc # i
            BY <1>5, <1>6, <5>1 DEF Unrouted
          <5> QED BY <1>11, <5>1, <5>2
        <4>5. ASSUME obj[j].on # 0
              PROVE  obj[j].on \notin gone /\ obj[j].kind = "plugin" /\ obj[obj[j].on].kind \in {"service", "route"}
          <5>1. obj[j].kind = "plugin" /\ obj[obj[j].on].kind \in {"service", "route"}
            BY <1>8, <4>5 DEF Attached
          <5>2. obj[j].on # i
            BY <4>3, <5>1 DEF Cascade, Live
          <5> QED BY <1>11, <5>1, <5>2
        <4>6. ASSUME obj[j].owner # 0
              PROVE  /\ obj[j].owner \notin gone /\ obj[j].kind \in {"plugin", "key", "token"}
                     /\ obj[obj[j].owner].kind \in {"consumer", "plane"}
          <5>1. obj[j].kind \in {"plugin", "key", "token"} /\ obj[obj[j].owner].kind \in {"consumer", "plane"}
            BY <1>8, <4>6 DEF Attached
          <5>2. obj[j].owner # i
            BY <4>3, <5>1 DEF Cascade, Live
          <5> QED BY <1>11, <5>1, <5>2
        <4> QED BY <1>8, <1>9, <4>1, <4>2, <4>4, <4>5, <4>6 DEF Attached
      <3> QED BY <3>1, <3>2
    <2> QED BY <2>1 DEF Attached
  <1>13. Apart(O2)
    BY <1>8, <1>10 DEF Apart
  <1>14. Housed(O2, name, binding, mapping)
    BY <1>7, <1>8, <1>9 DEF Housed
  <1>15. ASSUME NEW s \in Reqs \ {r} PROVE SparesRows(s, locks, obj, O2)
    <2>1. ASSUME NEW j \in Objects, NEW m \in Modes, Holds(locks, s, j, m) PROVE j \notin gone
      <3> SUFFICES ASSUME j \in gone PROVE FALSE
        OBVIOUS
      <3>1. <<<<"obj", j>>, "update">> \in Rows(gone, "update")
        BY DEF Rows
      <3> QED BY <1>4, <1>15, <2>1, <3>1, FreeForAll DEF Holds
    <2>2. \A j \in Objects : (Holds(locks, s, j, "update") \/ Holds(locks, s, j, "share")) => O2[j] = obj[j]
      BY <1>9, <2>1 DEF Modes
    <2> QED BY <1>10, <2>2 DEF SparesRows, Vacant, Unrouted, Unpoliced
  <1>16. Stamped([req EXCEPT ![r] = Idle], O2, ops, load.ops) /\ Shown([req EXCEPT ![r] = Idle], O2, ops,
            load.ops)
    BY <1>10, OldStamps DEF ConfigInv
  <1> QED BY <1>4, <1>9, <1>12, <1>13, <1>14, <1>15, <1>16, CommittedStep

\* The commits, by what they write.
LEMMA CommitForms ==
    ASSUME NEW r \in Reqs, Commits(r)
    PROVE  \/ CommitGrant(r) \/ try_create_workspace(r) \/ try_rename_workspace(r) \/ try_delete_workspace(r)
           \/ \E k \in CreateKinds \cup {"token"} : Create(r, k)
           \/ try_register_data_plane(r)
           \/ \E k \in {"service_replace", "route_replace"} : Replace(r, k)
           \/ \E k \in RemoveKinds : Delete(r, k)
           \/ try_set_group(r)
           \/ \E which \in PolicyNames : PutPolicy(r, which)
  <1>1. /\ try_create_service(r) \/ try_write_route(r) \/ try_create_consumer(r) \/ try_issue_key(r)
           \/ try_issue_data_plane_token(r) => \E k \in CreateKinds \cup {"token"} : Create(r, k)
        /\ try_replace_service(r) \/ ReplaceRoute(r) => \E k \in {"service_replace", "route_replace"} : Replace(r, k)
    BY DEF try_create_service, try_write_route, try_create_consumer, try_issue_key,
           try_issue_data_plane_token, CreateKinds, try_replace_service, ReplaceRoute
  <1>2. try_delete_service(r) \/ try_delete_route(r) \/ try_delete_consumer(r) \/ try_revoke_key(r)
        \/ try_delete_data_plane(r) \/ try_revoke_data_plane_token(r) \/ try_delete_key_auth(r) \/ try_delete_jwt(r)
        \/ try_delete_rate_limit(r) \/ try_delete_policy(r) => \E k \in RemoveKinds : Delete(r, k)
    BY DEF try_delete_service, try_delete_route, try_delete_consumer, try_revoke_key, try_delete_data_plane,
           try_revoke_data_plane_token, try_delete_key_auth, try_delete_jwt, try_delete_rate_limit,
                     try_delete_policy,
           DeletePolicy, RemoveKinds, DeleteKinds
  <1>3. try_put_key_auth(r) \/ try_put_jwt(r) \/ try_put_rate_limit(r) \/ try_put_policy(r)
           => \E which \in PolicyNames : PutPolicy(r, which)
    BY DEF try_put_key_auth, try_put_jwt, try_put_rate_limit, try_put_policy, PolicyNames
  <1> QED BY <1>1, <1>2, <1>3 DEF Commits

LEMMA CommitsStep == ASSUME ConfigInv, NEW r \in Reqs, Commits(r) PROVE ConfigInv'
  <1>1. CASE CommitGrant(r) \/ try_create_workspace(r) \/ try_rename_workspace(r) \/ try_delete_workspace(r)
    BY <1>1, GrantStep, CreateWorkspaceStep, RenameWorkspaceStep, DeleteWorkspaceStep
  <1>2. CASE (\E k \in CreateKinds \cup {"token"} : Create(r, k)) \/ try_register_data_plane(r)
    BY <1>2, CreateStep, RegisterStep
  <1>3. CASE \E k \in {"service_replace", "route_replace"} : Replace(r, k)
    BY <1>3, ReplaceStep
  <1>4. CASE \E k \in RemoveKinds : Delete(r, k)
    BY <1>4, DeleteStep
  <1>5. CASE try_set_group(r)
    BY <1>5, GroupStep
  <1>6. CASE \E which \in PolicyNames : PutPolicy(r, which)
    BY <1>6, PutPolicyStep
  <1> QED BY <1>1, <1>2, <1>3, <1>4, <1>5, <1>6, CommitForms

-----------------------------------------------------------------------------
(* The theorems *)

LEMMA InitHolds == Init => ConfigInv
  <1> SUFFICES ASSUME Init PROVE ConfigInv
    OBVIOUS
  <1>1. /\ load.acct \in [Users -> AccountRow] /\ load.name \in [WorkspaceIds -> Names \cup {"none"}]
        /\ load.binding \in [Users \X WorkspaceIds -> 0..3] /\ load.mapping \in [Groups \X WorkspaceIds -> 0..3]
        /\ load.obj \in [Objects -> ObjectRow] /\ load.ops \in Nat
        /\ Attached(load.obj) /\ Apart(load.obj) /\ Housed(load.obj, load.name, load.binding, load.mapping)
        /\ \A i, j \in Objects : load.obj[i].kind # "none" =>
              load.obj[i].stamp > load.ops
              /\ (load.obj[j].kind # "none" /\ load.obj[i].stamp = load.obj[j].stamp => i = j)
    BY ConfigurationAssumption DEF Init
  <1>2. TablesTyped /\ RowsFit /\ Exclusive
    <2>1. /\ acct = load.acct /\ name = load.name /\ binding = load.binding /\ mapping = load.mapping /\ obj = load.obj
          /\ load \in Loads /\ ops = 0 /\ hands = 0 /\ locks = {}
      BY DEF Init
    <2>2. RowsFit /\ Exclusive
      BY <1>1, <2>1 DEF RowsFit, Exclusive
    <2>3. 0 \in 0..load.ops /\ 0 \in Nat
      BY <1>1
    <2> QED BY <1>1, <2>1, <2>2, <2>3 DEF TablesTyped
  <1>3. DOMAIN req = Reqs /\ \A r \in Reqs : req[r] = Idle
    BY DEF Init
  <1>4. ASSUME NEW r \in Reqs
        PROVE  /\ ~Active(req[r]) /\ Sound(req[r]) /\ Entitled(r, req[r], locks, acct, name, binding, mapping)
               /\ Informed(r, req[r], locks, obj) /\ KnowsAdmins(req[r], acct, binding, mapping,
                         hands)
    <2>1. hands \in Nat
      BY DEF Init
    <2> QED BY <1>3, <2>1, IdleKnows
  <1>5. obj = load.obj
    BY DEF Init
  <1>6. Stamped(req, obj, ops, load.ops)
    BY <1>1, <1>4, <1>5 DEF Stamped, Given, SavedTables
  <1>7. Shown(req, obj, ops, load.ops)
    BY <1>4 DEF Shown
  <1>8. RightsHeld /\ NoLostUpdate
    BY DEF Init, RightsHeld, NoLostUpdate, SavedOver
  <1> QED BY <1>2, <1>3, <1>4, <1>6, <1>7, <1>8 DEF ConfigInv

LEMMA NextKeeps == ConfigInv /\ [Next]_vars => ConfigInv'
  <1> SUFFICES ASSUME ConfigInv, [Next]_vars PROVE ConfigInv'
    OBVIOUS
  <1>1. ASSUME NEW r \in Reqs, Handle(r) PROVE ConfigInv'
    BY <1>1, HandleStep
  <1>2. ASSUME NEW r \in Reqs, Stage(r) PROVE ConfigInv'
    BY <1>2, CommitsStep, LocksStep DEF Stage
  <1>3. ASSUME NEW r \in Reqs, Retry(r) PROVE ConfigInv'
    BY <1>3, RetryStep
  <1>4. ASSUME NEW r \in Reqs, GiveUp(r) PROVE ConfigInv'
    BY <1>4, RefuseStep DEF GiveUp, Active
  <1>5. CASE ChangeAccount
    BY <1>5, AccountStep
  <1>7. CASE SignIn
    BY <1>7, SignInStep
  <1>6. CASE UNCHANGED vars
    <2>1. UNCHANGED <<locks, acct, name, binding, mapping, obj, req, load, ops, audit, hands>>
      BY <1>6 DEF vars
    <2>2. TablesTyped' /\ Exclusive' /\ RowsFit' /\ RightsHeld' /\ NoLostUpdate'
      BY <2>1 DEF ConfigInv, TablesTyped, Exclusive, RowsFit, RightsHeld, NoLostUpdate
    <2> QED BY <2>1, <2>2 DEF ConfigInv
  <1> QED BY <1>1, <1>2, <1>3, <1>4, <1>5, <1>6, <1>7 DEF Next

\* What every request knows at its stage, and what the tables are like meanwhile, is never lost,
\* whatever the requests and the accounts do.
THEOREM AlwaysConfigInv == Spec => []ConfigInv
  BY InitHolds, NextKeeps, PTL DEF Spec

\* A write is committed with a right that is held at its commit: the caller's row, the workspace's
\* and the row of the role are locked from the check on (rights in store/configuration.rs and
\* store/grants.rs), and what takes a role away waits for them.
THEOREM RightAtEveryCommit == Spec => []RightsHeld
  <1>1. ConfigInv => RightsHeld
    BY DEF ConfigInv
  <1> QED BY <1>1, AlwaysConfigInv, PTL

\* No host is claimed by routes of two workspaces: who claims one holds HOSTS_LOCK from the look at
\* the others' hosts to the commit (may_route).
THEOREM HostsApart == Spec => []OneWorkspacePerHost
  <1>1. ConfigInv => OneWorkspacePerHost
    BY DEF ConfigInv, RowsFit, OneWorkspacePerHost
  <1> QED BY <1>1, AlwaysConfigInv, PTL

\* A save is committed over exactly the row its author was shown: the stamps are compared under the
\* row's lock, and no two rows and no two writes of one row have the same one.
THEOREM SavedOverWhatWasShown == Spec => []NoLostUpdate
  <1>1. ConfigInv => NoLostUpdate
    BY DEF ConfigInv
  <1> QED BY <1>1, AlwaysConfigInv, PTL

\* Only a commit writes the tables.
LEMMA OnlyCommits ==
    ASSUME NEW r \in Reqs, Handle(r) \/ Stage(r) \/ Retry(r) \/ GiveUp(r)
    PROVE  UNCHANGED <<acct, binding, mapping, obj>> \/ Commits(r)
  <1>1. (\E f : Arrive(r, f)) => UNCHANGED <<acct, binding, mapping, obj>>
    BY DEF Arrive, tables
  <1>2. Handle(r) => UNCHANGED <<acct, binding, mapping, obj>>
    <2>1. HandleGrants(r) => \E f : Arrive(r, f)
      BY DEF HandleGrants, set_roles, put_mapping, create_workspace, rename_workspace, delete_workspace
    <2>2. (\E kind, by, over, f : Ask(r, kind, by, over, f)) => \E f : Arrive(r, f)
      BY DEF Ask
    <2>3. (\E kind, prefixes : DeleteNamed(r, kind, prefixes)) => \E kind, by, over, f : Ask(r, kind, by, over,
              f)
      BY DEF DeleteNamed
    <2>4. (\E kind, prefixes, val : AskPlane(r, kind, prefixes, val)) => \E f : Arrive(r, f)
      BY DEF AskPlane
    <2>5. HandleObjects(r) => \E f : Arrive(r, f)
      <3>1. create_service(r) \/ replace_service(r) \/ create_route(r) \/ create_consumer(r)
            \/ set_group(r) \/ issue_key(r) => \E kind, by, over, f : Ask(r, kind, by, over, f)
        BY DEF create_service, replace_service, create_route, create_consumer, set_group, issue_key
      <3>2. replace_route(r) => \E kind, by, over, f : Ask(r, kind, by, over, f)
        BY DEF replace_route
      <3>3. delete_service(r) \/ delete_route(r) \/ delete_consumer(r) \/ revoke_key(r)
               => \E kind, prefixes : DeleteNamed(r, kind, prefixes)
        BY DEF delete_service, delete_route, delete_consumer, revoke_key
      <3>4. register_data_plane(r) \/ delete_data_plane(r) \/ issue_data_plane_token(r) \/ revoke_data_plane_token(r)
               => \E kind, prefixes, val : AskPlane(r, kind, prefixes, val)
        BY DEF register_data_plane, delete_data_plane, issue_data_plane_token, revoke_data_plane_token
      <3> QED BY <2>2, <2>3, <2>4, <3>1, <3>2, <3>3, <3>4 DEF HandleObjects
    <2>6. (\E kind, which, owners, vals : AskPolicy(r, kind, which, owners, vals))
             => \E kind, by, over, f : Ask(r, kind, by, over, f)
      BY DEF AskPolicy
    <2>7. HandlePolicies(r) => \E kind, which, owners, vals : AskPolicy(r, kind, which, owners, vals)
      BY DEF HandlePolicies, put_key_auth, put_jwt, put_rate_limit, put_policy, delete_key_auth, delete_jwt,
             delete_rate_limit, delete_policy
    <2> QED BY <1>1, <2>1, <2>2, <2>5, <2>6, <2>7 DEF Handle
  <1>3. Refuse(r) \/ (\E stage, pairs, may, f : Locking(r, stage, pairs, may, f)) => UNCHANGED <<acct, binding,
            mapping, obj>>
    BY DEF Locking, Refuse, tables
  <1>4. Locks(r) => \E stage, pairs, may, f : Locking(r, stage, pairs, may, f)
    <2>1. Caller(r) \/ Scope(r) \/ Bindings(r) \/ Target(r) \/ Held(r) \/ HeldMapping(r) \/ keeps_an_admin(r)
          \/ DeletesLock(r) \/ may_route(r) => \E stage, pairs, may, f : Locking(r, stage, pairs, may, f)
      BY DEF Caller, Scope, Bindings, Target, Held, HeldMapping, keeps_an_admin, DeletesLock, may_route
    <2>2. WorkspaceRow(r) \/ Row(r) \/ Service(r) \/ target_row(r) \/ consumer_row(r) \/ plugin_row(r)
             => \E stage, pairs, may, f : Locking(r, stage, pairs, may, f)
      BY DEF WorkspaceRow, WorkspaceStage, Row, Service, target_row, consumer_row, plugin_row
    <2> QED BY <2>1, <2>2 DEF Locks
  <1>5. Retry(r) => UNCHANGED <<acct, binding, mapping, obj>>
    BY DEF Retry, tables
  <1> QED BY <1>2, <1>3, <1>4, <1>5 DEF Stage, GiveUp

\* Of them only two change a grant, and none an account.
LEMMA GrantsUntouched ==
    ASSUME NEW r \in Reqs, Commits(r)
    PROVE  UNCHANGED <<acct, binding, mapping>> \/ CommitGrant(r) \/ try_delete_workspace(r)
  <1>1. Refuse(r) => UNCHANGED <<acct, binding, mapping>>
    BY DEF Refuse, tables
  <1>2. (\E before, table, bumps : Committed(r, before, table, bumps)) => UNCHANGED <<acct, binding, mapping>>
    BY DEF Committed
  <1>3. try_create_workspace(r) \/ try_rename_workspace(r) => UNCHANGED <<acct, binding, mapping>>
    BY <1>1 DEF try_create_workspace, try_rename_workspace
  <1>4. ASSUME NEW k, Create(r, k) PROVE UNCHANGED <<acct, binding, mapping>>
    BY <1>1, <1>2, <1>4 DEF Create
  <1>5. ASSUME NEW k, Replace(r, k) PROVE UNCHANGED <<acct, binding, mapping>>
    BY <1>1, <1>2, <1>5 DEF Replace
  <1>6. ASSUME NEW k, Delete(r, k) PROVE UNCHANGED <<acct, binding, mapping>>
    BY <1>2, <1>6 DEF Delete
  <1>7. ASSUME NEW which, PutPolicy(r, which) PROVE UNCHANGED <<acct, binding, mapping>>
    BY <1>1, <1>2, <1>7 DEF PutPolicy
  <1>8. try_set_group(r) => UNCHANGED <<acct, binding, mapping>>
    BY <1>2 DEF try_set_group
  <1>9. try_register_data_plane(r) => UNCHANGED <<acct, binding, mapping>>
    BY <1>1, <1>2 DEF try_register_data_plane
  <1> QED BY <1>3, <1>4, <1>5, <1>6, <1>7, <1>8, <1>9, CommitForms

\* Admins who take roles from each other leave the workspace one of its own: who grants and is no
\* superuser counts the admins as the grant will leave them, and no one else writes a grant there
\* before it is committed (keeps_an_admin in store/grants.rs).  A superuser's write and a sign-in
\* with other groups, and a grant that had counted before one of them, are left out.
THEOREM AnAdminIsLeft == Spec => AdminRemains
  <1>1. ASSUME ConfigInv, [Next]_vars, NEW w \in WorkspaceIds, AdminLeft(binding, mapping, w), hands' = hands,
               \A r \in Reqs : Overtaken(r) => req'[r] = req[r]
        PROVE  AdminLeft(binding, mapping, w)'
    <2>0. hands \in Nat /\ hands + 1 # hands
      BY <1>1 DEF ConfigInv, TablesTyped
    <2>1. CASE UNCHANGED <<acct, binding, mapping>>
      BY <1>1, <2>1 DEF AdminLeft
    <2>2. ASSUME NEW r \in Reqs, CommitGrant(r) PROVE AdminLeft(binding, mapping, w)'
      <3>1. /\ At(r, "commit") /\ req[r].kind \in GrantKinds /\ binding' = NewBinding(r) /\ mapping' = NewMapping(r)
            /\ Audited(r, Nothing) /\ acct' = acct /\ TablesTyped /\ Answer(r)
        BY <1>1, <2>2 DEF CommitGrant, ConfigInv
      <3>2. ~acct[req[r].by].super
        BY <1>1, <2>0, <3>1, AuditStep DEF GrantKinds, SavedOver
      <3>3. req[r].counted = hands
        <4>1. req'[r] = Idle /\ Active(req[r])
          BY <1>1, <3>1 DEF Answer, ConfigInv, At, Active
        <4>2. req'[r] # req[r]
          BY <4>1, IdleRests
        <4> QED BY <1>1, <4>2 DEF Overtaken
      <3>4. LeavesAdmin(req[r], acct, binding, mapping, w)
        <4>1. CASE w \in req[r].over
          BY <1>1, <3>1, <3>2, <3>3, <4>1 DEF ConfigInv, KnowsAdmins, Reached, At, Active
        <4>2. CASE w \notin req[r].over
          BY <1>1, <4>2 DEF AdminLeft, LeavesAdmin, After
        <4> QED BY <4>1, <4>2
      <3>5. AdminLeft(NewBinding(r), NewMapping(r), w)
        BY <3>1, <3>4, GrantAfter
      <3> QED BY <3>1, <3>5 DEF AdminLeft
    <2>3. ASSUME NEW r \in Reqs, try_delete_workspace(r) PROVE FALSE
      <3>1. At(r, "commit") /\ req[r].kind = "ws_delete" /\ Audited(r, Nothing)
        BY <2>3 DEF try_delete_workspace
      <3> QED BY <1>1, <2>0, <3>1, AuditStep DEF SuperKinds, WorkspaceKinds, SavedOver
    <2>4. ~ChangeAccount /\ ~SignIn
      BY <1>1, <2>0 DEF ChangeAccount, SignIn
    <2>5. (UNCHANGED vars) => UNCHANGED <<acct, binding, mapping>>
      BY DEF vars
    <2> QED BY <1>1, <2>1, <2>2, <2>3, <2>4, <2>5, OnlyCommits, GrantsUntouched DEF Next
  <1>2. ConfigInv /\ [Next]_vars =>
           [\A w \in WorkspaceIds :
              (/\ AdminLeft(binding, mapping, w) /\ hands' = hands
               /\ \A r \in Reqs : Overtaken(r) => req'[r] = req[r])
              => AdminLeft(binding, mapping, w)']_vars
    BY <1>1
  <1> QED BY <1>2, AlwaysConfigInv, PTL DEF Spec, AdminRemains

\* Every row that is there stays.
RowsStand == \A i \in Objects : Live(i) => obj'[i].kind # "none"

\* Whatever is written, a row stays unless it is deleted.
LEMMA WritesStand ==
    ASSUME ConfigInv, NEW r \in Reqs, Commits(r)
    PROVE  RowsStand \/ \E k \in RemoveKinds : Delete(r, k)
  <1>0. obj \in [Objects -> ObjectRow]
    BY DEF ConfigInv, TablesTyped
  <1>1. obj' = obj => RowsStand
    BY DEF RowsStand, Live
  <1>2. ASSUME NEW i \in Objects, NEW row, row.kind # "none", NEW before, NEW bumps,
               Committed(r, before, [obj EXCEPT ![i] = row], bumps)
        PROVE  RowsStand
    BY <1>0, <1>2 DEF Committed, RowsStand, Live
  <1>3. Refuse(r) => RowsStand
    BY <1>1 DEF Refuse, tables
  <1>4. CommitGrant(r) \/ try_create_workspace(r) \/ try_rename_workspace(r) => RowsStand
    BY <1>1, <1>3 DEF CommitGrant, try_create_workspace, try_rename_workspace
  <1>5. try_delete_workspace(r) => RowsStand
    BY <1>1, EmptyDeleted
  <1>6. ASSUME Active(req[r]), req[r].kind \in WriteKinds
        PROVE  NewRow(r).kind # "none" /\ \A v \in Nat : [NewRow(r) EXCEPT !.val = v].kind # "none"
    BY <1>6, NewRowFits, TableIs DEF Fits
  <1>7. ASSUME NEW k \in CreateKinds \cup {"token"}, Create(r, k) PROVE RowsStand
    <2>1. CASE Refuse(r)
      BY <1>3, <2>1
    <2>2. CASE ~Refuse(r)
      <3>1. Active(req[r]) /\ req[r].kind \in WriteKinds
        BY <1>7 DEF Create, At, Active, WriteKinds
      <3>2. PICK i \in Unused : Committed(r, Nothing, [obj EXCEPT ![i] = NewRow(r)], Bumps(k))
        BY <1>7, <2>2 DEF Create
      <3> QED BY <1>2, <1>6, <3>1, <3>2 DEF Unused
    <2> QED BY <2>1, <2>2
  <1>8. ASSUME try_register_data_plane(r) PROVE RowsStand
    <2>1. CASE Refuse(r)
      BY <1>3, <2>1
    <2>2. CASE ~Refuse(r)
      <3>1. PICK i \in Unused, j \in Unused :
               \E row, tok : Committed(r, Nothing, [obj EXCEPT ![i] = row, ![j] = tok], 0)
        BY <1>8, <2>2 DEF try_register_data_plane
      <3>2. PICK row, tok : obj' = [obj EXCEPT ![i] = row, ![j] = tok]
        BY <3>1 DEF Committed
      <3>3. i \in Objects /\ j \in Objects /\ ~Live(i) /\ ~Live(j)
        BY DEF Unused, Nothing, Live
      <3> QED BY <1>0, <3>2, <3>3 DEF RowsStand, Live
    <2> QED BY <2>1, <2>2
  <1>9. ASSUME NEW k \in {"service_replace", "route_replace"}, Replace(r, k) PROVE RowsStand
    <2>1. CASE Refuse(r)
      BY <1>3, <2>1
    <2>2. CASE ~Refuse(r)
      <3>1. /\ At(r, "commit") /\ Active(req[r]) /\ req[r].kind = k /\ req[r].kind \in WriteKinds
            /\ req[r].kind \in RowKinds
        BY <1>9 DEF Replace, At, Active, WriteKinds, RowKinds
      <3>2. PICK v : v = IF NewRow(r).val = 0 THEN obj[req[r].row].val ELSE NewRow(r).val
        OBVIOUS
      <3>3. Committed(r, obj[req[r].row], [obj EXCEPT ![req[r].row] = [NewRow(r) EXCEPT !.val = v]], 1)
        BY <1>9, <2>2, <3>2 DEF Replace
      <3>4. req[r].row \in Objects
        BY <3>1, RowKnown
      <3>5. v \in Nat
        <4>1. Fits(req[r], NewRow(r))
          BY <3>1, NewRowFits
        <4>2. NewRow(r) \in ObjectRow /\ obj[req[r].row] \in ObjectRow
          BY <1>0, <3>4, <4>1 DEF Fits
        <4> QED BY <3>2, <4>2 DEF ObjectRow
      <3>6. PICK row : row = [NewRow(r) EXCEPT !.val = v]
        OBVIOUS
      <3>7. row.kind # "none"
        BY <1>6, <3>1, <3>5, <3>6
      <3> QED BY <1>2, <3>3, <3>4, <3>6, <3>7
    <2> QED BY <2>1, <2>2
  <1>10. ASSUME try_set_group(r) PROVE RowsStand
    <2>1. At(r, "commit") /\ req[r].kind \in RowKinds
      BY <1>10 DEF try_set_group, Committed, RowKinds
    <2>2. req[r].row \in Objects
      BY <2>1, RowKnown
    <2>3. PICK i : i = req[r].row
      OBVIOUS
    <2>4. obj' = [obj EXCEPT ![i].groups = req[r].new.groups]
      BY <1>10, <2>3 DEF try_set_group, Committed
    <2>5. \A j \in Objects : obj'[j].kind = obj[j].kind
      BY <1>0, <2>2, <2>3, <2>4 DEF ObjectRow
    <2> QED BY <2>5 DEF RowsStand, Live
  <1>11. ASSUME NEW which, PutPolicy(r, which) PROVE RowsStand
    <2>1. CASE Refuse(r)
      BY <1>3, <2>1
    <2>2. CASE ~Refuse(r)
      <3>1. Active(req[r]) /\ req[r].kind \in WriteKinds /\ req[r].row \in Objects \cup {0}
        BY <1>11 DEF PutPolicy, At, Active, WriteKinds, ConfigInv, Sound, Request
      <3>2. PICK row : row = NewRow(r)
        OBVIOUS
      <3>3. row.kind # "none"
        BY <1>6, <3>1, <3>2
      <3>4. PICK i \in Objects : \E before : Committed(r, before, [obj EXCEPT ![i] = row], 1)
        BY <1>11, <2>2, <3>1, <3>2 DEF PutPolicy, Unused
      <3> QED BY <1>2, <3>3, <3>4
    <2> QED BY <2>1, <2>2
  <1> QED BY <1>4, <1>5, <1>7, <1>8, <1>9, <1>10, <1>11, CommitForms

\* A row goes by a delete of its own kind or with the row it belongs to: a policy is put on a service
\* or route FOR SHARE, so none is there that the delete, FOR UPDATE, did not see, and whatever is
\* written into a workspace holds its row against its delete.
THEOREM NoneGoesUnseen == Spec => NothingLostUnseen
  <1>1. ASSUME ConfigInv, [Next]_vars, NEW i \in Objects, Live(i), obj'[i].kind = "none"
        PROVE  audit'.kind \in Deletes(obj[i].kind) \/ (obj[i].owner # 0 /\ obj'[obj[i].owner].kind = "none")
    <2>1. ~RowsStand /\ obj' # obj
      BY <1>1 DEF RowsStand, Live
    <2>2. ~ChangeAccount /\ ~SignIn /\ ~(UNCHANGED vars)
      BY <2>1 DEF ChangeAccount, SignIn, vars
    <2>3. PICK r \in Reqs, kind \in RemoveKinds : Commits(r) /\ Delete(r, kind)
      BY <1>1, <2>1, <2>2, OnlyCommits, WritesStand DEF Next
    <2>4. PICK s : s = req[r].row
      OBVIOUS
    <2>5. /\ At(r, "commit") /\ req[r].kind = kind /\ Committed(r, obj[s], obj', Bumps(kind))
          /\ obj' = [j \in Objects |-> IF j \in {s} \cup Cascade(s) THEN Deleted ELSE obj[j]]
      BY <2>3, <2>4 DEF Delete, Committed
    <2>6. /\ s \in Objects /\ s # 0 /\ obj[s].kind = TableOf(kind)
          /\ kind \in {"service_delete", "route_delete"} => Unpoliced(obj, s)
      BY <1>1, <2>4, <2>5, RowKnown DEF RemoveKinds, DeleteKinds, RowKinds
    <2>7. audit'.kind = kind /\ kind \in Deletes(TableOf(kind))
      BY <2>5 DEF Committed, Audited, Deletes, RemoveKinds, DeleteKinds, PlaneKinds
    <2>8. i \in {s} \cup Cascade(s)
      BY <1>1, <2>5 DEF Live
    <2>9. CASE i = s
      BY <2>6, <2>7, <2>9
    <2>10. CASE obj[i].on = s
      <3>1. obj[i].kind = "plugin" /\ obj[s].kind \in {"service", "route"}
        BY <1>1, <2>6, <2>10 DEF ConfigInv, RowsFit, Attached
      <3>2. kind \in {"service_delete", "route_delete"}
        BY <2>6, <3>1 DEF TableOf, RemoveKinds, DeleteKinds, PolicyKinds
      <3> QED BY <2>6, <2>10, <3>1, <3>2 DEF Unpoliced
    <2>11. CASE obj[i].owner = s
      <3>1. obj'[s] = Deleted /\ Deleted.kind = "none"
        BY <2>5, <2>6 DEF Deleted, Nothing
      <3> QED BY <2>6, <2>11, <3>1
    <2> QED BY <2>8, <2>9, <2>10, <2>11 DEF Cascade
  <1>2. ConfigInv /\ [Next]_vars =>
           [\A i \in Objects : Live(i) /\ obj'[i].kind = "none" =>
              \/ audit'.kind \in Deletes(obj[i].kind)
              \/ obj[i].owner # 0 /\ obj'[obj[i].owner].kind = "none"]_vars
    BY <1>1
  <1> QED BY <1>2, AlwaysConfigInv, PTL DEF Spec, NothingLostUnseen
=============================================================================
