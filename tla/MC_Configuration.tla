-------------------------- MODULE MC_Configuration --------------------------
(* Small workspaces and loads for Configuration. *)
EXTENDS Configuration, TLC

ReqsSymmetry == Permutations(Reqs)

MCObjects == 1..4

MCOverlapping == {<<"*.x", "a.x">>}

Plain == [super |-> FALSE, disabled |-> FALSE, gone |-> FALSE, groups |-> {}]

\* s is a superuser; a and b hold the roles given, and b is in a group.
Accounts == [u \in Users |-> [Plain EXCEPT !.super = u = "s", !.groups = IF u = "b" THEN {"g"} ELSE {}]]

Roles(w1a, w1b, w2a, w2b) ==
    [p \in Users \X WorkspaceIds |->
        CASE p = <<"a", "w1">> -> w1a [] p = <<"b", "w1">> -> w1b
          [] p = <<"a", "w2">> -> w2a [] p = <<"b", "w2">> -> w2b [] OTHER -> 0]

NoMappings == [p \in Groups \X WorkspaceIds |-> 0]

Row0(kind, n) == [Nothing EXCEPT !.kind = kind, !.ws = "w1", !.name = n, !.val = 1]

Holding(rows) == [i \in Objects |-> IF i <= Len(rows) THEN [rows[i] EXCEPT !.stamp = 50 + i] ELSE Nothing]

Svc == Row0("service", "x")
Rt == [Row0("route", "x") EXCEPT !.svc = 1, !.hosts = {"a.x"}]
Con == Row0("consumer", "x")

Pol(n) == Row0("plugin", n)

Policies == {"key_auth", "jwt", "rate_limit", "other"}

Both == [w \in WorkspaceIds |-> IF w = "w1" THEN "x" ELSE "y"]

Base == [acct |-> Accounts, name |-> Both, binding |-> Roles(3, 3, 0, 0), mapping |-> NoMappings,
         obj |-> Holding(<<>>), kinds |-> {}, ops |-> 2, callers |-> {"a", "b"}, scopes |-> {{"w1"}},
         claims |-> {{"a.x"}}, policies |-> {"rate_limit"}]

MCLoads ==
    { \* two admins against each other, one of them by a mapping
      [Base EXCEPT !.kinds = {"roles", "mapping"}, !.binding = Roles(3, 0, 3, 3),
                   !.mapping = [NoMappings EXCEPT !["g", "w1"] = 3], !.scopes = {{"w1"}, {"w1", "w2"}}],
      \* an admin by a group signs in without it, or another with it, between their grants
      [Base EXCEPT !.kinds = {"roles", "mapping", "sign_in"}, !.binding = Roles(3, 0, 0, 0), !.ops = 3,
                   !.mapping = [NoMappings EXCEPT !["g", "w1"] = 3]],
      \* an account disabled, demoted or deleted under its own request
      [Base EXCEPT !.kinds = {"roles", "account"}, !.callers = {"s", "a"}],
      \* workspaces made, renamed and deleted, and written into
      [Base EXCEPT !.kinds = WorkspaceKinds \cup {"service_create"}, !.callers = {"s"}],
      [Base EXCEPT !.kinds = {"ws_delete", "roles", "mapping"}, !.callers = {"s"}],
      \* what a service has on it
      [Base EXCEPT !.obj = Holding(<<Svc>>), !.callers = {"a"},
                   !.kinds = {"service_replace", "service_delete", "route_create", "policy_put"}],
      \* hosts of two workspaces
      [Base EXCEPT !.obj = Holding(<<Svc, [Svc EXCEPT !.ws = "w2"]>>), !.kinds = {"route_create"},
                   !.binding = Roles(2, 0, 0, 2), !.scopes = {{"w1"}, {"w2"}},
                   !.claims = {{}, {"*.x"}, {"a.x"}}],
      \* a route saved and deleted, with policies
      [Base EXCEPT !.obj = Holding(<<Svc, Rt>>), !.claims = {{"a.x"}, {"b.y"}}, !.callers = {"a"},
                   !.kinds = {"route_replace", "route_delete", "policy_put", "policy_delete"}],
      \* a consumer with its groups, keys and policies
      [Base EXCEPT !.obj = Holding(<<Con>>), !.callers = {"a"},
                   !.kinds = {"consumer_create", "consumer_delete", "group", "key_issue", "key_revoke",
                              "policy_put"}],
      \* each kind of policy
      [Base EXCEPT !.kinds = PolicyKinds, !.ops = 1, !.policies = Policies, !.callers = {"a"}],
      [Base EXCEPT !.kinds = PolicyKinds, !.ops = 1, !.policies = Policies, !.callers = {"a"},
                   !.obj = Holding(<<Pol("key_auth"), Pol("jwt"), Pol("rate_limit"), Pol("other")>>)],
      \* data planes
      [Base EXCEPT !.kinds = PlaneKinds, !.ops = 3, !.callers = {"s"}] }

\* A route's save against a service renamed and made again under the old name.
MCServiceMoved ==
    { [Base EXCEPT !.obj = Holding(<<Svc, Rt>>), !.ops = 3, !.callers = {"a"},
                   !.kinds = {"route_replace", "service_replace", "service_create"},
                   !.claims = {{"b.y"}}] }
=============================================================================
