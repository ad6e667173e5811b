--------------------------- MODULE StoreCompiler ---------------------------
(***************************************************************************)
(* What the console's rows become for a data plane: store::compile of      *)
(* gapura-core, with the types of config.rs, and the matching and policy   *)
(* rules over the result (matcher.rs, hostname.rs, path.rs,                *)
(* credentials.rs, client_ip.rs, jwt.rs).  Pure definitions.               *)
(*                                                                         *)
(* A snapshot has services, routes, plugins, limits, credentials and       *)
(* consumers.  Workspaces and names are numbers, in their alphabetical     *)
(* order; workspace 0 is none, name 0 is no name.  A host is its labels,   *)
(* top level first; a path is its segments, and a segment is               *)
(* [name, enc, params]: whether it was written with escapes of plain       *)
(* characters, and whether it carries ;params.                             *)
(***************************************************************************)
EXTENDS Integers, SequencesExt

None == [none |-> TRUE]

-----------------------------------------------------------------------------
(* Rows, and the policies they hold.  A policy that acts within a workspace is told which when it  *)
(* is compiled (Stamped).                                                                          *)

StoreService(ws, name, host) == [ws |-> ws, name |-> name, host |-> host, tls |-> FALSE, insecure |-> FALSE]

StoreRoute(ws, name, service, paths, priority, strip, hosts) ==
    [ws |-> ws, name |-> name, service |-> service, paths |-> paths, priority |-> priority,
     strip |-> strip, hosts |-> hosts, methods |-> {}, headers |-> {}]

\* On a route, on a service, or with neither on the whole workspace.
StorePlugin(ws, service, route, plugin) ==
    [ws |-> ws, service |-> service, route |-> route, plugin |-> plugin]

StoreRateLimit(ws, service, consumer, limit) ==
    [ws |-> ws, service |-> service, route |-> 0, consumer |-> consumer, limit |-> limit]

StoreCredential(hash, ws, consumer) == [hash |-> hash, ws |-> ws, consumer |-> consumer]

StoreConsumer(ws, username, groups) == [ws |-> ws, username |-> username, groups |-> groups]

StoreSnapshot ==
    [services |-> <<>>, routes |-> <<>>, plugins |-> <<>>, limits |-> <<>>, credentials |-> <<>>,
     consumers |-> <<>>]

RateLimit(by, max) == [by |-> by, max |-> max]

KeyAuthPolicy(header) == [kind |-> "key", ws |-> 0, header |-> header]

\* claim: the token's claim names a consumer; fetched: the keys come from a source that is asked again.
JwtPolicy(keys, claim, fetched) ==
    [kind |-> "jwt", ws |-> 0, keys |-> keys, claim |-> claim, fetched |-> fetched]

AuthPolicy(anonymous) == [kind |-> "auth", ws |-> 0, anonymous |-> anonymous]

AclPolicy(allow, deny) == [kind |-> "acl", allow |-> allow, deny |-> deny]

IpRestrictionPolicy(allow, deny) == [kind |-> "ip", allow |-> allow, deny |-> deny]

RequestSizeLimitPolicy(max) == [kind |-> "size", max |-> max]

HeaderEdits == [remove |-> {}, rename |-> <<>>, replace |-> <<>>, add |-> <<>>, append |-> <<>>]

RequestTransformerPolicy(edits, query) == [kind |-> "reqtrans", edits |-> edits, query |-> query]

ResponseTransformerPolicy(edits) == [kind |-> "resptrans", edits |-> edits]

\* writable: its lists are values that HTTP allows.
CorsPolicy(origins, continue) ==
    [kind |-> "cors", origins |-> origins, continue |-> continue, writable |-> TRUE]

HeaderOps == [set |-> <<>>, add |-> <<>>, remove |-> {}]

\* The rows ask for no header filters: the Gateway API's rules have them.
Filters(redirect, mirror, strip) ==
    [redirect |-> redirect, mirror |-> mirror, strip |-> strip,
     request_headers |-> HeaderOps, response_headers |-> HeaderOps]

WeightedBackend(cluster, weight) == [cluster |-> cluster, weight |-> weight]

RouteRule(route, paths, plugins, limit, filters, backends) ==
    [route |-> route, paths |-> paths, plugins |-> plugins, limit |-> limit, filters |-> filters,
     backends |-> backends]

-----------------------------------------------------------------------------
(* Paths, hosts and client addresses *)

Plain(seg) == [name |-> seg.name, enc |-> FALSE, params |-> seg.params]

NoParams(seg) == [seg EXCEPT !.params = FALSE]

Merged(path) == SelectSeq(path, LAMBDA seg : seg.name # "" \/ seg.params)

\* normalize_path: escapes of plain characters decoded, slashes merged; a target that is not
\* absolute, or has a dot segment, with parameters too, is refused.
refused_target(raw) == ~raw.absolute \/ \E i \in DOMAIN raw.path : raw.path[i].name \in {".", ".."}

normalize_path(raw) == Merged([i \in DOMAIN raw.path |-> Plain(raw.path[i])])

\* without_path_params: what a servlet container resolves the path to.
without_path_params(path) == Merged([i \in DOMAIN path |-> NoParams(path[i])])

\* hostname::matches: a wildcard stands for one or more labels.
HostMatches(pattern, host) ==
    IF pattern.wild THEN IsStrictPrefix(pattern.labels, host) ELSE pattern.labels = host

\* client_ip: the peer, or what the networks trusted behind it vouch for, from the right; hops
\* that are no address are skipped.
client_ip(peer, chain, trusted, named) ==
    LET hops == SelectSeq(chain, LAMBDA h : h # "bad")
        doubtful == {i \in DOMAIN hops : hops[i] \notin trusted}
    IN  CASE peer \notin trusted -> peer
          [] peer \in trusted /\ doubtful # {} ->
                hops[CHOOSE i \in doubtful : \A j \in doubtful : j <= i]
          [] peer \in trusted /\ doubtful = {} /\ hops # <<>> -> hops[1]
          [] OTHER -> IF named # "bad" THEN named ELSE peer

-----------------------------------------------------------------------------
(* compile *)

Found(rows, P(_)) == {i \in DOMAIN rows : P(rows[i])}

First(is) == CHOOSE i \in is : \A j \in is : i <= j

ServiceOf(snap, route) ==
    Found(snap.services, LAMBDA s : s.ws = route.ws /\ s.name = route.service)

\* GATEWAY_HEADERS: what the gateway tells an upstream about the caller.
GatewayHeaders == {"x-consumer-username", "x-consumer-groups", "x-anonymous-consumer"}

\* refusal: what may not be served however it came to be stored.
matches_gateway_header(route) == \E h \in route.headers : h[1] \in GatewayHeaders
names_path_parameters(route) ==
    \E i \in DOMAIN route.paths : /\ route.paths[i].kind # "regex"
                                  /\ \E j \in DOMAIN route.paths[i].segs : route.paths[i].segs[j].params
strips_a_regex(route) == route.strip /\ \E i \in DOMAIN route.paths : route.paths[i].kind = "regex"

refusal(route) == matches_gateway_header(route) \/ names_path_parameters(route) \/ strips_a_regex(route)

\* The order rules are tried in: priority, then workspace, then name.
Before(a, b) ==
    \/ a.priority > b.priority
    \/ a.priority = b.priority /\ a.ws < b.ws
    \/ a.priority = b.priority /\ a.ws = b.ws /\ a.name < b.name

has_consumer(snap, ws, name) ==
    \E i \in DOMAIN snap.consumers : snap.consumers[i].ws = ws /\ snap.consumers[i].username = name

\* rank: 2 on the route, 1 on its service, 0 on the workspace, -1 not at all.
rank(row, route) ==
    CASE row.ws # route.ws -> -1
      [] row.ws = route.ws /\ row.route # 0 -> IF row.route = route.name THEN 2 ELSE -1
      [] row.ws = route.ws /\ row.route = 0 /\ row.service # 0 ->
            IF row.service = route.service THEN 1 ELSE -1
      [] OTHER -> 0

\* The most specific of some rows for a route, the first of equals; 0 when none applies.
MostSpecific(rows, is, route) ==
    LET apply == {i \in is : rank(rows[i], route) >= 0}
        best == {i \in apply : \A j \in apply : rank(rows[j], route) <= rank(rows[i], route)}
    IN  IF apply = {} THEN 0 ELSE First(best)

\* What a policy is told of its route: the workspace, and an anonymous consumer only while there is one.
Stamped(snap, route, p) ==
    CASE p.kind \in {"key", "jwt"} -> [p EXCEPT !.ws = route.ws]
      [] p.kind = "auth" -> [p EXCEPT !.ws = route.ws,
                                      !.anonymous = IF has_consumer(snap, route.ws, @) THEN @ ELSE 0]
      [] OTHER -> p

\* plugins_for: one policy of each kind.
plugins_for(snap, route) ==
    LET kinds == {snap.plugins[i].plugin.kind : i \in DOMAIN snap.plugins}
        chosen(k) == MostSpecific(snap.plugins, Found(snap.plugins, LAMBDA p : p.plugin.kind = k), route)
    IN  {Stamped(snap, route, snap.plugins[chosen(k)].plugin) : k \in {j \in kinds : chosen(j) # 0}}

LimitOf(snap, is, route) ==
    LET i == MostSpecific(snap.limits, is, route) IN IF i = 0 THEN None ELSE snap.limits[i].limit

limit_on_everyone(snap, route) == LimitOf(snap, Found(snap.limits, LAMBDA l : l.consumer = 0), route)

\* consumer_rate_limits: a consumer's own, on the route or its service, else on the consumer alone.
consumer_rate_limits(snap, route, consumer) ==
    LET mine == Found(snap.limits, LAMBDA l : l.ws = consumer.ws /\ l.consumer = consumer.name)
        narrow == {i \in mine : snap.limits[i].route # 0 \/ snap.limits[i].service # 0}
    IN  IF LimitOf(snap, narrow, route) # None THEN LimitOf(snap, narrow, route)
        ELSE IF mine = narrow THEN None ELSE snap.limits[First(mine \ narrow)].limit

\* cluster_key: services with the same address and TLS settings share a pool.
cluster_key(s) == [host |-> s.host, tls |-> s.tls, insecure |-> s.tls /\ s.insecure]

\* expand: no path is every path; escapes in stored paths are written as requests' are.
expand(route) ==
    IF route.paths = <<>> THEN <<[kind |-> "prefix", segs |-> <<>>]>>
    ELSE [i \in DOMAIN route.paths |->
             [route.paths[i] EXCEPT !.segs = [j \in DOMAIN @ |-> Plain(@[j])]]]

RuleOf(snap, route) ==
    RouteRule(route, expand(route), plugins_for(snap, route), limit_on_everyone(snap, route),
              Filters(FALSE, None, route.strip),
              {WeightedBackend(cluster_key(snap.services[First(ServiceOf(snap, route))]), 1)})

\* compile: a rule for each route that may be served, in their order.
compile(snap) ==
    LET served == {r \in Range(snap.routes) : ServiceOf(snap, r) # {} /\ ~refusal(r)}
    IN  SetToSortSeq({RuleOf(snap, r) : r \in served}, LAMBDA a, b : Before(a.route, b.route))

-----------------------------------------------------------------------------
(* Matching *)

\* matches: a path by its kind, a prefix at segment boundaries; method and headers all.
PathMatches(m, path) ==
    CASE m.kind = "exact" -> path = m.segs
      [] m.kind = "prefix" -> IsPrefix(m.segs, path)
      [] m.kind = "regex" -> \E i \in DOMAIN path : path[i].name = m.segs[1].name

RuleMatches(rule, host, path, method, headers) ==
    /\ rule.route.hosts = {} \/ \E h \in rule.route.hosts : HostMatches(h, host)
    /\ \E i \in DOMAIN rule.paths : PathMatches(rule.paths[i], path)
    /\ rule.route.methods = {} \/ method \in rule.route.methods
    /\ \A h \in rule.route.headers : h[1] \in DOMAIN headers /\ Head(headers[h[1]]) = h[2]

\* match_port_with: the first rule that matches; 0 when none does.
match_port_with(rules, host, path, method, headers) ==
    LET hits == {i \in DOMAIN rules : RuleMatches(rules[i], host, path, method, headers)}
    IN  IF hits = {} THEN 0 ELSE First(hits)

\* The path match that won within the rule, which a strip takes off.
MatchedPath(rule, path) == rule.paths[First({i \in DOMAIN rule.paths : PathMatches(rule.paths[i], path)})]

\* rewrite_path with ReplacePrefixMatch "/", which strip_path compiles to.
rewrite_path(m, path) ==
    CASE m.kind = "prefix" -> SubSeq(path, Len(m.segs) + 1, Len(path))
      [] m.kind = "exact" -> <<>>

-----------------------------------------------------------------------------
(* Policies *)

Missing == [refusal |-> "missing"]
Unknown == [refusal |-> "invalid"]

ConsumerOf(snap, issued, ws) ==
    [ws |-> ws, name |-> snap.credentials[First(issued)].consumer, anonymous |-> FALSE]

\* identify: a key of another workspace is one that was never issued.
identify(snap, key, ws) ==
    LET issued == Found(snap.credentials, LAMBDA c : c.hash = key /\ (ws # 0 => c.ws = ws))
    IN  IF key = "" THEN Missing ELSE IF issued = {} THEN Unknown ELSE ConsumerOf(snap, issued, ws)

\* verify: the key the kid names, else the keys without one; then the claims.
verify(policy, token) ==
    LET candidates == {k \in policy.keys : k.kid = token.kid} 
        tried == IF token.kid # "" /\ candidates # {} THEN candidates
                 ELSE {k \in policy.keys : k.kid = ""}
    IN  CASE tried = {} -> "unknown_key"
          [] tried # {} /\ ~(\E k \in tried : k.secret = token.secret) -> "bad_signature"
          [] tried # {} /\ (\E k \in tried : k.secret = token.secret) /\ ~token.current -> "claims"
          [] OTHER -> "ok"

\* IpRestrictionPolicy::refusal and AclPolicy::refusal: deny first, then a list to be in.
Refused(policy, held) == held \cap policy.deny # {} \/ (policy.allow # {} /\ held \cap policy.allow = {})

GroupsOfConsumer(snap, c) ==
    UNION {snap.consumers[i].groups : i \in Found(snap.consumers, LAMBDA x : x.ws = c.ws /\ x.username = c.name)}

\* rate_limit_for: the consumer's own limit before everyone's, and whether it is its own.
rate_limit_for(snap, rule, consumer) ==
    LET own == IF consumer = None THEN None ELSE consumer_rate_limits(snap, rule.route, consumer)
    IN  IF own # None THEN [limit |-> own, own |-> TRUE] ELSE [limit |-> rule.limit, own |-> FALSE]
=============================================================================
