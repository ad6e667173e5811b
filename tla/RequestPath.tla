---------------------------- MODULE RequestPath ----------------------------
(***************************************************************************)
(* One request through a data plane (crates/gapura/src/proxy/mod.rs): the  *)
(* filters of GapuraProxy in the order the proxy library calls them, with  *)
(* failure.rs for what a failure is answered with.                         *)
(*                                                                         *)
(* The configuration may be swapped at any step; a request keeps the       *)
(* generation it was matched in.  The library (external) connects, feeds   *)
(* the body chunk by chunk, hands over the heads the upstream sends and    *)
(* tries again when an error says so, feeding the body from its start.     *)
(***************************************************************************)
EXTENDS PluginChain

CONSTANTS
    Configs,        \* the generations, in order: snap, rules, endpoints by cluster
    Requests,       \* what clients send
    MAX_ATTEMPTS,
    Statuses        \* the final statuses an upstream answers with

\* A request's headers and body are lines and chunks.
IsRequest(r) ==
    /\ {"host", "target", "method", "headers", "authorization", "declared", "body", "peer", "forwarded",
        "named", "origin", "preflight", "upgrade"} \subseteq DOMAIN r
    /\ r.body \in Seq(Nat) /\ r.declared \in Nat
    /\ r.authorization \in Seq(Range(r.authorization))
    /\ \A n \in DOMAIN r.headers : r.headers[n] \in Seq(STRING)

\* The fields of the policies that compile stamps, the number the body is held to, and the name
\* that a stored transformer cannot touch (policies.rs parse).
IsPolicy(p) ==
    /\ p.kind = "key" => {"kind", "ws", "header"} \subseteq DOMAIN p
    /\ p.kind = "jwt" => {"kind", "ws", "keys", "claim", "fetched"} \subseteq DOMAIN p
    /\ p.kind = "auth" => {"kind", "ws", "anonymous"} \subseteq DOMAIN p
    /\ p.kind = "size" => p.max \in Nat
    /\ p.kind = "reqtrans" => "x-consumer-username" \notin Touched(p.edits)

\* What the store keeps of policies: one of a kind per route, service and workspace
\* (migrations/0005_one_policy_per_target.sql); 0 names nothing.
IsSnapshot(snap) ==
    /\ snap.plugins \in Seq(Range(snap.plugins))
    /\ \A i \in DOMAIN snap.plugins : IsPolicy(snap.plugins[i].plugin)
    /\ \A i, j \in DOMAIN snap.plugins :
         LET p == snap.plugins[i]  q == snap.plugins[j]
         IN  /\ p.plugin.kind = q.plugin.kind /\ p.ws = q.ws /\ p.route = q.route
             /\ p.route # 0 \/ p.service = q.service
             => i = j
    /\ \A r \in Range(snap.routes) : r.ws # 0 /\ r.name # 0 /\ r.service # 0

\* A generation has the rules compile makes of its rows, or rows without policies: the Gateway API's;
\* no cluster is named None.
IsConfig(config) ==
    /\ IsSnapshot(config.snap)
    /\ None \notin DOMAIN config.endpoints
    /\ config.rules \in Seq(Range(config.rules))
    /\ \/ \A i \in DOMAIN config.rules :
            \E r \in Range(config.snap.routes) : config.rules[i] = RuleOf(config.snap, r)
       \/ config.snap.plugins = <<>>

ASSUME PathAssumption ==
    /\ \A r \in Requests : IsRequest(r)
    /\ Configs \in Seq(Range(Configs)) /\ Len(Configs) >= 1
    /\ \A i \in DOMAIN Configs : IsConfig(Configs[i])
    /\ Statuses \subseteq 100 .. 999

VARIABLES
    configs,  \* the generations
    store,  \* the generation served now
    req,    \* the request
    cx,     \* its Ctx
    out     \* history: heads sent upstream, heads written to the client and whether one was lost, mirrors

vars == <<configs, store, req, cx, out>>

NoError == [source |-> "", type |-> ""]

Fresh == [pc |-> "filter", gen |-> 0, rule |-> 0, consumer |-> None, cors |-> NoCors, cluster |-> None,
          upstream |-> "", tried |-> {}, reused |-> FALSE, reuse_retried |-> FALSE, body_bytes |-> 0,
          fed |-> 0, upgraded |-> FALSE, refused |-> "", error |-> NoError, error_key |-> "",
          local_status |-> 0, client_abort |-> FALSE, mirrored |-> FALSE, wanted |-> FALSE, counted |-> None,
          status |-> 0]

Nothing == [sent |-> {}, written |-> <<>>, lost |-> FALSE, mirrors |-> 0, fed |-> 0, logged |-> 0]

Init ==
    /\ configs = Configs
    /\ store = 1
    /\ req \in Requests
    /\ cx = Fresh
    /\ out = Nothing

Config == configs[cx.gen]
Rule == Config.rules[cx.rule]
Endpoints == Config.endpoints[cx.cluster]

is_final(status) == status >= 200 \/ status = 101

-----------------------------------------------------------------------------
(* Answers *)

StatusOf ==
    [InvalidRequestTarget |-> 400, NoRoute |-> 404, InternalError |-> 500, NoBackend |-> 500,
     NoEndpoints |-> 503, AuthJwtMissing |-> 401, AuthJwtInvalid |-> 401, AuthKeyMissing |-> 401,
     AuthKeyInvalid |-> 401, AuthMissing |-> 401, AuthUnavailable |-> 503, AclForbidden |-> 403,
     IpForbidden |-> 403, CorsOriginForbidden |-> 403, RequestTooLarge |-> 413, RateLimited |-> 429,
     UpstreamConnectError |-> 502, UpstreamConnectTimeout |-> 504, UpstreamTlsError |-> 502,
     UpstreamTimeout |-> 504, UpstreamError |-> 502]

\* Ctx::response_steps: the chain of the rule, once there is one, on a final head.
response_steps(c, status, headers) ==
    IF c.rule = 0 \/ ~is_final(status) \/ misplaced(configs[c.gen].rules[c.rule]) THEN headers
    ELSE response(configs[c.gen].rules[c.rule], c.cors, headers)

Empty == [n \in {} |-> <<>>]

ResponseHead(c, status, headers) == [status |-> status, headers |-> response_steps(c, status, headers)]

\* The request goes on as failed, with an error of a source and a type.
Fails(c, source, type) == [c EXCEPT !.pc = "fail", !.error = [source |-> source, type |-> type]]

\* A write to the client failed.  request_filter returns the error, and the library, which may or
\* may not name the client's side as its source, fails the request; fail_to_proxy only notes it.
BrokenOff(c) ==
    \/ /\ cx.pc = "filter"
       /\ \E source \in {"downstream", "unset"} : cx' = Fails(c, source, "write")
    \/ cx.pc = "fail" /\ cx' = [c EXCEPT !.pc = "log"]

Written(head) == out' = [out EXCEPT !.written = Append(@, head)]
Lost == out' = [out EXCEPT !.lost = TRUE]

\* write_error: the answer is recorded, then its head and its body are written; either may fail.
write_error(c, key) ==
    LET d == [c EXCEPT !.local_status = StatusOf[key], !.error_key = key]
        head == ResponseHead(c, StatusOf[key], Empty)
    IN  \/ cx' = [d EXCEPT !.pc = "log"] /\ Written(head)
        \/ BrokenOff(d) /\ (Written(head) \/ Lost)

\* answer, for a response of the gateway's own, a preflight's or a redirect: a head alone, recorded
\* once it is written.
respond(c, status, headers) ==
    \/ cx' = [c EXCEPT !.local_status = status, !.pc = "log"] /\ Written(ResponseHead(c, status, headers))
    \/ BrokenOff(c) /\ Lost

-----------------------------------------------------------------------------
(* request_filter *)

RuleFor(config, r, path) == match_port_with(config.rules, r.host, path, r.method, r.headers)

\* Mutant: parameters are not looked at.
ParamsIgnored(config, r) == FALSE

\* path_params_change_the_route: a backend that drops ;params may resolve to another rule.
path_params_change_the_route(config, r) ==
    LET path == normalize_path(r.target)
    IN  RuleFor(config, r, path) # RuleFor(config, r, without_path_params(path))

\* drop_tunnelling_upgrade: one offer of websocket is kept, anything else goes.
drop_tunnelling_upgrade(r) == [r EXCEPT !.upgrade = IF @ = <<"websocket">> THEN @ ELSE <<>>]

\* host_of: more than one Host line, or one that disagrees with the target.
refused_host(r) == Len(r.hostlines) > 1 \/ (r.hostlines # <<>> /\ r.hostlines[1] # r.host)

\* pick_backend: any backend with a weight; none at all, or one without a cluster, is None.
pick_backend(rule) ==
    LET rolled == {b.cluster : b \in {b \in rule.backends : b.weight > 0}}
    IN  IF rolled = {} THEN {None} ELSE rolled

\* The clusters a generation has with no endpoint, and with some.
Deserted(config) == {k \in DOMAIN config.endpoints : config.endpoints[k] = {}}
Peopled(config) == DOMAIN config.endpoints \ Deserted(config)

Refuse(key) ==
    /\ store' = store
    /\ write_error([cx EXCEPT !.gen = IF key = "InvalidRequestTarget" THEN 0 ELSE store], key)

Matched == RuleFor(configs[store], req, normalize_path(req.target))

Routed == [cx EXCEPT !.gen = store, !.rule = Matched]

\* The target is refused, before and after the rules are looked at.
InvalidTarget ==
    /\ cx.pc = "filter"
    /\ \/ refused_host(req)
       \/ refused_target(req.target)
       \/ path_params_change_the_route(configs[store], req)
    /\ Refuse("InvalidRequestTarget")
    /\ req' = drop_tunnelling_upgrade(req)

Valid ==
    /\ cx.pc = "filter"
    /\ ~refused_host(req) /\ ~refused_target(req.target)
    /\ ~path_params_change_the_route(configs[store], req)
    /\ req' = drop_tunnelling_upgrade(req)

NotFound ==
    /\ Valid
    /\ Matched = 0
    /\ Refuse("NoRoute")

\* Decision::Misplaced, Redirect and Local
Local ==
    /\ Valid
    /\ Matched # 0
    /\ \E rule \in {configs[store].rules[Matched]} :
         \/ misplaced(rule) /\ write_error(Routed, "InternalError")
         \/ /\ ~misplaced(rule) /\ rule.filters.redirect
            /\ respond([cx EXCEPT !.gen = store], 302, Empty)
         \/ /\ ~misplaced(rule) /\ ~rule.filters.redirect
            /\ \E picked \in pick_backend(rule) \ Peopled(configs[store]) :
                 write_error([cx EXCEPT !.gen = store],
                             IF picked \in Deserted(configs[store]) THEN "NoEndpoints" ELSE "NoBackend")
    /\ UNCHANGED store

\* Decision::Proxy: the access chain; what it counted and kept stands, however it ends.
Access(full) ==
    /\ Valid
    /\ Matched # 0
    /\ \E config \in {configs[store]} : \E rule \in {config.rules[Matched]} :
         /\ ~misplaced(rule) /\ ~rule.filters.redirect
         /\ \E key \in pick_backend(rule) \cap Peopled(config),
               end \in {access(config.snap, rule, req, full)} :
              LET wanted == \E p \in Of(rule, "jwt") : wants_keys(p, req)
                  c == [Routed EXCEPT !.consumer = end.consumer, !.cors = end.cors, !.wanted = wanted,
                                      !.counted = end.counted]
              IN  \/ /\ end.key = ""
                     /\ cx' = [c EXCEPT !.pc = "peer", !.cluster = key] /\ UNCHANGED out
                  \/ /\ end.key = "Preflight"
                     /\ respond(c, 204, [n \in {"allow-origin"} |-> <<end.cors.allow>>])
                  \/ /\ end.key \in DOMAIN StatusOf
                     /\ write_error(c, end.key)
    /\ UNCHANGED store

-----------------------------------------------------------------------------
(* Upstream *)

\* upstream_peer: an endpoint of the request's own generation, not tried before.
upstream_peer ==
    /\ cx.pc = "peer"
    /\ \/ \E addr \in Endpoints \ cx.tried : cx' = [cx EXCEPT !.upstream = addr, !.pc = "connect"]
       \/ /\ Endpoints \subseteq cx.tried
          /\ cx' = Fails(cx, "internal", "503")
       \/ cx' = Fails(cx, "internal", "504")
    /\ UNCHANGED <<store, req, out>>

more_endpoints(tried) == Cardinality(Endpoints) > Cardinality(tried)

ConnectErrors == {"connect", "connect_timeout", "tls"}

fail_to_connect ==
    /\ cx.pc = "connect"
    /\ LET tried == cx.tried \union {cx.upstream}
           c == [cx EXCEPT !.tried = tried]
       IN  \E type \in ConnectErrors :
             cx' = IF Cardinality(tried) < MAX_ATTEMPTS /\ more_endpoints(tried)
                   THEN [c EXCEPT !.pc = "peer"]
                   ELSE Fails(c, "upstream", type)
    /\ UNCHANGED <<store, req, out>>

\* Mutant of new_attempt: the bytes of the attempt before are kept.
AttemptKeepsBytes(c) == [c EXCEPT !.fed = 0]

\* RequestCtx::new_attempt; the library feeds the body from its start.
new_attempt(c) == [c EXCEPT !.body_bytes = 0, !.fed = 0]

\* The path that goes upstream: normalised, and without the matched prefix where the rule strips.
PathSent ==
    LET path == normalize_path(req.target)
    IN  IF Rule.filters.strip THEN rewrite_path(MatchedPath(Rule, path), path) ELSE path

\* The head as the library sends it: who calls, the rule's header filters, its steps, and last the
\* gateway's own account of the peer.
HeadSent(c) ==
    [gen |-> c.gen, rule |-> c.rule, to |-> c.upstream, path |-> PathSent, consumer |-> c.consumer,
     headers |-> upstream_request(Rule, apply_header_ops(consumer_headers(req.headers, Config.snap, c.consumer),
                                                         Rule.filters.request_headers)),
     query |-> upstream_query(Rule, req.query),
     upgrade |-> req.upgrade, forwarded |-> Append(req.forwarded, req.peer)]

\* fire_mirror: at most once, when the mirror has an endpoint and a permit is free.
mirrors(c) ==
    IF c.mirrored \/ Rule.filters.mirror \notin Peopled(Config) THEN {FALSE} ELSE BOOLEAN

\* connected_to_upstream and upstream_request_filter
upstream_request_filter(reused) ==
    /\ cx.pc = "connect"
    /\ \E fired \in mirrors(cx) :
         /\ cx' = [new_attempt(cx) EXCEPT !.pc = "send", !.reused = reused, !.mirrored = @ \/ fired]
         /\ out' = [out EXCEPT !.sent = @ \union {HeadSent(cx)},
                               !.mirrors = IF fired THEN @ + 1 ELSE @]
    /\ UNCHANGED <<store, req>>

\* The head cannot be built: the library refuses to make it of the client's, or the filter fails.
InvalidHeader ==
    /\ cx.pc = "connect"
    /\ \/ cx' = Fails(cx, "downstream", "header")
       \/ cx' = Fails(new_attempt(cx), "unset", "header")
    /\ UNCHANGED <<store, req, out>>

\* request_body_filter, for the next chunk: it goes on, or the request fails with it.
request_body_filter ==
    /\ cx.pc \in {"send", "answer"}
    /\ cx.fed < Len(req.body)
    /\ LET bytes == cx.body_bytes + req.body[cx.fed + 1]
           c == [cx EXCEPT !.fed = @ + 1, !.body_bytes = IF cx.upgraded THEN @ ELSE bytes]
       IN  IF request_body(Rule, bytes, cx.upgraded)
           THEN /\ cx' = Fails([c EXCEPT !.refused = "RequestTooLarge"], "internal", "413")
                /\ UNCHANGED out
           ELSE /\ cx' = c
                /\ out' = [out EXCEPT !.fed = IF c.body_bytes > @ THEN c.body_bytes ELSE @]
    /\ UNCHANGED <<store, req>>

UpstreamHeaders == [n \in {"allow-origin"} |-> <<"*">>]

\* upstream_response_filter and response_filter: an interim head passes as it is.
response_filter(status) ==
    /\ cx.pc = "send"
    /\ is_final(status) \/ ~\E i \in DOMAIN out.written : ~is_final(out.written[i].status)
    /\ status = 101 => req.upgrade # <<>>
    /\ Written(ResponseHead(cx, status, IF is_final(status)
                                        THEN apply_header_ops(UpstreamHeaders, Rule.filters.response_headers)
                                        ELSE UpstreamHeaders))
    /\ cx' = [cx EXCEPT !.pc = IF is_final(status) THEN "answer" ELSE @, !.upgraded = status = 101]
    /\ UNCHANGED <<store, req>>

Idempotent == {"GET", "OPTIONS", "PUT"}

\* error_while_proxy: the connection fails; before the head, one retry of a pooled connection.
error_while_proxy(truncated) ==
    /\ cx.pc \in {"send", "answer"}
    /\ truncated => cx.fed > 0
    /\ LET retry == cx.reused /\ ~cx.reuse_retried /\ req.method \in Idempotent /\ ~truncated
           c == [cx EXCEPT !.reuse_retried = @ \/ retry]
       IN  cx' = IF retry /\ cx.pc = "send" THEN [c EXCEPT !.pc = "peer"] ELSE Fails(c, "upstream", "read")
    /\ UNCHANGED <<store, req, out>>

\* The upstream goes quiet; the client goes away; the response is complete.
Quiet ==
    /\ cx.pc \in {"send", "answer"}
    /\ cx' = Fails(cx, "upstream", "timeout")
    /\ UNCHANGED <<store, req, out>>

ClientGone ==
    /\ cx.pc \in {"send", "answer"}
    /\ cx' = Fails(cx, "downstream", "closed")
    /\ UNCHANGED <<store, req, out>>

Complete ==
    /\ cx.pc = "answer"
    /\ cx' = [cx EXCEPT !.pc = "log"]
    /\ UNCHANGED <<store, req, out>>

-----------------------------------------------------------------------------
(* Failure and log *)

\* failure::classify; a client that broke off is not answered, one whose request the library
\* refused is.
classify(e) ==
    IF e.type = "503" THEN "NoEndpoints"
    ELSE IF e.type = "504" THEN "UpstreamTimeout"
    ELSE IF e.type = "413" THEN "InternalError"
    ELSE IF e.source = "downstream" THEN IF e.type = "header" THEN "InvalidRequestTarget" ELSE ""
    ELSE IF e.source # "upstream" THEN "InternalError"
    ELSE CASE e.type = "connect_timeout" -> "UpstreamConnectTimeout"
           [] e.type = "timeout" -> "UpstreamTimeout"
           [] e.type = "connect" -> "UpstreamConnectError"
           [] e.type = "tls" -> "UpstreamTlsError"
           [] e.type = "read" -> "UpstreamError"

\* response_written, the last head; final_response, whether it is final.
response_written == out.written[Len(out.written)]
final_response == out.written # <<>> /\ is_final(response_written.status)

\* Mutant of the guard of fail_to_proxy: a failure is always answered.
AnswersAlways(key) == key # ""

\* Whether fail_to_proxy writes an answer.
answers(key) == key # "" /\ ~final_response

fail_to_proxy ==
    /\ cx.pc = "fail"
    /\ LET key == IF cx.refused # "" THEN cx.refused ELSE classify(cx.error)
           c == [cx EXCEPT !.refused = "", !.client_abort = key = ""]
       IN  IF answers(key) THEN write_error(c, key)
           ELSE cx' = [c EXCEPT !.pc = "log"] /\ UNCHANGED out
    /\ UNCHANGED <<store, req>>

\* logging, with RequestCtx::terminate: the final answer's status, else that of the answer the
\* gateway meant to give.  The context is dropped after it.
logging ==
    /\ cx.pc = "log"
    /\ cx' = [Fresh EXCEPT !.pc = "done", !.gen = cx.gen, !.rule = cx.rule, !.error_key = cx.error_key,
                           !.client_abort = cx.client_abort, !.counted = cx.counted,
                           !.status = IF final_response THEN response_written.status ELSE cx.local_status]
    /\ out' = [out EXCEPT !.logged = @ + 1]
    /\ UNCHANGED <<store, req>>

\* Another generation is swapped in.  After request_filter no filter looks at the store again, so one
\* swap past the request's own generation, before its head is sent, is followed.
Swap ==
    /\ store < Len(configs)
    /\ cx.pc = "filter" \/ (cx.pc \in {"peer", "connect"} /\ store = cx.gen)
    /\ store' = store + 1
    /\ UNCHANGED <<req, cx, out>>

Step ==
    \/ InvalidTarget \/ NotFound \/ Local
    \/ \E full \in BOOLEAN : Access(full)
    \/ upstream_peer \/ fail_to_connect
    \/ \E b \in BOOLEAN : upstream_request_filter(b) \/ error_while_proxy(b)
    \/ InvalidHeader
    \/ request_body_filter
    \/ \E s \in Statuses : response_filter(s)
    \/ Quiet \/ ClientGone \/ Complete \/ fail_to_proxy \/ logging

\* The request is over.
Over == cx.pc = "done" /\ UNCHANGED vars

Next == (Step \/ Swap \/ Over) /\ UNCHANGED configs

Spec == Init /\ [][Next]_vars

-----------------------------------------------------------------------------
(* What an operator means by a policy, read off the rows *)

\* The rows of a kind that govern a route: its own, else its service's, else its workspace's.
Governing(snap, route, kind) ==
    LET rows == {p \in Range(snap.plugins) : p.ws = route.ws /\ p.plugin.kind = kind}
        own == {p \in rows : p.route = route.name}
        shared == {p \in rows : p.route = 0 /\ p.service = route.service}
    IN  CASE own # {} -> own
          [] own = {} /\ shared # {} -> shared
          [] OTHER -> {p \in rows : p.route = 0 /\ p.service = 0}

\* The consumers a request proves it is from, by a key of the workspace or a token of the policy.
ByKey(snap, ws, policy) ==
    {c.consumer : c \in {c \in Range(snap.credentials) :
        /\ c.ws = ws /\ Values(req.headers, policy.header) # <<>>
        /\ c.hash = Values(req.headers, policy.header)[1]}}

ByToken(policy) ==
    {t.name : t \in {t \in Range(req.authorization) :
        /\ t.scheme = "bearer" /\ t.current
        /\ \E k \in policy.keys : k.secret = t.secret /\ k.kid \in {t.kid, ""}}}

\* Whether a request presents a credential of a kind: a line that is empty presents nothing.
Presents(kind, policy) ==
    IF kind = "key"
    THEN Values(req.headers, policy.header) # <<>> /\ Values(req.headers, policy.header)[1] # ""
    ELSE \E t \in Range(req.authorization) : t.scheme = "bearer"

Proves(snap, ws, kind, policy) ==
    IF kind = "key" THEN ByKey(snap, ws, policy) # {} ELSE ByToken(policy) # {}

Credentials(snap, route) ==
    {<<k, p.plugin>> : k \in {"key"}, p \in Governing(snap, route, "key")}
      \union {<<k, p.plugin>> : k \in {"jwt"}, p \in Governing(snap, route, "jwt")}

\* Every credential asked for is proved; under an auth policy one is, or none was presented and
\* there is an anonymous consumer.
Authenticated(snap, route) ==
    LET asked == Credentials(snap, route)
        auth == Governing(snap, route, "auth")
    IN  IF auth = {} THEN \A c \in asked : Proves(snap, route.ws, c[1], c[2])
        ELSE \/ asked = {}
             \/ \E c \in asked : Proves(snap, route.ws, c[1], c[2])
             \/ /\ \A c \in asked : ~Presents(c[1], c[2])
                /\ \E p \in auth : has_consumer(snap, route.ws, p.plugin.anonymous)

Admissible(snap, route, consumer) ==
    /\ Authenticated(snap, route)
    /\ \A p \in Governing(snap, route, "ip") : ~Refused(p.plugin, {client_of(req)})
    /\ \A p \in Governing(snap, route, "acl") :
         consumer # None /\ ~Refused(p.plugin, GroupsOfConsumer(snap, consumer))
    /\ \A p \in Governing(snap, route, "size") : req.declared <= p.plugin.max

\* The readings of the path a backend may settle on.
Readings == LET path == normalize_path(req.target) IN {path, without_path_params(path)}

\* The final heads the client got: 101 switches protocols, and nothing follows it.
Finals == {i \in DOMAIN out.written : out.written[i].status \notin 100 .. 199 \ {101}}

\* Everything a request sent upstream by the time it is over.
Sent == IF cx.pc = "done" THEN out.sent ELSE {}

-----------------------------------------------------------------------------
(* Properties *)

\* The context of a request is well formed at every step.
TypeOK ==
    /\ store \in DOMAIN configs
    /\ cx.pc \in {"filter", "peer", "connect", "send", "answer", "fail", "log", "done"}
    /\ cx.gen \in 0 .. store
    /\ cx.pc \in {"peer", "connect", "send", "answer"} => cx.rule \in DOMAIN Config.rules
    /\ cx.tried \subseteq (IF cx.gen = 0 \/ cx.cluster = None THEN {} ELSE Endpoints)
    /\ Cardinality(cx.tried) <= MAX_ATTEMPTS
    /\ cx.fed \in 0 .. Len(req.body)

\* A credential that is wrong is refused, never passed over for another or for the anonymous
\* consumer: what is sent upstream as anonymous carried no credential at all (any_of).
InvalidNeverAnonymous ==
    \A s \in Sent :
        LET config == configs[s.gen]
            route == config.rules[s.rule].route
        IN  s.consumer # None /\ s.consumer.anonymous =>
                \A c \in Credentials(config.snap, route) : ~Presents(c[1], c[2])

\* Nothing reaches an upstream unless every policy that governs the route holds of the request,
\* whichever way the backend reads the path: the policies, the consumers and the endpoint all of the
\* one generation, however often the configuration is swapped on the way (plugins_for, access,
\* path_params_change_the_route).  Nor does anything go on as anonymous that carried a credential.
GuardsHeld ==
    /\ \A s \in Sent :
         LET config == configs[s.gen]
         IN  /\ \A path \in Readings :
                  LET i == RuleFor(config, req, path)
                  IN  i # 0 /\ Admissible(config.snap, config.rules[i].route, s.consumer)
             /\ \E b \in config.rules[s.rule].backends :
                  b.cluster \in DOMAIN config.endpoints /\ s.to \in config.endpoints[b.cluster]
    /\ InvalidNeverAnonymous

\* The gateway's headers that the operator writes: by a header filter of the Gateway API, or by a
\* transformer stored before the name was the gateway's (policies.rs newly_reserved).
OperatorsOwn(rule) ==
    LET ops == rule.filters.request_headers
    IN  {p[1] : p \in Range(ops.set \o ops.add)} \union ops.remove
          \union UNION {Touched(p.edits) : p \in Of(rule, "reqtrans")}

\* A backend can take the head it is sent at its word: each of the gateway's headers says of the
\* caller what the gateway found and never what the client sent, unless the operator writes it; no
\* key is among the headers, under whatever name; and nothing but a websocket is offered to be
\* tunnelled (consumer_headers, apply_header_ops, UpstreamRequest::rank).
HeadsHonest ==
    \A s \in Sent :
        LET config == configs[s.gen]
            rule == config.rules[s.rule]
            route == rule.route
            groups == GroupsOfConsumer(config.snap, s.consumer)
            said(n) ==
                CASE s.consumer = None -> {}
                  [] s.consumer # None /\ n = "x-consumer-username" -> {ToString(s.consumer.name)}
                  [] s.consumer # None /\ n = "x-consumer-groups" -> {ToString(g) : g \in {groups} \ {{}}}
                  [] OTHER -> IF s.consumer.anonymous THEN {"true"} ELSE {}
        IN  /\ \A n \in GatewayHeaders \ OperatorsOwn(rule) :
                 Range(Values(s.headers, n)) = said(n)
            /\ \A p \in Governing(config.snap, route, "key"), n \in DOMAIN s.headers :
                 Range(Values(req.headers, p.plugin.header)) \cap Range(s.headers[n]) = {}
            /\ s.upgrade \in {<<>>, <<"websocket">>}

Total(body) ==
    LET F[i \in 0 .. Len(body)] == IF i = 0 THEN 0 ELSE F[i - 1] + body[i]
    IN  F[Len(body)]

\* A body is refused for its length exactly when it is too long: no attempt feeds more than the
\* limit, and a retry, which feeds the body again, does not make it longer (request_body,
\* new_attempt).
BodyWithinLimit ==
    \A s \in Sent :
        \A p \in Governing(configs[s.gen].snap, configs[s.gen].rules[s.rule].route, "size") :
            /\ out.fed <= p.plugin.max
            /\ cx.error_key = "RequestTooLarge" => Total(req.body) > p.plugin.max

\* The client gets one final head, an interim head being no answer, and none only when it went away
\* or the write of the answer failed; the request gets one line in the log, with the status of the
\* head the client got, else of the error the gateway meant to answer, else none; and a mirror at
\* most one copy, whatever fails after the head was written (fail_to_proxy, final_response,
\* write_error, logging, fire_mirror).
AnsweredOnce ==
    /\ \A i, j \in Finals : i = j
    /\ out.logged <= 1 /\ out.mirrors <= 1
    /\ cx.pc = "done" => \A i \in Finals : cx.status = out.written[i].status
    /\ cx.pc = "done" /\ Finals = {} =>
         /\ cx.client_abort \/ out.lost
         /\ cx.status = IF cx.error_key = "" THEN 0 ELSE StatusOf[cx.error_key]

\* What an access step refuses does not count against the limit (Access::rank).
RefusedSpendsNothing ==
    cx.error_key \in {"AuthJwtMissing", "AuthJwtInvalid", "AuthKeyMissing", "AuthKeyInvalid", "AuthMissing",
                      "AuthUnavailable", "AclForbidden", "IpForbidden", "CorsOriginForbidden"}
    => cx.counted = None

\* An upstream's own word on origins is not passed on where a policy decides them (cors_headers).
CorsDecides ==
    cx.pc = "log" => \A i \in Finals :
        cx.rule # 0 /\ Of(Rule, "cors") # {} /\ Of(Rule, "resptrans") = {} /\ ~misplaced(Rule)
          /\ "allow-origin" \in DOMAIN out.written[i].headers =>
               /\ Len(req.origin) = 1
               /\ allowed(The(Rule, "cors"), req.origin[1]) = out.written[i].headers["allow-origin"][1]
=============================================================================
