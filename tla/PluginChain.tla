---------------------------- MODULE PluginChain ----------------------------
(***************************************************************************)
(* A rule's policies as the request path runs them: Chain::compile and the *)
(* phases of crates/gapura/src/proxy/plugin.rs, with the header edits of   *)
(* transform.rs.  Pure definitions over a request and the configuration it *)
(* is served from.                                                         *)
(*                                                                         *)
(* Headers are a function from names to the values of their lines, in      *)
(* order.  What a step leaves in RequestCtx is the record Verdict: how the *)
(* chain goes on, the consumer, and the CORS decision.                     *)
(***************************************************************************)
EXTENDS StoreCompiler

CONSTANT Trusted    \* trusted_proxies

-----------------------------------------------------------------------------
(* edit_headers and apply_header_ops *)

\* A name or a value that HTTP does not allow.
Unwritable == "unwritable"

del(h, names) == [n \in DOMAIN h \ names |-> h[n]]

Write(h, name, values) == [n \in DOMAIN h \union {name} |-> IF n = name THEN values ELSE h[n]]

Values(h, name) == IF name \in DOMAIN h THEN h[name] ELSE <<>>

Renamed(h, p) == IF p[1] \in DOMAIN h THEN Write(del(h, {p[1], p[2]}), p[2], h[p[1]]) ELSE h

Replaced(h, p) == IF p[1] \in DOMAIN h THEN Write(h, p[1], <<p[2]>>) ELSE h

Added(h, p) == IF p[1] \in DOMAIN h THEN h ELSE Write(h, p[1], <<p[2]>>)

Appended(h, p) == Write(h, p[1], Append(Values(h, p[1]), p[2]))

edit_headers(h, edits) ==
    LET renamed == FoldLeft(Renamed, del(h, edits.remove), edits.rename)
        replaced == FoldLeft(Replaced, renamed, edits.replace)
        added == FoldLeft(Added, replaced, edits.add)
    IN  FoldLeft(Appended, added, edits.append)

\* apply_header_ops: set, then add, then remove.
apply_header_ops(h, ops) ==
    LET set == FoldLeft(LAMBDA g, p : Write(g, p[1], <<p[2]>>), h, ops.set)
    IN  del(FoldLeft(Appended, set, ops.add), ops.remove)

\* edit_query: the same edits on the parameters, the order of the pairs left out.
edit_query(query, edits) == edit_headers(query, edits)

-----------------------------------------------------------------------------
(* Chain::compile *)

Of(rule, kind) == {p \in rule.plugins : p.kind = kind}

\* The names that edits touch, and whether HTTP allows each of them and each value written.
Touched(edits) ==
    edits.remove \union {p[1] : p \in Range(edits.rename \o edits.replace \o edits.add \o edits.append)}
                 \union {p[2] : p \in Range(edits.rename)}

writable(edits) ==
    /\ Unwritable \notin Touched(edits)
    /\ \A p \in Range(edits.replace \o edits.add \o edits.append) : p[2] # Unwritable

\* misplaced and writable_edits: a redirect reaches no phase, so a policy on one is refused, and
\* so is one that writes what HTTP does not allow.
misplaced(rule) ==
    \/ rule.filters.redirect /\ \E p \in rule.plugins : p.kind # "auth"
    \/ \E p \in Of(rule, "reqtrans") \union Of(rule, "resptrans") : ~writable(p.edits)
    \/ \E p \in Of(rule, "cors") : ~p.writable

\* Mutant of UpstreamRequest::rank: the key is taken off after the edits.
EditsFirst == <<"reqtrans", "key">>

\* UpstreamRequest::rank: the key's header goes before anything is renamed.
UpstreamRank == <<"key", "reqtrans">>

UpstreamSteps(rule) == SelectSeq(UpstreamRank, LAMBDA k : Of(rule, k) # {})

\* Mutant of Access::rank: the limit is counted first.
LimitFirst == <<"limit", "cors", "ip", "jwt", "anyof", "key", "acl", "size">>

\* Access::rank, the limit always last
Rank == <<"cors", "ip", "jwt", "anyof", "key", "acl", "size", "limit">>

\* The credentials of an auth policy are one step.
Runs(rule, kind) ==
    LET auth == Of(rule, "auth") # {}
    IN  CASE kind = "limit" -> TRUE
          [] kind = "anyof" -> auth /\ Of(rule, "jwt") \union Of(rule, "key") # {}
          [] kind \in {"jwt", "key"} -> ~auth /\ Of(rule, kind) # {}
          [] OTHER -> Of(rule, kind) # {}

The(rule, kind) == CHOOSE p \in rule.plugins : p.kind = kind

-----------------------------------------------------------------------------
(* Credentials *)

Admitted(consumer) == [key |-> "", consumer |-> consumer]
Refusal(key) == [key |-> key, consumer |-> None]

missing(verdict) == verdict.key \in {"AuthJwtMissing", "AuthKeyMissing"}

\* jwt_verdict and check_jwt
check_jwt(snap, policy, r) ==
    LET token == r.authorization[1]
    IN  IF Len(r.authorization) > 1 THEN Refusal("AuthJwtInvalid")
        ELSE IF r.authorization = <<>> \/ token.scheme # "bearer" THEN Refusal("AuthJwtMissing")
        ELSE IF policy.keys = {} THEN Refusal("AuthUnavailable")
        ELSE IF verify(policy, token) # "ok" THEN Refusal("AuthJwtInvalid")
        ELSE IF ~policy.claim THEN Admitted(None)
        ELSE IF has_consumer(snap, policy.ws, token.name)
        THEN Admitted([ws |-> policy.ws, name |-> token.name, anonymous |-> FALSE])
        ELSE Refusal("AuthJwtInvalid")

\* want_jwks_refresh: a token of a key not known yet, of a source that is fetched.
wants_keys(policy, r) ==
    /\ policy.fetched /\ Len(r.authorization) = 1 /\ r.authorization[1].scheme = "bearer"
    /\ policy.keys # {} /\ verify(policy, r.authorization[1]) = "unknown_key"

\* check_key, on the first line of the policy's header
check_key(snap, policy, r) ==
    LET lines == Values(r.headers, policy.header)
        verdict == identify(snap, IF lines = <<>> THEN "" ELSE Head(lines), policy.ws)
    IN  CASE verdict = Missing -> Refusal("AuthKeyMissing")
          [] verdict = Unknown -> Refusal("AuthKeyInvalid")
          [] OTHER -> Admitted(verdict)

Anonymous(snap, rule) ==
    LET a == The(rule, "auth")
    IN  IF a.anonymous # 0 /\ has_consumer(snap, a.ws, a.anonymous)
        THEN [ws |-> a.ws, name |-> a.anonymous, anonymous |-> TRUE] ELSE None

Verdicts(snap, rule, r) ==
    (IF Of(rule, "jwt") = {} THEN <<>> ELSE <<check_jwt(snap, The(rule, "jwt"), r)>>)
      \o (IF Of(rule, "key") = {} THEN <<>> ELSE <<check_key(snap, The(rule, "key"), r)>>)

\* The verdicts in order, and which of them were presented.
Settle(snap, rule, verdicts, presented) ==
    CASE presented # {} -> verdicts[First(presented)]
      [] presented = {} /\ Anonymous(snap, rule) # None -> Admitted(Anonymous(snap, rule))
      [] OTHER -> IF Len(verdicts) = 1 THEN verdicts[1] ELSE Refusal("AuthMissing")

\* Mutant of any_of: a credential that is refused counts as one that is absent.
any_of_lenient(snap, rule, r) ==
    Settle(snap, rule, Verdicts(snap, rule, r), Found(Verdicts(snap, rule, r), LAMBDA v : v.key = ""))

\* any_of: the first credential presented decides; the anonymous consumer stands in only when
\* none is.
any_of(snap, rule, r) ==
    Settle(snap, rule, Verdicts(snap, rule, r), Found(Verdicts(snap, rule, r), LAMBDA v : ~missing(v)))

-----------------------------------------------------------------------------
(* Access steps *)

\* CorsPolicy::allowed
allowed(policy, origin) ==
    CASE origin = "null" -> ""
      [] origin # "null" /\ "*" \in policy.origins -> "*"
      [] OTHER -> IF origin \in policy.origins THEN origin ELSE ""

NoCors == [kind |-> "none", allow |-> "", preflight |-> FALSE]

\* cors: a preflight is answered here, or refused; anything else passes with its decision.
cors(policy, r) ==
    LET allow == IF Len(r.origin) = 1 THEN allowed(policy, r.origin[1]) ELSE ""
        preflight == r.preflight /\ r.origin # <<>>
    IN  IF ~preflight \/ policy.continue
        THEN [key |-> "", cors |-> [kind |-> "pass", allow |-> allow, preflight |-> preflight]]
        ELSE IF allow = ""
        THEN [key |-> "CorsOriginForbidden", cors |-> [kind |-> "pass", allow |-> "", preflight |-> FALSE]]
        ELSE [key |-> "Preflight", cors |-> [kind |-> "answered", allow |-> allow, preflight |-> FALSE]]

client_of(r) == client_ip(r.peer, r.forwarded, Trusted, r.named)

\* limit: the window a request counts in, and as whom; None when no limit applies.
limit(snap, rule, r, consumer) ==
    LET rl == rate_limit_for(snap, rule, consumer)
        named == rl.limit # None /\ rl.limit.by = "consumer" /\ consumer # None
    IN  IF rl.limit = None THEN None
        ELSE [window |-> <<rule.route.ws, rule.route.name, IF rl.own THEN consumer.name ELSE 0>>,
              client |-> IF named THEN ToString(consumer.name) ELSE client_of(r)]

Begun == [key |-> "", consumer |-> None, cors |-> NoCors, counted |-> None]

Refuses(c, key) == [c EXCEPT !.key = key]

Admits(c, verdict) ==
    [c EXCEPT !.key = verdict.key, !.consumer = IF verdict.consumer = None THEN @ ELSE verdict.consumer]

\* Access::run, for a chain that has not ended
run(snap, rule, r, full, c, kind) ==
    CASE kind = "cors" -> LET o == cors(The(rule, "cors"), r) IN [c EXCEPT !.key = o.key, !.cors = o.cors]
      [] kind = "ip" -> IF Refused(The(rule, "ip"), {client_of(r)}) THEN Refuses(c, "IpForbidden") ELSE c
      [] kind = "jwt" -> Admits(c, check_jwt(snap, The(rule, "jwt"), r))
      [] kind = "key" -> Admits(c, check_key(snap, The(rule, "key"), r))
      [] kind = "anyof" -> Admits(c, any_of(snap, rule, r))
      [] kind = "acl" -> IF \/ c.consumer = None
                            \/ Refused(The(rule, "acl"), GroupsOfConsumer(snap, c.consumer))
                         THEN Refuses(c, "AclForbidden") ELSE c
      [] kind = "size" -> IF r.declared > The(rule, "size").max THEN Refuses(c, "RequestTooLarge") ELSE c
      [] kind = "limit" -> LET w == limit(snap, rule, r, c.consumer)
                           IN  IF w # None /\ full THEN Refuses(c, "RateLimited")
                               ELSE [c EXCEPT !.counted = w]

\* Chain::access: the steps a rule has, in order, up to the first that does not continue.  `full` is
\* whether the request's window has no room left.
access(snap, rule, r, full) ==
    LET F[i \in 0 .. Len(Rank)] ==
          IF i = 0 THEN Begun
          ELSE IF F[i - 1].key # "" \/ ~Runs(rule, Rank[i]) THEN F[i - 1]
          ELSE run(snap, rule, r, full, F[i - 1], Rank[i])
    IN  F[Len(Rank)]

-----------------------------------------------------------------------------
(* The head that goes upstream, and the response that comes back *)

\* consumer_headers: what a client sent under the gateway's names goes; then the consumer's name,
\* its groups in one line, and the mark of the anonymous one.
consumer_headers(h, snap, consumer) ==
    LET bare == del(h, GatewayHeaders)
        groups == GroupsOfConsumer(snap, consumer)
        named == Write(bare, "x-consumer-username", <<ToString(consumer.name)>>)
        grouped == IF groups = {} THEN named ELSE Write(named, "x-consumer-groups", <<ToString(groups)>>)
    IN  IF consumer = None THEN bare
        ELSE IF consumer.anonymous THEN Write(grouped, "x-anonymous-consumer", <<"true">>) ELSE grouped

\* Chain::upstream_request
upstream_request(rule, h) ==
    FoldLeft(LAMBDA g, kind : IF kind = "key" THEN del(g, {The(rule, kind).header})
                              ELSE edit_headers(g, The(rule, kind).edits),
             h, UpstreamSteps(rule))

upstream_query(rule, q) ==
    IF Of(rule, "reqtrans") = {} THEN q ELSE edit_query(q, The(rule, "reqtrans").query)

\* Mutant of cors_headers: what the upstream says stays where the policy allows nothing.
CorsAdded(h, policy, c) ==
    IF c.kind = "answered" \/ c.allow = "" THEN h ELSE Write(h, "allow-origin", <<c.allow>>)

\* cors_headers: what the upstream says of origins is not passed on.
cors_headers(h, policy, c) ==
    IF c.kind = "answered" THEN h
    ELSE LET bare == del(h, {"allow-origin"})
         IN  IF c.allow = "" THEN bare ELSE Write(bare, "allow-origin", <<c.allow>>)

\* Chain::response: CORS first, then the edits of an operator.
response(rule, c, h) ==
    LET crossed == IF Of(rule, "cors") = {} THEN h ELSE cors_headers(h, The(rule, "cors"), c)
    IN  IF Of(rule, "resptrans") = {} THEN crossed ELSE edit_headers(crossed, The(rule, "resptrans").edits)

\* Chain::request_body: whether the bytes so far are too many.
request_body(rule, bytes, upgraded) ==
    ~upgraded /\ Of(rule, "size") # {} /\ bytes > The(rule, "size").max
=============================================================================
