--------------------------- MODULE MC_RequestPath ---------------------------
(* Two workspaces, three generations and the requests that tell their rules apart. *)
EXTENDS RequestPath

Seg(n) == [name |-> n, enc |-> FALSE, params |-> FALSE]
Prefix(segs) == [kind |-> "prefix", segs |-> segs]
Path(segs) == [absolute |-> TRUE, path |-> segs]

KeyAuth == KeyAuthPolicy("apikey")
Jwt == JwtPolicy({[kid |-> "k1", secret |-> "s1"]}, TRUE, TRUE)
Far == IpRestrictionPolicy({}, {"far"})
Rename ==
    RequestTransformerPolicy([HeaderEdits EXCEPT !.rename = <<<<"apikey", "note">>>>,
                                                 !.append = <<<<"via", "gw">>, <<"x-consumer-groups", "ops">>>>],
                             HeaderEdits)
Note == ResponseTransformerPolicy([HeaderEdits EXCEPT !.append = <<<<"via", "gw">>>>])
Broken == ResponseTransformerPolicy([HeaderEdits EXCEPT !.add = <<<<"via", Unwritable>>>>])
Cors == CorsPolicy({"a"}, FALSE)
Size(n) == RequestSizeLimitPolicy(n)

\* /a is open to anyone with a key, a token or neither; /a/adm to one group; the other workspace
\* has its own key, consumers and host.
Snap1 ==
    [services |-> <<StoreService(1, 1, "up1"), StoreService(2, 1, "up2")>>,
     routes |-> <<StoreRoute(1, 1, 1, <<Prefix(<<Seg("a")>>)>>, 0, TRUE, {}),
                  StoreRoute(1, 2, 1, <<Prefix(<<Seg("a"), Seg("adm")>>)>>, 1, FALSE, {}),
                  StoreRoute(2, 1, 1, <<>>, 0, FALSE, {[wild |-> TRUE, labels |-> <<"org">>]})>>,
     plugins |-> <<StorePlugin(1, 0, 0, KeyAuth), StorePlugin(1, 1, 0, Jwt),
                   StorePlugin(1, 0, 1, AuthPolicy(3)), StorePlugin(1, 0, 2, AclPolicy({"g"}, {})),
                   StorePlugin(1, 0, 1, Size(2)), StorePlugin(1, 0, 1, Rename),
                   StorePlugin(1, 1, 0, Cors), StorePlugin(2, 0, 0, KeyAuth),
                   StorePlugin(2, 1, 0, Far), StorePlugin(2, 0, 0, Size(9)),
                   StorePlugin(2, 0, 0, AuthPolicy(3)), StorePlugin(2, 0, 0, Note)>>,
     limits |-> <<StoreRateLimit(1, 1, 0, RateLimit("ip", 1)),
                  StoreRateLimit(1, 0, 1, RateLimit("consumer", 1))>>,
     credentials |-> <<StoreCredential("K1", 1, 1), StoreCredential("K2", 2, 2)>>,
     consumers |-> <<StoreConsumer(1, 1, {"g"}), StoreConsumer(1, 2, {}), StoreConsumer(1, 3, {}),
                     StoreConsumer(2, 2, {})>>]

\* The key is revoked, the anonymous consumer is gone, addresses far away are kept out, and the
\* other workspace's edits cannot be made.
Snap2 ==
    [Snap1 EXCEPT !.credentials = Tail(@),
                  !.plugins = Append([@ EXCEPT ![Len(@)].plugin = Broken], StorePlugin(1, 0, 0, Far)),
                  !.consumers = SubSeq(@, 1, 2)]

\* Rules as the Gateway API gives them: a redirect, header filters, a mirror, a backend that is not
\* there.
Gateway(n, path, redirect, mirror, backends) ==
    RouteRule(StoreRoute(9, n, 1, <<Prefix(path)>>, 0, FALSE, {}), <<Prefix(path)>>, {}, None,
              Filters(redirect, mirror, FALSE), backends)

Up(host) == [host |-> host, tls |-> FALSE, insecure |-> FALSE]
To(host) == {WeightedBackend(Up(host), 1)}

GatewayRules ==
    <<Gateway(1, <<Seg("a"), Seg("adm")>>, TRUE, None, {}),
      [Gateway(2, <<Seg("b"), Seg("adm")>>, TRUE, None, {}) EXCEPT !.plugins = {Size(1)}],
      [Gateway(3, <<Seg("a")>>, FALSE, Up("up2"), To("up1") \union {WeightedBackend(None, 1)})
         EXCEPT !.filters.request_headers = [set |-> <<<<"x-anonymous-consumer", "no">>>>,
                                             add |-> <<<<"note", "gw">>>>, remove |-> {"via"}]],
      Gateway(4, <<Seg("b")>>, FALSE, None, To("gone")),
      Gateway(5, <<>>, FALSE, None, To("up3"))>>

At(one, two) == (Up("up1") :> one) @@ (Up("up2") :> two) @@ (Up("up3") :> {})

MCConfigs ==
    <<[snap |-> Snap1, rules |-> compile(Snap1), endpoints |-> At({"e1", "e2"}, {"e3"})],
      [snap |-> Snap2, rules |-> compile(Snap2), endpoints |-> At({"e2"}, {"e3"})],
      [snap |-> StoreSnapshot, rules |-> GatewayRules, endpoints |-> At({"e2"}, {"e3"})]>>

Token(kid, secret, name) ==
    [scheme |-> "bearer", kid |-> kid, secret |-> secret, name |-> name, current |-> TRUE]

Plainly == [host |-> <<"com", "x">>, hostlines |-> <<>>, target |-> Path(<<Seg("a")>>), method |-> "PUT",
            headers |-> Empty, authorization |-> <<>>, origin |-> <<>>, preflight |-> FALSE,
            declared |-> 0, body |-> <<>>, peer |-> "near", forwarded |-> <<>>, named |-> "bad",
            upgrade |-> <<>>, query |-> Empty]

Key(k) == ("apikey" :> <<k>>)
Forged == [n \in GatewayHeaders |-> <<IF n = "x-consumer-username" THEN "1" ELSE "g">>]

Targets ==
    {Path(<<Seg("a")>>), Path(<<Seg("a"), Seg("adm")>>), Path(<<Seg("a"), Seg(""), Seg("adm")>>),
     Path(<<Seg("a"), [Seg("adm") EXCEPT !.params = TRUE]>>),
     Path(<<Seg("a"), [Seg("adm") EXCEPT !.enc = TRUE]>>), Path(<<Seg("b")>>),
     Path(<<Seg("b"), Seg("adm")>>), Path(<<Seg("a"), Seg("..")>>), [Path(<<>>) EXCEPT !.absolute = FALSE]}

\* Each way to present a credential, on each path; then each other part of a request by itself.
MCRequests ==
    {[Plainly EXCEPT !.target = t, !.headers = h, !.authorization = a] :
        t \in Targets, h \in {Empty, Key("K1"), Key("K2")},
        a \in {<<>>, <<Token("k1", "s1", 2)>>, <<Token("k1", "bad", 2)>>}}
    \union {[Plainly EXCEPT !.authorization = a, !.headers = h] :
        a \in {<<Token("k1", "s1", 2)>>, <<Token("k1", "bad", 2)>>, <<Token("k2", "s1", 2)>>,
               <<Token("k1", "s1", 2), Token("k1", "s1", 2)>>, <<Token("k1", "s1", 8)>>},
        h \in {Empty, Key("K1"), Key(""), Forged}}
    \union {[Plainly EXCEPT !.host = <<"org", "y">>, !.headers = h, !.peer = p, !.forwarded = f] :
        h \in {Key("K1"), Key("K2") @@ Forged},
        p \in {"far", "lb"}, f \in {<<>>, <<"far", "near", "bad">>}}
    \union {[Plainly EXCEPT !.body = b, !.method = m, !.declared = d] :
        b \in {<<2, 1>>, <<2>>}, m \in {"PUT", "POST"}, d \in {0, 3}}
    \union {[Plainly EXCEPT !.origin = o, !.preflight = p] :
        o \in {<<"a">>, <<"b">>, <<"null">>, <<"a", "b">>}, p \in BOOLEAN}
    \union {[Plainly EXCEPT !.upgrade = u, !.body = <<3>>] :
        u \in {<<"websocket">>, <<"websocket", "h2c">>}}
    \union {[Plainly EXCEPT !.hostlines = <<Plainly.host, Plainly.host>>],
            [Plainly EXCEPT !.hostlines = <<<<"com", "z">>>>]}
=============================================================================
