------------------------------- MODULE MC_Kube -------------------------------
(***************************************************************************)
(* The sources of the data plane that read Gateway API objects, for TLC:   *)
(* the Kubernetes source with the status writer, or the file source.  The  *)
(* start picks one, and one load for it.                                   *)
(***************************************************************************)
EXTENDS StatusWriter, FileSource

CONSTANTS g1, g2, pol, d1, d2, odd, poisoned

MCKindOf == [o \in {g1, g2, pol} |-> IF o = pol THEN "policy" ELSE "gateway"]

Start == ("gateway" :> [o \in Objects |-> IF o = g1 THEN d1 ELSE Absent]) @@ ("policy" :> Empty)

Both == ("gateway" :> [o \in Objects |-> IF o \in {g1, g2} THEN d1 ELSE Absent]) @@ ("policy" :> Empty)

Load(writes, docs, faults, patches, flips, others) ==
    [writes |-> writes, docs |-> docs, faults |-> faults, patches |-> patches, flips |-> flips,
     others |-> others]

NoFlags == Settings(<<80>>, <<443>>, {}, <<>>)

KubeLoads ==
    /\ FileInit(<<>>, NoFlags)
    /\ \/ /\ WriterInit(NoStatus, TRUE)
          /\ \/ SourceInit(Start, {"gateway"}, Load(2, {d2, Absent}, 1, 0, 0, 0))
             \/ SourceInit(Start, Kinds, Load(1, {odd, Absent}, 2, 0, 0, 0))
             \/ SourceInit(Start, {"gateway"}, Load(2, {poisoned, d2}, 0, 0, 0, 0))
       \/ /\ WriterInit(NoStatus, FALSE)
          /\ \/ SourceInit(Start, Kinds, Load(0, {}, 0, 1, 2, 1))
             \/ SourceInit(Start, Kinds, Load(0, {}, 1, 0, 2, 0))
             \/ SourceInit(Both, Kinds, Load(0, {}, 0, 1, 1, 0))
             \/ SourceInit(Start, Kinds, Load(1, {Absent}, 0, 0, 1, 0))

-----------------------------------------------------------------------------
(* Directories *)

Doc(kind, object) == [kind |-> kind, object |-> object]

Seg(name) == [name |-> name, enc |-> FALSE, params |-> FALSE]

Target(segs) == [absolute |-> TRUE, path |-> segs]

wild == [wild |-> TRUE, labels |-> <<"e">>]

exact == [wild |-> FALSE, labels |-> <<"e", "a">>]

Class == Doc("GatewayClass", GatewayClass(1, "ours"))

Under(path, backend) ==
    <<HttpRouteRule(<<HttpRouteMatch([kind |-> "prefix", value |-> Target(path)])>>, <<backend>>)>>

Web(ns, name) == Doc("Service", Service(<<ns, name>>, {<<8080, 0>>}))

\* Two Gateways on one port, one of them perhaps with an address of its own, and a route on each.
Crowd(first, second, other, own, theirs, broken) ==
    LET A == Gateway(<<1, 1>>, 1, <<Listener(1, 80, "HTTP", first, "All"),
                                    Listener(2, 80, IF broken THEN "TCP" ELSE "HTTP", second, "All")>>)
        B == Gateway(<<2, 2>>, 1, <<Listener(3, 80, "HTTP", other, "All")>>)
    IN  << <<Class, Doc("Gateway", A), Doc("Gateway", B), Web(1, 5), Web(2, 6)>>,
           <<Doc("HTTPRoute", HttpRoute(<<1, 3>>, 2, <<ParentReference(0, 1, 1, 0), ParentReference(2, 2, 0, 80)>>,
                                        own, Under(<<>>, HttpBackendRef(0, 5, 8080)))),
             Doc("HTTPRoute", HttpRoute(<<2, 4>>, 1, <<ParentReference(1, 1, 2, 0), ParentReference(0, 2, 0, 0)>>,
                                        theirs, Under(<<Seg("x")>>, HttpBackendRef(0, 6, 8080))))>> >>

CrowdLoads ==
    \E first \in {AnyHost, wild} : \E second, other \in {AnyHost, wild, exact} :
    \E own, theirs \in {{}, {wild}, {exact}, {wild, exact}} : \E broken \in BOOLEAN :
    \E overrides \in {<<>>, <<2, 2>> :> {"b"}, <<1, 1>> :> {"a"}} : \E pool \in {<<80>>, <<80, 81>>} :
        FileInit(Crowd(first, second, other, own, theirs, broken), Settings(pool, <<443>>, {"s"}, overrides))

\* A route, its mirror and a certificate of one namespace that reach into another, which has a route
\* of its own to the same Services.
Reach(grants, secret, cert, extra) ==
    LET gw == Gateway(<<1, 1>>, 1, <<Listener(1, 80, "HTTP", AnyHost, "All"),
                                     [Listener(2, 443, "HTTPS", wild, "Same") EXCEPT
                                        !.tls = ListenerTls("Terminate", <<cert>>)]>>)
        mirror == HttpRouteFilter("RequestMirror", [backend |-> HttpBackendRef(2, 6, 8080), percent |-> 100])
        rule == HttpRouteRule(<<>>, <<HttpBackendRef(2, 5, 8080), HttpBackendRef(0, 5, 8080)>>)
    IN  << <<Class, Doc("Gateway", gw), Web(2, 5), Web(2, 6), secret>>,
           <<Doc("HTTPRoute", HttpRoute(<<1, 3>>, 2, <<ParentReference(0, 1, 0, 0)>>, {},
                                        <<[rule EXCEPT !.filters = <<mirror>>]>>)),
             Doc("HTTPRoute", HttpRoute(<<2, 4>>, 1, <<ParentReference(1, 1, 0, 0)>>, {exact},
                                        <<rule, HttpRouteRule(<<>>, <<HttpBackendRef(0, 6, 8080)>>)>>))>>,
           grants, extra >>

Grant(name, ns, from, to) == Doc("ReferenceGrant", ReferenceGrant(<<ns, name>>, from, to))

Pem == Doc("Secret", Secret(<<2, 7>>, "tls"))

Policy(name, section, refs, wellKnown) ==
    Doc("BackendTLSPolicy", BackendTlsPolicy(<<2, name>>, 1, {[kind |-> "Service", name |-> 5, section |-> section]},
                                             exact, refs, wellKnown))

ReachLoads ==
    \E grants \in {<<>>, <<Grant(1, 2, {<<"HTTPRoute", 1>>}, {<<"Service", 0>>})>>,
                   <<Grant(1, 2, {<<"HTTPRoute", 1>>}, {<<"Service", 5>>})>>,
                   <<Grant(1, 2, {<<"HTTPRoute", 3>>, <<"Gateway", 1>>}, {<<"Service", 0>>, <<"Secret", 7>>})>>,
                   <<Grant(1, 1, {<<"HTTPRoute", 1>>, <<"Gateway", 1>>}, {<<"Service", 0>>, <<"Secret", 0>>})>>,
                   <<Grant(1, 2, {<<"Gateway", 1>>}, {<<"Secret", 0>>}), [kind |-> ""],
                     Grant(1, 2, {<<"HTTPRoute", 1>>}, {<<"Service", 6>>})>>} :
    \E secret \in {Pem, Doc("Secret", Secret(<<2, 7>>, "opaque")),
                   Doc("Secret", [Secret(<<2, 7>>, "tls") EXCEPT !.key = "bad"])} :
    \E cert \in [kind : {"Secret", "ConfigMap"}, ns : {0, 2}, name : {7}] :
    \E extra \in {<<>>, <<Policy(8, 0, <<>>, "System")>>, <<[kind |-> "Pod"]>>, Unreadable,
                  <<Policy(8, 0, <<[kind |-> "ConfigMap", name |-> 9]>>, "")>>,
                  <<Policy(8, 0, <<[kind |-> "ConfigMap", name |-> 9]>>, ""), Policy(9, 1, <<>>, ""),
                    Doc("ConfigMap", ConfigMap(<<2, 9>>, "pem"))>>,
                  <<Doc("Service", [Service(<<2, 5>>, {<<8080, 0>>}) EXCEPT !.tls = "insecure"]),
                    Doc("EndpointSlice", EndpointSlice(<<2, 1>>, 5, <<<<0, 9090>>, <<0, 9091>>>>,
                                                       {[ready |-> TRUE, addresses |-> {"a"}]}))>>} :
        FileInit(Reach(grants, secret, cert, extra), NoFlags)

\* Two routes of one host that match by anything, with what a rule may and may not have.
Mixed(match, filters, backend, label, from, status) ==
    LET gw == [Gateway(<<1, 1>>, 1, <<[Listener(1, 80, "HTTP", AnyHost, from) EXCEPT
                                         !.selector = LabelSelector({<<"tier", "web">>},
                                                                    {[key |-> "env", operator |-> "NotIn",
                                                                      values |-> {"test"}]})],
                                      [Listener(2, 80, "HTTP", exact, "All") EXCEPT !.kinds = {"GRPCRoute"}]>>)
               EXCEPT !.addresses = {[type |-> "IPAddress", value |-> "s"]}]
        rule == HttpRouteRule(<<match>>, <<backend>>)
    IN  << <<Class, Doc("Gateway", gw), Web(1, 5), Web(2, 5),
             Doc("Namespace", Namespace(1, {<<"tier", "web">>, label}))>>,
           <<Doc("HTTPRoute", HttpRoute(<<1, 3>>, 2, <<ParentReference(0, 1, 0, 0)>>, {exact},
                                        <<[rule EXCEPT !.filters = filters, !.timeouts = {status}]>>)),
             Doc("HTTPRoute", HttpRoute(<<1, 4>>, 1, <<ParentReference(0, 1, 2, 0), ParentReference(0, 1, 1, 0)>>,
                                        {wild}, Under(<<Seg("x")>>, HttpBackendRef(0, 5, 8080)))),
             Doc("HTTPRoute", [HttpRoute(<<2, 4>>, 1, <<ParentReference(0, 1, 0, 0)>>, {}, <<>>) EXCEPT
                                 !.held = TRUE])>> >>

MixedLoads ==
    \E match \in {HttpRouteMatch([kind |-> "exact", value |-> Target(<<Seg("x")>>)]),
                  HttpRouteMatch([kind |-> "regex", value |-> [compiles |-> TRUE, path |-> <<Seg("x")>>]]),
                  HttpRouteMatch([kind |-> "regex", value |-> [compiles |-> FALSE, path |-> <<>>]]),
                  HttpRouteMatch([kind |-> "prefix", value |-> Target(<<Seg("..")>>)]),
                  [HttpRouteMatch(None) EXCEPT !.headers = <<<<"h", 1, "Exact">>, <<"h", 2, "Regular">>>>],
                  [HttpRouteMatch(None) EXCEPT !.query = <<<<"q", 1, "Regular">>>>, !.method = 1]} :
    \E filters \in {<<>>, <<HttpRouteFilter("RequestRedirect", [path |-> "prefix", status |-> 302])>>,
                    <<HttpRouteFilter("RequestRedirect", [path |-> "", status |-> 300])>>,
                    <<HttpRouteFilter("URLRewrite", [path |-> "full"]),
                      HttpRouteFilter("RequestHeaderModifier", None)>>,
                    <<HttpRouteFilter("RequestMirror", None)>>} :
    \E backend \in {HttpBackendRef(0, 5, 8080), HttpBackendRef(0, 5, 0), HttpBackendRef(0, 6, 8080),
                    [HttpBackendRef(0, 5, 8080) EXCEPT !.kind = "Pod"]} :
    \E label \in {<<"env", "test">>, <<"env", "live">>} : \E from \in {"Selector", "Same"} :
    \E status \in {"ok", "bad"} :
        FileInit(Mixed(match, filters, backend, label, from, status), NoFlags)

FileLoads ==
    /\ SourceInit([k \in Kinds |-> Empty], {"policy"}, Load(0, {}, 0, 0, 0, 0))
    /\ WriterInit(NoStatus, TRUE)
    /\ CrowdLoads \/ ReachLoads \/ MixedLoads

MCRequests ==
    [host : {<<"e", "a">>, <<"e", "b">>, <<"f">>}, path : {<<>>, <<Seg("x")>>}, method : {1}, fields : {{}}]

-----------------------------------------------------------------------------

Init == KubeLoads \/ FileLoads

MCNext == \/ Next /\ UNCHANGED fileVars
          \/ FileApply /\ UNCHANGED statusVars

Spec == Init /\ [][MCNext]_<<statusVars, fileVars>> /\ Fairness
=============================================================================
