---------------------------- MODULE Translation ----------------------------
(***************************************************************************)
(* translate of gapura-core: what the Gateway API objects of a snapshot    *)
(* become for the data plane, and what is said of each object in its       *)
(* status (translate/, input.rs, status.rs), with the matching over the    *)
(* result (matcher.rs, hostname.rs).  Pure definitions.                    *)
(*                                                                         *)
(* Namespaces and names are numbers in their alphabetical order and 0      *)
(* stands for a field that is left out; a reference is <<namespace,        *)
(* name>>, with namespace 0 for objects that have none.  A snapshot is a   *)
(* set of objects for each kind, where they are in a map by ref.  Hosts    *)
(* and paths are those of StoreCompiler; labels and segments count one     *)
(* each where the code counts characters, which orders nested ones alike.  *)
(***************************************************************************)
EXTENDS Integers, SequencesExt, FiniteSetsExt

S == INSTANCE StoreCompiler

\* No value, for a field that holds a record or a tuple; "" for one that holds a string.
None == <<>>

Ok(value) == [ok |-> TRUE, value |-> value]
Err(reason) == [ok |-> FALSE, value |-> reason]

-----------------------------------------------------------------------------
(* Objects, as deserialised (input.rs) *)

GatewayClass(name, controller) == [ref |-> <<0, name>>, controller |-> controller]

Gateway(ref, class, listeners) ==
    [ref |-> ref, class |-> class, listeners |-> listeners, parameters |-> FALSE, addresses |-> {}]

\* from, selector and kinds are allowedRoutes; no kinds is every kind.
Listener(name, port, protocol, host, from) ==
    [name |-> name, port |-> port, protocol |-> protocol, host |-> host, tls |-> None, from |-> from,
     selector |-> None, kinds |-> {}]

ListenerTls(mode, refs) == [mode |-> mode, refs |-> refs]

\* Labels a namespace must have, and requirements [key, operator, values].
LabelSelector(labels, expressions) == [labels |-> labels, expressions |-> expressions]

\* held: its status has entries of this controller.
HttpRoute(ref, created, parents, hosts, rules) ==
    [ref |-> ref, created |-> created, parents |-> parents, hosts |-> hosts, rules |-> rules,
     held |-> FALSE]

ParentReference(ns, name, section, port) ==
    [kind |-> "Gateway", ns |-> ns, name |-> name, section |-> section, port |-> port]

HttpRouteRule(matches, backends) ==
    [matches |-> matches, filters |-> <<>>, backends |-> backends, timeouts |-> {}]

\* path: None or [kind, value]; headers and query: <<name, value, type>>.
HttpRouteMatch(path) == [path |-> path, headers |-> <<>>, query |-> <<>>, method |-> 0]

HttpBackendRef(ns, name, port) ==
    [kind |-> "Service", ns |-> ns, name |-> name, port |-> port, weight |-> 1, filters |-> <<>>]

\* body: what the filter's own field has, or None when it is missing.
HttpRouteFilter(type, body) == [type |-> type, body |-> body]

\* from: <<kind, namespace>>; to: <<kind, name>>, with name 0 for all.
ReferenceGrant(ref, from, to) == [ref |-> ref, from |-> from, to |-> to]

Namespace(name, labels) == [ref |-> <<0, name>>, labels |-> labels]

\* ports: <<port, name>>; tls and limit: what the annotations say.
Service(ref, ports) == [ref |-> ref, ports |-> ports, tls |-> "", limit |-> None]

\* ports: a sequence of <<name, port>>, with 0 for either that is missing.
EndpointSlice(ref, service, ports, endpoints) ==
    [ref |-> ref, service |-> service, fqdn |-> FALSE, ports |-> ports, endpoints |-> endpoints]

\* crt and key: "pem", or "bad" for a field that is missing, no base64, no UTF-8 or no PEM.
Secret(ref, type) == [ref |-> ref, type |-> type, crt |-> "pem", key |-> "pem"]

BackendTlsPolicy(ref, created, targets, hostname, refs, wellKnown) ==
    [ref |-> ref, created |-> created, targets |-> targets, hostname |-> hostname, refs |-> refs,
     wellKnown |-> wellKnown]

ConfigMap(ref, ca) == [ref |-> ref, ca |-> ca]

Snapshot ==
    [GatewayClass |-> {}, Gateway |-> {}, HTTPRoute |-> {}, ReferenceGrant |-> {}, Namespace |-> {},
     Service |-> {}, EndpointSlice |-> {}, Secret |-> {}, BackendTLSPolicy |-> {}, ConfigMap |-> {}]

\* insert_json: by ref into the map of its kind, over what was there; remove takes it out.
insert_json(snap, kind, object) ==
    [snap EXCEPT ![kind] = {x \in @ : x.ref # object.ref} \cup {object}]

remove(snap, kind, ref) == [snap EXCEPT ![kind] = {x \in @ : x.ref # ref}]

Settings(http, https, addresses, overrides) ==
    [http |-> http, https |-> https, addresses |-> addresses, overrides |-> overrides]

Lookup(objects, ref) == {x \in objects : x.ref = ref}

-----------------------------------------------------------------------------
(* hostname.rs.  AnyHost is no hostname. *)

AnyHost == [any |-> TRUE]

\* As a host of its own a wildcard has a literal * as its first label.
AsHost(h) == IF h.wild THEN Append(h.labels, "*") ELSE h.labels

host_matches(pattern, h) == pattern = AnyHost \/ (h # AnyHost /\ S!HostMatches(pattern, AsHost(h)))

specificity(h) == IF h = AnyHost THEN <<0, 0>> ELSE <<IF h.wild THEN 1 ELSE 2, Len(h.labels)>>

Less(a, b) == \E i \in DOMAIN a : a[i] < b[i] /\ \A j \in 1 .. (i - 1) : a[j] = b[j]

\* The narrower of each pair that overlaps; nothing left means no attachment.
intersect(listener, hosts) ==
    CASE hosts = {} -> {listener}
      [] hosts # {} /\ listener = AnyHost -> hosts
      [] OTHER -> {h \in hosts : host_matches(listener, h)}
                    \cup (IF \E h \in hosts : ~host_matches(listener, h) /\ host_matches(h, listener)
                          THEN {listener} ELSE {})

-----------------------------------------------------------------------------
(* grants.rs, allowed.rs, gateway_class.rs *)

permits(snap, kind, ns, toKind, ref) ==
    \E g \in snap.ReferenceGrant : /\ g.ref[1] = ref[1]
                           /\ <<kind, ns>> \in g.from
                           /\ \E t \in g.to : t[1] = toKind /\ t[2] \in {0, ref[2]}

selector_matches(selector, labels) ==
    /\ \A pair \in selector.labels : pair \in labels
    /\ \A e \in selector.expressions :
          LET held == {pair[2] : pair \in {q \in labels : q[1] = e.key}}
          IN  CASE e.operator = "In" -> held \cap e.values # {}
                [] e.operator = "NotIn" -> held \cap e.values = {}
                [] e.operator = "Exists" -> held # {}
                [] e.operator = "DoesNotExist" -> held = {}
                [] OTHER -> FALSE

namespace_ok(snap, l, gatewayNs, routeNs) ==
    CASE l.from = "All" -> TRUE
      [] l.from = "Same" -> routeNs = gatewayNs
      [] l.from = "Selector" -> /\ l.selector # None
                                /\ \E n \in Lookup(snap.Namespace, <<0, routeNs>>) :
                                      selector_matches(l.selector, n.labels)
      [] OTHER -> FALSE

kind_ok(l) == l.kinds = {} \/ "HTTPRoute" \in l.kinds

accept(snap) == {c.ref[2] : c \in {d \in snap.GatewayClass : d.controller = "ours"}}

-----------------------------------------------------------------------------
(* listeners.rs *)

pem_field(value) == value = "pem"

resolve_tls(snap, l, gw) ==
    IF l.tls = None \/ l.tls.refs = <<>> THEN Err("InvalidCertificateRef")
    ELSE LET r == l.tls.refs[1]
             ref == <<IF r.ns = 0 THEN gw.ref[1] ELSE r.ns, r.name>>
             found == Lookup(snap.Secret, ref)
         IN  CASE r.kind # "Secret" -> Err("InvalidCertificateRef")
               [] r.kind = "Secret" /\ ref[1] # gw.ref[1]
                    /\ ~permits(snap, "Gateway", gw.ref[1], "Secret", ref) -> Err("RefNotPermitted")
               [] OTHER -> IF \E s \in found : s.type = "tls" /\ pem_field(s.crt) /\ pem_field(s.key)
                           THEN Ok(ref) ELSE Err("InvalidCertificateRef")

supported_kinds(l) == kind_ok(l) /\ l.protocol \in {"HTTP", "HTTPS"}

\* ResolvedRefs has one reason: an unknown kind before a broken certificate.
build_listener(snap, settings, l, gw) ==
    LET passthrough == l.tls # None /\ l.tls.mode # "Terminate"
        bound == IF l.protocol = "HTTPS" THEN settings.https ELSE settings.http
        terminates == l.protocol = "HTTPS" /\ ~passthrough
        tls == IF terminates THEN resolve_tls(snap, l, gw) ELSE Ok(None)
    IN  [name |-> l.name, port |-> l.port, host |-> l.host,
         protocol |-> IF l.protocol \in {"HTTP", "HTTPS"} THEN l.protocol ELSE "other",
         from |-> l.from, selector |-> l.selector, kinds |-> l.kinds,
         tls |-> IF tls.ok THEN tls.value ELSE None,
         accepted |-> CASE l.protocol \notin {"HTTP", "HTTPS"} -> Err("UnsupportedProtocol")
                        [] l.protocol \in {"HTTP", "HTTPS"} /\ l.port \notin Range(bound) ->
                              Err("PortUnavailable")
                        [] OTHER -> IF l.protocol = "HTTPS" /\ passthrough
                                    THEN Err("UnsupportedProtocol") ELSE Ok(None),
         resolved |-> IF ~(l.kinds \subseteq {"HTTPRoute"}) THEN Err("InvalidRouteKinds")
                      ELSE IF tls.ok THEN Ok(None) ELSE tls,
         supported |-> supported_kinds(l)]

\* With the first other listener of the Gateway that it cannot share its port with.
detect_conflicts(ls, i) ==
    LET clashes == {j \in DOMAIN ls \ {i} : /\ ls[j].port = ls[i].port
                                           /\ \/ ls[j].protocol # ls[i].protocol
                                              \/ ls[j].host = ls[i].host}
    IN  IF clashes = {} THEN "NoConflicts"
        ELSE IF ls[Min(clashes)].protocol # ls[i].protocol THEN "ProtocolConflict"
        ELSE "HostnameConflict"

serves(l) ==
    \/ l.resolved.ok
    \/ /\ l.resolved.value = "InvalidRouteKinds"
       /\ l.supported
       /\ l.protocol # "HTTPS" \/ l.tls # None

programmed(l) == l.accepted.ok /\ l.conflict = "NoConflicts" /\ serves(l)

conditions(l, gatewayOk) ==
    [Accepted |-> l.accepted.ok, Programmed |-> gatewayOk /\ programmed(l), ResolvedRefs |-> l.resolved,
     Conflicted |-> l.conflict]

Rejected(gw) == gw.parameters \/ \E a \in gw.addresses : a.type \notin {"IPAddress", "Hostname"}

build(snap, settings) ==
    LET ours == SetToSortSeq({g \in snap.Gateway : g.class \in accept(snap)},
                             LAMBDA a, b : Less(a.ref, b.ref))
        built(g) == [i \in DOMAIN g.listeners |-> build_listener(snap, settings, g.listeners[i], g)]
    IN  [n \in DOMAIN ours |->
            LET ls == built(ours[n])
            IN  [ref |-> ours[n].ref, rejected |-> Rejected(ours[n]), addresses |-> ours[n].addresses,
                 listeners |-> [i \in DOMAIN ls |-> [conflict |-> detect_conflicts(ls, i)] @@ ls[i]]]]

-----------------------------------------------------------------------------
(* The ports listeners serve on (mod.rs).  A Gateway with an address of its own moves to the next  *)
(* free bound port, all listeners of one declared port together.                                   *)

Slots(gateways) ==
    {<<g, i>> \in UNION {{n} \X DOMAIN gateways[n].listeners : n \in DOMAIN gateways} :
        ~gateways[g].rejected /\ programmed(gateways[g].listeners[i])}

ListenerAt(gateways, slot) == gateways[slot[1]].listeners[slot[2]]

Overridden(settings, gw) == gw.ref \in DOMAIN settings.overrides

addresses_for(settings, gw) ==
    IF Overridden(settings, gw) THEN settings.overrides[gw.ref] ELSE settings.addresses

Group(gateways, slot) ==
    LET l == ListenerAt(gateways, slot) IN <<slot[1], l.protocol, l.port>>

\* remap_targets: in order, each new group takes the first bound port nobody declared or took; 0
\* where there is none.
remap_targets(gateways, settings, slots) ==
    LET declared == {ListenerAt(gateways, s).port : s \in slots}
        order == SetToSortSeq(slots, Less)
        Alloc(targets, s) ==
            LET group == Group(gateways, s)
                pool == IF group[2] = "HTTPS" THEN settings.https ELSE settings.http
                taken == declared \cup Range(targets)
                free == {i \in DOMAIN pool : pool[i] \notin taken}
            IN  IF ~Overridden(settings, gateways[s[1]]) \/ group \in DOMAIN targets THEN targets
                ELSE (group :> IF free = {} THEN 0 ELSE pool[Min(free)]) @@ targets
    IN  FoldLeft(Alloc, <<>>, order)

\* serving_ports: for the attach step; remap_overridden_listeners does the same when assembling.
serving_ports(gateways, settings) ==
    LET slots == Slots(gateways)
        targets == remap_targets(gateways, settings, slots)
    IN  [s \in slots |->
            LET group == Group(gateways, s)
            IN  IF group \in DOMAIN targets /\ targets[group] # 0 THEN targets[group]
                ELSE ListenerAt(gateways, s).port]

-----------------------------------------------------------------------------
(* backends.rs, backend_tls.rs *)

\* The ready addresses, on the first port of the name of each slice of the Service.
build_cluster(snap, ref, portName) ==
    LET slices == {s \in snap.EndpointSlice : s.ref[1] = ref[1] /\ s.service = ref[2] /\ ~s.fqdn}
        ready(s) == UNION {e.addresses : e \in {x \in s.endpoints : x.ready}}
        named(s) == {i \in DOMAIN s.ports : s.ports[i][1] = portName}
        port(s) == {s.ports[i][2] : i \in {j \in named(s) : j = Min(named(s))}} \ {0}
    IN  UNION {ready(s) \X port(s) : s \in slices}

\* The policy for this port: of its own before the Service's, then the oldest, then the first.
select_policy(snap, ref, portName) ==
    LET aimed(q) == {t \in q.targets : t.kind = "Service" /\ t.name = ref[2] /\ t.section \in {0, portName}}
        ranks(q) == {[rank |-> <<IF t.section # 0 THEN 0 ELSE 1, q.created, q.ref[2]>>, policy |-> q] :
                        t \in aimed(q)}
        ranked == UNION {ranks(q) : q \in {r \in snap.BackendTLSPolicy : r.ref[1] = ref[1]}}
    IN  IF ranked = {} THEN None
        ELSE (CHOOSE x \in ranked : \A y \in ranked : ~Less(y.rank, x.rank)).policy

\* refs in their order: the first one that is wrong says what is.
CaProblem(snap, policy, r) ==
    LET found == Lookup(snap.ConfigMap, <<policy.ref[1], r.name>>)
    IN  CASE r.kind # "ConfigMap" -> "InvalidKind"
          [] r.kind = "ConfigMap" /\ found = {} -> "BackendNotFound"
          [] OTHER -> IF \E m \in found : m.ca = "pem" THEN "" ELSE "UnsupportedValue"

ca_bundle(snap, policy) ==
    LET wrong == {i \in DOMAIN policy.refs : CaProblem(snap, policy, policy.refs[i]) # ""}
    IN  CASE policy.refs = <<>> ->
                IF policy.wellKnown = "System" THEN Ok(None) ELSE Err("UnsupportedValue")
          [] policy.refs # <<>> /\ policy.wellKnown # "" -> Err("UnsupportedValue")
          [] OTHER -> IF wrong = {} THEN Ok(policy.refs)
                      ELSE Err(CaProblem(snap, policy, policy.refs[Min(wrong)]))

\* backend_tls::resolve: the annotation turns verification off, a policy says whom to expect.
backend_tls(snap, svc, portName) ==
    LET policy == select_policy(snap, svc.ref, portName)
        insecure == svc.tls = "insecure"
        ca == IF insecure THEN Ok(None) ELSE ca_bundle(snap, policy)
    IN  CASE svc.tls \notin {"", "insecure"} -> Err("UnsupportedValue")
          [] svc.tls = "" /\ policy = None -> Ok(None)
          [] insecure /\ policy = None -> Ok([sni |-> svc.ref, ca |-> None, insecure |-> TRUE])
          [] OTHER -> IF policy.hostname = None THEN Err("UnsupportedValue")
                      ELSE IF ca.ok THEN Ok([sni |-> policy.hostname, ca |-> ca.value, insecure |-> insecure])
                      ELSE ca

Cluster(snap, ref, port) ==
    LET svc == CHOOSE s \in snap.Service : s.ref = ref
        name == (CHOOSE q \in svc.ports : q[1] = port)[2]
    IN  [endpoints |-> build_cluster(snap, ref, name), tls |-> backend_tls(snap, svc, name)]

\* Mutant of May: clusters are looked up before the grants, so that what some route may use all may.
MayByCluster(snap, route, ref) ==
    \E r \in snap.HTTPRoute : \/ ref[1] = r.ref[1]
                               \/ permits(snap, "HTTPRoute", r.ref[1], "Service", ref)

\* What a route may refer to: its own namespace, and where a grant lets it.
May(snap, route, ref) == ref[1] = route.ref[1] \/ permits(snap, "HTTPRoute", route.ref[1], "Service", ref)

ServiceRef(b, route) == <<IF b.ns = 0 THEN route.ref[1] ELSE b.ns, b.name>>

\* resolve: the key of the cluster, or why there is none.
resolve(snap, b, route) ==
    LET ref == ServiceRef(b, route)
    IN  CASE b.kind # "Service" -> Err("InvalidKind")
          [] b.kind = "Service" /\ ~May(snap, route, ref) -> Err("RefNotPermitted")
          [] OTHER ->
                IF b.port = 0 THEN Err("UnsupportedValue")
                ELSE IF ~\E s \in Lookup(snap.Service, ref) : \E q \in s.ports : q[1] = b.port
                THEN Err("BackendNotFound")
                ELSE LET tls == Cluster(snap, ref, b.port).tls
                     IN  IF tls.ok THEN Ok(<<ref, b.port>>) ELSE tls

-----------------------------------------------------------------------------
(* rules.rs.  AnyHost value that is not supported refuses the whole route. *)

\* normalized_path: a value the data plane would refuse as a request path, or with ;params.
normalized_path(value) ==
    IF S!refused_target(value) \/ \E i \in DOMAIN value.path : value.path[i].params
    THEN Err("UnsupportedValue") ELSE Ok(S!normalize_path(value))

\* Segments have no trailing slash left, so normalize_prefix has nothing more to take off.
compile_path(path) ==
    CASE path = None -> Ok([kind |-> "prefix", segs |-> <<>>])
      [] path # None /\ path.kind \in {"exact", "prefix"} ->
            LET p == normalized_path(path.value)
            IN  IF p.ok THEN Ok([kind |-> path.kind, segs |-> p.value]) ELSE p
      [] path # None /\ path.kind = "regex" ->
            IF path.value.compiles THEN Ok([kind |-> "regex", segs |-> path.value.path])
                                   ELSE Err("UnsupportedValue")
      [] OTHER -> Err("UnsupportedValue")

\* Later headers of an equivalent name are ignored, whatever their type.
FirstOfName(hs) == {hs[i] : i \in {j \in DOMAIN hs : \A m \in 1 .. (j - 1) : hs[m][1] # hs[j][1]}}

compile_match(m) ==
    LET path == compile_path(m.path)
    IN  IF path.ok /\ \A h \in FirstOfName(m.headers) \cup Range(m.query) : h[3] = "Exact"
        THEN Ok([path |-> path.value, headers |-> FirstOfName(m.headers), query |-> m.query,
                 method |-> m.method])
        ELSE Err("UnsupportedValue")

\* A path modifier: none (""), "full", "prefix", or one that is not supported.
path_rewrite(p) == p \in {"", "full", "prefix"}

filter_ok(f) ==
    CASE f.type \in {"RequestHeaderModifier", "ResponseHeaderModifier"} -> TRUE
      [] f.type = "RequestRedirect" -> /\ f.body # None /\ path_rewrite(f.body.path)
                                       /\ f.body.status \in {301, 302, 303, 307, 308}
      [] f.type = "URLRewrite" -> f.body # None /\ path_rewrite(f.body.path)
      [] f.type = "RequestMirror" -> f.body # None /\ f.body.backend.weight = 1 /\ f.body.percent = 100
      [] OTHER -> FALSE

OfType(filters, type) == SelectSeq(filters, LAMBDA f : f.type = type)

\* The mirror is left out when its backend did not resolve.
compile_filters(filters, prefixOnly, mirror) ==
    LET rewrites == OfType(filters, "URLRewrite") \o OfType(filters, "RequestRedirect")
    IN  IF /\ \A f \in Range(filters) : Len(OfType(filters, f.type)) = 1 /\ filter_ok(f)
           /\ Len(rewrites) <= 1
           /\ prefixOnly \/ \A f \in Range(rewrites) : f.body.path # "prefix"
        THEN Ok([edits |-> SelectSeq(filters, LAMBDA f : f.type # "RequestMirror"), mirror |-> mirror])
        ELSE Err("UnsupportedValue")

\* The first backend Service with the annotation, granted or not; one it cannot read is no limit.
rate_limit_of(snap, route, backends) ==
    LET svc(b) == Lookup(snap.Service, ServiceRef(b, route))
        asks == SelectSeq(backends, LAMBDA b : \E s \in svc(b) : s.limit # None)
    IN  IF asks = <<>> THEN None
        ELSE LET s == CHOOSE s \in svc(asks[1]) : TRUE IN IF s.limit.valid THEN s.limit ELSE None

MirrorOf(rule) ==
    LET fs == OfType(rule.filters, "RequestMirror")
    IN  IF fs = <<>> \/ fs[1].body = None THEN <<>> ELSE <<fs[1].body.backend>>

\* A rule with its parts compiled: refused whole when a match, a filter, a backend's own filters or a
\* timeout is not supported.
Rule(snap, route, index, matches, mirror, filters, keys) ==
    LET rule == route.rules[index]
    IN  IF /\ filters.ok
           /\ \A b \in Range(rule.backends) : b.filters = <<>>
           /\ "bad" \notin rule.timeouts
        THEN [ok |-> TRUE,
              value |-> [route |-> route.ref, created |-> route.created, index |-> index,
                         timeouts |-> rule.timeouts, filters |-> filters.value,
                         matches |-> {m.value : m \in Range(matches)},
                         backends |-> [i \in DOMAIN keys |->
                                          [cluster |-> IF keys[i].ok THEN keys[i].value ELSE None,
                                           weight |-> Max({0, rule.backends[i].weight})]],
                         limit |-> rate_limit_of(snap, route, rule.backends)],
              errors |-> SelectSeq(mirror \o keys, LAMBDA k : ~k.ok)]
        ELSE [ok |-> FALSE]

MatchesOf(rule) == IF rule.matches = <<>> THEN <<HttpRouteMatch(None)>> ELSE rule.matches

Resolved(snap, route, backends) == [i \in DOMAIN backends |-> resolve(snap, backends[i], route)]

FiltersOf(rule, matches, mirror) ==
    IF \E m \in Range(matches) : ~m.ok THEN Err("UnsupportedValue")
    ELSE compile_filters(rule.filters, \A m \in Range(matches) : m.value.path.kind = "prefix",
                         IF mirror # <<>> /\ mirror[1].ok THEN mirror[1].value ELSE None)

RuleOf(snap, route, index, matches, mirror) ==
    Rule(snap, route, index, matches, mirror, FiltersOf(route.rules[index], matches, mirror),
         Resolved(snap, route, route.rules[index].backends))

compile_rule(snap, route, index) ==
    RuleOf(snap, route, index, [i \in DOMAIN MatchesOf(route.rules[index]) |->
                                   compile_match(MatchesOf(route.rules[index])[i])],
           Resolved(snap, route, MirrorOf(route.rules[index])))

\* compile: the rules, and the reason of the first reference that did not resolve.
Together(rules, errors) ==
    [ok |-> TRUE, rules |-> [i \in DOMAIN rules |-> rules[i].value],
     refs |-> IF errors = <<>> THEN "ResolvedRefs" ELSE errors[1].value]

Compilation(rules) ==
    IF \A r \in Range(rules) : r.ok
    THEN Together(rules, FoldLeft(LAMBDA acc, r : acc \o r.errors, <<>>, rules))
    ELSE [ok |-> FALSE, rules |-> <<>>, refs |-> "ResolvedRefs"]

compile(snap, route) == Compilation([i \in DOMAIN route.rules |-> compile_rule(snap, route, i)])

not_admitted == [ok |-> TRUE, rules |-> <<>>, refs |-> "ResolvedRefs"]

-----------------------------------------------------------------------------
(* routes.rs *)

our_gateway(gateways, pref, route) ==
    {n \in DOMAIN gateways : /\ pref.kind = "Gateway"
                             /\ gateways[n].ref = <<IF pref.ns = 0 THEN route.ref[1] ELSE pref.ns, pref.name>>}

\* The listeners a parentRef means, and those of them that admit the route.
Meant(gateways, pref, n) ==
    {i \in DOMAIN gateways[n].listeners :
        pref.section \in {0, gateways[n].listeners[i].name} /\ pref.port \in {0, gateways[n].listeners[i].port}}

Admits(snap, gateways, n, i, route) ==
    LET l == gateways[n].listeners[i]
    IN  namespace_ok(snap, l, gateways[n].ref[1], route.ref[1]) /\ kind_ok(l)

\* Mutant of yield_to_siblings: only listeners of the same Gateway are siblings.
YieldWithinGateway(gateways, ports, at, hosts) ==
    LET own == ListenerAt(gateways, at)
        claims(h) == \E s \in DOMAIN ports \ {at} :
                        LET l == ListenerAt(gateways, s)
                        IN  /\ s[1] = at[1] /\ l.port = own.port /\ l.protocol = own.protocol
                            /\ Less(specificity(own.host), specificity(l.host))
                            /\ host_matches(l.host, h)
    IN  IF hosts = {AnyHost} THEN hosts ELSE {h \in hosts : ~claims(h)}

\* yield_to_siblings: hosts that a more specific listener served on the same port covers are its.
yield_to_siblings(gateways, ports, at, hosts) ==
    LET own == ListenerAt(gateways, at)
        port == IF at \in DOMAIN ports THEN ports[at] ELSE own.port
        claims(h) ==
            \E s \in DOMAIN ports \ {at} :
                LET l == ListenerAt(gateways, s)
                IN  /\ ports[s] = port /\ l.protocol = own.protocol
                    /\ Less(specificity(own.host), specificity(l.host))
                    /\ host_matches(l.host, h)
    IN  IF hosts = {AnyHost} THEN hosts ELSE {h \in hosts : ~claims(h)}

\* attach_to_gateway for one listener: the hosts the route serves there; {} when it does not attach.
AttachedHosts(snap, gateways, ports, route, n, i) ==
    IF Admits(snap, gateways, n, i, route)
    THEN yield_to_siblings(gateways, ports, <<n, i>>, intersect(gateways[n].listeners[i].host, route.hosts))
    ELSE {}

ParentsOf(gateways, route) == {q \in Range(route.parents) : our_gateway(gateways, q, route) # {}}

\* The listeners a route attaches to, through any of its parentRefs, with its hosts there.
attach(snap, gateways, ports, route) ==
    UNION {UNION {{[at |-> <<n, i>>, hosts |-> AttachedHosts(snap, gateways, ports, route, n, i)] :
                      i \in Meant(gateways, q, n)} : n \in our_gateway(gateways, q, route)} :
              q \in ParentsOf(gateways, route)}

any_listener_admits(snap, gateways, route) ==
    \E q \in ParentsOf(gateways, route) : \E n \in our_gateway(gateways, q, route) :
        \E i \in Meant(gateways, q, n) : Admits(snap, gateways, n, i, route)

Compiled(snap, gateways, route) ==
    IF any_listener_admits(snap, gateways, route) THEN compile(snap, route) ELSE not_admitted

accepted_condition(snap, gateways, ports, route, q, compiled) ==
    LET n == CHOOSE m \in our_gateway(gateways, q, route) : TRUE
        meant == Meant(gateways, q, n)
        allowed == {i \in meant : Admits(snap, gateways, n, i, route)}
    IN  CASE ~compiled.ok -> "UnsupportedValue"
          [] compiled.ok /\ \E i \in meant : AttachedHosts(snap, gateways, ports, route, n, i) # {} ->
                "Accepted"
          [] OTHER -> IF meant = {} THEN "NoMatchingParent"
                      ELSE IF allowed = {} THEN "NotAllowedByListeners"
                      ELSE "NoMatchingListenerHostname"

\* A route that names none of our Gateways any more has our entries taken off its status.
RouteStatus(snap, gateways, ports, route, compiled) ==
    {[ref |-> route.ref, parent |-> q, resolved |-> compiled.refs,
      accepted |-> accepted_condition(snap, gateways, ports, route, q, compiled)] :
        q \in ParentsOf(gateways, route)}
    \cup (IF ParentsOf(gateways, route) = {} /\ route.held
          THEN {[ref |-> route.ref, parent |-> None, resolved |-> "", accepted |-> "Withdrawn"]} ELSE {})

-----------------------------------------------------------------------------
(* precedence.rs: of two entries of a port that match, the one of the smaller key wins. *)

PathRank(m) == CASE m.path.kind = "exact" -> 2 [] m.path.kind = "prefix" -> 1 [] m.path.kind = "regex" -> 0

key(e) ==
    <<-specificity(e.host)[1], -specificity(e.host)[2], -PathRank(e.matcher), -Len(e.matcher.path.segs),
      IF e.matcher.method = 0 THEN 0 ELSE -1, -Cardinality(e.matcher.headers), -Len(e.matcher.query),
      e.rule.created, e.rule.route[1], e.rule.route[2], e.rule.index, e.at[1], e.listener>>

First(entries) == CHOOSE e \in entries : \A f \in entries : ~Less(key(f), key(e))

-----------------------------------------------------------------------------
(* mod.rs *)

\* add_route: an entry for every host and every match of every rule.
add_route(at, name, hosts, rules) ==
    UNION {{[at |-> at, listener |-> name, host |-> h, matcher |-> m, rule |-> r] : <<h, m>> \in hosts \X r.matches} :
              r \in Range(rules)}

same_address(published, requested) == published = requested

GatewayStatus(settings, gw, attached) ==
    LET ok == ~gw.rejected
        up == {i \in DOMAIN gw.listeners : ok /\ programmed(gw.listeners[i])}
        published == addresses_for(settings, gw)
        unassigned == {a \in gw.addresses : ~\E p \in published : same_address(p, a.value)}
    IN  [ref |-> gw.ref, addresses |-> published, attached |-> attached,
         listeners |-> [i \in DOMAIN gw.listeners |-> conditions(gw.listeners[i], ok)],
         accepted |-> IF gw.rejected THEN "Rejected"
                      ELSE IF up = DOMAIN gw.listeners THEN "Accepted"
                      ELSE IF up # {} THEN "SomeListenersNotValid" ELSE "ListenersNotValid",
         programmed |-> IF up = {} THEN "Invalid"
                        ELSE IF unassigned # {} THEN "AddressNotAssigned" ELSE "Programmed"]

\* assemble: programmed listeners with the port they serve on, one table of entries for each port,
\* and the clusters some rule served uses.
Used(e) == {b.cluster : b \in Range(e.rule.backends)} \cup {e.rule.filters.mirror}

assemble(snap, gateways, ports, entries) ==
    [listeners |-> [s \in DOMAIN ports |->
                       LET l == ListenerAt(gateways, s)
                       IN  [port |-> ports[s], declared |-> l.port, host |-> l.host, tls |-> l.tls,
                            gateway |-> gateways[s[1]].ref, protocol |-> l.protocol]],
     ports |-> [p \in Range(ports) |-> {e \in entries : ports[e.at] = p}],
     clusters |-> [k \in UNION {Used(e) : e \in entries} \ {None} |-> Cluster(snap, k[1], k[2])]]

\* What a route attached and compiled adds to the tables of the ports.
Served(gateways, ports, attached, compiled) ==
    UNION {add_route(a.at, ListenerAt(gateways, a.at).name, a.hosts, compiled.rules) :
              a \in {x \in attached : x.at \in DOMAIN ports}}

AttachedRoutes(at, attached) ==
    Cardinality({r \in DOMAIN attached : \E a \in attached[r] : a.at = at /\ a.hosts # {}})

Result(snap, settings, gateways, ports, attached, compiled) ==
    [config |-> assemble(snap, gateways, ports,
                         UNION {Served(gateways, ports, attached[r], compiled[r]) : r \in DOMAIN attached}),
     classes |-> accept(snap),
     gateways |-> [n \in DOMAIN gateways |->
                      GatewayStatus(settings, gateways[n], [i \in DOMAIN gateways[n].listeners |->
                                                               AttachedRoutes(<<n, i>>, attached)])],
     routes |-> UNION {RouteStatus(snap, gateways, ports, r, compiled[r]) : r \in DOMAIN attached}]

TranslateOn(snap, settings, gateways, ports) ==
    Result(snap, settings, gateways, ports,
                [r \in snap.HTTPRoute |-> attach(snap, gateways, ports, r)],
                [r \in snap.HTTPRoute |-> Compiled(snap, gateways, r)])

TranslateFor(snap, settings, gateways) ==
    TranslateOn(snap, settings, gateways, serving_ports(gateways, settings))

translate(snap, settings) == TranslateFor(snap, settings, build(snap, settings))

-----------------------------------------------------------------------------
(* matcher.rs: requests and handshakes on a port *)

EntryMatches(e, req) ==
    /\ e.host = AnyHost \/ S!HostMatches(e.host, req.host)
    /\ S!PathMatches(e.matcher.path, req.path)
    /\ e.matcher.method \in {0, req.method}
    /\ \A h \in e.matcher.headers \cup Range(e.matcher.query) : <<h[1], h[2]>> \in req.fields

match_port(config, port, req) ==
    LET hits == IF port \in DOMAIN config.ports
                THEN {e \in config.ports[port] : EntryMatches(e, req)} ELSE {}
    IN  IF hits = {} THEN None ELSE First(hits)

tls_for(config, port, sni) ==
    LET on == {s \in DOMAIN config.listeners : config.listeners[s].port = port /\ config.listeners[s].tls # None}
        named == {s \in on : config.listeners[s].host # AnyHost /\ S!HostMatches(config.listeners[s].host, sni)}
        any == {s \in on : config.listeners[s].host = AnyHost}
        firstOf(ss) == CHOOSE s \in ss : \A t \in ss : ~Less(t, s)
        best(ss) == {s \in ss : \A t \in ss : ~Less(specificity(config.listeners[s].host),
                                                   specificity(config.listeners[t].host))}
    IN  CASE named # {} -> config.listeners[CHOOSE s \in best(named) : \A t \in best(named) : ~Less(s, t)].tls
          [] named = {} /\ any # {} -> config.listeners[firstOf(any)].tls
          [] OTHER -> IF on = {} THEN None ELSE config.listeners[firstOf(on)].tls
=============================================================================
