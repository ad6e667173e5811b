----------------------------- MODULE FileSource -----------------------------
(***************************************************************************)
(* The file source of the data plane (source/file.rs): the Gateway API     *)
(* documents of a directory, read once at start, translated and installed. *)
(* What the translation promises about a whole configuration is stated     *)
(* here, over what is installed.                                           *)
(*                                                                         *)
(* A directory is its *.yaml files in the order of their names; a file is  *)
(* its documents, or Unreadable.  A document is [kind, object], [kind |->  *)
(* ""] for an empty one, or of a kind that is not one of Snapshot's for    *)
(* one that does not parse or is not supported.                            *)
(***************************************************************************)
EXTENDS Translation

CONSTANT Requests   \* requests the properties speak of: [host, path, method, fields]

VARIABLES dir,          \* the directory
          settings,     \* the flags that matter to translate
          translation   \* what the store holds: None before the load

fileVars == <<dir, settings, translation>>

Unreadable == <<[kind |-> "unreadable"]>>

\* load_snapshot and from_yaml_docs: no file is an error, and so is any document.
Documents == SelectSeq(FoldLeft(LAMBDA docs, file : docs \o file, <<>>, dir), LAMBDA d : d.kind # "")

loads == dir # <<>> /\ \A i \in DOMAIN Documents : Documents[i].kind \in DOMAIN Snapshot

load_snapshot == FoldLeft(LAMBDA snap, d : insert_json(snap, d.kind, d.object), Snapshot, Documents)

\* apply: once; a directory that does not load leaves the store as it was, and the process ends.
FileApply ==
    /\ translation = None
    /\ loads
    /\ \E snap \in {load_snapshot} : translation' = translate(snap, settings)
    /\ UNCHANGED <<dir, settings>>

FileInit(directory, flags) ==
    /\ dir = directory
    /\ settings = flags
    /\ translation = None

-----------------------------------------------------------------------------
(* Properties *)

Entries == UNION {translation.config.ports[p] : p \in DOMAIN translation.config.ports}

Allowed(kind, ns, toKind, ref) == ref[1] = ns \/ permits(load_snapshot, kind, ns, toKind, ref)

\* Nothing of another namespace is used without a ReferenceGrant of that namespace, whatever other
\* routes and listeners may use: no backend, no mirror, no certificate (grants.rs permits,
\* backends.rs resolve, listeners.rs resolve_tls).
GrantedOnly ==
    translation # None =>
        /\ \A e \in Entries :
              \A k \in {b.cluster : b \in Range(e.rule.backends)} \cup {e.rule.filters.mirror} :
                  k # None => Allowed("HTTPRoute", e.rule.route[1], "Service", k[1])
        /\ \A l \in Range(translation.config.listeners) :
              l.tls # None => Allowed("Gateway", l.gateway[1], "Secret", l.tls)

Listening(p, host) ==
    {s \in DOMAIN translation.config.listeners :
        LET l == translation.config.listeners[s]
        IN  l.port = p /\ (l.host = AnyHost \/ S!HostMatches(l.host, host))}

\* Among the listeners that take a host on a port, the most specific ones.
Owners(p, host) ==
    LET host_of(s) == translation.config.listeners[s].host
    IN  {s \in Listening(p, host) :
            \A t \in Listening(p, host) : ~Less(specificity(host_of(s)), specificity(host_of(t)))}

\* A request goes to the most specific listener that takes its host, whichever Gateway it is of and
\* whatever port it declared, as long as a route there matches: a route attached to a wider listener,
\* of any Gateway moved to the same port, never takes it away (routes.rs yield_to_siblings,
\* precedence.rs key, mod.rs serving_ports).
IsolatedListeners ==
    translation # None =>
        \A p \in DOMAIN translation.config.ports : \A req \in Requests :
            LET winner == match_port(translation.config, p, req)
                own(e) == e.at \in Owners(p, req.host)
            IN  (\E e \in translation.config.ports[p] : own(e) /\ EntryMatches(e, req)) => own(winner)
=============================================================================
