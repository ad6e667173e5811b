----------------------------- MODULE ClusterFeed -----------------------------
(***************************************************************************)
(* What a source that follows the API server promises: whatever is served  *)
(* was translated from contents each kind really had, no kind ever goes    *)
(* back to older contents, and the addresses published are those of the    *)
(* same contents.  KubeSource is shown to implement this.                  *)
(*                                                                         *)
(* history[k] is everything kind k has held, oldest first, as functions    *)
(* from objects to documents.  A document the translator's schema refuses  *)
(* counts as no document.                                                  *)
(***************************************************************************)
EXTENDS Integers, Sequences

CONSTANTS Kinds, Objects,
          KindOf,    \* object -> its kind
          Docs,      \* documents an object can have
          Usable,    \* the ones the schema accepts
          Absent,    \* no document
          Publish    \* the object whose addresses are published (--publish-service)

VARIABLES history,    \* kind -> sequence of contents
          served,     \* kind -> contents translated last, or Absent before the first time
          servedAt,   \* kind -> their place in history
          addresses   \* the document Publish had in them

feedVars == <<history, served, servedAt, addresses>>

Empty == [o \in Objects |-> Absent]

Content == [Objects -> Docs \cup {Absent}]

Accepted(c) == [o \in Objects |-> IF c[o] \in Usable THEN c[o] ELSE Absent]

FeedInit ==
    /\ \A k \in Kinds : Len(history[k]) = 1
    /\ served = Absent
    /\ servedAt = [k \in Kinds |-> 0]
    /\ addresses = Absent

\* The API server's contents change.
Happen ==
    /\ \E k \in Kinds : \E c \in Content : history' = [history EXCEPT ![k] = Append(@, c)]
    /\ UNCHANGED <<served, servedAt, addresses>>

\* A translation is served: for every kind, contents it had, at a place not before the last.
Serve ==
    /\ \A k \in Kinds : servedAt'[k] \in 1 .. Len(history[k]) /\ servedAt'[k] >= servedAt[k]
    /\ served' = [k \in Kinds |-> Accepted(history[k][servedAt'[k]])]
    /\ addresses' = served'[KindOf[Publish]][Publish]
    /\ UNCHANGED history

FeedNext == Happen \/ Serve

FeedSpec == FeedInit /\ [][FeedNext]_feedVars
=============================================================================
