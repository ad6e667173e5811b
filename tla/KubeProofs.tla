------------------------------ MODULE KubeProofs ------------------------------
(***************************************************************************)
(* The Kubernetes source implements ClusterFeed, for any kinds, objects,   *)
(* documents and bounds: whatever it serves is, for every kind, contents   *)
(* the API server had, never older than what was served before, with the   *)
(* published addresses of the same contents.                               *)
(*                                                                         *)
(* What is served is the snapshot, and the snapshot is folded from events  *)
(* that were sent earlier, so the invariant speaks of three places of each *)
(* stream: where the snapshot is (folded), where the watcher is (stream),  *)
(* and every place in between, one per event of the channel (InStep).      *)
(***************************************************************************)
EXTENDS StatusWriter, TLAPS

Places == [at : {"off", "empty", "listing", "watching"}, rv : Nat, sent : SUBSET Objects]

Changes == [kind : Kinds, what : {"Init", "InitApply", "InitDone", "Apply", "Delete"},
            obj : Objects, doc : Docs \cup {Absent}, then : Places]

Restarting == [Off EXCEPT !.at = "empty"]

Present(c) == {o \in Objects : c[o] # Absent}

SourceTyped ==
    /\ history \in [Kinds -> Seq(Content)]
    /\ installed \subseteq Kinds /\ watched \subseteq Kinds /\ synced \subseteq Kinds
    /\ stream \in [Kinds -> Places] /\ folded \in [Kinds -> Places]
    /\ channel \in Seq(Changes)
    /\ phase \in {"down", "wait", "drain"}
    /\ snapshot \in [Kinds -> Content] /\ pending \in [Kinds -> Content]
    /\ known \in [Kinds -> SUBSET Objects]
    /\ seen \in [Kinds -> Nat] /\ servedAt \in [Kinds -> Nat]
    /\ budget.docs \subseteq Docs \cup {Absent}

(* The API server: one object at a time changes, and a kind it does not serve is empty. *)
HistoryInv ==
    /\ \A k \in Kinds : Len(history[k]) >= 1
    /\ \A k \in Kinds : \A i \in 1 .. Len(history[k]) - 1 : \A o, p \in Objects :
          /\ history[k][i + 1][o] # history[k][i][o]
          /\ history[k][i + 1][p] # history[k][i][p]
          => o = p
    /\ \A k \in Kinds \ installed : history[k] = <<Empty>>

(* Place p of a stream is one in the history h of its kind, not before the place served. *)
PlaceOK(h, at, p) ==
    p.at \in {"listing", "watching"} =>
        /\ p.rv \in 1 .. Len(h) /\ at <= p.rv
        /\ p.at = "listing" => p.sent \subseteq Present(h[p.rv])

(* Event c is one that the stream sends at place p. *)
Follows(h, at, p, c) ==
    /\ PlaceOK(h, at, c.then)
    /\ c.what = "Init" =>
          /\ c.then.at = "listing" /\ c.then.sent = {}
          /\ p.at \in {"listing", "watching"} => p.rv <= c.then.rv
    /\ c.what = "InitApply" =>
          /\ p.at = "listing" /\ c.doc = h[p.rv][c.obj]
          /\ c.then = [at |-> "listing", rv |-> p.rv, sent |-> p.sent \cup {c.obj}]
    /\ c.what = "InitDone" =>
          /\ p.at = "listing" /\ p.sent = Present(h[p.rv])
          /\ c.then = [at |-> "watching", rv |-> p.rv, sent |-> {}]
    /\ c.what \in {"Apply", "Delete"} =>
          /\ p.at = "watching" /\ c.then = [at |-> "watching", rv |-> p.rv + 1, sent |-> {}]
          /\ h[p.rv + 1] = [h[p.rv] EXCEPT ![c.obj] = c.doc]

(* places[i] is where every stream was after the first i events of the channel: from where the *)
(* snapshot is, event by event, to where the watchers are.                                     *)
Path(places) ==
    /\ places \in [0 .. Len(channel) -> [Kinds -> Places]]
    /\ places[0] = folded
    /\ \A i \in 0 .. Len(channel) : \A k \in Kinds : PlaceOK(history[k], servedAt[k], places[i][k])
    /\ \A i \in 1 .. Len(channel) :
          /\ channel[i].kind \in watched
          /\ Follows(history[channel[i].kind], servedAt[channel[i].kind],
                     places[i - 1][channel[i].kind], channel[i])
          /\ places[i] = [places[i - 1] EXCEPT ![channel[i].kind] = channel[i].then]
    /\ \A k \in Kinds : stream[k] \in {places[Len(channel)][k], Restarting}

InStep == \E places : Path(places)

(* What the snapshot, known and pending of a kind are of. *)
KindOK(k) ==
    /\ PlaceOK(history[k], servedAt[k], folded[k])
    /\ known[k] = Present(snapshot[k])
    /\ k \in synced =>
          /\ seen[k] \in 1 .. Len(history[k]) /\ servedAt[k] <= seen[k]
          /\ snapshot[k] = Feed!Accepted(history[k][seen[k]])
    /\ k \notin synced => snapshot[k] = Empty /\ seen[k] = 1 /\ folded[k].at # "watching"
    /\ folded[k].at \in {"off", "empty"} => k \notin synced
    /\ folded[k].at = "listing" =>
          /\ seen[k] <= folded[k].rv
          /\ pending[k] = [o \in Objects |->
                IF o \in folded[k].sent THEN history[k][folded[k].rv][o] ELSE Absent]
    /\ folded[k].at = "watching" => seen[k] = folded[k].rv

(* A kind that is not watched has had nothing served of it but that it is empty. *)
WatchedInv ==
    /\ \A k \in Kinds : servedAt[k] \in 0 .. Len(history[k])
    /\ phase # "down" => \A k \in Kinds \ watched :
          /\ history[k][1] = Empty /\ servedAt[k] <= 1
          /\ k \notin synced /\ folded[k] = Off /\ stream[k] = Off
    /\ phase = "down" => channel = <<>> /\ \A k \in Kinds : stream[k] = Off

SourceInv ==
    /\ SourceTyped /\ HistoryInv /\ WatchedInv /\ InStep
    /\ \A k \in Kinds : KindOK(k)
    /\ address = snapshot[KindOf[Publish]][Publish]

-----------------------------------------------------------------------------
LEMMA InitSource == StatusInit => SourceInv
<1> SUFFICES ASSUME StatusInit PROVE SourceInv
  OBVIOUS
<1>1. PICK start \in Starts : SourceInit(start[1], start[2], budget)
  BY DEF StatusInit
<1>2. /\ start[1] \in [Kinds -> Content] /\ start[2] \in SUBSET Kinds
      /\ \A k \in Kinds \ start[2] : start[1][k] = Empty
  BY DEF Starts
<1>3. Empty \in Content /\ Off \in Places
  BY DEF Empty, Content, Off, Places
<1>4. budget.docs \subseteq Docs \cup {Absent}
  BY DEF StatusInit, Bounds
<1>5. SourceTyped
  BY <1>1, <1>2, <1>3, <1>4 DEF SourceTyped, SourceInit
<1>6. HistoryInv
  BY <1>1, <1>2 DEF HistoryInv, SourceInit
<1>7. WatchedInv
  BY <1>1, <1>2 DEF WatchedInv, SourceInit
<1>8. InStep
  <2> DEFINE P == [i \in 0 .. 0 |-> [k \in Kinds |-> Off]]
  <2>1. Path(P)
    BY <1>1, <1>3 DEF Path, SourceInit, PlaceOK, Off
  <2> QED BY <2>1 DEF InStep
<1>9. ASSUME NEW k \in Kinds PROVE KindOK(k)
  BY <1>1, <1>9 DEF KindOK, SourceInit, Off, PlaceOK, Present, Empty
<1>10. address = snapshot[KindOf[Publish]][Publish]
  BY <1>1, KubeSourceAssumption DEF SourceInit, Empty
<1> QED BY <1>5, <1>6, <1>7, <1>8, <1>9, <1>10 DEF SourceInv

-----------------------------------------------------------------------------
(* The API server's contents change, and nothing else. *)
Appended(k, c) ==
    /\ history' = [history EXCEPT ![k] = Append(@, c)]
    /\ UNCHANGED <<installed, stream, channel, phase, watched, state, dirty, store>>
    /\ budget'.docs = budget.docs

LEMMA AppendSource ==
  ASSUME SourceInv, NEW k \in installed, NEW c \in Content, Appended(k, c),
         \A o, p \in Objects : c[o] # Now(k)[o] /\ c[p] # Now(k)[p] => o = p
  PROVE  SourceInv'
<1> USE DEF SourceInv
<1>1. k \in Kinds /\ history[k] \in Seq(Content) /\ Len(history[k]) >= 1
  BY DEF SourceTyped, HistoryInv
<1>2. /\ history' \in [Kinds -> Seq(Content)]
      /\ Len(history'[k]) = Len(history[k]) + 1
      /\ history'[k][Len(history[k]) + 1] = c
      /\ \A i \in 1 .. Len(history[k]) : history'[k][i] = history[k][i]
      /\ \A j \in Kinds \ {k} : history'[j] = history[j]
  BY <1>1 DEF Appended, SourceTyped
<1>3. \A j \in Kinds : /\ Len(history'[j]) \in Nat /\ Len(history[j]) \in Nat
                       /\ Len(history'[j]) >= Len(history[j]) /\ Len(history[j]) >= 1
                       /\ \A i \in 1 .. Len(history[j]) : history'[j][i] = history[j][i]
  <2> TAKE j \in Kinds
  <2>1. history[j] \in Seq(Content) /\ Len(history[j]) >= 1
    BY DEF HistoryInv, SourceTyped
  <2>2. CASE j = k
    BY <2>1, <2>2, <1>2
  <2>3. CASE j # k
    BY <2>1, <2>3, <1>2
  <2> QED BY <2>2, <2>3
<1>4. SourceTyped'
  BY <1>2 DEF SourceTyped, Appended, state, store
<1>5. HistoryInv'
  <2>1. ASSUME NEW j \in Kinds, NEW i \in 1 .. Len(history'[j]) - 1, NEW o \in Objects, NEW p \in Objects,
               history'[j][i + 1][o] # history'[j][i][o], history'[j][i + 1][p] # history'[j][i][p]
        PROVE  o = p
    <3>1. CASE j # k
      <4>1. history'[j] = history[j]
        BY <3>1, <1>2
      <4> QED BY <4>1, <2>1 DEF HistoryInv
    <3>2. CASE j = k /\ i < Len(history[k])
      <4>1. i \in 1 .. Len(history[k]) - 1 /\ i \in 1 .. Len(history[k]) /\ i + 1 \in 1 .. Len(history[k])
        BY <3>2, <1>1
      <4>2. history'[j][i] = history[k][i] /\ history'[j][i + 1] = history[k][i + 1]
        BY <4>1, <3>2, <1>2
      <4> QED BY <4>1, <4>2, <2>1, <1>1 DEF HistoryInv
    <3>3. CASE j = k /\ i = Len(history[k])
      BY <3>3, <2>1, <1>1, <1>2 DEF Now
    <3> QED BY <3>1, <3>2, <3>3, <1>1, <1>2
  <2>2. \A j \in Kinds \ installed' : history'[j] = <<Empty>>
    BY <1>2 DEF HistoryInv, Appended
  <2> QED BY <2>1, <2>2, <1>3 DEF HistoryInv
<1>6. WatchedInv'
  BY <1>3 DEF WatchedInv, Appended, state, store, SourceTyped
<1>7. ASSUME NEW j \in Kinds, NEW p \in Places, PlaceOK(history[j], servedAt[j], p)
      PROVE  PlaceOK(history'[j], servedAt'[j], p)
  BY <1>7, <1>3 DEF PlaceOK, Appended, store, Places, SourceTyped
<1>8. ASSUME NEW e \in Changes, NEW p \in Places, PlaceOK(history[e.kind], servedAt[e.kind], p),
             Follows(history[e.kind], servedAt[e.kind], p, e)
      PROVE  Follows(history'[e.kind], servedAt'[e.kind], p, e)
  <2>1. e.kind \in Kinds /\ e.then \in Places
    BY DEF Changes
  <2>2. p.at \in {"listing", "watching"} => p.rv \in 1 .. Len(history[e.kind])
    BY <1>8 DEF PlaceOK
  <2>3. e.what \in {"Apply", "Delete"} => p.rv + 1 \in 1 .. Len(history[e.kind])
    BY <1>8 DEF Follows, PlaceOK
  <2> QED BY <1>3, <1>7, <1>8, <2>1, <2>2, <2>3 DEF Follows
<1>9. ASSUME NEW j \in Kinds PROVE KindOK(j)'
  BY <1>3, <1>7 DEF KindOK, PlaceOK, Appended, state, store, SourceTyped, Feed!Accepted
<1>10. InStep'
  <2>1. PICK places : Path(places)
    BY DEF InStep
  <2>2. ASSUME NEW i \in 1 .. Len(channel)
        PROVE  /\ channel[i] \in Changes /\ i - 1 \in 0 .. Len(channel)
               /\ places[i - 1] \in [Kinds -> Places] /\ places[i - 1][channel[i].kind] \in Places
    <3>1. channel[i] \in Changes /\ i - 1 \in 0 .. Len(channel)
      BY DEF SourceTyped
    <3> QED BY <2>1, <3>1 DEF Path, Changes
  <2>3. \A i \in 0 .. Len(channel) : \A j \in Kinds : PlaceOK(history[j], servedAt[j], places[i][j])
    BY <2>1 DEF Path
  <2>4. \A i \in 1 .. Len(channel) :
           Follows(history'[channel[i].kind], servedAt'[channel[i].kind],
                   places[i - 1][channel[i].kind], channel[i])
    BY <1>8, <2>1, <2>2, <2>3 DEF Path, Changes, Appended
  <2>5. \A i \in 0 .. Len(channel) : \A j \in Kinds : PlaceOK(history'[j], servedAt'[j], places[i][j])
    BY <1>7, <2>1, <2>3 DEF Path
  <2>6. Path(places)'
    BY <2>1, <2>4, <2>5 DEF Path, Appended, state, store
  <2> QED BY <2>6 DEF InStep
<1>11. address' = snapshot'[KindOf[Publish]][Publish]
  BY DEF Appended, state
<1> QED BY <1>4, <1>5, <1>6, <1>9, <1>10, <1>11

-----------------------------------------------------------------------------
(* A watcher sends an event that its stream may send at the place where it is. *)
LEMMA SendSource ==
  ASSUME SourceInv, NEW c \in Changes, Send(c), stream[c.kind].at # "off",
         \A p \in Places :
            PlaceOK(history[c.kind], servedAt[c.kind], p) /\ stream[c.kind] \in {p, Restarting}
            => Follows(history[c.kind], servedAt[c.kind], p, c)
  PROVE  SourceInv'
<1> USE DEF SourceInv
<1> DEFINE k == c.kind
           n == Len(channel)
<1>1. k \in Kinds /\ c.then \in Places /\ channel \in Seq(Changes) /\ n \in Nat
  BY DEF Changes, SourceTyped
<1>2. UNCHANGED <<history, installed, phase, watched, state, dirty, store, budget>>
  BY DEF Send, api
<1>3. /\ channel' = Append(channel, c) /\ Len(channel') = n + 1 /\ channel' \in Seq(Changes)
      /\ channel'[n + 1] = c /\ \A i \in 1 .. n : channel'[i] = channel[i]
  BY <1>1 DEF Send
<1>4. stream' = [stream EXCEPT ![k] = c.then] /\ stream \in [Kinds -> Places]
  BY DEF Send, SourceTyped
<1>5. phase # "down" /\ k \in watched
  BY <1>1 DEF WatchedInv, Off
<1>6. SourceTyped'
  BY <1>1, <1>2, <1>3, <1>4 DEF SourceTyped, state, store
<1>7. HistoryInv'
  BY <1>2 DEF HistoryInv
<1>8. WatchedInv'
  BY <1>2, <1>4, <1>5 DEF WatchedInv, state, store
<1>11. ASSUME NEW j \in Kinds PROVE KindOK(j)'
  BY <1>2 DEF KindOK, state, store
<1>12. InStep'
  <2>1. PICK places : Path(places)
    BY DEF InStep
  <2>2. PICK m \in Nat : m = n
    BY <1>1
  <2>3. PICK last : last = places[m]
    OBVIOUS
  <2>4. PICK next : next = [i \in 0 .. m + 1 |-> IF i = m + 1 THEN [last EXCEPT ![k] = c.then] ELSE places[i]]
    OBVIOUS
  <2>5. /\ places \in [0 .. m -> [Kinds -> Places]] /\ last \in [Kinds -> Places]
        /\ \A i \in 0 .. m : \A j \in Kinds : PlaceOK(history[j], servedAt[j], places[i][j])
    BY <2>1, <2>2, <2>3, <1>1 DEF Path
  <2>6. last[k] \in Places /\ PlaceOK(history[k], servedAt[k], last[k]) /\ stream[k] \in {last[k], Restarting}
    BY <2>1, <2>2, <2>3, <2>5, <1>1 DEF Path
  <2>7. Follows(history[k], servedAt[k], last[k], c)
    BY <2>6
  <2>8. PlaceOK(history[k], servedAt[k], c.then)
    BY <2>7 DEF Follows
  <2>9. /\ next \in [0 .. m + 1 -> [Kinds -> Places]] /\ next[0] = places[0]
        /\ next[m + 1] = [last EXCEPT ![k] = c.then]
        /\ \A i \in 0 .. m : next[i] = places[i]
    BY <2>4, <2>5, <1>1
  <2>10. \A i \in 0 .. m + 1 : \A j \in Kinds : PlaceOK(history[j], servedAt[j], next[i][j])
    <3> TAKE i \in 0 .. m + 1
    <3>1. CASE i = m + 1
      <4>1. \A j \in Kinds : next[i][j] = IF j = k THEN c.then ELSE places[m][j]
        BY <3>1, <2>3, <2>5, <2>9
      <4>2. m \in 0 .. m
        OBVIOUS
      <4> QED BY <4>1, <4>2, <2>5, <2>8
    <3>2. CASE i \in 0 .. m
      BY <3>2, <2>5, <2>9
    <3> QED BY <3>1, <3>2
  <2>11. ASSUME NEW i \in 1 .. m + 1
         PROVE  /\ channel'[i].kind \in watched
                /\ Follows(history[channel'[i].kind], servedAt[channel'[i].kind],
                           next[i - 1][channel'[i].kind], channel'[i])
                /\ next[i] = [next[i - 1] EXCEPT ![channel'[i].kind] = channel'[i].then]
    <3>1. CASE i = m + 1
      <4>1. channel'[i] = c /\ next[i - 1] = last
        BY <3>1, <2>2, <2>3, <2>9, <1>3
      <4> QED BY <4>1, <3>1, <2>7, <2>9, <1>5
    <3>2. CASE i \in 1 .. m
      <4>1. i - 1 \in 0 .. m
        BY <3>2
      <4>2. channel'[i] = channel[i] /\ next[i] = places[i] /\ next[i - 1] = places[i - 1]
        BY <4>1, <3>2, <2>2, <2>9, <1>3
      <4> QED BY <4>2, <3>2, <2>1, <2>2 DEF Path
    <3> QED BY <3>1, <3>2
  <2>12. \A j \in Kinds : stream'[j] \in {next[m + 1][j], Restarting}
    BY <2>1, <2>2, <2>3, <2>5, <2>9, <1>4 DEF Path
  <2>13. \A i \in 1 .. m + 1 : channel'[i].kind \in Kinds
    <3>1. \A i \in 1 .. m + 1 : channel'[i] \in Changes
      BY <2>2, <1>3
    <3> QED BY <3>1 DEF Changes
  <2>14. /\ Len(channel') = m + 1 /\ next[0] = folded' /\ watched' = watched
         /\ history' = history /\ servedAt' = servedAt
    BY <2>1, <2>2, <2>9, <1>2, <1>3 DEF Path, state, store
  <2>15. Path(next)'
    BY <2>9, <2>10, <2>11, <2>12, <2>14 DEF Path
  <2> QED BY <2>15 DEF InStep
<1>13. address' = snapshot'[KindOf[Publish]][Publish]
  BY <1>2 DEF state
<1> QED BY <1>6, <1>7, <1>8, <1>11, <1>12, <1>13

-----------------------------------------------------------------------------
(* The loop folds the next event of the channel into the snapshot. *)
LEMMA ReceiveSource ==
  ASSUME SourceInv, Receive
  PROVE  SourceInv'
<1> USE DEF SourceInv
<1>1. PICK places : Path(places)
  BY DEF InStep
<1>2. PICK c : c = Head(channel)
  OBVIOUS
<1>3. /\ channel \in Seq(Changes) /\ channel # <<>> /\ channel' = Tail(channel)
      /\ phase \in {"wait", "drain"} /\ phase' = "drain" /\ apply(c)
      /\ UNCHANGED <<history, installed, stream, watched, served, servedAt, addresses, budget>>
  BY <1>2 DEF Receive, SourceTyped, api, store
<1>4. c \in Changes /\ c = channel[1] /\ Len(channel) >= 1 /\ Len(channel) \in Nat
  BY <1>2, <1>3
<1>5. PICK k \in Kinds : k = c.kind
  BY <1>4 DEF Changes
<1>6. PICK h : h = history[k]
  OBVIOUS
<1>7. PICK f : f = folded[k]
  OBVIOUS
<1>8. /\ folded' = [folded EXCEPT ![k] = c.then] /\ c.then \in Places /\ c.obj \in Objects
      /\ c.doc \in Docs \cup {Absent} /\ c.what \in {"Init", "InitApply", "InitDone", "Apply", "Delete"}
  BY <1>3, <1>4, <1>5 DEF apply, Changes
<1>9. Follows(h, servedAt[k], f, c) /\ PlaceOK(h, servedAt[k], f) /\ k \in watched
  <2>1. 1 \in 1 .. Len(channel)
    BY <1>4
  <2>2. /\ Follows(history[c.kind], servedAt[c.kind], places[1 - 1][c.kind], c)
        /\ places[0] = folded /\ c.kind \in watched
    BY <2>1, <1>1, <1>4 DEF Path
  <2>3. Follows(h, servedAt[k], f, c)
    BY <2>2, <1>5, <1>6, <1>7
  <2> QED BY <2>2, <2>3, <1>5, <1>6, <1>7 DEF KindOK
<1>10. h \in Seq(Content) /\ f \in Places /\ folded' \in [Kinds -> Places]
  BY <1>5, <1>6, <1>7, <1>8 DEF SourceTyped
<1>11. InStep'
  <2>1. PICK m \in Nat : m = Len(channel)
    BY <1>4
  <2>2. PICK rest : rest = [i \in 0 .. m - 1 |-> places[i + 1]]
    OBVIOUS
  <2>3. m >= 1 /\ Len(channel') = m - 1 /\ \A i \in 1 .. m - 1 : channel'[i] = channel[i + 1]
    BY <2>1, <1>3, <1>4
  <2>4. /\ places \in [0 .. m -> [Kinds -> Places]]
        /\ rest \in [0 .. m - 1 -> [Kinds -> Places]]
        /\ \A i \in 0 .. m - 1 : rest[i] = places[i + 1] /\ i + 1 \in 0 .. m
    BY <1>1, <2>1, <2>2, <2>3 DEF Path
  <2>5. \A i \in 0 .. m - 1 : \A j \in Kinds : PlaceOK(history[j], servedAt[j], rest[i][j])
    BY <1>1, <2>1, <2>4 DEF Path
  <2>6. ASSUME NEW i \in 1 .. m - 1
        PROVE  /\ channel'[i].kind \in watched
               /\ Follows(history[channel'[i].kind], servedAt[channel'[i].kind],
                          rest[i - 1][channel'[i].kind], channel'[i])
               /\ rest[i] = [rest[i - 1] EXCEPT ![channel'[i].kind] = channel'[i].then]
    <3>1. PICK n \in 1 .. m : n = i + 1
      BY <2>3
    <3>2. channel'[i] = channel[n] /\ rest[i] = places[n] /\ rest[i - 1] = places[n - 1]
      BY <3>1, <2>3, <2>4
    <3> QED BY <3>2, <1>1, <2>1 DEF Path
  <2>7. \A j \in Kinds : stream'[j] \in {rest[m - 1][j], Restarting}
    <3>1. rest[m - 1] = places[m]
      BY <2>3, <2>4
    <3> QED BY <3>1, <1>1, <1>3, <2>1 DEF Path
  <2>8. rest[0] = folded'
    <3>1. rest[0] = places[1] /\ 1 \in 1 .. Len(channel)
      BY <2>1, <2>3, <2>4
    <3>2. places[1] = [places[1 - 1] EXCEPT ![c.kind] = c.then] /\ places[0] = folded
      BY <3>1, <1>1, <1>4 DEF Path
    <3>3. places[1 - 1] = places[0]
      OBVIOUS
    <3> QED BY <3>1, <3>2, <3>3, <1>5, <1>8
  <2>9. history' = history /\ servedAt' = servedAt /\ watched' = watched
    BY <1>3
  <2>10. Path(rest)'
    BY <2>3, <2>4, <2>5, <2>6, <2>7, <2>8, <2>9 DEF Path
  <2> QED BY <2>10 DEF InStep
<1>12. HistoryInv'
  <2>1. history' = history /\ installed' = installed
    BY <1>3
  <2> QED BY <2>1 DEF HistoryInv
<1>13. \A j \in Kinds \ {k} :
          /\ folded'[j] = folded[j] /\ snapshot'[j] = snapshot[j] /\ known'[j] = known[j]
          /\ pending'[j] = pending[j] /\ seen'[j] = seen[j] /\ (j \in synced' <=> j \in synced)
  BY <1>3, <1>5, <1>8 DEF SourceTyped, apply, ApplyInit, ApplyListed, ApplyChange, ApplyDone
<1>14. ASSUME NEW j \in Kinds \ {k} PROVE KindOK(j)'
  <2>1. history' = history /\ servedAt' = servedAt
    BY <1>3
  <2> QED BY <2>1, <1>13 DEF KindOK
<1>15. WatchedInv'
  <2>1. history' = history /\ servedAt' = servedAt /\ stream' = stream /\ watched' = watched
    BY <1>3
  <2>2. \A j \in Kinds \ watched : folded'[j] = folded[j] /\ (j \in synced' <=> j \in synced)
    BY <1>9, <1>13
  <2> QED BY <2>1, <2>2, <1>3 DEF WatchedInv
<1>16. KindOK(k) /\ Empty \in Content /\ Absent \notin Usable
  BY <1>5, KubeSourceAssumption DEF Empty, Content
<1>17. /\ SourceTyped' /\ KindOK(k)' /\ address' = snapshot'[KindOf[Publish]][Publish]
  <2>1. /\ history' = history /\ servedAt' = servedAt /\ folded'[k] = c.then
        /\ PlaceOK(history[k], servedAt[k], c.then)
    BY <1>3, <1>6, <1>8, <1>9 DEF Follows, SourceTyped
  <2>2. /\ channel' \in Seq(Changes) /\ phase' \in {"down", "wait", "drain"}
        /\ UNCHANGED <<history, installed, stream, watched, servedAt, budget>>
    BY <1>3
  <2>3. CASE c.what = "Init"
    <3>1. /\ pending' = [pending EXCEPT ![k] = Empty]
          /\ UNCHANGED <<snapshot, known, synced, address, seen>>
      BY <2>3, <1>3, <1>5 DEF apply, ApplyInit
    <3>2. SourceTyped'
      BY <3>1, <2>2, <1>10, <1>16 DEF SourceTyped
    <3>3. c.then.at = "listing" /\ c.then.sent = {} /\ pending'[k] = Empty
      BY <3>1, <2>3, <1>5, <1>9 DEF Follows, SourceTyped
    <3>4. seen[k] <= c.then.rv
      BY <3>3, <2>1, <2>3, <1>5, <1>7, <1>9, <1>10, <1>16 DEF Follows, PlaceOK, KindOK, Places, SourceTyped
    <3>5. KindOK(k)'
      BY <3>1, <3>3, <3>4, <2>1, <1>16 DEF KindOK, Empty
    <3> QED BY <3>1, <3>2, <3>5
  <2>4. CASE c.what = "InitApply"
    <3>1. /\ pending' = [pending EXCEPT ![k][c.obj] = c.doc]
          /\ UNCHANGED <<snapshot, known, synced, address, seen>>
      BY <2>4, <1>3, <1>5 DEF apply, ApplyListed
    <3>2. pending'[k] = [pending[k] EXCEPT ![c.obj] = c.doc] /\ pending'[k] \in Content
          /\ pending' \in [Kinds -> Content]
      BY <3>1, <1>5, <1>8 DEF SourceTyped, Content
    <3>3. SourceTyped'
      BY <3>1, <3>2, <2>2, <1>10 DEF SourceTyped
    <3>4. /\ f.at = "listing" /\ c.doc = h[f.rv][c.obj]
          /\ c.then = [at |-> "listing", rv |-> f.rv, sent |-> f.sent \cup {c.obj}]
      BY <2>4, <1>9 DEF Follows
    <3>5. pending'[k] = [o \in Objects |-> IF o \in c.then.sent THEN h[c.then.rv][o] ELSE Absent]
      BY <3>2, <3>4, <1>6, <1>7, <1>16 DEF KindOK
    <3>6. KindOK(k)'
      BY <3>1, <3>4, <3>5, <2>1, <1>6, <1>7, <1>16 DEF KindOK
    <3> QED BY <3>1, <3>3, <3>6
  <2>5. CASE c.what \in {"Apply", "Delete"}
    <3>1. ApplyChange(c)
      BY <2>5, <1>3 DEF apply
    <3>2. /\ f.at = "watching" /\ c.then = [at |-> "watching", rv |-> f.rv + 1, sent |-> {}]
          /\ h[f.rv + 1] = [h[f.rv] EXCEPT ![c.obj] = c.doc]
      BY <2>5, <1>9 DEF Follows
    <3>3. /\ k \in synced /\ seen[k] = f.rv /\ f.rv \in 1 .. Len(h) /\ f.rv + 1 \in 1 .. Len(h)
          /\ snapshot[k] = Feed!Accepted(h[f.rv]) /\ known[k] = Present(snapshot[k])
          /\ servedAt[k] <= c.then.rv
      BY <3>2, <2>1, <1>6, <1>7, <1>16 DEF KindOK, PlaceOK
    <3>4. /\ snapshot' = [snapshot EXCEPT ![k] = put(@, c.obj, c.doc)]
          /\ known' = [known EXCEPT ![k] = IF c.doc \in Usable THEN @ \cup {c.obj} ELSE @ \ {c.obj}]
          /\ seen' = [seen EXCEPT ![k] = c.then.rv] /\ pending' = pending /\ synced' = synced
          /\ address' = PublishedBy(k, c.obj, c.doc)
      BY <3>1, <1>5 DEF ApplyChange
    <3>5. /\ snapshot'[k] = put(snapshot[k], c.obj, c.doc) /\ seen'[k] = f.rv + 1
          /\ known'[k] = IF c.doc \in Usable THEN known[k] \cup {c.obj} ELSE known[k] \ {c.obj}
      <4>1. snapshot'[k] = put(snapshot[k], c.obj, c.doc)
        BY <3>4, <1>5 DEF SourceTyped
      <4>2. seen'[k] = f.rv + 1
        BY <3>2, <3>4, <1>5 DEF SourceTyped
      <4>3. known'[k] = IF c.doc \in Usable THEN known[k] \cup {c.obj} ELSE known[k] \ {c.obj}
        BY <3>4, <1>5 DEF SourceTyped
      <4> QED BY <4>1, <4>2, <4>3
    <3>6. h[f.rv] \in Content /\ snapshot[k] \in Content
      BY <3>3, <1>5, <1>10 DEF SourceTyped
    <3>7. snapshot'[k] = Feed!Accepted(h[f.rv + 1])
      BY <3>2, <3>3, <3>5, <3>6, <1>8 DEF put, Feed!Accepted, Content
    <3>8. known'[k] = Present(snapshot'[k])
      BY <3>3, <3>5, <3>6, <1>8, <1>16 DEF put, Present, Content
    <3>9. snapshot'[k] \in Content /\ c.then.rv \in Nat
      BY <3>5, <3>6, <1>8, KubeSourceAssumption DEF put, Content, Places
    <3>10. SourceTyped'
      BY <3>4, <3>5, <3>9, <2>2, <1>5, <1>8, <1>10 DEF SourceTyped
    <3>11. KindOK(k)'
      BY <3>2, <3>3, <3>4, <3>5, <3>7, <3>8, <2>1, <1>6 DEF KindOK
    <3>12. address' = snapshot'[KindOf[Publish]][Publish]
      BY <3>4, <3>5, <3>6, <1>5, <1>8, KubeSourceAssumption DEF PublishedBy, put, Content, SourceTyped
    <3> QED BY <3>10, <3>11, <3>12
  <2>6. CASE c.what = "InitDone"
    <3>1. ApplyDone(c)
      BY <2>6, <1>3 DEF apply
    <3>2. f.at = "listing" /\ f.sent = Present(h[f.rv]) /\ c.then = [at |-> "watching", rv |-> f.rv, sent |-> {}]
      BY <2>6, <1>9 DEF Follows
    <3>3. /\ f.rv \in 1 .. Len(h) /\ servedAt[k] <= f.rv /\ known[k] = Present(snapshot[k])
          /\ pending[k] = [o \in Objects |-> IF o \in f.sent THEN h[f.rv][o] ELSE Absent]
      BY <3>2, <1>6, <1>7, <1>16 DEF KindOK, PlaceOK
    <3>4. h[f.rv] \in Content /\ snapshot[k] \in Content
      BY <3>3, <1>5, <1>10 DEF SourceTyped
    <3>5. pending[k] = h[f.rv]
      BY <3>2, <3>3, <3>4 DEF Present, Content
    <3>6. Relisted(c) = Feed!Accepted(h[f.rv])
      BY <3>3, <3>4, <3>5, <1>5, <1>16 DEF Relisted, Feed!Accepted, Content, Present
    <3>7. /\ snapshot' = [snapshot EXCEPT ![k] = Relisted(c)] /\ pending' = [pending EXCEPT ![k] = Empty]
          /\ known' = [known EXCEPT ![k] = {o \in Objects : pending[k][o] \in Usable}]
          /\ synced' = synced \cup {k} /\ seen' = [seen EXCEPT ![k] = c.then.rv]
          /\ address' = IF /\ KindOf[Publish] = k
                           /\ pending[k][Publish] # Absent \/ Publish \in known[k]
                        THEN Relisted(c)[Publish]
                        ELSE address
      BY <3>1, <1>5 DEF ApplyDone
    <3>8. /\ snapshot'[k] = Feed!Accepted(h[f.rv]) /\ seen'[k] = f.rv
          /\ known'[k] = {o \in Objects : h[f.rv][o] \in Usable}
      BY <3>2, <3>5, <3>6, <3>7, <1>5 DEF SourceTyped
    <3>9. known'[k] = Present(snapshot'[k])
      BY <3>8, <1>16 DEF Feed!Accepted, Present
    <3>10. Feed!Accepted(h[f.rv]) \in Content /\ c.then.rv \in Nat
      BY <3>4, <1>8, KubeSourceAssumption DEF Feed!Accepted, Content, Places
    <3>11. SourceTyped'
      BY <3>6, <3>7, <3>10, <2>2, <1>5, <1>8, <1>10, <1>16 DEF SourceTyped
    <3>12. KindOK(k)'
      BY <3>2, <3>3, <3>7, <3>8, <3>9, <2>1, <1>6 DEF KindOK
    <3>13. address' = snapshot'[KindOf[Publish]][Publish]
      <4>1. CASE KindOf[Publish] = k /\ (pending[k][Publish] # Absent \/ Publish \in known[k])
        BY <4>1, <3>6, <3>7, <3>8
      <4>2. CASE KindOf[Publish] = k /\ pending[k][Publish] = Absent /\ Publish \notin known[k]
        <5>1. snapshot[k][Publish] = Absent /\ address = snapshot[k][Publish]
          BY <4>2, <3>3, KubeSourceAssumption DEF Present
        <5>2. snapshot'[k][Publish] = Absent
          BY <4>2, <3>5, <3>8, KubeSourceAssumption DEF Feed!Accepted
        <5> QED BY <4>2, <5>1, <5>2, <3>7
      <4>3. CASE KindOf[Publish] # k
        BY <4>3, <3>7, KubeSourceAssumption DEF SourceTyped
      <4> QED BY <4>1, <4>2, <4>3
    <3> QED BY <3>11, <3>12, <3>13
  <2> QED BY <2>3, <2>4, <2>5, <2>6, <1>8
<1> QED BY <1>11, <1>12, <1>14, <1>15, <1>17

-----------------------------------------------------------------------------
(* Everything of a run starts empty, or is gone with it. *)
Anew(kinds, p) ==
    /\ Fresh /\ channel' = <<>>
    /\ phase' = p /\ watched' = kinds
    /\ stream' = [k \in Kinds |-> IF k \in kinds THEN Restarting ELSE Off]
    /\ UNCHANGED <<history, installed, store>>
    /\ budget'.docs = budget.docs

LEMMA AnewSource ==
  ASSUME SourceInv, NEW kinds \in SUBSET Kinds, NEW p \in {"down", "wait"}, Anew(kinds, p),
         p = "down" => kinds = {}, p = "wait" => kinds = installed
  PROVE  SourceInv'
<1> USE DEF SourceInv
<1>1. Empty \in Content /\ Off \in Places /\ Restarting \in Places
  BY DEF Empty, Content, Off, Places, Restarting
<1>2. /\ snapshot' = [k \in Kinds |-> Empty] /\ known' = [k \in Kinds |-> {}]
      /\ pending' = [k \in Kinds |-> Empty] /\ synced' = {} /\ address' = Absent
      /\ folded' = [k \in Kinds |-> Off] /\ seen' = [k \in Kinds |-> 1]
      /\ history' = history /\ installed' = installed /\ servedAt' = servedAt
      /\ channel' = <<>> /\ phase' = p /\ watched' = kinds
  BY DEF Anew, Fresh, store
<1>3. SourceTyped'
  BY <1>1, <1>2 DEF SourceTyped, Anew
<1>4. HistoryInv'
  BY <1>2 DEF HistoryInv
<1>5. WatchedInv'
  <2>1. \A k \in Kinds \ installed : history[k][1] = Empty /\ Len(history[k]) = 1
    <3> TAKE k \in Kinds \ installed
    <3>1. history[k] = <<Empty>>
      BY DEF HistoryInv
    <3> QED BY <3>1
  <2>2. \A k \in Kinds : servedAt'[k] \in 0 .. Len(history'[k])
    BY <1>2 DEF WatchedInv
  <2>3. CASE p = "down"
    BY <2>2, <2>3, <1>2 DEF WatchedInv, Anew
  <2>4. CASE p = "wait"
    <3>1. ASSUME NEW k \in Kinds \ watched'
          PROVE  /\ history'[k][1] = Empty /\ servedAt'[k] <= 1
                 /\ k \notin synced' /\ folded'[k] = Off /\ stream'[k] = Off
      <4>1. k \in Kinds \ installed /\ k \notin kinds
        BY <2>4, <3>1, <1>2
      <4>2. history[k][1] = Empty /\ Len(history[k]) = 1 /\ servedAt[k] \in 0 .. Len(history[k])
        BY <4>1, <2>1, <2>2, <1>2
      <4> QED BY <4>1, <4>2, <1>2 DEF Anew
    <3> QED BY <2>2, <2>4, <3>1, <1>2 DEF WatchedInv
  <2> QED BY <2>3, <2>4
<1>6. InStep'
  <2>1. PICK P : P = [i \in 0 .. 0 |-> [k \in Kinds |-> Off]]
    OBVIOUS
  <2>2. /\ P \in [0 .. 0 -> [Kinds -> Places]] /\ P[0] = folded'
        /\ \A i \in 0 .. 0 : \A k \in Kinds : P[i][k] = Off /\ PlaceOK(history'[k], servedAt'[k], P[i][k])
    BY <2>1, <1>1, <1>2 DEF PlaceOK, Off
  <2>3. Len(channel') = 0 /\ \A k \in Kinds : stream'[k] \in {P[0][k], Restarting}
    BY <2>2, <1>2 DEF Anew
  <2>4. Path(P)'
    BY <2>2, <2>3 DEF Path
  <2> QED BY <2>4 DEF InStep
<1>7. ASSUME NEW k \in Kinds PROVE KindOK(k)'
  BY <1>2 DEF KindOK, Off, PlaceOK, Present, Empty
<1>8. address' = snapshot'[KindOf[Publish]][Publish]
  BY <1>2, KubeSourceAssumption DEF Empty
<1> QED BY <1>3, <1>4, <1>5, <1>6, <1>7, <1>8

(* What a swap serves is what ClusterFeed lets be served. *)
LEMMA ReloadSource ==
  ASSUME SourceInv, Reload
  PROVE  SourceInv' /\ [Feed!Serve]_(Feed!feedVars)
<1> USE DEF SourceInv
<1>1. /\ phase = "drain" /\ phase' = "wait" /\ channel = <<>>
      /\ UNCHANGED <<history, installed, stream, channel, watched, snapshot, known, pending, synced,
                     address, folded, seen, budget>>
  BY DEF Reload, api, state
<1>2. CASE UNCHANGED store
  <2>1. UNCHANGED <<history, installed, stream, channel, watched, snapshot, known, pending, synced,
                    address, folded, seen, budget, served, servedAt, addresses>>
    BY <1>1, <1>2 DEF store
  <2>2. SourceTyped' /\ HistoryInv' /\ WatchedInv'
    BY <1>1, <2>1 DEF SourceTyped, HistoryInv, WatchedInv
  <2>3. InStep'
    BY <2>1 DEF InStep, Path
  <2>4. \A k \in Kinds : KindOK(k)'
    BY <2>1 DEF KindOK
  <2> QED BY <2>1, <2>2, <2>3, <2>4 DEF Feed!feedVars
<1>3. CASE served' = snapshot /\ servedAt' = seen /\ addresses' = address /\ watched \subseteq synced
  <2>1. ASSUME NEW k \in Kinds
        PROVE  /\ seen[k] \in 1 .. Len(history[k]) /\ servedAt[k] <= seen[k]
               /\ snapshot[k] = Feed!Accepted(history[k][seen[k]])
    <3>1. CASE k \in watched
      BY <3>1, <1>3 DEF KindOK
    <3>2. CASE k \notin watched
      <4>1. /\ history[k][1] = Empty /\ servedAt[k] <= 1 /\ snapshot[k] = Empty /\ seen[k] = 1
            /\ Len(history[k]) >= 1 /\ Len(history[k]) \in Nat
        BY <3>2, <1>1 DEF WatchedInv, KindOK, HistoryInv, SourceTyped
      <4> QED BY <4>1, KubeSourceAssumption DEF Feed!Accepted, Empty
    <3> QED BY <3>1, <3>2
  <2>2. Feed!Serve
    <3>1. snapshot = [k \in Kinds |-> Feed!Accepted(history[k][seen[k]])]
      BY <2>1 DEF SourceTyped
    <3> QED BY <1>1, <1>3, <2>1, <3>1 DEF Feed!Serve
  <2>3. SourceTyped' /\ HistoryInv'
    BY <1>1, <1>3 DEF SourceTyped, HistoryInv
  <2>4. WatchedInv'
    <3>1. \A k \in Kinds \ watched : seen[k] = 1
      BY <1>1 DEF WatchedInv, KindOK
    <3>2. \A k \in Kinds : seen[k] \in 0 .. Len(history[k])
      BY <2>1
    <3> QED BY <3>1, <3>2, <1>1, <1>3 DEF WatchedInv
  <2>5. ASSUME NEW k \in Kinds PROVE PlaceOK(history[k], seen[k], folded[k])
    BY <2>1 DEF KindOK, PlaceOK, SourceTyped, Places
  <2>6. \A k \in Kinds : KindOK(k)'
    BY <1>1, <1>3, <2>1, <2>5 DEF KindOK, SourceTyped
  <2>7. InStep'
    <3>1. PICK places : Path(places)
      BY DEF InStep
    <3>2. Len(channel) = 0 /\ places[0] = folded
      BY <3>1, <1>1 DEF Path
    <3>3. Path(places)'
      BY <3>1, <3>2, <2>5, <1>1, <1>3 DEF Path
    <3> QED BY <3>3 DEF InStep
  <2> QED BY <1>1, <2>2, <2>3, <2>4, <2>6, <2>7
<1> QED BY <1>2, <1>3 DEF Reload, synced_all

-----------------------------------------------------------------------------
LEMMA WatcherSource ==
  ASSUME SourceInv, NEW k \in Kinds, WatcherStep(k)
  PROVE  SourceInv'
<1> USE DEF SourceInv
<1>0. stream[k] # Restarting => PlaceOK(history[k], servedAt[k], stream[k])
  <2>1. PICK places : Path(places)
    BY DEF InStep
  <2>2. Len(channel) \in 0 .. Len(channel)
    BY DEF SourceTyped
  <2> QED BY <2>1, <2>2 DEF Path
<1>1. /\ history[k] \in Seq(Content) /\ Len(history[k]) >= 1 /\ Len(history[k]) \in Nat
      /\ stream[k] \in Places /\ servedAt[k] \in 0 .. Len(history[k]) /\ Publish \in Objects
  BY KubeSourceAssumption DEF SourceTyped, HistoryInv, WatchedInv
<1>2. CASE ListStarts(k)
  <2>1. PICK c : c = change_of(k, "Init", Publish, Absent,
                               [at |-> "listing", rv |-> Len(history[k]), sent |-> {}])
    OBVIOUS
  <2>2. c \in Changes /\ c.kind = k
    BY <2>1, <1>1 DEF change_of, Changes, Places
  <2>3. ASSUME NEW p \in Places, PlaceOK(history[k], servedAt[k], p) PROVE Follows(history[k], servedAt[k], p, c)
    BY <2>1, <2>3, <1>1 DEF change_of, Follows, PlaceOK
  <2> QED BY <1>2, <2>1, <2>2, <2>3, SendSource DEF ListStarts
<1>3. CASE \E o \in Objects : ListItem(k, o)
  <2>1. PICK o \in Objects : ListItem(k, o)
    BY <1>3
  <2>2. PICK c : c = change_of(k, "InitApply", o, history[k][stream[k].rv][o],
                      [at |-> "listing", rv |-> stream[k].rv, sent |-> stream[k].sent \cup {o}])
    OBVIOUS
  <2>3. stream[k].at = "listing" /\ Send(c) /\ o \in Listed(k)
    BY <2>1, <2>2 DEF ListItem
  <2>4. stream[k] # Restarting
    BY <2>3 DEF Restarting, Off
  <2>6. PlaceOK(history[k], servedAt[k], stream[k])
    BY <2>4, <1>0
  <2>7. stream[k].rv \in 1 .. Len(history[k]) /\ history[k][stream[k].rv] \in Content
    BY <2>3, <2>6, <1>1 DEF PlaceOK
  <2>8. c \in Changes /\ c.kind = k
    BY <2>2, <2>7, <1>1 DEF change_of, Changes, Places, Content
  <2>9. Follows(history[k], servedAt[k], stream[k], c)
    BY <2>2, <2>3, <2>6, <2>7 DEF Follows, PlaceOK, change_of, Listed, Present
  <2> QED BY <2>3, <2>4, <2>8, <2>9, SendSource
<1>4. CASE ListEnds(k)
  <2>2. PICK c : c = change_of(k, "InitDone", Publish, Absent,
                               [at |-> "watching", rv |-> stream[k].rv, sent |-> {}])
    OBVIOUS
  <2>3. stream[k].at = "listing" /\ Send(c) /\ stream[k].sent = Listed(k)
    BY <1>4, <2>2 DEF ListEnds
  <2>4. stream[k] # Restarting
    BY <2>3 DEF Restarting, Off
  <2>6. PlaceOK(history[k], servedAt[k], stream[k])
    BY <2>4, <1>0
  <2>8. c \in Changes /\ c.kind = k
    BY <2>2, <1>1 DEF change_of, Changes, Places
  <2>9. Follows(history[k], servedAt[k], stream[k], c)
    BY <2>2, <2>3, <2>6 DEF Follows, PlaceOK, change_of, Listed, Present
  <2> QED BY <2>3, <2>4, <2>8, <2>9, SendSource
<1>5. CASE \E o \in Objects : WatchSends(k, o)
  <2>1. PICK o \in Objects : WatchSends(k, o)
    BY <1>5
  <2>2. PICK c : c = change_of(k, IF history[k][stream[k].rv + 1][o] = Absent THEN "Delete" ELSE "Apply",
                      o, history[k][stream[k].rv + 1][o],
                      [at |-> "watching", rv |-> stream[k].rv + 1, sent |-> {}])
    OBVIOUS
  <2>3. /\ stream[k].at = "watching" /\ Send(c) /\ stream[k].rv < Len(history[k])
        /\ \/ history[k][stream[k].rv + 1][o] # history[k][stream[k].rv][o]
           \/ history[k][stream[k].rv + 1] = history[k][stream[k].rv]
    BY <2>1, <2>2 DEF WatchSends
  <2>4. stream[k] # Restarting
    BY <2>3 DEF Restarting, Off
  <2>6. PlaceOK(history[k], servedAt[k], stream[k])
    BY <2>4, <1>0
  <2>7. /\ stream[k].rv \in 1 .. Len(history[k]) - 1 /\ stream[k].rv \in Nat
        /\ history[k][stream[k].rv] \in Content /\ history[k][stream[k].rv + 1] \in Content
    BY <2>3, <2>6, <1>1 DEF PlaceOK, Places
  <2>8. c \in Changes /\ c.kind = k
    BY <2>2, <2>7, <1>1 DEF change_of, Changes, Places, Content
  <2>10. \A p \in Objects \ {o} : history[k][stream[k].rv + 1][p] = history[k][stream[k].rv][p]
    BY <2>3, <2>7 DEF HistoryInv
  <2>11. history[k][stream[k].rv + 1] =
             [history[k][stream[k].rv] EXCEPT ![o] = history[k][stream[k].rv + 1][o]]
    BY <2>7, <2>10 DEF Content
  <2>12. Follows(history[k], servedAt[k], stream[k], c)
    BY <2>2, <2>3, <2>6, <2>7, <2>11, <1>1 DEF Follows, PlaceOK, change_of
  <2> QED BY <2>3, <2>4, <2>8, <2>12, SendSource
<1> QED BY <1>2, <1>3, <1>4, <1>5 DEF WatcherStep

LEMMA BreakSource ==
  ASSUME SourceInv, NEW k \in Kinds, StreamBreaks(k)
  PROVE  SourceInv'
<1> USE DEF SourceInv
<1>1. /\ stream[k].at \in {"listing", "watching"}
      /\ stream' = [stream EXCEPT ![k] = Restarting] /\ budget'.docs = budget.docs
      /\ UNCHANGED <<history, installed, channel, phase, watched, snapshot, known, pending, synced,
                     address, folded, seen, served, servedAt, addresses>>
  BY DEF StreamBreaks, Restarting, api, state, store, SourceTyped
<1>2. SourceTyped'
  BY <1>1 DEF SourceTyped, Restarting, Off, Places
<1>3. HistoryInv' /\ WatchedInv'
  <2>1. HistoryInv'
    BY <1>1 DEF HistoryInv
  <2>2. phase # "down" /\ k \in watched
    BY <1>1 DEF WatchedInv, Off
  <2>3. \A j \in Kinds \ watched : stream'[j] = stream[j]
    BY <1>1, <2>2 DEF SourceTyped
  <2> QED BY <1>1, <2>1, <2>2, <2>3 DEF WatchedInv
<1>4. InStep'
  BY <1>1 DEF InStep, Path, SourceTyped
<1>5. \A j \in Kinds : KindOK(j)'
  BY <1>1 DEF KindOK
<1> QED BY <1>1, <1>2, <1>3, <1>4, <1>5

LEMMA InstallSource ==
  ASSUME SourceInv, NEW k \in Kinds, Install(k)
  PROVE  SourceInv'
<1> USE DEF SourceInv
<1>1. /\ installed' = installed \cup {k}
      /\ UNCHANGED <<history, stream, channel, phase, watched, snapshot, known, pending, synced,
                     address, folded, seen, served, servedAt, addresses, budget>>
  BY DEF Install, state, store
<1>2. SourceTyped' /\ HistoryInv' /\ WatchedInv'
  <2>1. SourceTyped'
    BY <1>1 DEF SourceTyped
  <2>2. HistoryInv'
    BY <1>1 DEF HistoryInv
  <2>3. WatchedInv'
    BY <1>1 DEF WatchedInv
  <2> QED BY <2>1, <2>2, <2>3
<1>3. InStep'
  BY <1>1 DEF InStep, Path
<1>4. \A j \in Kinds : KindOK(j)'
  BY <1>1 DEF KindOK
<1> QED BY <1>1, <1>2, <1>3, <1>4

LEMMA IdleSource ==
  ASSUME SourceInv, budget'.docs = budget.docs,
         UNCHANGED <<history, installed, stream, channel, phase, watched, state, store>>
  PROVE  SourceInv'
<1> USE DEF SourceInv, state, store
<1>1. SourceTyped' /\ HistoryInv' /\ WatchedInv'
  BY DEF SourceTyped, HistoryInv, WatchedInv
<1>2. InStep'
  BY DEF InStep, Path
<1>3. \A j \in Kinds : KindOK(j)'
  BY DEF KindOK
<1> QED BY <1>1, <1>2, <1>3

(* A write of an object, or of a status, is a step of ClusterFeed and keeps the invariant. *)
LEMMA WriteSource ==
  ASSUME SourceInv, NEW k \in installed, NEW c \in Content, Appended(k, c),
         \A o, p \in Objects : c[o] # Now(k)[o] /\ c[p] # Now(k)[p] => o = p
  PROVE  SourceInv' /\ Feed!Happen
<1>1. SourceInv'
  BY AppendSource
<1>2. k \in Kinds /\ c \in Feed!Content
  BY DEF SourceInv, SourceTyped, Content, Feed!Content
<1> QED BY <1>1, <1>2 DEF Appended, Feed!Happen, store

-----------------------------------------------------------------------------
(* The steps of the source and of the status writer, one by one: each keeps *)
(* the invariant and is a step of ClusterFeed, or none that it sees.        *)
FeedStep == SourceInv' /\ [Feed!FeedNext]_(Feed!feedVars)

LEMMA StatusStep ==
  ASSUME SourceInv, NEW k \in Kinds, StatusChanges(k), budget'.docs = budget.docs
  PROVE  FeedStep
<1>1. /\ k \in installed /\ Appended(k, Now(k)) /\ Now(k) \in Content
  BY DEF StatusChanges, Appended, Now, SourceInv, SourceTyped, HistoryInv
<1> QED BY <1>1, WriteSource DEF FeedStep, Feed!FeedNext

LEMMA ObjectStep ==
  ASSUME SourceInv, NEW o \in Objects, NEW doc \in Docs \cup {Absent}, Happen(o, doc)
  PROVE  FeedStep
<1>1. PICK k \in Kinds : k = KindOf[o]
  BY KubeSourceAssumption
<1>2. PICK c : c = [Now(k) EXCEPT ![o] = doc]
  OBVIOUS
<1>3. Now(k) \in Content
  BY DEF Now, SourceInv, SourceTyped, HistoryInv
<1>4. c \in Content /\ \A p \in Objects \ {o} : c[p] = Now(k)[p]
  BY <1>2, <1>3 DEF Content
<1>5. k \in installed /\ Appended(k, c)
  BY <1>1, <1>2 DEF Happen, Appended, SourceInv, SourceTyped
<1> QED BY <1>4, <1>5, WriteSource DEF FeedStep, Feed!FeedNext

LEMMA StillStep ==
  ASSUME SourceInv, budget'.docs = budget.docs,
         UNCHANGED <<history, installed, stream, channel, phase, watched, state, store>>
  PROVE  FeedStep
BY IdleSource DEF FeedStep, Feed!feedVars, store

LEMMA UnseenStep ==
  ASSUME SourceInv, UNCHANGED sourceVars
  PROVE  FeedStep
BY StillStep DEF sourceVars, state, store

LEMMA RunStep ==
  ASSUME SourceInv, Run
  PROVE  FeedStep
<1>1. CASE Receive
  <2>1. UNCHANGED <<history, served, servedAt, addresses>>
    BY <1>1 DEF Receive, api, store
  <2> QED BY <1>1, <2>1, ReceiveSource DEF FeedStep, Feed!feedVars
<1>2. CASE Reload
  BY <1>2, ReloadSource DEF FeedStep, Feed!FeedNext
<1>3. CASE Discover
  <2>1. Anew(installed, "wait") /\ installed \in SUBSET Kinds
    BY <1>3 DEF Discover, Anew, resolved, Restarting, api, SourceInv, SourceTyped
  <2> QED BY <2>1, AnewSource DEF FeedStep, Feed!feedVars, Anew, store
<1>4. CASE KindAppears
  <2>1. Anew({}, "down")
    BY <1>4 DEF KindAppears, Stop, Anew, api
  <2> QED BY <2>1, AnewSource DEF FeedStep, Feed!feedVars, Anew, store
<1> QED BY <1>1, <1>2, <1>3, <1>4 DEF Run, Alone, ReloadSends

LEMMA WriteStep ==
  ASSUME SourceInv, NEW t \in Targets, Write(t)
  PROVE  FeedStep
<1>1. KindOf[t] \in Kinds
  BY KubeSourceAssumption DEF Targets
<1>2. CASE Skip(t) \/ Get(t) \/ Patch(t)
  BY <1>2, UnseenStep DEF Skip, Get, Patch
<1>5. CASE GetFails(t)
  <2>1. budget'.docs = budget.docs
    BY <1>5 DEF GetFails, SourceInv, SourceTyped
  <2> QED BY <1>5, <2>1, StillStep DEF GetFails, api
<1>3. CASE PatchLands(t)
  BY <1>1, <1>3, UnseenStep, StatusStep DEF PatchLands, Landed
<1>4. CASE PatchFails(t)
  <2>1. CASE UNCHANGED sourceVars
    BY <2>1, UnseenStep
  <2>2. CASE budget' = [budget EXCEPT !.patches = @ - 1]
    <3>1. budget'.docs = budget.docs
      BY <2>2 DEF SourceInv, SourceTyped
    <3>2. CASE StatusChanges(KindOf[t])
      BY <3>1, <3>2, <1>1, StatusStep
    <3>3. CASE UNCHANGED <<history, installed, stream, channel, phase, watched, state, store>>
      BY <3>1, <3>3, StillStep
    <3> QED BY <1>4, <2>2, <3>2, <3>3, <2>1 DEF PatchFails, api
  <2> QED BY <1>4, <2>1, <2>2 DEF PatchFails
<1> QED BY <1>2, <1>3, <1>4, <1>5 DEF Write

LEMMA OthersStep ==
  ASSUME SourceInv, Others
  PROVE  FeedStep
<1>1. ASSUME NEW o \in Objects, NEW doc \in budget.docs, ObjectHappens(o, doc) PROVE FeedStep
  <2>1. doc \in Docs \cup {Absent}
    BY DEF SourceInv, SourceTyped
  <2> QED BY <1>1, <2>1, ObjectStep DEF ObjectHappens
<1>2. ASSUME NEW k \in Kinds, Install(k) PROVE FeedStep
  BY <1>2, InstallSource DEF FeedStep, Install, Feed!feedVars, store
<1>7. ASSUME NEW k \in Kinds, Permit(k) PROVE FeedStep
  BY <1>7, StillStep DEF Permit
<1>3. ASSUME NEW k \in Kinds, StreamBreaks(k) PROVE FeedStep
  BY <1>3, BreakSource DEF FeedStep, StreamBreaks, Feed!feedVars, store, api
<1>4. CASE TaskEnds
  <2>1. Anew({}, "down")
    BY <1>4 DEF TaskEnds, Stop, Anew, api, SourceInv, SourceTyped
  <2> QED BY <2>1, AnewSource DEF FeedStep, Feed!feedVars, Anew, store
<1>5. CASE LeadChanges
  <2>1. budget'.docs = budget.docs
    BY <1>5 DEF LeadChanges, SourceInv, SourceTyped
  <2> QED BY <1>5, <2>1, StillStep DEF LeadChanges, api
<1>6. ASSUME NEW t \in Targets, NEW status, OthersPatch(t, status) PROVE FeedStep
  <2>1. budget'.docs = budget.docs
    BY <1>6 DEF OthersPatch, SourceInv, SourceTyped
  <2>2. KindOf[t] \in Kinds
    BY KubeSourceAssumption DEF Targets
  <2> QED BY <1>6, <2>1, <2>2, StatusStep DEF OthersPatch
<1> QED BY <1>1, <1>2, <1>3, <1>4, <1>5, <1>6, <1>7 DEF Others, Alone

LEMMA NextStep ==
  ASSUME SourceInv, [Next]_statusVars
  PROVE  FeedStep
<1>1. CASE UNCHANGED statusVars
  BY <1>1, UnseenStep DEF statusVars
<1>2. CASE Run
  BY <1>2, RunStep
<1>3. ASSUME NEW k \in Kinds, WatcherStep(k) PROVE FeedStep
  <2>1. UNCHANGED store /\ history' = history
    BY <1>3 DEF WatcherStep, ListStarts, ListItem, ListEnds, WatchSends, Send, api
  <2> QED BY <1>3, <2>1, WatcherSource DEF FeedStep, Feed!feedVars, store
<1>4. CASE OnLatest \/ OnTick \/ OnLeadership \/ FlushEnds
  BY <1>4, UnseenStep DEF OnLatest, OnTick, OnLeadership, FlushEnds, Flush
<1>5. ASSUME NEW t \in Targets, Write(t) PROVE FeedStep
  BY <1>5, WriteStep
<1>6. CASE Others
  BY <1>6, OthersStep
<1> QED BY <1>1, <1>2, <1>3, <1>4, <1>5, <1>6 DEF Next, Alone

-----------------------------------------------------------------------------
(* The source, with the status writer and everyone else who writes to the   *)
(* API server, implements ClusterFeed (reconcile.rs apply, mod.rs run): no  *)
(* list that fails half way, no relist and no restart makes it serve what   *)
(* no kind ever held, or go back to what it held before.                    *)
THEOREM SourceFollowsCluster == StatusSpec => FollowsCluster
<1>1. StatusInit => Feed!FeedInit
  <2> SUFFICES ASSUME StatusInit PROVE Feed!FeedInit
    OBVIOUS
  <2>1. PICK start \in Starts : SourceInit(start[1], start[2], budget)
    BY DEF StatusInit
  <2>2. \A k \in Kinds : history[k] = <<start[1][k]>>
    BY <2>1 DEF SourceInit
  <2>3. \A k \in Kinds : Len(history[k]) = 1
    BY <2>2
  <2> QED BY <2>1, <2>3 DEF SourceInit, Feed!FeedInit
<1>2. SourceInv /\ [Next]_statusVars => SourceInv' /\ [Feed!FeedNext]_(Feed!feedVars)
  BY NextStep DEF FeedStep
<1> QED BY <1>1, <1>2, InitSource, PTL DEF StatusSpec, FollowsCluster, Feed!FeedSpec

=============================================================================
