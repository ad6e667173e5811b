-------------------------- MODULE RequestPathProofs --------------------------
(***************************************************************************)
(* Proofs about RequestPath, for any requests, generations and statuses    *)
(* that satisfy PathAssumption: a client is answered once, what reaches an *)
(* upstream passed every guard of its route, who is let through as         *)
(* anonymous presented nothing, and no upstream is fed more of a body than *)
(* the limit.                                                              *)
(*                                                                         *)
(* The argument has three parts.  RuleHas: a rule carries, of each kind,   *)
(* the one row that governs its route.  AccessAdmits: a chain that ran to  *)
(* its end without an answer leaves a request that the rows admit; the     *)
(* chain is taken apart step by step, and any_of by the verdicts it        *)
(* settles.  PathInv: what the chain found stays true of the request until *)
(* it is logged, across retries, a swap and every failure.                 *)
(***************************************************************************)
EXTENDS RequestPath, SequenceTheorems, WellFoundedInduction, TLAPS

(* The order of the numbers, as a relation. *)
Less == {p \in Nat \X Nat : p[1] < p[2]}

(* A set of numbers that has a member has a first one. *)
LEMMA FirstIs ==
  ASSUME NEW S \in SUBSET Nat, S # {}
  PROVE  First(S) \in S /\ \A j \in S : First(S) <= j
<1>1. IsWellFoundedOn(Less, Nat)  BY NatLessThanWellFounded DEF OpToRel, Less
<1>2. PICK x \in S : \A y \in S : ~(<<y, x>> \in Less)  BY <1>1, WFMin
<1>3. ASSUME NEW y \in S PROVE x <= y
  <2>1. x \in Nat /\ y \in Nat  OBVIOUS
  <2>2. ~(y < x)
    <3>1. SUFFICES ASSUME y < x PROVE FALSE
      OBVIOUS
    <3>2. <<y, x>> \in Less  BY <2>1, <3>1 DEF Less
    <3> QED  BY <1>2, <3>2
  <2> QED  BY <2>1, <2>2
<1> QED  BY <1>3 DEF First

(* A set that holds 0 and with each number the next one holds them all. *)
LEMMA Induction ==
  ASSUME NEW S, 0 \in S, \A n \in Nat : n \in S => n + 1 \in S
  PROVE  \A n \in Nat : n \in S
<1> SUFFICES ASSUME NEW n \in Nat, n \notin S PROVE FALSE
  OBVIOUS
<1>1. PICK x : x = First(Nat \ S)  OBVIOUS
<1>2. x \in Nat \ S /\ \A j \in Nat \ S : x <= j  BY <1>1, FirstIs
<1>3. x - 1 \in Nat /\ (x - 1) + 1 = x  BY <1>2
<1>4. x - 1 \in S  BY <1>2, <1>3
<1> QED  BY <1>2, <1>3, <1>4

-----------------------------------------------------------------------------
(* The policies of a rule are the rows that govern its route. *)

(* A rank is one of four numbers. *)
LEMMA RankIs == ASSUME NEW row, NEW route PROVE rank(row, route) \in -1 .. 2
  BY DEF rank

(* The row chosen is one of the highest rank, and none is chosen only where none applies. *)
LEMMA MostSpecificIs ==
  ASSUME NEW rows, NEW is \in SUBSET Nat, NEW route, NEW m, m = MostSpecific(rows, is, route)
  PROVE  \/ m = 0 /\ \A i \in is : rank(rows[i], route) = -1
         \/ /\ m \in is /\ rank(rows[m], route) >= 0
            /\ \A j \in is : rank(rows[j], route) <= rank(rows[m], route)
<1>1. PICK apply : apply = {i \in is : rank(rows[i], route) >= 0}  OBVIOUS
<1>2. PICK best : best = {i \in apply : \A j \in apply : rank(rows[j], route) <= rank(rows[i], route)}
  OBVIOUS
<1>3. \A i \in is : rank(rows[i], route) \in -1 .. 2  BY RankIs
<1>4. m = IF apply = {} THEN 0 ELSE First(best)  BY <1>1, <1>2 DEF MostSpecific
<1>5. CASE apply = {}
  <2>1. \A i \in is : ~(rank(rows[i], route) >= 0)  BY <1>1, <1>5
  <2>2. \A i \in is : rank(rows[i], route) = -1  BY <1>3, <2>1
  <2> QED  BY <1>4, <1>5, <2>2
<1>6. CASE apply # {}
  <2>1. best # {}
    <3>1. CASE \E i \in apply : rank(rows[i], route) = 2  BY <1>1, <1>2, <1>3, <3>1
    <3>2. CASE ~(\E i \in apply : rank(rows[i], route) = 2) /\ \E i \in apply : rank(rows[i], route) = 1
      BY <1>1, <1>2, <1>3, <3>2
    <3>3. CASE \A i \in apply : rank(rows[i], route) = 0  BY <1>1, <1>2, <1>3, <1>6, <3>3
    <3> QED  BY <1>1, <1>3, <3>1, <3>2, <3>3
  <2>2. best \in SUBSET Nat /\ best \subseteq apply  BY <1>1, <1>2
  <2>3. m \in best  BY <1>4, <1>6, <2>1, <2>2, FirstIs
  <2>4. \A j \in is : j \in apply \/ rank(rows[j], route) = -1  BY <1>1, <1>3
  <2>5. rank(rows[m], route) \in 0 .. 2 /\ m \in is  BY <1>1, <1>2, <1>3, <2>3
  <2> QED  BY <1>2, <2>3, <2>4, <2>5
<1> QED  BY <1>5, <1>6

(* Stamping keeps the kind of a policy, and all of one that is not about a workspace. *)
LEMMA StampedIs ==
  ASSUME NEW snap, NEW route, NEW p, IsPolicy(p), NEW q, q = Stamped(snap, route, p)
  PROVE  /\ q.kind = p.kind
         /\ p.kind \notin {"key", "jwt", "auth"} => q = p
         /\ p.kind = "key" => q.ws = route.ws /\ q.header = p.header
         /\ p.kind = "jwt" => q.ws = route.ws /\ q.keys = p.keys /\ q.claim = p.claim
         /\ p.kind = "auth" => /\ q.ws = route.ws
                               /\ q.anonymous = IF has_consumer(snap, route.ws, p.anonymous)
                                                THEN p.anonymous ELSE 0
<1>1. CASE p.kind = "key"  BY <1>1 DEF Stamped, IsPolicy
<1>2. CASE p.kind = "jwt"  BY <1>2 DEF Stamped, IsPolicy
<1>3. CASE p.kind = "auth"  BY <1>3 DEF Stamped, IsPolicy
<1>4. CASE p.kind \notin {"key", "jwt", "auth"}  BY <1>4 DEF Stamped
<1> QED  BY <1>1, <1>2, <1>3, <1>4

(* The row of a kind that compile chooses for a route, 0 for none. *)
Chosen(snap, route, k) ==
    MostSpecific(snap.plugins, {i \in DOMAIN snap.plugins : snap.plugins[i].plugin.kind = k}, route)

(* Rows are counted from one. *)
LEMMA RowsFromOne == ASSUME NEW snap, IsSnapshot(snap) PROVE DOMAIN snap.plugins \in SUBSET (Nat \ {0})
<1>1. PICK S : snap.plugins \in Seq(S)  BY DEF IsSnapshot
<1>2. DOMAIN snap.plugins = 1 .. Len(snap.plugins) /\ Len(snap.plugins) \in Nat  BY <1>1
<1> QED  BY <1>2

(* A rule has the policy chosen of each kind. *)
LEMMA RuleHasChosen ==
  ASSUME NEW snap, IsSnapshot(snap), NEW route, NEW k, NEW m, m = Chosen(snap, route, k)
  PROVE  /\ m = 0 => Of(RuleOf(snap, route), k) = {}
         /\ m # 0 => /\ m \in DOMAIN snap.plugins /\ snap.plugins[m].plugin.kind = k
                     /\ Of(RuleOf(snap, route), k) = {Stamped(snap, route, snap.plugins[m].plugin)}
<1>1. PICK rows : rows = snap.plugins  OBVIOUS
<1>2. DOMAIN rows \in SUBSET (Nat \ {0})  BY <1>1, RowsFromOne
<1>3. \A j : Chosen(snap, route, j) # 0 =>
           Chosen(snap, route, j) \in DOMAIN rows /\ rows[Chosen(snap, route, j)].plugin.kind = j
  <2> SUFFICES ASSUME NEW j, Chosen(snap, route, j) # 0
               PROVE  Chosen(snap, route, j) \in DOMAIN rows /\ rows[Chosen(snap, route, j)].plugin.kind = j
    OBVIOUS
  <2>1. PICK is : is = {i \in DOMAIN rows : rows[i].plugin.kind = j}  OBVIOUS
  <2>2. is \in SUBSET Nat  BY <1>2, <2>1
  <2>3. Chosen(snap, route, j) = MostSpecific(rows, is, route)  BY <1>1, <2>1 DEF Chosen
  <2>4. Chosen(snap, route, j) \in is  BY <2>2, <2>3, MostSpecificIs
  <2> QED  BY <2>1, <2>4
<1>4. PICK kinds : kinds = {rows[i].plugin.kind : i \in DOMAIN rows}  OBVIOUS
<1>5. RuleOf(snap, route).plugins =
        {Stamped(snap, route, rows[Chosen(snap, route, j)].plugin) : j \in {j \in kinds : Chosen(snap, route, j) # 0}}
  BY <1>1, <1>4 DEF RuleOf, RouteRule, plugins_for, Found, Chosen
<1>6. \A j : Chosen(snap, route, j) # 0 =>
           Stamped(snap, route, rows[Chosen(snap, route, j)].plugin).kind = j
  <2> SUFFICES ASSUME NEW j, Chosen(snap, route, j) # 0
               PROVE  Stamped(snap, route, rows[Chosen(snap, route, j)].plugin).kind = j
    OBVIOUS
  <2>1. PICK p : p = rows[Chosen(snap, route, j)].plugin  OBVIOUS
  <2>2. IsPolicy(p) /\ p.kind = j  BY <1>1, <1>3, <2>1 DEF IsSnapshot
  <2> QED  BY <2>1, <2>2, StampedIs
<1>7. \A j : Chosen(snap, route, j) # 0 => j \in kinds  BY <1>3, <1>4
<1>8. Of(RuleOf(snap, route), k) = {q \in RuleOf(snap, route).plugins : q.kind = k}  BY DEF Of
<1>9. CASE m = 0  BY <1>5, <1>6, <1>8, <1>9
<1>10. CASE m # 0
  <2>1. m \in DOMAIN rows /\ rows[m].plugin.kind = k  BY <1>3, <1>10
  <2>2. k \in kinds  BY <1>7, <1>10
  <2>3. Of(RuleOf(snap, route), k) = {Stamped(snap, route, rows[m].plugin)}
    BY <1>5, <1>6, <1>8, <1>10, <2>2
  <2> QED  BY <1>1, <1>10, <2>1, <2>3
<1> QED  BY <1>9, <1>10

(* The policy of a kind is that of every row that governs the route, so there is one. *)
LEMMA RuleHas ==
  ASSUME NEW snap, IsSnapshot(snap), NEW route \in Range(snap.routes), NEW k
  PROVE  /\ Governing(snap, route, k) = {} => Of(RuleOf(snap, route), k) = {}
         /\ \A p \in Governing(snap, route, k) :
              /\ Of(RuleOf(snap, route), k) = {Stamped(snap, route, p.plugin)}
              /\ IsPolicy(p.plugin) /\ p.plugin.kind = k
<1>1. PICK rows : rows = snap.plugins  OBVIOUS
<1>2. DOMAIN rows \in SUBSET (Nat \ {0})  BY <1>1, RowsFromOne
<1>3. PICK is : is = {i \in DOMAIN rows : rows[i].plugin.kind = k}  OBVIOUS
<1>4. PICK m : m = Chosen(snap, route, k)  OBVIOUS
<1>5. is \in SUBSET Nat /\ m = MostSpecific(rows, is, route)  BY <1>1, <1>2, <1>3, <1>4 DEF Chosen
<1>6. \/ m = 0 /\ \A i \in is : rank(rows[i], route) = -1
      \/ /\ m \in is /\ rank(rows[m], route) >= 0
         /\ \A j \in is : rank(rows[j], route) <= rank(rows[m], route)
  BY <1>5, MostSpecificIs
<1>7. route.ws # 0 /\ route.name # 0 /\ route.service # 0  BY DEF IsSnapshot
<1>8. \A i \in is : /\ rank(rows[i], route) = 2 <=> rows[i].ws = route.ws /\ rows[i].route = route.name
                    /\ rank(rows[i], route) = 1 <=> rows[i].ws = route.ws /\ rows[i].route = 0
                                                    /\ rows[i].service = route.service
                    /\ rank(rows[i], route) = 0 <=> rows[i].ws = route.ws /\ rows[i].route = 0
                                                    /\ rows[i].service = 0
  BY <1>7 DEF rank
<1>9. \A i, j \in is : /\ rows[i].ws = rows[j].ws /\ rows[i].route = rows[j].route
                       /\ rows[i].route # 0 \/ rows[i].service = rows[j].service
                       => i = j
  <2>1. \A i, j \in DOMAIN snap.plugins :
          LET p == snap.plugins[i]  q == snap.plugins[j]
          IN  /\ p.plugin.kind = q.plugin.kind /\ p.ws = q.ws /\ p.route = q.route
              /\ p.route # 0 \/ p.service = q.service
              => i = j
    BY DEF IsSnapshot
  <2> QED  BY <1>1, <1>3, <2>1
<1>10. PICK R : R = {p \in Range(rows) : p.ws = route.ws /\ p.plugin.kind = k}  OBVIOUS
<1>11. R = {rows[i] : i \in {j \in is : rows[j].ws = route.ws}}  BY <1>3, <1>10 DEF Range
<1>12. PICK own : own = {p \in R : p.route = route.name}  OBVIOUS
<1>13. PICK shared : shared = {p \in R : p.route = 0 /\ p.service = route.service}  OBVIOUS
<1>14. PICK wide : wide = {p \in R : p.route = 0 /\ p.service = 0}  OBVIOUS
<1>15. Governing(snap, route, k) = IF own # {} THEN own ELSE IF shared # {} THEN shared ELSE wide
  BY <1>1, <1>10, <1>12, <1>13, <1>14 DEF Governing
<1>16. \A i \in is : rank(rows[i], route) \in -1 .. 2  BY RankIs
<1>17. own = {rows[i] : i \in {j \in is : rank(rows[j], route) = 2}}  BY <1>8, <1>11, <1>12
<1>18. shared = {rows[i] : i \in {j \in is : rank(rows[j], route) = 1}}  BY <1>8, <1>11, <1>13
<1>19. wide = {rows[i] : i \in {j \in is : rank(rows[j], route) = 0}}  BY <1>8, <1>11, <1>14
<1>20. \A i, j \in is : rank(rows[i], route) = rank(rows[j], route) /\ rank(rows[i], route) >= 0 => i = j
  BY <1>7, <1>8, <1>9, <1>16
<1>21. CASE m = 0
  <2>1. Governing(snap, route, k) = {}
    <3>1. 0 \notin is  BY <1>2, <1>3
    <3>2. \A i \in is : rank(rows[i], route) = -1  BY <1>6, <1>21, <3>1
    <3>3. own = {} /\ shared = {} /\ wide = {}  BY <1>17, <1>18, <1>19, <3>2
    <3> QED  BY <1>15, <3>3
  <2> QED  BY <1>4, <1>21, <2>1, RuleHasChosen
<1>22. CASE m # 0
  <2>1. m \in is /\ rank(rows[m], route) \in 0 .. 2 /\ \A j \in is : rank(rows[j], route) <= rank(rows[m], route)
    BY <1>6, <1>16, <1>22
  <2>2. Governing(snap, route, k) = {rows[m]}
    <3>1. CASE rank(rows[m], route) = 2  BY <1>15, <1>17, <1>20, <2>1, <3>1
    <3>2. CASE rank(rows[m], route) = 1
      <4>1. own = {}  BY <1>17, <2>1, <3>2
      <4> QED  BY <1>15, <1>18, <1>20, <2>1, <3>2, <4>1
    <3>3. CASE rank(rows[m], route) = 0
      <4>1. own = {} /\ shared = {}  BY <1>17, <1>18, <2>1, <3>3
      <4> QED  BY <1>15, <1>19, <1>20, <2>1, <3>3, <4>1
    <3> QED  BY <2>1, <3>1, <3>2, <3>3
  <2>3. Of(RuleOf(snap, route), k) = {Stamped(snap, route, rows[m].plugin)}  BY <1>1, <1>4, <1>22, RuleHasChosen
  <2>4. IsPolicy(rows[m].plugin) /\ rows[m].plugin.kind = k  BY <1>1, <1>3, <2>1 DEF IsSnapshot
  <2> QED  BY <2>2, <2>3, <2>4
<1> QED  BY <1>21, <1>22

-----------------------------------------------------------------------------
(* A chain that goes on to the end found every policy of its rule satisfied. *)

(* One step of the chain. *)
Then(snap, rule, full, c, kind) ==
    IF c.key # "" \/ ~Runs(rule, kind) THEN c ELSE run(snap, rule, req, full, c, kind)

(* The contexts between the steps. *)
ChainRun(f, m, snap, rule, full) ==
    f = [i \in 0 .. m |-> IF i = 0 THEN Begun ELSE Then(snap, rule, full, f[i - 1], Rank[i])]

(* They exist, however long the chain. *)
LEMMA ChainRuns ==
  ASSUME NEW snap, NEW rule, NEW full
  PROVE  \A m \in Nat : \E f : ChainRun(f, m, snap, rule, full)
<1> DEFINE S == {m \in Nat : \E f : ChainRun(f, m, snap, rule, full)}
<1>1. 0 \in S
  <2>1. PICK f : f = [i \in 0 .. 0 |-> Begun]  OBVIOUS
  <2>2. f = [i \in 0 .. 0 |-> IF i = 0 THEN Begun ELSE Then(snap, rule, full, f[i - 1], Rank[i])]
    BY <2>1
  <2> QED  BY <2>2 DEF ChainRun
<1>2. ASSUME NEW m \in Nat, m \in S PROVE m + 1 \in S
  <2>1. PICK f : ChainRun(f, m, snap, rule, full)  BY <1>2
  <2>2. PICK last : last = Then(snap, rule, full, f[m], Rank[m + 1])  OBVIOUS
  <2>3. PICK g : g = [i \in 0 .. m + 1 |-> IF i = m + 1 THEN last ELSE f[i]]  OBVIOUS
  <2>4. \A i \in 0 .. m : g[i] = f[i]  BY <2>3
  <2>5. \A i \in 0 .. m : g[i] = IF i = 0 THEN Begun ELSE Then(snap, rule, full, g[i - 1], Rank[i])
    <3> SUFFICES ASSUME NEW i \in 0 .. m
                 PROVE  g[i] = IF i = 0 THEN Begun ELSE Then(snap, rule, full, g[i - 1], Rank[i])
      OBVIOUS
    <3>1. f[i] = IF i = 0 THEN Begun ELSE Then(snap, rule, full, f[i - 1], Rank[i])  BY <2>1 DEF ChainRun
    <3>2. i # 0 => i - 1 \in 0 .. m  OBVIOUS
    <3> QED  BY <2>4, <3>1, <3>2
  <2>6. g[m + 1] = Then(snap, rule, full, g[m], Rank[m + 1]) /\ (m + 1) - 1 = m /\ m + 1 # 0
    BY <2>2, <2>3, <2>4
  <2>7. \A i \in 0 .. m + 1 : g[i] = IF i = 0 THEN Begun ELSE Then(snap, rule, full, g[i - 1], Rank[i])
    BY <2>5, <2>6
  <2>8. g = [i \in 0 .. m + 1 |-> IF i = 0 THEN Begun ELSE Then(snap, rule, full, g[i - 1], Rank[i])]
    BY <2>3, <2>7
  <2> QED  BY <2>8 DEF ChainRun
<1> HIDE DEF S
<1>3. \A m \in Nat : m \in S  BY <1>1, <1>2, Induction
<1> QED  BY <1>3 DEF S

(* What access returns is the last of them. *)
LEMMA AccessRuns ==
  ASSUME NEW snap, NEW rule, NEW full
  PROVE  \E f : ChainRun(f, 8, snap, rule, full) /\ access(snap, rule, req, full) = f[8]
<1> DEFINE F == CHOOSE f : f = [i \in 0 .. Len(Rank) |->
                    IF i = 0 THEN Begun
                    ELSE IF f[i - 1].key # "" \/ ~Runs(rule, Rank[i]) THEN f[i - 1]
                    ELSE run(snap, rule, req, full, f[i - 1], Rank[i])]
<1>1. Len(Rank) = 8  BY DEF Rank
<1>2. \E f : f = [i \in 0 .. Len(Rank) |->
                    IF i = 0 THEN Begun
                    ELSE IF f[i - 1].key # "" \/ ~Runs(rule, Rank[i]) THEN f[i - 1]
                    ELSE run(snap, rule, req, full, f[i - 1], Rank[i])]
  <2>1. PICK f : ChainRun(f, 8, snap, rule, full)  BY ChainRuns
  <2>2. f = [i \in 0 .. Len(Rank) |->
                    IF i = 0 THEN Begun
                    ELSE IF f[i - 1].key # "" \/ ~Runs(rule, Rank[i]) THEN f[i - 1]
                    ELSE run(snap, rule, req, full, f[i - 1], Rank[i])]
    BY <1>1, <2>1 DEF ChainRun, Then
  <2> QED  BY <2>2
<1>3. F = [i \in 0 .. Len(Rank) |->
                    IF i = 0 THEN Begun
                    ELSE IF F[i - 1].key # "" \/ ~Runs(rule, Rank[i]) THEN F[i - 1]
                    ELSE run(snap, rule, req, full, F[i - 1], Rank[i])]
  BY <1>2
<1>4. access(snap, rule, req, full) = F[Len(Rank)]  BY DEF access
<1> HIDE DEF F
<1>5. ChainRun(F, 8, snap, rule, full)  BY <1>1, <1>3 DEF ChainRun, Then
<1> QED  BY <1>1, <1>4, <1>5

(* The one policy of a kind. *)
LEMMA TheIs == ASSUME NEW rule, NEW k, NEW q, Of(rule, k) = {q} PROVE The(rule, k) = q
<1>1. \A p : p \in rule.plugins /\ p.kind = k <=> p = q  BY DEF Of
<1> QED  BY <1>1 DEF The

(* The consumer of a verdict is not the anonymous one. *)
Known(v) == v.consumer # None => v.consumer.anonymous = FALSE

(* What refuses and what admits. *)
LEMMA VerdictIs ==
  /\ \A k : Refusal(k).key = k /\ Refusal(k).consumer = None
  /\ \A c : Admitted(c).key = "" /\ Admitted(c).consumer = c
  BY DEF Refusal, Admitted

(* A sequence that is not empty has a first member. *)
LEMMA FirstOf ==
  ASSUME NEW s, s \in Seq(Range(s)), s # <<>>
  PROVE  1 \in DOMAIN s /\ s[1] \in Range(s)
<1>1. Len(s) \in Nat /\ Len(s) # 0 /\ DOMAIN s = 1 .. Len(s)
  <2>1. PICK S : S = Range(s)  OBVIOUS
  <2>2. s \in Seq(S)  BY <2>1
  <2>3. Len(s) # 0  BY <2>2, EmptySeq
  <2> QED  BY <2>2, <2>3
<1>2. 1 \in DOMAIN s  BY <1>1
<1> QED  BY <1>2 DEF Range

(* check_jwt admits who has a token the policy's keys verify, and misses only what is not there. *)
LEMMA JwtVerdict ==
  ASSUME IsRequest(req), NEW snap, NEW p, NEW v, v = check_jwt(snap, p, req)
  PROVE  /\ v.key = "" => ByToken(p) # {}
         /\ missing(v) => \A t \in Range(req.authorization) : t.scheme # "bearer"
         /\ Known(v)
<1>1. PICK auth : auth = req.authorization  OBVIOUS
<1>2. auth \in Seq(Range(auth)) /\ Len(auth) \in Nat /\ DOMAIN auth = 1 .. Len(auth)
  <2>1. auth \in Seq(Range(auth))  BY <1>1 DEF IsRequest
  <2> QED  BY <2>1
<1>3. PICK t : t = auth[1]  OBVIOUS
<1>4. PICK c : c = [ws |-> p.ws, name |-> t.name, anonymous |-> FALSE]  OBVIOUS
<1>5. v = IF Len(auth) > 1 THEN Refusal("AuthJwtInvalid")
          ELSE IF auth = <<>> \/ t.scheme # "bearer" THEN Refusal("AuthJwtMissing")
          ELSE IF p.keys = {} THEN Refusal("AuthUnavailable")
          ELSE IF verify(p, t) # "ok" THEN Refusal("AuthJwtInvalid")
          ELSE IF ~p.claim THEN Admitted(None)
          ELSE IF has_consumer(snap, p.ws, t.name) THEN Admitted(c)
          ELSE Refusal("AuthJwtInvalid")
  BY <1>1, <1>3, <1>4 DEF check_jwt
<1>6. c.anonymous = FALSE  BY <1>4
<1>7. v.consumer = None \/ v.consumer = c
  <2>1. v \in {Refusal("AuthJwtInvalid"), Refusal("AuthJwtMissing"), Refusal("AuthUnavailable"),
               Admitted(None), Admitted(c)}
    BY <1>5
  <2> QED  BY <2>1, VerdictIs
<1>8. Known(v)  BY <1>6, <1>7 DEF Known
<1>10. missing(v) => ~(Len(auth) > 1) /\ (auth = <<>> \/ t.scheme # "bearer")
  <2> SUFFICES ASSUME missing(v), Len(auth) > 1 \/ ~(auth = <<>> \/ t.scheme # "bearer") PROVE FALSE
    OBVIOUS
  <2>1. v.key \in {"AuthJwtInvalid", "AuthUnavailable", ""}  BY <1>5, VerdictIs
  <2> QED  BY <2>1 DEF missing
<1>11. missing(v) => \A u \in Range(auth) : u.scheme # "bearer"
  <2> SUFFICES ASSUME missing(v), NEW u \in Range(auth) PROVE u.scheme # "bearer"
    OBVIOUS
  <2>1. ~(Len(auth) > 1) /\ (auth = <<>> \/ t.scheme # "bearer")  BY <1>10
  <2>2. PICK i \in DOMAIN auth : u = auth[i]  BY DEF Range
  <2>3. i = 1 /\ auth # <<>>  BY <1>2, <2>1, <2>2
  <2> QED  BY <1>3, <2>1, <2>2, <2>3
<1>12. v.key = "" => ByToken(p) # {}
  <2> SUFFICES ASSUME v.key = "" PROVE ByToken(p) # {}
    OBVIOUS
  <2>1. auth # <<>> /\ t.scheme = "bearer" /\ verify(p, t) = "ok"  BY <1>5, VerdictIs
  <2>2. t.current /\ \E k \in p.keys : k.secret = t.secret /\ k.kid \in {t.kid, ""}
    BY <2>1 DEF verify
  <2>3. t \in Range(auth)  BY <1>2, <1>3, <2>1, FirstOf
  <2>4. t.name \in ByToken(p)  BY <1>1, <2>1, <2>2, <2>3 DEF ByToken
  <2> QED  BY <2>4
<1> QED  BY <1>1, <1>8, <1>11, <1>12

(* What identify tells: a missing key, an unknown one or a consumer. *)
Tells(snap, key, ws, v) ==
    \/ v = Missing /\ key = ""
    \/ v = Unknown /\ key # ""
    \/ /\ key # "" /\ v # Missing /\ v # Unknown /\ v.anonymous = FALSE
       /\ \E i \in DOMAIN snap.credentials :
            snap.credentials[i].hash = key /\ (ws # 0 => snap.credentials[i].ws = ws)

(* identify tells them apart. *)
LEMMA Identified ==
  ASSUME NEW snap, NEW key, NEW ws, NEW v, v = identify(snap, key, ws)
  PROVE  Tells(snap, key, ws, v)
<1> USE DEF Tells
<1>1. PICK issued : issued = {i \in DOMAIN snap.credentials :
                              snap.credentials[i].hash = key /\ (ws # 0 => snap.credentials[i].ws = ws)}
  OBVIOUS
<1>2. v = IF key = "" THEN Missing ELSE IF issued = {} THEN Unknown ELSE ConsumerOf(snap, issued, ws)
  BY <1>1 DEF identify, Found
<1>3. ConsumerOf(snap, issued, ws).anonymous = FALSE  BY DEF ConsumerOf
<1>4. DOMAIN ConsumerOf(snap, issued, ws) = {"ws", "name", "anonymous"}  BY DEF ConsumerOf
<1>5. DOMAIN Missing = {"refusal"} /\ DOMAIN Unknown = {"refusal"}  BY DEF Missing, Unknown
<1>6. ConsumerOf(snap, issued, ws) # Missing /\ ConsumerOf(snap, issued, ws) # Unknown  BY <1>4, <1>5
<1> QED  BY <1>1, <1>2, <1>3, <1>6

(* check_key admits who sent a key of the workspace, and misses only what is not there. *)
LEMMA KeyVerdict ==
  ASSUME IsRequest(req), NEW snap, NEW p, p.ws # 0, NEW v, v = check_key(snap, p, req)
  PROVE  /\ v.key = "" => ByKey(snap, p.ws, p) # {}
         /\ missing(v) => ~(Values(req.headers, p.header) # <<>> /\ Values(req.headers, p.header)[1] # "")
         /\ Known(v)
<1>1. PICK lines : lines = Values(req.headers, p.header)  OBVIOUS
<1>2. lines \in Seq(STRING)
  <2>1. <<>> \in Seq(STRING)  OBVIOUS
  <2>2. \A n \in DOMAIN req.headers : req.headers[n] \in Seq(STRING)  BY DEF IsRequest
  <2> QED  BY <1>1, <2>1, <2>2 DEF Values
<1>3. PICK key : key = IF lines = <<>> THEN "" ELSE Head(lines)  OBVIOUS
<1>4. lines # <<>> => key = lines[1]  BY <1>2, <1>3
<1>5. PICK id : id = identify(snap, key, p.ws)  OBVIOUS
<1>6. v = CASE id = Missing -> Refusal("AuthKeyMissing")
            [] id = Unknown -> Refusal("AuthKeyInvalid")
            [] OTHER -> Admitted(id)
  BY <1>1, <1>3, <1>5 DEF check_key
<1>7. Missing # Unknown  BY DEF Missing, Unknown
<1>8. CASE id = Missing /\ key = ""
  <2>1. v = Refusal("AuthKeyMissing")  BY <1>6, <1>7, <1>8
  <2>2. ~(lines # <<>> /\ lines[1] # "")  BY <1>4, <1>8
  <2>3. v.key # "" /\ v.consumer = None  BY <2>1, VerdictIs, ZenonT(60)
  <2> QED  BY <1>1, <2>2, <2>3 DEF Known
<1>9. CASE id = Unknown /\ key # ""
  <2>1. v = Refusal("AuthKeyInvalid")  BY <1>6, <1>7, <1>9
  <2> QED  BY <2>1, VerdictIs, ZenonT(60) DEF missing, Known
<1>10. CASE /\ key # "" /\ id # Missing /\ id # Unknown /\ id.anonymous = FALSE
            /\ \E i \in DOMAIN snap.credentials :
                 snap.credentials[i].hash = key /\ (p.ws # 0 => snap.credentials[i].ws = p.ws)
  <2>1. v = Admitted(id)  BY <1>6, <1>10
  <2>2. PICK i \in DOMAIN snap.credentials : snap.credentials[i].hash = key /\ snap.credentials[i].ws = p.ws
    BY <1>10
  <2>3. lines # <<>> /\ key = lines[1]  BY <1>3, <1>4, <1>10
  <2>4. snap.credentials[i] \in Range(snap.credentials)  BY DEF Range
  <2>5. snap.credentials[i].consumer \in ByKey(snap, p.ws, p)  BY <1>1, <2>2, <2>3, <2>4 DEF ByKey
  <2> QED  BY <1>10, <2>1, <2>5, VerdictIs DEF missing, Known
<1>11. Tells(snap, key, p.ws, id)  BY <1>5, Identified
<1> QED  BY <1>8, <1>9, <1>10, <1>11 DEF Tells

(* Two sequences of one make a pair. *)
LEMMA Pair ==
  ASSUME NEW a, NEW b, NEW s, s = <<a>> \o <<b>>
  PROVE  DOMAIN s = 1 .. 2 /\ Len(s) = 2 /\ {s[i] : i \in DOMAIN s} = {a, b}
<1>1. PICK S : S = {a, b}  OBVIOUS
<1>2. PICK one : one = <<a>>  OBVIOUS
<1>3. PICK two : two = <<b>>  OBVIOUS
<1>4. one \in Seq(S) /\ Len(one) = 1 /\ one[1] = a  BY <1>1, <1>2
<1>5. two \in Seq(S) /\ Len(two) = 1 /\ two[1] = b  BY <1>1, <1>3
<1>6. s \in Seq(S) /\ Len(s) = Len(one) + Len(two)
      /\ \A i \in 1 .. Len(one) + Len(two) : s[i] = IF i <= Len(one) THEN one[i] ELSE two[i - Len(one)]
  BY <1>2, <1>3, <1>4, <1>5, ConcatProperties
<1>7. Len(s) = 2 /\ DOMAIN s = 1 .. 2  BY <1>4, <1>5, <1>6
<1>8. s[1] = a /\ s[2] = b  BY <1>4, <1>5, <1>6
<1>9. \A i \in DOMAIN s : i = 1 \/ i = 2  BY <1>7
<1>10. 1 \in DOMAIN s /\ 2 \in DOMAIN s  BY <1>7
<1>11. {s[i] : i \in DOMAIN s} = {a, b}  BY <1>8, <1>9, <1>10
<1> QED  BY <1>7, <1>11

(* What any_of settles on: the first verdict that is not missing, or the anonymous consumer's. *)
LEMMA Settled ==
  ASSUME NEW snap, NEW rule, NEW vs, NEW n \in Nat \ {0}, DOMAIN vs = 1 .. n, Len(vs) = n,
         NEW v, v = Settle(snap, rule, vs, Found(vs, LAMBDA u : ~missing(u)))
  PROVE  \/ \E i \in 1 .. n : ~missing(vs[i]) /\ v = vs[i]
         \/ /\ \A i \in 1 .. n : missing(vs[i])
            /\ \/ v = Admitted(Anonymous(snap, rule)) /\ Anonymous(snap, rule) # None
               \/ v.key # "" /\ v.consumer = None
               \/ v = vs[1]
<1>1. PICK presented : presented = {i \in 1 .. n : ~missing(vs[i])}  OBVIOUS
<1>2. PICK a : a = Anonymous(snap, rule)  OBVIOUS
<1>3. Found(vs, LAMBDA u : ~missing(u)) = presented  BY <1>1 DEF Found
<1>4. v = Settle(snap, rule, vs, presented)  BY <1>3
<1>5. v = CASE presented # {} -> vs[First(presented)]
            [] presented = {} /\ a # None -> Admitted(a)
            [] OTHER -> IF Len(vs) = 1 THEN vs[1] ELSE Refusal("AuthMissing")
  BY <1>2, <1>4 DEF Settle
<1>6. CASE presented # {}
  <2>1. v = vs[First(presented)]  BY <1>5, <1>6
  <2>2. presented \in SUBSET Nat  BY <1>1
  <2>3. First(presented) \in presented  BY <1>6, <2>2, FirstIs
  <2> QED  BY <1>1, <2>1, <2>3
<1>7. CASE presented = {}
  <2>1. \A i \in 1 .. n : missing(vs[i])  BY <1>1, <1>7
  <2>2. (v = Admitted(a) /\ a # None) \/ v = vs[1] \/ v = Refusal("AuthMissing")  BY <1>5, <1>7
  <2> QED  BY <1>2, <2>1, <2>2, VerdictIs
<1> QED  BY <1>6, <1>7

(* The verdicts on the credentials a rule asks for. *)
VerdictSet(snap, rule) ==
    {check_jwt(snap, The(rule, k), req) : k \in {k \in {"jwt"} : Of(rule, k) # {}}}
      \union {check_key(snap, The(rule, k), req) : k \in {k \in {"key"} : Of(rule, k) # {}}}

(* The verdicts of an auth policy: one of each credential the rule has. *)
LEMMA VerdictsAre ==
  ASSUME NEW snap, NEW rule, Of(rule, "jwt") \union Of(rule, "key") # {},
         NEW vs, vs = Verdicts(snap, rule, req)
  PROVE  /\ \E n \in Nat \ {0} : DOMAIN vs = 1 .. n /\ Len(vs) = n
         /\ {vs[i] : i \in DOMAIN vs} = VerdictSet(snap, rule)
<1>1. PICK a : a = check_jwt(snap, The(rule, "jwt"), req)  OBVIOUS
<1>2. PICK b : b = check_key(snap, The(rule, "key"), req)  OBVIOUS
<1>3. vs = (IF Of(rule, "jwt") = {} THEN <<>> ELSE <<a>>) \o (IF Of(rule, "key") = {} THEN <<>> ELSE <<b>>)
  BY <1>1, <1>2 DEF Verdicts
<1>4. CASE Of(rule, "jwt") # {} /\ Of(rule, "key") # {}
  <2>1. vs = <<a>> \o <<b>>  BY <1>3, <1>4
  <2>2. DOMAIN vs = 1 .. 2 /\ Len(vs) = 2 /\ {vs[i] : i \in DOMAIN vs} = {a, b}  BY <2>1, Pair
  <2> QED  BY <1>1, <1>2, <1>4, <2>2 DEF VerdictSet
<1>5. CASE Of(rule, "jwt") # {} /\ Of(rule, "key") = {}
  <2>1. vs = <<a>> \o <<>>  BY <1>3, <1>5
  <2>2. vs = <<a>>  BY <2>1
  <2>3. DOMAIN vs = 1 .. 1 /\ Len(vs) = 1 /\ {vs[i] : i \in DOMAIN vs} = {a}  BY <2>2
  <2> QED  BY <1>1, <1>5, <2>3 DEF VerdictSet
<1>6. CASE Of(rule, "jwt") = {} /\ Of(rule, "key") # {}
  <2>1. vs = <<>> \o <<b>>  BY <1>3, <1>6
  <2>2. vs = <<b>>  BY <2>1
  <2>3. DOMAIN vs = 1 .. 1 /\ Len(vs) = 1 /\ {vs[i] : i \in DOMAIN vs} = {b}  BY <2>2
  <2> QED  BY <1>2, <1>6, <2>3 DEF VerdictSet
<1> QED  BY <1>4, <1>5, <1>6

(* The verdict on the credential of a kind. *)
VerdictOn(snap, rule, k) ==
    IF k = "jwt" THEN check_jwt(snap, The(rule, "jwt"), req) ELSE check_key(snap, The(rule, "key"), req)

(* The kinds of credential a rule asks for. *)
Asked(rule) == {k \in {"jwt", "key"} : Of(rule, k) # {}}

(* any_of admits who one credential admits, or as anonymous who presented none. *)
LEMMA AnyVerdict ==
  ASSUME NEW snap, NEW rule, Asked(rule) # {}, NEW v, v = any_of(snap, rule, req),
         \A k \in Asked(rule) : Known(VerdictOn(snap, rule, k))
  PROVE  /\ v.key = "" => \/ \E k \in Asked(rule) : VerdictOn(snap, rule, k).key = ""
                          \/ /\ \A k \in Asked(rule) : missing(VerdictOn(snap, rule, k))
                             /\ Anonymous(snap, rule) # None
         /\ v.consumer # None /\ v.consumer.anonymous # FALSE =>
              \A k \in Asked(rule) : missing(VerdictOn(snap, rule, k))
<1>1. PICK vs : vs = Verdicts(snap, rule, req)  OBVIOUS
<1>2. Of(rule, "jwt") \union Of(rule, "key") # {}  BY DEF Asked
<1>3. PICK n \in Nat \ {0} : DOMAIN vs = 1 .. n /\ Len(vs) = n  BY <1>1, <1>2, VerdictsAre
<1>4. {vs[i] : i \in 1 .. n} = {VerdictOn(snap, rule, k) : k \in Asked(rule)}
  <2>1. {vs[i] : i \in DOMAIN vs} = VerdictSet(snap, rule)  BY <1>1, <1>2, VerdictsAre
  <2>2. {vs[i] : i \in DOMAIN vs} = {VerdictOn(snap, rule, k) : k \in Asked(rule)}
    BY <2>1 DEF VerdictOn, Asked, VerdictSet
  <2> QED  BY <1>3, <2>2
<1>5. v = Settle(snap, rule, vs, Found(vs, LAMBDA u : ~missing(u)))  BY <1>1 DEF any_of
<1>6. \/ \E i \in 1 .. n : ~missing(vs[i]) /\ v = vs[i]
      \/ /\ \A i \in 1 .. n : missing(vs[i])
         /\ \/ v = Admitted(Anonymous(snap, rule)) /\ Anonymous(snap, rule) # None
            \/ v.key # "" /\ v.consumer = None
            \/ v = vs[1]
  BY <1>3, <1>5, Settled
<1>7. CASE \E i \in 1 .. n : ~missing(vs[i]) /\ v = vs[i]
  <2>1. PICK k \in Asked(rule) : v = VerdictOn(snap, rule, k)  BY <1>4, <1>7
  <2>2. Known(v)  BY <2>1
  <2> QED  BY <2>1, <2>2 DEF Known
<1>8. CASE /\ \A i \in 1 .. n : missing(vs[i])
           /\ \/ v = Admitted(Anonymous(snap, rule)) /\ Anonymous(snap, rule) # None
              \/ v.key # "" /\ v.consumer = None
              \/ v = vs[1]
  <2>1. \A k \in Asked(rule) : missing(VerdictOn(snap, rule, k))  BY <1>4, <1>8
  <2>2. v.key = "" => Anonymous(snap, rule) # None
    <3>1. 1 \in 1 .. n  OBVIOUS
    <3>2. missing(vs[1])  BY <1>8, <3>1
    <3>3. v = vs[1] => v.key # ""  BY <3>2 DEF missing
    <3> QED  BY <1>8, <3>3
  <2> QED  BY <2>1, <2>2
<1> QED  BY <1>6, <1>7, <1>8

(* What is kept between the steps. *)
IsChain(c) == DOMAIN c = {"key", "consumer", "cors", "counted"}

(* The consumer a step leaves, given its verdict. *)
Consumer(c, v) == IF v.consumer = None THEN c.consumer ELSE v.consumer

(* A step that goes on, from c to d: what it found, and whom. *)
Passes(snap, rule, c, d, kind) ==
    /\ IsChain(d)
    /\ d.key = "" =>
         /\ c.key = ""
         /\ ~Runs(rule, kind) \/ kind \notin {"jwt", "anyof", "key"} => d.consumer = c.consumer
         /\ Runs(rule, kind) =>
              /\ kind = "ip" => ~Refused(The(rule, "ip"), {client_of(req)})
              /\ kind \in {"jwt", "key"} =>
                   /\ VerdictOn(snap, rule, kind).key = ""
                   /\ d.consumer = Consumer(c, VerdictOn(snap, rule, kind))
              /\ kind = "anyof" =>
                   any_of(snap, rule, req).key = "" /\ d.consumer = Consumer(c, any_of(snap, rule, req))
              /\ kind = "acl" =>
                   d.consumer # None /\ ~Refused(The(rule, "acl"), GroupsOfConsumer(snap, d.consumer))
              /\ kind = "size" => ~(req.declared > The(rule, "size").max)

(* Every step is one of these. *)
LEMMA StepPasses ==
  ASSUME NEW snap, NEW rule, NEW full, NEW c, IsChain(c),
         NEW kind \in {"cors", "ip", "jwt", "anyof", "key", "acl", "size", "limit"},
         NEW d, d = Then(snap, rule, full, c, kind)
  PROVE  Passes(snap, rule, c, d, kind)
<1>1. CASE c.key # ""
  <2>1. d = c  BY <1>1 DEF Then
  <2> QED  BY <1>1, <2>1 DEF Passes
<1>2. CASE c.key = "" /\ ~Runs(rule, kind)
  <2>1. d = c  BY <1>2 DEF Then
  <2> QED  BY <1>2, <2>1 DEF Passes
<1>3. CASE c.key = "" /\ Runs(rule, kind)
  <2>1. d = run(snap, rule, req, full, c, kind)  BY <1>3 DEF Then
  <2>2. CASE kind = "cors"
    <3>1. PICK o : o = cors(The(rule, "cors"), req)  OBVIOUS
    <3>2. d = [c EXCEPT !.key = o.key, !.cors = o.cors]  BY <2>1, <2>2, <3>1 DEF run
    <3>3. IsChain(d) /\ d.consumer = c.consumer  BY <3>2 DEF IsChain
    <3> QED  BY <1>3, <2>2, <3>3 DEF Passes
  <2>3. CASE kind = "ip"
    <3>1. d = IF Refused(The(rule, "ip"), {client_of(req)}) THEN Refuses(c, "IpForbidden") ELSE c
      BY <2>1, <2>3 DEF run
    <3>2. Refuses(c, "IpForbidden").key = "IpForbidden" /\ IsChain(Refuses(c, "IpForbidden"))
      BY DEF Refuses, IsChain
    <3> QED  BY <1>3, <2>3, <3>1, <3>2 DEF Passes
  <2>4. ASSUME NEW v, d = Admits(c, v) PROVE IsChain(d) /\ d.key = v.key /\ d.consumer = Consumer(c, v)
    BY <2>4 DEF Admits, IsChain, Consumer
  <2>5. CASE kind = "jwt"
    <3>1. d = Admits(c, VerdictOn(snap, rule, kind))  BY <2>1, <2>5 DEF run, VerdictOn
    <3> QED  BY <1>3, <2>4, <2>5, <3>1 DEF Passes
  <2>6. CASE kind = "key"
    <3>1. d = Admits(c, VerdictOn(snap, rule, kind))  BY <2>1, <2>6 DEF run, VerdictOn
    <3> QED  BY <1>3, <2>4, <2>6, <3>1 DEF Passes
  <2>7. CASE kind = "anyof"
    <3>1. d = Admits(c, any_of(snap, rule, req))  BY <2>1, <2>7 DEF run
    <3> QED  BY <1>3, <2>4, <2>7, <3>1 DEF Passes
  <2>8. CASE kind = "acl"
    <3>1. d = IF c.consumer = None \/ Refused(The(rule, "acl"), GroupsOfConsumer(snap, c.consumer))
              THEN Refuses(c, "AclForbidden") ELSE c
      BY <2>1, <2>8 DEF run
    <3>2. Refuses(c, "AclForbidden").key = "AclForbidden" /\ IsChain(Refuses(c, "AclForbidden"))
      BY DEF Refuses, IsChain
    <3> QED  BY <1>3, <2>8, <3>1, <3>2 DEF Passes
  <2>9. CASE kind = "size"
    <3>1. d = IF req.declared > The(rule, "size").max THEN Refuses(c, "RequestTooLarge") ELSE c
      BY <2>1, <2>9 DEF run
    <3>2. Refuses(c, "RequestTooLarge").key = "RequestTooLarge" /\ IsChain(Refuses(c, "RequestTooLarge"))
      BY DEF Refuses, IsChain
    <3> QED  BY <1>3, <2>9, <3>1, <3>2 DEF Passes
  <2>10. CASE kind = "limit"
    <3>1. PICK w : w = limit(snap, rule, req, c.consumer)  OBVIOUS
    <3>2. d = IF w # None /\ full THEN Refuses(c, "RateLimited") ELSE [c EXCEPT !.counted = w]
      BY <2>1, <2>10, <3>1 DEF run
    <3>3. Refuses(c, "RateLimited").key = "RateLimited" /\ IsChain(Refuses(c, "RateLimited"))
          /\ Refuses(c, "RateLimited").consumer = c.consumer
      BY DEF Refuses, IsChain
    <3>4. IsChain([c EXCEPT !.counted = w]) /\ [c EXCEPT !.counted = w].consumer = c.consumer  BY DEF IsChain
    <3>5. IsChain(d) /\ d.consumer = c.consumer  BY <3>2, <3>3, <3>4
    <3> QED  BY <1>3, <2>10, <3>5 DEF Passes
  <2> QED  BY <2>2, <2>3, <2>5, <2>6, <2>7, <2>8, <2>9, <2>10
<1> QED  BY <1>1, <1>2, <1>3

(* The whole chain, once it went on to its end for a consumer. *)
Cleared(snap, rule, consumer) ==
    /\ Of(rule, "ip") # {} => ~Refused(The(rule, "ip"), {client_of(req)})
    /\ Of(rule, "acl") # {} => consumer # None /\ ~Refused(The(rule, "acl"), GroupsOfConsumer(snap, consumer))
    /\ Of(rule, "size") # {} => ~(req.declared > The(rule, "size").max)
    /\ Of(rule, "auth") = {} =>
         /\ \A k \in Asked(rule) : VerdictOn(snap, rule, k).key = ""
         /\ consumer # None => \E k \in Asked(rule) : consumer = VerdictOn(snap, rule, k).consumer
    /\ Of(rule, "auth") # {} /\ Asked(rule) # {} =>
         any_of(snap, rule, req).key = "" /\ consumer = any_of(snap, rule, req).consumer
    /\ Of(rule, "auth") # {} /\ Asked(rule) = {} => consumer = None

(* Each context comes of the one before. *)
LEMMA ChainStep ==
  ASSUME NEW f, NEW m \in Nat, NEW snap, NEW rule, NEW full, ChainRun(f, m, snap, rule, full),
         NEW i \in Nat, NEW j \in Nat, j = i + 1, j <= m
  PROVE  f[j] = Then(snap, rule, full, f[i], Rank[j])
<1>1. \A n \in 0 .. m : f[n] = IF n = 0 THEN Begun ELSE Then(snap, rule, full, f[n - 1], Rank[n])
  BY DEF ChainRun
<1>2. j # 0 /\ j - 1 = i /\ j \in 0 .. m  OBVIOUS
<1> QED  BY <1>1, <1>2

(* The chain begins with nothing found. *)
LEMMA ChainBegins ==
  ASSUME NEW f, NEW m \in Nat, NEW snap, NEW rule, NEW full, ChainRun(f, m, snap, rule, full)
  PROVE  f[0] = Begun
<1>1. \A n \in 0 .. m : f[n] = IF n = 0 THEN Begun ELSE Then(snap, rule, full, f[n - 1], Rank[n])
  BY DEF ChainRun
<1> QED  BY <1>1

(* The steps of the chain one by one. *)
LEMMA EightSteps ==
  ASSUME NEW snap, NEW rule, NEW full, NEW f, ChainRun(f, 8, snap, rule, full)
  PROVE  /\ f[0] = Begun
         /\ f[1] = Then(snap, rule, full, f[0], "cors")
         /\ f[2] = Then(snap, rule, full, f[1], "ip")
         /\ f[3] = Then(snap, rule, full, f[2], "jwt")
         /\ f[4] = Then(snap, rule, full, f[3], "anyof")
         /\ f[5] = Then(snap, rule, full, f[4], "key")
         /\ f[6] = Then(snap, rule, full, f[5], "acl")
         /\ f[7] = Then(snap, rule, full, f[6], "size")
         /\ f[8] = Then(snap, rule, full, f[7], "limit")
<1>1. /\ Rank[1] = "cors" /\ Rank[2] = "ip" /\ Rank[3] = "jwt" /\ Rank[4] = "anyof"
      /\ Rank[5] = "key" /\ Rank[6] = "acl" /\ Rank[7] = "size" /\ Rank[8] = "limit"
  BY DEF Rank
<1>2. f[0] = Begun  BY ChainBegins
<1>11. f[1] = Then(snap, rule, full, f[0], "cors")
  <2>1. 0 \in Nat /\ 1 \in Nat /\ 1 = 0 + 1 /\ 1 <= 8 /\ 8 \in Nat  OBVIOUS
  <2> QED  BY <1>1, <2>1, ChainStep
<1>12. f[2] = Then(snap, rule, full, f[1], "ip")
  <2>1. 1 \in Nat /\ 2 \in Nat /\ 2 = 1 + 1 /\ 2 <= 8 /\ 8 \in Nat  OBVIOUS
  <2> QED  BY <1>1, <2>1, ChainStep
<1>13. f[3] = Then(snap, rule, full, f[2], "jwt")
  <2>1. 2 \in Nat /\ 3 \in Nat /\ 3 = 2 + 1 /\ 3 <= 8 /\ 8 \in Nat  OBVIOUS
  <2> QED  BY <1>1, <2>1, ChainStep
<1>14. f[4] = Then(snap, rule, full, f[3], "anyof")
  <2>1. 3 \in Nat /\ 4 \in Nat /\ 4 = 3 + 1 /\ 4 <= 8 /\ 8 \in Nat  OBVIOUS
  <2> QED  BY <1>1, <2>1, ChainStep
<1>15. f[5] = Then(snap, rule, full, f[4], "key")
  <2>1. 4 \in Nat /\ 5 \in Nat /\ 5 = 4 + 1 /\ 5 <= 8 /\ 8 \in Nat  OBVIOUS
  <2> QED  BY <1>1, <2>1, ChainStep
<1>16. f[6] = Then(snap, rule, full, f[5], "acl")
  <2>1. 5 \in Nat /\ 6 \in Nat /\ 6 = 5 + 1 /\ 6 <= 8 /\ 8 \in Nat  OBVIOUS
  <2> QED  BY <1>1, <2>1, ChainStep
<1>17. f[7] = Then(snap, rule, full, f[6], "size")
  <2>1. 6 \in Nat /\ 7 \in Nat /\ 7 = 6 + 1 /\ 7 <= 8 /\ 8 \in Nat  OBVIOUS
  <2> QED  BY <1>1, <2>1, ChainStep
<1>18. f[8] = Then(snap, rule, full, f[7], "limit")
  <2>1. 7 \in Nat /\ 8 \in Nat /\ 8 = 7 + 1 /\ 8 <= 8 /\ 8 \in Nat  OBVIOUS
  <2> QED  BY <1>1, <2>1, ChainStep
<1> QED  BY <1>2, <1>11, <1>12, <1>13, <1>14, <1>15, <1>16, <1>17, <1>18

(* access lets through what every step let through. *)
LEMMA AccessClears ==
  ASSUME NEW snap, NEW rule, NEW full, NEW end, end = access(snap, rule, req, full), end.key = ""
  PROVE  Cleared(snap, rule, end.consumer)
<1>1. PICK f : ChainRun(f, 8, snap, rule, full) /\ end = f[8]  BY AccessRuns
<1>3. f[0] = Begun  BY ONLY <1>1, EightSteps
<1>50. PICK c0 : c0 = f[0]  OBVIOUS
<1>51. PICK c1 : c1 = f[1]  OBVIOUS
<1>52. PICK c2 : c2 = f[2]  OBVIOUS
<1>53. PICK c3 : c3 = f[3]  OBVIOUS
<1>54. PICK c4 : c4 = f[4]  OBVIOUS
<1>55. PICK c5 : c5 = f[5]  OBVIOUS
<1>56. PICK c6 : c6 = f[6]  OBVIOUS
<1>57. PICK c7 : c7 = f[7]  OBVIOUS
<1>58. PICK c8 : c8 = f[8]  OBVIOUS
<1>4. IsChain(c0) /\ c0.consumer = None
  <2>1. c0 = Begun  BY <1>3, <1>50
  <2> QED  BY <2>1 DEF Begun, IsChain
<1>11. c1 = Then(snap, rule, full, c0, "cors")  BY ONLY <1>1, <1>50, <1>51, EightSteps
<1>12. c2 = Then(snap, rule, full, c1, "ip")  BY ONLY <1>1, <1>51, <1>52, EightSteps
<1>13. c3 = Then(snap, rule, full, c2, "jwt")  BY ONLY <1>1, <1>52, <1>53, EightSteps
<1>14. c4 = Then(snap, rule, full, c3, "anyof")  BY ONLY <1>1, <1>53, <1>54, EightSteps
<1>15. c5 = Then(snap, rule, full, c4, "key")  BY ONLY <1>1, <1>54, <1>55, EightSteps
<1>16. c6 = Then(snap, rule, full, c5, "acl")  BY ONLY <1>1, <1>55, <1>56, EightSteps
<1>17. c7 = Then(snap, rule, full, c6, "size")  BY ONLY <1>1, <1>56, <1>57, EightSteps
<1>18. c8 = Then(snap, rule, full, c7, "limit")  BY ONLY <1>1, <1>57, <1>58, EightSteps
<1>21. Passes(snap, rule, c0, c1, "cors")  BY <1>4, <1>11, StepPasses
<1>22. Passes(snap, rule, c1, c2, "ip")
  <2>1. IsChain(c1)  BY <1>21 DEF Passes
  <2> QED  BY <1>12, <2>1, StepPasses
<1>23. Passes(snap, rule, c2, c3, "jwt")
  <2>1. IsChain(c2)  BY <1>22 DEF Passes
  <2> QED  BY <1>13, <2>1, StepPasses
<1>24. Passes(snap, rule, c3, c4, "anyof")
  <2>1. IsChain(c3)  BY <1>23 DEF Passes
  <2> QED  BY <1>14, <2>1, StepPasses
<1>25. Passes(snap, rule, c4, c5, "key")
  <2>1. IsChain(c4)  BY <1>24 DEF Passes
  <2> QED  BY <1>15, <2>1, StepPasses
<1>26. Passes(snap, rule, c5, c6, "acl")
  <2>1. IsChain(c5)  BY <1>25 DEF Passes
  <2> QED  BY <1>16, <2>1, StepPasses
<1>27. Passes(snap, rule, c6, c7, "size")
  <2>1. IsChain(c6)  BY <1>26 DEF Passes
  <2> QED  BY <1>17, <2>1, StepPasses
<1>28. Passes(snap, rule, c7, c8, "limit")
  <2>1. IsChain(c7)  BY <1>27 DEF Passes
  <2> QED  BY <1>18, <2>1, StepPasses
<1>6. end = c8  BY <1>1, <1>58
<1>31. c8.key = "" /\ c7.key = "" /\ c8.consumer = c7.consumer  BY <1>6, <1>28 DEF Passes
<1>32. c6.key = "" /\ c7.consumer = c6.consumer  BY <1>27, <1>31 DEF Passes
<1>33. c5.key = "" /\ c6.consumer = c5.consumer  BY <1>26, <1>32 DEF Passes
<1>34. c4.key = ""  BY <1>25, <1>33 DEF Passes
<1>35. c3.key = ""  BY <1>24, <1>34 DEF Passes
<1>36. c2.key = ""  BY <1>23, <1>35 DEF Passes
<1>37. c1.key = "" /\ c2.consumer = c1.consumer  BY <1>22, <1>36 DEF Passes
<1>38. c2.consumer = None  BY <1>4, <1>21, <1>37 DEF Passes
<1>41. Of(rule, "ip") # {} => ~Refused(The(rule, "ip"), {client_of(req)})
  BY <1>22, <1>36 DEF Passes, Runs
<1>42. Of(rule, "acl") # {} =>
         end.consumer # None /\ ~Refused(The(rule, "acl"), GroupsOfConsumer(snap, end.consumer))
  BY <1>6, <1>26, <1>31, <1>32, <1>33 DEF Passes, Runs
<1>43. Of(rule, "size") # {} => ~(req.declared > The(rule, "size").max)  BY <1>27, <1>31 DEF Passes, Runs
<1>44. end.consumer = c5.consumer  BY <1>6, <1>31, <1>32, <1>33
<1>45. CASE Of(rule, "auth") = {}
  <2>1. ~Runs(rule, "anyof")  BY <1>45 DEF Runs
  <2>2. c4.consumer = c3.consumer  BY <1>24, <1>34, <2>1 DEF Passes
  <2>3. \A k \in {"jwt", "key"} : k \in Asked(rule) <=> Runs(rule, k)  BY <1>45 DEF Runs, Asked
  <2>4. \A k \in Asked(rule) : VerdictOn(snap, rule, k).key = ""
    <3>1. "jwt" \in Asked(rule) => VerdictOn(snap, rule, "jwt").key = ""  BY <1>23, <1>35, <2>3 DEF Passes
    <3>2. "key" \in Asked(rule) => VerdictOn(snap, rule, "key").key = ""  BY <1>25, <1>33, <2>3 DEF Passes
    <3> QED  BY <3>1, <3>2 DEF Asked
  <2>5. c3.consumer = None \/ ("jwt" \in Asked(rule) /\ c3.consumer = VerdictOn(snap, rule, "jwt").consumer)
    BY <1>23, <1>35, <1>38, <2>3 DEF Passes, Consumer
  <2>6. c5.consumer = c3.consumer
        \/ ("key" \in Asked(rule) /\ c5.consumer = VerdictOn(snap, rule, "key").consumer)
    BY <1>25, <1>33, <2>2, <2>3 DEF Passes, Consumer
  <2>7. end.consumer # None => \E k \in Asked(rule) : end.consumer = VerdictOn(snap, rule, k).consumer
    BY <1>44, <2>5, <2>6
  <2> QED  BY <1>41, <1>42, <1>43, <1>45, <2>4, <2>7 DEF Cleared
<1>46. CASE Of(rule, "auth") # {}
  <2>1. ~Runs(rule, "jwt") /\ ~Runs(rule, "key")  BY <1>46 DEF Runs
  <2>2. c3.consumer = None /\ c5.consumer = c4.consumer  BY <1>23, <1>25, <1>33, <1>35, <1>38, <2>1 DEF Passes
  <2>3. Runs(rule, "anyof") <=> Asked(rule) # {}  BY <1>46 DEF Runs, Asked
  <2>4. Asked(rule) # {} => /\ any_of(snap, rule, req).key = ""
                            /\ c4.consumer = any_of(snap, rule, req).consumer
    BY <1>24, <1>34, <2>2, <2>3 DEF Passes, Consumer
  <2>5. Asked(rule) = {} => c4.consumer = None  BY <1>24, <1>34, <2>2, <2>3 DEF Passes
  <2> QED  BY <1>41, <1>42, <1>43, <1>44, <1>46, <2>2, <2>4, <2>5 DEF Cleared
<1> QED  BY <1>45, <1>46

(* The policy a rule runs is the stamped one of any row that governs its route. *)
LEMMA RuleThe ==
  ASSUME NEW snap, IsSnapshot(snap), NEW route \in Range(snap.routes), NEW k, NEW p \in Governing(snap, route, k),
         NEW q, q = The(RuleOf(snap, route), k)
  PROVE  /\ Of(RuleOf(snap, route), k) # {} /\ q = Stamped(snap, route, p.plugin)
         /\ IsPolicy(p.plugin) /\ p.plugin.kind = k
<1>1. Of(RuleOf(snap, route), k) = {Stamped(snap, route, p.plugin)} /\ IsPolicy(p.plugin) /\ p.plugin.kind = k
  BY RuleHas
<1>2. q = Stamped(snap, route, p.plugin)  BY <1>1, TheIs
<1> QED  BY <1>1, <1>2

(* The verdict on a credential is about the row that asks for it. *)
LEMMA CredentialIs ==
  ASSUME IsRequest(req), NEW snap, IsSnapshot(snap), NEW route \in Range(snap.routes),
         NEW k \in {"jwt", "key"}, NEW p \in Governing(snap, route, k),
         NEW v, v = VerdictOn(snap, RuleOf(snap, route), k)
  PROVE  /\ k \in Asked(RuleOf(snap, route))
         /\ v.key = "" => Proves(snap, route.ws, k, p.plugin)
         /\ missing(v) => ~Presents(k, p.plugin)
         /\ Known(v)
<1>1. PICK q : q = The(RuleOf(snap, route), k)  OBVIOUS
<1>2. PICK own : own = p.plugin  OBVIOUS
<1>3. Of(RuleOf(snap, route), k) # {} /\ q = Stamped(snap, route, own) /\ IsPolicy(own) /\ own.kind = k
  BY <1>1, <1>2, RuleThe
<1>4. k \in Asked(RuleOf(snap, route))  BY <1>3 DEF Asked
<1>5. CASE k = "jwt"
  <2>1. q.keys = own.keys  BY <1>3, <1>5, StampedIs
  <2>2. v = check_jwt(snap, q, req)  BY <1>1, <1>5 DEF VerdictOn
  <2>3. /\ v.key = "" => ByToken(q) # {}
        /\ missing(v) => \A t \in Range(req.authorization) : t.scheme # "bearer"
        /\ Known(v)
    BY <2>2, JwtVerdict
  <2>4. ByToken(q) = ByToken(own)  BY <2>1 DEF ByToken
  <2>5. Proves(snap, route.ws, k, own) <=> ByToken(own) # {}  BY <1>5 DEF Proves
  <2>6. Presents(k, own) <=> \E t \in Range(req.authorization) : t.scheme = "bearer"  BY <1>5 DEF Presents
  <2> QED  BY <1>2, <1>4, <2>3, <2>4, <2>5, <2>6
<1>6. CASE k = "key"
  <2>1. q.header = own.header /\ q.ws = route.ws  BY <1>3, <1>6, StampedIs
  <2>2. route.ws # 0  BY DEF IsSnapshot
  <2>3. v = check_key(snap, q, req)  BY <1>1, <1>6 DEF VerdictOn
  <2>4. /\ v.key = "" => ByKey(snap, q.ws, q) # {}
        /\ missing(v) => ~(Values(req.headers, q.header) # <<>> /\ Values(req.headers, q.header)[1] # "")
        /\ Known(v)
    BY <2>1, <2>2, <2>3, KeyVerdict
  <2>5. ByKey(snap, q.ws, q) = ByKey(snap, route.ws, own)  BY <2>1 DEF ByKey
  <2>6. Proves(snap, route.ws, k, own) <=> ByKey(snap, route.ws, own) # {}  BY <1>6 DEF Proves
  <2>7. Presents(k, own) <=> Values(req.headers, own.header) # <<>> /\ Values(req.headers, own.header)[1] # ""
    BY <1>6 DEF Presents
  <2> QED  BY <1>2, <1>4, <2>1, <2>4, <2>5, <2>6, <2>7
<1> QED  BY <1>5, <1>6

(* A row asks for each credential a rule runs. *)
LEMMA AskedIs ==
  ASSUME NEW snap, IsSnapshot(snap), NEW route \in Range(snap.routes), NEW k, Of(RuleOf(snap, route), k) # {}
  PROVE  Governing(snap, route, k) # {}
  BY RuleHas

(* Who is anonymous is a consumer of the workspace, named by the row that governs. *)
LEMMA AnonymousIs ==
  ASSUME NEW snap, IsSnapshot(snap), NEW route \in Range(snap.routes), NEW p \in Governing(snap, route, "auth"),
         Anonymous(snap, RuleOf(snap, route)) # None
  PROVE  has_consumer(snap, route.ws, p.plugin.anonymous)
<1>1. PICK a : a = The(RuleOf(snap, route), "auth")  OBVIOUS
<1>2. PICK own : own = p.plugin  OBVIOUS
<1>3. a = Stamped(snap, route, own) /\ IsPolicy(own) /\ own.kind = "auth"  BY <1>1, <1>2, RuleThe
<1>4. a.anonymous = IF has_consumer(snap, route.ws, own.anonymous) THEN own.anonymous ELSE 0
  BY <1>3, StampedIs
<1>5. a.anonymous # 0  BY <1>1 DEF Anonymous
<1> QED  BY <1>2, <1>4, <1>5

(* What is told of the consumer of a request that was let through. *)
Told(snap, route, consumer) ==
    consumer # None /\ consumer.anonymous => \A c \in Credentials(snap, route) : ~Presents(c[1], c[2])

(* A chain that cleared a request is right about it. *)
LEMMA ClearedIsRight ==
  ASSUME IsRequest(req), NEW snap, IsSnapshot(snap), NEW route \in Range(snap.routes), NEW consumer,
         Cleared(snap, RuleOf(snap, route), consumer)
  PROVE  Admissible(snap, route, consumer) /\ Told(snap, route, consumer)
<1>1. PICK rule : rule = RuleOf(snap, route)  OBVIOUS
<1>2. Cleared(snap, rule, consumer)  BY <1>1
<1>3. ASSUME NEW p \in Governing(snap, route, "ip") PROVE ~Refused(p.plugin, {client_of(req)})
  <2>1. Of(rule, "ip") # {} /\ The(rule, "ip") = Stamped(snap, route, p.plugin)
        /\ IsPolicy(p.plugin) /\ p.plugin.kind = "ip"
    BY <1>1, RuleThe
  <2>2. Stamped(snap, route, p.plugin) = p.plugin  BY <2>1, StampedIs
  <2> QED  BY <1>2, <2>1, <2>2 DEF Cleared
<1>4. ASSUME NEW p \in Governing(snap, route, "acl")
      PROVE  consumer # None /\ ~Refused(p.plugin, GroupsOfConsumer(snap, consumer))
  <2>1. Of(rule, "acl") # {} /\ The(rule, "acl") = Stamped(snap, route, p.plugin)
        /\ IsPolicy(p.plugin) /\ p.plugin.kind = "acl"
    BY <1>1, RuleThe
  <2>2. Stamped(snap, route, p.plugin) = p.plugin  BY <2>1, StampedIs
  <2> QED  BY <1>2, <2>1, <2>2 DEF Cleared
<1>5. ASSUME NEW p \in Governing(snap, route, "size") PROVE req.declared <= p.plugin.max
  <2>1. Of(rule, "size") # {} /\ The(rule, "size") = Stamped(snap, route, p.plugin)
        /\ IsPolicy(p.plugin) /\ p.plugin.kind = "size"
    BY <1>1, RuleThe
  <2>2. Stamped(snap, route, p.plugin) = p.plugin  BY <2>1, StampedIs
  <2>3. ~(req.declared > p.plugin.max)  BY <1>2, <2>1, <2>2 DEF Cleared
  <2>4. req.declared \in Nat /\ p.plugin.max \in Nat  BY <2>1 DEF IsRequest, IsPolicy
  <2> QED  BY <2>3, <2>4
<1>6. \A c \in Credentials(snap, route) :
        /\ c[1] \in Asked(rule)
        /\ VerdictOn(snap, rule, c[1]).key = "" => Proves(snap, route.ws, c[1], c[2])
        /\ missing(VerdictOn(snap, rule, c[1])) => ~Presents(c[1], c[2])
  <2> SUFFICES ASSUME NEW c \in Credentials(snap, route)
               PROVE  /\ c[1] \in Asked(rule)
                      /\ VerdictOn(snap, rule, c[1]).key = "" => Proves(snap, route.ws, c[1], c[2])
                      /\ missing(VerdictOn(snap, rule, c[1])) => ~Presents(c[1], c[2])
    OBVIOUS
  <2>1. PICK k \in {"jwt", "key"} : \E p \in Governing(snap, route, k) : c[1] = k /\ c[2] = p.plugin
    BY DEF Credentials
  <2>2. PICK p \in Governing(snap, route, k) : c[1] = k /\ c[2] = p.plugin  BY <2>1
  <2> QED  BY <1>1, <2>2, CredentialIs
<1>7. \A k \in Asked(rule) : k \in {"jwt", "key"} /\ \E c \in Credentials(snap, route) : c[1] = k
  <2> SUFFICES ASSUME NEW k \in Asked(rule) PROVE k \in {"jwt", "key"} /\ \E c \in Credentials(snap, route) : c[1] = k
    OBVIOUS
  <2>1. k \in {"jwt", "key"} /\ Of(rule, k) # {}  BY DEF Asked
  <2>2. PICK p : p \in Governing(snap, route, k)  BY <1>1, <2>1, AskedIs
  <2>3. PICK c : c = <<k, p.plugin>>  OBVIOUS
  <2>4. c \in Credentials(snap, route)  BY <2>1, <2>2, <2>3 DEF Credentials
  <2> QED  BY <2>1, <2>3, <2>4
<1>8. \A k \in Asked(rule) : Known(VerdictOn(snap, rule, k))
  <2> SUFFICES ASSUME NEW k \in Asked(rule) PROVE Known(VerdictOn(snap, rule, k))
    OBVIOUS
  <2>1. k \in {"jwt", "key"} /\ Of(rule, k) # {}  BY DEF Asked
  <2>2. PICK p : p \in Governing(snap, route, k)  BY <1>1, <2>1, AskedIs
  <2> QED  BY <1>1, <2>1, <2>2, CredentialIs
<1>9. Authenticated(snap, route) /\ Told(snap, route, consumer)
  <2>1. PICK asked : asked = Credentials(snap, route)  OBVIOUS
  <2>2. PICK auth : auth = Governing(snap, route, "auth")  OBVIOUS
  <2>3. Authenticated(snap, route) <=>
          IF auth = {} THEN \A c \in asked : Proves(snap, route.ws, c[1], c[2])
          ELSE \/ asked = {}
               \/ \E c \in asked : Proves(snap, route.ws, c[1], c[2])
               \/ /\ \A c \in asked : ~Presents(c[1], c[2])
                  /\ \E p \in auth : has_consumer(snap, route.ws, p.plugin.anonymous)
    BY <2>1, <2>2 DEF Authenticated
  <2>4. auth = {} <=> Of(rule, "auth") = {}
    <3>1. auth = {} => Of(rule, "auth") = {}  BY <1>1, <2>2, RuleHas
    <3>2. ASSUME NEW p \in auth PROVE Of(rule, "auth") # {}  BY <1>1, <2>2, RuleThe
    <3> QED  BY <3>1, <3>2
  <2>5. CASE auth = {}
    <3>1. /\ \A k \in Asked(rule) : VerdictOn(snap, rule, k).key = ""
          /\ consumer # None => \E k \in Asked(rule) : consumer = VerdictOn(snap, rule, k).consumer
      BY <1>2, <2>4, <2>5 DEF Cleared
    <3>2. \A c \in asked : Proves(snap, route.ws, c[1], c[2])  BY <1>6, <2>1, <3>1
    <3>3. consumer # None => consumer.anonymous = FALSE  BY <1>8, <3>1 DEF Known
    <3> QED  BY <2>3, <2>5, <3>2, <3>3 DEF Told
  <2>6. CASE auth # {} /\ Asked(rule) = {}
    <3>1. asked = {}  BY <1>6, <2>1, <2>6
    <3> QED  BY <2>1, <2>3, <2>6, <3>1 DEF Told
  <2>7. CASE auth # {} /\ Asked(rule) # {}
    <3>1. PICK v : v = any_of(snap, rule, req)  OBVIOUS
    <3>2. v.key = "" /\ consumer = v.consumer  BY <1>2, <2>4, <2>7, <3>1 DEF Cleared
    <3>3. /\ \/ \E k \in Asked(rule) : VerdictOn(snap, rule, k).key = ""
             \/ /\ \A k \in Asked(rule) : missing(VerdictOn(snap, rule, k))
                /\ Anonymous(snap, rule) # None
          /\ consumer # None /\ consumer.anonymous # FALSE =>
               \A k \in Asked(rule) : missing(VerdictOn(snap, rule, k))
      BY <1>8, <2>7, <3>1, <3>2, AnyVerdict
    <3>4. Told(snap, route, consumer)  BY <1>6, <3>3 DEF Told
    <3>5. CASE \E k \in Asked(rule) : VerdictOn(snap, rule, k).key = ""
      <4>1. PICK k \in Asked(rule) : VerdictOn(snap, rule, k).key = ""  BY <3>5
      <4>2. PICK c \in asked : c[1] = k  BY <1>7, <2>1, <4>1
      <4>3. Proves(snap, route.ws, c[1], c[2])  BY <1>6, <2>1, <4>1, <4>2
      <4> QED  BY <2>3, <2>7, <3>4, <4>3
    <3>6. CASE (\A k \in Asked(rule) : missing(VerdictOn(snap, rule, k))) /\ Anonymous(snap, rule) # None
      <4>1. \A c \in asked : ~Presents(c[1], c[2])  BY <1>6, <2>1, <3>6
      <4>2. PICK p : p \in auth  BY <2>7
      <4>3. has_consumer(snap, route.ws, p.plugin.anonymous)  BY <1>1, <2>2, <3>6, <4>2, AnonymousIs
      <4> QED  BY <2>3, <2>7, <3>4, <4>1, <4>2, <4>3
    <3> QED  BY <3>3, <3>5, <3>6
  <2> QED  BY <2>5, <2>6, <2>7
<1> QED  BY <1>3, <1>4, <1>5, <1>9 DEF Admissible

(* Where there are no rows, none governs. *)
LEMMA NoneGoverns ==
  ASSUME NEW snap, snap.plugins = <<>>, NEW route
  PROVE  (\A k : Governing(snap, route, k) = {}) /\ Credentials(snap, route) = {}
<1>1. Range(snap.plugins) = {}  BY DEF Range
<1>2. \A k : Governing(snap, route, k) = {}  BY <1>1 DEF Governing
<1>3. Credentials(snap, route) = {}  BY <1>2 DEF Credentials
<1> QED  BY <1>2, <1>3

(* A rule of a generation that lets a request through is right about it. *)
LEMMA AccessAdmits ==
  ASSUME IsRequest(req), NEW config, IsConfig(config), NEW i \in DOMAIN config.rules, NEW full,
         NEW end, end = access(config.snap, config.rules[i], req, full), end.key = ""
  PROVE  /\ Admissible(config.snap, config.rules[i].route, end.consumer)
         /\ Told(config.snap, config.rules[i].route, end.consumer)
<1>1. PICK snap : snap = config.snap  OBVIOUS
<1>2. PICK rule : rule = config.rules[i]  OBVIOUS
<1>3. Cleared(snap, rule, end.consumer)  BY <1>1, <1>2, AccessClears
<1>4. IsSnapshot(snap)  BY <1>1 DEF IsConfig
<1>5. CASE \E r \in Range(snap.routes) : rule = RuleOf(snap, r)
  <2>1. PICK r \in Range(snap.routes) : rule = RuleOf(snap, r)  BY <1>5
  <2>2. rule.route = r  BY <2>1 DEF RuleOf, RouteRule
  <2>3. Admissible(snap, r, end.consumer) /\ Told(snap, r, end.consumer)  BY <1>3, <1>4, <2>1, ClearedIsRight
  <2> QED  BY <1>1, <1>2, <2>2, <2>3
<1>6. CASE snap.plugins = <<>>
  <2>2. \A k : Governing(snap, rule.route, k) = {}  BY <1>6, NoneGoverns
  <2>3. Credentials(snap, rule.route) = {}  BY <1>6, NoneGoverns
  <2>4. Authenticated(snap, rule.route)  BY <2>2, <2>3 DEF Authenticated
  <2>5. Admissible(snap, rule.route, end.consumer)  BY <2>2, <2>4 DEF Admissible
  <2> QED  BY <1>1, <1>2, <2>3, <2>5 DEF Told
<1> QED  BY <1>1, <1>2, <1>5, <1>6 DEF IsConfig

(* request_body refuses more bytes than the row that governs the route allows, and only then. *)
LEMMA BodyIsLimited ==
  ASSUME NEW config, IsConfig(config), NEW i \in DOMAIN config.rules,
         NEW p \in Governing(config.snap, config.rules[i].route, "size"), NEW bytes, NEW upgraded
  PROVE  /\ p.plugin.max \in Nat
         /\ request_body(config.rules[i], bytes, upgraded) <=> ~upgraded /\ bytes > p.plugin.max
<1>1. PICK snap : snap = config.snap  OBVIOUS
<1>2. PICK rule : rule = config.rules[i]  OBVIOUS
<1>3. IsSnapshot(snap)  BY <1>1 DEF IsConfig
<1>4. snap.plugins # <<>>
  <2>1. SUFFICES ASSUME snap.plugins = <<>> PROVE FALSE
    OBVIOUS
  <2>2. Governing(snap, rule.route, "size") = {}  BY <2>1, NoneGoverns
  <2> QED  BY <1>1, <1>2, <2>2
<1>5. PICK r \in Range(snap.routes) : rule = RuleOf(snap, r)  BY <1>1, <1>2, <1>4 DEF IsConfig
<1>6. rule.route = r  BY <1>5 DEF RuleOf, RouteRule
<1>7. Of(rule, "size") # {} /\ The(rule, "size") = Stamped(snap, r, p.plugin)
      /\ IsPolicy(p.plugin) /\ p.plugin.kind = "size"
  BY <1>1, <1>2, <1>3, <1>5, <1>6, RuleThe
<1>8. The(rule, "size") = p.plugin  BY <1>7, StampedIs
<1>9. p.plugin.max \in Nat  BY <1>7 DEF IsPolicy
<1> QED  BY <1>2, <1>7, <1>8, <1>9 DEF request_body

-----------------------------------------------------------------------------
(* The bytes of a body, chunk by chunk. *)

(* The sums of the first chunks. *)
SumRun(f, m, body) == f = [i \in 0 .. m |-> IF i = 0 THEN 0 ELSE f[i - 1] + body[i]]

Sums(body) == CHOOSE f : SumRun(f, Len(body), body)

(* They exist, however many chunks there are. *)
LEMMA SumRuns == ASSUME NEW body PROVE \A m \in Nat : \E f : SumRun(f, m, body)
<1> DEFINE S == {m \in Nat : \E f : SumRun(f, m, body)}
<1>1. 0 \in S
  <2>1. PICK f : f = [i \in 0 .. 0 |-> 0]  OBVIOUS
  <2>2. f = [i \in 0 .. 0 |-> IF i = 0 THEN 0 ELSE f[i - 1] + body[i]]  BY <2>1
  <2> QED  BY <2>2 DEF SumRun
<1>2. ASSUME NEW m \in Nat, m \in S PROVE m + 1 \in S
  <2>1. PICK f : SumRun(f, m, body)  BY <1>2
  <2>2. PICK last : last = f[m] + body[m + 1]  OBVIOUS
  <2>3. PICK g : g = [i \in 0 .. m + 1 |-> IF i = m + 1 THEN last ELSE f[i]]  OBVIOUS
  <2>4. \A i \in 0 .. m : g[i] = f[i]  BY <2>3
  <2>5. \A i \in 0 .. m : g[i] = IF i = 0 THEN 0 ELSE g[i - 1] + body[i]
    <3> SUFFICES ASSUME NEW i \in 0 .. m PROVE g[i] = IF i = 0 THEN 0 ELSE g[i - 1] + body[i]
      OBVIOUS
    <3>1. f[i] = IF i = 0 THEN 0 ELSE f[i - 1] + body[i]  BY <2>1 DEF SumRun
    <3>2. i # 0 => i - 1 \in 0 .. m  OBVIOUS
    <3> QED  BY <2>4, <3>1, <3>2
  <2>6. g[m + 1] = g[m] + body[m + 1] /\ (m + 1) - 1 = m /\ m + 1 # 0  BY <2>2, <2>3, <2>4
  <2>7. \A i \in 0 .. m + 1 : g[i] = IF i = 0 THEN 0 ELSE g[i - 1] + body[i]  BY <2>5, <2>6
  <2>8. g = [i \in 0 .. m + 1 |-> IF i = 0 THEN 0 ELSE g[i - 1] + body[i]]  BY <2>3, <2>7
  <2> QED  BY <2>8 DEF SumRun
<1> HIDE DEF S
<1>3. \A m \in Nat : m \in S  BY <1>1, <1>2, Induction
<1> QED  BY <1>3 DEF S

(* Each sum is the one before and the next chunk; none is more than the whole. *)
LEMMA SumsAre ==
  ASSUME NEW body \in Seq(Nat), NEW n, n = Len(body), NEW f, f = Sums(body)
  PROVE  /\ f[0] = 0
         /\ \A i \in 0 .. n : f[i] \in Nat /\ f[i] <= f[n]
         /\ \A i \in 0 .. n : i < n => body[i + 1] \in Nat /\ f[i + 1] = f[i] + body[i + 1]
         /\ Total(body) = f[n]
<1>1. n \in Nat /\ \A i \in 1 .. n : body[i] \in Nat  OBVIOUS
<1>2. SumRun(f, n, body)  BY <1>1, SumRuns DEF Sums
<1>3. \A i \in 0 .. n : f[i] = IF i = 0 THEN 0 ELSE f[i - 1] + body[i]  BY <1>2 DEF SumRun
<1>4. f[0] = 0  BY <1>1, <1>3
<1>5. \A i \in 0 .. n : i < n => body[i + 1] \in Nat /\ f[i + 1] = f[i] + body[i + 1]
  <2> SUFFICES ASSUME NEW i \in 0 .. n, i < n PROVE body[i + 1] \in Nat /\ f[i + 1] = f[i] + body[i + 1]
    OBVIOUS
  <2>1. i + 1 \in 1 .. n /\ i + 1 \in 0 .. n /\ i + 1 # 0 /\ (i + 1) - 1 = i  BY <1>1
  <2> QED  BY <1>1, <1>3, <2>1
<1>6. \A i \in 0 .. n : f[i] \in Nat /\ \A j \in 0 .. i : f[j] \in Nat /\ f[j] <= f[i]
  <2> DEFINE S == {m \in Nat : m <= n => f[m] \in Nat /\ \A j \in 0 .. m : f[j] \in Nat /\ f[j] <= f[m]}
  <2>1. 0 \in S
    <3>1. \A j \in 0 .. 0 : j = 0  OBVIOUS
    <3>2. f[0] \in Nat /\ f[0] <= f[0]  BY <1>4
    <3> QED  BY <3>1, <3>2
  <2>2. ASSUME NEW m \in Nat, m \in S PROVE m + 1 \in S
    <3>1. SUFFICES ASSUME m + 1 <= n
                   PROVE  f[m + 1] \in Nat /\ \A j \in 0 .. m + 1 : f[j] \in Nat /\ f[j] <= f[m + 1]
      OBVIOUS
    <3>2. f[m] \in Nat /\ \A j \in 0 .. m : f[j] \in Nat /\ f[j] <= f[m]  BY <1>1, <2>2, <3>1
    <3>3. m \in 0 .. n /\ m < n  BY <1>1, <3>1
    <3>4. body[m + 1] \in Nat /\ f[m + 1] = f[m] + body[m + 1]  BY <1>5, <3>3
    <3>5. f[m + 1] \in Nat /\ f[m] <= f[m + 1]  BY <3>2, <3>4
    <3>6. \A j \in 0 .. m + 1 : j \in 0 .. m \/ j = m + 1  OBVIOUS
    <3>7. \A j \in 0 .. m : f[j] \in Nat /\ f[j] <= f[m + 1]
      <4> SUFFICES ASSUME NEW j \in 0 .. m PROVE f[j] \in Nat /\ f[j] <= f[m + 1]
        OBVIOUS
      <4>1. f[j] \in Nat /\ f[j] <= f[m]  BY <3>2
      <4> QED  BY <3>2, <3>5, <4>1
    <3>8. f[m + 1] <= f[m + 1]  BY <3>5
    <3> QED  BY <3>5, <3>6, <3>7, <3>8
  <2> HIDE DEF S
  <2>3. \A m \in Nat : m \in S  BY <2>1, <2>2, Induction
  <2> QED  BY <1>1, <2>3 DEF S
<1>7. \A i \in 0 .. n : f[i] \in Nat /\ f[i] <= f[n]
  <2>1. n \in 0 .. n  BY <1>1
  <2> QED  BY <1>6, <2>1
<1>8. Total(body) = f[n]
  <2> DEFINE F == CHOOSE g : g = [i \in 0 .. Len(body) |-> IF i = 0 THEN 0 ELSE g[i - 1] + body[i]]
  <2>1. Total(body) = F[Len(body)]  BY DEF Total
  <2>2. Sums(body) = F  BY DEF Sums, SumRun
  <2> QED  BY <2>1, <2>2
<1> QED  BY <1>4, <1>5, <1>7, <1>8

-----------------------------------------------------------------------------
(* The inductive invariant *)

(* The steps at which a request has been matched and let through. *)
Upstream == {"peer", "connect", "send", "answer"}

(* A request may go to a rule's upstream, for a consumer: the rule is the one both readings of the *)
(* path lead to, its policies hold, and who is anonymous presented nothing.                        *)
Right(g, i, consumer) ==
    /\ g \in DOMAIN configs /\ i \in DOMAIN configs[g].rules
    /\ \A path \in Readings : RuleFor(configs[g], req, path) = i
    /\ Admissible(configs[g].snap, configs[g].rules[i].route, consumer)
    /\ Told(configs[g].snap, configs[g].rules[i].route, consumer)

(* An endpoint of one of the rule's backends. *)
Backs(g, i, addr) ==
    \E b \in configs[g].rules[i].backends :
      b.cluster \in DOMAIN configs[g].endpoints /\ addr \in configs[g].endpoints[b.cluster]

(* A head has a status. *)
IsHead(h) == h.status \in 100 .. 999

(* Heads in order. *)
IsHeads(w) == w \in Seq(Range(w)) /\ \A i \in DOMAIN w : IsHead(w[i])

(* The generations, the request and the shape of its context. *)
Shaped ==
    /\ configs = Configs /\ store \in DOMAIN Configs
    /\ IsRequest(req)
    /\ DOMAIN cx = DOMAIN Fresh /\ DOMAIN out = DOMAIN Nothing
    /\ cx.pc \in Upstream \union {"filter", "fail", "log", "done"}
    /\ IsHeads(out.written)

(* The status of the error that the gateway means to answer with. *)
Meant(key) == IF key = "" THEN 0 ELSE StatusOf[key]

(* Nothing follows a final head; there is one from "answer" on, unless the client went away or a    *)
(* write failed, and then the answer that was meant is recorded.                                    *)
Answering ==
    /\ \A i \in Finals : i = Len(out.written)
    /\ cx.pc \in {"filter", "peer", "connect", "send"} => Finals = {}
    /\ cx.pc = "answer" => Finals # {}
    /\ cx.pc \in {"log", "done"} /\ Finals = {} => cx.client_abort \/ out.lost
    /\ cx.pc = "done" => \A i \in Finals : cx.status = out.written[i].status
    /\ cx.pc # "done" => cx.status = 0
    /\ cx.pc # "done" /\ Finals = {} => cx.local_status = Meant(cx.error_key)
    /\ cx.pc = "done" /\ Finals = {} => cx.status = Meant(cx.error_key)
    /\ out.logged = IF cx.pc = "done" THEN 1 ELSE 0

(* A copy was sent only by who says so. *)
Mirroring ==
    /\ out.mirrors \in {0, 1} /\ cx.mirrored \in BOOLEAN
    /\ cx.pc # "done" /\ ~cx.mirrored => out.mirrors = 0

Errors ==
    {[source |-> "internal", type |-> t] : t \in {"503", "504", "413"}}
      \union {[source |-> "upstream", type |-> t] : t \in {"connect", "connect_timeout", "tls", "timeout", "read"}}
      \union {[source |-> "downstream", type |-> "closed"]}
      \union {[source |-> s, type |-> "write"] : s \in {"downstream", "unset"}}
      \union {[source |-> s, type |-> "header"] : s \in {"downstream", "unset"}}

(* What a failure is told by. *)
Failing ==
    /\ cx.pc = "fail" => cx.error \in Errors
    /\ cx.refused \in {"", "RequestTooLarge"}
    /\ cx.pc # "fail" => cx.refused = ""
    /\ cx.pc \notin {"fail", "log", "done"} => cx.error_key = ""
    /\ cx.pc = "fail" /\ out.sent # {} => cx.error_key = ""

(* What was found when the request was matched is true of it until the end. *)
Routing ==
    /\ cx.pc \in Upstream =>
         /\ Right(cx.gen, cx.rule, cx.consumer)
         /\ \E b \in configs[cx.gen].rules[cx.rule].backends : b.cluster = cx.cluster
         /\ cx.cluster \in DOMAIN configs[cx.gen].endpoints
    /\ cx.pc \in {"connect", "send", "answer"} => cx.upstream \in configs[cx.gen].endpoints[cx.cluster]

(* And so of everything that was sent. *)
Sending ==
    /\ cx.pc = "filter" => out.sent = {}
    /\ cx.pc \in {"send", "answer"} => out.sent # {}
    /\ \A s \in out.sent :
         s.gen = cx.gen /\ s.rule = cx.rule /\ Right(s.gen, s.rule, s.consumer) /\ Backs(s.gen, s.rule, s.to)

(* The rows that limit the size of the request, once it is matched. *)
SizeRows == Governing(configs[cx.gen].snap, configs[cx.gen].rules[cx.rule].route, "size")

(* What was counted of a body is what the attempt was fed, and no attempt was fed more than the limit. *)
Feeding ==
    /\ cx.fed \in 0 .. Len(req.body) /\ cx.body_bytes \in Nat /\ out.fed \in Nat
    /\ cx.upgraded \in BOOLEAN
    /\ cx.pc \in {"filter", "peer", "connect", "send"} => ~cx.upgraded
    /\ cx.pc \in {"send", "answer"} =>
         /\ cx.upgraded \/ cx.body_bytes = Sums(req.body)[cx.fed]
         /\ cx.body_bytes <= out.fed
    /\ out.sent = {} => out.fed = 0
    /\ out.sent # {} => \A p \in SizeRows :
         /\ out.fed <= p.plugin.max
         /\ cx.refused # "" \/ cx.error_key = "RequestTooLarge" => Total(req.body) > p.plugin.max

PathInv == Shaped /\ Answering /\ Mirroring /\ Failing /\ Routing /\ Sending /\ Feeding

-----------------------------------------------------------------------------
(* The steps *)

(* The parts of a request that decide about it. *)
SameRequest ==
    /\ req'.host = req.host /\ req'.target = req.target /\ req'.method = req.method
    /\ req'.headers = req.headers /\ req'.authorization = req.authorization
    /\ req'.declared = req.declared /\ req'.body = req.body
    /\ req'.peer = req.peer /\ req'.forwarded = req.forwarded /\ req'.named = req.named

(* What is right about a request stays right. *)
LEMMA RightKept ==
  ASSUME configs' = configs, SameRequest, NEW g, NEW i, NEW consumer, Right(g, i, consumer)
  PROVE  Right(g, i, consumer)'
<1>1. \A path : RuleFor(configs[g], req, path)' = RuleFor(configs[g], req, path)  BY DEF RuleFor, SameRequest
<1>2. Readings' = Readings  BY DEF Readings, SameRequest
<1>3. \A k, p : Presents(k, p)' = Presents(k, p)  BY DEF Presents, SameRequest
<1>4. \A snap, ws, p : ByKey(snap, ws, p)' = ByKey(snap, ws, p)  BY DEF ByKey, SameRequest
<1>5. \A p : ByToken(p)' = ByToken(p)  BY DEF ByToken, SameRequest
<1>6. \A snap, ws, k, p : Proves(snap, ws, k, p)' = Proves(snap, ws, k, p)  BY <1>4, <1>5 DEF Proves
<1>7. client_of(req)' = client_of(req)  BY DEF client_of, SameRequest
<1>8. \A snap, route : Told(snap, route, consumer)' = Told(snap, route, consumer)  BY <1>3 DEF Told
<1>9. \A snap, route : Authenticated(snap, route)' = Authenticated(snap, route)
  BY <1>3, <1>6 DEF Authenticated
<1>10. \A snap, route : Admissible(snap, route, consumer)' = Admissible(snap, route, consumer)
  BY <1>7, <1>9 DEF Admissible, SameRequest
<1> QED  BY <1>1, <1>2, <1>8, <1>10 DEF Right

(* One more head is written. *)
Longer(w, h, n, v) ==
    /\ n \in Nat /\ DOMAIN w = 1 .. n
    /\ v \in Seq(Range(v)) /\ Len(v) = n + 1 /\ DOMAIN v = 1 .. n + 1
    /\ \A i \in 1 .. n : v[i] = w[i]
    /\ v[n + 1] = h

(* Appending a head makes the heads longer by it. *)
LEMMA HeadWritten ==
  ASSUME NEW w, w \in Seq(Range(w)), NEW h PROVE Longer(w, h, Len(w), Append(w, h))
<1> USE DEF Longer
<1>0. PICK n : n = Len(w)  OBVIOUS
<1>9. PICK v : v = Append(w, h)  OBVIOUS
<1>1. PICK S : S = Range(w) \union {h}  OBVIOUS
<1>2. w \in Seq(S)  BY <1>1
<1>3. v \in Seq(S) /\ Len(v) = n + 1 /\ n \in Nat /\ DOMAIN w = 1 .. n /\ DOMAIN v = 1 .. n + 1
  BY <1>0, <1>1, <1>2, <1>9
<1>4. v[n + 1] = h /\ \A i \in 1 .. n : v[i] = w[i]  BY <1>0, <1>1, <1>2, <1>9
<1>5. v \in Seq(Range(v))
  <2>1. \A i \in 1 .. n + 1 : v[i] \in Range(v)  BY <1>3 DEF Range
  <2> QED  BY <1>3, <2>1
<1> QED  BY <1>0, <1>9, <1>3, <1>4, <1>5

(* Whose statuses are final. *)
LEMMA FinalIs == ASSUME NEW s \in 100 .. 999 PROVE is_final(s) <=> s \notin 100 .. 199 \ {101}
  BY DEF is_final

(* Every refusal has a status of its own, and it is final. *)
LEMMA StatusIs == ASSUME NEW key \in DOMAIN StatusOf PROVE StatusOf[key] \in 200 .. 999
  BY DEF StatusOf

(* A step between two of the library's calls: nothing is written, and what was found stands. *)
Moves ==
    /\ UNCHANGED <<configs, store, req, out>>
    /\ DOMAIN cx' = DOMAIN cx
    /\ cx'.gen = cx.gen /\ cx'.rule = cx.rule /\ cx'.consumer = cx.consumer /\ cx'.cluster = cx.cluster
    /\ cx'.body_bytes \in {cx.body_bytes, 0} /\ cx'.fed \in {cx.fed, 0} /\ cx'.upgraded = cx.upgraded
    /\ cx'.refused = cx.refused /\ cx'.error_key = cx.error_key /\ cx'.local_status = cx.local_status
    /\ cx'.mirrored = cx.mirrored /\ cx'.status = cx.status
    /\ cx.pc \in {"peer", "connect", "send", "answer"} /\ cx'.pc \in {"peer", "connect", "fail"}
    /\ cx'.pc = "peer" => cx.pc \in {"connect", "send"}
    /\ cx'.pc = "connect" => cx.pc = "peer" /\ cx'.upstream \in configs[cx.gen].endpoints[cx.cluster]
    /\ cx'.pc = "fail" => cx'.error \in Errors

(* The invariant holds after one. *)
LEMMA MovesKeep == ASSUME PathInv, Moves PROVE PathInv'
<1>1. Shaped'  BY DEF PathInv, Moves, Shaped, Upstream
<1>2. Answering'
  <2>1. out' = out /\ Finals' = Finals  BY DEF Moves, Finals
  <2>2. cx.pc # "done" /\ cx'.pc \notin {"filter", "send", "answer", "log", "done"} /\ cx'.status = cx.status
        /\ cx'.local_status = cx.local_status /\ cx'.error_key = cx.error_key
    BY DEF Moves
  <2>3. cx'.pc \in {"peer", "connect"} => Finals = {}  BY DEF PathInv, Moves, Answering
  <2> QED  BY <2>1, <2>2, <2>3 DEF PathInv, Answering
<1>3. Mirroring'  BY DEF PathInv, Moves, Mirroring
<1>4. Failing'  BY DEF PathInv, Moves, Failing
<1>5. configs' = configs /\ SameRequest  BY DEF Moves, SameRequest
<1>6. Routing'
  <2>1. PICK g : g = cx.gen  OBVIOUS
  <2>2. PICK i : i = cx.rule  OBVIOUS
  <2>3. PICK c : c = cx.consumer  OBVIOUS
  <2>4. cx'.gen = g /\ cx'.rule = i /\ cx'.consumer = c  BY <2>1, <2>2, <2>3 DEF Moves
  <2>5. Right(g, i, c) /\ (\E b \in configs[g].rules[i].backends : b.cluster = cx.cluster)
        /\ cx.cluster \in DOMAIN configs[g].endpoints
    BY <2>1, <2>2, <2>3 DEF PathInv, Routing, Moves, Upstream
  <2>6. Right(g, i, c)'  BY <1>5, <2>5, RightKept
  <2>7. (\E b \in configs[g].rules[i].backends : b.cluster = cx.cluster)'
        /\ cx'.cluster \in DOMAIN configs'[g].endpoints
    BY <2>5 DEF Moves
  <2>8. cx'.pc \in {"connect", "send", "answer"} => cx'.upstream \in configs'[cx'.gen].endpoints[cx'.cluster]
    BY DEF Moves
  <2> QED  BY <2>4, <2>6, <2>7, <2>8 DEF Routing
<1>7. Sending'
  <2>1. out' = out  BY DEF Moves
  <2>2. ASSUME NEW s \in out.sent
        PROVE  s.gen = cx'.gen /\ s.rule = cx'.rule /\ Right(s.gen, s.rule, s.consumer)'
               /\ Backs(s.gen, s.rule, s.to)'
    <3>1. s.gen = cx.gen /\ s.rule = cx.rule /\ Right(s.gen, s.rule, s.consumer) /\ Backs(s.gen, s.rule, s.to)
      BY DEF PathInv, Sending
    <3>2. Right(s.gen, s.rule, s.consumer)'  BY <1>5, <3>1, RightKept
    <3>3. Backs(s.gen, s.rule, s.to)'  BY <1>5, <3>1 DEF Backs
    <3> QED  BY <3>1, <3>2, <3>3 DEF Moves
  <2>3. cx'.pc \notin {"filter", "send", "answer"}  BY DEF Moves
  <2> QED  BY <2>1, <2>2, <2>3 DEF Sending
<1>8. Feeding'
  <2>1. SizeRows' = SizeRows  BY DEF Moves, SizeRows
  <2>2. cx'.pc \in {"peer", "connect"} => ~cx.upgraded
    BY DEF PathInv, Feeding, Moves
  <2>3. req' = req /\ out' = out /\ cx'.pc \notin {"filter", "send", "answer"} /\ cx'.upgraded = cx.upgraded
        /\ cx'.refused = cx.refused /\ cx'.error_key = cx.error_key
    BY DEF Moves
  <2>4. cx'.fed \in 0 .. Len(req.body) /\ cx'.body_bytes \in Nat
    <3>1. PICK n : n = Len(req.body)  OBVIOUS
    <3>2. n \in Nat
      <4>1. req.body \in Seq(Nat)  BY DEF PathInv, Shaped, IsRequest
      <4> QED  BY <3>1, <4>1
    <3>3. cx.fed \in 0 .. n /\ cx.body_bytes \in Nat  BY <3>1 DEF PathInv, Feeding
    <3>4. cx'.fed \in {cx.fed, 0} /\ cx'.body_bytes \in {cx.body_bytes, 0}  BY DEF Moves
    <3> QED  BY <3>1, <3>2, <3>3, <3>4
  <2> QED  BY <2>1, <2>2, <2>3, <2>4 DEF PathInv, Feeding
<1> QED  BY <1>1, <1>2, <1>3, <1>4, <1>6, <1>7, <1>8 DEF PathInv

(* The fields of a context. *)
LEMMA ContextHas ==
  ASSUME PathInv
  PROVE  DOMAIN cx = {"pc", "gen", "rule", "consumer", "cors", "cluster", "upstream", "tried", "reused",
                      "reuse_retried", "body_bytes", "fed", "upgraded", "refused", "error", "error_key",
                      "local_status", "client_abort", "mirrored", "wanted", "counted", "status"}
         /\ DOMAIN out = {"sent", "written", "lost", "mirrors", "fed", "logged"}
  BY DEF PathInv, Shaped, Fresh, Nothing

(* upstream_peer *)
LEMMA UpstreamPeerKeeps == ASSUME PathInv, upstream_peer, UNCHANGED configs PROVE PathInv'
<1>1. Moves
  <2>1. CASE \E addr \in Endpoints \ cx.tried : cx' = [cx EXCEPT !.upstream = addr, !.pc = "connect"]
    BY <2>1, ContextHas, ZenonT(60) DEF Moves, upstream_peer, Endpoints, Config
  <2>2. CASE cx' = Fails(cx, "internal", "503") \/ cx' = Fails(cx, "internal", "504")
    <3>1. \A t \in {"503", "504"} : [source |-> "internal", type |-> t] \in Errors  BY DEF Errors
    <3>2. cx'.error \in Errors /\ cx'.pc = "fail"  BY <2>2, <3>1, ContextHas DEF Fails
    <3> QED  BY <2>2, <3>2, ContextHas, ZenonT(60) DEF Moves, upstream_peer, Fails
  <2> QED  BY <2>1, <2>2 DEF upstream_peer
<1> QED  BY <1>1, MovesKeep

(* fail_to_connect *)
LEMMA FailToConnectKeeps == ASSUME PathInv, fail_to_connect, UNCHANGED configs PROVE PathInv'
<1>1. PICK tried : tried = cx.tried \union {cx.upstream}  OBVIOUS
<1>2. PICK c : c = [cx EXCEPT !.tried = tried]  OBVIOUS
<1>3. PICK type \in {"connect", "connect_timeout", "tls"} :
        cx' = [c EXCEPT !.pc = "peer"] \/ cx' = Fails(c, "upstream", type)
  BY <1>1, <1>2 DEF fail_to_connect, ConnectErrors
<1>4. PICK e : e = [source |-> "upstream", type |-> type]  OBVIOUS
<1>5. e \in Errors  BY <1>4 DEF Errors
<1>6. cx' = [c EXCEPT !.pc = "peer"] \/ cx' = [c EXCEPT !.pc = "fail", !.error = e]  BY <1>3, <1>4 DEF Fails
<1>7. Moves  BY <1>2, <1>5, <1>6, ContextHas, ZenonT(60) DEF Moves, fail_to_connect
<1> QED  BY <1>7, MovesKeep

(* error_while_proxy *)
LEMMA ErrorWhileProxyKeeps ==
  ASSUME PathInv, NEW truncated \in BOOLEAN, error_while_proxy(truncated), UNCHANGED configs
  PROVE  PathInv'
<1>1. PICK retry : retry = (cx.reused /\ ~cx.reuse_retried /\ req.method \in Idempotent /\ ~truncated)
  OBVIOUS
<1>2. PICK c : c = [cx EXCEPT !.reuse_retried = @ \/ retry]  OBVIOUS
<1>3. (cx.pc = "send" /\ cx' = [c EXCEPT !.pc = "peer"]) \/ cx' = Fails(c, "upstream", "read")
  BY <1>1, <1>2 DEF error_while_proxy
<1>4. Moves  BY <1>2, <1>3, ContextHas DEF Moves, error_while_proxy, Fails, Errors
<1> QED  BY <1>4, MovesKeep

(* The upstream goes quiet, or the client away. *)
LEMMA AbandonedKeeps == ASSUME PathInv, Quiet \/ ClientGone, UNCHANGED configs PROVE PathInv'
<1>1. PICK e \in {[source |-> "upstream", type |-> "timeout"], [source |-> "downstream", type |-> "closed"]} :
        cx' = [cx EXCEPT !.pc = "fail", !.error = e]
  BY DEF Quiet, ClientGone, Fails
<1>2. e \in Errors  BY DEF Errors
<1>3. Moves  BY <1>1, <1>2, ContextHas DEF Moves, Quiet, ClientGone
<1> QED  BY <1>3, MovesKeep

(* InvalidHeader *)
LEMMA InvalidHeaderKeeps == ASSUME PathInv, InvalidHeader, UNCHANGED configs PROVE PathInv'
<1>1. PICK c \in {cx, new_attempt(cx)}, source \in {"downstream", "unset"} : cx' = Fails(c, source, "header")
  BY DEF InvalidHeader
<1>2. [source |-> source, type |-> "header"] \in Errors  BY DEF Errors
<1>3. PICK e : e = [source |-> source, type |-> "header"]  OBVIOUS
<1>4. cx' = [c EXCEPT !.pc = "fail", !.error = e] /\ e \in Errors  BY <1>1, <1>2, <1>3 DEF Fails
<1>5. c = cx \/ c = [cx EXCEPT !.body_bytes = 0, !.fed = 0]  BY DEF new_attempt
<1>6. Moves  BY <1>4, <1>5, ContextHas, ZenonT(60) DEF Moves, InvalidHeader
<1> QED  BY <1>6, MovesKeep

(* A head the gateway answers with itself is final. *)
IsFinal(h) == h.status \in 200 .. 999

(* Such a head is one that is_final accepts. *)
LEMMA FinalHead == ASSUME NEW h, IsFinal(h) PROVE IsHead(h) /\ is_final(h.status)
<1>1. PICK s : s = h.status  OBVIOUS
<1>2. s \in 200 .. 999  BY <1>1 DEF IsFinal
<1>3. s \in 100 .. 999 /\ is_final(s)  BY <1>2 DEF is_final
<1> QED  BY <1>1, <1>3 DEF IsHead

(* Which of the heads are final. *)
FinalsIn(w) == {i \in DOMAIN w : w[i].status \notin 100 .. 199 \ {101}}

(* The final heads after one more was written. *)
After(w, h, n, v) ==
    /\ n \in Nat /\ FinalsIn(w) \in SUBSET (1 .. n) /\ Len(v) = n + 1
    /\ FinalsIn(v) = FinalsIn(w) \union {i \in {n + 1} : is_final(h.status)}
    /\ v[n + 1] = h
    /\ \A i \in 1 .. n : v[i] = w[i]
    /\ IsHeads(v)

(* A head written after the others is final or leaves the final ones as they were. *)
LEMMA FinalsAfter ==
  ASSUME NEW w, IsHeads(w), NEW h, IsHead(h), NEW v, v = Append(w, h), NEW n, n = Len(w)
  PROVE  After(w, h, n, v)
<1>1. w \in Seq(Range(w))  BY DEF IsHeads
<1>2. /\ n \in Nat /\ DOMAIN w = 1 .. n
      /\ v \in Seq(Range(v)) /\ Len(v) = n + 1 /\ DOMAIN v = 1 .. n + 1
      /\ \A i \in 1 .. n : v[i] = w[i]
      /\ v[n + 1] = h
  <2>1. Longer(w, h, n, v)  BY <1>1, HeadWritten
  <2> QED  BY <2>1 DEF Longer
<1>3. \A i \in 1 .. n + 1 : i \in 1 .. n \/ i = n + 1  BY <1>2
<1>4. IsHeads(v)  BY <1>2, <1>3 DEF IsHeads
<1>5. DEFINE P(x) == x.status \notin 100 .. 199 \ {101}
<1>6. FinalsIn(w) = {i \in 1 .. n : P(w[i])}  BY <1>2 DEF FinalsIn
<1>7. FinalsIn(v) = {i \in 1 .. n + 1 : P(v[i])}  BY <1>2 DEF FinalsIn
<1>8. P(h) <=> is_final(h.status)
  <2>1. PICK s : s = h.status  OBVIOUS
  <2>2. s \in 100 .. 999  BY <2>1 DEF IsHead
  <2>3. is_final(s) <=> s \notin 100 .. 199 \ {101}  BY <2>2, FinalIs, ZenonT(60)
  <2> QED  BY <2>1, <2>3
<1> HIDE DEF P
<1>9. \A i \in 1 .. n : i \in 1 .. n + 1  BY <1>2
<1>10. n + 1 \in 1 .. n + 1  BY <1>2
<1>11. FinalsIn(v) = {i \in 1 .. n : P(w[i])} \union {i \in {n + 1} : P(h)}  BY <1>2, <1>3, <1>7, <1>9, <1>10
<1> QED  BY <1>2, <1>4, <1>6, <1>8, <1>11 DEF After

(* A step that ends a request: it is answered, it was, there is nobody to answer, or the answer is  *)
(* lost; from request_filter a failed write ends it only later.                                     *)
Ends ==
    /\ configs' = configs /\ store' = store /\ SameRequest /\ IsRequest(req')
    /\ DOMAIN cx' = DOMAIN cx /\ DOMAIN out' = DOMAIN out
    /\ cx.pc \in {"filter", "fail", "answer"} /\ cx'.pc \in {"log", "fail"}
    /\ cx'.pc = "fail" => cx.pc = "filter" /\ cx'.error \in Errors
    /\ out'.sent = out.sent /\ out'.fed = out.fed /\ out'.mirrors = out.mirrors /\ out'.logged = out.logged
    /\ \/ /\ out'.written = out.written
          /\ cx'.pc = "fail" \/ Finals # {} \/ cx'.client_abort \/ out'.lost
          /\ Finals = {} => cx'.local_status = Meant(cx'.error_key)
       \/ Finals = {} /\ \E h : IsFinal(h) /\ out'.written = Append(out.written, h)
    /\ cx.pc # "filter" => cx'.gen = cx.gen /\ cx'.rule = cx.rule
    /\ cx'.body_bytes = cx.body_bytes /\ cx'.fed = cx.fed /\ cx'.upgraded = cx.upgraded
    /\ cx'.mirrored = cx.mirrored /\ cx'.status = cx.status
    /\ cx'.refused = ""
    /\ cx'.error_key = "RequestTooLarge" => out.sent = {} \/ cx.refused # ""

(* The invariant holds after one. *)
LEMMA EndsKeep == ASSUME PathInv, Ends PROVE PathInv'
<1>1. configs' = configs /\ SameRequest  BY DEF Ends
<1>2. Shaped /\ Answering  BY DEF PathInv
<1>3. cx'.pc \in {"log", "fail"} /\ cx'.status = 0 /\ out'.logged = 0  BY <1>2 DEF Ends, Answering
<1>4. Shaped' /\ Answering'
  <2>1. configs' = Configs /\ store' \in DOMAIN Configs /\ IsRequest(req')
        /\ DOMAIN cx' = DOMAIN Fresh /\ DOMAIN out' = DOMAIN Nothing
        /\ cx'.pc \in Upstream \union {"filter", "fail", "log", "done"}
    BY <1>2 DEF Shaped, Ends
  <2>2. CASE /\ out'.written = out.written
             /\ cx'.pc = "fail" \/ Finals # {} \/ cx'.client_abort \/ out'.lost
             /\ Finals = {} => cx'.local_status = Meant(cx'.error_key)
    <3>1. Finals' = Finals  BY <2>2 DEF Finals
    <3>2. Shaped'  BY <1>2, <2>1, <2>2 DEF Shaped
    <3>3. Answering'  BY <1>2, <1>3, <2>2, <3>1 DEF Answering
    <3> QED  BY <3>2, <3>3
  <2>3. CASE Finals = {} /\ \E h : IsFinal(h) /\ out'.written = Append(out.written, h)
    <3>1. PICK h : IsFinal(h) /\ out'.written = Append(out.written, h)  BY <2>3
    <3>2. PICK n : n = Len(out.written)  OBVIOUS
    <3>3. IsHead(h) /\ is_final(h.status)  BY <3>1, FinalHead
    <3>4. /\ n \in Nat /\ Len(out'.written) = n + 1
          /\ FinalsIn(out'.written) = FinalsIn(out.written) \union {i \in {n + 1} : is_final(h.status)}
          /\ IsHeads(out'.written)
      <4>1. PICK w : w = out.written  OBVIOUS
      <4>2. PICK v : v = out'.written  OBVIOUS
      <4>3. IsHeads(w)  BY <1>2, <4>1 DEF Shaped
      <4>4. After(w, h, n, v)  BY <3>1, <3>2, <3>3, <4>1, <4>2, <4>3, FinalsAfter
      <4> QED  BY <4>1, <4>2, <4>4 DEF After
    <3>5. Finals' = {n + 1}
      <4>1. Finals = FinalsIn(out.written) /\ Finals' = FinalsIn(out'.written)  BY DEF Finals, FinalsIn
      <4> QED  BY <2>3, <3>3, <3>4, <4>1
    <3>6. Shaped'  BY <2>1, <3>4 DEF Shaped
    <3>7. Answering'  BY <1>3, <3>4, <3>5 DEF Answering
    <3> QED  BY <3>6, <3>7
  <2> QED  BY <2>2, <2>3 DEF Ends
<1>5. Mirroring'  BY <1>3 DEF PathInv, Mirroring, Ends
<1>6. Failing'
  <2>1. cx.pc = "filter" => out.sent = {}  BY DEF PathInv, Sending
  <2> QED  BY <1>3, <2>1 DEF Failing, Ends
<1>7. Routing'  BY <1>3 DEF Routing, Upstream
<1>8. ASSUME NEW s \in out.sent
      PROVE  s.gen = cx'.gen /\ s.rule = cx'.rule /\ Right(s.gen, s.rule, s.consumer)'
             /\ Backs(s.gen, s.rule, s.to)'
  <2>1. s.gen = cx.gen /\ s.rule = cx.rule /\ Right(s.gen, s.rule, s.consumer) /\ Backs(s.gen, s.rule, s.to)
    BY DEF PathInv, Sending
  <2>2. Right(s.gen, s.rule, s.consumer)'  BY <1>1, <2>1, RightKept
  <2>3. Backs(s.gen, s.rule, s.to)'  BY <1>1, <2>1 DEF Backs
  <2>4. cx.pc # "filter"  BY DEF PathInv, Sending
  <2> QED  BY <2>1, <2>2, <2>3, <2>4 DEF Ends
<1>9. Sending'  BY <1>3, <1>8 DEF Sending, Ends
<1>10. Feeding'
  <2>1. req'.body = req.body  BY DEF Ends, SameRequest
  <2>2. out.sent # {} => cx.pc # "filter" /\ SizeRows' = SizeRows  BY DEF PathInv, Sending, Ends, SizeRows
  <2>3. out.sent # {} => \A p \in SizeRows' :
          /\ out'.fed <= p.plugin.max
          /\ cx'.refused # "" \/ cx'.error_key = "RequestTooLarge" => Total(req'.body) > p.plugin.max
    BY <2>1, <2>2 DEF PathInv, Feeding, Ends
  <2>4. cx'.fed \in 0 .. Len(req'.body) /\ cx'.body_bytes \in Nat /\ out'.fed \in Nat /\ cx'.upgraded \in BOOLEAN
    BY <2>1 DEF PathInv, Feeding, Ends
  <2>5. out'.sent = {} => out'.fed = 0  BY DEF PathInv, Feeding, Ends
  <2>6. out'.sent = out.sent  BY DEF Ends
  <2> QED  BY <1>3, <2>3, <2>4, <2>5, <2>6 DEF Feeding
<1> QED  BY <1>4, <1>5, <1>6, <1>7, <1>9, <1>10 DEF PathInv

(* What a client offers to be tunnelled decides nothing. *)
LEMMA DropKeeps ==
  ASSUME IsRequest(req), req' = drop_tunnelling_upgrade(req)
  PROVE  SameRequest /\ IsRequest(req')
<1>1. PICK u : u = IF req.upgrade = <<"websocket">> THEN req.upgrade ELSE <<>>  OBVIOUS
<1>2. req' = [req EXCEPT !.upgrade = u]  BY <1>1 DEF drop_tunnelling_upgrade
<1>3. {"host", "target", "method", "headers", "authorization", "declared", "body", "peer", "forwarded",
       "named", "origin", "preflight", "upgrade"} \subseteq DOMAIN req
  BY DEF IsRequest
<1>4. SameRequest  BY <1>2, <1>3 DEF SameRequest
<1>5. DOMAIN req' = DOMAIN req  BY <1>2
<1>6. IsRequest(req')  BY <1>3, <1>4, <1>5 DEF IsRequest, SameRequest
<1> QED  BY <1>4, <1>6

(* A context that carries over what a request was found to be. *)
Carries(c) ==
    /\ DOMAIN c = DOMAIN cx
    /\ c.body_bytes = cx.body_bytes /\ c.fed = cx.fed /\ c.upgraded = cx.upgraded
    /\ c.mirrored = cx.mirrored /\ c.status = cx.status /\ c.refused = ""
    /\ cx.pc # "filter" => c.gen = cx.gen /\ c.rule = cx.rule

(* The answer such a context records, if any, is the one that was recorded. *)
Unrecorded(c) == c.error_key = cx.error_key /\ c.local_status = cx.local_status

(* Where an answer may be written. *)
Unanswered ==
    /\ configs' = configs /\ store' = store /\ SameRequest /\ IsRequest(req')
    /\ cx.pc \in {"filter", "fail"} /\ Finals = {}

(* The head of an answer has the status it is given. *)
LEMMA HeadHas == ASSUME NEW c, NEW s \in 200 .. 999, NEW h PROVE IsFinal(ResponseHead(c, s, h))
<1>1. ResponseHead(c, s, h).status = s  BY DEF ResponseHead
<1> QED  BY <1>1 DEF IsFinal

(* How the write of an answer ends: it is written, or it fails in its body or before. *)
AnswerWritten(d, h) ==
    \/ cx' = [d EXCEPT !.pc = "log"] /\ Written(h)
    \/ BrokenOff(d) /\ Written(h)
    \/ BrokenOff(d) /\ Lost /\ d.local_status = Meant(d.error_key)

(* However it does, it ends a request. *)
LEMMA AnswerEnds ==
  ASSUME PathInv, Unanswered, NEW d, Carries(d), NEW h, IsFinal(h), AnswerWritten(d, h),
         d.error_key = "RequestTooLarge" => out.sent = {} \/ cx.refused # ""
  PROVE  PathInv'
<1>1. \/ cx' = [d EXCEPT !.pc = "log"]
      \/ cx.pc = "filter" /\ \E source \in {"downstream", "unset"} : cx' = Fails(d, source, "write")
  BY DEF AnswerWritten, BrokenOff
<1>2. \A source \in {"downstream", "unset"} : [source |-> source, type |-> "write"] \in Errors  BY DEF Errors
<1>3. DOMAIN d = {"pc", "gen", "rule", "consumer", "cors", "cluster", "upstream", "tried", "reused",
                  "reuse_retried", "body_bytes", "fed", "upgraded", "refused", "error", "error_key",
                  "local_status", "client_abort", "mirrored", "wanted", "counted", "status"}
  BY ContextHas DEF Carries
<1>4. /\ DOMAIN cx' = DOMAIN cx /\ cx'.pc \in {"log", "fail"} /\ cx'.error_key = d.error_key
      /\ cx'.local_status = d.local_status
      /\ cx'.body_bytes = cx.body_bytes /\ cx'.fed = cx.fed /\ cx'.upgraded = cx.upgraded
      /\ cx'.mirrored = cx.mirrored /\ cx'.status = cx.status /\ cx'.refused = ""
      /\ cx.pc # "filter" => cx'.gen = cx.gen /\ cx'.rule = cx.rule
      /\ cx'.pc = "fail" => cx.pc = "filter" /\ cx'.error \in Errors
  <2>1. CASE cx' = [d EXCEPT !.pc = "log"]  BY <1>3, <2>1 DEF Carries
  <2>2. CASE cx.pc = "filter" /\ \E source \in {"downstream", "unset"} : cx' = Fails(d, source, "write")
    <3>1. PICK source \in {"downstream", "unset"} : cx' = Fails(d, source, "write")  BY <2>2
    <3>2. PICK e : e = [source |-> source, type |-> "write"]  OBVIOUS
    <3>3. cx' = [d EXCEPT !.pc = "fail", !.error = e]  BY <3>1, <3>2 DEF Fails
    <3>4. e \in Errors  BY <1>2, <3>2
    <3> QED  BY <1>3, <2>2, <3>3, <3>4 DEF Carries
  <2> QED  BY <1>1, <2>1, <2>2
<1>5. Written(h) \/ (Lost /\ d.local_status = Meant(d.error_key))  BY DEF AnswerWritten
<1>6. /\ DOMAIN out' = DOMAIN out /\ out'.sent = out.sent /\ out'.fed = out.fed
      /\ out'.mirrors = out.mirrors /\ out'.logged = out.logged
      /\ \/ out'.written = Append(out.written, h)
         \/ out'.written = out.written /\ out'.lost = TRUE /\ d.local_status = Meant(d.error_key)
  BY <1>5, ContextHas DEF Written, Lost
<1>7. \/ /\ out'.written = out.written
         /\ cx'.pc = "fail" \/ Finals # {} \/ cx'.client_abort \/ out'.lost
         /\ Finals = {} => cx'.local_status = Meant(cx'.error_key)
      \/ Finals = {} /\ \E x : IsFinal(x) /\ out'.written = Append(out.written, x)
  BY <1>4, <1>6 DEF Unanswered
<1>8. /\ configs' = configs /\ store' = store /\ SameRequest /\ IsRequest(req')
      /\ cx.pc \in {"filter", "fail", "answer"}
  BY DEF Unanswered
<1>9. Ends  BY <1>4, <1>6, <1>7, <1>8 DEF Ends
<1> QED  BY <1>9, EndsKeep

(* write_error ends a request. *)
LEMMA WriteErrorEnds ==
  ASSUME PathInv, Unanswered, NEW c, Carries(c), NEW key \in DOMAIN StatusOf, write_error(c, key),
         key = "RequestTooLarge" => out.sent = {} \/ cx.refused # ""
  PROVE  PathInv'
<1>1. PICK h : h = ResponseHead(c, StatusOf[key], Empty)  OBVIOUS
<1>2. PICK s : s = StatusOf[key]  OBVIOUS
<1>3. PICK d : d = [c EXCEPT !.local_status = s, !.error_key = key]  OBVIOUS
<1>4. \/ cx' = [d EXCEPT !.pc = "log"] /\ Written(h)
      \/ BrokenOff(d) /\ (Written(h) \/ Lost)
  BY <1>1, <1>2, <1>3 DEF write_error
<1>5. s \in 200 .. 999  BY <1>2, StatusIs, ZenonT(60)
<1>6. IsFinal(h)  BY <1>1, <1>2, <1>5, HeadHas, ZenonT(60)
<1>7. Carries(d) /\ d.error_key = key /\ d.local_status = s  BY <1>3, ContextHas DEF Carries
<1>8. s = Meant(key)
  <2>1. key # ""  BY DEF StatusOf
  <2> QED  BY <1>2, <2>1 DEF Meant
<1>9. AnswerWritten(d, h)  BY <1>4, <1>7, <1>8 DEF AnswerWritten
<1> QED  BY <1>6, <1>7, <1>9, AnswerEnds

(* And so does an answer of the gateway's own. *)
LEMMA RespondEnds ==
  ASSUME PathInv, Unanswered, cx.pc = "filter", NEW c, Carries(c), Unrecorded(c), NEW s \in 200 .. 999,
         NEW headers, respond(c, s, headers)
  PROVE  PathInv'
<1>1. PICK h : h = ResponseHead(c, s, headers)  OBVIOUS
<1>2. IsFinal(h)  BY <1>1, HeadHas, ZenonT(60)
<1>3. PICK d : d = [c EXCEPT !.local_status = s]  OBVIOUS
<1>4. Carries(d)  BY <1>3, ContextHas DEF Carries
<1>5. out.sent = {} /\ cx.local_status = Meant(cx.error_key)
  BY DEF PathInv, Sending, Answering, Unanswered
<1>6. CASE cx' = [c EXCEPT !.local_status = s, !.pc = "log"] /\ Written(h)
  <2>1. cx' = [d EXCEPT !.pc = "log"]  BY <1>3, <1>6
  <2>2. AnswerWritten(d, h)  BY <1>6, <2>1 DEF AnswerWritten
  <2> QED  BY <1>2, <1>4, <1>5, <2>2, AnswerEnds
<1>7. CASE BrokenOff(c) /\ Lost
  <2>1. AnswerWritten(c, h)  BY <1>5, <1>7 DEF AnswerWritten, Unrecorded
  <2> QED  BY <1>2, <1>5, <2>1, AnswerEnds
<1> QED  BY <1>1, <1>6, <1>7 DEF respond

(* At the first filter nothing was answered yet. *)
LEMMA FilterUnanswered ==
  ASSUME PathInv, cx.pc = "filter", req' = drop_tunnelling_upgrade(req), store' = store, UNCHANGED configs
  PROVE  Unanswered /\ cx.refused = "" /\ out.sent = {}
<1>1. IsRequest(req)  BY DEF PathInv, Shaped
<1>2. SameRequest /\ IsRequest(req')  BY <1>1, DropKeeps
<1>3. Finals = {} /\ cx.refused = "" /\ out.sent = {}  BY DEF PathInv, Answering, Failing, Sending
<1> QED  BY <1>2, <1>3 DEF Unanswered

(* InvalidTarget and NotFound *)
LEMMA RefuseKeeps ==
  ASSUME PathInv, InvalidTarget \/ NotFound, UNCHANGED configs
  PROVE  PathInv'
<1>1. PICK key \in {"InvalidRequestTarget", "NoRoute"} : Refuse(key)  BY DEF InvalidTarget, NotFound
<1>2. cx.pc = "filter" /\ req' = drop_tunnelling_upgrade(req)  BY DEF InvalidTarget, NotFound, Valid
<1>3. PICK g : g = IF key = "InvalidRequestTarget" THEN 0 ELSE store  OBVIOUS
<1>4. PICK c : c = [cx EXCEPT !.gen = g]  OBVIOUS
<1>5. store' = store /\ write_error(c, key)  BY <1>1, <1>3, <1>4 DEF Refuse
<1>6. Unanswered /\ cx.refused = "" /\ out.sent = {}  BY <1>2, <1>5, FilterUnanswered
<1>7. Carries(c)  BY <1>2, <1>4, <1>6, ContextHas DEF Carries
<1>8. key \in DOMAIN StatusOf  BY DEF StatusOf
<1> QED  BY <1>2, <1>5, <1>6, <1>7, <1>8, WriteErrorEnds

(* Local *)
LEMMA LocalKeeps == ASSUME PathInv, Local, UNCHANGED configs PROVE PathInv'
<1>1. cx.pc = "filter" /\ req' = drop_tunnelling_upgrade(req) /\ store' = store  BY DEF Local, Valid
<1>2. Unanswered /\ cx.refused = "" /\ out.sent = {}  BY <1>1, FilterUnanswered
<1>3. PICK c : c = [cx EXCEPT !.gen = store, !.rule = Matched]  OBVIOUS
<1>4. PICK d : d = [cx EXCEPT !.gen = store]  OBVIOUS
<1>5. Carries(c) /\ Carries(d)  BY <1>1, <1>2, <1>3, <1>4, ContextHas DEF Carries
<1>6. \/ write_error(c, "InternalError")
      \/ respond(d, 302, Empty)
      \/ \E key \in {"NoBackend", "NoEndpoints"} : write_error(d, key)
  BY <1>3, <1>4 DEF Local, Routed
<1>7. {"InternalError", "NoBackend", "NoEndpoints"} \subseteq DOMAIN StatusOf  BY DEF StatusOf
<1>8. CASE write_error(c, "InternalError")  BY <1>2, <1>5, <1>7, <1>8, WriteErrorEnds
<1>9. CASE respond(d, 302, Empty)
  <2>1. 302 \in 200 .. 999  OBVIOUS
  <2>2. Unrecorded(d)  BY <1>4, ContextHas DEF Unrecorded
  <2> QED  BY <1>1, <1>2, <1>5, <1>9, <2>1, <2>2, RespondEnds, ZenonT(60)
<1>10. CASE \E key \in {"NoBackend", "NoEndpoints"} : write_error(d, key)
  <2>1. PICK key \in {"NoBackend", "NoEndpoints"} : write_error(d, key)  BY <1>10
  <2> QED  BY <1>2, <1>5, <1>7, <2>1, WriteErrorEnds
<1> QED  BY <1>6, <1>8, <1>9, <1>10

(* Complete *)
LEMMA CompleteKeeps == ASSUME PathInv, Complete, UNCHANGED configs PROVE PathInv'
<1>1. Finals # {} /\ cx.refused = "" /\ cx.error_key = ""  BY DEF PathInv, Answering, Failing, Complete
<1>2. SameRequest /\ IsRequest(req')  BY DEF PathInv, Shaped, Complete, SameRequest
<1>3. Ends  BY <1>1, <1>2, ContextHas DEF Ends, Complete
<1> QED  BY <1>3, EndsKeep

(* What an error is answered with. *)
LEMMA ClassifyIs ==
  ASSUME NEW e \in Errors
  PROVE  classify(e) \in {"", "NoEndpoints", "UpstreamTimeout", "InternalError", "InvalidRequestTarget",
                          "UpstreamConnectError", "UpstreamConnectTimeout", "UpstreamTlsError", "UpstreamError"}
<1>1. \/ e.type \in {"503", "504", "413"}
      \/ e.source \in {"downstream", "unset"}
      \/ e.source = "upstream" /\ e.type \in {"connect", "connect_timeout", "tls", "timeout", "read"}
  BY DEF Errors
<1> QED  BY <1>1 DEF classify

(* final_response says whether there is a final head, and response_written which. *)
LEMMA FinalResponseIs ==
  ASSUME PathInv
  PROVE  /\ final_response <=> Finals # {}
         /\ \A i \in Finals : out.written[i] = response_written
<1>7. PICK w : w = out.written  OBVIOUS
<1>8. PICK n : n = Len(w)  OBVIOUS
<1>1. IsHeads(w) /\ Finals = FinalsIn(w) /\ \A i \in Finals : i = n
  BY <1>7, <1>8 DEF PathInv, Shaped, Answering, Finals, FinalsIn
<1>2. final_response <=> w # <<>> /\ is_final(w[n].status)
  BY <1>7, <1>8 DEF final_response, response_written
<1>3. w # <<>> => n \in DOMAIN w
  <2>1. PICK S : w \in Seq(S)  BY <1>1 DEF IsHeads
  <2>2. n \in Nat /\ DOMAIN w = 1 .. n /\ (w # <<>> => n # 0)  BY <1>8, <2>1, EmptySeq
  <2> QED  BY <2>2
<1>4. w # <<>> => (is_final(w[n].status) <=> n \in FinalsIn(w))
  <2> SUFFICES ASSUME w # <<>> PROVE is_final(w[n].status) <=> n \in FinalsIn(w)
    OBVIOUS
  <2>1. PICK s : s = w[n].status  OBVIOUS
  <2>2. s \in 100 .. 999  BY <1>1, <1>3, <2>1 DEF IsHeads, IsHead
  <2>3. is_final(s) <=> s \notin 100 .. 199 \ {101}  BY <2>2, FinalIs, ZenonT(60)
  <2> QED  BY <1>3, <2>1, <2>3 DEF FinalsIn
<1>5. w = <<>> => FinalsIn(w) = {}  BY DEF FinalsIn
<1>6. final_response <=> Finals # {}  BY <1>1, <1>2, <1>4, <1>5
<1> QED  BY <1>1, <1>6, <1>7, <1>8 DEF response_written

(* fail_to_proxy *)
LEMMA FailToProxyKeeps == ASSUME PathInv, fail_to_proxy, UNCHANGED configs PROVE PathInv'
<1>1. cx.pc = "fail" /\ store' = store /\ req' = req  BY DEF fail_to_proxy
<1>2. PICK key : key = IF cx.refused # "" THEN cx.refused ELSE classify(cx.error)  OBVIOUS
<1>3. PICK c : c = [cx EXCEPT !.refused = "", !.client_abort = (key = "")]  OBVIOUS
<1>4. IF answers(key) THEN write_error(c, key) ELSE cx' = [c EXCEPT !.pc = "log"] /\ UNCHANGED out
  BY <1>2, <1>3 DEF fail_to_proxy
<1>5. SameRequest /\ IsRequest(req')  BY <1>1 DEF PathInv, Shaped, SameRequest
<1>6. key \in {"", "NoEndpoints", "UpstreamTimeout", "InternalError", "InvalidRequestTarget",
               "UpstreamConnectError", "UpstreamConnectTimeout", "UpstreamTlsError", "UpstreamError",
               "RequestTooLarge"}
      /\ (key = "RequestTooLarge" => cx.refused # "")
  <2>1. cx.error \in Errors /\ cx.refused \in {"", "RequestTooLarge"}  BY <1>1 DEF PathInv, Failing
  <2> QED  BY <1>2, <2>1, ClassifyIs
<1>9. final_response <=> Finals # {}  BY FinalResponseIs
<1>10. CASE answers(key)
  <2>1. key # "" /\ Finals = {}  BY <1>9, <1>10 DEF answers
  <2>2. Unanswered  BY <1>1, <1>5, <2>1 DEF Unanswered
  <2>3. Carries(c)  BY <1>3, ContextHas DEF Carries
  <2>4. key \in DOMAIN StatusOf  BY <1>6, <2>1 DEF StatusOf
  <2> QED  BY <1>4, <1>6, <1>10, <2>2, <2>3, <2>4, WriteErrorEnds
<1>11. CASE ~answers(key)
  <2>1. key = "" \/ Finals # {}  BY <1>9, <1>11 DEF answers
  <2>2. cx' = [c EXCEPT !.pc = "log"] /\ out' = out  BY <1>4, <1>11
  <2>3. /\ out.sent # {} => cx.error_key = ""
        /\ Finals = {} => cx.local_status = Meant(cx.error_key)
    BY <1>1 DEF PathInv, Failing, Answering
  <2>4. /\ DOMAIN cx' = DOMAIN cx /\ cx'.pc = "log" /\ cx'.error_key = cx.error_key
        /\ cx'.local_status = cx.local_status
        /\ cx'.body_bytes = cx.body_bytes /\ cx'.fed = cx.fed /\ cx'.upgraded = cx.upgraded
        /\ cx'.mirrored = cx.mirrored /\ cx'.status = cx.status /\ cx'.refused = ""
        /\ cx'.gen = cx.gen /\ cx'.rule = cx.rule /\ cx'.client_abort = (key = "")
    BY <1>3, <2>2, ContextHas
  <2>5. /\ Finals # {} \/ cx'.client_abort
        /\ Finals = {} => cx'.local_status = Meant(cx'.error_key)
        /\ cx'.error_key = "RequestTooLarge" => out.sent = {}
    BY <2>1, <2>3, <2>4
  <2>6. Ends  BY <1>1, <1>5, <2>2, <2>4, <2>5 DEF Ends
  <2> QED  BY <2>6, EndsKeep
<1> QED  BY <1>10, <1>11

(* A rule that matches is one of the generation's. *)
LEMMA MatchedIs ==
  ASSUME NEW config, IsConfig(config), NEW r, NEW path, NEW m, m = RuleFor(config, r, path), m # 0
  PROVE  m \in DOMAIN config.rules
<1>1. PICK rules : rules = config.rules  OBVIOUS
<1>2. PICK hits : hits = {i \in DOMAIN rules : RuleMatches(rules[i], r.host, path, r.method, r.headers)}
  OBVIOUS
<1>3. m = IF hits = {} THEN 0 ELSE First(hits)  BY <1>1, <1>2 DEF RuleFor, match_port_with
<1>4. DOMAIN rules \in SUBSET Nat
  <2>1. PICK S : rules \in Seq(S)  BY <1>1 DEF IsConfig
  <2> QED  BY <2>1
<1>5. hits \in SUBSET Nat /\ hits # {}  BY <1>2, <1>3, <1>4
<1>6. m \in hits  BY <1>3, <1>5, FirstIs
<1> QED  BY <1>1, <1>2, <1>6

(* The generation served now is one of the configurations. *)
LEMMA ServedIsConfig ==
  ASSUME PathInv
  PROVE  configs = Configs /\ store \in DOMAIN configs /\ \A g \in DOMAIN configs : IsConfig(configs[g])
  BY PathAssumption DEF PathInv, Shaped

(* Access *)
LEMMA AccessKeeps ==
  ASSUME PathInv, NEW full \in BOOLEAN, Access(full), UNCHANGED configs
  PROVE  PathInv'
<1>1. Valid /\ store' = store  BY DEF Access
<1>2. cx.pc = "filter" /\ req' = drop_tunnelling_upgrade(req)  BY <1>1 DEF Valid
<1>3. Unanswered /\ cx.refused = "" /\ out.sent = {}  BY <1>1, <1>2, FilterUnanswered
<1>4. PICK g : g = store  OBVIOUS
<1>5. PICK i : i = Matched  OBVIOUS
<1>20. PICK config \in {configs[store]} : \E rule \in {config.rules[Matched]} :
         /\ ~misplaced(rule) /\ ~rule.filters.redirect
         /\ \E key \in pick_backend(rule) \cap Peopled(config),
               end \in {access(config.snap, rule, req, full)} :
              LET wanted == \E p \in Of(rule, "jwt") : wants_keys(p, req)
                  c == [Routed EXCEPT !.consumer = end.consumer, !.cors = end.cors, !.wanted = wanted,
                                      !.counted = end.counted]
              IN  \/ /\ end.key = ""
                     /\ cx' = [c EXCEPT !.pc = "peer", !.cluster = key] /\ UNCHANGED out
                  \/ /\ end.key = "Preflight"
                     /\ respond(c, 204, [n \in {"allow-origin"} |-> <<end.cors.allow>>])
                  \/ /\ end.key \in DOMAIN StatusOf
                     /\ write_error(c, end.key)
  BY Zenon DEF Access
<1>21. PICK rule \in {config.rules[Matched]} :
         \E key \in pick_backend(rule) \cap Peopled(config),
            end \in {access(config.snap, rule, req, full)} :
           LET wanted == \E p \in Of(rule, "jwt") : wants_keys(p, req)
               c == [Routed EXCEPT !.consumer = end.consumer, !.cors = end.cors, !.wanted = wanted,
                                   !.counted = end.counted]
           IN  \/ /\ end.key = ""
                  /\ cx' = [c EXCEPT !.pc = "peer", !.cluster = key] /\ UNCHANGED out
               \/ /\ end.key = "Preflight"
                  /\ respond(c, 204, [n \in {"allow-origin"} |-> <<end.cors.allow>>])
               \/ /\ end.key \in DOMAIN StatusOf
                  /\ write_error(c, end.key)
  BY <1>20, Zenon
<1>22. PICK key \in pick_backend(rule) \cap Peopled(config),
            end \in {access(config.snap, rule, req, full)} :
         LET wanted == \E p \in Of(rule, "jwt") : wants_keys(p, req)
             c == [Routed EXCEPT !.consumer = end.consumer, !.cors = end.cors, !.wanted = wanted,
                                 !.counted = end.counted]
         IN  \/ /\ end.key = ""
                /\ cx' = [c EXCEPT !.pc = "peer", !.cluster = key] /\ UNCHANGED out
             \/ /\ end.key = "Preflight"
                /\ respond(c, 204, [n \in {"allow-origin"} |-> <<end.cors.allow>>])
             \/ /\ end.key \in DOMAIN StatusOf
                /\ write_error(c, end.key)
  BY <1>21, Zenon
<1>6. config = configs[g]  BY <1>4
<1>7. rule = config.rules[i]  BY <1>5
<1>8. end = access(config.snap, rule, req, full)  OBVIOUS
<1>9. PICK wanted : wanted = (\E p \in Of(rule, "jwt") : wants_keys(p, req))  OBVIOUS
<1>10. PICK c : c = [Routed EXCEPT !.consumer = end.consumer, !.cors = end.cors, !.wanted = wanted,
                                   !.counted = end.counted]
  OBVIOUS
<1>11. i # 0  BY <1>5 DEF Access
<1>12. \/ end.key = "" /\ cx' = [c EXCEPT !.pc = "peer", !.cluster = key] /\ out' = out
       \/ end.key = "Preflight" /\ respond(c, 204, [n \in {"allow-origin"} |-> <<end.cors.allow>>])
       \/ end.key \in DOMAIN StatusOf /\ write_error(c, end.key)
  BY <1>9, <1>10, <1>22, Zenon
<1>13. c = [cx EXCEPT !.gen = g, !.rule = i, !.consumer = end.consumer, !.cors = end.cors,
                      !.wanted = wanted, !.counted = end.counted]
  <2>1. Routed = [cx EXCEPT !.gen = g, !.rule = i]  BY <1>4, <1>5 DEF Routed
  <2> QED  BY <1>10, <2>1
<1>14. Carries(c)  BY <1>2, <1>3, <1>13, ContextHas DEF Carries
<1>15. CASE end.key = "Preflight" /\ respond(c, 204, [n \in {"allow-origin"} |-> <<end.cors.allow>>])
  <2>1. 204 \in 200 .. 999  OBVIOUS
  <2>2. Unrecorded(c)  BY <1>13, ContextHas DEF Unrecorded
  <2> QED  BY <1>2, <1>3, <1>14, <1>15, <2>1, <2>2, RespondEnds, ZenonT(60)
<1>16. CASE end.key \in DOMAIN StatusOf /\ write_error(c, end.key)
  <2>1. PICK k : k = end.key  OBVIOUS
  <2> QED  BY <1>2, <1>3, <1>14, <1>16, <2>1, WriteErrorEnds
<1>17. CASE end.key = "" /\ cx' = [c EXCEPT !.pc = "peer", !.cluster = key] /\ out' = out
  <2>1. configs = Configs /\ g \in DOMAIN configs /\ IsConfig(config)  BY <1>4, <1>6, ServedIsConfig
  <2>2. i \in DOMAIN config.rules
    BY <1>4, <1>5, <1>6, <1>11, <2>1, MatchedIs DEF Matched
  <2>3. IsRequest(req)  BY DEF PathInv, Shaped
  <2>4. Admissible(config.snap, config.rules[i].route, end.consumer)
        /\ Told(config.snap, config.rules[i].route, end.consumer)
    BY <1>7, <1>8, <1>17, <2>1, <2>2, <2>3, AccessAdmits
  <2>5. \A path \in Readings : RuleFor(config, req, path) = i
    BY <1>1, <1>4, <1>5, <1>6 DEF Valid, path_params_change_the_route, Readings, Matched
  <2>6. Right(g, i, end.consumer)  BY <1>6, <2>1, <2>2, <2>4, <2>5 DEF Right
  <2>7. configs' = configs /\ SameRequest /\ IsRequest(req') /\ store' = store /\ Finals = {}
    BY <1>3 DEF Unanswered
  <2>8. Right(g, i, end.consumer)'  BY <2>6, <2>7, RightKept
  <2>19. key \in DOMAIN config.endpoints /\ key # None  BY <2>1, <1>22 DEF Peopled, IsConfig
  <2>9. (\E b \in configs'[g].rules[i].backends : b.cluster = key) /\ key \in DOMAIN configs'[g].endpoints
    BY <1>6, <1>7, <2>7, <2>19 DEF pick_backend
  <2>10. /\ DOMAIN cx' = DOMAIN cx /\ cx'.pc = "peer" /\ cx'.gen = g /\ cx'.rule = i
         /\ cx'.consumer = end.consumer /\ cx'.cluster = key
         /\ cx'.body_bytes = cx.body_bytes /\ cx'.fed = cx.fed /\ cx'.upgraded = cx.upgraded
         /\ cx'.mirrored = cx.mirrored /\ cx'.status = cx.status /\ cx'.refused = cx.refused
         /\ cx'.error_key = cx.error_key /\ cx'.local_status = cx.local_status
    BY <1>13, <1>17, ContextHas
  <2>11. Shaped'  BY <1>17, <2>7, <2>10 DEF PathInv, Shaped, Upstream
  <2>12. Answering'
    <3>1. Finals' = {}  BY <1>17, <2>7 DEF Finals
    <3>2. cx.status = 0 /\ out.logged = 0 /\ cx.local_status = Meant(cx.error_key)
      BY <1>2, <2>7 DEF PathInv, Answering
    <3> QED  BY <1>17, <2>10, <3>1, <3>2 DEF Answering
  <2>13. Mirroring'  BY <1>2, <1>17, <2>10 DEF PathInv, Mirroring
  <2>14. Failing'  BY <1>2, <1>3, <2>10 DEF PathInv, Failing
  <2>15. Routing'  BY <2>8, <2>9, <2>10 DEF Routing
  <2>16. out.sent = {} /\ out'.sent = {}  BY <1>2, <1>17 DEF PathInv, Sending
  <2>17. Sending'  BY <2>10, <2>16 DEF Sending
  <2>18. Feeding'
    <3>1. req'.body = req.body  BY <2>7 DEF SameRequest
    <3>2. ~cx.upgraded /\ out.fed = 0  BY <1>2, <2>16 DEF PathInv, Feeding
    <3>3. cx.fed \in 0 .. Len(req.body) /\ cx.body_bytes \in Nat /\ out.fed \in Nat /\ cx.upgraded \in BOOLEAN
      BY DEF PathInv, Feeding
    <3> QED  BY <1>17, <2>10, <2>16, <3>1, <3>2, <3>3 DEF Feeding
  <2> QED  BY <2>11, <2>12, <2>13, <2>14, <2>15, <2>17, <2>18 DEF PathInv
<1> QED  BY <1>12, <1>15, <1>16, <1>17

(* What was sent stays right when the request does. *)
LEMMA SentKept ==
  ASSUME PathInv, configs' = configs, SameRequest, cx'.gen = cx.gen, cx'.rule = cx.rule, NEW s \in out.sent
  PROVE  s.gen = cx'.gen /\ s.rule = cx'.rule /\ Right(s.gen, s.rule, s.consumer)' /\ Backs(s.gen, s.rule, s.to)'
<1>1. s.gen = cx.gen /\ s.rule = cx.rule /\ Right(s.gen, s.rule, s.consumer) /\ Backs(s.gen, s.rule, s.to)
  BY DEF PathInv, Sending
<1>2. Right(s.gen, s.rule, s.consumer)'  BY <1>1, RightKept
<1>3. Backs(s.gen, s.rule, s.to)'  BY <1>1 DEF Backs
<1> QED  BY <1>1, <1>2, <1>3

(* The rule of a request that is under way. *)
LEMMA UnderWay ==
  ASSUME PathInv, cx.pc \in Upstream
  PROVE  /\ Right(cx.gen, cx.rule, cx.consumer)
         /\ cx.gen \in DOMAIN configs /\ IsConfig(configs[cx.gen]) /\ cx.rule \in DOMAIN configs[cx.gen].rules
         /\ \E b \in configs[cx.gen].rules[cx.rule].backends : b.cluster = cx.cluster
         /\ cx.cluster \in DOMAIN configs[cx.gen].endpoints
<1>1. Right(cx.gen, cx.rule, cx.consumer)
      /\ (\E b \in configs[cx.gen].rules[cx.rule].backends : b.cluster = cx.cluster)
      /\ cx.cluster \in DOMAIN configs[cx.gen].endpoints
  BY DEF PathInv, Routing
<1>2. cx.gen \in DOMAIN configs /\ cx.rule \in DOMAIN configs[cx.gen].rules  BY <1>1 DEF Right
<1>3. IsConfig(configs[cx.gen])  BY <1>2, ServedIsConfig
<1> QED  BY <1>1, <1>2, <1>3

(* A step within an attempt: the request, its rule and who sent it stay. *)
Stays ==
    /\ UNCHANGED <<configs, store, req>>
    /\ DOMAIN cx' = DOMAIN cx /\ DOMAIN out' = DOMAIN out
    /\ cx'.gen = cx.gen /\ cx'.rule = cx.rule /\ cx'.consumer = cx.consumer /\ cx'.cluster = cx.cluster
    /\ cx'.upstream = cx.upstream /\ cx'.status = cx.status /\ cx'.error_key = cx.error_key
    /\ cx'.local_status = cx.local_status /\ out'.logged = out.logged
    /\ cx.pc \in {"connect", "send", "answer"} /\ cx'.pc \in {"send", "answer", "fail"}

(* Nothing is written meanwhile. *)
Silent ==
    /\ out'.written = out.written
    /\ cx'.pc # cx.pc => cx'.pc = "fail" \/ (cx.pc = "connect" /\ cx'.pc = "send")

(* What such a step keeps of the invariant. *)
LEMMA StaysKeep ==
  ASSUME PathInv, Stays
  PROVE  /\ SameRequest
         /\ IsHeads(out'.written) => Shaped'
         /\ Routing'
         /\ Silent => Answering'
         /\ \A s \in out.sent : s.gen = cx'.gen /\ s.rule = cx'.rule /\ Right(s.gen, s.rule, s.consumer)'
                                /\ Backs(s.gen, s.rule, s.to)'
         /\ SizeRows' = SizeRows
<1>1. configs' = configs /\ SameRequest  BY DEF Stays, SameRequest
<1>2. IsHeads(out'.written) => Shaped'  BY DEF PathInv, Shaped, Stays, Upstream
<1>3. Routing'
  <2>1. PICK g : g = cx.gen  OBVIOUS
  <2>2. PICK i : i = cx.rule  OBVIOUS
  <2>3. PICK c : c = cx.consumer  OBVIOUS
  <2>4. cx'.gen = g /\ cx'.rule = i /\ cx'.consumer = c  BY <2>1, <2>2, <2>3 DEF Stays
  <2>5. Right(g, i, c) /\ (\E b \in configs[g].rules[i].backends : b.cluster = cx.cluster)
        /\ cx.cluster \in DOMAIN configs[g].endpoints
    BY <2>1, <2>2, <2>3 DEF PathInv, Routing, Stays, Upstream
  <2>6. Right(g, i, c)'  BY <1>1, <2>5, RightKept
  <2>7. (\E b \in configs[g].rules[i].backends : b.cluster = cx.cluster)'
        /\ cx'.cluster \in DOMAIN configs'[g].endpoints
    BY <2>5 DEF Stays
  <2>8. cx'.upstream \in configs'[cx'.gen].endpoints[cx'.cluster]  BY DEF PathInv, Routing, Stays
  <2> QED  BY <2>4, <2>6, <2>7, <2>8 DEF Routing
<1>4. Silent => Answering'
  <2> SUFFICES ASSUME Silent PROVE Answering'
    OBVIOUS
  <2>1. Finals' = Finals /\ out'.written = out.written  BY DEF Silent, Finals
  <2>2. cx'.pc \in {"send", "answer", "fail"} /\ cx'.status = 0 /\ out'.logged = 0
    BY DEF PathInv, Answering, Stays
  <2>3. cx'.pc = "send" => cx.pc \in {"connect", "send"}  BY DEF Silent, Stays
  <2>4. cx'.pc = "answer" => cx.pc = "answer"  BY DEF Silent, Stays
  <2>5. cx.pc # "done" /\ cx'.local_status = cx.local_status /\ cx'.error_key = cx.error_key  BY DEF Stays
  <2> QED  BY <2>1, <2>2, <2>3, <2>4, <2>5 DEF PathInv, Answering
<1>5. ASSUME NEW s \in out.sent
      PROVE  s.gen = cx'.gen /\ s.rule = cx'.rule /\ Right(s.gen, s.rule, s.consumer)'
             /\ Backs(s.gen, s.rule, s.to)'
  BY <1>1, SentKept DEF Stays
<1>6. SizeRows' = SizeRows  BY DEF Stays, SizeRows
<1> QED  BY <1>1, <1>2, <1>3, <1>4, <1>5, <1>6

(* upstream_request_filter *)
LEMMA UpstreamRequestFilterKeeps ==
  ASSUME PathInv, NEW reused \in BOOLEAN, upstream_request_filter(reused), UNCHANGED configs
  PROVE  PathInv'
<1>1. cx.pc = "connect" /\ store' = store /\ req' = req  BY DEF upstream_request_filter
<1>2. PICK fired \in mirrors(cx) :
        /\ cx' = [new_attempt(cx) EXCEPT !.pc = "send", !.reused = reused, !.mirrored = @ \/ fired]
        /\ out' = [out EXCEPT !.sent = @ \union {HeadSent(cx)}, !.mirrors = IF fired THEN @ + 1 ELSE @]
  BY DEF upstream_request_filter
<1>3. PICK head : head = HeadSent(cx)  OBVIOUS
<1>4. head.gen = cx.gen /\ head.rule = cx.rule /\ head.to = cx.upstream /\ head.consumer = cx.consumer
  BY <1>3 DEF HeadSent
<1>5. fired \in BOOLEAN /\ (fired => ~cx.mirrored)  BY <1>2 DEF mirrors
<1>6. /\ DOMAIN cx' = DOMAIN cx /\ cx'.pc = "send" /\ cx'.gen = cx.gen /\ cx'.rule = cx.rule
      /\ cx'.consumer = cx.consumer /\ cx'.cluster = cx.cluster /\ cx'.upstream = cx.upstream
      /\ cx'.status = cx.status /\ cx'.error_key = cx.error_key /\ cx'.refused = cx.refused
      /\ cx'.body_bytes = 0 /\ cx'.fed = 0 /\ cx'.upgraded = cx.upgraded
      /\ cx'.mirrored = (cx.mirrored \/ fired) /\ cx'.local_status = cx.local_status
  BY <1>2, ContextHas DEF new_attempt
<1>7. /\ DOMAIN out' = DOMAIN out /\ out'.sent = out.sent \union {head} /\ out'.written = out.written
      /\ out'.fed = out.fed /\ out'.logged = out.logged
      /\ out'.mirrors = IF fired THEN out.mirrors + 1 ELSE out.mirrors
  BY <1>2, <1>3, ContextHas
<1>8. Stays /\ Silent  BY <1>1, <1>6, <1>7 DEF Stays, Silent
<1>9. SameRequest /\ Shaped' /\ Routing' /\ Answering' /\ SizeRows' = SizeRows
  <2>1. IsHeads(out'.written)  BY <1>7 DEF PathInv, Shaped
  <2> QED  BY <1>8, <2>1, StaysKeep
<1>10. Mirroring'
  <2>1. out.mirrors \in {0, 1} /\ cx.mirrored \in BOOLEAN /\ (~cx.mirrored => out.mirrors = 0)
    BY <1>1 DEF PathInv, Mirroring
  <2>2. CASE fired
    <3>1. out.mirrors = 0  BY <1>5, <2>1, <2>2
    <3>2. out'.mirrors = 1  BY <1>7, <2>2, <3>1
    <3>3. cx'.mirrored = TRUE  BY <1>6, <2>1, <2>2
    <3> QED  BY <3>2, <3>3 DEF Mirroring
  <2>3. CASE ~fired  BY <1>5, <1>6, <1>7, <2>1, <2>3 DEF Mirroring
  <2> QED  BY <2>2, <2>3
<1>11. cx.refused = "" /\ cx.error_key = ""  BY <1>1 DEF PathInv, Failing
<1>12. Failing'  BY <1>6, <1>11 DEF Failing
<1>13. Right(head.gen, head.rule, head.consumer) /\ Backs(head.gen, head.rule, head.to)
  <2>1. PICK b \in configs[cx.gen].rules[cx.rule].backends : b.cluster = cx.cluster
    BY <1>1, UnderWay DEF Upstream
  <2>2. cx.upstream \in configs[cx.gen].endpoints[cx.cluster]  BY <1>1 DEF PathInv, Routing
  <2>3. Right(cx.gen, cx.rule, cx.consumer)  BY <1>1, UnderWay DEF Upstream
  <2>4. cx.cluster \in DOMAIN configs[cx.gen].endpoints  BY <1>1, UnderWay DEF Upstream
  <2> QED  BY <1>4, <2>1, <2>2, <2>3, <2>4 DEF Backs
<1>14. Right(head.gen, head.rule, head.consumer)' /\ Backs(head.gen, head.rule, head.to)'
  <2>1. configs' = configs  OBVIOUS
  <2> QED  BY <1>9, <1>13, <2>1, RightKept DEF Backs
<1>15. Sending'
  <2>1. ASSUME NEW s \in out'.sent
        PROVE  s.gen = cx'.gen /\ s.rule = cx'.rule /\ Right(s.gen, s.rule, s.consumer)'
               /\ Backs(s.gen, s.rule, s.to)'
    <3>1. CASE s = head  BY <1>4, <1>6, <1>14, <3>1
    <3>2. CASE s \in out.sent  BY <1>8, <3>2, StaysKeep
    <3> QED  BY <1>7, <2>1, <3>1, <3>2
  <2> QED  BY <1>6, <1>7, <2>1 DEF Sending
<1>16. Feeding'
  <2>1. out.fed \in Nat /\ cx.upgraded \in BOOLEAN /\ ~cx.upgraded  BY <1>1 DEF PathInv, Feeding
  <2>2. req.body \in Seq(Nat)  BY DEF PathInv, Shaped, IsRequest
  <2>3. Sums(req.body)[0] = 0 /\ Len(req.body) \in Nat  BY <2>2, SumsAre
  <2>4. \A p \in SizeRows : out.fed <= p.plugin.max
    <3>1. CASE out.sent # {}  BY <3>1 DEF PathInv, Feeding
    <3>2. CASE out.sent = {}
      <4>1. out.fed = 0  BY <3>2 DEF PathInv, Feeding
      <4>2. ASSUME NEW p \in SizeRows PROVE p.plugin.max \in Nat
        BY <1>1, UnderWay, BodyIsLimited DEF SizeRows, Upstream
      <4> QED  BY <4>1, <4>2
    <3> QED  BY <3>1, <3>2
  <2>5. cx'.fed \in 0 .. Len(req'.body) /\ cx'.body_bytes \in Nat /\ out'.fed \in Nat
        /\ cx'.body_bytes <= out'.fed
    BY <1>1, <1>6, <1>7, <2>1, <2>3
  <2>6. cx'.upgraded \in BOOLEAN /\ ~cx'.upgraded  BY <1>6, <2>1
  <2>7. cx'.body_bytes = Sums(req'.body)[cx'.fed]  BY <1>1, <1>6, <2>3
  <2>8. out'.sent # {} /\ cx'.refused = "" /\ cx'.error_key = ""  BY <1>6, <1>7, <1>11
  <2>9. \A p \in SizeRows' : out'.fed <= p.plugin.max  BY <1>7, <1>9, <2>4
  <2> QED  BY <2>5, <2>6, <2>7, <2>8, <2>9 DEF Feeding
<1> QED  BY <1>9, <1>10, <1>12, <1>15, <1>16 DEF PathInv

(* request_body_filter *)
LEMMA RequestBodyFilterKeeps == ASSUME PathInv, request_body_filter, UNCHANGED configs PROVE PathInv'
<1>1. cx.pc \in {"send", "answer"} /\ store' = store /\ req' = req  BY DEF request_body_filter
<1>2. PICK body : body = req.body  OBVIOUS
<1>3. PICK n : n = Len(body)  OBVIOUS
<1>4. PICK f : f = Sums(body)  OBVIOUS
<1>5. PICK fed : fed = cx.fed  OBVIOUS
<1>6. PICK chunk : chunk = body[fed + 1]  OBVIOUS
<1>7. PICK bytes : bytes = cx.body_bytes + chunk  OBVIOUS
<1>8. PICK c : c = [cx EXCEPT !.fed = fed + 1, !.body_bytes = IF cx.upgraded THEN cx.body_bytes ELSE bytes]
  OBVIOUS
<1>9. n \in Nat /\ fed \in 0 .. n /\ fed < n
  <2>1. body \in Seq(Nat)  BY <1>2 DEF PathInv, Shaped, IsRequest
  <2>2. fed \in 0 .. n  BY <1>2, <1>3, <1>5 DEF PathInv, Feeding
  <2>3. fed < n  BY <1>2, <1>3, <1>5 DEF request_body_filter
  <2> QED  BY <1>3, <2>1, <2>2, <2>3
<1>10. chunk \in Nat /\ f[fed + 1] = f[fed] + chunk /\ f[fed + 1] \in Nat /\ f[fed + 1] <= Total(body)
       /\ Total(body) \in Nat
  <2>1. body \in Seq(Nat)  BY <1>2 DEF PathInv, Shaped, IsRequest
  <2>2. chunk \in Nat /\ f[fed + 1] = f[fed] + chunk  BY <1>3, <1>4, <1>6, <1>9, <2>1, SumsAre, SMTT(30)
  <2>3. \A i \in 0 .. n : f[i] \in Nat /\ f[i] <= f[n]  BY <1>3, <1>4, <2>1, SumsAre
  <2>4. Total(body) = f[n]  BY <1>3, <1>4, <2>1, SumsAre
  <2>5. fed + 1 \in 0 .. n /\ n \in 0 .. n  BY <1>9
  <2> QED  BY <2>2, <2>3, <2>4, <2>5
<1>11. cx.body_bytes \in Nat /\ out.fed \in Nat /\ cx.body_bytes <= out.fed /\ cx.upgraded \in BOOLEAN
       /\ (cx.upgraded \/ cx.body_bytes = f[fed]) /\ out.sent # {}
  BY <1>1, <1>2, <1>4, <1>5 DEF PathInv, Feeding, Sending
<1>12. bytes \in Nat /\ (cx.upgraded \/ bytes = f[fed + 1])  BY <1>7, <1>10, <1>11
<1>13. PICK rule : rule = configs[cx.gen].rules[cx.rule]  OBVIOUS
<1>14. IF request_body(rule, bytes, cx.upgraded)
       THEN cx' = Fails([c EXCEPT !.refused = "RequestTooLarge"], "internal", "413") /\ out' = out
       ELSE cx' = c /\ out' = [out EXCEPT !.fed = IF c.body_bytes > @ THEN c.body_bytes ELSE @]
  BY <1>2, <1>5, <1>6, <1>7, <1>8, <1>13 DEF request_body_filter, Rule, Config
<1>15. ASSUME NEW p \in SizeRows
       PROVE  p.plugin.max \in Nat /\ (request_body(rule, bytes, cx.upgraded) <=> ~cx.upgraded /\ bytes > p.plugin.max)
              /\ out.fed <= p.plugin.max
  <2>1. out.fed <= p.plugin.max  BY <1>11 DEF PathInv, Feeding
  <2> QED  BY <1>1, <1>13, <2>1, UnderWay, BodyIsLimited DEF SizeRows, Upstream
<1>16. /\ DOMAIN c = DOMAIN cx /\ c.fed = fed + 1
       /\ c.body_bytes = IF cx.upgraded THEN cx.body_bytes ELSE bytes
       /\ c.pc = cx.pc /\ c.gen = cx.gen /\ c.rule = cx.rule /\ c.consumer = cx.consumer
       /\ c.cluster = cx.cluster /\ c.upstream = cx.upstream /\ c.status = cx.status
       /\ c.error_key = cx.error_key /\ c.refused = cx.refused /\ c.upgraded = cx.upgraded
       /\ c.mirrored = cx.mirrored /\ c.local_status = cx.local_status
  BY <1>8, ContextHas
<1>17. cx.refused = "" /\ cx.error_key = ""  BY <1>1 DEF PathInv, Failing
<1>18. fed + 1 \in 0 .. Len(req'.body) /\ c.body_bytes \in Nat
  <2>1. fed + 1 \in 0 .. n /\ req'.body = body  BY <1>1, <1>2, <1>9
  <2>2. c.body_bytes = cx.body_bytes \/ c.body_bytes = bytes  BY <1>16
  <2> QED  BY <1>3, <1>11, <1>12, <2>1, <2>2
<1>19. IsHeads(out.written)  BY DEF PathInv, Shaped
<1>20. CASE request_body(rule, bytes, cx.upgraded)
  <2>1. cx' = Fails([c EXCEPT !.refused = "RequestTooLarge"], "internal", "413") /\ out' = out  BY <1>14, <1>20
  <2>2. /\ DOMAIN cx' = DOMAIN cx /\ cx'.fed = fed + 1 /\ cx'.body_bytes = c.body_bytes
        /\ cx'.pc = "fail" /\ cx'.gen = cx.gen /\ cx'.rule = cx.rule /\ cx'.consumer = cx.consumer
        /\ cx'.cluster = cx.cluster /\ cx'.upstream = cx.upstream /\ cx'.status = cx.status
        /\ cx'.error_key = cx.error_key /\ cx'.refused = "RequestTooLarge" /\ cx'.upgraded = cx.upgraded
        /\ cx'.mirrored = cx.mirrored /\ cx'.local_status = cx.local_status
        /\ cx'.error = [source |-> "internal", type |-> "413"]
    BY <1>16, <2>1, ContextHas DEF Fails
  <2>3. Stays /\ Silent  BY <1>1, <2>1, <2>2 DEF Stays, Silent
  <2>4. Shaped' /\ Routing' /\ Answering' /\ SizeRows' = SizeRows  BY <1>19, <2>1, <2>3, StaysKeep
  <2>5. Mirroring'  BY <1>1, <2>1, <2>2 DEF PathInv, Mirroring
  <2>6. Failing'
    <3>1. cx'.error \in Errors  BY <2>2 DEF Errors
    <3> QED  BY <1>17, <2>2, <3>1 DEF Failing
  <2>7. Sending'
    <3>1. \A s \in out'.sent : s.gen = cx'.gen /\ s.rule = cx'.rule /\ Right(s.gen, s.rule, s.consumer)'
                               /\ Backs(s.gen, s.rule, s.to)'
      BY <2>1, <2>3, StaysKeep
    <3> QED  BY <2>2, <3>1 DEF Sending
  <2>8. Feeding'
    <3>1. ASSUME NEW p \in SizeRows PROVE Total(body) > p.plugin.max
      <4>1. PICK m : m = p.plugin.max  OBVIOUS
      <4>2. m \in Nat /\ ~cx.upgraded /\ bytes > m  BY <1>15, <1>20, <3>1, <4>1
      <4>3. bytes <= Total(body)  BY <1>10, <1>12, <4>2
      <4> QED  BY <1>10, <1>12, <4>1, <4>2, <4>3
    <3>2. \A p \in SizeRows' : out'.fed <= p.plugin.max /\ Total(req'.body) > p.plugin.max
      BY <1>1, <1>2, <1>15, <2>1, <2>4, <3>1
    <3> QED  BY <1>11, <1>18, <2>1, <2>2, <3>2 DEF Feeding
  <2> QED  BY <2>4, <2>5, <2>6, <2>7, <2>8 DEF PathInv
<1>21. CASE ~request_body(rule, bytes, cx.upgraded)
  <2>1. cx' = c /\ out' = [out EXCEPT !.fed = IF c.body_bytes > @ THEN c.body_bytes ELSE @]  BY <1>14, <1>21
  <2>2. /\ DOMAIN out' = DOMAIN out /\ out'.sent = out.sent /\ out'.written = out.written
        /\ out'.mirrors = out.mirrors /\ out'.logged = out.logged
        /\ out'.fed = IF c.body_bytes > out.fed THEN c.body_bytes ELSE out.fed
    BY <2>1, ContextHas
  <2>3. Stays /\ Silent  BY <1>1, <1>16, <2>1, <2>2 DEF Stays, Silent
  <2>4. Shaped' /\ Routing' /\ Answering' /\ SizeRows' = SizeRows  BY <1>19, <2>2, <2>3, StaysKeep
  <2>5. Mirroring'  BY <1>1, <1>16, <2>1, <2>2 DEF PathInv, Mirroring
  <2>6. Failing'  BY <1>1, <1>16, <1>17, <2>1 DEF Failing
  <2>7. Sending'
    <3>1. \A s \in out'.sent : s.gen = cx'.gen /\ s.rule = cx'.rule /\ Right(s.gen, s.rule, s.consumer)'
                               /\ Backs(s.gen, s.rule, s.to)'
      BY <2>2, <2>3, StaysKeep
    <3> QED  BY <1>1, <1>11, <1>16, <2>1, <2>2, <3>1 DEF Sending
  <2>8. Feeding'
    <3>1. out'.fed \in Nat /\ c.body_bytes <= out'.fed  BY <1>11, <1>18, <2>2
    <3>2. ASSUME NEW p \in SizeRows PROVE out'.fed <= p.plugin.max
      <4>1. PICK m : m = p.plugin.max  OBVIOUS
      <4>2. m \in Nat /\ out.fed <= m /\ (cx.upgraded \/ ~(bytes > m))  BY <1>15, <1>21, <3>2, <4>1
      <4>3. c.body_bytes <= m  BY <1>11, <1>12, <1>16, <4>2
      <4> QED  BY <1>11, <1>18, <2>2, <4>1, <4>2, <4>3
    <3>3. cx'.upgraded \/ cx'.body_bytes = Sums(req'.body)[cx'.fed]
      BY <1>1, <1>2, <1>4, <1>12, <1>16, <2>1
    <3>4. cx'.upgraded \in BOOLEAN /\ (cx'.pc \in {"filter", "peer", "connect", "send"} => ~cx'.upgraded)
      BY <1>16, <2>1 DEF PathInv, Feeding
    <3>5. cx'.refused = "" /\ cx'.error_key = "" /\ out'.sent # {} /\ cx'.fed = fed + 1
          /\ cx'.body_bytes = c.body_bytes
      BY <1>11, <1>16, <1>17, <2>1, <2>2
    <3>6. \A p \in SizeRows' : out'.fed <= p.plugin.max  BY <2>4, <3>2
    <3> QED  BY <1>18, <3>1, <3>3, <3>4, <3>5, <3>6 DEF Feeding
  <2> QED  BY <2>4, <2>5, <2>6, <2>7, <2>8 DEF PathInv
<1> QED  BY <1>20, <1>21

(* response_filter *)
LEMMA ResponseFilterKeeps ==
  ASSUME PathInv, NEW status \in Statuses, response_filter(status), UNCHANGED configs
  PROVE  PathInv'
<1>1. cx.pc = "send" /\ store' = store /\ req' = req  BY DEF response_filter
<1>2. status \in 100 .. 999  BY PathAssumption
<1>3. PICK h : h = ResponseHead(cx, status, IF is_final(status)
                                            THEN apply_header_ops(UpstreamHeaders, Rule.filters.response_headers)
                                            ELSE UpstreamHeaders)
  OBVIOUS
<1>4. h.status = status  BY <1>3 DEF ResponseHead
<1>5. IsHead(h)  BY <1>2, <1>4 DEF IsHead
<1>6. PICK pc : pc = IF is_final(status) THEN "answer" ELSE "send"  OBVIOUS
<1>7. PICK up : up = (status = 101)  OBVIOUS
<1>8. cx' = [cx EXCEPT !.pc = pc, !.upgraded = up]  BY <1>1, <1>6, <1>7 DEF response_filter
<1>9. out' = [out EXCEPT !.written = Append(@, h)]  BY <1>3 DEF response_filter, Written
<1>10. up \in BOOLEAN /\ (up => is_final(status))  BY <1>2, <1>7 DEF is_final
<1>11. /\ DOMAIN cx' = DOMAIN cx /\ cx'.pc = pc /\ cx'.upgraded = up /\ cx'.gen = cx.gen /\ cx'.rule = cx.rule
       /\ cx'.consumer = cx.consumer /\ cx'.cluster = cx.cluster /\ cx'.upstream = cx.upstream
       /\ cx'.status = cx.status /\ cx'.error_key = cx.error_key /\ cx'.refused = cx.refused
       /\ cx'.body_bytes = cx.body_bytes /\ cx'.fed = cx.fed /\ cx'.mirrored = cx.mirrored
       /\ cx'.local_status = cx.local_status
  BY <1>8, ContextHas
<1>12. /\ DOMAIN out' = DOMAIN out /\ out'.sent = out.sent /\ out'.written = Append(out.written, h)
       /\ out'.fed = out.fed /\ out'.logged = out.logged /\ out'.mirrors = out.mirrors
  BY <1>9, ContextHas
<1>13. Stays  BY <1>1, <1>6, <1>11, <1>12 DEF Stays
<1>14. PICK w : w = out.written  OBVIOUS
<1>15. PICK v : v = out'.written  OBVIOUS
<1>16. PICK n : n = Len(w)  OBVIOUS
<1>17. After(w, h, n, v)
  <2>1. IsHeads(w)  BY <1>14 DEF PathInv, Shaped
  <2>2. v = Append(w, h)  BY <1>12, <1>14, <1>15
  <2> QED  BY <1>5, <1>16, <2>1, <2>2, FinalsAfter
<1>18. IsHeads(out'.written)  BY <1>15, <1>17 DEF After
<1>19. Shaped' /\ Routing' /\ SizeRows' = SizeRows  BY <1>13, <1>18, StaysKeep
<1>20. Answering'
  <2>1. Finals = {} /\ cx.status = 0 /\ out.logged = 0 /\ cx.local_status = Meant(cx.error_key)
    BY <1>1 DEF PathInv, Answering
  <2>2. Finals = FinalsIn(w) /\ Finals' = FinalsIn(v)  BY <1>14, <1>15 DEF Finals, FinalsIn
  <2>3. Finals' = {i \in {n + 1} : is_final(status)} /\ Len(v) = n + 1  BY <1>4, <1>17, <2>1, <2>2 DEF After
  <2>4. cx'.status = 0 /\ out'.logged = 0 /\ cx'.pc = pc  BY <1>11, <1>12, <2>1
  <2>5. CASE is_final(status)
    <3>1. Finals' = {n + 1} /\ pc = "answer"  BY <1>6, <2>3, <2>5
    <3> QED  BY <1>15, <2>3, <2>4, <3>1 DEF Answering
  <2>6. CASE ~is_final(status)
    <3>1. Finals' = {} /\ pc = "send"  BY <1>6, <2>3, <2>6
    <3>2. cx'.local_status = Meant(cx'.error_key)  BY <1>11, <2>1
    <3> QED  BY <2>4, <3>1, <3>2 DEF Answering
  <2> QED  BY <2>5, <2>6
<1>21. Mirroring'  BY <1>1, <1>11, <1>12 DEF PathInv, Mirroring
<1>22. cx.refused = "" /\ cx.error_key = ""  BY <1>1 DEF PathInv, Failing
<1>23. pc \in {"send", "answer"} /\ (pc = "send" => ~up)  BY <1>6, <1>10
<1>24. Failing'  BY <1>11, <1>22, <1>23 DEF Failing
<1>25. out.sent # {}  BY <1>1 DEF PathInv, Sending
<1>26. Sending'
  <2>1. \A s \in out'.sent : s.gen = cx'.gen /\ s.rule = cx'.rule /\ Right(s.gen, s.rule, s.consumer)'
                             /\ Backs(s.gen, s.rule, s.to)'
    BY <1>12, <1>13, StaysKeep
  <2> QED  BY <1>11, <1>12, <1>23, <1>25, <2>1 DEF Sending
<1>27. Feeding'
  <2>1. /\ cx.fed \in 0 .. Len(req.body) /\ cx.body_bytes \in Nat /\ out.fed \in Nat
        /\ cx.body_bytes = Sums(req.body)[cx.fed] /\ cx.body_bytes <= out.fed
    BY <1>1 DEF PathInv, Feeding
  <2>2. \A p \in SizeRows' : out'.fed <= p.plugin.max  BY <1>12, <1>19, <1>25 DEF PathInv, Feeding
  <2>3. out'.sent # {} /\ cx'.refused = "" /\ cx'.error_key = ""  BY <1>11, <1>12, <1>22, <1>25
  <2>4. cx'.upgraded \in BOOLEAN /\ (cx'.pc \in {"filter", "peer", "connect", "send"} => ~cx'.upgraded)
    BY <1>10, <1>11, <1>23
  <2>5. /\ cx'.fed \in 0 .. Len(req'.body) /\ cx'.body_bytes \in Nat /\ out'.fed \in Nat
        /\ cx'.body_bytes = Sums(req'.body)[cx'.fed] /\ cx'.body_bytes <= out'.fed
    BY <1>1, <1>11, <1>12, <2>1
  <2> QED  BY <2>2, <2>3, <2>4, <2>5 DEF Feeding
<1> QED  BY <1>19, <1>20, <1>21, <1>24, <1>26, <1>27 DEF PathInv

(* logging *)
LEMMA LoggingKeeps == ASSUME PathInv, logging, UNCHANGED configs PROVE PathInv'
<1>1. cx.pc = "log" /\ store' = store /\ req' = req  BY DEF logging
<1>2. PICK status : status = IF final_response THEN response_written.status ELSE cx.local_status  OBVIOUS
<1>3. /\ DOMAIN cx' = DOMAIN Fresh /\ cx'.pc = "done" /\ cx'.gen = cx.gen /\ cx'.rule = cx.rule
      /\ cx'.error_key = cx.error_key /\ cx'.client_abort = cx.client_abort /\ cx'.status = status
      /\ cx'.body_bytes = 0 /\ cx'.fed = 0 /\ cx'.upgraded = FALSE /\ cx'.refused = ""
      /\ cx'.mirrored = FALSE
  BY <1>2 DEF logging, Fresh
<1>4. out' = [out EXCEPT !.logged = @ + 1]  BY DEF logging
<1>5. out.logged = 0  BY <1>1 DEF PathInv, Answering
<1>6. /\ DOMAIN out' = DOMAIN out /\ out'.sent = out.sent /\ out'.written = out.written /\ out'.fed = out.fed
      /\ out'.mirrors = out.mirrors /\ out'.logged = 1 /\ out'.lost = out.lost
  BY <1>4, <1>5, ContextHas
<1>7. Shaped'  BY <1>1, <1>3, <1>6 DEF PathInv, Shaped
<1>8. Answering'
  <2>1. Finals' = Finals  BY <1>6 DEF Finals
  <2>2. \A i \in Finals : i = Len(out.written)  BY DEF PathInv, Answering
  <2>3. Finals = {} => (cx.client_abort \/ out.lost) /\ cx.local_status = Meant(cx.error_key)
    BY <1>1 DEF PathInv, Answering
  <2>4. (Finals = {} => status = Meant(cx.error_key)) /\ \A i \in Finals : status = out.written[i].status
    BY <1>2, <2>3, FinalResponseIs
  <2> QED  BY <1>3, <1>6, <2>1, <2>2, <2>3, <2>4 DEF Answering
<1>9. Mirroring'  BY <1>3, <1>6 DEF PathInv, Mirroring
<1>10. Failing'  BY <1>3 DEF Failing
<1>11. Routing'  BY <1>3 DEF Routing, Upstream
<1>12. configs' = configs /\ SameRequest  BY <1>1 DEF SameRequest
<1>13. Sending'
  <2>1. \A s \in out'.sent : s.gen = cx'.gen /\ s.rule = cx'.rule /\ Right(s.gen, s.rule, s.consumer)'
                             /\ Backs(s.gen, s.rule, s.to)'
    BY <1>3, <1>6, <1>12, SentKept
  <2> QED  BY <1>3, <2>1 DEF Sending
<1>14. Feeding'
  <2>1. SizeRows' = SizeRows  BY <1>3 DEF SizeRows
  <2>2. out.fed \in Nat /\ (out.sent = {} => out.fed = 0)  BY DEF PathInv, Feeding
  <2>3. Len(req'.body) \in Nat
    <3>1. req.body \in Seq(Nat)  BY DEF PathInv, Shaped, IsRequest
    <3> QED  BY <1>1, <3>1
  <2>4. out'.sent # {} => \A p \in SizeRows' :
          /\ out'.fed <= p.plugin.max
          /\ cx'.refused # "" \/ cx'.error_key = "RequestTooLarge" => Total(req'.body) > p.plugin.max
    BY <1>1, <1>3, <1>6, <2>1 DEF PathInv, Feeding
  <2>8. PICK n : n = Len(req'.body)  OBVIOUS
  <2>9. 0 \in 0 .. n  BY <2>3, <2>8
  <2>10. cx'.fed = 0 /\ cx'.body_bytes = 0 /\ out'.fed \in Nat  BY <1>3, <1>6, <2>2
  <2>5. cx'.fed \in 0 .. Len(req'.body) /\ cx'.body_bytes \in Nat /\ out'.fed \in Nat  BY <2>8, <2>9, <2>10
  <2>6. cx'.upgraded \in BOOLEAN /\ ~cx'.upgraded /\ cx'.pc \notin {"send", "answer"}  BY <1>3
  <2>7. out'.sent = {} => out'.fed = 0  BY <1>6, <2>2
  <2> QED  BY <2>4, <2>5, <2>6, <2>7 DEF Feeding
<1> QED  BY <1>7, <1>8, <1>9, <1>10, <1>11, <1>13, <1>14 DEF PathInv

(* A swap, or nothing: the request does not see it. *)
LEMMA UnseenKeeps ==
  ASSUME PathInv, UNCHANGED <<configs, req, cx, out>>, store' \in DOMAIN Configs
  PROVE  PathInv'
<1>1. SameRequest  BY DEF SameRequest
<1>2. Shaped'  BY DEF PathInv, Shaped
<1>3. Finals' = Finals  BY DEF Finals
<1>4. Answering'  BY <1>3 DEF PathInv, Answering
<1>5. Mirroring' /\ Failing'  BY DEF PathInv, Mirroring, Failing
<1>6. Routing'
  <2> SUFFICES ASSUME cx.pc \in Upstream
               PROVE  Right(cx.gen, cx.rule, cx.consumer)'
    BY DEF PathInv, Routing
  <2>1. PICK g : g = cx.gen  OBVIOUS
  <2>2. PICK i : i = cx.rule  OBVIOUS
  <2>3. PICK c : c = cx.consumer  OBVIOUS
  <2>4. Right(g, i, c)  BY <2>1, <2>2, <2>3 DEF PathInv, Routing
  <2>5. Right(g, i, c)'  BY <1>1, <2>4, RightKept
  <2> QED  BY <2>1, <2>2, <2>3, <2>5
<1>7. Sending'
  <2>1. \A s \in out.sent : s.gen = cx'.gen /\ s.rule = cx'.rule /\ Right(s.gen, s.rule, s.consumer)'
                            /\ Backs(s.gen, s.rule, s.to)'
    BY <1>1, SentKept
  <2> QED  BY <2>1 DEF PathInv, Sending
<1>8. SizeRows' = SizeRows  BY DEF SizeRows
<1>9. Feeding'  BY <1>8 DEF PathInv, Feeding
<1> QED  BY <1>2, <1>4, <1>5, <1>6, <1>7, <1>9 DEF PathInv

(* The store serves another generation; a request keeps its own. *)
LEMMA SwapKeeps == ASSUME PathInv, Swap, UNCHANGED configs PROVE PathInv'
<1>1. PICK S : configs \in Seq(S)  BY PathAssumption DEF PathInv, Shaped
<1>2. store \in DOMAIN configs /\ configs = Configs  BY DEF PathInv, Shaped
<1>3. store' = store + 1 /\ store < Len(configs)  BY DEF Swap
<1>4. store' \in DOMAIN configs  BY <1>1, <1>2, <1>3
<1> QED  BY <1>2, <1>4, UnseenKeeps DEF Swap

(* A step that changes nothing. *)
LEMMA NothingKeeps == ASSUME PathInv, UNCHANGED vars PROVE PathInv'
<1>1. store' \in DOMAIN Configs  BY DEF PathInv, Shaped, vars
<1> QED  BY <1>1, UnseenKeeps DEF vars

(* The invariant holds when a request arrives. *)
LEMMA PathInvInit == Init => PathInv
<1> SUFFICES ASSUME Init PROVE PathInv
  OBVIOUS
<1>1. configs = Configs /\ store = 1 /\ req \in Requests /\ cx = Fresh /\ out = Nothing  BY DEF Init
<1>2. /\ cx.pc = "filter" /\ cx.body_bytes = 0 /\ cx.fed = 0 /\ cx.upgraded = FALSE /\ cx.refused = ""
      /\ cx.error_key = "" /\ cx.mirrored = FALSE /\ cx.status = 0 /\ cx.local_status = 0 /\ DOMAIN cx = DOMAIN Fresh
  BY <1>1 DEF Fresh
<1>3. /\ out.sent = {} /\ out.written = <<>> /\ out.mirrors = 0 /\ out.fed = 0 /\ out.logged = 0
      /\ DOMAIN out = DOMAIN Nothing
  BY <1>1 DEF Nothing
<1>4. IsRequest(req)  BY <1>1, PathAssumption
<1>5. store \in DOMAIN Configs
  <2>1. PICK S : Configs \in Seq(S)  BY PathAssumption
  <2>2. Len(Configs) >= 1  BY PathAssumption
  <2> QED  BY <1>1, <2>1, <2>2
<1>6. IsHeads(out.written)  BY <1>3 DEF IsHeads
<1>7. Shaped  BY <1>1, <1>2, <1>3, <1>4, <1>5, <1>6 DEF Shaped
<1>8. Finals = {}  BY <1>3 DEF Finals
<1>9. Answering  BY <1>2, <1>3, <1>8 DEF Answering, Meant
<1>10. Mirroring /\ Failing  BY <1>2, <1>3 DEF Mirroring, Failing
<1>11. Routing /\ Sending  BY <1>2, <1>3 DEF Routing, Sending, Upstream
<1>12. Feeding
  <2>1. Len(req.body) \in Nat
    <3>1. req.body \in Seq(Nat)  BY <1>4 DEF IsRequest
    <3> QED  BY <3>1
  <2>3. PICK n : n = Len(req.body)  OBVIOUS
  <2>4. 0 \in 0 .. n  BY <2>1, <2>3
  <2>5. cx.fed = 0 /\ cx.body_bytes = 0 /\ out.fed = 0  BY <1>2, <1>3
  <2>2. cx.fed \in 0 .. Len(req.body) /\ cx.body_bytes \in Nat /\ out.fed \in Nat  BY <2>3, <2>4, <2>5
  <2> QED  BY <1>2, <1>3, <2>2 DEF Feeding
<1> QED  BY <1>7, <1>9, <1>10, <1>11, <1>12 DEF PathInv

(* Every step keeps the invariant. *)
LEMMA PathInvStep == PathInv /\ [Next]_vars => PathInv'
<1> SUFFICES ASSUME PathInv, [Next]_vars PROVE PathInv'
  OBVIOUS
<1>1. CASE UNCHANGED vars  BY <1>1, NothingKeeps
<1>2. CASE Over  BY <1>2, NothingKeeps DEF Over
<1>3. CASE Swap /\ UNCHANGED configs  BY <1>3, SwapKeeps
<1>4. CASE Step /\ UNCHANGED configs
  <2>1. CASE InvalidTarget \/ NotFound  BY <1>4, <2>1, RefuseKeeps
  <2>2. CASE Local  BY <1>4, <2>2, LocalKeeps
  <2>3. CASE \E full \in BOOLEAN : Access(full)  BY <1>4, <2>3, AccessKeeps
  <2>4. CASE upstream_peer  BY <1>4, <2>4, UpstreamPeerKeeps
  <2>5. CASE fail_to_connect  BY <1>4, <2>5, FailToConnectKeeps
  <2>6. CASE \E b \in BOOLEAN : upstream_request_filter(b)  BY <1>4, <2>6, UpstreamRequestFilterKeeps
  <2>7. CASE \E b \in BOOLEAN : error_while_proxy(b)  BY <1>4, <2>7, ErrorWhileProxyKeeps
  <2>8. CASE request_body_filter  BY <1>4, <2>8, RequestBodyFilterKeeps
  <2>9. CASE \E s \in Statuses : response_filter(s)  BY <1>4, <2>9, ResponseFilterKeeps
  <2>10. CASE Quiet \/ ClientGone  BY <1>4, <2>10, AbandonedKeeps
  <2>11. CASE Complete  BY <1>4, <2>11, CompleteKeeps
  <2>12. CASE fail_to_proxy  BY <1>4, <2>12, FailToProxyKeeps
  <2>13. CASE logging  BY <1>4, <2>13, LoggingKeeps
  <2>14. CASE InvalidHeader  BY <1>4, <2>14, InvalidHeaderKeeps
  <2> QED
    BY <1>4, <2>1, <2>2, <2>3, <2>4, <2>5, <2>6, <2>7, <2>8, <2>9, <2>10, <2>11, <2>12, <2>13, <2>14 DEF Step
<1> QED  BY <1>1, <1>2, <1>3, <1>4 DEF Next

(* The invariant holds always. *)
LEMMA PathInvAlways == Spec => []PathInv
  BY PathInvInit, PathInvStep, PTL DEF Spec

(* A client gets one final head and none only when it went away or a write failed, a request one    *)
(* line in the log with that head's status, else with that of the error that was meant, and a       *)
(* mirror at most one copy, whatever fails after the head was written.                              *)
THEOREM EveryRequestAnsweredOnce == Spec => []AnsweredOnce
<1>1. PathInv => AnsweredOnce
  <2> SUFFICES ASSUME PathInv PROVE AnsweredOnce
    OBVIOUS
  <2>1. \A i, j \in Finals : i = j  BY DEF PathInv, Answering
  <2>2. out.logged <= 1 /\ out.mirrors <= 1
    <3>1. out.logged \in {0, 1} /\ out.mirrors \in {0, 1}  BY DEF PathInv, Answering, Mirroring
    <3> QED  BY <3>1
  <2>3. /\ cx.pc = "done" => \A i \in Finals : cx.status = out.written[i].status
        /\ cx.pc = "done" /\ Finals = {} =>
             /\ cx.client_abort \/ out.lost
             /\ cx.status = IF cx.error_key = "" THEN 0 ELSE StatusOf[cx.error_key]
    BY DEF PathInv, Answering, Meant
  <2> QED  BY <2>1, <2>2, <2>3 DEF AnsweredOnce
<1> QED  BY <1>1, PathInvAlways, PTL

(* What was sent as anonymous was told from the rest when the chain ran, and is still so.           *)
LEMMA AnonymousIsTold == PathInv => InvalidNeverAnonymous
<1> SUFFICES ASSUME PathInv, NEW s \in Sent
             PROVE  s.consumer # None /\ s.consumer.anonymous =>
                      \A c \in Credentials(configs[s.gen].snap, configs[s.gen].rules[s.rule].route) :
                        ~Presents(c[1], c[2])
  BY DEF InvalidNeverAnonymous
<1>1. s \in out.sent  BY DEF Sent
<1>2. Right(s.gen, s.rule, s.consumer)  BY <1>1 DEF PathInv, Sending
<1>3. Told(configs[s.gen].snap, configs[s.gen].rules[s.rule].route, s.consumer)  BY <1>2 DEF Right
<1> QED  BY <1>3 DEF Told

(* Nothing reaches an upstream unless every policy that governs the route holds of the request,     *)
(* whichever way the backend reads the path, all by the one generation the request was matched in;  *)
(* and what goes as anonymous carried no credential.                                                *)
THEOREM GuardsAlwaysHeld == Spec => []GuardsHeld
<1>1. PathInv => \A s \in Sent :
         LET config == configs[s.gen]
         IN  /\ \A path \in Readings :
                  LET i == RuleFor(config, req, path)
                  IN  i # 0 /\ Admissible(config.snap, config.rules[i].route, s.consumer)
             /\ \E b \in config.rules[s.rule].backends :
                  b.cluster \in DOMAIN config.endpoints /\ s.to \in config.endpoints[b.cluster]
  <2> SUFFICES ASSUME PathInv, NEW s \in Sent
               PROVE  LET config == configs[s.gen]
                      IN  /\ \A path \in Readings :
                               LET i == RuleFor(config, req, path)
                               IN  i # 0 /\ Admissible(config.snap, config.rules[i].route, s.consumer)
                          /\ \E b \in config.rules[s.rule].backends :
                               b.cluster \in DOMAIN config.endpoints /\ s.to \in config.endpoints[b.cluster]
    OBVIOUS
  <2>1. s \in out.sent  BY DEF Sent
  <2>2. Right(s.gen, s.rule, s.consumer) /\ Backs(s.gen, s.rule, s.to)  BY <2>1 DEF PathInv, Sending
  <2>3. PICK config : config = configs[s.gen]  OBVIOUS
  <2>4. s.rule # 0
    <3>1. IsConfig(config) /\ s.rule \in DOMAIN config.rules  BY <2>2, <2>3, ServedIsConfig DEF Right
    <3>2. PICK rules : rules = config.rules  OBVIOUS
    <3>3. PICK S : rules \in Seq(S)  BY <3>1, <3>2 DEF IsConfig
    <3>4. 0 \notin DOMAIN rules  BY <3>3
    <3> QED  BY <3>1, <3>2, <3>4
  <2>5. \A path \in Readings : RuleFor(config, req, path) = s.rule  BY <2>2, <2>3 DEF Right
  <2>6. Admissible(config.snap, config.rules[s.rule].route, s.consumer)  BY <2>2, <2>3 DEF Right
  <2>7. \E b \in config.rules[s.rule].backends :
          b.cluster \in DOMAIN config.endpoints /\ s.to \in config.endpoints[b.cluster]
    BY <2>2, <2>3 DEF Backs
  <2> QED  BY <2>3, <2>4, <2>5, <2>6, <2>7
<1>2. PathInv => GuardsHeld  BY <1>1, AnonymousIsTold DEF GuardsHeld
<1> QED  BY <1>2, PathInvAlways, PTL

(* What is sent upstream as anonymous carried no credential at all: a wrong one is refused, never   *)
(* passed over.                                                                                     *)
THEOREM AnonymousPresentedNothing == Spec => []InvalidNeverAnonymous
<1> QED  BY AnonymousIsTold, PathInvAlways, PTL

(* A body is refused for its length exactly when it is too long: no attempt feeds more than the     *)
(* limit, and a retry, which feeds the body again, does not make it longer.                         *)
THEOREM BodiesWithinLimit == Spec => []BodyWithinLimit
<1>1. PathInv => BodyWithinLimit
  <2> SUFFICES ASSUME PathInv, NEW s \in Sent,
                      NEW p \in Governing(configs[s.gen].snap, configs[s.gen].rules[s.rule].route, "size")
               PROVE  /\ out.fed <= p.plugin.max
                      /\ cx.error_key = "RequestTooLarge" => Total(req.body) > p.plugin.max
    BY DEF BodyWithinLimit
  <2>1. s \in out.sent  BY DEF Sent
  <2>2. s.gen = cx.gen /\ s.rule = cx.rule  BY <2>1 DEF PathInv, Sending
  <2>3. p \in SizeRows  BY <2>2 DEF SizeRows
  <2> QED  BY <2>1, <2>3 DEF PathInv, Feeding
<1> QED  BY <1>1, PathInvAlways, PTL

=============================================================================
