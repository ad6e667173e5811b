---------------------------- MODULE MC_RateLimiter ----------------------------
(***************************************************************************)
(* One rule, counted by header or by address, a consumer with a limit of   *)
(* its own and two addresses of one /64.  A request with two header lines  *)
(* counts as one with none.                                                *)
(***************************************************************************)
EXTENDS RateLimiter, TLC

CONSTANTS r1, c1, a1, a2, v1, v2

MCLimits == {[limit |-> 2, window |-> 2, by |-> "header"], [limit |-> 1, window |-> 3, by |-> "ip"]}
MCOwnLimit == [c \in {c1} |-> [limit |-> 1, window |-> 2, by |-> "consumer"]]
MCGrouped == [a \in {a1, a2} |-> a1]
Request(c, ip, lines) == [rule |-> r1, consumer |-> c, ip |-> ip, lines |-> lines]
MCRequests ==
    {Request(NoConsumer, ip, <<v>>) : ip \in {a1, NoAddr}, v \in {v1, v2}}
      \union {Request(NoConsumer, a2, <<v1, v2>>), Request(NoConsumer, a2, <<v2, v1>>)}
      \union {Request(NoConsumer, a1, <<Empty>>), Request(c1, a2, << >>)}
MCWatched == {<<<<r1, NoConsumer>>, <<"header", v1>>>>, <<<<r1, NoConsumer>>, <<"header", v2>>>>,
              <<<<r1, NoConsumer>>, <<"ip", a1>>>>}
ValueSymmetry == Permutations({v1, v2})
=============================================================================
