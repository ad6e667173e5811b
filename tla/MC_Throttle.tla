------------------------------ MODULE MC_Throttle ------------------------------
(***************************************************************************)
(* The two policies of the console, with limits, windows and locks scaled  *)
(* down and in the same order.                                             *)
(***************************************************************************)
EXTENDS Throttle, TLC

CONSTANTS n1, n2, a1, a2, q1, q2, q3

MCRequests == {q1, q2, q3}
RequestSymmetry == Permutations(MCRequests)

SignInPairRules == <<"pair">>
SignInAddressRules == <<"address">>
SignInLimit == [pair |-> 2, address |-> 3]
SignInWindow == [pair |-> 3, address |-> 2]

SignUpPairRules == << >>
SignUpAddressRules == <<"burst", "day">>
SignUpLimit == [burst |-> 2, day |-> 3]
SignUpWindow == [burst |-> 1, day |-> 3]
=============================================================================
