-------------------------- MODULE MC_UpstreamAttempts --------------------------
(***************************************************************************)
(* Two requests, one that may be sent again and one that may not, over a   *)
(* cluster of two endpoints of which a swap takes one away and another     *)
(* brings it back, or of one endpoint beside an address that does not      *)
(* parse.                                                                  *)
(***************************************************************************)
EXTENDS UpstreamAttempts

CONSTANTS get, post, a1, a2, a3

MCEndpointLists == {<<a1, a2>>, <<Unparsed, a1>>}
=============================================================================
