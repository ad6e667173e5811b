--------------------------- MODULE MC_ControlSource ---------------------------
(***************************************************************************)
(* Four configurations: two that share a key source and name different     *)
(* hosts, one with neither, and one this build cannot read.                *)
(***************************************************************************)
EXTENDS ControlSource

CONSTANTS cA, cB, cPlain, cNew, hA, hB, x, y, idp, k1, k2

MCConfigs == {cA, cB, cPlain, cNew}
MCReadable == MCConfigs \ {cNew}
MCTarget == [c \in MCConfigs |->
    IF c = cA THEN hA ELSE IF c = cB THEN hB ELSE NoHost]
MCAddressesOf == [h \in {hA, hB} |-> IF h = hA THEN {x} ELSE {y}]
MCSourceOf == [c \in MCConfigs |-> IF c \in {cA, cB} THEN idp ELSE NoSource]
=============================================================================
