----------------------------- MODULE MC_ConfigFeed -----------------------------
(***************************************************************************)
(* Three configurations, the last of which this data plane cannot read.    *)
(***************************************************************************)
EXTENDS ConfigFeed

CONSTANTS cA, cB, cNew, old, feature

MCConfigs == {cA, cB, cNew}
MCNeeds == [c \in MCConfigs |-> IF c = cNew THEN {feature} ELSE {}]
MCReads == [d \in DataPlanes |-> {}]
=============================================================================
