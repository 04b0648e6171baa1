---------------------------- MODULE MCDiscovery ----------------------------
(* Discovery on a registry of two applications, one registered a block     *)
(* later than the other, and a token.                                      *)
EXTENDS Discovery

ASSUME MCAssumption == DiscoveryAssumption

MCRegistry == {"i1", "i2", "n1"}
MCHeight == [s \in MCRegistry |-> IF s = "i2" THEN 2 ELSE 1]
MCClass == [s \in MCRegistry |-> IF s = "n1" THEN "NFA" ELSE "INDEX"]
=============================================================================
