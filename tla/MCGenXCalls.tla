---------------------------- MODULE MCGenXCalls ----------------------------
(* Instances of GenXCalls for TLC.                                         *)
EXTENDS GenXCalls, TLC

OneOfEach == [k \in Keys |-> IF k = "talk" THEN "session" ELSE "generate"]
OneAndTwo == [k \in Keys |-> IF k = "talk" THEN 2 ELSE 1]
=============================================================================
