--------------------------- MODULE MCCompositeDag ---------------------------
(* Instances of CompositeDag for TLC.                                      *)
EXTENDS CompositeDag, TLC

(* A diamond whose last step needs both others, and a chain.               *)
Diamond == <<{}, {}, {1, 2}>>
Chain == <<{}, {1}>>
OneRepair == [s \in Steps |-> 1]
=============================================================================
