------------------------------ MODULE DagOrder ------------------------------
(***************************************************************************)
(* What a composite plan promises: steps pass one at a time, each after    *)
(* the steps it depends on, and a passed step stays passed until the whole *)
(* plan is made anew.                                                      *)
(***************************************************************************)
CONSTANTS Steps, Deps
VARIABLE passed

Init == passed = {}

Pass(s) == s \notin passed /\ Deps[s] \subseteq passed /\ passed' = passed \cup {s}
MakeAnew == passed' = {}

Next == MakeAnew \/ \E s \in Steps : Pass(s)

Spec == Init /\ [][Next]_passed
=============================================================================
