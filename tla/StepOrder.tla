------------------------------ MODULE StepOrder ------------------------------
(***************************************************************************)
(* _topological_steps of planning/services.py: the steps a marketplace     *)
(* payload asks for are put in rounds of those whose dependencies came in  *)
(* earlier rounds; a round without a step is a cycle.  (Inside a round the *)
(* keys are sorted, so nothing depends on the choice; a round is a set     *)
(* here.)                                                                  *)
(***************************************************************************)
EXTENDS Naturals

CONSTANT Keys  \* step keys

VARIABLES
    dependencies,  \* depends_on, by key
    remaining,     \* keys not ordered yet
    round,         \* the round each key was put in, 0 before that
    rounds,        \* rounds so far
    result         \* "running", "ordered" or "COMPOSITE_DEPENDENCY_CYCLE"

orderVars == <<dependencies, remaining, round, rounds, result>>

(* depends_on names other steps: anything else is COMPOSITE_DEPENDENCY_    *)
(* INVALID before the loop starts.                                         *)
OrderInit ==
    /\ dependencies \in [Keys -> SUBSET Keys]
    /\ \A key \in Keys : key \notin dependencies[key]
    /\ remaining = Keys
    /\ round = [key \in Keys |-> 0]
    /\ rounds = 0
    /\ result = "running"

(* Mutant: one ordered dependency is enough.                               *)
SomeOrdered == {key \in remaining : \/ dependencies[key] = {}
                                    \/ dependencies[key] \ remaining # {}}

Ready == {key \in remaining : dependencies[key] \cap remaining = {}}

TakeRound ==
    /\ result = "running" /\ Ready # {}
    /\ rounds' = rounds + 1
    /\ round' = [key \in Keys |-> IF key \in Ready THEN rounds + 1 ELSE round[key]]
    /\ remaining' = remaining \ Ready
    /\ UNCHANGED <<dependencies, result>>

Stop ==
    /\ result = "running" /\ Ready = {}
    /\ result' = IF remaining = {} THEN "ordered" ELSE "COMPOSITE_DEPENDENCY_CYCLE"
    /\ UNCHANGED <<dependencies, remaining, round, rounds>>

OrderNext == TakeRound \/ Stop

OrderSpec == OrderInit /\ [][OrderNext]_orderVars

-----------------------------------------------------------------------------
OrderTypeOK ==
    /\ dependencies \in [Keys -> SUBSET Keys]
    /\ remaining \subseteq Keys
    /\ rounds \in Nat
    /\ round \in [Keys -> Nat]
    /\ result \in {"running", "ordered", "COMPOSITE_DEPENDENCY_CYCLE"}

(* The order is topological at every moment: a step is ordered in a later  *)
(* round than each of its dependencies.                                    *)
OrderRespectsDependencies ==
    \A key \in Keys \ remaining :
        \A dep \in dependencies[key] : dep \notin remaining /\ round[dep] < round[key]

(* A graph is refused exactly when it has a cycle: then some set of steps  *)
(* waits only for itself, and none otherwise; an ordered plan has every    *)
(* step.                                                                   *)
HasCycle ==
    \E knot \in (SUBSET Keys) \ {{}} : \A key \in knot : dependencies[key] \cap knot # {}

RefusesExactlyCycles ==
    /\ result = "ordered" => remaining = {} /\ ~HasCycle
    /\ result = "COMPOSITE_DEPENDENCY_CYCLE" => HasCycle

(* _topological_steps orders every plan that can be ordered, and only in an*)
(* order its dependencies allow (planning/services.py:361-375).            *)
OrderIsSound == OrderRespectsDependencies /\ RefusesExactlyCycles
=============================================================================
