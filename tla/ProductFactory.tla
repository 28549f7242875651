---------------------------- MODULE ProductFactory ----------------------------
(***************************************************************************)
(* Owned products: product_factory.py.  Cycles, run by a command and by the*)
(* owner's API, admit one opportunity at a time; the work runs as any plan,*)
(* and the cost of its GenX calls becomes known when their billing does,   *)
(* during the work or long after it.                                       *)
(***************************************************************************)
EXTENDS Naturals, Sequences, FiniteSets

CONSTANTS
    Products,   \* one blueprint each
    Cycles,     \* processes that run product_factory_cycle
    Nothing,
    MaxActive,  \* maximum_simultaneous_internal_jobs
    MaxRuns,    \* bound: executions of one plan
    MaxCalls,   \* bound: GenX calls of one product
    MaxSales    \* bound: counted sales of one product

VARIABLES
    product,      \* ProductCandidate
    opportunity,  \* InternalOpportunity.state of the build
    replenish,    \* state of a replenishment opportunity
    plan,         \* WorkPlan.status
    calls,        \* GenX calls of the product's job: their run, cost known
    runs,         \* executions so far, the last one may be running
    qaPassed,     \* runs that passed QA
    listing,      \* products with a PUBLISHED listing
    sale,         \* sale_events of the product: one order each
    cycle         \* what each cycle is in the middle of

factoryVars == <<product, opportunity, replenish, plan, calls, runs, qaPassed, listing, sale, cycle>>

NoProduct == [state |-> "NONE", reason |-> "", lastQa |-> FALSE, resolved |-> TRUE,
              inventory |-> 0, sales |-> 0, refunds |-> 0, paid |-> FALSE]
IdleCycle == [at |-> "idle", of |-> Nothing]
All(value) == [p \in Products |-> value]

FactoryInit ==
    /\ product = All(NoProduct) /\ opportunity = All("NONE") /\ replenish = All("NONE")
    /\ plan = All("NONE") /\ calls = All(<<>>) /\ runs = All(0) /\ qaPassed = All({})
    /\ listing = {} /\ sale = All("NONE")
    /\ cycle = [c \in Cycles |-> IdleCycle]

Unresolved == "GENX_MONETARY_COST_UNRESOLVED"
Set(p, values) == product' = [product EXCEPT ![p] =
    [field \in DOMAIN @ |-> IF field \in DOMAIN values THEN values[field] ELSE @[field]]]
CycleAt(c, at, p) == cycle' = [cycle EXCEPT ![c] = [at |-> at, of |-> p]]

-----------------------------------------------------------------------------
(* A cycle: candidates, replenishment, stop-loss, admission, queue.        *)

GenerateProductCandidates(c) ==
    /\ cycle[c].at = "idle" /\ CycleAt(c, "stop_loss", Nothing)
    /\ product' = [p \in Products |-> IF product[p].state = "NONE"
                    THEN [NoProduct EXCEPT !.state = "PRODUCT_CANDIDATE"] ELSE product[p]]
    /\ opportunity' = [p \in Products |-> IF opportunity[p] = "NONE" THEN "CANDIDATE" ELSE opportunity[p]]
    /\ replenish' = [p \in Products |->
          IF /\ product[p].state \in {"READY_TO_PUBLISH", "PUBLISHED"} /\ replenish[p] = "NONE"
             /\ product[p].sales > 0 /\ product[p].inventory = 0 /\ product[p].paid
          THEN "CANDIDATE" ELSE replenish[p]]
    /\ UNCHANGED <<plan, calls, runs, qaPassed, listing, sale>>

(* apply_stop_loss saves rows as it read them: one may be PAUSED by now.   *)
ApplyStopLoss(c, p) ==
    /\ cycle[c].at = "stop_loss" /\ runs[p] > 0 /\ product[p].sales = 0
    /\ Set(p, [state |-> "PAUSED", reason |-> "STOP_LOSS"])
    /\ UNCHANGED <<opportunity, replenish, plan, calls, runs, qaPassed, listing, sale, cycle>>

Active == {p \in Products : opportunity[p] \in {"ECONOMICS_APPROVED", "QUEUED", "EXECUTING"}}
Approved == {p \in Products : opportunity[p] = "ECONOMICS_APPROVED"}

(* What was admitted before, but not queued, goes first; otherwise the     *)
(* first half of admit_next_internal_opportunity counts.                   *)
TakeApproved(c, p) ==
    /\ cycle[c].at = "stop_loss" /\ p \in Approved /\ CycleAt(c, "queue", p)
    /\ UNCHANGED <<product, opportunity, replenish, plan, calls, runs, qaPassed, listing, sale>>
CountActive(c) ==
    /\ cycle[c].at = "stop_loss" /\ Approved = {} /\ Cardinality(Active) < MaxActive
    /\ CycleAt(c, "admit", Nothing)
    /\ UNCHANGED <<product, opportunity, replenish, plan, calls, runs, qaPassed, listing, sale>>

(* Autonomy, ceilings, inventory and customers' work may forbid it; so does*)
(* a replenishment, whose job already belongs to the build: IntegrityError.*)
EndCycle(c) ==
    /\ cycle[c].at \in {"stop_loss", "admit", "queue"} /\ CycleAt(c, "idle", Nothing)
    /\ UNCHANGED <<product, opportunity, replenish, plan, calls, runs, qaPassed, listing, sale>>

AdmitNext(c, p) ==
    /\ cycle[c].at = "admit" /\ opportunity[p] = "CANDIDATE"
    /\ Set(p, [state |-> "ECONOMICS_APPROVED"])
    /\ opportunity' = [opportunity EXCEPT ![p] = "ECONOMICS_APPROVED"]
    /\ plan' = [plan EXCEPT ![p] = "READY"]
    /\ CycleAt(c, "queue", p)
    /\ UNCHANGED <<replenish, calls, runs, qaPassed, listing, sale>>

BlockNext(c, p) ==
    /\ cycle[c].at = "admit" /\ opportunity[p] = "CANDIDATE"
    /\ opportunity' = [opportunity EXCEPT ![p] = "BLOCKED"]
    /\ CycleAt(c, "idle", Nothing)
    /\ UNCHANGED <<product, replenish, plan, calls, runs, qaPassed, listing, sale>>

(* _queue_internal_opportunity: the worker may have the task, and be done  *)
(* with it, before the rows say that it is queued.                         *)
MarkQueued(c) ==
    /\ cycle[c].at = "queue" /\ CycleAt(c, "idle", Nothing)
    /\ plan' = [plan EXCEPT ![cycle[c].of] = IF @ = "READY" THEN "QUEUED" ELSE @]
    /\ opportunity' = [opportunity EXCEPT ![cycle[c].of] = "QUEUED"]
    /\ UNCHANGED <<product, replenish, calls, runs, qaPassed, listing, sale>>

-----------------------------------------------------------------------------
(* The work.                                                               *)

StartWork(p) ==
    /\ plan[p] \in {"READY", "QUEUED", "NEEDS_REPAIR"} /\ runs[p] < MaxRuns
    /\ plan' = [plan EXCEPT ![p] = "EXECUTING"]
    /\ runs' = [runs EXCEPT ![p] = @ + 1]
    /\ opportunity' = [opportunity EXCEPT ![p] = IF p \in Active THEN "EXECUTING" ELSE @]
    /\ UNCHANGED <<product, replenish, calls, qaPassed, listing, sale, cycle>>

CallGenX(p) ==
    /\ plan[p] = "EXECUTING" /\ Len(calls[p]) < MaxCalls
    /\ calls' = [calls EXCEPT ![p] = Append(@, [run |-> runs[p], known |-> FALSE])]
    /\ UNCHANGED <<product, opportunity, replenish, plan, runs, qaPassed, listing, sale, cycle>>

(* record_internal_execution_outcome looks at the calls of this execution. *)
(* Mutant: calls without a cost are no obstacle.                           *)
BilledSoFar(p) == TRUE
RunBilled(p) == \A i \in DOMAIN calls[p] : calls[p][i].run = runs[p] => calls[p][i].known
RecordPassed(p) ==
    /\ plan[p] = "EXECUTING"
    /\ plan' = [plan EXCEPT ![p] = "QA_PASSED"]
    /\ qaPassed' = [qaPassed EXCEPT ![p] = @ \cup {runs[p]}]
    /\ IF RunBilled(p)
       THEN Set(p, [state |-> "READY_TO_PUBLISH", lastQa |-> TRUE, resolved |-> TRUE, inventory |-> 1])
       ELSE Set(p, [state |-> "PAUSED", reason |-> Unresolved, lastQa |-> TRUE, resolved |-> FALSE])
    /\ opportunity' = [opportunity EXCEPT ![p] = IF RunBilled(p) THEN "COMPLETED" ELSE "BLOCKED"]
    /\ UNCHANGED <<replenish, calls, runs, listing, sale, cycle>>

RecordRejected(p) ==
    /\ plan[p] = "EXECUTING"
    /\ plan' = [plan EXCEPT ![p] = "NEEDS_REPAIR"]
    /\ Set(p, [state |-> "ECONOMICS_APPROVED", lastQa |-> FALSE, resolved |-> RunBilled(p)])
    /\ opportunity' = [opportunity EXCEPT ![p] = "BLOCKED"]
    /\ UNCHANGED <<replenish, calls, runs, qaPassed, listing, sale, cycle>>

(* The worker raises: the plan fails and nothing is recorded.              *)
FailWork(p) ==
    /\ plan[p] = "EXECUTING" /\ plan' = [plan EXCEPT ![p] = "FAILED"]
    /\ UNCHANGED <<product, opportunity, replenish, calls, runs, qaPassed, listing, sale, cycle>>

(* The billing of a call becomes known, and refresh_product_cost_basis_for_*)
(* job, in the same transaction, looks at every call of the job.           *)
WasAccepted(p) == product[p].lastQa
RefreshCostBasis(p, i, truth) ==
    /\ ~calls[p][i].known
    /\ calls' = [calls EXCEPT ![p][i].known = truth]
    /\ LET resolved == \A n \in DOMAIN calls'[p] : calls'[p][n].known
       IN CASE ~resolved -> Set(p, [state |-> "PAUSED", reason |-> Unresolved, resolved |-> FALSE])
            [] resolved /\ product[p].reason = Unresolved ->
                  Set(p, [state |-> IF WasAccepted(p) THEN "READY_TO_PUBLISH" ELSE product[p].state,
                          reason |-> "", resolved |-> TRUE])
            [] OTHER -> Set(p, [resolved |-> TRUE])
    /\ UNCHANGED <<opportunity, replenish, plan, runs, qaPassed, listing, sale, cycle>>

-----------------------------------------------------------------------------
(* The market.                                                             *)

Publishable(p) == product[p].state \in {"READY_TO_PUBLISH", "PUBLISHED"}
RecordPublication(p) ==
    /\ Publishable(p) /\ p \notin listing
    /\ listing' = listing \cup {p} /\ Set(p, [state |-> "PUBLISHED"])
    /\ UNCHANGED <<opportunity, replenish, plan, calls, runs, qaPassed, sale, cycle>>

RecordSale(p) ==
    /\ p \in listing /\ sale[p] # "PAID" /\ product[p].sales < MaxSales
    /\ sale' = [sale EXCEPT ![p] = "PAID"]
    /\ Set(p, [sales |-> product[p].sales + 1, inventory |-> 0])
    /\ UNCHANGED <<opportunity, replenish, plan, calls, runs, qaPassed, listing, cycle>>
RecordRefund(p) ==
    /\ sale[p] = "PAID"
    /\ sale' = [sale EXCEPT ![p] = "REFUNDED"]
    /\ Set(p, [refunds |-> product[p].refunds + 1])
    /\ UNCHANGED <<opportunity, replenish, plan, calls, runs, qaPassed, listing, cycle>>

(* record_owned_product_payout: the payout settles, or a settled one is    *)
(* reversed.                                                               *)
RecordPayout(p) ==
    /\ sale[p] # "NONE" /\ Set(p, [paid |-> ~product[p].paid])
    /\ UNCHANGED <<opportunity, replenish, plan, calls, runs, qaPassed, listing, sale, cycle>>

CycleStep(c) ==
    \/ GenerateProductCandidates(c) \/ CountActive(c) \/ EndCycle(c) \/ MarkQueued(c)
    \/ \E p \in Products : \/ ApplyStopLoss(c, p) \/ TakeApproved(c, p)
                           \/ AdmitNext(c, p) \/ BlockNext(c, p)
ProductStep(p) ==
    \/ StartWork(p) \/ CallGenX(p) \/ RecordPassed(p) \/ RecordRejected(p) \/ FailWork(p)
    \/ \E i \in DOMAIN calls[p], truth \in BOOLEAN : RefreshCostBasis(p, i, truth)
    \/ RecordPublication(p) \/ RecordSale(p) \/ RecordRefund(p) \/ RecordPayout(p)

FactoryNext == (\E c \in Cycles : CycleStep(c)) \/ (\E p \in Products : ProductStep(p))

FactorySpec == FactoryInit /\ [][FactoryNext]_factoryVars

-----------------------------------------------------------------------------
(* What may be published, or is, came out of a run that passed QA and that    *)
(* is fully billed, however late its bills came and whatever was paused,   *)
(* rejected and released in between.                                       *)
PublishableIsProven ==
    \A p \in Products : Publishable(p) =>
        /\ runs[p] \in qaPassed[p]
        /\ \A i \in DOMAIN calls[p] : calls[p][i].run = runs[p] => calls[p][i].known
=============================================================================
