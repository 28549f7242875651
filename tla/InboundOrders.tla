---------------------------- MODULE InboundOrders ----------------------------
(***************************************************************************)
(* Orders of buyers, from receipt to delivery: receive_inbound_order and   *)
(* run_inbound_economic_preflight of seller_services.py, the channels that *)
(* call them (channel_ingress.py, lemon_webhooks.py, channel_manual.py,    *)
(* inbound_portal.py) and inbound_controller.py.  Each of these functions  *)
(* is one transaction under the lock of the order's row, so one action; the*)
(* loops of the controller read their ids first.  PaystackCommerce adds    *)
(* the orders that Paystack pays for, and the money.                       *)
(***************************************************************************)

CONSTANTS
    Orders,      \* remote orders, each of one channel
    NoOrder,
    Portfolios   \* the assignments of listings to orders to look at

Inputs == {"text", "file"}  \* what a package asks its buyers for
Channels == {"rapidapi", "lemon", "renewal", "contra", "paystack", "unused"}

Listings == [channel : Channels, needs : SUBSET Inputs, parent : Orders \cup {NoOrder}]

ASSUME PortfolioAssumption == Portfolios \subseteq [Orders -> Listings] /\ NoOrder \notin Orders

VARIABLES
    listing,  \* channel and package of each order, and the order a renewal renews
    order,    \* InboundOrder: status, remote_state, the inputs it has
    mapped,   \* orders that carry the id of their subscription
    job,      \* Job.state of the order's job
    plan,     \* WorkPlan.status of that job
    scan      \* ids refresh_inbound_delivery_readiness has read

orderVars == <<listing, order, mapped, job, plan, scan>>

NoRow == [status |-> "NONE", remote |-> "NONE", inputs |-> {}]

OrderInit ==
    /\ listing \in Portfolios
    /\ order = [o \in Orders |-> NoRow]
    /\ mapped = {}
    /\ job = [o \in Orders |-> "NONE"]
    /\ plan = [o \in Orders |-> "NONE"]
    /\ scan = {}

-----------------------------------------------------------------------------
(* Receipt.  What the preflight finds (market, policy, capacity, profit) is*)
(* the choice of eligible.                                                 *)

Missing(o, row) == listing[o].needs \ row.inputs
Verdict(eligible) == IF eligible THEN "READY" ELSE "PREFLIGHT_BLOCKED"

Received(inputs, eligible) ==
    [status |-> Verdict(eligible), remote |-> "RECEIVED", inputs |-> inputs]
AwaitingInput(row) ==
    [row EXCEPT !.status = "PREFLIGHT_BLOCKED", !.remote = "AWAITING_BUYER_INPUT"]

(* refresh_order_after_intake.                                             *)
AfterIntake(o, row, eligible) ==
    IF Missing(o, row) # {} THEN AwaitingInput(row)
    ELSE IF eligible THEN [row EXCEPT !.status = "READY", !.remote = "INPUT_COMPLETE"]
    ELSE [row EXCEPT !.status = "PREFLIGHT_BLOCKED"]

(* _mark_missing_input                                                     *)
MarkMissing(o, row) == IF Missing(o, row) # {} THEN AwaitingInput(row) ELSE row

(* receive_inbound_order for an order it does not know: the row, its job,  *)
(* and what the channel makes of the row in the same transaction.  A second*)
(* delivery finds the row and changes nothing.                             *)
CreateOrder(o, row) ==
    /\ order[o].status = "NONE"
    /\ order' = [order EXCEPT ![o] = row]
    /\ job' = [job EXCEPT ![o] = "EXPECTED"]

(* A call has its inline asset attached, its texts are not checked.        *)
ReceiveRapidapiCall(o, inputs, eligible) ==
    /\ listing[o].channel = "rapidapi"
    /\ CreateOrder(o, Received(inputs, eligible))
    /\ UNCHANGED <<listing, mapped, plan, scan>>

(* order_created, ...: files only come later.                              *)
TextOrder(o, inputs, eligible) ==
    /\ inputs \subseteq {"text"}
    /\ CreateOrder(o, AfterIntake(o, Received(inputs, eligible), eligible))
    /\ UNCHANGED <<listing, mapped, plan, scan>>
HandleOrderCreated(o, inputs, eligible) ==
    listing[o].channel = "lemon" /\ TextOrder(o, inputs, eligible)

(* ... and the import of a Contra order by the owner.                      *)
ReceiveManualContraOrder(o, inputs, eligible) ==
    listing[o].channel = "contra" /\ TextOrder(o, inputs, eligible)

(* subscription_created and its kin: refused until the order is recorded.  *)
HandleSubscriptionState(o) ==
    /\ listing[o].channel = "lemon" /\ order[o].status # "NONE"
    /\ mapped' = mapped \cup {o}
    /\ UNCHANGED <<listing, order, job, plan, scan>>

(* subscription_payment_success of a renewal: an order of its own with the *)
(* texts of the first one.                                                 *)
HandleRenewal(o, eligible) ==
    LET parent == listing[o].parent IN
    /\ listing[o].channel = "renewal" /\ parent \in mapped
    /\ CreateOrder(o, MarkMissing(o, Received(order[parent].inputs \cap {"text"}, eligible)))
    /\ UNCHANGED <<listing, mapped, plan, scan>>

(* submit_buyer_intake.  Mutant: it trusts the state the link was issued   *)
(* for.                                                                    *)
AnyOrder(o) == order[o].status # "NONE"
Editable(o) == order[o].status \in {"PREFLIGHT_BLOCKED", "READY"}
SubmitBuyerIntake(o, more, eligible) ==
    /\ Editable(o)
    /\ order' = [order EXCEPT ![o] =
            AfterIntake(o, [order[o] EXCEPT !.inputs = order[o].inputs \cup more], eligible)]
    /\ UNCHANGED <<listing, mapped, job, plan, scan>>

-----------------------------------------------------------------------------
(* Acceptance and work.                                                    *)

Acceptable(o) == order[o].status = "READY"

(* accept_inbound_order, by the owner, a webhook or the controller: what is*)
(* refused leaves everything as it was.                                    *)
AcceptInboundOrder(o) ==
    /\ Acceptable(o) /\ job[o] \in {"EXPECTED", "AWARDED", "EXECUTING"}
    /\ job' = [job EXCEPT ![o] = IF @ = "EXPECTED" THEN "AWARDED" ELSE @]
    /\ order' = [order EXCEPT ![o].status = "ACCEPTED", ![o].remote = "ACCEPTED_LOCAL"]
    /\ UNCHANGED <<listing, mapped, plan, scan>>

(* dispatch_accepted_inbound_orders, which looks at the order only while it*)
(* reads ids, and dispatch_awarded_jobs after a claim on any market, which *)
(* never does: plan_awarded_job, then _queue_execution.                    *)
PlannableJob(o) == job[o] = "AWARDED"
PlanAndQueue(o, status) ==
    /\ PlannableJob(o) /\ plan[o] \in {"NONE", "BLOCKED", "READY"}
    /\ plan' = [plan EXCEPT ![o] = status]
    /\ UNCHANGED <<listing, order, mapped, job, scan>>

(* The worker, which WorkPlanLifecycle models in full.                     *)
StartWork(o) ==
    /\ plan[o] = "QUEUED" /\ job[o] = "AWARDED"
    /\ plan' = [plan EXCEPT ![o] = "EXECUTING"]
    /\ job' = [job EXCEPT ![o] = "EXECUTING"]
    /\ UNCHANGED <<listing, order, mapped, scan>>

FinishWork(o, passed) ==
    /\ plan[o] = "EXECUTING"
    /\ plan' = [plan EXCEPT ![o] = IF passed THEN "QA_PASSED" ELSE "FAILED"]
    /\ job' = [job EXCEPT ![o] = IF passed THEN @ ELSE "FAILED"]
    /\ UNCHANGED <<listing, order, mapped, scan>>

(* prepare_failed_work_plan_retry                                          *)
RetryFailedWork(o) ==
    /\ plan[o] = "FAILED" /\ job[o] = "FAILED"
    /\ plan' = [plan EXCEPT ![o] = "READY"]
    /\ job' = [job EXCEPT ![o] = "AWARDED"]
    /\ UNCHANGED <<listing, order, mapped, scan>>

(* dispatch_awarded_jobs after a claim queues every plan that passed, ...  *)
QueueSubmission(o) ==
    /\ plan[o] = "QA_PASSED"
    /\ plan' = [plan EXCEPT ![o] = "SUBMITTING"]
    /\ UNCHANGED <<listing, order, mapped, job, scan>>

(* ... and submit_work_plan refuses it: SUBMISSION_ADAPTER_NOT_AUTOMATED.  *)
RefuseSubmission(o) ==
    /\ plan[o] = "SUBMITTING"
    /\ plan' = [plan EXCEPT ![o] = "BLOCKED"]
    /\ UNCHANGED <<listing, order, mapped, job, scan>>

-----------------------------------------------------------------------------
(* Delivery.                                                               *)

(* refresh_inbound_delivery_readiness reads the accepted orders, ...       *)
ScanAccepted ==
    /\ scan = {}
    /\ scan' = {o \in Orders : order[o].status = "ACCEPTED"} /\ scan' # {}
    /\ UNCHANGED <<listing, order, mapped, job, plan>>

WorkPassed(o) == plan[o] = "QA_PASSED"

(* ... locks them one by one and looks at their plans, not at their status *)
(* again: the result of an API call is delivered where it is, the rest     *)
(* waits for the owner.                                                    *)
Delivers(o) == o \in scan /\ WorkPassed(o) /\ listing[o].channel = "rapidapi"
               /\ job[o] \in {"EXECUTING", "SUBMITTED"}
BecomesReady(o) == o \in scan /\ WorkPassed(o) /\ listing[o].channel # "rapidapi"

(* Mutant: only what is delivered by an API call is looked at.             *)
RefreshCalls ==
    /\ scan # {} /\ scan' = {}
    /\ order' = [o \in Orders |->
            IF Delivers(o)
            THEN [order[o] EXCEPT !.status = "DELIVERED", !.remote = "API_RESULT_AVAILABLE"]
            ELSE order[o]]
    /\ job' = [o \in Orders |-> IF Delivers(o) THEN "ACCEPTED" ELSE job[o]]
    /\ UNCHANGED <<listing, mapped, plan>>
RefreshDeliveryReadiness ==
    /\ scan # {} /\ scan' = {}
    /\ order' = [o \in Orders |->
            IF Delivers(o)
            THEN [order[o] EXCEPT !.status = "DELIVERED", !.remote = "API_RESULT_AVAILABLE"]
            ELSE IF BecomesReady(o) THEN [order[o] EXCEPT !.remote = "DELIVERY_READY"]
            ELSE order[o]]
    /\ job' = [o \in Orders |-> IF Delivers(o) THEN "ACCEPTED" ELSE job[o]]
    /\ UNCHANGED <<listing, mapped, plan>>

RecordManualDelivery(o) ==
    /\ listing[o].channel # "rapidapi"
    /\ order[o].status = "ACCEPTED" /\ order[o].remote = "DELIVERY_READY" /\ WorkPassed(o)
    /\ job[o] \in {"EXECUTING", "SUBMITTED"}
    /\ job' = [job EXCEPT ![o] = "SUBMITTED"]
    /\ order' = [order EXCEPT ![o].status = "DELIVERED", ![o].remote = "DELIVERED"]
    /\ UNCHANGED <<listing, mapped, plan, scan>>

RecordBuyerAcceptance(o) ==
    /\ order[o].status = "DELIVERED" /\ job[o] \in {"SUBMITTED", "ACCEPTED"}
    /\ job' = [job EXCEPT ![o] = "ACCEPTED"]
    /\ order' = [order EXCEPT ![o].remote = "BUYER_ACCEPTED"]
    /\ UNCHANGED <<listing, mapped, plan, scan>>

(* What a package does not ask for makes no difference.                    *)
ReceiveOrder(o) ==
    \E eligible \in BOOLEAN :
        \/ \E inputs \in SUBSET listing[o].needs :
                \/ ReceiveRapidapiCall(o, inputs, eligible)
                \/ HandleOrderCreated(o, inputs, eligible)
                \/ ReceiveManualContraOrder(o, inputs, eligible)
                \/ SubmitBuyerIntake(o, inputs, eligible)
        \/ HandleRenewal(o, eligible)

WorkOnOrder(o) ==
    \/ HandleSubscriptionState(o) \/ AcceptInboundOrder(o)
    \/ \E status \in {"BLOCKED", "READY", "QUEUED"} : PlanAndQueue(o, status)
    \/ StartWork(o) \/ (\E passed \in BOOLEAN : FinishWork(o, passed)) \/ RetryFailedWork(o)
    \/ QueueSubmission(o) \/ RefuseSubmission(o)
    \/ RecordManualDelivery(o) \/ RecordBuyerAcceptance(o)

OrderNext ==
    \/ \E o \in Orders : ReceiveOrder(o) \/ WorkOnOrder(o)
    \/ ScanAccepted \/ RefreshDeliveryReadiness

-----------------------------------------------------------------------------
OrderTypeOK ==
    /\ listing \in [Orders -> Listings]
    /\ order \in [Orders -> [status : {"NONE", "PREFLIGHT_BLOCKED", "READY", "ACCEPTED",
                                       "DELIVERED", "SETTLED", "REVERSED"},
                             remote : {"NONE", "RECEIVED", "AWAITING_BUYER_INPUT",
                                       "INPUT_COMPLETE", "ACCEPTED_LOCAL", "DELIVERY_READY",
                                       "DELIVERED", "API_RESULT_AVAILABLE", "BUYER_ACCEPTED",
                                       "PAYSTACK_REFUND_PROCESSED"},
                             inputs : SUBSET Inputs]]
    /\ mapped \subseteq Orders
    /\ job \in [Orders -> {"NONE", "EXPECTED", "AWARDED", "EXECUTING", "SUBMITTED",
                           "ACCEPTED", "FAILED"}]
    /\ plan \in [Orders -> {"NONE", "BLOCKED", "READY", "QUEUED", "EXECUTING", "QA_PASSED",
                            "SUBMITTING", "FAILED"}]
    /\ scan \subseteq Orders

(* A job leaves EXPECTED when its order is accepted, and no late intake,   *)
(* webhook or import takes an order back to the states before that         *)
(* (inbound_portal.py:173, the recheck under the lock).                    *)
WorkOnlyForAccepted ==
    \A o \in Orders :
        job[o] \notin {"NONE", "EXPECTED"} \/ plan[o] # "NONE"
            => order[o].status \in {"ACCEPTED", "DELIVERED", "SETTLED", "REVERSED"}

(* An order of Lemon Squeezy or Contra is never worked on without what its *)
(* package needs from the buyer, however intake, webhooks and acceptance   *)
(* interleave; renewals, which bring no files, included.                   *)
AcceptedHasInputs ==
    \A o \in Orders :
        listing[o].channel \in {"lemon", "renewal", "contra"}
        /\ order[o].status \in {"READY", "ACCEPTED", "DELIVERED"} => Missing(o, order[o]) = {}

(* What was delivered had been accepted, executed and passed by QA: the    *)
(* stale ids of the refresh and a submission that is refused included.     *)
DeliveredWorkPassed ==
    \A o \in Orders :
        /\ order[o].status = "DELIVERED" => job[o] \in {"SUBMITTED", "ACCEPTED"}
        /\ job[o] \in {"SUBMITTED", "ACCEPTED"}
            => plan[o] \in {"QA_PASSED", "SUBMITTING", "BLOCKED"}

(* The work of an order follows the order: money is spent on accepted ones *)
(* only, with what their package needs, and only passed work is delivered. *)
WorkFollowsOrder == WorkOnlyForAccepted /\ AcceptedHasInputs /\ DeliveredWorkPassed

(* Work that passed QA is offered for delivery, unless the order is settled*)
(* or reversed before, or a submission takes the plan away.                *)
PassedWorkIsOffered ==
    \A o \in Orders :
        order[o].status = "ACCEPTED" /\ plan[o] = "QA_PASSED" ~>
            \/ order[o].status # "ACCEPTED" \/ order[o].remote = "DELIVERY_READY"
            \/ plan[o] # "QA_PASSED"
=============================================================================
