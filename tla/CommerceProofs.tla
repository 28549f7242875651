--------------------------- MODULE CommerceProofs ---------------------------
(***************************************************************************)
(* Proofs about orders of buyers and the money Paystack collects for them, *)
(* for any orders and packages.                                            *)
(***************************************************************************)
EXTENDS PaystackCommerce, TLAPS

-----------------------------------------------------------------------------
(* Types.                                                                  *)

OrderStatuses == {"NONE", "PREFLIGHT_BLOCKED", "READY", "ACCEPTED", "DELIVERED", "SETTLED", "REVERSED"}
RemoteStates ==
    {"NONE", "RECEIVED", "AWAITING_BUYER_INPUT", "INPUT_COMPLETE", "ACCEPTED_LOCAL", "DELIVERY_READY",
     "DELIVERED", "API_RESULT_AVAILABLE", "BUYER_ACCEPTED", "PAYSTACK_REFUND_PROCESSED"}
OrderRows == [status : OrderStatuses, remote : RemoteStates, inputs : SUBSET Inputs]
JobStates == {"NONE", "EXPECTED", "AWARDED", "EXECUTING", "SUBMITTED", "ACCEPTED", "FAILED"}
PlanStatuses == {"NONE", "BLOCKED", "READY", "QUEUED", "EXECUTING", "QA_PASSED", "SUBMITTING", "FAILED"}

OrderTypes ==
    /\ listing \in [Orders -> Listings]
    /\ order \in [Orders -> OrderRows]
    /\ job \in [Orders -> JobStates]
    /\ plan \in [Orders -> PlanStatuses]
    /\ scan \subseteq Orders

PaymentStates == {"NONE", "CREATED", "INITIALIZED", "PAID", "REVERSED", "UNKNOWN"}
PaymentRows == [state : PaymentStates, live : BOOLEAN, charged : BOOLEAN]
Facts == {"posted", "charge", "refund", "unclear", "settlement"}

MoneyTypes ==
    /\ payment \in [Orders -> PaymentRows]
    /\ facts \in [Orders -> SUBSET Facts]
    /\ seen \in [Orders -> SUBSET {"charge", "verify", "refund", "unclear"}]
    /\ listed \subseteq Orders
    /\ payout \in [Orders -> {"NONE", "PAYOUT_PENDING", "SETTLED", "REVERSED"}]
    /\ sale \in [Orders -> {"NONE", "PAID", "REFUNDED"}]
    /\ receipts \in [Orders -> SUBSET {"FIAT_SETTLED", "REVERSED"}]

(* What the rows that intake writes look like.                             *)
LEMMA IntakeRows ==
    ASSUME OrderTypes, NEW o \in Orders, NEW row \in OrderRows, NEW eligible \in BOOLEAN,
           row.status \in {"PREFLIGHT_BLOCKED", "READY"}
    PROVE  /\ AfterIntake(o, row, eligible) \in OrderRows
           /\ AfterIntake(o, row, eligible).status \in {"PREFLIGHT_BLOCKED", "READY"}
           /\ AfterIntake(o, row, eligible).status = "READY" => Missing(o, AfterIntake(o, row, eligible)) = {}
           /\ MarkMissing(o, row) \in OrderRows
           /\ MarkMissing(o, row).status \in {"PREFLIGHT_BLOCKED", "READY"}
           /\ MarkMissing(o, row).status = "READY" => Missing(o, MarkMissing(o, row)) = {}
<1>1. /\ AwaitingInput(row) \in OrderRows /\ AwaitingInput(row).status = "PREFLIGHT_BLOCKED"
      /\ [row EXCEPT !.status = "PREFLIGHT_BLOCKED"] \in OrderRows
      /\ [row EXCEPT !.status = "PREFLIGHT_BLOCKED"].status = "PREFLIGHT_BLOCKED"
  BY DEF AwaitingInput, OrderRows, OrderStatuses, RemoteStates
<1>2. /\ [row EXCEPT !.status = "READY", !.remote = "INPUT_COMPLETE"] \in OrderRows
      /\ [row EXCEPT !.status = "READY", !.remote = "INPUT_COMPLETE"].status = "READY"
      /\ [row EXCEPT !.status = "READY", !.remote = "INPUT_COMPLETE"].inputs = row.inputs
  BY DEF OrderRows, OrderStatuses, RemoteStates
<1>3. Missing(o, [row EXCEPT !.status = "READY", !.remote = "INPUT_COMPLETE"]) = Missing(o, row)
  BY <1>2 DEF Missing
<1> QED BY <1>1, <1>2, <1>3 DEF AfterIntake, MarkMissing

LEMMA ReceivedRow ==
    ASSUME NEW inputs \in SUBSET Inputs, NEW eligible \in BOOLEAN
    PROVE  /\ Received(inputs, eligible) \in OrderRows
           /\ Received(inputs, eligible).status \in {"PREFLIGHT_BLOCKED", "READY"}
BY DEF Received, Verdict, OrderRows, OrderStatuses, RemoteStates

-----------------------------------------------------------------------------
(* Work.                                                                   *)

WorkInv ==
    /\ OrderTypes
    /\ WorkFollowsOrder

(* A row written by intake, over one nobody works on.                      *)
LEMMA IntakeKeeps ==
    ASSUME WorkInv, NEW o \in Orders, NEW row \in OrderRows,
           order[o].status \in {"NONE", "PREFLIGHT_BLOCKED", "READY"},
           row.status \in {"PREFLIGHT_BLOCKED", "READY"},
           listing[o].channel \in {"lemon", "renewal", "contra"} /\ row.status = "READY" => Missing(o, row) = {},
           order' = [order EXCEPT ![o] = row],
           job' = job \/ job' = [job EXCEPT ![o] = "EXPECTED"],
           UNCHANGED <<listing, plan, scan>>
    PROVE  WorkInv'
<1>1. OrderTypes'
  BY DEF WorkInv, OrderTypes, JobStates
<1>2. /\ job[o] \in {"NONE", "EXPECTED"} /\ job'[o] \in {"NONE", "EXPECTED"} /\ plan[o] = "NONE"
      /\ order'[o] = row
      /\ \A p \in Orders \ {o} : order'[p] = order[p] /\ job'[p] = job[p]
  BY DEF WorkInv, OrderTypes, WorkFollowsOrder, WorkOnlyForAccepted
<1>3. WorkOnlyForAccepted'
  BY <1>2 DEF WorkInv, WorkFollowsOrder, WorkOnlyForAccepted
<1>4. AcceptedHasInputs'
  BY <1>2 DEF WorkInv, WorkFollowsOrder, AcceptedHasInputs, Missing
<1>5. DeliveredWorkPassed'
  BY <1>2 DEF WorkInv, WorkFollowsOrder, DeliveredWorkPassed
<1> QED BY <1>1, <1>3, <1>4, <1>5 DEF WorkInv, WorkFollowsOrder

LEMMA ReceiptKeeps ==
    ASSUME WorkInv, NEW o \in Orders, ReceiveOrder(o)
    PROVE  WorkInv'
<1>1. OrderTypes /\ listing[o].needs \in SUBSET Inputs /\ order[o] \in OrderRows
  BY DEF WorkInv, OrderTypes, Listings
<1>2. ASSUME NEW eligible \in BOOLEAN, NEW inputs \in SUBSET listing[o].needs,
             ReceiveRapidapiCall(o, inputs, eligible)
      PROVE  WorkInv'
  <2>1. Received(inputs, eligible) \in OrderRows
        /\ Received(inputs, eligible).status \in {"PREFLIGHT_BLOCKED", "READY"}
    BY <1>1, ReceivedRow
  <2> QED BY <1>2, <2>1, IntakeKeeps DEF ReceiveRapidapiCall, CreateOrder
<1>3. ASSUME NEW eligible \in BOOLEAN, NEW inputs \in SUBSET listing[o].needs, TextOrder(o, inputs, eligible)
      PROVE  WorkInv'
  <2> DEFINE row == AfterIntake(o, Received(inputs, eligible), eligible)
  <2>1. Received(inputs, eligible) \in OrderRows
        /\ Received(inputs, eligible).status \in {"PREFLIGHT_BLOCKED", "READY"}
    BY <1>1, ReceivedRow
  <2>2. row \in OrderRows /\ row.status \in {"PREFLIGHT_BLOCKED", "READY"}
        /\ (row.status = "READY" => Missing(o, row) = {})
    BY <1>1, <2>1, IntakeRows
  <2>3. /\ order' = [order EXCEPT ![o] = row] /\ order[o].status = "NONE"
        /\ job' = [job EXCEPT ![o] = "EXPECTED"] /\ UNCHANGED <<listing, plan, scan>>
    BY <1>3 DEF TextOrder, CreateOrder
  <2> HIDE DEF row
  <2> QED BY <2>2, <2>3, IntakeKeeps
<1>4. ASSUME NEW eligible \in BOOLEAN, NEW inputs \in SUBSET listing[o].needs,
             SubmitBuyerIntake(o, inputs, eligible)
      PROVE  WorkInv'
  <2> DEFINE with == [order[o] EXCEPT !.inputs = order[o].inputs \cup inputs]
             row == AfterIntake(o, with, eligible)
  <2>1. order[o].status \in {"PREFLIGHT_BLOCKED", "READY"}
    BY <1>4 DEF SubmitBuyerIntake, Editable
  <2>2. with \in OrderRows /\ with.status = order[o].status
    BY <1>1 DEF OrderRows
  <2>3. row \in OrderRows /\ row.status \in {"PREFLIGHT_BLOCKED", "READY"}
        /\ (row.status = "READY" => Missing(o, row) = {})
    <3> HIDE DEF with
    <3> QED BY <1>1, <2>1, <2>2, IntakeRows
  <2>4. order' = [order EXCEPT ![o] = row] /\ UNCHANGED <<listing, job, plan, scan>>
    BY <1>4 DEF SubmitBuyerIntake
  <2> HIDE DEF row
  <2> QED BY <2>1, <2>3, <2>4, IntakeKeeps
<1>5. ASSUME NEW eligible \in BOOLEAN, HandleRenewal(o, eligible)
      PROVE  WorkInv'
  <2> DEFINE texts == order[listing[o].parent].inputs \cap {"text"}
             row == MarkMissing(o, Received(texts, eligible))
  <2>1. texts \in SUBSET Inputs
    BY DEF Inputs
  <2>2. Received(texts, eligible) \in OrderRows
        /\ Received(texts, eligible).status \in {"PREFLIGHT_BLOCKED", "READY"}
    <3> HIDE DEF texts
    <3> QED BY <2>1, ReceivedRow
  <2>3. row \in OrderRows /\ row.status \in {"PREFLIGHT_BLOCKED", "READY"}
        /\ (row.status = "READY" => Missing(o, row) = {})
    <3> HIDE DEF texts
    <3> QED BY <1>1, <2>2, IntakeRows
  <2>4. /\ order' = [order EXCEPT ![o] = row] /\ order[o].status = "NONE"
        /\ job' = [job EXCEPT ![o] = "EXPECTED"] /\ UNCHANGED <<listing, plan, scan>>
    BY <1>5 DEF HandleRenewal, CreateOrder
  <2> HIDE DEF row
  <2> QED BY <2>3, <2>4, IntakeKeeps
<1> QED BY <1>2, <1>3, <1>4, <1>5 DEF ReceiveOrder, HandleOrderCreated, ReceiveManualContraOrder

(* Steps that leave the state of the order alone, or move it on with work  *)
(* that may be done for it.                                                *)
LEMMA WorkOrderKeeps ==
    ASSUME WorkInv, NEW o \in Orders, WorkOnOrder(o)
    PROVE  WorkInv'
<1> USE DEF WorkInv, OrderTypes, WorkFollowsOrder, WorkOnlyForAccepted, AcceptedHasInputs,
            DeliveredWorkPassed, Missing
<1>1. CASE HandleSubscriptionState(o)
  BY <1>1 DEF HandleSubscriptionState
<1>2. CASE AcceptInboundOrder(o)
  <2>1. /\ order[o] \in OrderRows /\ order[o].status = "READY"
        /\ order' = [order EXCEPT ![o] = [order[o] EXCEPT !.status = "ACCEPTED", !.remote = "ACCEPTED_LOCAL"]]
        /\ job' = [job EXCEPT ![o] = IF job[o] = "EXPECTED" THEN "AWARDED" ELSE job[o]]
        /\ UNCHANGED <<listing, plan, scan>>
    BY <1>2 DEF AcceptInboundOrder, Acceptable
  <2>2. /\ order'[o] \in OrderRows /\ order'[o].status = "ACCEPTED" /\ order'[o].inputs = order[o].inputs
        /\ job[o] \in {"NONE", "EXPECTED"}
    BY <2>1 DEF OrderRows, OrderStatuses, RemoteStates
  <2>3. OrderTypes'
    BY <2>1, <2>2 DEF JobStates
  <2>4. job'[o] \in {"NONE", "AWARDED"}
    BY <2>1, <2>2
  <2> QED BY <2>1, <2>2, <2>3, <2>4
<1>3. ASSUME NEW status \in {"BLOCKED", "READY", "QUEUED"}, PlanAndQueue(o, status)
      PROVE  WorkInv'
  BY <1>3 DEF PlanAndQueue, PlannableJob, PlanStatuses
<1>4. CASE StartWork(o)
  BY <1>4 DEF StartWork, PlanStatuses, JobStates
<1>5. ASSUME NEW passed \in BOOLEAN, FinishWork(o, passed)
      PROVE  WorkInv'
  BY <1>5 DEF FinishWork, PlanStatuses, JobStates
<1>6. CASE RetryFailedWork(o)
  BY <1>6 DEF RetryFailedWork, PlanStatuses, JobStates
<1>7. CASE QueueSubmission(o)
  BY <1>7 DEF QueueSubmission, PlanStatuses
<1>8. CASE RefuseSubmission(o)
  BY <1>8 DEF RefuseSubmission, PlanStatuses
<1>9. CASE RecordManualDelivery(o)
  <2>1. /\ order[o] \in OrderRows /\ order[o].status = "ACCEPTED" /\ plan[o] = "QA_PASSED"
        /\ order' = [order EXCEPT ![o] = [order[o] EXCEPT !.status = "DELIVERED", !.remote = "DELIVERED"]]
        /\ job' = [job EXCEPT ![o] = "SUBMITTED"]
        /\ UNCHANGED <<listing, plan, scan>>
    BY <1>9 DEF RecordManualDelivery, WorkPassed
  <2>2. order'[o] \in OrderRows /\ order'[o].status = "DELIVERED" /\ order'[o].inputs = order[o].inputs
    BY <2>1 DEF OrderRows, OrderStatuses, RemoteStates
  <2>3. OrderTypes'
    BY <2>1, <2>2 DEF JobStates
  <2> QED BY <2>1, <2>2, <2>3
<1>10. CASE RecordBuyerAcceptance(o)
  <2>1. /\ order[o] \in OrderRows /\ order[o].status = "DELIVERED"
        /\ order' = [order EXCEPT ![o] = [order[o] EXCEPT !.remote = "BUYER_ACCEPTED"]]
        /\ job[o] \in {"SUBMITTED", "ACCEPTED"} /\ job' = [job EXCEPT ![o] = "ACCEPTED"]
        /\ UNCHANGED <<listing, plan, scan>>
    BY <1>10 DEF RecordBuyerAcceptance
  <2>2. order'[o] \in OrderRows /\ order'[o].status = "DELIVERED" /\ order'[o].inputs = order[o].inputs
    BY <2>1 DEF OrderRows, OrderStatuses, RemoteStates
  <2>3. OrderTypes'
    BY <2>1, <2>2 DEF JobStates
  <2> QED BY <2>1, <2>2, <2>3
<1> QED BY <1>1, <1>2, <1>3, <1>4, <1>5, <1>6, <1>7, <1>8, <1>9, <1>10 DEF WorkOnOrder

(* The controller's look at accepted orders, with stale ids.               *)
LEMMA RefreshKeeps ==
    ASSUME WorkInv, RefreshDeliveryReadiness
    PROVE  /\ WorkInv'
           /\ listing' = listing
           /\ \A o \in Orders : \/ order'[o].status = order[o].status
                                \/ listing[o].channel = "rapidapi" /\ order'[o].status = "DELIVERED"
<1>1. /\ scan' = {} /\ UNCHANGED <<listing, plan>>
      /\ order' = [o \in Orders |->
            IF Delivers(o)
            THEN [order[o] EXCEPT !.status = "DELIVERED", !.remote = "API_RESULT_AVAILABLE"]
            ELSE IF BecomesReady(o) THEN [order[o] EXCEPT !.remote = "DELIVERY_READY"]
            ELSE order[o]]
      /\ job' = [o \in Orders |-> IF Delivers(o) THEN "ACCEPTED" ELSE job[o]]
  BY DEF RefreshDeliveryReadiness
<1>2. ASSUME NEW o \in Orders
      PROVE  /\ order'[o] \in OrderRows /\ order'[o].inputs = order[o].inputs
             /\ IF Delivers(o) THEN order'[o].status = "DELIVERED"
                ELSE order'[o].status = order[o].status
  <2>1. order[o] \in OrderRows
    BY DEF WorkInv, OrderTypes
  <2>2. CASE Delivers(o)
    BY <1>1, <2>1, <2>2 DEF OrderRows, OrderStatuses, RemoteStates
  <2>3. CASE ~Delivers(o) /\ BecomesReady(o)
    BY <1>1, <2>1, <2>3 DEF OrderRows, OrderStatuses, RemoteStates
  <2>4. CASE ~Delivers(o) /\ ~BecomesReady(o)
    BY <1>1, <2>1, <2>4
  <2> QED BY <2>2, <2>3, <2>4
<1>3. \A o \in Orders : job'[o] = IF Delivers(o) THEN "ACCEPTED" ELSE job[o]
  BY <1>1
<1>4. OrderTypes'
  <2>1. order' \in [Orders -> OrderRows]
    BY <1>1, <1>2
  <2>2. job' \in [Orders -> JobStates]
    BY <1>1 DEF WorkInv, OrderTypes, JobStates
  <2> QED BY <1>1, <2>1, <2>2 DEF WorkInv, OrderTypes
<1>5. WorkOnlyForAccepted'
  BY <1>1, <1>2, <1>3 DEF WorkInv, WorkFollowsOrder, WorkOnlyForAccepted, Delivers
<1>6. AcceptedHasInputs'
  BY <1>1, <1>2 DEF WorkInv, WorkFollowsOrder, AcceptedHasInputs, Missing, Delivers
<1>7. DeliveredWorkPassed'
  BY <1>1, <1>2, <1>3 DEF WorkInv, WorkFollowsOrder, DeliveredWorkPassed, Delivers, WorkPassed
<1>8. \A o \in Orders : Delivers(o) => listing[o].channel = "rapidapi"
  BY DEF Delivers
<1> QED BY <1>1, <1>2, <1>4, <1>5, <1>6, <1>7, <1>8 DEF WorkInv, WorkFollowsOrder

LEMMA StillKeeps ==
    ASSUME WorkInv, UNCHANGED <<listing, order, job, plan>>, scan' \subseteq Orders
    PROVE  WorkInv'
BY DEF WorkInv, OrderTypes, WorkFollowsOrder, WorkOnlyForAccepted, AcceptedHasInputs,
       DeliveredWorkPassed, Missing

LEMMA OrderNextKeeps ==
    ASSUME WorkInv, OrderNext
    PROVE  WorkInv'
<1>1. CASE ScanAccepted
  BY <1>1, StillKeeps DEF ScanAccepted
<1> QED BY <1>1, ReceiptKeeps, WorkOrderKeeps, RefreshKeeps DEF OrderNext

(* A charge makes the order of a payment, a refund or a settlement ends it.*)
LEMMA ChargeKeeps ==
    ASSUME WorkInv, NEW o \in Orders, listing[o].channel = "paystack", NEW body, NEW eligible \in BOOLEAN,
           ApplyCharge(o, body, eligible), UNCHANGED <<listing, plan, scan>>
    PROVE  WorkInv'
<1>1. CASE order[o].status = "NONE"
  <2>1. Received({}, eligible) \in OrderRows
        /\ Received({}, eligible).status \in {"PREFLIGHT_BLOCKED", "READY"}
    BY ReceivedRow
  <2>2. order' = [order EXCEPT ![o] = Received({}, eligible)] /\ job' = [job EXCEPT ![o] = "EXPECTED"]
    BY <1>1 DEF ApplyCharge, CreateOrder
  <2> QED BY <1>1, <2>1, <2>2, IntakeKeeps
<1>2. CASE order[o].status # "NONE"
  BY <1>2, StillKeeps DEF ApplyCharge, WorkInv, OrderTypes
<1> QED BY <1>1, <1>2

LEMMA EndedKeeps ==
    ASSUME WorkInv, NEW o \in Orders, NEW row \in OrderRows, row.status \in {"SETTLED", "REVERSED"},
           order' = [order EXCEPT ![o] = row], UNCHANGED <<listing, job, plan, scan>>
    PROVE  WorkInv'
BY DEF WorkInv, OrderTypes, WorkFollowsOrder, WorkOnlyForAccepted, AcceptedHasInputs,
       DeliveredWorkPassed, Missing

LEMMA RefundRow ==
    ASSUME WorkInv, NEW o \in Orders, HandleRefund(o)
    PROVE  /\ WorkInv'
           /\ listing' = listing
           /\ order'[o].status = IF order[o].status = "NONE" THEN "NONE" ELSE "REVERSED"
           /\ \A p \in Orders \ {o} : order'[p] = order[p]
<1> DEFINE row == [order[o] EXCEPT !.status = "REVERSED", !.remote = "PAYSTACK_REFUND_PROCESSED"]
<1>1. order[o] \in OrderRows
  BY DEF WorkInv, OrderTypes
<1>2. row \in OrderRows /\ row.status = "REVERSED"
  BY <1>1 DEF OrderRows, OrderStatuses, RemoteStates
<1>3. /\ order' = [order EXCEPT ![o] = IF order[o].status = "NONE" THEN order[o] ELSE row]
      /\ UNCHANGED <<listing, job, plan, scan>>
  BY DEF HandleRefund
<1> HIDE DEF row
<1>4. CASE order[o].status = "NONE"
  <2>1. order' = order
    BY <1>3, <1>4 DEF WorkInv, OrderTypes
  <2> QED BY <1>3, <1>4, <2>1, StillKeeps DEF WorkInv, OrderTypes
<1>5. CASE order[o].status # "NONE"
  BY <1>2, <1>3, <1>5, EndedKeeps DEF WorkInv, OrderTypes
<1> QED BY <1>4, <1>5

LEMMA SettledRow ==
    ASSUME WorkInv, NEW o \in Orders, SettleOrder(o)
    PROVE  /\ WorkInv'
           /\ listing' = listing
           /\ order'[o].status = "SETTLED"
           /\ \A p \in Orders \ {o} : order'[p] = order[p]
<1> DEFINE row == [order[o] EXCEPT !.status = "SETTLED"]
<1>1. order[o] \in OrderRows
  BY DEF WorkInv, OrderTypes
<1>2. row \in OrderRows /\ row.status = "SETTLED"
  BY <1>1 DEF OrderRows, OrderStatuses
<1>3. order' = [order EXCEPT ![o] = row] /\ UNCHANGED <<listing, job, plan, scan>>
  BY DEF SettleOrder
<1> HIDE DEF row
<1> QED BY <1>2, <1>3, EndedKeeps DEF WorkInv, OrderTypes

-----------------------------------------------------------------------------
(* Cash.  What ties the rows of an order together: only Paystack orders    *)
(* have payments, a payout has an order and a payment behind it, and an    *)
(* order that a live payment made has a payout.                            *)

CashRow(o) ==
    /\ order[o].status = "SETTLED" <=> payout[o] = "SETTLED"
    /\ payout[o] = "REVERSED" => order[o].status = "REVERSED"
    /\ "FIAT_SETTLED" \in receipts[o] => o \in settled
    /\ o \in settled => payout[o] \in {"SETTLED", "REVERSED"}
    /\ payout[o] # "NONE" => payment[o].live /\ "charge" \in facts[o]
    /\ payment[o].state = "REVERSED" => payout[o] \in {"NONE", "REVERSED"} /\ sale[o] # "PAID"

LinkedRow(o) ==
    /\ payment[o].state # "NONE" => listing[o].channel = "paystack"
    /\ payout[o] # "NONE" => payment[o].state # "NONE" /\ order[o].status # "NONE"
    /\ listing[o].channel = "paystack" /\ order[o].status # "NONE"
            => payment[o].state # "NONE" /\ (payment[o].live => payout[o] # "NONE")
    /\ order[o].status = "REVERSED" => listing[o].channel = "paystack" /\ payout[o] \in {"NONE", "REVERSED"}

CashInv ==
    /\ WorkInv
    /\ MoneyTypes
    /\ \A o \in Orders : CashRow(o) /\ LinkedRow(o)
    /\ run.step = "recorded" => run.on \in settled

LEMMA CashIsTrue == CashInv => CashIsOurs
BY DEF CashInv, CashRow, CashIsOurs, CashAgreesWithOrder, RefundedHasNoCash

(* A step leaves the rows of the other orders as they are.                 *)
LEMMA OtherRows ==
    ASSUME CashInv, NEW o \in Orders, listing'[o] = listing[o], order'[o].status = order[o].status,
           payment'[o] = payment[o], payout'[o] = payout[o], sale'[o] = sale[o],
           receipts'[o] = receipts[o], facts[o] \subseteq facts'[o],
           o \in settled <=> o \in settled'
    PROVE  CashRow(o)' /\ LinkedRow(o)'
BY DEF CashInv, CashRow, LinkedRow

(* Steps of an order that no money follows.                                *)
LEMMA OrderStatusSteps ==
    ASSUME CashInv, OrderNext, NEW o \in Orders
    PROVE  /\ listing' = listing
           /\ \/ order'[o].status = order[o].status
              \/ /\ order'[o].status \notin {"NONE", "SETTLED", "REVERSED"}
                 /\ \/ listing[o].channel # "paystack"
                    \/ order[o].status \notin {"NONE", "SETTLED", "REVERSED"}
<1>1. WorkInv /\ OrderTypes /\ order \in [Orders -> OrderRows]
  BY DEF CashInv, WorkInv, OrderTypes
<1>2. ASSUME NEW p \in Orders, ReceiveOrder(p)
      PROVE  /\ listing' = listing
             /\ p # o => order'[o] = order[o]
             /\ p = o => /\ order'[o].status \in {"PREFLIGHT_BLOCKED", "READY"}
                         /\ \/ listing[o].channel # "paystack"
                            \/ order[o].status \notin {"NONE", "SETTLED", "REVERSED"}
  <2>1. listing[p].needs \in SUBSET Inputs
    BY <1>1 DEF OrderTypes, Listings
  <2>2. ASSUME NEW eligible \in BOOLEAN, NEW inputs \in SUBSET listing[p].needs,
               ReceiveRapidapiCall(p, inputs, eligible)
        PROVE  /\ listing' = listing /\ listing[p].channel # "paystack"
               /\ order' = [order EXCEPT ![p] = Received(inputs, eligible)]
               /\ Received(inputs, eligible).status \in {"PREFLIGHT_BLOCKED", "READY"}
    BY <2>1, <2>2, ReceivedRow DEF ReceiveRapidapiCall, CreateOrder
  <2>3. ASSUME NEW eligible \in BOOLEAN, NEW inputs \in SUBSET listing[p].needs,
               HandleOrderCreated(p, inputs, eligible) \/ ReceiveManualContraOrder(p, inputs, eligible)
        PROVE  /\ listing' = listing /\ listing[p].channel # "paystack"
               /\ order' = [order EXCEPT ![p] = AfterIntake(p, Received(inputs, eligible), eligible)]
               /\ AfterIntake(p, Received(inputs, eligible), eligible).status \in {"PREFLIGHT_BLOCKED", "READY"}
    <3>1. Received(inputs, eligible) \in OrderRows
          /\ Received(inputs, eligible).status \in {"PREFLIGHT_BLOCKED", "READY"}
      BY <2>1, ReceivedRow
    <3>2. AfterIntake(p, Received(inputs, eligible), eligible).status \in {"PREFLIGHT_BLOCKED", "READY"}
      BY <1>1, <3>1, IntakeRows
    <3> QED BY <2>3, <3>2 DEF HandleOrderCreated, ReceiveManualContraOrder, TextOrder, CreateOrder
  <2>4. ASSUME NEW eligible \in BOOLEAN, NEW inputs \in SUBSET listing[p].needs,
               SubmitBuyerIntake(p, inputs, eligible)
        PROVE  /\ listing' = listing /\ order[p].status \in {"PREFLIGHT_BLOCKED", "READY"}
               /\ \E row \in OrderRows : /\ order' = [order EXCEPT ![p] = row]
                                         /\ row.status \in {"PREFLIGHT_BLOCKED", "READY"}
    <3> DEFINE with == [order[p] EXCEPT !.inputs = order[p].inputs \cup inputs]
    <3>1. order[p].status \in {"PREFLIGHT_BLOCKED", "READY"}
      BY <2>4 DEF SubmitBuyerIntake, Editable
    <3>2. with \in OrderRows /\ with.status = order[p].status
      BY <1>1, <2>1 DEF OrderRows
    <3>3. listing' = listing /\ order' = [order EXCEPT ![p] = AfterIntake(p, with, eligible)]
      BY <2>4 DEF SubmitBuyerIntake
    <3> HIDE DEF with
    <3>4. AfterIntake(p, with, eligible) \in OrderRows
          /\ AfterIntake(p, with, eligible).status \in {"PREFLIGHT_BLOCKED", "READY"}
      BY <1>1, <3>1, <3>2, IntakeRows
    <3> QED BY <3>1, <3>3, <3>4
  <2>5. ASSUME NEW eligible \in BOOLEAN, HandleRenewal(p, eligible)
        PROVE  /\ listing' = listing /\ listing[p].channel # "paystack"
               /\ \E row \in OrderRows : /\ order' = [order EXCEPT ![p] = row]
                                         /\ row.status \in {"PREFLIGHT_BLOCKED", "READY"}
    <3> DEFINE texts == order[listing[p].parent].inputs \cap {"text"}
    <3>1. texts \in SUBSET Inputs
      BY DEF Inputs
    <3>2. /\ listing' = listing /\ listing[p].channel = "renewal"
          /\ order' = [order EXCEPT ![p] = MarkMissing(p, Received(texts, eligible))]
      BY <2>5 DEF HandleRenewal, CreateOrder
    <3> HIDE DEF texts
    <3>3. Received(texts, eligible) \in OrderRows
          /\ Received(texts, eligible).status \in {"PREFLIGHT_BLOCKED", "READY"}
      BY <3>1, ReceivedRow
    <3>4. MarkMissing(p, Received(texts, eligible)) \in OrderRows
          /\ MarkMissing(p, Received(texts, eligible)).status \in {"PREFLIGHT_BLOCKED", "READY"}
      BY <1>1, <3>3, IntakeRows
    <3> QED BY <3>2, <3>4
  <2> QED BY <1>1, <1>2, <2>2, <2>3, <2>4, <2>5 DEF ReceiveOrder
<1>3. ASSUME NEW p \in Orders, WorkOnOrder(p)
      PROVE  /\ listing' = listing
             /\ \/ order'[o].status = order[o].status
                \/ /\ order'[o].status \in {"ACCEPTED", "DELIVERED"}
                   /\ order[o].status \in {"READY", "ACCEPTED"}
  BY <1>1, <1>3 DEF WorkOnOrder, HandleSubscriptionState, AcceptInboundOrder, Acceptable, PlanAndQueue, StartWork,
       FinishWork, RetryFailedWork, QueueSubmission, RefuseSubmission, RecordManualDelivery,
       RecordBuyerAcceptance, OrderRows
<1>4. CASE ScanAccepted
  BY <1>4 DEF ScanAccepted
<1>5. CASE RefreshDeliveryReadiness
  BY <1>1, <1>5, RefreshKeeps
<1> QED BY <1>2, <1>3, <1>4, <1>5 DEF OrderNext

LEMMA OrderStepCash ==
    ASSUME CashInv, OrderNext, UNCHANGED moneyVars
    PROVE  CashInv'
<1>1. WorkInv'
  BY OrderNextKeeps DEF CashInv
<1>2. MoneyTypes' /\ (run.step = "recorded" => run.on \in settled)'
  BY DEF CashInv, MoneyTypes, moneyVars
<1>3. ASSUME NEW o \in Orders
      PROVE  CashRow(o)' /\ LinkedRow(o)'
  <2>1. /\ UNCHANGED <<payment, facts, payout, sale, settled, receipts>>
        /\ CashRow(o) /\ LinkedRow(o)
    BY DEF CashInv, moneyVars
  <2> QED BY <2>1, OrderStatusSteps DEF CashRow, LinkedRow
<1> QED BY <1>1, <1>2, <1>3 DEF CashInv

-----------------------------------------------------------------------------
(* Checkout and the records of what happened.                              *)

(* What a payment has not touched.                                         *)
LEMMA WorkStays ==
    ASSUME CashInv, UNCHANGED orderVars
    PROVE  WorkInv' /\ UNCHANGED <<listing, order>>
BY StillKeeps DEF CashInv, orderVars, WorkInv, OrderTypes

LEMMA CheckoutKeeps ==
    ASSUME CashInv, NEW o \in Orders, NEW live \in BOOLEAN, NEW arrives \in BOOLEAN,
           InitializeCheckout(o, live, arrives)
    PROVE  CashInv'
<1>1. WorkInv' /\ UNCHANGED <<listing, order>>
  BY WorkStays DEF InitializeCheckout
<1>2. /\ payment' = [payment EXCEPT ![o] = [NoPayment EXCEPT !.state = "CREATED", !.live = live]]
      /\ facts' = [facts EXCEPT ![o] = IF arrives THEN {"posted"} ELSE {}]
      /\ UNCHANGED <<seen, listed, payout, sale, settled, receipts, run>>
      /\ listing[o].channel = "paystack" /\ payment[o].state = "NONE"
  BY DEF InitializeCheckout
<1>3. [NoPayment EXCEPT !.state = "CREATED", !.live = live] \in PaymentRows
      /\ [NoPayment EXCEPT !.state = "CREATED", !.live = live].state = "CREATED"
  BY DEF NoPayment, PaymentRows, PaymentStates
<1>4. MoneyTypes' /\ (run.step = "recorded" => run.on \in settled)'
  BY <1>2, <1>3 DEF CashInv, MoneyTypes, Facts
<1>5. CashRow(o)' /\ LinkedRow(o)'
  BY <1>1, <1>2, <1>3 DEF CashInv, MoneyTypes, CashRow, LinkedRow
<1>6. ASSUME NEW p \in Orders, p # o
      PROVE  CashRow(p)' /\ LinkedRow(p)'
  BY <1>1, <1>2, <1>6, OtherRows DEF CashInv, MoneyTypes
<1> QED BY <1>1, <1>4, <1>5, <1>6 DEF CashInv

(* The state of a payment changes, and neither to REVERSED nor from NONE.  *)
LEMMA StateKeeps ==
    ASSUME CashInv, NEW o \in Orders, NEW state \in PaymentStates \ {"NONE"},
           payment[o].state # "NONE", state = "REVERSED" => payment[o].state = "REVERSED",
           SetPayment(o, state), UNCHANGED <<facts, listed, payout, sale, settled, receipts, run>>,
           UNCHANGED orderVars, seen' \in [Orders -> SUBSET {"charge", "verify", "refund", "unclear"}]
    PROVE  CashInv'
<1>1. WorkInv' /\ UNCHANGED <<listing, order>>
  BY WorkStays
<1>2. payment' = [payment EXCEPT ![o] = [payment[o] EXCEPT !.state = state]]
  BY DEF SetPayment
<1>3. /\ [payment[o] EXCEPT !.state = state] \in PaymentRows
      /\ [payment[o] EXCEPT !.state = state].state = state
      /\ [payment[o] EXCEPT !.state = state].live <=> payment[o].live
  BY DEF CashInv, MoneyTypes, PaymentRows
<1>4. MoneyTypes' /\ (run.step = "recorded" => run.on \in settled)'
  BY <1>2, <1>3 DEF CashInv, MoneyTypes
<1>5. /\ payment'[o].state = state
      /\ payment'[o].live <=> payment[o].live
  BY <1>2, <1>3 DEF CashInv, MoneyTypes
<1>6. CashRow(o)' /\ LinkedRow(o)'
  <2>1. CashRow(o)'
    BY <1>1, <1>5 DEF CashInv, CashRow
  <2>2. LinkedRow(o)'
    BY <1>1, <1>5 DEF CashInv, LinkedRow
  <2> QED BY <2>1, <2>2
<1>7. ASSUME NEW p \in Orders, p # o
      PROVE  CashRow(p)' /\ LinkedRow(p)'
  BY <1>1, <1>2, <1>7, OtherRows DEF CashInv, MoneyTypes
<1> QED BY <1>1, <1>4, <1>6, <1>7 DEF CashInv

LEMMA AnswerKeeps ==
    ASSUME CashInv, NEW o \in Orders, NEW answer \in {"confirmed", "unclear", "error"}, AnswerCheckout(o, answer)
    PROVE  CashInv' /\ (payment[o].state # "CREATED" => payment' = payment)
<1>1. /\ SetPayment(o, AnsweredState(o, answer)) /\ UNCHANGED orderVars
      /\ UNCHANGED <<facts, seen, listed, payout, sale, settled, receipts, run>>
  BY DEF AnswerCheckout
<1>2. payment[o] \in PaymentRows
  BY DEF CashInv, MoneyTypes
<1>3. CASE payment[o].state = "CREATED"
  <2>1. AnsweredState(o, answer) \in {"INITIALIZED", "UNKNOWN", "CREATED"}
    BY <1>3 DEF AnsweredState
  <2> QED BY <1>1, <1>3, <2>1, StateKeeps DEF CashInv, MoneyTypes, PaymentStates
<1>4. CASE payment[o].state # "CREATED"
  <2>1. AnsweredState(o, answer) = payment[o].state
    BY <1>4 DEF AnsweredState
  <2>2. payment' = payment
    BY <1>1, <1>2, <2>1 DEF SetPayment, CashInv, MoneyTypes, PaymentRows
  <2>3. WorkInv' /\ UNCHANGED <<listing, order>>
    BY <1>1, WorkStays
  <2>4. MoneyTypes' /\ (run.step = "recorded" => run.on \in settled)'
    BY <1>1, <2>2 DEF CashInv, MoneyTypes
  <2>5. \A p \in Orders : CashRow(p)' /\ LinkedRow(p)'
    BY <1>1, <2>2, <2>3, OtherRows
  <2> QED BY <2>2, <2>3, <2>4, <2>5 DEF CashInv
<1> QED BY <1>3, <1>4

LEMMA HappensKeeps ==
    ASSUME CashInv, NEW o \in Orders, NEW fact \in Facts, Happens(o, fact)
    PROVE  CashInv'
<1>1. WorkInv' /\ UNCHANGED <<listing, order>>
  BY WorkStays DEF Happens
<1>2. /\ facts' = [facts EXCEPT ![o] = facts[o] \cup {fact}]
      /\ UNCHANGED <<payment, seen, listed, payout, sale, settled, receipts, run>>
  BY DEF Happens
<1>3. MoneyTypes' /\ (run.step = "recorded" => run.on \in settled)'
  BY <1>2 DEF CashInv, MoneyTypes
<1>4. \A p \in Orders : facts[p] \subseteq facts'[p]
  BY <1>2 DEF CashInv, MoneyTypes
<1>5. \A p \in Orders : CashRow(p)' /\ LinkedRow(p)'
  BY <1>1, <1>2, <1>4, OtherRows
<1> QED BY <1>1, <1>3, <1>5 DEF CashInv

LEMMA UnclearKeeps ==
    ASSUME CashInv, NEW o \in Orders, HandleUnclear(o)
    PROVE  CashInv'
<1>1. seen' \in [Orders -> SUBSET {"charge", "verify", "refund", "unclear"}]
  BY DEF HandleUnclear, Seen, CashInv, MoneyTypes
<1> QED BY <1>1, StateKeeps DEF HandleUnclear, PaymentStates

-----------------------------------------------------------------------------
(* Charges, refunds and settlements.                                       *)

(* What a charge does to the rows of its order.                            *)
LEMMA ChargedRow ==
    ASSUME CashInv, NEW o \in Orders, NEW body \in {"charge", "verify"}, NEW eligible \in BOOLEAN,
           ApplyCharge(o, body, eligible)
    PROVE  /\ payment'[o].state = "PAID" /\ (payment'[o].live <=> payment[o].live)
           /\ payment' \in [Orders -> PaymentRows]
           /\ payout'[o] = IF payment[o].live THEN "PAYOUT_PENDING" ELSE payout[o]
           /\ payment[o].live => payout[o] = "NONE"
           /\ \/ order'[o] = order[o]
              \/ order[o].status = "NONE" /\ order'[o].status \in {"PREFLIGHT_BLOCKED", "READY"}
           /\ order'[o].status # "NONE"
           /\ \A p \in Orders \ {o} : /\ order'[p] = order[p] /\ payment'[p] = payment[p]
                                      /\ payout'[p] = payout[p] /\ sale'[p] = sale[p]
<1>1. order \in [Orders -> OrderRows] /\ payment[o] \in PaymentRows
  BY DEF CashInv, WorkInv, OrderTypes, MoneyTypes
<1>2. /\ payment' = [payment EXCEPT ![o] = [payment[o] EXCEPT !.state = "PAID", !.charged = TRUE]]
      /\ payout' = [payout EXCEPT ![o] = IF payment[o].live THEN "PAYOUT_PENDING" ELSE payout[o]]
      /\ sale' = [sale EXCEPT ![o] = IF payment[o].live THEN "PAID" ELSE sale[o]]
      /\ payment[o].live => MayRecord(o, "EARNED")
  BY DEF ApplyCharge
<1>3. /\ [payment[o] EXCEPT !.state = "PAID", !.charged = TRUE] \in PaymentRows
      /\ [payment[o] EXCEPT !.state = "PAID", !.charged = TRUE].state = "PAID"
      /\ [payment[o] EXCEPT !.state = "PAID", !.charged = TRUE].live <=> payment[o].live
  BY <1>1 DEF PaymentRows, PaymentStates
<1>4. /\ payment'[o].state = "PAID" /\ (payment'[o].live <=> payment[o].live)
      /\ payment' \in [Orders -> PaymentRows]
  BY <1>2, <1>3 DEF CashInv, MoneyTypes
<1>5. MayRecord(o, "EARNED") => payout[o] = "NONE"
  BY DEF MayRecord
<1>6. CASE order[o].status = "NONE"
  <2>1. order' = [order EXCEPT ![o] = Received({}, eligible)]
    BY <1>6 DEF ApplyCharge, CreateOrder
  <2>2. Received({}, eligible).status \in {"PREFLIGHT_BLOCKED", "READY"}
    BY ReceivedRow
  <2> QED BY <1>1, <1>2, <1>4, <1>5, <1>6, <2>1, <2>2 DEF CashInv, MoneyTypes
<1>7. CASE order[o].status # "NONE"
  <2>1. order' = order
    BY <1>7 DEF ApplyCharge
  <2> QED BY <1>2, <1>4, <1>5, <1>7, <2>1 DEF CashInv, MoneyTypes
<1> QED BY <1>6, <1>7

LEMMA ChargeCash ==
    ASSUME CashInv, NEW o \in Orders, NEW body \in {"charge", "verify"}, NEW eligible \in BOOLEAN,
           ApplyCharge(o, body, eligible), listed' \subseteq Orders,
           UNCHANGED <<listing, plan, scan, facts, settled, receipts, run>>
    PROVE  CashInv'
<1>1. CashRow(o) /\ LinkedRow(o) /\ listing[o].channel = "paystack"
  BY DEF CashInv, LinkedRow, ApplyCharge
<1>2. WorkInv'
  BY <1>1, ChargeKeeps DEF CashInv
<1>3. /\ payout' \in [Orders -> {"NONE", "PAYOUT_PENDING", "SETTLED", "REVERSED"}]
      /\ sale' \in [Orders -> {"NONE", "PAID", "REFUNDED"}]
      /\ seen' \in [Orders -> SUBSET {"charge", "verify", "refund", "unclear"}]
  BY DEF ApplyCharge, Seen, CashInv, MoneyTypes
<1>4. MoneyTypes' /\ (run.step = "recorded" => run.on \in settled)'
  BY <1>3, ChargedRow DEF CashInv, MoneyTypes
<1>5. "charge" \in facts'[o]
  BY DEF ApplyCharge
<1>6. CashRow(o)'
  BY <1>1, <1>5, ChargedRow DEF CashRow, LinkedRow
<1>7. LinkedRow(o)'
  BY <1>1, ChargedRow DEF LinkedRow
<1>8. ASSUME NEW p \in Orders, p # o
      PROVE  CashRow(p)' /\ LinkedRow(p)'
  BY <1>8, ChargedRow, OtherRows
<1> QED BY <1>2, <1>4, <1>6, <1>7, <1>8 DEF CashInv

LEMMA RefundCash ==
    ASSUME CashInv, NEW o \in Orders, HandleRefund(o)
    PROVE  CashInv'
<1>1. /\ WorkInv' /\ listing' = listing
      /\ order'[o].status = IF order[o].status = "NONE" THEN "NONE" ELSE "REVERSED"
      /\ \A p \in Orders \ {o} : order'[p] = order[p]
  BY RefundRow DEF CashInv
<1>2. /\ payment' = [payment EXCEPT ![o] = [payment[o] EXCEPT !.state = "REVERSED"]]
      /\ payment[o].state # "NONE" /\ payment[o] \in PaymentRows
      /\ sale' = [sale EXCEPT ![o] = IF sale[o] = "PAID" THEN "REFUNDED" ELSE sale[o]]
      /\ payout' = [payout EXCEPT ![o] = IF payout[o] = "NONE" THEN "NONE" ELSE "REVERSED"]
      /\ UNCHANGED <<facts, listed, settled, run>>
  BY DEF HandleRefund, SetPayment, PayoutAfterRefund, CashInv, MoneyTypes
<1>3. /\ [payment[o] EXCEPT !.state = "REVERSED"] \in PaymentRows
      /\ [payment[o] EXCEPT !.state = "REVERSED"].state = "REVERSED"
      /\ [payment[o] EXCEPT !.state = "REVERSED"].live <=> payment[o].live
  BY <1>2 DEF PaymentRows, PaymentStates
<1>4. PICK more \in SUBSET {"REVERSED"} : receipts' = [receipts EXCEPT ![o] = receipts[o] \cup more]
  <2>1. receipts' = [receipts EXCEPT ![o] =
            IF payment[o].live /\ payment[o].charged THEN receipts[o] \cup {"REVERSED"} ELSE receipts[o]]
    BY DEF HandleRefund
  <2>2. receipts[o] = receipts[o] \cup {}
    OBVIOUS
  <2> QED BY <2>1, <2>2
<1>5. MoneyTypes'
  <2>1. seen' \in [Orders -> SUBSET {"charge", "verify", "refund", "unclear"}]
    BY DEF HandleRefund, Seen, CashInv, MoneyTypes
  <2>2. receipts' \in [Orders -> SUBSET {"FIAT_SETTLED", "REVERSED"}]
    <3>1. receipts[o] \cup more \in SUBSET {"FIAT_SETTLED", "REVERSED"}
      BY DEF CashInv, MoneyTypes
    <3> QED BY <1>4, <3>1 DEF CashInv, MoneyTypes
  <2>3. payment' \in [Orders -> PaymentRows]
    BY <1>2, <1>3 DEF CashInv, MoneyTypes
  <2>4. sale' \in [Orders -> {"NONE", "PAID", "REFUNDED"}]
        /\ payout' \in [Orders -> {"NONE", "PAYOUT_PENDING", "SETTLED", "REVERSED"}]
    BY <1>2 DEF CashInv, MoneyTypes
  <2> QED BY <1>2, <2>1, <2>2, <2>3, <2>4 DEF CashInv, MoneyTypes
<1>6. /\ payment'[o].state = "REVERSED" /\ (payment'[o].live <=> payment[o].live)
      /\ payout'[o] = IF payout[o] = "NONE" THEN "NONE" ELSE "REVERSED"
      /\ sale'[o] # "PAID"
      /\ "FIAT_SETTLED" \in receipts'[o] <=> "FIAT_SETTLED" \in receipts[o]
  BY <1>2, <1>3, <1>4 DEF CashInv, MoneyTypes
<1>7. CashRow(o)'
  BY <1>1, <1>2, <1>6 DEF CashInv, CashRow, LinkedRow
<1>8. LinkedRow(o)'
  BY <1>1, <1>2, <1>6 DEF CashInv, LinkedRow
<1>9. ASSUME NEW p \in Orders, p # o
      PROVE  CashRow(p)' /\ LinkedRow(p)'
  <2>1. /\ payment'[p] = payment[p] /\ payout'[p] = payout[p] /\ sale'[p] = sale[p]
        /\ receipts'[p] = receipts[p] /\ order'[p] = order[p]
    BY <1>1, <1>2, <1>4, <1>9 DEF CashInv, MoneyTypes
  <2> QED BY <1>1, <1>2, <2>1, OtherRows
<1> QED BY <1>1, <1>2, <1>5, <1>7, <1>8, <1>9 DEF CashInv

LEMMA SettleCash ==
    ASSUME CashInv, NEW o \in Orders, SettleOrder(o)
    PROVE  CashInv' /\ order[o].status # "REVERSED"
<1>1. /\ WorkInv' /\ listing' = listing /\ order'[o].status = "SETTLED"
      /\ \A p \in Orders \ {o} : order'[p] = order[p]
  BY SettledRow DEF CashInv
<1>2. /\ payout' = [payout EXCEPT ![o] = "SETTLED"] /\ settled' = settled \cup {o}
      /\ run' = [run EXCEPT !.step = "recorded"] /\ run = [step |-> "matched", on |-> o]
      /\ UNCHANGED <<payment, facts, seen, listed, sale, receipts>>
  BY DEF SettleOrder
<1>3. payout[o] \in {"PAYOUT_PENDING", "SETTLED"}
  BY DEF SettleOrder, MayRecord
<1>4. MoneyTypes' /\ (run.step = "recorded" => run.on \in settled)'
  BY <1>2 DEF CashInv, MoneyTypes
<1>5. payout'[o] = "SETTLED" /\ \A p \in Orders \ {o} : payout'[p] = payout[p]
  BY <1>2 DEF CashInv, MoneyTypes
<1>6. CashRow(o)' /\ LinkedRow(o)' /\ order[o].status # "REVERSED"
  BY <1>1, <1>2, <1>3, <1>5 DEF CashInv, CashRow, LinkedRow
<1>7. ASSUME NEW p \in Orders, p # o
      PROVE  CashRow(p)' /\ LinkedRow(p)'
  BY <1>1, <1>2, <1>5, <1>7, OtherRows
<1> QED BY <1>1, <1>4, <1>6, <1>7 DEF CashInv

(* The other steps of the settlement run and of the reconciliation.        *)
LEMMA RunKeeps ==
    ASSUME CashInv, UNCHANGED <<orderVars, payment, facts, seen, payout, sale, settled, receipts>>,
           listed' \subseteq Orders, run'.step = "recorded" => run'.on \in settled
    PROVE  CashInv'
<1>1. WorkInv' /\ UNCHANGED <<listing, order>>
  BY WorkStays
<1>2. MoneyTypes'
  BY DEF CashInv, MoneyTypes
<1>3. \A p \in Orders : CashRow(p)' /\ LinkedRow(p)'
  BY <1>1, OtherRows
<1> QED BY <1>1, <1>2, <1>3 DEF CashInv

LEMMA ReceiptCash ==
    ASSUME CashInv, NEW o \in Orders, RecordReceipt(o)
    PROVE  CashInv'
<1>1. WorkInv' /\ UNCHANGED <<listing, order>>
  BY WorkStays DEF RecordReceipt
<1>2. /\ receipts' = [receipts EXCEPT ![o] = receipts[o] \cup {"FIAT_SETTLED"}]
      /\ run' = IdleRun /\ run = [step |-> "recorded", on |-> o]
      /\ UNCHANGED <<payment, facts, seen, listed, payout, sale, settled>>
  BY DEF RecordReceipt
<1>3. o \in settled
  BY <1>2 DEF CashInv
<1>4. MoneyTypes' /\ (run.step = "recorded" => run.on \in settled)'
  BY <1>2 DEF CashInv, MoneyTypes, IdleRun
<1>5. CashRow(o)' /\ LinkedRow(o)'
  BY <1>1, <1>2, <1>3 DEF CashInv, CashRow, LinkedRow
<1>6. ASSUME NEW p \in Orders, p # o
      PROVE  CashRow(p)' /\ LinkedRow(p)'
  BY <1>1, <1>2, <1>6, OtherRows DEF CashInv, MoneyTypes
<1> QED BY <1>1, <1>4, <1>5, <1>6 DEF CashInv

-----------------------------------------------------------------------------
(* The theorems.                                                           *)

LEMMA CashInit == Init => CashInv
<1> SUFFICES ASSUME Init PROVE CashInv
  OBVIOUS
<1>1. OrderTypes
  BY PortfolioAssumption
     DEF Init, OrderInit, OrderTypes, OrderRows, OrderStatuses, RemoteStates, JobStates, PlanStatuses, NoRow
<1>2. WorkInv
  BY <1>1 DEF Init, OrderInit, WorkInv, WorkFollowsOrder, WorkOnlyForAccepted, AcceptedHasInputs,
              DeliveredWorkPassed, NoRow
<1>3. MoneyTypes
  BY DEF Init, MoneyTypes, NoPayment, PaymentRows, PaymentStates
<1>4. \A o \in Orders : CashRow(o) /\ LinkedRow(o)
  BY DEF Init, OrderInit, NoRow, NoPayment, CashRow, LinkedRow
<1> QED BY <1>2, <1>3, <1>4 DEF Init, IdleRun, CashInv

(* What one payment does, and what it never takes back.                    *)
NotTakenBack(p) ==
    /\ payment[p].state \in {"PAID", "REVERSED"} =>
          payment'[p].state \in {"PAID", "REVERSED"} \/ seen'[p] # seen[p]
    /\ order[p].status = "REVERSED" => order'[p].status = "REVERSED"

LEMMA PayKeeps ==
    ASSUME CashInv, NEW o \in Orders, Pay(o)
    PROVE  CashInv' /\ \A p \in Orders : NotTakenBack(p)
<1>1. ASSUME NEW live \in BOOLEAN, NEW arrives \in BOOLEAN, InitializeCheckout(o, live, arrives)
      PROVE  CashInv' /\ \A p \in Orders : NotTakenBack(p)
  <2>1. \A p \in Orders : p # o => payment'[p] = payment[p]
    BY <1>1 DEF InitializeCheckout, CashInv, MoneyTypes
  <2> QED BY <1>1, <2>1, CheckoutKeeps DEF InitializeCheckout, orderVars, NotTakenBack
<1>2. ASSUME NEW answer \in {"confirmed", "unclear", "error"}, AnswerCheckout(o, answer)
      PROVE  CashInv' /\ \A p \in Orders : NotTakenBack(p)
  <2>1. \A p \in Orders : p # o => payment'[p] = payment[p]
    BY <1>2 DEF AnswerCheckout, SetPayment, CashInv, MoneyTypes
  <2> QED BY <1>2, <2>1, AnswerKeeps DEF AnswerCheckout, orderVars, NotTakenBack
<1>3. ASSUME NEW fact \in {"charge", "refund", "unclear", "settlement"}, Happens(o, fact)
      PROVE  CashInv' /\ \A p \in Orders : NotTakenBack(p)
  BY <1>3, HappensKeeps DEF Facts, Happens, orderVars, NotTakenBack
<1>4. ASSUME NEW eligible \in BOOLEAN, HandleCharge(o, eligible) \/ ReconcilePayment(o, eligible)
      PROVE  CashInv' /\ \A p \in Orders : NotTakenBack(p)
  <2>1. PICK body \in {"charge", "verify"} :
            /\ ApplyCharge(o, body, eligible) /\ listed' \subseteq Orders
            /\ UNCHANGED <<listing, plan, scan, facts, settled, receipts, run>>
    BY <1>4 DEF HandleCharge, ReconcilePayment, CashInv, MoneyTypes
  <2>2. \A p \in Orders : NotTakenBack(p)
    BY <2>1, ChargedRow DEF NotTakenBack
  <2> QED BY <2>1, <2>2, ChargeCash
<1>5. CASE HandleRefund(o)
  <2>1. \A p \in Orders : payment'[p].state = "REVERSED" \/ payment'[p] = payment[p]
    BY <1>5 DEF HandleRefund, SetPayment, CashInv, MoneyTypes, PaymentRows
  <2>2. \A p \in Orders : order[p].status = "REVERSED" => order'[p].status = "REVERSED"
    BY <1>5, RefundRow DEF CashInv
  <2> QED BY <1>5, <2>1, <2>2, RefundCash DEF NotTakenBack
<1>6. CASE HandleUnclear(o)
  <2>1. seen'[o] # seen[o]
    BY <1>6 DEF HandleUnclear, Seen, CashInv, MoneyTypes
  <2>2. \A p \in Orders : p # o => payment'[p] = payment[p]
    BY <1>6 DEF HandleUnclear, SetPayment, CashInv, MoneyTypes
  <2> QED BY <1>6, <2>1, <2>2, UnclearKeeps DEF HandleUnclear, orderVars, NotTakenBack
<1> QED BY <1>1, <1>2, <1>3, <1>4, <1>5, <1>6 DEF Pay

LEMMA SettleKeeps ==
    ASSUME CashInv, NEW o \in Orders, Settle(o)
    PROVE  CashInv' /\ \A p \in Orders : NotTakenBack(p)
<1>1. CASE MatchPayment(o)
  BY <1>1, RunKeeps DEF MatchPayment, CashInv, MoneyTypes, orderVars, NotTakenBack
<1>2. CASE SettleOrder(o)
  <2>1. \A p \in Orders : p # o => order'[p] = order[p]
    BY <1>2, SettledRow DEF CashInv
  <2> QED BY <1>2, <2>1, SettleCash DEF SettleOrder, NotTakenBack
<1>3. CASE FindSettled(o)
  <2>1. run'.on = o /\ o \in settled /\ settled' = settled
    BY <1>3 DEF FindSettled
  <2> QED BY <1>3, <2>1, RunKeeps DEF FindSettled, CashInv, MoneyTypes, orderVars, NotTakenBack
<1>4. CASE RecordReceipt(o)
  BY <1>4, ReceiptCash DEF RecordReceipt, orderVars, NotTakenBack
<1> QED BY <1>1, <1>2, <1>3, <1>4 DEF Settle

LEMMA CashStep == CashInv /\ [Next]_vars => CashInv' /\ \A p \in Orders : NotTakenBack(p)
<1> SUFFICES ASSUME CashInv, [Next]_vars
             PROVE  CashInv' /\ \A p \in Orders : NotTakenBack(p)
  OBVIOUS
<1>1. CASE OrderNext /\ UNCHANGED moneyVars
  <2>1. UNCHANGED <<payment, seen>>
    BY <1>1 DEF moneyVars
  <2>2. \A p \in Orders : order[p].status = "REVERSED" => order'[p].status = "REVERSED"
    BY <1>1, OrderStatusSteps DEF CashInv, LinkedRow
  <2> QED BY <1>1, <2>1, <2>2, OrderStepCash DEF NotTakenBack
<1>2. ASSUME NEW o \in Orders, Pay(o) \/ Settle(o)
      PROVE  CashInv' /\ \A p \in Orders : NotTakenBack(p)
  BY <1>2, PayKeeps, SettleKeeps
<1>3. CASE ListUnresolved
  BY <1>3, RunKeeps DEF ListUnresolved, CashInv, orderVars, NotTakenBack
<1>4. ASSUME NEW rest \in SUBSET listed, EndReconciliation(rest)
      PROVE  CashInv' /\ \A p \in Orders : NotTakenBack(p)
  BY <1>4, RunKeeps DEF EndReconciliation, CashInv, MoneyTypes, orderVars, NotTakenBack
<1>5. CASE AbortRun
  BY <1>5, RunKeeps DEF AbortRun, IdleRun, CashInv, MoneyTypes, orderVars, NotTakenBack
<1>6. CASE UNCHANGED vars
  BY <1>6, RunKeeps DEF vars, moneyVars, orderVars, CashInv, MoneyTypes, NotTakenBack
<1> QED BY <1>1, <1>2, <1>3, <1>4, <1>5, <1>6 DEF Next

THEOREM CashSound == Spec => []CashInv
<1>1. Init => CashInv
  BY CashInit
<1>2. CashInv /\ [Next]_vars => CashInv'
  BY CashStep
<1> QED BY <1>1, <1>2, PTL DEF Spec

(* For any orders and packages: money is spent on accepted orders only,    *)
(* with what their package needs, and only passed work is delivered, in any*)
(* order of intake, webhooks, refunds and settlements.                     *)
THEOREM WorkOfOrders == Spec => []WorkFollowsOrder
<1>1. CashInv => WorkFollowsOrder
  BY DEF CashInv, WorkInv
<1> QED BY <1>1, CashSound, PTL

(* For any orders: order, payout, settlement event and receipt agree, and  *)
(* nothing is kept of a payment that was refunded.                         *)
THEOREM CashOfOrders == Spec => []CashIsOurs
BY CashSound, CashIsTrue, PTL

(* For any orders: what a webhook established of a payment is not taken    *)
(* back by a late answer, nor a reversal of an order by a settlement.      *)
THEOREM PaidForGood == Spec => PaidIsNotForgotten
<1>1. CashInv /\ [Next]_vars =>
        [\A o \in Orders :
            /\ payment[o].state \in {"PAID", "REVERSED"} =>
                  payment'[o].state \in {"PAID", "REVERSED"} \/ seen'[o] # seen[o]
            /\ order[o].status = "REVERSED" => order'[o].status = "REVERSED"]_vars
  BY CashStep DEF NotTakenBack
<1> QED BY <1>1, CashSound, PTL DEF Spec, PaidIsNotForgotten

-----------------------------------------------------------------------------
(* The types of what no property speaks of.                                *)

Runs == [step : {"idle", "matched", "recorded"}, on : Orders \cup {NoOrder}]
SideTypes ==
    /\ mapped \subseteq Orders /\ checkout \subseteq Orders /\ settled \subseteq Orders
    /\ run \in Runs

LEMMA SideStep == SideTypes /\ [Next]_vars => SideTypes'
<1> SUFFICES ASSUME SideTypes, [Next]_vars PROVE SideTypes'
  OBVIOUS
<1> USE DEF SideTypes
<1>1. CASE OrderNext /\ UNCHANGED moneyVars
  <2>1. ASSUME NEW o \in Orders, ReceiveOrder(o)
        PROVE  mapped' \subseteq Orders
    BY <2>1 DEF ReceiveOrder, ReceiveRapidapiCall, HandleOrderCreated, ReceiveManualContraOrder, TextOrder,
                SubmitBuyerIntake, HandleRenewal
  <2>2. ASSUME NEW o \in Orders, WorkOnOrder(o)
        PROVE  mapped' \subseteq Orders
    BY <2>2 DEF WorkOnOrder, HandleSubscriptionState, AcceptInboundOrder, PlanAndQueue, StartWork, FinishWork,
                RetryFailedWork, QueueSubmission, RefuseSubmission, RecordManualDelivery, RecordBuyerAcceptance
  <2> QED BY <1>1, <2>1, <2>2 DEF OrderNext, ScanAccepted, RefreshDeliveryReadiness, moneyVars
<1>2. ASSUME NEW o \in Orders, Pay(o)
      PROVE  SideTypes'
  BY <1>2 DEF Pay, InitializeCheckout, AnswerCheckout, Happens, HandleCharge, ReconcilePayment, HandleRefund,
              HandleUnclear, orderVars
<1>3. ASSUME NEW o \in Orders, Settle(o)
      PROVE  SideTypes'
  BY <1>3 DEF Settle, MatchPayment, SettleOrder, FindSettled, RecordReceipt, IdleRun, Runs, orderVars
<1>4. CASE ListUnresolved \/ (\E rest \in SUBSET listed : EndReconciliation(rest)) \/ AbortRun
  BY <1>4 DEF ListUnresolved, EndReconciliation, AbortRun, IdleRun, Runs, orderVars
<1>5. CASE UNCHANGED vars
  BY <1>5 DEF vars, moneyVars, orderVars
<1> QED BY <1>1, <1>2, <1>3, <1>4, <1>5 DEF Next

(* For any orders and packages: every variable keeps its type.             *)
THEOREM TypesOfOrders == Spec => []TypeOK
<1>1. Init => SideTypes
  BY DEF Init, OrderInit, IdleRun, SideTypes, Runs
<1>2. CashInv /\ SideTypes => TypeOK
  BY DEF CashInv, WorkInv, OrderTypes, OrderRows, OrderStatuses, RemoteStates, JobStates, PlanStatuses,
         MoneyTypes, PaymentRows, PaymentStates, Facts, SideTypes, Runs, TypeOK, OrderTypeOK
<1> QED BY <1>1, <1>2, SideStep, CashSound, PTL DEF Spec

=============================================================================
