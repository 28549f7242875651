-------------------------- MODULE PaystackCommerce --------------------------
(***************************************************************************)
(* Orders paid through Paystack: checkout, webhooks, verification and      *)
(* settlement (paystack_commerce.py, the Paystack part of                  *)
(* integration_reconciliation.py, reconcile_inbound_settlement) on top of  *)
(* the orders of InboundOrders.  A webhook is one transaction under the    *)
(* lock of its payment; when it raises, nothing of it stays and Paystack   *)
(* sends it again.  Paystack itself is external: what happened there is a  *)
(* set of facts, delivered in any order and any number of times.           *)
(***************************************************************************)
EXTENDS InboundOrders

VARIABLES
    payment,   \* CommercePayment: state, and what its evidence says
    checkout,  \* initialize_checkout of each payment, between its POST and the answer
    facts,     \* what happened at Paystack
    seen,      \* bodies with a WebhookEvent row
    listed,    \* payments a reconciliation cycle will verify
    payout,    \* Payout.state of the order's job
    sale,      \* the sale in the evidence of the owned product
    settled,   \* orders with an InboundSettlementEvent
    receipts,  \* OwnerReceipt states of each payment
    run        \* where reconcile_paystack_settlements is, and with which payment

moneyVars == <<payment, checkout, facts, seen, listed, payout, sale, settled, receipts, run>>
vars == <<orderVars, moneyVars>>

NoPayment == [state |-> "NONE", live |-> FALSE, charged |-> FALSE]
IdleRun == [step |-> "idle", on |-> NoOrder]

Init ==
    /\ OrderInit
    /\ payment = [o \in Orders |-> NoPayment]
    /\ checkout = {}
    /\ facts = [o \in Orders |-> {}]
    /\ seen = [o \in Orders |-> {}]
    /\ listed = {}
    /\ payout = [o \in Orders |-> "NONE"]
    /\ sale = [o \in Orders |-> "NONE"]
    /\ settled = {}
    /\ receipts = [o \in Orders |-> {}]
    /\ run = IdleRun

SetPayment(o, state) == payment' = [payment EXCEPT ![o].state = state]
Seen(o, body) == seen' = [seen EXCEPT ![o] = @ \cup {body}]

-----------------------------------------------------------------------------
(* Checkout.                                                               *)

(* initialize_checkout stores the payment and POSTs; the POST may be lost. *)
InitializeCheckout(o, live, arrives) ==
    /\ listing[o].channel = "paystack" /\ payment[o].state = "NONE"
    /\ payment' = [payment EXCEPT ![o] = [NoPayment EXCEPT !.state = "CREATED", !.live = live]]
    /\ checkout' = checkout \cup {o}
    /\ facts' = [facts EXCEPT ![o] = IF arrives THEN {"posted"} ELSE {}]
    /\ UNCHANGED <<orderVars, seen, listed, payout, sale, settled, receipts, run>>

(* Its answer: confirmed, timed out or malformed, or an error that leaves  *)
(* the payment alone (as a death does).  Only CREATED is ever overwritten. *)
(* Mutant: a timeout always leaves UNKNOWN.                                *)
OverwrittenState(o, answer) ==
    CASE answer = "confirmed" /\ payment[o].state = "CREATED" -> "INITIALIZED"
      [] answer = "unclear" -> "UNKNOWN"
      [] OTHER -> payment[o].state
AnsweredState(o, answer) ==
    CASE answer = "confirmed" /\ payment[o].state = "CREATED" -> "INITIALIZED"
      [] answer = "unclear" /\ payment[o].state = "CREATED" -> "UNKNOWN"
      [] OTHER -> payment[o].state
AnswerCheckout(o, answer) ==
    /\ o \in checkout /\ (answer = "confirmed" => "posted" \in facts[o])
    /\ checkout' = checkout \ {o}
    /\ SetPayment(o, AnsweredState(o, answer))
    /\ UNCHANGED <<orderVars, facts, seen, listed, payout, sale, settled, receipts, run>>

(* Paystack: a charge, then a refund, what is unclear (part of the money   *)
(* refunded, a dispute), and a settlement of what was not refunded.        *)
Happens(o, fact) ==
    /\ fact \notin facts[o]
    /\ IF fact = "charge" THEN "posted" \in facts[o] ELSE "charge" \in facts[o]
    /\ fact = "settlement" => "refund" \notin facts[o]
    /\ facts' = [facts EXCEPT ![o] = @ \cup {fact}]
    /\ UNCHANGED <<orderVars, payment, checkout, seen, listed, payout, sale, settled,
                   receipts, run>>

-----------------------------------------------------------------------------
(* Webhooks.                                                               *)

(* record_payout_state with advance_job_state=False: the transitions of a  *)
(* payout, and no job that has FAILED.                                     *)
MayRecord(o, target) ==
    /\ job[o] # "FAILED"
    /\ <<payout[o], target>> \in {<<"NONE", "EARNED">>, <<"PAYOUT_PENDING", "SETTLED">>,
                                  <<"SETTLED", "SETTLED">>, <<"PAYOUT_PENDING", "REVERSED">>,
                                  <<"SETTLED", "REVERSED">>}

(* charge.success, as a webhook or made by reconcile_payment of what the   *)
(* verification returned.  A test charge makes an order but no money.      *)
ApplyCharge(o, body, eligible) ==
    /\ payment[o].state # "NONE" /\ body \notin seen[o] /\ "charge" \in facts[o]
    /\ payment[o].live => MayRecord(o, "EARNED")
    /\ IF order[o].status = "NONE" THEN CreateOrder(o, Received({}, eligible))
       ELSE UNCHANGED <<order, job>>
    /\ payment' = [payment EXCEPT ![o].state = "PAID", ![o].charged = TRUE]
    /\ payout' = [payout EXCEPT ![o] = IF payment[o].live THEN "PAYOUT_PENDING" ELSE @]
    /\ sale' = [sale EXCEPT ![o] = IF payment[o].live THEN "PAID" ELSE @]
    /\ Seen(o, body)

HandleCharge(o, eligible) ==
    /\ ApplyCharge(o, "charge", eligible)
    /\ UNCHANGED <<listing, mapped, plan, scan, checkout, facts, listed, settled, receipts, run>>

(* _paystack lists what is unresolved; reconcile_payment does not look at  *)
(* the state again, and a ValueError ends the cycle.                       *)
ListUnresolved ==
    /\ listed = {}
    /\ listed' = {o \in Orders : payment[o].state \in {"INITIALIZED", "UNKNOWN"}} /\ listed' # {}
    /\ UNCHANGED <<orderVars, payment, checkout, facts, seen, payout, sale, settled, receipts, run>>

ReconcilePayment(o, eligible) ==
    /\ o \in listed /\ listed' = listed \ {o}
    /\ ApplyCharge(o, "verify", eligible)
    /\ UNCHANGED <<listing, mapped, plan, scan, checkout, facts, settled, receipts, run>>

(* Not paid yet, known already, or the cycle ends.                         *)
EndReconciliation(rest) ==
    /\ listed # {} /\ rest \subseteq listed /\ rest # listed /\ listed' = rest
    /\ UNCHANGED <<orderVars, payment, checkout, facts, seen, payout, sale, settled, receipts, run>>

(* refund.processed of the whole amount.  Mutant: the payout is left to the*)
(* settlement.                                                             *)
PayoutKept(o) == payout[o]
PayoutAfterRefund(o) == IF payout[o] = "NONE" THEN "NONE" ELSE "REVERSED"
HandleRefund(o) ==
    /\ payment[o].state # "NONE" /\ "refund" \in facts[o] \ seen[o]
    /\ payout[o] \in {"NONE", "REVERSED"} \/ MayRecord(o, "REVERSED")
    /\ SetPayment(o, "REVERSED")
    /\ order' = [order EXCEPT ![o] =
            IF @.status = "NONE" THEN @
            ELSE [@ EXCEPT !.status = "REVERSED", !.remote = "PAYSTACK_REFUND_PROCESSED"]]
    /\ sale' = [sale EXCEPT ![o] = IF @ = "PAID" THEN "REFUNDED" ELSE @]
    /\ payout' = [payout EXCEPT ![o] = PayoutAfterRefund(o)]
    /\ receipts' = [receipts EXCEPT ![o] =
            IF payment[o].live /\ payment[o].charged THEN @ \cup {"REVERSED"} ELSE @]
    /\ Seen(o, "refund")
    /\ UNCHANGED <<listing, mapped, job, plan, scan, checkout, facts, listed, settled, run>>

(* A partial refund or a dispute leaves the payment to be reconciled.      *)
HandleUnclear(o) ==
    /\ payment[o].state # "NONE" /\ "unclear" \in facts[o] \ seen[o]
    /\ SetPayment(o, "UNKNOWN")
    /\ Seen(o, "unclear")
    /\ UNCHANGED <<orderVars, checkout, facts, listed, payout, sale, settled, receipts, run>>

-----------------------------------------------------------------------------
(* Settlement: three transactions for each row of a settlement.            *)

(* The payment is read; test payments only get evidence, and what is not   *)
(* PAID is skipped or ends the run.                                        *)
MatchPayment(o) ==
    /\ run = IdleRun /\ "settlement" \in facts[o]
    /\ payment[o].state = "PAID" /\ payment[o].live
    /\ run' = [step |-> "matched", on |-> o]
    /\ UNCHANGED <<orderVars, payment, checkout, facts, seen, listed, payout, sale, settled,
                   receipts>>

(* reconcile_inbound_settlement: once for each transaction of a settlement.*)
SettleOrder(o) ==
    /\ run = [step |-> "matched", on |-> o]
    /\ o \notin settled /\ MayRecord(o, "SETTLED")
    /\ payout' = [payout EXCEPT ![o] = "SETTLED"]
    /\ order' = [order EXCEPT ![o].status = "SETTLED"]
    /\ settled' = settled \cup {o}
    /\ run' = [run EXCEPT !.step = "recorded"]
    /\ UNCHANGED <<listing, mapped, job, plan, scan, payment, checkout, facts, seen, listed,
                   sale, receipts>>

(* Mutant: an event that is there already ends the row.                    *)
SkipSettled(o) ==
    /\ run = [step |-> "matched", on |-> o] /\ o \in settled
    /\ run' = IdleRun
    /\ UNCHANGED <<orderVars, payment, checkout, facts, seen, listed, payout, sale, settled,
                   receipts>>
FindSettled(o) ==
    /\ run = [step |-> "matched", on |-> o] /\ o \in settled
    /\ run' = [run EXCEPT !.step = "recorded"]
    /\ UNCHANGED <<orderVars, payment, checkout, facts, seen, listed, payout, sale, settled,
                   receipts>>

RecordReceipt(o) ==
    /\ run = [step |-> "recorded", on |-> o]
    /\ receipts' = [receipts EXCEPT ![o] = @ \cup {"FIAT_SETTLED"}]
    /\ run' = IdleRun
    /\ UNCHANGED <<orderVars, payment, checkout, facts, seen, listed, payout, sale, settled>>

(* An error on any row, or a death.                                        *)
AbortRun ==
    /\ run # IdleRun /\ run' = IdleRun
    /\ UNCHANGED <<orderVars, payment, checkout, facts, seen, listed, payout, sale, settled,
                   receipts>>

-----------------------------------------------------------------------------
Pay(o) ==
    \/ \E live, arrives \in BOOLEAN : InitializeCheckout(o, live, arrives)
    \/ \E answer \in {"confirmed", "unclear", "error"} : AnswerCheckout(o, answer)
    \/ \E fact \in {"charge", "refund", "unclear", "settlement"} : Happens(o, fact)
    \/ \E eligible \in BOOLEAN : HandleCharge(o, eligible) \/ ReconcilePayment(o, eligible)
    \/ HandleRefund(o) \/ HandleUnclear(o)

Settle(o) == MatchPayment(o) \/ SettleOrder(o) \/ FindSettled(o) \/ RecordReceipt(o)

Next ==
    \/ OrderNext /\ UNCHANGED moneyVars
    \/ \E o \in Orders : Pay(o) \/ Settle(o)
    \/ ListUnresolved \/ (\E rest \in SUBSET listed : EndReconciliation(rest)) \/ AbortRun

Spec == Init /\ [][Next]_vars

(* The controller's cycle and the settlement run come again and again, and *)
(* Paystack repeats a webhook until it is answered with success.           *)
FairSpec ==
    /\ Spec
    /\ SF_vars(ScanAccepted /\ UNCHANGED moneyVars)
    /\ WF_vars(RefreshDeliveryReadiness /\ UNCHANGED moneyVars)
    /\ SF_vars(\E o \in Orders, eligible \in BOOLEAN : HandleCharge(o, eligible))
    /\ SF_vars(\E o \in Orders : HandleRefund(o))
    /\ SF_vars(\E o \in Orders : MatchPayment(o))
    /\ SF_vars(\E o \in Orders : SettleOrder(o) \/ FindSettled(o))
    /\ SF_vars(\E o \in Orders : RecordReceipt(o))

-----------------------------------------------------------------------------
TypeOK ==
    /\ OrderTypeOK
    /\ payment \in [Orders -> [state : {"NONE", "CREATED", "INITIALIZED", "PAID", "REVERSED",
                                        "UNKNOWN"}, live : BOOLEAN, charged : BOOLEAN]]
    /\ checkout \subseteq Orders /\ listed \subseteq Orders /\ settled \subseteq Orders
    /\ facts \in [Orders -> SUBSET {"posted", "charge", "refund", "unclear", "settlement"}]
    /\ seen \in [Orders -> SUBSET {"charge", "verify", "refund", "unclear"}]
    /\ payout \in [Orders -> {"NONE", "PAYOUT_PENDING", "SETTLED", "REVERSED"}]
    /\ sale \in [Orders -> {"NONE", "PAID", "REFUNDED"}]
    /\ receipts \in [Orders -> SUBSET {"FIAT_SETTLED", "REVERSED"}]
    /\ run \in [step : {"idle", "matched", "recorded"}, on : Orders \cup {NoOrder}]

(* Order, payout, settlement event and receipt tell one story, though three*)
(* transactions write them and refunds, disputes and deaths come between:  *)
(* an order is SETTLED exactly while its payout is, a receipt of cash has a*)
(* settlement event behind it, and a payout a live charge.                 *)
CashAgreesWithOrder ==
    \A o \in Orders :
        /\ order[o].status = "SETTLED" <=> payout[o] = "SETTLED"
        /\ payout[o] = "REVERSED" => order[o].status = "REVERSED"
        /\ "FIAT_SETTLED" \in receipts[o] => o \in settled
        /\ o \in settled => payout[o] \in {"SETTLED", "REVERSED"}
        /\ payout[o] # "NONE" => payment[o].live /\ "charge" \in facts[o]

(* A refunded payment keeps no money: while the payment is REVERSED, its   *)
(* payout is reversed and its sale refunded, whatever was verified, charged*)
(* or settled around the refund.                                           *)
RefundedHasNoCash ==
    \A o \in Orders : payment[o].state = "REVERSED" =>
        payout[o] \in {"NONE", "REVERSED"} /\ sale[o] # "PAID"

(* The cash of Paystack orders is the cash Paystack left us: the records   *)
(* agree with one another, and none outlives a refund.                     *)
CashIsOurs == CashAgreesWithOrder /\ RefundedHasNoCash

(* No late answer of a checkout takes back what a webhook has established: *)
(* a payment that was PAID, REVERSED or disputed never looks unpaid again. *)
PaidIsNotForgotten ==
    [][\A o \in Orders :
        /\ payment[o].state \in {"PAID", "REVERSED"} =>
              payment'[o].state \in {"PAID", "REVERSED"} \/ seen'[o] # seen[o]
        /\ order[o].status = "REVERSED" => order'[o].status = "REVERSED"]_vars

(* What Paystack settled of a live payment ends as a receipt, also when the*)
(* run dies between its transactions, unless the payment is refunded or    *)
(* disputed, or the work fails, which record_payout_state does not forgive.*)
SettlementIsRecorded ==
    \A o \in Orders :
        payment[o].live /\ "settlement" \in facts[o] ~>
            \/ "FIAT_SETTLED" \in receipts[o]
            \/ facts[o] \cap {"refund", "unclear"} # {}
            \/ job[o] = "FAILED"

(* docs/two-sided-revenue-engine.md:18: "Reversal preserves historical     *)
(* settlement evidence while removing the payout from settled cash."  The  *)
(* refund of a settled payment whose work failed is refused every time it  *)
(* is delivered.                                                           *)
RefundLeavesSettledCash ==
    \A o \in Orders :
        payout[o] = "SETTLED" /\ "refund" \in facts[o] \ seen[o] ~> payout[o] = "REVERSED"
=============================================================================
