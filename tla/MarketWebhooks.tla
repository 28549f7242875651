---------------------------- MODULE MarketWebhooks ----------------------------
(***************************************************************************)
(* An acquired AgentGigs job after the application: agentgigs.py.  The     *)
(* market tells what the buyer does by webhooks, which are stored once     *)
(* (webhooks.py) and handled by any worker at any later time, in any order,*)
(* and again when a worker is slow or dead; polls see the same changes.    *)
(* The handler works on the job row it read before it called the market.   *)
(***************************************************************************)
EXTENDS Naturals, FiniteSets

CONSTANTS
    Workers,      \* webhook workers and the watcher
    NoEvent,
    MaxAttempts,  \* MAX_WEBHOOK_ATTEMPTS
    MaxHandled    \* bound: events claimed in all, again or for the first time

VARIABLES
    happened,    \* at the market: funded, delivered, and what the buyer did
    inbox,       \* WebhookEvent.status
    attempts,    \* WebhookEvent.attempt_count
    worker,      \* what each worker is in the middle of
    jobRow,      \* Job.state
    submission,  \* Submission.status
    payoutRow,   \* Payout.state
    revisions,   \* events with a Revision row
    alerts       \* events with a reconciliation alert

webhookVars == <<happened, inbox, attempts, worker, jobRow, submission,
                 payoutRow, revisions, alerts>>

(* Selection, job.accepted, has the handler ask for the status as a poll   *)
(* does: ListActiveJob stands for both.                                    *)
Events == {"job.revision_requested", "job.approved", "payment.released"}
ASSUME EventAssumption == NoEvent \notin Events

FreeWorker == [at |-> "idle", event |-> NoEvent, seen |-> "NONE"]

WebhookInit ==
    /\ happened = {} /\ revisions = {} /\ alerts = {}
    /\ inbox = [e \in Events |-> "NONE"] /\ attempts = [e \in Events |-> 0]
    /\ worker = [w \in Workers |-> FreeWorker]
    /\ jobRow = "EXPECTED" /\ submission = "NONE" /\ payoutRow = "NONE"

In(w, at, e) == worker[w].at = at /\ worker[w].event = e
Step(w, at) == worker' = [worker EXCEPT ![w].at = at, ![w].seen = "NONE"]
(* An event is marked in the end, a poll just ends.                        *)
Close(w, at) == IF worker[w].event = NoEvent THEN worker' = [worker EXCEPT ![w] = FreeWorker]
               ELSE Step(w, at)
Done(w) == Close(w, "done")
Raise(w) == Close(w, "raised")

(* transition_job locks the row, and raises what job_state.py forbids.     *)
(* Mutant: only closed jobs are left alone.                                *)
NotClosed(from, to) == from \notin {"SETTLED", "FAILED"}
AllowedTransition(from, to) ==
    \/ from = to
    \/ <<from, to>> \in {<<"EXPECTED", "AWARDED">>, <<"AWARDED", "EXECUTING">>,
                         <<"EXECUTING", "SUBMITTED">>, <<"SUBMITTED", "ACCEPTED">>,
                         <<"SUBMITTED", "EXECUTING">>}
TransitionJob(w, to) ==
    IF AllowedTransition(jobRow, to) THEN jobRow' = to /\ Done(w)
    ELSE Raise(w) /\ UNCHANGED jobRow

-----------------------------------------------------------------------------
(* The buyer, the market and our work.                                     *)

Follows(f) ==
    CASE f = "funded" -> TRUE
      [] f = "job.revision_requested" -> "delivered" \in happened /\ "job.approved" \notin happened
      [] f = "job.approved" -> "delivered" \in happened
      [] f = "payment.released" -> "job.approved" \in happened
BuyerActs(f) ==
    /\ f \notin happened /\ Follows(f) /\ happened' = happened \cup {f}
    /\ UNCHANGED <<inbox, attempts, worker, jobRow, submission, payoutRow, revisions, alerts>>

(* agentgigs_webhook: a body that comes again has the same event_key.      *)
ReceiveWebhook(e) ==
    /\ e \in happened /\ inbox[e] = "NONE"
    /\ inbox' = [inbox EXCEPT ![e] = "RECEIVED"]
    /\ UNCHANGED <<happened, attempts, worker, jobRow, submission, payoutRow, revisions, alerts>>

(* Planning and execution (WorkPlanLifecycle).                             *)
WorkOnJob(to) ==
    /\ jobRow = "AWARDED" /\ to \in {"EXECUTING", "FAILED"} /\ jobRow' = to
    /\ UNCHANGED <<happened, inbox, attempts, worker, submission, payoutRow, revisions, alerts>>

(* submit_qa_passed_job: an active submission keeps a new one out.         *)
PostWork ==
    /\ jobRow = "EXECUTING" /\ submission = "NONE"
    /\ submission' = "SUBMITTING" /\ happened' = happened \cup {"delivered"}
    /\ UNCHANGED <<inbox, attempts, worker, jobRow, payoutRow, revisions, alerts>>
RecordSubmission(status) ==
    /\ submission = "SUBMITTING" /\ status \in {"SUBMITTED", "UNKNOWN_REMOTE_STATE"}
    /\ submission' = status
    /\ IF status = "SUBMITTED" /\ AllowedTransition(jobRow, "SUBMITTED")
       THEN jobRow' = "SUBMITTED" ELSE UNCHANGED jobRow
    /\ UNCHANGED <<happened, inbox, attempts, worker, payoutRow, revisions, alerts>>

-----------------------------------------------------------------------------
(* sync_job, of a job in one of the two states it changes.                 *)

ListActiveJob(w) ==
    /\ worker[w] = FreeWorker /\ jobRow \in {"EXPECTED", "EXECUTING"}
    /\ worker' = [worker EXCEPT ![w].at = "sync", ![w].seen = jobRow]
    /\ UNCHANGED <<happened, inbox, attempts, jobRow, submission, payoutRow, revisions, alerts>>

(* get_status and details_decision.                                        *)
Awarded(w) == "funded" \in happened /\ worker[w].seen = "EXPECTED"
Delivered(w) ==
    /\ "delivered" \in happened /\ worker[w].seen = "EXECUTING"
    /\ {"job.revision_requested", "job.approved"} \cap happened = {}
GetStatus(w) ==
    /\ worker[w].at = "sync"
    /\ IF Awarded(w) THEN Step(w, "award")
       ELSE IF Delivered(w) THEN Step(w, "deliver") ELSE Done(w)
    /\ UNCHANGED <<happened, inbox, attempts, jobRow, submission, payoutRow, revisions, alerts>>

AwardJob(w) ==
    /\ worker[w].at = "award" /\ TransitionJob(w, "AWARDED")
    /\ UNCHANGED <<happened, inbox, attempts, submission, payoutRow, revisions, alerts>>
RecognizeDelivery(w) ==
    /\ worker[w].at = "deliver" /\ TransitionJob(w, "SUBMITTED")
    /\ submission' = IF jobRow' = "SUBMITTED" /\ submission = "UNKNOWN_REMOTE_STATE"
                     THEN "SUBMITTED" ELSE submission
    /\ UNCHANGED <<happened, inbox, attempts, payoutRow, revisions, alerts>>

-----------------------------------------------------------------------------
(* process_webhook_event.  After 300 seconds an event in processing may be *)
(* claimed again, whether its worker is dead or slow.                      *)

ClaimWebhookEvent(w, e) ==
    /\ worker[w] = FreeWorker
    /\ inbox[e] \in {"RECEIVED", "PROCESSING", "FAILED"} /\ attempts[e] < MaxAttempts
    /\ attempts["job.revision_requested"] + attempts["job.approved"]
          + attempts["payment.released"] < MaxHandled
    /\ inbox' = [inbox EXCEPT ![e] = "PROCESSING"]
    /\ attempts' = [attempts EXCEPT ![e] = @ + 1]
    /\ worker' = [worker EXCEPT ![w] = [FreeWorker EXCEPT !.at = "handle", !.event = e, !.seen = jobRow]]
    /\ UNCHANGED <<happened, jobRow, submission, payoutRow, revisions, alerts>>

CreateRevision(w) ==
    /\ In(w, "handle", "job.revision_requested")
    /\ revisions' = revisions \cup {"job.revision_requested"}
    /\ IF worker[w].seen = "SUBMITTED" THEN Step(w, "reopen") ELSE Done(w)
    /\ UNCHANGED <<happened, inbox, attempts, jobRow, submission, payoutRow, alerts>>
ReopenJob(w) ==
    /\ worker[w].at = "reopen" /\ TransitionJob(w, "EXECUTING")
    /\ UNCHANGED <<happened, inbox, attempts, submission, payoutRow, revisions, alerts>>

(* The earnings are asked for; without them, or when the market's payout   *)
(* is not ready, there is an alert instead of a payout.                    *)
AcceptApproved(w, priced) ==
    /\ In(w, "handle", "job.approved")
    /\ IF priced /\ worker[w].seen = "SUBMITTED" THEN Step(w, "earn") /\ UNCHANGED jobRow
       ELSE IF worker[w].seen = "SUBMITTED" THEN TransitionJob(w, "ACCEPTED")
       ELSE Done(w) /\ UNCHANGED jobRow
    /\ alerts' = IF worker'[w].at = "done" THEN alerts \cup {"job.approved"} ELSE alerts
    /\ UNCHANGED <<happened, inbox, attempts, submission, payoutRow, revisions>>

(* _ensure_pending_payout_for_release.                                     *)
Reconcile(w) == alerts' = alerts \cup {worker[w].event} /\ Done(w)
AcceptRelease(w, priced) ==
    /\ In(w, "handle", "payment.released")
    /\ CASE payoutRow = "PAYOUT_PENDING" -> Step(w, "settle") /\ UNCHANGED alerts
         [] payoutRow = "NONE" /\ priced /\ worker[w].seen \in {"SUBMITTED", "ACCEPTED"}
              -> Step(w, "earn") /\ UNCHANGED alerts
         [] payoutRow = "EARNED" /\ priced /\ worker[w].seen = "ACCEPTED"
              -> Step(w, "pend") /\ UNCHANGED alerts
         [] OTHER -> Reconcile(w)
    /\ UNCHANGED <<happened, inbox, attempts, jobRow, submission, payoutRow, revisions>>

(* record_payout_state, as PayoutTreasury has it in full.                  *)
EarnPayout(w) ==
    /\ worker[w].at = "earn"
    /\ IF payoutRow = "EARNED" \/ (payoutRow = "NONE" /\ jobRow \in {"SUBMITTED", "ACCEPTED"})
       THEN /\ payoutRow' = "EARNED"
            /\ jobRow' = IF jobRow = "SUBMITTED" THEN "ACCEPTED" ELSE jobRow
            /\ Step(w, IF worker[w].event = "job.approved" THEN "pend" ELSE "earned")
       ELSE Raise(w) /\ UNCHANGED <<payoutRow, jobRow>>
    /\ UNCHANGED <<happened, inbox, attempts, submission, revisions, alerts>>

(* The job is read again before the release goes on.                       *)
RefreshEarned(w) ==
    /\ worker[w].at = "earned"
    /\ IF jobRow = "ACCEPTED" THEN Step(w, "pend") /\ UNCHANGED alerts ELSE Reconcile(w)
    /\ UNCHANGED <<happened, inbox, attempts, jobRow, submission, payoutRow, revisions>>

PendPayout(w) ==
    /\ worker[w].at = "pend"
    /\ IF payoutRow \in {"EARNED", "PAYOUT_PENDING"} /\ jobRow \in {"ACCEPTED", "PAYOUT_PENDING"}
       THEN /\ payoutRow' = "PAYOUT_PENDING" /\ jobRow' = "PAYOUT_PENDING"
            /\ IF worker[w].event = "job.approved" THEN Done(w) ELSE Step(w, "settle")
       ELSE Raise(w) /\ UNCHANGED <<payoutRow, jobRow>>
    /\ UNCHANGED <<happened, inbox, attempts, submission, revisions, alerts>>

SettlePayout(w) ==
    /\ worker[w].at = "settle"
    /\ IF payoutRow # "NONE" /\ jobRow \in {"ACCEPTED", "PAYOUT_PENDING", "SETTLED"}
       THEN payoutRow' = "SETTLED" /\ jobRow' = "SETTLED" /\ Done(w)
       ELSE Raise(w) /\ UNCHANGED <<payoutRow, jobRow>>
    /\ UNCHANGED <<happened, inbox, attempts, submission, revisions, alerts>>

(* The market does not tell what was earned.                               *)
FailCall(w) ==
    /\ worker[w].at = "handle" /\ worker[w].event # "job.revision_requested"
    /\ Raise(w)
    /\ UNCHANGED <<happened, inbox, attempts, jobRow, submission, payoutRow, revisions, alerts>>

(* _finish_webhook_event.  Mutant: a failure is marked as processed.       *)
AlwaysProcessed(w) == "PROCESSED"
Outcome(w) == IF worker[w].at = "done" THEN "PROCESSED" ELSE "FAILED"
FinishWebhookEvent(w) ==
    /\ worker[w].at \in {"done", "raised"}
    /\ inbox' = [inbox EXCEPT ![worker[w].event] = Outcome(w)]
    /\ worker' = [worker EXCEPT ![w] = FreeWorker]
    /\ UNCHANGED <<happened, attempts, jobRow, submission, payoutRow, revisions, alerts>>

WorkerDies(w) ==
    /\ worker[w] # FreeWorker /\ worker' = [worker EXCEPT ![w] = FreeWorker]
    /\ UNCHANGED <<happened, inbox, attempts, jobRow, submission, payoutRow, revisions, alerts>>

(* recover_persistent_state fails the events it listed, whatever has       *)
(* become of them since.                                                   *)
ReturnStaleEvent(e) ==
    /\ attempts[e] > 0 /\ inbox' = [inbox EXCEPT ![e] = "FAILED"]
    /\ UNCHANGED <<happened, attempts, worker, jobRow, submission, payoutRow, revisions, alerts>>

WorkerStep(w) ==
    \/ ListActiveJob(w) \/ GetStatus(w) \/ AwardJob(w) \/ RecognizeDelivery(w)
    \/ \E e \in Events : ClaimWebhookEvent(w, e)
    \/ CreateRevision(w) \/ ReopenJob(w)
    \/ \E priced \in BOOLEAN : AcceptApproved(w, priced) \/ AcceptRelease(w, priced)
    \/ EarnPayout(w) \/ RefreshEarned(w) \/ PendPayout(w) \/ SettlePayout(w)
    \/ FailCall(w) \/ FinishWebhookEvent(w) \/ WorkerDies(w)

OurWork ==
    \/ \E to \in {"EXECUTING", "FAILED"} : WorkOnJob(to)
    \/ PostWork
    \/ \E status \in {"SUBMITTED", "UNKNOWN_REMOTE_STATE"} : RecordSubmission(status)

WebhookNext ==
    \/ \E w \in Workers : WorkerStep(w)
    \/ \E f \in Events \cup {"funded"} : BuyerActs(f)
    \/ \E e \in Events : ReceiveWebhook(e) \/ ReturnStaleEvent(e)
    \/ OurWork

WebhookSpec == WebhookInit /\ [][WebhookNext]_webhookVars

-----------------------------------------------------------------------------
(* Work that is open has no money recorded for it, whatever order          *)
(* revisions, approvals, releases and polls come in, how often they are    *)
(* handled and however old the row is a handler works on.                  *)
OpenWorkHasNoMoney ==
    jobRow \in {"EXPECTED", "AWARDED", "EXECUTING", "SUBMITTED"} => payoutRow = "NONE"

(* What the market tells of money is not lost: when the event is processed,*)
(* the payout is where it belongs, or the owner has an alert.  And no money*)
(* counts as received before the market released it.                       *)
MoneyEventsAccounted ==
    /\ inbox["job.approved"] = "PROCESSED" =>
          payoutRow \in {"PAYOUT_PENDING", "SETTLED"} \/ "job.approved" \in alerts
    /\ inbox["payment.released"] = "PROCESSED" =>
          payoutRow = "SETTLED" \/ "payment.released" \in alerts
    /\ payoutRow = "SETTLED" => "payment.released" \in happened
=============================================================================
