----------------------------- MODULE GenXCalls -----------------------------
(***************************************************************************)
(* The paid calls of one job to the GenX gateway (gateways/genx/service.py)*)
(* `run` posts a generation and `run_session` a message to a session it    *)
(* made before; both wait for the remote job and apply its outcome.        *)
(* reconcile_pending, run by the watchdog and by an operator's command,    *)
(* resolves what they left.  Every POST, GET and database write is a step  *)
(* of its own, and processes die between them.                             *)
(*                                                                         *)
(* The calls are those of one model and task class, so one ModelStat row.  *)
(* Left out: monetary cost (a valuation of the credits), texts, the audit  *)
(* log and alerts, the limit of reconcile_pending (100, oldest first), the *)
(* sandbox proxy and the operator's evidence commands.                     *)
(***************************************************************************)
EXTENDS Integers, FiniteSets, Functions

CONSTANTS
    Keys,      \* request keys of the job's calls
    KindOf,    \* "generate" or "session", by key
    Estimate,  \* estimated_credits, by key
    JobLimit,  \* JobScore.max_genx_credits
    Charges,   \* what the gateway may charge for a call
    Callers,   \* processes in run or run_session
    Pollers,   \* processes in reconcile_pending
    Watchdogs, \* those of them the watchdog's cycle starts again and again
    NoKey,
    MaxCrashes \* bound: deaths of callers and pollers

ASSUME KeysAssumption ==
    /\ NoKey \notin Keys /\ IsFiniteSet(Keys)
    /\ KindOf \in [Keys -> {"generate", "session"}]
ASSUME CreditsAssumption ==
    /\ Estimate \in [Keys -> Nat \ {0}] /\ JobLimit \in Nat /\ Charges \subseteq Nat
ASSUME CrashesAssumption == MaxCrashes \in Nat /\ Watchdogs \subseteq Pollers

VARIABLES
    calls,   \* GenXCall rows: status, external_job_id, credits, billing_truth
    remote,  \* the gateway: paid POSTs it got, job, what it charged, whether it says so
    stat,    \* ModelStat: attempts and credits
    task,    \* where each caller is
    poll,    \* where each poller is, and the billing_truth it read
    crashes,
    overwritten  \* history: keys whose settled row an except branch wrote over,
                 \* and whose ACTUAL billing_truth an older copy of the metadata did

vars == <<calls, remote, stat, task, poll, crashes, overwritten>>

Settled == {"COMPLETED", "FAILED", "CANCELLED"}
Statuses == {"NONE", "RESERVED", "SUBMITTING", "SUBMITTED", "UNKNOWN_REMOTE_STATE"} \cup Settled
Billings == {"NONE", "PENDING", "UNRESOLVED", "ACTUAL", "NOT_APPLICABLE"}

(* How a request to the gateway fails: 400 or 422; another 4xx but 429; or *)
(* 429, 5xx, the network, a timeout, an answer without an id.              *)
Errors == {"invalid", "client", "other"}

NoPayload == [status |-> "FAILED", known |-> FALSE, credits |-> 0]
Idle == [at |-> "idle", key |-> NoKey, phase |-> "idle", error |-> "other",
         billing |-> "NONE", payload |-> NoPayload]
Resting == [at |-> "idle", key |-> NoKey, billing |-> "NONE", payload |-> NoPayload]

Init ==
    /\ calls = [k \in Keys |-> [status |-> "NONE", ext |-> "none", credits |-> 0,
                                billing |-> "NONE"]]
    /\ remote = [k \in Keys |-> [posts |-> 0, job |-> "none", charged |-> 0, reported |-> FALSE]]
    /\ stat = [attempts |-> 0, credits |-> 0]
    /\ task = [c \in Callers |-> Idle]
    /\ poll = [d \in Pollers |-> Resting]
    /\ crashes = 0
    /\ overwritten = [rows |-> {}, billing |-> {}]

Goto(c, place) == task' = [task EXCEPT ![c].at = place]
Raise(c, error) ==
    task' = [task EXCEPT ![c] = [@ EXCEPT !.at = "raised", !.phase = task[c].at, !.error = error]]

-----------------------------------------------------------------------------
(* Mutant: only what is charged already counts.                            *)
ChargedOnly(k) == calls[k].credits

(* effective_reserved_credits, for one row.                                *)
Reserved(k) ==
    IF calls[k].status \in {"NONE", "FAILED", "CANCELLED"} THEN 0
    ELSE IF calls[k].billing = "ACTUAL" \/ calls[k].credits > 0 THEN calls[k].credits
    ELSE Estimate[k]

(* Mutant: a call that was not SUBMITTED is taken for one never begun.     *)
NotSubmitted(k) == calls[k].status \in {"NONE", "RESERVED", "SUBMITTING"}
Fresh(k) == calls[k].status = "NONE"

(* _reserve_call, under the lock of the job; an existing key is returned   *)
(* as it is.                                                               *)
ReserveCall(c, k) ==
    /\ task[c] = Idle /\ Fresh(k)
    /\ SumFunction([j \in Keys |-> Reserved(j)]) + Estimate[k] <= JobLimit
    /\ calls' = [calls EXCEPT ![k].status = "RESERVED"]
    /\ task' = [task EXCEPT ![c] = [Idle EXCEPT !.at = "reserved", !.key = k]]
    /\ UNCHANGED <<remote, stat, poll, crashes, overwritten>>

StartSubmission(c) ==
    LET k == task[c].key
    IN  /\ task[c].at = "reserved"
        /\ calls' = [calls EXCEPT ![k].status = "SUBMITTING"]
        /\ Goto(c, IF KindOf[k] = "session" THEN "create" ELSE "post")
        /\ UNCHANGED <<remote, stat, poll, crashes, overwritten>>

(* A session alone leaves the call where it was.                           *)
SessionStatus == "SUBMITTING"

(* create_session costs nothing; its id is written before the message.     *)
CreateSession(c) ==
    /\ task[c].at = "create"
    /\ \/ Goto(c, "created")
       \/ \E error \in Errors : Raise(c, error)
    /\ UNCHANGED <<calls, remote, stat, poll, crashes, overwritten>>

RecordSession(c) ==
    LET k == task[c].key
    IN  /\ task[c].at = "created"
        /\ calls' = [calls EXCEPT ![k].ext = "session", ![k].status = SessionStatus,
                                  ![k].billing = "PENDING"]
        /\ Goto(c, "post")
        /\ UNCHANGED <<remote, stat, poll, crashes, overwritten>>

(* Errors that do not tell whether the work was begun: a message carries an*)
(* idempotency key, and a conflict may be about work that runs.            *)
Ambiguous(k) == IF KindOf[k] = "session" THEN {"client", "other"} ELSE {"other"}

(* The paid POST (generate or session_message), sent once.                 *)
PostWork(c) ==
    LET k == task[c].key
        Sent(job) == remote' = [remote EXCEPT ![k].posts = @ + 1, ![k].job = job]
    IN  /\ task[c].at = "post"
        /\ \/ Sent("running") /\ Goto(c, "posted")
           \/ \E error \in Ambiguous(k) : Sent("running") /\ Raise(c, error)
           \/ \E error \in Errors : Sent(remote[k].job) /\ Raise(c, error)
        /\ UNCHANGED <<calls, stat, poll, crashes, overwritten>>

RecordJob(c) ==
    LET k == task[c].key
        billing == IF KindOf[k] = "session" THEN "PENDING" ELSE calls[k].billing
    IN  /\ task[c].at = "posted"
        /\ calls' = [calls EXCEPT ![k].ext = "job", ![k].status = "SUBMITTED",
                                  ![k].billing = billing]
        /\ Goto(c, "wait")
        /\ UNCHANGED <<remote, stat, poll, crashes, overwritten>>

(* What a GET of the remote job shows.                                     *)
Payload(k) ==
    [status |-> remote[k].job, known |-> remote[k].reported,
     credits |-> IF remote[k].reported THEN remote[k].charged ELSE 0]

(* client.wait: the job ended, or time or the gateway ran out.             *)
Wait(c) ==
    /\ task[c].at = "wait"
    /\ \/ /\ remote[task[c].key].job \in Settled
          /\ task' = [task EXCEPT ![c].at = "apply", ![c].payload = Payload(task[c].key)]
       \/ \E error \in {"client", "other"} : Raise(c, error)
    /\ UNCHANGED <<calls, remote, stat, poll, crashes, overwritten>>

-----------------------------------------------------------------------------
(* Mutant: no usage is taken for zero usage.                               *)
ZeroIfMissing(k, p) == "ACTUAL"

(* billing_truth after the evidence p of a job that ended.                 *)
BillingAfter(k, p) ==
    IF p.known \/ calls[k].billing = "ACTUAL" THEN "ACTUAL"
    ELSE IF p.status = "FAILED" THEN "NOT_APPLICABLE" ELSE "UNRESOLVED"

CreditsAfter(k, p) ==
    IF p.known THEN p.credits
    ELSE IF BillingAfter(k, p) = "NOT_APPLICABLE" THEN 0 ELSE calls[k].credits

(* The first evidence adds an attempt; what comes later corrects credits.  *)
FirstEvidence(k) == calls[k].status \notin Settled

(* reconcile_remote_job_payload, one transaction under the row lock.       *)
Reconcile(k, p) ==
    LET new == IF FirstEvidence(k) THEN p.credits ELSE p.credits - calls[k].credits
    IN  /\ calls' = [calls EXCEPT ![k].status = p.status, ![k].billing = BillingAfter(k, p),
                                  ![k].credits = CreditsAfter(k, p)]
        /\ stat' = [attempts |-> stat.attempts + (IF FirstEvidence(k) THEN 1 ELSE 0),
                    credits |-> stat.credits + (IF p.known THEN new ELSE 0)]

Apply(c) ==
    LET k == task[c].key
    IN  /\ task[c].at = "apply"
        /\ Reconcile(k, task[c].payload)
        /\ task' = [task EXCEPT ![c] =
                       IF KindOf[k] = "session"
                       THEN [@ EXCEPT !.at = "text", !.billing = BillingAfter(k, task[c].payload)]
                       ELSE Idle]
        /\ UNCHANGED <<remote, poll, crashes, overwritten>>

(* Metadata read before are written back; the row may say ACTUAL by now.   *)
Replaced(k, billing) == IF calls[k].billing = "ACTUAL" /\ billing # "ACTUAL" THEN {k} ELSE {}
WriteBack(k, billing) ==
    /\ calls' = [calls EXCEPT ![k].billing = billing]
    /\ overwritten' = [overwritten EXCEPT !.billing = @ \cup Replaced(k, billing)]

(* run_session stores the answer with the metadata of its reconciliation,  *)
(* or found none.                                                          *)
PersistText(c) ==
    LET k == task[c].key
    IN  /\ task[c].at = "text"
        /\ WriteBack(k, task[c].billing) \/ UNCHANGED <<calls, overwritten>>
        /\ task' = [task EXCEPT ![c] = Idle]
        /\ UNCHANGED <<remote, stat, poll, crashes>>

(* What proves that nothing was begun.                                     *)
ConfirmedRejection(k, phase, error) ==
    IF KindOf[k] = "generate"
    THEN error \in {"invalid", "client"} /\ calls[k].ext = "none"
    ELSE \/ phase = "create" /\ error \in {"invalid", "client"}
         \/ phase = "post" /\ error = "invalid"

(* The except branch writes over whatever the row says by now; `run` with  *)
(* the metadata of the reservation.                                        *)
WriteFailure(c) ==
    LET k == task[c].key
        billing == IF KindOf[k] = "generate" THEN "NONE" ELSE calls[k].billing
    IN  /\ task[c].at = "raised"
        /\ IF ConfirmedRejection(k, task[c].phase, task[c].error)
           THEN calls' = [calls EXCEPT ![k].status = "FAILED", ![k].billing = "NOT_APPLICABLE"]
           ELSE calls' = [calls EXCEPT ![k].status = "UNKNOWN_REMOTE_STATE",
                                       ![k].billing = billing]
        /\ overwritten' = [overwritten EXCEPT !.rows =
               @ \cup (IF calls[k].status \in Settled THEN {k} ELSE {})]
        /\ task' = [task EXCEPT ![c] = Idle]
        /\ UNCHANGED <<remote, stat, poll, crashes>>

-----------------------------------------------------------------------------
(* Mutant: only submitted calls are looked at.                             *)
OnlySubmitted(k) == calls[k].status = "SUBMITTED"

(* The candidates of reconcile_pending.                                    *)
Pending(k) ==
    \/ calls[k].status \in {"SUBMITTED", "UNKNOWN_REMOTE_STATE"}
    \/ calls[k].status = "COMPLETED" /\ calls[k].billing = "UNRESOLVED"

(* It takes up a row as it read it; without an id there is nothing to ask. *)
PollCall(d, k) ==
    /\ poll[d] = Resting /\ Pending(k) /\ calls[k].ext # "none"
    /\ poll' = [poll EXCEPT ![d] =
                   [Resting EXCEPT !.key = k, !.billing = calls[k].billing,
                                   !.at = IF calls[k].ext = "job" THEN "fetch" ELSE "discover"]]
    /\ UNCHANGED <<calls, remote, stat, task, crashes, overwritten>>

(* The session's history names the job; the metadata read before is        *)
(* written back with it.                                                   *)
DiscoverJob(d) ==
    LET k == poll[d].key
    IN  /\ poll[d].at = "discover" /\ remote[k].job # "none"
        /\ calls' = [calls EXCEPT ![k].ext = "job", ![k].billing = poll[d].billing]
        /\ overwritten' = [overwritten EXCEPT !.billing = @ \cup Replaced(k, poll[d].billing)]
        /\ poll' = [poll EXCEPT ![d].at = "fetch"]
        /\ UNCHANGED <<remote, stat, task, crashes>>

FetchJob(d) ==
    LET k == poll[d].key
    IN  /\ poll[d].at = "fetch" /\ remote[k].job \in Settled
        /\ poll' = [poll EXCEPT ![d].at = "apply", ![d].payload = Payload(k)]
        /\ UNCHANGED <<calls, remote, stat, task, crashes, overwritten>>

(* No answer, no single job in the history, or a job that still runs.      *)
PollLater(d) ==
    /\ poll[d].at \in {"discover", "fetch"}
    /\ poll' = [poll EXCEPT ![d] = Resting]
    /\ UNCHANGED <<calls, remote, stat, task, crashes, overwritten>>

ApplyPolled(d) ==
    LET k == poll[d].key
    IN  /\ poll[d].at = "apply"
        /\ Reconcile(k, poll[d].payload)
        /\ poll' = [poll EXCEPT ![d] =
                       IF KindOf[k] = "session"
                       THEN [@ EXCEPT !.at = "text", !.billing = BillingAfter(k, poll[d].payload)]
                       ELSE Resting]
        /\ UNCHANGED <<remote, task, crashes, overwritten>>

PersistPolledText(d) ==
    LET k == poll[d].key
    IN  /\ poll[d].at = "text"
        /\ WriteBack(k, poll[d].billing) \/ UNCHANGED <<calls, overwritten>>
        /\ poll' = [poll EXCEPT ![d] = Resting]
        /\ UNCHANGED <<remote, stat, task, crashes>>

-----------------------------------------------------------------------------
(* The gateway ends a job and charges for it, and may report that later.   *)
RemoteEnds(k) ==
    /\ remote[k].job = "running"
    /\ \E status \in Settled, charged \in Charges :
           remote' = [remote EXCEPT ![k].job = status, ![k].charged = charged]
    /\ UNCHANGED <<calls, stat, task, poll, crashes, overwritten>>

RemoteReports(k) ==
    /\ remote[k].job \in Settled /\ ~remote[k].reported
    /\ remote' = [remote EXCEPT ![k].reported = TRUE]
    /\ UNCHANGED <<calls, stat, task, poll, crashes, overwritten>>

Crash ==
    /\ crashes < MaxCrashes
    /\ crashes' = crashes + 1
    /\ \/ \E c \in Callers : task[c] # Idle /\ task' = [task EXCEPT ![c] = Idle] /\ UNCHANGED poll
       \/ \E d \in Pollers : poll[d] # Resting /\ poll' = [poll EXCEPT ![d] = Resting]
                             /\ UNCHANGED task
    /\ UNCHANGED <<calls, remote, stat, overwritten>>

Caller(c) ==
    \/ \E k \in Keys : ReserveCall(c, k)
    \/ StartSubmission(c) \/ CreateSession(c) \/ RecordSession(c) \/ PostWork(c) \/ RecordJob(c)
    \/ Wait(c) \/ Apply(c) \/ PersistText(c) \/ WriteFailure(c)

Poller(d) ==
    \/ \E k \in Keys : PollCall(d, k)
    \/ DiscoverJob(d) \/ FetchJob(d) \/ PollLater(d) \/ ApplyPolled(d) \/ PersistPolledText(d)

Next ==
    \/ \E c \in Callers : Caller(c)
    \/ \E d \in Pollers : Poller(d)
    \/ \E k \in Keys : RemoteEnds(k) \/ RemoteReports(k)
    \/ Crash

Spec == Init /\ [][Next]_vars

(* The watchdog's cycle takes up every candidate again and again, goes on  *)
(* with what it took up, and the gateway answers for each now and then.    *)
FairSpec ==
    /\ Spec
    /\ \A d \in Watchdogs :
           /\ WF_vars(Poller(d))
           /\ \A k \in Keys : /\ SF_vars(PollCall(d, k))
                             /\ SF_vars(DiscoverJob(d) /\ poll[d].key = k)
                             /\ SF_vars(FetchJob(d) /\ poll[d].key = k)

-----------------------------------------------------------------------------
Payloads == [status : Settled, known : BOOLEAN, credits : Nat]
Places == {"idle", "reserved", "create", "created", "post", "posted", "wait", "apply", "text",
           "raised"}

TypeOK ==
    /\ calls \in [Keys -> [status : Statuses, ext : {"none", "session", "job"}, credits : Nat,
                           billing : Billings]]
    /\ \A k \in Keys : calls[k].status = "SUBMITTED" => calls[k].ext = "job"
    /\ remote \in [Keys -> [posts : Nat, job : {"none", "running"} \cup Settled,
                            charged : Nat, reported : BOOLEAN]]
    /\ stat \in [attempts : Nat, credits : Int]
    /\ task \in [Callers -> [at : Places, key : Keys \cup {NoKey},
                             phase : Places, error : Errors, billing : Billings,
                             payload : Payloads]]
    /\ poll \in [Pollers -> [at : {"idle", "discover", "fetch", "apply", "text"},
                             key : Keys \cup {NoKey}, billing : Billings, payload : Payloads]]
    /\ \A c \in Callers : task[c].at # "idle" => task[c].key \in Keys
    /\ \A d \in Pollers : poll[d].at # "idle" => poll[d].key \in Keys
    /\ crashes \in Nat /\ overwritten \in [rows : SUBSET Keys, billing : SUBSET Keys]

(* README.md:42 "reconciled without replaying the paid POST": no request   *)
(* key is ever paid for twice, by whichever callers, and whoever dies.     *)
OnePaidPost == \A k \in Keys : remote[k].posts <= 1

(* service.py:409 "Only a confirmed 4xx rejection before a remote job id   *)
(* exists is treated as FAILED": a call whose reservation is given back    *)
(* has no work running or done for it.                                     *)
FailedCallHasNoWork ==
    \A k \in Keys : calls[k].status = "FAILED" => remote[k].job \in {"none", "FAILED"}

(* The job's credit budget covers what the gateway was asked to do: the    *)
(* estimates of all work that runs, and of work that is done what it cost, *)
(* up to its estimate, however often estimates gave way to charges.        *)
Exposure(k) ==
    CASE remote[k].job = "running" -> Estimate[k]
      [] remote[k].job = "COMPLETED" ->
             IF remote[k].charged < Estimate[k] THEN remote[k].charged ELSE Estimate[k]
      [] OTHER -> 0
BudgetCoversWork == SumFunction([k \in Keys |-> Exposure(k)]) <= JobLimit

(* README.md:42 "Missing usage remains billing_truth=UNRESOLVED": credits  *)
(* are called ACTUAL, and not 0, only as the gateway reported them, and not*)
(* applicable only when nothing was done.  The credits of failed work may  *)
(* be gone where an older copy of the metadata replaced its evidence.      *)
CreditsAreReported ==
    \A k \in Keys :
        /\ calls[k].billing = "ACTUAL" \/ calls[k].credits > 0 =>
              /\ remote[k].reported
              /\ \/ calls[k].credits = remote[k].charged
                 \/ k \in overwritten.billing /\ remote[k].job = "FAILED"
        /\ calls[k].billing = "NOT_APPLICABLE" => remote[k].job \in {"none", "FAILED"}

(* service.py:827 "Idempotently apply authoritative remote execution and   *)
(* billing evidence": with callers and pollers applying it in any order,   *)
(* each job counts once as long as no except branch wrote over a settled   *)
(* row, and with its credits as long as no older metadata replaced its     *)
(* evidence either.                                                        *)
Counted == {k \in Keys : calls[k].ext = "job" /\ calls[k].status \in Settled}
EvidenceCountsOnce ==
    overwritten.rows = {} =>
        /\ stat.attempts = Cardinality(Counted)
        /\ overwritten.billing = {} =>
              stat.credits = SumFunctionOnSet([k \in Keys |-> calls[k].credits], Counted)

(* What is booked for paid calls is what the gateway reported, once each.  *)
BillingIsEvidence == CreditsAreReported /\ EvidenceCountsOnce

(* README.md:42 "becomes UNKNOWN_REMOTE_STATE and is reconciled": a call   *)
(* that left an id is settled in the end, if its job ends and, where only  *)
(* the session is known, the job answered.                                 *)
Left(k) ==
    /\ calls[k].status \in {"SUBMITTED", "UNKNOWN_REMOTE_STATE"}
    /\ \/ calls[k].ext = "job" /\ remote[k].job \in Settled
       \/ calls[k].ext = "session" /\ remote[k].job = "COMPLETED"
KnownCallIsSettled == \A k \in Keys : Left(k) ~> calls[k].status \in Settled
=============================================================================
