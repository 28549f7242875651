-------------------------- MODULE WorkPlanLifecycle --------------------------
(***************************************************************************)
(* The life of one awarded marketplace job: its WorkPlan, Executions and   *)
(* Submissions, from planning to delivery (planning/services.py,           *)
(* planning/retry.py, control/services/execution.py, submission.py and the *)
(* job part of recovery.py).  Jobs share no row, so one job is enough.     *)
(*                                                                         *)
(* The processes are the RQ workers, the revenue watcher, the watchdog and *)
(* an operator.  Every database transaction, redis enqueue and marketplace *)
(* call is a step of its own, and a process may die between two of them.   *)
(* A job lock of the same node never refuses (see JobLock), so losing its  *)
(* lease is here one of the ways an execution fails.                       *)
(***************************************************************************)
EXTENDS Naturals, Sequences

CONSTANTS
    Workers,      \* RQ worker processes
    Watcher,      \* run_revenue_watcher
    Operator,     \* a person at the retry_failed_workplan command
    MaxRepairs,   \* WorkPlan.max_repair_attempts
    MaxReopens,   \* bound: operator retries
    MaxCrashes,   \* bound: processes that die
    MaxQueued     \* bound: copies of one task in a redis list

ASSUME BoundsAssumption ==
    MaxRepairs \in Nat /\ MaxReopens \in Nat /\ MaxCrashes \in Nat /\ MaxQueued \in Nat
ASSUME ProcsAssumption == Watcher \notin Workers /\ Operator \notin Workers
                          /\ Watcher # Operator

VARIABLES
    job,          \* Job.state; AWARDED stands for CLAIMED too, ACCEPTED for the
                  \* payout states, which PayoutTreasury models
    plan,         \* WorkPlan.status and repair_attempts
    executions,   \* Execution rows by attempt
    submissions,  \* Submission rows in the order of their creation
    queue,        \* tasks waiting in redis
    remote,       \* the marketplace: status of the job, POSTs it took, events sent
    task,         \* what each process is in the middle of
    watch,        \* what the watchdog read and is about to write
    reopened, crashes

vars == <<job, plan, executions, submissions, queue, remote, task, watch,
          reopened, crashes>>

Procs == Workers \cup {Watcher, Operator}

PlanStatuses == {"NONE", "BLOCKED", "READY", "QUEUED", "EXECUTING", "NEEDS_REPAIR",
                 "QA_PASSED", "SUBMITTING", "SUBMISSION_RECONCILIATION",
                 "SUBMITTED", "FAILED"}
ExecutionStatuses == {"EXECUTING", "QA_PASSED", "NEEDS_REPAIR", "FAILED"}
ActiveSubmission == {"SUBMITTING", "UNKNOWN_REMOTE_STATE", "SUBMITTED"}
Steps == {"idle", "start", "run", "evaluate", "report", "fail",
          "enqueueExecute", "markQueued", "enqueueSubmit", "markSubmitting",
          "open", "look", "create", "post", "record", "transition", "submitted",
          "unknown", "submitFailed", "sync"}

Idle == [step |-> "idle", repair |-> FALSE, attempt |-> 0, version |-> 0]
Watching == [step |-> "idle", next |-> "NONE", version |-> 0]

SetPlan(status) == plan' = [plan EXCEPT !.status = status]
Goto(p, step) == task' = [task EXCEPT ![p] = [@ EXCEPT !.step = step]]
Finish(p) == task' = [task EXCEPT ![p] = Idle]
Push(name) == queue' = [queue EXCEPT ![name] = @ + 1]
Pop(name) == queue[name] > 0 /\ queue' = [queue EXCEPT ![name] = @ - 1]

Init ==
    /\ job = "AWARDED"
    /\ plan = [status |-> "NONE", repairs |-> 0]
    /\ executions = <<>>
    /\ submissions = <<>>
    /\ queue = [execute |-> 0, submit |-> 0]
    /\ remote = [status |-> "in_progress", posts |-> 0, events |-> {}]
    /\ task = [p \in Procs |-> Idle]
    /\ watch = Watching
    /\ reopened = 0
    /\ crashes = 0

-----------------------------------------------------------------------------
(* Planning and the queue.                                                 *)

(* Statuses plan_awarded_job returns unchanged.                            *)
Planned == {"SUBMITTED", "QA_PASSED", "SUBMITTING", "SUBMISSION_RECONCILIATION",
            "EXECUTING", "QUEUED", "FAILED"}

(* dispatch_awarded_jobs on an acquired job: plan_awarded_job plans it     *)
(* afresh (inputs and policy decide whether it is READY) and a READY plan  *)
(* goes to _queue_execution.                                               *)
PlanAwardedJob(status) ==
    /\ task[Watcher].step = "idle" /\ job = "AWARDED"
    /\ plan.status \notin Planned
    /\ SetPlan(status)
    /\ IF status = "READY" THEN Goto(Watcher, "enqueueExecute") ELSE Finish(Watcher)
    /\ UNCHANGED <<job, executions, submissions, queue, remote, watch, reopened, crashes>>

(* _queue_execution: admission may deny, redis may fail.                   *)
EnqueueExecute(p) ==
    /\ task[p].step = "enqueueExecute"
    /\ \/ SetPlan("BLOCKED") /\ Finish(p) /\ UNCHANGED queue
       \/ Finish(p) /\ UNCHANGED <<plan, queue>>
       \/ queue.execute < MaxQueued /\ Push("execute") /\ Goto(p, "markQueued")
          /\ UNCHANGED plan
    /\ UNCHANGED <<job, executions, submissions, remote, watch, reopened, crashes>>

(* Its last statement: only a plan still READY or NEEDS_REPAIR is QUEUED.  *)
MarkQueued(p) ==
    /\ task[p].step = "markQueued"
    /\ IF plan.status \in {"READY", "NEEDS_REPAIR"}
       THEN SetPlan("QUEUED") ELSE UNCHANGED plan
    /\ Finish(p)
    /\ UNCHANGED <<job, executions, submissions, queue, remote, watch, reopened, crashes>>

(* dispatch_awarded_jobs and _queue_submission.                            *)
OfferSubmission ==
    /\ task[Watcher].step = "idle" /\ plan.status = "QA_PASSED"
    /\ Goto(Watcher, "enqueueSubmit")
    /\ UNCHANGED <<job, plan, executions, submissions, queue, remote, watch, reopened, crashes>>

EnqueueSubmit(p) ==
    /\ task[p].step = "enqueueSubmit"
    /\ \/ Finish(p) /\ UNCHANGED queue
       \/ queue.submit < MaxQueued /\ Push("submit") /\ Goto(p, "markSubmitting")
    /\ UNCHANGED <<job, plan, executions, submissions, remote, watch, reopened, crashes>>

MarkSubmitting(p) ==
    /\ task[p].step = "markSubmitting"
    /\ IF plan.status = "QA_PASSED" THEN SetPlan("SUBMITTING") ELSE UNCHANGED plan
    /\ Finish(p)
    /\ UNCHANGED <<job, executions, submissions, queue, remote, watch, reopened, crashes>>

-----------------------------------------------------------------------------
(* execute_work_plan in a worker.                                          *)

(* A repair is refused at its limit, and counted.                          *)
RepairAllowed(repair) == repair => plan.repairs < MaxRepairs

RepairsAfter(repair) == plan.repairs + IF repair THEN 1 ELSE 0

(* The first transaction: drop, block (policy, repair limit or budget) or  *)
(* take the plan.                                                          *)
PopExecute(w) ==
    LET repair == plan.status = "NEEDS_REPAIR"
    IN  /\ task[w].step = "idle" /\ Pop("execute")
        /\ \/ plan.status \notin {"READY", "QUEUED", "NEEDS_REPAIR"}
              /\ UNCHANGED <<plan, task>>
           \/ plan.status \in {"READY", "QUEUED", "NEEDS_REPAIR"}
              /\ SetPlan("BLOCKED") /\ UNCHANGED task
           \/ /\ plan.status \in {"READY", "QUEUED", "NEEDS_REPAIR"}
              /\ RepairAllowed(repair)
              /\ plan' = [status |-> "EXECUTING", repairs |-> RepairsAfter(repair)]
              /\ task' = [task EXCEPT ![w] = [Idle EXCEPT !.step = "start", !.repair = repair]]
    /\ UNCHANGED <<job, executions, submissions, remote, watch, reopened, crashes>>

(* execute_registered_job up to the Execution row.  A job in another state,*)
(* a policy, admission or input error raises before there is one.          *)
StartExecution(w) ==
    /\ task[w].step = "start"
    /\ \/ Goto(w, "fail") /\ UNCHANGED <<job, executions>>
       \/ /\ job = "AWARDED" \/ (task[w].repair /\ job = "EXECUTING")
          /\ executions' = Append(executions, [status |-> "EXECUTING", ready |-> "none"])
          /\ job' = "EXECUTING"
          /\ task' = [task EXCEPT ![w] = [@ EXCEPT !.step = "run",
                                                   !.attempt = Len(executions) + 1]]
    /\ UNCHANGED <<plan, submissions, queue, remote, watch, reopened, crashes>>

SetExecution(w, status, ready) ==
    executions' = [executions EXCEPT ![task[w].attempt] = [status |-> status, ready |-> ready]]

(* The except branch: a running execution fails, and so does the job.      *)
FailExecution(w) ==
    LET e == executions[task[w].attempt]
    IN  /\ SetExecution(w, IF e.status = "EXECUTING" THEN "FAILED" ELSE e.status, e.ready)
        /\ job' = IF job = "EXECUTING" THEN "FAILED" ELSE job
        /\ Goto(w, "fail")

(* The worker code runs, the lease is renewed and QA writes its verdict;   *)
(* any of it may raise.                                                    *)
RunExecution(w) ==
    /\ task[w].step = "run"
    /\ \/ FailExecution(w)
       \/ \E verdict \in {"QA_PASSED", "NEEDS_REPAIR"} :
              SetExecution(w, verdict, "none") /\ Goto(w, "evaluate") /\ UNCHANGED job
    /\ UNCHANGED <<plan, submissions, queue, remote, watch, reopened, crashes>>

(* The final status: QA passed and the acceptance contract is met.         *)
FinalStatus(qa, ready) == IF qa = "QA_PASSED" /\ ready = "yes" THEN "QA_PASSED" ELSE "NEEDS_REPAIR"

(* finalize_successful_execution: evaluate_execution_acceptance, which     *)
(* needs a passed QA result to be ready, then the final status.            *)
EvaluateAcceptance(w) ==
    LET qa == executions[task[w].attempt].status
    IN  /\ task[w].step = "evaluate"
        /\ \/ FailExecution(w)
           \/ \E ready \in {"yes", "no"} :
                  /\ ready = "yes" => qa = "QA_PASSED"
                  /\ SetExecution(w, FinalStatus(qa, ready), ready)
                  /\ Goto(w, "report") /\ UNCHANGED job
    /\ UNCHANGED <<plan, submissions, queue, remote, watch, reopened, crashes>>

(* execute_work_plan after the call returned or raised.                    *)
ReportExecution(w) ==
    /\ task[w].step = "report"
    /\ CASE executions[task[w].attempt].status = "QA_PASSED" ->
              SetPlan("QA_PASSED") /\ Goto(w, "enqueueSubmit")
         [] executions[task[w].attempt].status = "NEEDS_REPAIR"
            /\ plan.repairs >= MaxRepairs -> SetPlan("BLOCKED") /\ Finish(w)
         [] executions[task[w].attempt].status = "NEEDS_REPAIR"
            /\ plan.repairs < MaxRepairs ->
              SetPlan("NEEDS_REPAIR") /\ Goto(w, "enqueueExecute")
         [] OTHER -> UNCHANGED plan /\ Finish(w)
    /\ UNCHANGED <<job, executions, submissions, queue, remote, watch, reopened, crashes>>

ReportFailure(w) ==
    /\ task[w].step = "fail"
    /\ SetPlan("FAILED") /\ Finish(w)
    /\ UNCHANGED <<job, executions, submissions, queue, remote, watch, reopened, crashes>>

-----------------------------------------------------------------------------
(* submit_work_plan in a worker.                                           *)
PopSubmit(w) ==
    /\ task[w].step = "idle" /\ Pop("submit")
    /\ IF plan.status \in {"QA_PASSED", "SUBMITTING"} THEN Goto(w, "open") ELSE UNCHANGED task
    /\ UNCHANGED <<job, plan, executions, submissions, remote, watch, reopened, crashes>>

Recorded == \E v \in DOMAIN submissions : submissions[v].status = "SUBMITTED"
PassedExecutions == {a \in DOMAIN executions : executions[a].status = "QA_PASSED"}

(* Mutant: order_by("attempt").                                            *)
FirstPassed == CHOOSE a \in PassedExecutions : \A b \in PassedExecutions : a <= b
LatestPassed == CHOOSE a \in PassedExecutions : \A b \in PassedExecutions : b <= a

(* submit_qa_passed_job before its transaction: a recorded delivery is     *)
(* returned; policy, job state, QA and the acceptance gate may refuse.     *)
OpenSubmission(w) ==
    /\ task[w].step = "open"
    /\ IF job = "SUBMITTED" /\ Recorded
       THEN Goto(w, "submitted") /\ UNCHANGED executions
       ELSE \/ Goto(w, "submitFailed") /\ UNCHANGED executions
            \/ \E verdict \in {"yes", "no"} :
                 /\ job = "EXECUTING" /\ PassedExecutions # {}
                 /\ executions[LatestPassed].ready \in {"none", verdict}
                 /\ executions' = [executions EXCEPT ![LatestPassed].ready = verdict]
                 /\ task' = [task EXCEPT ![w] =
                        [@ EXCEPT !.step = IF verdict = "yes" THEN "look" ELSE "submitFailed",
                                  !.attempt = LatestPassed]]
    /\ UNCHANGED <<job, plan, submissions, queue, remote, watch, reopened, crashes>>

(* Mutant: only a recorded submission counts as active.                    *)
RecordedOnly == {v \in DOMAIN submissions : submissions[v].status = "SUBMITTED"}
Active == {v \in DOMAIN submissions : submissions[v].status \in ActiveSubmission}

(* The transaction looks for an active submission.  There is no row to lock*)
(* when there is none, and version is not unique: another worker may look  *)
(* before this one's row is committed.                                     *)
LookForSubmission(w) ==
    /\ task[w].step = "look"
    /\ IF Active = {} THEN Goto(w, "create")
       ELSE IF \E v \in Active : submissions[v].status = "SUBMITTED"
       THEN Goto(w, "submitted") ELSE Goto(w, "submitFailed")
    /\ UNCHANGED <<job, plan, executions, submissions, queue, remote, watch, reopened, crashes>>

CreateSubmission(w) ==
    /\ task[w].step = "create"
    /\ submissions' = Append(submissions, [status |-> "SUBMITTING", attempt |-> task[w].attempt])
    /\ task' = [task EXCEPT ![w] = [@ EXCEPT !.step = "post", !.version = Len(submissions) + 1]]
    /\ UNCHANGED <<job, plan, executions, queue, remote, watch, reopened, crashes>>

(* adapter.submit: the POST is lost, its answer is lost, or it succeeds.   *)
PostSubmission(w) ==
    /\ task[w].step = "post"
    /\ \/ Goto(w, "unknown") /\ UNCHANGED remote
       \/ /\ remote' = [remote EXCEPT !.posts = @ + 1, !.status = "delivered"]
          /\ Goto(w, "unknown") \/ Goto(w, "record")
    /\ UNCHANGED <<job, plan, executions, submissions, queue, watch, reopened, crashes>>

RecordSubmission(w) ==
    /\ task[w].step = "record"
    /\ submissions' = [submissions EXCEPT ![task[w].version].status = "SUBMITTED"]
    /\ Goto(w, "transition")
    /\ UNCHANGED <<job, plan, executions, queue, remote, watch, reopened, crashes>>

(* transition_job raises unless the job may become SUBMITTED.              *)
TransitionSubmitted(w) ==
    /\ task[w].step = "transition"
    /\ IF job \in {"EXECUTING", "SUBMITTED"}
       THEN job' = "SUBMITTED" /\ Goto(w, "submitted")
       ELSE Goto(w, "submitFailed") /\ UNCHANGED job
    /\ UNCHANGED <<plan, executions, submissions, queue, remote, watch, reopened, crashes>>

(* The except branch of submit_qa_passed_job.                              *)
MarkUnknown(w) ==
    /\ task[w].step = "unknown"
    /\ submissions' = [submissions EXCEPT ![task[w].version].status = "UNKNOWN_REMOTE_STATE"]
    /\ Goto(w, "submitFailed")
    /\ UNCHANGED <<job, plan, executions, queue, remote, watch, reopened, crashes>>

Unresolved == \E v \in DOMAIN submissions : submissions[v].status = "UNKNOWN_REMOTE_STATE"

(* submit_work_plan after the call returned or raised: unconditional saves.*)
ReportSubmission(w) ==
    /\ \/ task[w].step = "submitted" /\ SetPlan("SUBMITTED")
       \/ task[w].step = "submitFailed" /\ Unresolved /\ SetPlan("SUBMISSION_RECONCILIATION")
       \/ task[w].step = "submitFailed" /\ ~Unresolved /\ SetPlan("FAILED")
    /\ Finish(w)
    /\ UNCHANGED <<job, executions, submissions, queue, remote, watch, reopened, crashes>>

-----------------------------------------------------------------------------
(* The marketplace and what the watcher learns from it.                    *)
RemoteDecides(event) ==
    /\ remote.status = "delivered"
    /\ remote' = [remote EXCEPT !.status = event, !.events = @ \cup {event}]
    /\ UNCHANGED <<job, plan, executions, submissions, queue, task, watch, reopened, crashes>>

(* process_webhook_event: a revision reopens, an approval accepts, SUBMITTED*)
(* work; for a job in another state the event is only recorded.            *)
ProcessWebhook(event) ==
    /\ event \in remote.events
    /\ remote' = [remote EXCEPT !.events = @ \ {event}]
    /\ job' = CASE job = "SUBMITTED" /\ event = "revision" -> "EXECUTING"
                [] job = "SUBMITTED" /\ event = "approved" -> "ACCEPTED"
                [] OTHER -> job
    /\ UNCHANGED <<plan, executions, submissions, queue, task, watch, reopened, crashes>>

(* sync_job: the job was read EXECUTING and get_status says delivered.     *)
SeeDelivered ==
    /\ task[Watcher].step = "idle" /\ job = "EXECUTING" /\ remote.status = "delivered"
    /\ Goto(Watcher, "sync")
    /\ UNCHANGED <<job, plan, executions, submissions, queue, remote, watch, reopened, crashes>>

(* Mutant: only the submission row is corrected.                           *)
SyncSubmissionOnly ==
    /\ task[Watcher].step = "sync"
    /\ submissions' = [v \in DOMAIN submissions |->
           IF submissions[v].status = "UNKNOWN_REMOTE_STATE"
           THEN [submissions[v] EXCEPT !.status = "SUBMITTED"] ELSE submissions[v]]
    /\ Finish(Watcher)
    /\ UNCHANGED <<job, plan, executions, queue, remote, watch, reopened, crashes>>

(* Its writes, decided on the state read before the call.                  *)
SyncJob ==
    /\ task[Watcher].step = "sync"
    /\ IF job \in {"EXECUTING", "SUBMITTED"}
       THEN /\ job' = "SUBMITTED"
            /\ submissions' = [v \in DOMAIN submissions |->
                   IF submissions[v].status = "UNKNOWN_REMOTE_STATE"
                   THEN [submissions[v] EXCEPT !.status = "SUBMITTED"] ELSE submissions[v]]
       ELSE UNCHANGED <<job, submissions>>
    /\ Finish(Watcher)
    /\ UNCHANGED <<plan, executions, queue, remote, watch, reopened, crashes>>

(* reconcile_submission_plans.                                             *)
ReconcileSubmission ==
    /\ task[Watcher].step = "idle" /\ plan.status = "SUBMISSION_RECONCILIATION"
    /\ job = "SUBMITTED" \/ Recorded
    /\ SetPlan("SUBMITTED")
    /\ UNCHANGED <<job, executions, submissions, queue, remote, task, watch, reopened, crashes>>

-----------------------------------------------------------------------------
(* The watchdog, the operator and death.                                   *)

(* _safe_plan_state                                                        *)
SafePlanState ==
    CASE job = "AWARDED" -> "READY"
      [] job = "EXECUTING" /\ plan.repairs < MaxRepairs -> "NEEDS_REPAIR"
      [] OTHER -> "BLOCKED"

Running(a) == \E w \in Workers : task[w].step = "run" /\ task[w].attempt = a
Executing == \E w \in Workers : task[w].step \in {"start", "run", "evaluate", "report", "fail"}

(* An Execution no live worker owns is stale after the timeout: it is far  *)
(* longer than the timeout of the task itself.                             *)
RecoverExecution(a) ==
    /\ watch.step = "idle"
    /\ executions[a].status = "EXECUTING" /\ ~Running(a)
    /\ executions' = [executions EXCEPT ![a].status = "FAILED"]
    /\ SetPlan(SafePlanState)
    /\ UNCHANGED <<job, submissions, queue, remote, task, watch, reopened, crashes>>

(* Mutant: only QUEUED plans are looked at.                                *)
SeeQueuedOnly ==
    /\ watch.step = "idle" /\ plan.status = "QUEUED"
    /\ watch' = [Watching EXCEPT !.step = "plan", !.next = SafePlanState]
    /\ UNCHANGED <<job, plan, executions, submissions, queue, remote, task, reopened, crashes>>

(* The list of stale plans, with their jobs.  A QUEUED plan may look stale *)
(* at any time (QuerySet.update leaves updated_at alone), an EXECUTING one *)
(* when its task died between rows.                                        *)
SeeStalePlan ==
    /\ watch.step = "idle"
    /\ plan.status = "QUEUED" \/ (plan.status = "EXECUTING" /\ ~Executing)
    /\ watch' = [Watching EXCEPT !.step = "plan", !.next = SafePlanState]
    /\ UNCHANGED <<job, plan, executions, submissions, queue, remote, task, reopened, crashes>>

(* Mutant: a plan is recovered beside its unfinished execution.            *)
AnyExecution == TRUE
NoExecuting == \A a \in DOMAIN executions : executions[a].status # "EXECUTING"

(* The write is decided on that list and on no other state of the plan.    *)
RecoverPlan ==
    /\ watch.step = "plan"
    /\ IF NoExecuting THEN SetPlan(watch.next) ELSE UNCHANGED plan
    /\ watch' = Watching
    /\ UNCHANGED <<job, executions, submissions, queue, remote, task, reopened, crashes>>

(* A stale SUBMITTING plan ...                                             *)
SeeStaleSubmission ==
    /\ watch.step = "idle" /\ plan.status = "SUBMITTING"
    /\ watch' = [Watching EXCEPT !.step = "read"]
    /\ UNCHANGED <<job, plan, executions, submissions, queue, remote, task, reopened, crashes>>

(* ... goes by its latest submission, ...                                  *)
SubmissionVerdict ==
    LET v == Len(submissions)
        To(next, version) == [step |-> "submission", next |-> next, version |-> version]
    IN  CASE v = 0 -> To("QA_PASSED", 0)
          [] v > 0 /\ submissions[v].status = "SUBMITTED" -> To("SUBMITTED", 0)
          [] v > 0 /\ submissions[v].status = "UNKNOWN_REMOTE_STATE" ->
               To("SUBMISSION_RECONCILIATION", 0)
          [] OTHER -> To("SUBMISSION_RECONCILIATION", v)

ReadSubmission ==
    /\ watch.step = "read"
    /\ watch' = SubmissionVerdict
    /\ UNCHANGED <<job, plan, executions, submissions, queue, remote, task, reopened, crashes>>

(* ... and both rows are written, whatever became of them meanwhile.       *)
RecoverSubmission ==
    /\ watch.step = "submission"
    /\ submissions' = [v \in DOMAIN submissions |->
           IF v = watch.version
           THEN [submissions[v] EXCEPT !.status = "UNKNOWN_REMOTE_STATE"] ELSE submissions[v]]
    /\ SetPlan(watch.next)
    /\ watch' = Watching
    /\ UNCHANGED <<job, executions, queue, remote, task, reopened, crashes>>

(* prepare_failed_work_plan_retry: when a replay cannot duplicate anything.*)
RetryIsSafe ==
    /\ plan.status = "FAILED" /\ job = "FAILED"
    /\ submissions = <<>>
    /\ \A a \in DOMAIN executions : executions[a].status \in {"QA_PASSED", "FAILED"}

RetryFailedPlan ==
    /\ reopened < MaxReopens /\ task[Operator].step = "idle"
    /\ RetryIsSafe
    /\ job' = "AWARDED"
    /\ SetPlan("READY")
    /\ Goto(Operator, "enqueueExecute")
    /\ reopened' = reopened + 1
    /\ UNCHANGED <<executions, submissions, queue, remote, watch, crashes>>

(* A killed process forgets its task; RQ does not retry it.                *)
Crash(p) ==
    /\ crashes < MaxCrashes /\ task[p].step # "idle"
    /\ Finish(p)
    /\ crashes' = crashes + 1
    /\ UNCHANGED <<job, plan, executions, submissions, queue, remote, watch, reopened>>

WatchdogDies ==
    /\ crashes < MaxCrashes /\ watch # Watching
    /\ watch' = Watching
    /\ crashes' = crashes + 1
    /\ UNCHANGED <<job, plan, executions, submissions, queue, remote, task, reopened>>

-----------------------------------------------------------------------------
WorkerStep(w) ==
    \/ PopExecute(w) \/ StartExecution(w) \/ RunExecution(w) \/ EvaluateAcceptance(w)
    \/ ReportExecution(w) \/ ReportFailure(w)
    \/ PopSubmit(w) \/ OpenSubmission(w) \/ LookForSubmission(w)
    \/ CreateSubmission(w) \/ PostSubmission(w)
    \/ RecordSubmission(w) \/ TransitionSubmitted(w) \/ MarkUnknown(w) \/ ReportSubmission(w)

QueueStep(p) ==
    EnqueueExecute(p) \/ MarkQueued(p) \/ EnqueueSubmit(p) \/ MarkSubmitting(p)

WatcherStep ==
    \/ \E status \in {"READY", "BLOCKED"} : PlanAwardedJob(status)
    \/ OfferSubmission \/ SeeDelivered \/ SyncJob \/ ReconcileSubmission

Watchdog ==
    \/ \E a \in DOMAIN executions : RecoverExecution(a)
    \/ SeeStalePlan \/ RecoverPlan
    \/ SeeStaleSubmission \/ ReadSubmission \/ RecoverSubmission

Webhook == \E event \in {"revision", "approved"} : ProcessWebhook(event)

Next ==
    \/ \E w \in Workers : WorkerStep(w)
    \/ \E p \in Procs : QueueStep(p) \/ Crash(p)
    \/ WatcherStep \/ Watchdog \/ WatchdogDies \/ Webhook \/ RetryFailedPlan
    \/ \E event \in {"revision", "approved"} : RemoteDecides(event)

Spec == Init /\ [][Next]_vars

(* An assumption of some runs: nothing happens between what the watchdog   *)
(* reads and what it writes, milliseconds later.                           *)
WatchdogIsPrompt == watch # Watching => watch' # watch
PromptSpec == Init /\ [][Next /\ WatchdogIsPrompt]_vars

(* Fairness.  A live process goes on with what it is in the middle of; a   *)
(* watcher or watchdog cycle runs every one of its phases and starts again.*)
InTheMiddle(p) ==
    QueueStep(p) \/ (p \in Workers /\ task[p].step # "idle" /\ WorkerStep(p))
                 \/ (p = Watcher /\ SyncJob)

RecoveryFairness ==
    /\ \A p \in Procs : WF_vars(InTheMiddle(p))
    /\ SF_vars(SeeDelivered) /\ SF_vars(ReconcileSubmission)
    /\ SF_vars(\E a \in DOMAIN executions : RecoverExecution(a))
    /\ SF_vars(SeeStalePlan) /\ SF_vars(SeeStaleSubmission)
    /\ WF_vars(RecoverPlan \/ ReadSubmission \/ RecoverSubmission)

RecoverySpec == Spec /\ RecoveryFairness

(* And rq serves its queues in priority order, so a waiting task is taken  *)
(* in the end; the watcher plans, offers and processes what it finds.      *)
QueueFairness ==
    /\ \A w \in Workers : SF_vars(PopExecute(w)) /\ SF_vars(PopSubmit(w))
    /\ SF_vars(\E status \in {"READY", "BLOCKED"} : PlanAwardedJob(status))
    /\ SF_vars(OfferSubmission) /\ WF_vars(Webhook)

FairSpec == RecoverySpec /\ QueueFairness

-----------------------------------------------------------------------------
TypeOK ==
    /\ job \in {"AWARDED", "EXECUTING", "SUBMITTED", "ACCEPTED", "FAILED"}
    /\ plan \in [status : PlanStatuses, repairs : 0..MaxRepairs]
    /\ executions \in Seq([status : ExecutionStatuses, ready : {"none", "yes", "no"}])
    /\ submissions \in Seq([status : ActiveSubmission, attempt : DOMAIN executions])
    /\ queue \in [execute : 0..MaxQueued, submit : 0..MaxQueued]
    /\ remote \in [status : {"in_progress", "delivered", "revision", "approved"},
                  posts : Nat, events : SUBSET {"revision", "approved"}]
    /\ task \in [Procs -> [step : Steps, repair : BOOLEAN,
                           attempt : DOMAIN executions \cup {0},
                           version : DOMAIN submissions \cup {0}]]
    /\ watch \in [step : {"idle", "plan", "read", "submission"}, next : PlanStatuses,
                  version : DOMAIN submissions \cup {0}]
    /\ reopened \in 0..MaxReopens /\ crashes \in 0..MaxCrashes

(* README.md:164 "Ambiguous external money or mutation operations are never*)
(* blindly replayed": the marketplace is sent the work at most once,       *)
(* whatever answers, tasks and processes are lost.                         *)
OneRemotePost == remote.posts <= 1

(* Local delivery truth is remote delivery truth: SUBMITTED or ACCEPTED is *)
(* never recorded for work the marketplace did not get.                    *)
DeliveredJobWasPosted ==
    /\ job \in {"SUBMITTED", "ACCEPTED"} => remote.posts > 0
    /\ Recorded \/ plan.status = "SUBMITTED" => remote.posts > 0

(* The marketplace gets a job's work once if it is recorded as delivered,  *)
(* and at most once otherwise.                                             *)
DeliveredOnce == OneRemotePost /\ DeliveredJobWasPosted

(* Only work that passed QA and its acceptance contract is submitted, and  *)
(* it is the job's last work: nothing runs again once a submission exists. *)
(* Holds under WatchdogIsPrompt.                                           *)
SubmitsLastAcceptedWork ==
    \A v \in DOMAIN submissions :
        /\ submissions[v].attempt = Len(executions)
        /\ executions[Len(executions)] = [status |-> "QA_PASSED", ready |-> "yes"]

(* Never two running executions of a job: the plan's status guards it, the *)
(* lock of a shared node does not.  Holds as long as the previous one does.*)
OneActiveExecution ==
    \A a, b \in DOMAIN executions :
        executions[a].status = "EXECUTING" /\ executions[b].status = "EXECUTING" => a = b

(* "Repair is bounded": every execution is the first of the job, follows an*)
(* operator's retry or is a counted repair.                                *)
RepairIsBounded ==
    plan.repairs <= MaxRepairs /\ Len(executions) <= 1 + reopened + plan.repairs

(* Paid work on a job is bounded, and runs once at a time.                 *)
ExecutionIsBounded == OneActiveExecution /\ RepairIsBounded

(* Recovery: an executing or submitting plan does not stay so for ever,    *)
(* whichever process dies (execute_work_plan, recover_persistent_state).   *)
InterruptedWorkIsRecovered ==
    \A status \in {"EXECUTING", "SUBMITTING"} :
        plan.status = status ~> plan.status # status

(* A lost answer is resolved without another POST: once the marketplace    *)
(* shows the work as delivered, the job is recorded SUBMITTED and the plan *)
(* leaves reconciliation (sync_job, reconcile_submission_plans).           *)
LostAnswerIsResolved ==
    plan.status = "SUBMISSION_RECONCILIATION" /\ remote.status = "delivered"
        ~> \/ job # "EXECUTING" /\ plan.status # "SUBMISSION_RECONCILIATION"
           \/ remote.status # "delivered"

(* README.md:31 "bounded repair when eligible": a plan a worker takes can  *)
(* be run, as first work or as a repair.                                   *)
TakenPlanCanRun ==
    \A w \in Workers : task[w].step = "start" => job = "AWARDED" \/ task[w].repair
=============================================================================
