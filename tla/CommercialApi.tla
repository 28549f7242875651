---------------------------- MODULE CommercialApi ----------------------------
(***************************************************************************)
(* The paid API: commercial_api.py and commercial_views.py.  A call is a   *)
(* web thread; what it admits is executed in the thread or by a task, while*)
(* dispatch_awarded_jobs, which runs after a claim on any market, sees the *)
(* job as one of its own.  One plan of one product: its quota is shared by *)
(* all calls.                                                              *)
(***************************************************************************)
EXTENDS Naturals, FiniteSets

CONSTANTS
    RequestKeys,  \* idempotency keys, each of one request at most
    Bodies,       \* payloads, told apart by their digest
    Calls,        \* web threads
    NoKey,
    Quota    \* CommercialAPIPlan.monthly_quota

ASSUME ApiAssumption ==
    /\ IsFiniteSet(RequestKeys) /\ IsFiniteSet(Calls) /\ Quota \in Nat
    /\ NoKey \notin RequestKeys \cup Bodies

VARIABLES
    serving,  \* the threads that run
    class,    \* execution_class of the product
    revoked,  \* the API key was revoked
    row,      \* CommercialAPIRequest
    work,     \* status of its WorkPlan, Job.state
    passed,   \* requests whose execution passed QA with an accepted artifact
    call,     \* what each thread is in the middle of
    runner,   \* execute_request of each request
    usage,    \* requests with a CommercialAPIUsage
    answers,  \* bodies answered with a request, not with an error
    charged,  \* X-Magicapi-Billing units of each request
    released  \* requests whose result was given out

apiVars == <<serving, class, revoked, row, work, passed, call, runner, usage, answers, charged, released>>

NoRow == [status |-> "NONE", body |-> NoKey]
NoCall == [at |-> "idle", key |-> NoKey, body |-> NoKey]

ApiInit ==
    /\ serving \in (SUBSET Calls) \ {{}}
    /\ class \in {"SYNCHRONOUS", "ASYNCHRONOUS"}
    /\ revoked = FALSE
    /\ row = [k \in RequestKeys |-> NoRow]
    /\ work = [k \in RequestKeys |-> [plan |-> "NONE", job |-> "NONE"]]
    /\ passed = {} /\ usage = {} /\ answers = {} /\ released = {}
    /\ call = [c \in Calls |-> NoCall]
    /\ runner = [k \in RequestKeys |-> "none"]
    /\ charged = [k \in RequestKeys |-> 0]

Rows == {k \in RequestKeys : row[k] # NoRow}
SetRow(k, status) == row' = [row EXCEPT ![k].status = status]
SetPlan(k, status) == work' = [work EXCEPT ![k].plan = status]
Go(c, at) == call' = [call EXCEPT ![c].at = at]
(* Bound: threads that run beside others serve one call each.              *)
ServesAgain == Cardinality(serving) = 1
Left(c) == IF ServesAgain THEN NoCall ELSE [call[c] EXCEPT !.at = "left"]
Leave(c) == call' = [call EXCEPT ![c] = Left(c)]
Run(k, at) == runner' = [runner EXCEPT ![k] = at]
Terminal == {"COMPLETED", "FAILED"}

-----------------------------------------------------------------------------
(* Admission.                                                              *)

Submit(c, k, b) ==
    /\ c \in serving /\ call[c] = NoCall /\ ~revoked
    /\ call' = [call EXCEPT ![c] = [at |-> "admit", key |-> k, body |-> b]]
    /\ UNCHANGED <<serving, class, revoked, row, work, passed, runner, usage, answers, charged, released>>

Answered(c) == answers' = answers \cup {[key |-> call[c].key, body |-> call[c].body]}

(* A key that was used before: the digests must agree, nothing is charged. *)
(* Mutant: the digest is not compared.                                     *)
AnyBody(c) == row[call[c].key] # NoRow
SameRequest(c) == row[call[c].key].body = call[c].body
Replay(c) ==
    /\ call[c].at = "admit" /\ SameRequest(c)
    /\ IF row[call[c].key].status = "FAILED" THEN UNCHANGED answers ELSE Answered(c)
    /\ Leave(c)
    /\ UNCHANGED <<serving, class, revoked, row, work, passed, runner, usage, charged, released>>

(* Conflict, quota, rate, economics: nothing is kept.                      *)
RefuseCall(c) ==
    /\ call[c].at = "admit" /\ ~SameRequest(c) /\ Leave(c)
    /\ UNCHANGED <<serving, class, revoked, row, work, passed, runner, usage, answers, charged, released>>

(* _quota_and_rate counts rows without a lock.  Mutant: it counts what is  *)
(* metered.                                                                *)
Metered == Cardinality(usage)
Admitted == Cardinality(Rows)
CheckQuota(c) ==
    /\ call[c].at = "admit" /\ row[call[c].key] = NoRow /\ Admitted < Quota
    /\ Go(c, "insert")
    /\ UNCHANGED <<serving, class, revoked, row, work, passed, runner, usage, answers, charged, released>>

InsertRequest(c) ==
    /\ call[c].at = "insert" /\ row[call[c].key] = NoRow
    /\ row' = [row EXCEPT ![call[c].key] = [status |-> "ADMITTED", body |-> call[c].body]]
    /\ work' = [work EXCEPT ![call[c].key].job = "AWARDED"]
    /\ Go(c, "created")
    /\ UNCHANGED <<serving, class, revoked, passed, runner, usage, answers, charged, released>>

(* The unique constraint: another thread was first.                        *)
LoseInsert(c) ==
    /\ call[c].at = "insert" /\ row[call[c].key] # NoRow
    /\ Leave(c)
    /\ UNCHANGED <<serving, class, revoked, row, work, passed, runner, usage, answers, charged, released>>

-----------------------------------------------------------------------------
(* What the thread does with what it created.                              *)

ExecuteInThread(c) ==
    /\ call[c].at = "created" /\ class = "SYNCHRONOUS"
    /\ Go(c, "wait") /\ Run(call[c].key, "plan")
    /\ UNCHANGED <<serving, class, revoked, row, work, passed, usage, answers, charged, released>>

QueueRequest(c) ==
    /\ call[c].at = "created" /\ class = "ASYNCHRONOUS"
    /\ SetRow(call[c].key, "QUEUED") /\ Go(c, "enqueue")
    /\ UNCHANGED <<serving, class, revoked, work, passed, runner, usage, answers, charged, released>>

(* The task may be in the queue although enqueue raised.                   *)
Enqueue(c, lands, raises) ==
    /\ call[c].at = "enqueue" /\ (lands \/ raises)
    /\ IF lands THEN Run(call[c].key, "queued") ELSE UNCHANGED runner
    /\ Go(c, IF raises THEN "refuse" ELSE "answer")
    /\ UNCHANGED <<serving, class, revoked, row, work, passed, usage, answers, charged, released>>

RefuseQueued(c) ==
    /\ call[c].at = "refuse"
    /\ SetRow(call[c].key, "FAILED") /\ Leave(c)
    /\ UNCHANGED <<serving, class, revoked, work, passed, runner, usage, answers, charged, released>>

(* The thread that created the request is charged, unless it has FAILED.   *)
Charged(c) == charged' = [charged EXCEPT ![call[c].key] = @ + 1]
AnswerCall(c) ==
    /\ \/ call[c].at = "answer"
       \/ (call[c].at = "wait" /\ runner[call[c].key] = "none")
    /\ IF call[c].at = "wait" /\ row[call[c].key].status = "FAILED"
       THEN UNCHANGED <<answers, charged>> ELSE Answered(c) /\ Charged(c)
    /\ Leave(c)
    /\ UNCHANGED <<serving, class, revoked, row, work, passed, runner, usage, released>>

-----------------------------------------------------------------------------
(* execute_request.                                                        *)

FailRequest(k) == SetRow(k, "FAILED") /\ Run(k, "none")

StartTask(k) ==
    /\ runner[k] = "queued"
    /\ Run(k, IF row[k].status \in Terminal THEN "none" ELSE "plan")
    /\ UNCHANGED <<serving, class, revoked, row, work, passed, call, usage, answers, charged, released>>

(* plan_awarded_job: what is planned already comes back as it is, and only *)
(* READY will do.                                                          *)
PlanRequest(k) ==
    /\ runner[k] = "plan"
    /\ IF work[k].job \in {"AWARDED", "EXECUTING"} /\ work[k].plan \in {"NONE", "BLOCKED", "READY"}
       THEN \/ SetPlan(k, "READY") /\ SetRow(k, "EXECUTING") /\ Run(k, "run")
            \/ SetPlan(k, "BLOCKED") /\ FailRequest(k)
       ELSE FailRequest(k) /\ UNCHANGED work
    /\ UNCHANGED <<serving, class, revoked, passed, call, usage, answers, charged, released>>

(* The first transaction of execute_work_plan and the guard of             *)
(* execute_registered_job: a job that is EXECUTING is only repaired.       *)
Runnable(k) == work[k].plan \in {"READY", "QUEUED", "NEEDS_REPAIR"}
Executable(k) ==
    \/ work[k].job = "AWARDED"
    \/ (work[k].plan = "NEEDS_REPAIR" /\ work[k].job = "EXECUTING")
Executing(k) == work' = [work EXCEPT ![k] = [plan |-> "EXECUTING", job |-> "EXECUTING"]]

(* What execute_work_plan returns is looked at: plan, last execution and   *)
(* accepted artifact.  Mutant: a plan that did not fail will do.           *)
NotFailed(k, status) == status # "FAILED"
Deliverable(k, status) == status = "QA_PASSED" /\ k \in passed'
Returned(k, status) == IF Deliverable(k, status) THEN Run(k, "result") /\ UNCHANGED row
                       ELSE FailRequest(k)

RunRequest(k) ==
    /\ runner[k] = "run"
    /\ UNCHANGED <<serving, class, revoked, passed, call, usage, answers, charged, released>>
    /\ CASE Runnable(k) /\ Executable(k) -> Executing(k) /\ Run(k, "working") /\ UNCHANGED row
         [] Runnable(k) /\ ~Executable(k) -> SetPlan(k, "FAILED") /\ FailRequest(k)
         [] OTHER -> UNCHANGED work /\ Returned(k, work[k].plan)

(* The worker is done, for the request or for the queue.                   *)
EndWork(k, status) ==
    /\ work[k].plan = "EXECUTING"
    /\ work' = [work EXCEPT ![k] = [plan |-> status,
                                    job |-> IF status = "FAILED" THEN "FAILED" ELSE @.job]]
    /\ passed' = IF status = "QA_PASSED" THEN passed \cup {k} ELSE passed
    /\ IF runner[k] = "working" THEN Returned(k, status) ELSE UNCHANGED <<row, runner>>
    /\ UNCHANGED <<serving, class, revoked, call, usage, answers, charged, released>>

CompleteRequest(k) ==
    /\ runner[k] = "result"
    /\ SetRow(k, "COMPLETED") /\ Run(k, "meter")
    /\ UNCHANGED <<serving, class, revoked, work, passed, call, usage, answers, charged, released>>

RecordUsageOnce(k) ==
    /\ runner[k] = "meter"
    /\ usage' = usage \cup {k} /\ Run(k, "none")
    /\ UNCHANGED <<serving, class, revoked, row, work, passed, call, answers, charged, released>>

(* An exception on the way, stale economics at the metering among them.    *)
FailRun(k) ==
    /\ runner[k] \in {"plan", "result", "meter"} /\ FailRequest(k)
    /\ UNCHANGED <<serving, class, revoked, work, passed, call, usage, answers, charged, released>>

(* The process dies, a thread with what it executes.  Work left behind is  *)
(* taken up after the watchdog has seen it (WorkPlanLifecycle).            *)
Die(k) ==
    /\ runner[k] # "none" /\ Run(k, "none")
    /\ call' = [c \in Calls |-> IF call[c].at = "wait" /\ call[c].key = k
                              THEN Left(c) ELSE call[c]]
    /\ UNCHANGED <<serving, class, revoked, row, work, passed, usage, answers, charged, released>>

-----------------------------------------------------------------------------
(* The others.                                                             *)

(* dispatch_awarded_jobs: the job is planned and queued, ...               *)
DispatchAwarded(k, status) ==
    /\ work[k].job = "AWARDED" /\ work[k].plan \in {"NONE", "BLOCKED", "READY"}
    /\ SetPlan(k, status)
    /\ UNCHANGED <<serving, class, revoked, row, passed, call, runner, usage, answers, charged, released>>

(* ... a worker executes it, ...                                           *)
TakeQueued(k) ==
    /\ work[k].plan \in {"QUEUED", "NEEDS_REPAIR"}
    /\ IF Executable(k) THEN Executing(k) ELSE SetPlan(k, "FAILED")
    /\ UNCHANGED <<serving, class, revoked, row, passed, call, runner, usage, answers, charged, released>>

(* ... and what passed is submitted, which is refused for such a market.   *)
SubmitPassed(k) ==
    /\ work[k].plan \in {"QA_PASSED", "SUBMITTING"}
    /\ SetPlan(k, IF work[k].plan = "QA_PASSED" THEN "SUBMITTING" ELSE "BLOCKED")
    /\ UNCHANGED <<serving, class, revoked, row, passed, call, runner, usage, answers, charged, released>>

RevokeApiKey ==
    /\ ~revoked /\ revoked' = TRUE
    /\ UNCHANGED <<serving, class, row, work, passed, call, runner, usage, answers, charged, released>>

GetResult(k) ==
    /\ ~revoked /\ row[k].status = "COMPLETED"
    /\ released' = released \cup {k}
    /\ UNCHANGED <<serving, class, revoked, row, work, passed, call, runner, usage, answers, charged>>

CallStep(c) ==
    \/ \E k \in RequestKeys, b \in Bodies : Submit(c, k, b)
    \/ Replay(c) \/ RefuseCall(c) \/ CheckQuota(c) \/ InsertRequest(c) \/ LoseInsert(c)
    \/ ExecuteInThread(c) \/ QueueRequest(c) \/ RefuseQueued(c) \/ AnswerCall(c)
    \/ \E lands, raises \in BOOLEAN : Enqueue(c, lands, raises)

RequestStep(k) ==
    \/ StartTask(k) \/ PlanRequest(k) \/ RunRequest(k) \/ CompleteRequest(k)
    \/ RecordUsageOnce(k) \/ FailRun(k) \/ Die(k) \/ TakeQueued(k) \/ SubmitPassed(k) \/ GetResult(k)
    \/ \E status \in {"BLOCKED", "READY", "QUEUED"} : DispatchAwarded(k, status)
    \/ \E status \in {"QA_PASSED", "FAILED", "NEEDS_REPAIR", "QUEUED", "BLOCKED"} : EndWork(k, status)

ApiNext == (\E c \in Calls : CallStep(c)) \/ (\E k \in RequestKeys : RequestStep(k)) \/ RevokeApiKey

ApiSpec == ApiInit /\ [][ApiNext]_apiVars

-----------------------------------------------------------------------------
(* The quota is counted and used in two steps: of n threads each may       *)
(* overrun it, but together by less than n, whatever is admitted, queued or*)
(* has failed; one thread keeps it.                                        *)
QuotaHolds == Cardinality(Rows) < Quota + Cardinality(serving)

(* An idempotency key stands for one body: however threads race with it,   *)
(* nobody is answered with the request of another body, and at most one of *)
(* the answers is charged.                                                 *)
KeyIsOneRequest ==
    /\ \A a \in answers : row[a.key].body = a.body
    /\ \A k \in RequestKeys : charged[k] <= 1

(* What is given out or metered passed QA, though the plan may have been   *)
(* queued, executed, submitted or planned anew by dispatch_awarded_jobs    *)
(* while execute_request held it.                                          *)
ReleasedWorkPassed == released \cup usage \subseteq passed
=============================================================================
