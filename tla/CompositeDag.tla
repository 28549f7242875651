----------------------------- MODULE CompositeDag -----------------------------
(***************************************************************************)
(* A composite work plan: its WorkPlanSteps, a DAG, and the worker that    *)
(* runs them one after the other (_execute_composite_plan of               *)
(* planning/services.py), with the watchdog (recovery.py) and the          *)
(* operator's retry (planning/retry.py).  Steps are numbered in the order  *)
(* _topological_steps gave them (see StepOrder).                           *)
(*                                                                         *)
(* Compose runs one RQ worker.  Here the watchdog's read and write are one *)
(* step and _queue_execution is one step; their interleavings are modelled *)
(* in WorkPlanLifecycle.                                                   *)
(***************************************************************************)
EXTENDS Naturals, Sequences

CONSTANTS
    N,              \* number of steps
    Deps,           \* depends_on, by step
    StepRepairs,    \* WorkPlanStep.max_repair_attempts, by step
    PlanRepairs,    \* WorkPlan.max_repair_attempts
    Limits,         \* values of WORKPLAN_MAX_COMPOSITE_STEPS, read in every run
    MaxReopens,     \* bound: operator retries
    MaxCrashes,     \* bound: worker deaths
    MaxQueued       \* bound: copies of the task in redis

Steps == 1..N

ASSUME StepsAssumption == N \in Nat /\ N >= 2 /\ Limits \subseteq Nat
                         /\ \A limit \in Limits : N <= limit
ASSUME DepsAssumption == Deps \in [Steps -> SUBSET Steps]
                         /\ \A s \in Steps : \A d \in Deps[s] : d < s
ASSUME RepairsAssumption == StepRepairs \in [Steps -> Nat] /\ PlanRepairs \in Nat
ASSUME LimitsAssumption == MaxReopens \in Nat /\ MaxCrashes \in Nat /\ MaxQueued \in Nat

VARIABLES
    job,    \* Job.state
    plan,   \* WorkPlan.status and repair_attempts
    steps,  \* WorkPlanStep rows: status, repair_attempts, execution (0: none)
    runs,   \* Execution rows by attempt: status, and the step in their worker_id
    queue,  \* copies of the plan's task in redis
    task,   \* where the worker is in _execute_composite_plan
    reopened, crashes

vars == <<job, plan, steps, runs, queue, task, reopened, crashes>>

StepStatuses == {"BLOCKED", "READY", "EXECUTING", "NEEDS_REPAIR", "QA_PASSED", "FAILED"}
PlanStatuses == {"NONE", "BLOCKED", "READY", "QUEUED", "EXECUTING", "NEEDS_REPAIR",
                 "QA_PASSED", "FAILED"}
RunStatuses == {"EXECUTING", "QA_PASSED", "NEEDS_REPAIR", "FAILED"}
Places == {"idle", "loop", "start", "run", "record", "failStep", "writePlan"}

Idle == [at |-> "idle", left |-> 0, step |-> 0, run |-> 0, next |-> "NONE"]

SetPlan(status) == plan' = [plan EXCEPT !.status = status]
StepWith(status) == {s \in Steps : steps[s].status = status}
FirstOf(S) == CHOOSE s \in S : \A r \in S : s <= r

(* _build_composite_plan: new rows, READY when nothing is waited for.      *)
FreshSteps ==
    [s \in Steps |-> [status |-> IF Deps[s] = {} THEN "READY" ELSE "BLOCKED",
                      repairs |-> 0, run |-> 0]]

Init ==
    /\ job = "AWARDED"
    /\ plan = [status |-> "NONE", repairs |-> 0]
    /\ steps = FreshSteps
    /\ runs = <<>>
    /\ queue = 0
    /\ task = Idle
    /\ reopened = 0
    /\ crashes = 0

-----------------------------------------------------------------------------
(* _queue_execution of a READY plan: admission denies, redis fails, or the *)
(* task is enqueued and the plan QUEUED.                                   *)
QueueExecution ==
    \/ SetPlan("BLOCKED") /\ UNCHANGED queue
    \/ SetPlan("READY") /\ UNCHANGED queue
    \/ queue < MaxQueued /\ queue' = queue + 1 /\ SetPlan("QUEUED")

(* plan_awarded_job and dispatch_awarded_jobs: steps are made anew; the    *)
(* plan's own repair count is kept.                                        *)
PlanAwardedJob ==
    /\ job = "AWARDED" /\ plan.status \in {"NONE", "BLOCKED", "READY", "NEEDS_REPAIR"}
    /\ steps' = FreshSteps
    /\ QueueExecution
    /\ UNCHANGED <<job, runs, task, reopened, crashes>>

Pop ==
    /\ task = Idle /\ queue > 0
    /\ queue' = queue - 1
    /\ \/ /\ plan.status \in {"READY", "QUEUED", "EXECUTING", "NEEDS_REPAIR"}
          /\ \E limit \in Limits : task' = [Idle EXCEPT !.at = "loop", !.left = limit]
       \/ /\ plan.status \notin {"READY", "QUEUED", "EXECUTING", "NEEDS_REPAIR"}
          /\ UNCHANGED task
    /\ UNCHANGED <<job, plan, steps, runs, reopened, crashes>>

(* _unlock_composite_steps                                                 *)
Unlocked ==
    [s \in Steps |->
        IF /\ steps[s].status = "BLOCKED" /\ Deps[s] # {}
           /\ \A d \in Deps[s] : steps[d].status = "QA_PASSED"
        THEN [steps[s] EXCEPT !.status = "READY"] ELSE steps[s]]

(* The step the loop takes: a repair before new work, in sequence.         *)
Takeable(rows) ==
    LET With(status) == {s \in Steps : rows[s].status = status}
    IN  IF With("NEEDS_REPAIR") # {} THEN With("NEEDS_REPAIR") ELSE With("READY")

(* Every step has its accepted work.                                       *)
AllPassed == StepWith("QA_PASSED") = Steps

(* The loop's transaction finds nothing to run: the plan ends.             *)
EndPlan ==
    /\ task.at = "loop" /\ task.left > 0
    /\ steps' = Unlocked
    /\ \/ StepWith("FAILED") # {} /\ SetPlan("FAILED")
       \/ StepWith("FAILED") = {} /\ AllPassed /\ SetPlan("QA_PASSED")
       \/ /\ StepWith("FAILED") = {} /\ ~AllPassed
          /\ Takeable(Unlocked) = {} /\ SetPlan("BLOCKED")
    /\ task' = Idle
    /\ UNCHANGED <<job, runs, queue, reopened, crashes>>

(* maximum_repairs of the step is used up.                                 *)
AtLimit(s) == steps[s].repairs >= StepRepairs[s]

(* A repair at its limit blocks the step and the plan.                     *)
RefuseRepair ==
    LET s == FirstOf(Takeable(Unlocked))
    IN  /\ task.at = "loop" /\ task.left > 0
        /\ StepWith("FAILED") = {} /\ StepWith("NEEDS_REPAIR") # {} /\ AtLimit(s)
        /\ steps' = [Unlocked EXCEPT ![s].status = "BLOCKED"]
        /\ SetPlan("BLOCKED")
        /\ task' = Idle
        /\ UNCHANGED <<job, runs, queue, reopened, crashes>>

(* It takes a step.                                                        *)
TakeStep ==
    LET s == FirstOf(Takeable(Unlocked))
        repair == StepWith("NEEDS_REPAIR") # {}
        one == IF repair THEN 1 ELSE 0
    IN  /\ task.at = "loop" /\ task.left > 0
        /\ StepWith("FAILED") = {} /\ Takeable(Unlocked) # {}
        /\ repair => ~AtLimit(s)
        /\ \A d \in Deps[s] : steps[d].status = "QA_PASSED"
        /\ steps' = [Unlocked EXCEPT ![s].status = "EXECUTING", ![s].repairs = @ + one]
        /\ plan' = [status |-> "EXECUTING", repairs |-> plan.repairs + one]
        /\ task' = [task EXCEPT !.at = "start", !.step = s, !.left = @ - 1,
                                !.next = IF repair \/ job = "EXECUTING" THEN "allow" ELSE "NONE"]
        /\ UNCHANGED <<job, runs, queue, reopened, crashes>>

(* The transaction raises (inputs, acceptance contract) and is rolled back.*)
LoopRaises ==
    /\ task.at = "loop" /\ task.left > 0
    /\ task' = Idle
    /\ UNCHANGED <<job, plan, steps, runs, queue, reopened, crashes>>

(* range(maximum_iterations) is used up; task.left is what is left of it.  *)
LoopEnds ==
    /\ task.at = "loop" /\ task.left = 0
    /\ SetPlan("BLOCKED")
    /\ task' = Idle
    /\ UNCHANGED <<job, steps, runs, queue, reopened, crashes>>

-----------------------------------------------------------------------------
(* One above the highest attempt of the job.                               *)
NextAttempt == Len(runs) + 1

(* execute_registered_job, as in WorkPlanLifecycle.                        *)
StartStep ==
    /\ task.at = "start"
    /\ \/ task' = [task EXCEPT !.at = "failStep"] /\ UNCHANGED <<job, runs>>
       \/ /\ job = "AWARDED" \/ (task.next = "allow" /\ job = "EXECUTING")
          /\ runs' = Append(runs, [status |-> "EXECUTING", step |-> task.step])
          /\ job' = "EXECUTING"
          /\ task' = [task EXCEPT !.at = "run", !.run = NextAttempt]
    /\ UNCHANGED <<plan, steps, queue, reopened, crashes>>

RunStep ==
    /\ task.at = "run"
    /\ \E status \in {"QA_PASSED", "NEEDS_REPAIR", "FAILED"} :
           /\ runs' = [runs EXCEPT ![task.run].status = status]
           /\ job' = IF status = "FAILED" /\ job = "EXECUTING" THEN "FAILED" ELSE job
           /\ task' = [task EXCEPT !.at = IF status = "FAILED" THEN "failStep" ELSE "record"]
    /\ UNCHANGED <<plan, steps, queue, reopened, crashes>>

(* Mutant: the verdict of an earlier run of the step is taken.             *)
AnyRunPassed ==
    IF \E a \in DOMAIN runs : runs[a].status = "QA_PASSED" THEN "QA_PASSED" ELSE "NEEDS_REPAIR"

Verdict == runs[task.run].status

(* The step row after the run, which it names only now; an unresolved cost *)
(* blocks it, whatever the verdict.                                        *)
RecordStep ==
    /\ task.at = "record"
    /\ \E status \in {"BLOCKED", Verdict} :
           /\ steps' = [steps EXCEPT ![task.step].status = status,
                                     ![task.step].run = task.run]
           /\ task' = IF status = "QA_PASSED"
                      THEN [Idle EXCEPT !.at = "loop", !.left = task.left]
                      ELSE [task EXCEPT !.at = "writePlan", !.next = status]
    /\ UNCHANGED <<job, plan, runs, queue, reopened, crashes>>

(* The except branch marks the step, then the plan.                        *)
FailStep ==
    /\ task.at = "failStep"
    /\ steps' = [steps EXCEPT ![task.step].status = "FAILED"]
    /\ task' = [task EXCEPT !.at = "writePlan", !.next = "FAILED"]
    /\ UNCHANGED <<job, plan, runs, queue, reopened, crashes>>

(* The plan's row follows in a write of its own.                           *)
WritePlan ==
    /\ task.at = "writePlan"
    /\ SetPlan(task.next)
    /\ task' = Idle
    /\ UNCHANGED <<job, steps, runs, queue, reopened, crashes>>

-----------------------------------------------------------------------------
(* _safe_plan_state                                                        *)
SafePlanState ==
    CASE job = "AWARDED" -> "READY"
      [] job = "EXECUTING" /\ plan.repairs < PlanRepairs -> "NEEDS_REPAIR"
      [] OTHER -> "BLOCKED"

(* The watchdog's part of a plan and of its interrupted step, if it finds  *)
(* one.                                                                    *)
Recover(interrupted) ==
    LET s == FirstOf(interrupted)
    IN  IF interrupted = {}
        THEN SetPlan(SafePlanState) /\ UNCHANGED steps
        ELSE IF steps[s].repairs < StepRepairs[s]
        THEN SetPlan(SafePlanState) /\ steps' = [steps EXCEPT ![s].status = "NEEDS_REPAIR"]
        ELSE SetPlan("BLOCKED") /\ steps' = [steps EXCEPT ![s].status = "BLOCKED"]

(* A stale execution: the step is looked up by its execution.              *)
RecoverExecution(a) ==
    /\ runs[a].status = "EXECUTING" /\ ~(task.at = "run" /\ task.run = a)
    /\ runs' = [runs EXCEPT ![a].status = "FAILED"]
    /\ Recover({s \in Steps : steps[s].run = a /\ steps[s].status = "EXECUTING"})
    /\ UNCHANGED <<job, queue, task, reopened, crashes>>

(* Mutants: the plan's first step is taken for the interrupted one; only   *)
(* QUEUED plans are looked at.                                             *)
FirstStep == Steps
QueuedIsStale == plan.status = "QUEUED"

Interrupted == StepWith("EXECUTING")
PlanIsStale == plan.status = "QUEUED" \/ (plan.status = "EXECUTING" /\ task = Idle)

(* A stale plan without a running execution: the first EXECUTING step.     *)
RecoverPlan ==
    /\ PlanIsStale
    /\ \A a \in DOMAIN runs : runs[a].status # "EXECUTING"
    /\ Recover(Interrupted)
    /\ UNCHANGED <<job, runs, queue, task, reopened, crashes>>

(* retry_failed_work_plan: it knows nothing of steps.                      *)
RetryFailedPlan ==
    /\ reopened < MaxReopens
    /\ plan.status = "FAILED" /\ job = "FAILED"
    /\ \A a \in DOMAIN runs : runs[a].status \in {"QA_PASSED", "FAILED"}
    /\ job' = "AWARDED"
    /\ QueueExecution
    /\ reopened' = reopened + 1
    /\ UNCHANGED <<steps, runs, task, crashes>>

Crash ==
    /\ crashes < MaxCrashes /\ task # Idle
    /\ task' = Idle
    /\ crashes' = crashes + 1
    /\ UNCHANGED <<job, plan, steps, runs, queue, reopened>>

-----------------------------------------------------------------------------
Worker ==
    \/ EndPlan \/ RefuseRepair \/ TakeStep \/ LoopRaises \/ LoopEnds
    \/ StartStep \/ RunStep \/ RecordStep \/ FailStep \/ WritePlan

Next ==
    \/ PlanAwardedJob \/ Pop \/ Worker \/ RecoverPlan \/ RetryFailedPlan \/ Crash
    \/ \E a \in DOMAIN runs : RecoverExecution(a)

Spec == Init /\ [][Next]_vars

(* A live worker goes on; the watchdog's cycle runs again and again.       *)
FairSpec ==
    /\ Spec /\ WF_vars(Worker) /\ SF_vars(RecoverPlan)
    /\ SF_vars(\E a \in DOMAIN runs : RecoverExecution(a))

-----------------------------------------------------------------------------
TypeOK ==
    /\ job \in {"AWARDED", "EXECUTING", "FAILED"}
    /\ plan \in [status : PlanStatuses, repairs : Nat]
    /\ steps \in [Steps -> [status : StepStatuses, repairs : Nat, run : Nat]]
    /\ runs \in Seq([status : RunStatuses, step : Steps])
    /\ queue \in Nat
    /\ task \in [at : Places, left : Nat, step : Steps \cup {0}, run : Nat,
                 next : PlanStatuses \cup {"allow"}]
    /\ task.at \in {"start", "run", "record", "failStep"} => task.step \in Steps
    /\ task.at \in {"run", "record"} => task.run \in DOMAIN runs
    /\ task.at = "record" => runs[task.run].status \in {"QA_PASSED", "NEEDS_REPAIR"}
    /\ task.at = "writePlan" => task.next \in {"BLOCKED", "NEEDS_REPAIR", "FAILED"}
    /\ reopened \in Nat /\ crashes \in Nat

(* README.md:102 "downstream steps cannot start until dependencies pass":  *)
(* a step that was ever released has only passed dependencies, through     *)
(* repairs, deaths, recovery and the operator's retry.                     *)
DependenciesPassed ==
    \A s \in Steps : steps[s].status \in {"READY", "EXECUTING", "NEEDS_REPAIR", "QA_PASSED"} =>
        \A d \in Deps[s] : steps[d].status = "QA_PASSED"

(* A passed step names the run that passed it, later than the runs of its  *)
(* dependencies: no step keeps a result made from superseded inputs.       *)
PassedOnCurrentInputs ==
    \A s \in StepWith("QA_PASSED") :
        /\ steps[s].run \in DOMAIN runs
        /\ runs[steps[s].run] = [status |-> "QA_PASSED", step |-> s]
        /\ \A d \in Deps[s] : steps[d].run < steps[s].run

(* A plan passes only when every step did.                                 *)
PassedPlanIsComplete == plan.status = "QA_PASSED" => StepWith("QA_PASSED") = Steps

(* The loop and the watchdog leave no plan EXECUTING for ever.             *)
TakenPlanEnds == plan.status = "EXECUTING" ~> plan.status # "EXECUTING"

(* tests/test_multifile_composite_integration.py:198 "watchdog recovers    *)
(* stale composite step to bounded repair": with the plan the step is      *)
(* recovered.                                                              *)
RecoveredPlanHasNoLostStep == plan.status = "NEEDS_REPAIR" => StepWith("EXECUTING") = {}

(* The order in which steps pass: see DagOrder.                            *)
Dag == INSTANCE DagOrder WITH passed <- StepWith("QA_PASSED")
ImplementsDagOrder == Dag!Spec
=============================================================================
