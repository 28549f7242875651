----------------------------- MODULE QualityGate -----------------------------
(***************************************************************************)
(* planning/acceptance.py: the contract that says when one job's work may  *)
(* be submitted.  The contract is compiled from the job's source material, *)
(* which a refresh of the market or new inputs may change at any time; the *)
(* worker, the recovery of a paid result (genx_recovery.py), the owner's   *)
(* review (review_execution_acceptance) and the gate of submission.py each *)
(* compile and read it.                                                    *)
(***************************************************************************)
EXTENDS Naturals, Sequences

CONSTANTS
    Sources,     \* values of the source material
    Criteria, CriteriaOf,  \* the semantic criteria each of them asks for
    MaxAttempt, MaxRepairs, \* bound; WorkPlan.max_repair_attempts
    MaxChanges   \* bound: changes of the source

ASSUME GateAssumption == CriteriaOf \in [Sources -> SUBSET Criteria]

VARIABLES
    source, changes,
    contracts,  \* AcceptanceContract rows by version: the source of each; the last is current
    attempts,   \* Execution rows, their evidence and AcceptanceEvaluation
    maker,      \* the attempt the RQ worker, or a recovery, is at, its step and verdict
    workplan,   \* WorkPlan: status and repair_attempts
    jobState,
    checked,    \* attempt and contract the submitter has let through the gate
    posted      \* those of the Submission row
gateVars == <<source, changes, contracts, attempts, maker, workplan, jobState, checked, posted>>

AttemptStatuses == {"EXECUTING", "QA_PASSED", "NEEDS_REPAIR", "FAILED"}
GatePlans == {"READY", "EXECUTING", "NEEDS_REPAIR", "QA_PASSED", "BLOCKED", "FAILED",
              "SUBMITTING", "SUBMITTED"}
Makers == {"worker", "recovery"}
Nobody == [at |-> 0, step |-> "idle", ready |-> FALSE]
NotLet == [attempt |-> 0, version |-> 0]
NotEvaluated == [version |-> 0, ready |-> FALSE]

GateInit ==
    /\ source \in Sources /\ changes = 0
    /\ contracts = <<source>>
    /\ attempts = <<>>
    /\ maker = [m \in Makers |-> Nobody]
    /\ workplan = [status |-> "READY", repairs |-> 0]
    /\ jobState = "AWARDED"
    /\ checked = NotLet /\ posted = NotLet

Current(rows) == rows[Len(rows)]
(* compile_acceptance_contract.                                            *)
Compiled == IF Current(contracts) = source THEN contracts ELSE Append(contracts, source)

(* evaluate_execution_acceptance of an attempt under the latest contract:  *)
(* a criterion the evidence does not name has the verdict of the whole.    *)
Ready(a, rows) == a.passed /\ (CriteriaOf[Current(rows)] = {} \/ a.judged = "PASS")
Evaluated(a, rows) ==
    [a EXCEPT !.evaluation = [version |-> Len(rows), ready |-> Ready(a, rows)]]

-----------------------------------------------------------------------------
(* ingest_opportunity, the enrichment of a job's inputs, its assets.       *)
ChangeSource ==
    /\ changes < MaxChanges
    /\ source' \in Sources \ {source}
    /\ changes' = changes + 1
    /\ UNCHANGED <<contracts, attempts, maker, workplan, jobState, checked, posted>>

-----------------------------------------------------------------------------
(* execute_work_plan, execute_registered_job and its finalizer.            *)

(* The host's policy, or the cost of the repairs so far, may say no.       *)
RefuseStart ==
    /\ workplan.status \in {"READY", "NEEDS_REPAIR"}
    /\ workplan' = [workplan EXCEPT !.status = "BLOCKED"]
    /\ UNCHANGED <<source, changes, contracts, attempts, maker, jobState, checked, posted>>

StartAttempt ==
    LET repair == workplan.status = "NEEDS_REPAIR" IN
    /\ workplan.status = "READY" \/ (repair /\ workplan.repairs < MaxRepairs)
    /\ jobState = "AWARDED" \/ (repair /\ jobState = "EXECUTING")
    /\ maker["worker"] = Nobody /\ Len(attempts) < MaxAttempt
    /\ contracts' = Compiled
    /\ attempts' = Append(attempts, [status |-> "EXECUTING", passed |-> FALSE, judged |-> "NONE",
                                     accepted |-> FALSE, evaluation |-> NotEvaluated])
    /\ maker' = [maker EXCEPT !["worker"] = [at |-> Len(attempts'), step |-> "working", ready |-> FALSE]]
    /\ workplan' = [status |-> "EXECUTING",
                    repairs |-> workplan.repairs + (IF repair THEN 1 ELSE 0)]
    /\ jobState' = "EXECUTING"
    /\ UNCHANGED <<source, changes, checked, posted>>

(* run_qa: every check the profile requires of the file and of the         *)
(* worker's evidence holds.                                                *)
RequiredChecks == {"output", "evidence"}
Passes(checks) == RequiredChecks \subseteq checks

(* The evidence of the attempt is written anew, and its status may say     *)
(* QA_PASSED before the acceptance is evaluated.                           *)
PersistResult(m, checks) ==
    /\ maker[m].step = "working"
    /\ attempts' = [attempts EXCEPT ![maker[m].at] =
           [@ EXCEPT !.passed = Passes(checks), !.judged = "NONE",
                     !.status = IF Passes(checks) THEN "QA_PASSED" ELSE "NEEDS_REPAIR"]]
    /\ maker' = [maker EXCEPT ![m].step = "persisted"]
    /\ UNCHANGED <<source, changes, contracts, workplan, jobState, checked, posted>>

EvaluateResult(m) ==
    LET n == maker[m].at IN
    /\ maker[m].step = "persisted"
    /\ contracts' = Compiled
    /\ attempts' = [attempts EXCEPT ![n] = Evaluated(@, contracts')]
    /\ maker' = [maker EXCEPT ![m].step = "evaluated", ![m].ready = attempts'[n].evaluation.ready]
    /\ UNCHANGED <<source, changes, workplan, jobState, checked, posted>>

Conclude(m) ==
    LET status == IF maker[m].ready THEN "QA_PASSED" ELSE "NEEDS_REPAIR" IN
    /\ maker[m].step = "evaluated"
    /\ attempts' = [attempts EXCEPT ![maker[m].at].status = status,
                                    ![maker[m].at].accepted = maker[m].ready]
    /\ workplan' = [workplan EXCEPT !.status =
           IF m = "worker" /\ status = "NEEDS_REPAIR" /\ workplan.repairs >= MaxRepairs
           THEN "BLOCKED" ELSE status]
    /\ maker' = [maker EXCEPT ![m] = Nobody]
    /\ UNCHANGED <<source, changes, contracts, jobState, checked, posted>>

WorkFails ==
    LET n == maker["worker"].at IN
    /\ n > 0
    /\ attempts' = [attempts EXCEPT ![n].status = IF @ = "EXECUTING" THEN "FAILED" ELSE @]
    /\ workplan' = [workplan EXCEPT !.status = "FAILED"]
    /\ jobState' = IF jobState = "EXECUTING" THEN "FAILED" ELSE jobState
    /\ maker' = [maker EXCEPT !["worker"] = Nobody]
    /\ UNCHANGED <<source, changes, contracts, checked, posted>>

-----------------------------------------------------------------------------
(* recover_completed_genx_call: the result of a completed call of the      *)
(* attempt is fetched and finalized; what the call has cost, and whether a *)
(* text can be found, is a choice.                                         *)

(* The operator leaves an attempt alone while its result is being written. *)
MayAct(n) == \A m \in Makers : maker[m].at # n

FindRecoverable(n) ==
    /\ maker["recovery"] = Nobody /\ MayAct(n)
    /\ IF attempts[n].accepted /\ attempts[n].status = "QA_PASSED"
       THEN workplan' = [workplan EXCEPT !.status = "QA_PASSED"] /\ UNCHANGED maker
       ELSE /\ maker' = [maker EXCEPT !["recovery"] = [at |-> n, step |-> "found", ready |-> FALSE]]
            /\ UNCHANGED workplan
    /\ UNCHANGED <<source, changes, contracts, attempts, jobState, checked, posted>>

(* _prepare_local_recovery takes no lock of the job against a worker.      *)
PrepareRecovery ==
    /\ maker["recovery"].step = "found"
    /\ IF jobState = "SUBMITTED" \/ workplan.status \in {"SUBMITTING", "SUBMITTED"}
       THEN /\ maker' = [maker EXCEPT !["recovery"] = Nobody]
            /\ UNCHANGED <<attempts, workplan, jobState>>
       ELSE /\ maker' = [maker EXCEPT !["recovery"].step = "working"]
            /\ attempts' = [attempts EXCEPT ![maker["recovery"].at].status = "EXECUTING"]
            /\ workplan' = [workplan EXCEPT !.status = "EXECUTING"]
            /\ jobState' = "EXECUTING"
    /\ UNCHANGED <<source, changes, contracts, checked, posted>>

(* The worker cannot make files of the text, or the finalizer refuses.     *)
RecoveryFails ==
    LET n == maker["recovery"].at IN
    /\ n > 0
    /\ maker' = [maker EXCEPT !["recovery"] = Nobody]
    /\ attempts' = [attempts EXCEPT ![n].status =
           IF maker["recovery"].step = "working" THEN "FAILED" ELSE @]
    /\ workplan' = [workplan EXCEPT !.status =
           IF maker["recovery"].step = "found" THEN @ ELSE "BLOCKED"]
    /\ UNCHANGED <<source, changes, contracts, jobState, checked, posted>>

-----------------------------------------------------------------------------
RetryFailed ==
    /\ workplan.status = "FAILED" /\ jobState = "FAILED" /\ posted = NotLet
    /\ \A n \in DOMAIN attempts : attempts[n].status \notin {"EXECUTING", "NEEDS_REPAIR"}
    /\ workplan' = [workplan EXCEPT !.status = "READY"]
    /\ jobState' = "AWARDED"
    /\ UNCHANGED <<source, changes, contracts, attempts, maker, checked, posted>>

-----------------------------------------------------------------------------
(* The owner answers every criterion of the contract that is current; the  *)
(* evaluation compiles it anew.  A pass sets the plan whatever it was.     *)
Review(n, verdict) ==
    /\ MayAct(n)
    /\ attempts[n].status \notin {"EXECUTING", "FAILED"}
    /\ contracts' = Compiled
    /\ LET seen == [attempts[n] EXCEPT !.judged = verdict]
           done == Evaluated(seen, contracts')
       IN IF done.evaluation.ready
          THEN /\ attempts' = [attempts EXCEPT ![n] = [done EXCEPT !.status = "QA_PASSED", !.accepted = TRUE]]
               /\ workplan' = [workplan EXCEPT !.status = "QA_PASSED"]
               /\ jobState' = IF jobState = "FAILED" THEN "EXECUTING" ELSE jobState
          ELSE /\ attempts' = [attempts EXCEPT ![n] = done]
               /\ UNCHANGED <<workplan, jobState>>
    /\ UNCHANGED <<source, changes, maker, checked, posted>>

-----------------------------------------------------------------------------
(* submit_work_plan and require_submission_ready; a lost answer of the     *)
(* market is WorkPlanLifecycle's.                                          *)

Passed == {n \in DOMAIN attempts : attempts[n].status = "QA_PASSED"}
LatestOf(set) == CHOOSE n \in set : \A m \in set : m <= n

Refuse == workplan' = [workplan EXCEPT !.status = "FAILED"] /\ UNCHANGED checked

(* Mutant: an evaluation that passed is enough, whatever changed since.    *)
AnyContract == TRUE
ContractHolds == Current(contracts) = source

CheckGate ==
    /\ workplan.status = "QA_PASSED" /\ checked = NotLet
    /\ IF jobState = "SUBMITTED"
       THEN workplan' = [workplan EXCEPT !.status = "SUBMITTED"] /\ UNCHANGED <<contracts, attempts, checked>>
       ELSE IF jobState # "EXECUTING" \/ Passed = {}
       THEN Refuse /\ UNCHANGED <<contracts, attempts>>
       ELSE IF ~ContractHolds
       THEN Refuse /\ contracts' = Compiled /\ UNCHANGED attempts
       ELSE LET n == LatestOf(Passed)
                fresh == IF attempts[n].evaluation.version = Len(contracts) THEN attempts[n]
                         ELSE Evaluated(attempts[n], contracts)
            IN /\ attempts' = [attempts EXCEPT ![n] = fresh]
               /\ IF fresh.evaluation.ready
                  THEN /\ checked' = [attempt |-> n, version |-> Len(contracts)]
                       /\ workplan' = [workplan EXCEPT !.status = "SUBMITTING"]
                  ELSE Refuse
               /\ UNCHANGED contracts
    /\ UNCHANGED <<source, changes, maker, jobState, posted>>

PostChecked ==
    /\ checked # NotLet
    /\ posted' = IF posted = NotLet THEN checked ELSE posted
    /\ workplan' = [workplan EXCEPT !.status =
           IF posted # NotLet \/ jobState = "EXECUTING" THEN "SUBMITTED" ELSE "FAILED"]
    /\ jobState' = IF posted = NotLet /\ jobState = "EXECUTING" THEN "SUBMITTED" ELSE jobState
    /\ checked' = NotLet
    /\ UNCHANGED <<source, changes, contracts, attempts, maker>>

GateNext ==
    \/ ChangeSource \/ RefuseStart \/ StartAttempt \/ WorkFails \/ RetryFailed
    \/ PrepareRecovery \/ RecoveryFails \/ CheckGate \/ PostChecked
    \/ \E m \in Makers :
          \/ \E checks \in SUBSET RequiredChecks : PersistResult(m, checks)
          \/ EvaluateResult(m) \/ Conclude(m)
    \/ \E n \in DOMAIN attempts :
          \/ FindRecoverable(n)
          \/ \E verdict \in {"PASS", "FAIL"} : Review(n, verdict)

GateSpec == GateInit /\ [][GateNext]_gateVars

-----------------------------------------------------------------------------
LetThrough == checked = NotLet /\ checked' # NotLet

(* Work goes through the gate only under a contract that is the source as  *)
(* it stands then, and only if it passed the deterministic checks and,     *)
(* where that contract asks for more, the owner said yes of this very      *)
(* attempt; whatever order source changes, reviews, repairs, recoveries,   *)
(* failures and retries come in.  (Not for an operator who reviews or      *)
(* recovers an attempt while its result is being written: the gate trusts  *)
(* an evaluation of what was there before.)                                *)
OnlyJudgedWorkPasses == [][LetThrough =>
    LET a == attempts'[checked'.attempt] IN
    /\ contracts'[checked'.version] = source
    /\ a.passed
    /\ CriteriaOf[source] # {} => a.judged = "PASS"]_gateVars
=============================================================================
