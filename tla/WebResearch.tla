----------------------------- MODULE WebResearch -----------------------------
(***************************************************************************)
(* research_with_web of workers/genx_support.py: a worker looks for a text *)
(* model that can search the web.  An attempt of the job asks one model    *)
(* after another, each with a request key of its own (GenXCalls is the     *)
(* life of one key), as long as the gateway confirms that the last one     *)
(* refused, or failed, free of charge.  Around it stand the poller, the    *)
(* watchdog, the repair of a plan and the operator's retry.                *)
(***************************************************************************)
EXTENDS Naturals, Sequences

CONSTANTS
    Models,      \* active text models
    Explicit,    \* those whose catalogue entry speaks of web search
    MaxModels,   \* GENX_RESEARCH_TOOL_NEGOTIATION_MAX_MODELS
    MaxErrandRepairs, \* WorkPlan.max_repair_attempts
    MaxErrands   \* bound: executions of the job

ASSUME ResearchAssumption == Explicit \subseteq Models

VARIABLES
    observed,  \* what the calls in memory last showed of each model
    asked,     \* GenXCall rows of the job with the fate of their work
    inquiry,   \* the worker: its step, models asked and excluded in this attempt
    errand     \* Job and WorkPlan: state, attempts and repairs
researchVars == <<observed, asked, inquiry, errand>>

NoInquiry == [step |-> "idle", tried |-> 0, excluded |-> {}]

ResearchInit ==
    /\ observed = [m \in Models |-> "NONE"]
    /\ asked = <<>>
    /\ inquiry = NoInquiry
    /\ errand = [state |-> "READY", attempts |-> 0, repairs |-> 0]

LastCall == Len(asked)
Observe(m, what) == observed' = [observed EXCEPT ![m] = what]

(* An observation grows old after 7 days, a day or half an hour.  Bounds:  *)
(* it does so while a model is chosen, and no other job makes any.         *)
ObservationExpires(m) ==
    /\ inquiry.step = "choose" /\ observed[m] # "NONE"
    /\ Observe(m, "NONE")
    /\ UNCHANGED <<asked, inquiry, errand>>

-----------------------------------------------------------------------------
(* execute_work_plan and the worker.                                       *)

StartInquiry ==
    LET repair == errand.state = "NEEDS_REPAIR" IN
    /\ errand.state = "READY" \/ (repair /\ errand.repairs < MaxErrandRepairs)
    /\ errand.attempts < MaxErrands
    /\ errand' = [state |-> "EXECUTING", attempts |-> errand.attempts + 1,
                  repairs |-> errand.repairs + (IF repair THEN 1 ELSE 0)]
    /\ inquiry' = [NoInquiry EXCEPT !.step = "choose"]
    /\ UNCHANGED <<observed, asked>>

EndInquiry(state) ==
    /\ errand' = [errand EXCEPT !.state = state]
    /\ inquiry' = NoInquiry

(* research_web_model_ids; which of them the router takes is a choice.     *)
Unavailable == inquiry.excluded \cup {m \in Models : observed[m] \in {"REJECTED", "TRANSIENT"}}
Eligible ==
    LET proven == {m \in Models : observed[m] = "SUPPORTED"} \ Unavailable
    IN  IF proven # {} THEN proven
        ELSE IF Explicit \ Unavailable # {} THEN Explicit \ Unavailable
        ELSE Models \ Unavailable

AskModel(m) ==
    /\ inquiry.step = "choose" /\ inquiry.tried < MaxModels /\ m \in Eligible
    /\ asked' = Append(asked, [model |-> m, attempt |-> errand.attempts, repair |-> errand.repairs,
                               row |-> "SUBMITTING", truth |-> "PENDING",
                               remote |-> "none", error |-> "none", charge |-> 0])
    /\ inquiry' = [inquiry EXCEPT !.step = "send", !.tried = @ + 1]
    /\ UNCHANGED <<observed, errand>>

(* No model is left, or the router, the host or the budget refuses.        *)
GiveUp ==
    /\ inquiry.step = "choose"
    /\ EndInquiry("FAILED")
    /\ UNCHANGED <<observed, asked>>

TryNext(m, what) ==
    /\ Observe(m, what)
    /\ inquiry' = [inquiry EXCEPT !.step = "choose", !.excluded = @ \cup {m}]
    /\ UNCHANGED errand

Refused == [asked EXCEPT ![LastCall].row = "FAILED", ![LastCall].truth = "NOT_APPLICABLE"]

(* The session is refused with 4xx: free, but no evidence of the model.    *)
SessionRefused ==
    /\ inquiry.step = "send"
    /\ asked' = Refused
    /\ EndInquiry("FAILED")
    /\ UNCHANGED observed

(* The message is refused with 400 or 422.                                 *)
MessageRefused ==
    /\ inquiry.step = "send"
    /\ asked' = Refused
    /\ TryNext(asked[LastCall].model, "REJECTED")

MessageSent ==
    /\ inquiry.step = "send"
    /\ asked' = [asked EXCEPT ![LastCall].remote = "running"]
    /\ inquiry' = [inquiry EXCEPT !.step = "sent"]
    /\ UNCHANGED <<observed, errand>>

MessageRecorded ==
    /\ inquiry.step = "sent"
    /\ asked' = [asked EXCEPT ![LastCall].row = "SUBMITTED"]
    /\ inquiry' = [inquiry EXCEPT !.step = "wait"]
    /\ UNCHANGED <<observed, errand>>

(* Any other error, a timeout of the wait included.                        *)
LosesTrack ==
    /\ inquiry.step \in {"send", "sent", "wait"}
    /\ asked' = [asked EXCEPT ![LastCall].row = "UNKNOWN_REMOTE_STATE"]
    /\ EndInquiry("FAILED")
    /\ UNCHANGED observed

(* The gateway.  Work that failed may have been charged; the payload says  *)
(* so then.                                                                *)
RemoteEnds(i) ==
    /\ asked[i].remote = "running"
    /\ \/ asked' = [asked EXCEPT ![i].remote = "done", ![i].charge = 1]
       \/ \E error \in {"compatibility", "transient", "other"}, charge \in 0..1 :
             asked' = [asked EXCEPT ![i].remote = "failed", ![i].error = error, ![i].charge = charge]
    /\ UNCHANGED <<observed, inquiry, errand>>

(* reconcile_remote_job_payload, with the usage or without.                *)
Truth(c, known) ==
    IF known \/ c.truth = "ACTUAL" \/ (c.remote = "failed" /\ c.charge > 0) THEN "ACTUAL"
    ELSE IF c.remote = "failed" THEN "NOT_APPLICABLE" ELSE "UNRESOLVED"
ReconcileAnswered(i, known) ==
    /\ asked[i].remote \in {"done", "failed"}
    /\ asked' = [asked EXCEPT ![i].row = IF asked[i].remote = "done" THEN "COMPLETED" ELSE "FAILED",
                              ![i].truth = Truth(asked[i], known)]
    /\ observed' = IF asked[i].remote = "done"
                   THEN [observed EXCEPT ![asked[i].model] = "SUPPORTED"] ELSE observed

WaitEnds(known) ==
    /\ inquiry.step = "wait"
    /\ ReconcileAnswered(LastCall, known)
    /\ inquiry' = [inquiry EXCEPT !.step = IF asked[LastCall].remote = "done" THEN "read" ELSE "judge"]
    /\ UNCHANGED errand

PollAsked(i, known) ==
    /\ \/ asked[i].row \in {"SUBMITTED", "UNKNOWN_REMOTE_STATE"}
       \/ asked[i].row = "COMPLETED" /\ asked[i].truth = "UNRESOLVED"
    /\ ReconcileAnswered(i, known)
    /\ UNCHANGED <<inquiry, errand>>

(* _record_research_remote_tool_rejection and _provider_transient; mutant: *)
(* the status of the failure alone.                                        *)
ByStatus(c) == c.error \in {"compatibility", "transient"}
ConfirmedFree(c) == c.error \in {"compatibility", "transient"} /\ c.truth # "ACTUAL"

JudgeFailure ==
    /\ inquiry.step = "judge"
    /\ IF ConfirmedFree(asked[LastCall])
       THEN /\ asked' = [asked EXCEPT ![LastCall].truth = "NOT_APPLICABLE"]
            /\ TryNext(asked[LastCall].model,
                       IF asked[LastCall].error = "transient" THEN "TRANSIENT" ELSE "REJECTED")
       ELSE EndInquiry("FAILED") /\ UNCHANGED <<observed, asked>>

(* A report is found in the answer or not, and accepted or not.            *)
ReadReport(state) ==
    /\ inquiry.step = "read"
    /\ state \in {"QA_PASSED", "FAILED",
                  IF errand.repairs < MaxErrandRepairs THEN "NEEDS_REPAIR" ELSE "BLOCKED"}
    /\ EndInquiry(state)
    /\ UNCHANGED <<observed, asked>>

-----------------------------------------------------------------------------
WorkerIsLost ==
    /\ inquiry.step # "idle"
    /\ inquiry' = NoInquiry
    /\ UNCHANGED <<observed, asked, errand>>

(* The watchdog finds the stale execution: the plan is repaired.           *)
RecoverErrand ==
    /\ errand.state = "EXECUTING" /\ inquiry.step = "idle"
    /\ errand' = [errand EXCEPT !.state =
           IF errand.repairs < MaxErrandRepairs THEN "NEEDS_REPAIR" ELSE "BLOCKED"]
    /\ UNCHANGED <<observed, asked, inquiry>>

(* prepare_failed_work_plan_retry.                                         *)
RetryErrand ==
    /\ errand.state = "FAILED"
    /\ \A i \in DOMAIN asked : asked[i].row = "FAILED"
    /\ errand' = [errand EXCEPT !.state = "READY"]
    /\ UNCHANGED <<observed, asked, inquiry>>

ResearchNext ==
    \/ StartInquiry \/ GiveUp \/ SessionRefused \/ MessageRefused \/ MessageSent
    \/ MessageRecorded \/ LosesTrack \/ JudgeFailure \/ WorkerIsLost \/ RecoverErrand \/ RetryErrand
    \/ \E m \in Models : AskModel(m) \/ ObservationExpires(m)
    \/ \E i \in DOMAIN asked : RemoteEnds(i) \/ \E known \in BOOLEAN : PollAsked(i, known)
    \/ \E known \in BOOLEAN : WaitEnds(known)
    \/ \E state \in {"QA_PASSED", "FAILED", "NEEDS_REPAIR", "BLOCKED"} : ReadReport(state)

ResearchSpec == ResearchInit /\ [][ResearchNext]_researchVars

-----------------------------------------------------------------------------
(* One attempt pays for one model at most, and work that runs or was done  *)
(* is asked for again by a repair of the plan only, never by the operator's*)
(* retry (retry.py:20 "only when replay cannot duplicate a remote          *)
(* mutation"), whichever calls fail, hang, lose their answer or their      *)
(* worker in between.                                                      *)
MayCost(c) == c.charge > 0 \/ c.remote = "running"
PaidOncePerAttempt ==
    \A j \in DOMAIN asked : \A i \in 1..(j - 1) :
        /\ MayCost(asked[i]) => asked[i].attempt < asked[j].attempt
        /\ asked[i].remote \in {"running", "done"} => asked[i].repair < asked[j].repair
=============================================================================
