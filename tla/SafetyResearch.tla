---------------------------- MODULE SafetyResearch ----------------------------
(***************************************************************************)
(* control/services/safety_research.py and workers/ai_safety_research: an  *)
(* attempt is authorised under the scope version of its program, evaluated *)
(* offline by the worker, and what it finds is reviewed before a           *)
(* submission is prepared.  Scopes end, change and are replaced meanwhile. *)
(***************************************************************************)
EXTENDS Naturals, Sequences, FiniteSetsExt, SequencesExt

CONSTANTS
    SafetyAttempts,  \* attempts, each with at most one finding
    Versions,        \* 1..n: scope versions of the program
    NoVersion,
    MaxReviews,      \* bound: reviews of one finding
    MaxHash          \* bound: authorisations signed for a scope

VARIABLES
    program,         \* active, execution enabled and automation allowed
    scopes,          \* [Versions -> [open, target, hash]] scope version, its target
    safetyAttempts,  \* [SafetyAttempts -> SafetyResearchAttempt]
    findings,        \* [SafetyAttempts -> SafetyFinding]
    reviews,         \* [SafetyAttempts -> Seq(review)] reproductions and duplicate checks
    submitted,       \* findings with a SafetyBountySubmission
    sanitized        \* findings with a SanitizedEvaluationCase

safetyVars == <<program, scopes, safetyAttempts, findings, reviews, submitted, sanitized>>

SafetyAssumption == Versions \subseteq Nat /\ NoVersion \notin Versions
ASSUME SafetyAssumption

ProgramScope == [open |-> FALSE, target |-> FALSE, hash |-> 0]
NoSafetyAttempt == [status |-> "NONE", version |-> NoVersion, hash |-> 0, bounded |-> TRUE]
NoFinding == [status |-> "NONE", checked |-> FALSE]

Reproduced == {"REPRODUCED", "NOT_REPRODUCED"}

SafetyInit ==
    /\ program \in BOOLEAN
    /\ scopes = [v \in Versions |-> ProgramScope]
    /\ safetyAttempts = [a \in SafetyAttempts |-> NoSafetyAttempt]
    /\ findings = [a \in SafetyAttempts |-> NoFinding]
    /\ reviews = [a \in SafetyAttempts |-> <<>>]
    /\ submitted = {} /\ sanitized = {}

(* The owner keeps programs and scopes in the admin; a scope also ends by  *)
(* the clock.  Hash 0 is the authorisation that has not been signed yet.   *)
SwitchProgram ==
    /\ program' = ~program
    /\ UNCHANGED <<scopes, safetyAttempts, findings, reviews, submitted, sanitized>>
EditScope(v) ==
    /\ \E open, target \in BOOLEAN, hash \in {scopes[v].hash, scopes[v].hash + 1} :
        /\ hash <= MaxHash
        /\ scopes' = [scopes EXCEPT ![v] = [open |-> open, target |-> target, hash |-> hash]]
    /\ UNCHANGED <<program, safetyAttempts, findings, reviews, submitted, sanitized>>

(* _current_scope: the newest version that is active, begun and not over.  *)
CurrentScope ==
    LET open == {v \in Versions : scopes[v].open}
    IN  IF open = {} THEN NoVersion ELSE Max(open)

(* _authorization_reasons is empty; the type, the bounds and the contents  *)
(* of the plan are one choice at the beginning, the admission at each look.*)
Permitted(v, bounded) == program /\ scopes[v].hash > 0 /\ scopes[v].target /\ bounded

Authorize(a) ==
    /\ safetyAttempts[a].status = "NONE" /\ CurrentScope # NoVersion /\ scopes[CurrentScope].target
    /\ \E bounded, admitted \in BOOLEAN :
        safetyAttempts' = [safetyAttempts EXCEPT ![a] =
            [status |-> IF Permitted(CurrentScope, bounded) /\ admitted THEN "AUTHORIZED" ELSE "BLOCKED",
             version |-> CurrentScope, hash |-> scopes[CurrentScope].hash, bounded |-> bounded]]
    /\ UNCHANGED <<program, scopes, findings, reviews, submitted, sanitized>>

StillAuthorized(a) ==
    LET t == safetyAttempts[a] IN
    CurrentScope = t.version /\ scopes[t.version].hash = t.hash /\ Permitted(t.version, t.bounded)

StartSafetyAttempt(a) ==
    /\ safetyAttempts[a].status = "AUTHORIZED"
    /\ \E admitted \in BOOLEAN :
        safetyAttempts' = [safetyAttempts EXCEPT ![a].status =
                        IF StillAuthorized(a) /\ admitted THEN "RUNNING" ELSE "BLOCKED"]
    /\ UNCHANGED <<program, scopes, findings, reviews, submitted, sanitized>>

(* The worker looks once more and evaluates the fixture, quality assurance *)
(* passes; the evidence waits for the second transaction.                  *)
WorkerEvaluates(a) ==
    /\ safetyAttempts[a].status = "RUNNING" /\ scopes[safetyAttempts[a].version].open
    /\ \E status \in {"EVALUATED", "EVALUATED_CLEAN"} :
        safetyAttempts' = [safetyAttempts EXCEPT ![a].status = status]
    /\ UNCHANGED <<program, scopes, findings, reviews, submitted, sanitized>>

ExecutionFails(a) ==
    /\ safetyAttempts[a].status = "RUNNING"
    /\ safetyAttempts' = [safetyAttempts EXCEPT ![a].status = "FAILED"]
    /\ UNCHANGED <<program, scopes, findings, reviews, submitted, sanitized>>

RecordResult(a) ==
    /\ safetyAttempts[a].status \in {"EVALUATED", "EVALUATED_CLEAN"}
    /\ safetyAttempts' = [safetyAttempts EXCEPT ![a].status = "COMPLETED"]
    /\ findings' = [findings EXCEPT ![a].status =
                        IF safetyAttempts[a].status = "EVALUATED" THEN "CANDIDATE" ELSE "NONE"]
    /\ UNCHANGED <<program, scopes, reviews, submitted, sanitized>>

(* By a reviewer who is not the worker of the execution.                   *)
RecordReproduction(a) ==
    /\ findings[a].status # "NONE" /\ Len(reviews[a]) < MaxReviews
    /\ \E reproduced \in Reproduced :
        /\ reviews' = [reviews EXCEPT ![a] = Append(@, reproduced)]
        /\ findings' = [findings EXCEPT ![a].status = reproduced]
    /\ UNCHANGED <<program, scopes, safetyAttempts, submitted, sanitized>>

(* Mutant: the clean check is taken for the reproduction.                  *)
ReadyWhenClean(f, duplicate) ==
    CASE duplicate = "FOUND" -> "REJECTED"
      [] duplicate = "CLEAN" /\ f.status # "NOT_REPRODUCED" -> "SUBMISSION_READY"
      [] OTHER -> f.status

CheckedStatus(f, duplicate) ==
    CASE duplicate = "FOUND" -> "REJECTED"
      [] duplicate = "CLEAN" /\ f.status = "REPRODUCED" -> "SUBMISSION_READY"
      [] OTHER -> f.status

MarkDuplicateCheck(a) ==
    /\ findings[a].status # "NONE" /\ Len(reviews[a]) < MaxReviews
    /\ \E duplicate \in {"FOUND", "CLEAN"} :
        /\ reviews' = [reviews EXCEPT ![a] = Append(@, duplicate)]
        /\ findings' = [findings EXCEPT ![a] =
                            [status |-> CheckedStatus(@, duplicate), checked |-> TRUE]]
    /\ UNCHANGED <<program, scopes, safetyAttempts, submitted, sanitized>>

PrepareSubmission(a) ==
    /\ findings[a].status = "SUBMISSION_READY" /\ findings[a].checked /\ CurrentScope # NoVersion
    /\ submitted' = submitted \cup {a}
    /\ UNCHANGED <<program, scopes, safetyAttempts, findings, reviews, sanitized>>

CreateEvaluationCase(a) ==
    /\ findings[a].status \in {"REPRODUCED", "SUBMISSION_READY"}
    /\ sanitized' = sanitized \cup {a}
    /\ UNCHANGED <<program, scopes, safetyAttempts, findings, reviews, submitted>>

SafetyNext ==
    \/ SwitchProgram
    \/ \E v \in Versions : EditScope(v)
    \/ \E a \in SafetyAttempts :
        \/ Authorize(a) \/ StartSafetyAttempt(a) \/ WorkerEvaluates(a) \/ ExecutionFails(a)
        \/ RecordResult(a) \/ RecordReproduction(a) \/ MarkDuplicateCheck(a)
        \/ PrepareSubmission(a) \/ CreateEvaluationCase(a)

SafetySpec == SafetyInit /\ [][SafetyNext]_safetyVars

-----------------------------------------------------------------------------
LatestReproduced(a) ==
    \E i \in DOMAIN reviews[a] :
        /\ reviews[a][i] = "REPRODUCED"
        /\ \A j \in DOMAIN reviews[a] : j > i => reviews[a][j] \notin Reproduced

(* What is prepared for submission, or becomes an evaluation case, was     *)
(* reproduced by the latest independent reviewer at that moment; for a     *)
(* submission the latest review of all is a duplicate check that found     *)
(* none, made after the reproduction (worker.py:90: candidates "require an *)
(* independent reproduction and duplicate check before any submission").   *)
OnlyProvenFindings ==
    [][\A a \in SafetyAttempts :
        /\ a \in submitted' \ submitted =>
            LatestReproduced(a) /\ Last(reviews[a]) = "CLEAN"
        /\ a \in sanitized' \ sanitized => LatestReproduced(a)]_safetyVars
=============================================================================
