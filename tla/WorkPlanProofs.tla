--------------------------- MODULE WorkPlanProofs ---------------------------
(***************************************************************************)
(* Proofs about WorkPlanLifecycle, for any bounds on repairs, retries,     *)
(* deaths and queues.                                                      *)
(***************************************************************************)
EXTENDS WorkPlanLifecycle, SequenceTheorems, WellFoundedInduction, TLAPS

-----------------------------------------------------------------------------
(* Types.                                                                  *)

JobStates == {"AWARDED", "EXECUTING", "SUBMITTED", "ACCEPTED", "FAILED"}
PlanRow == [status : PlanStatuses, repairs : 0..MaxRepairs]
Work == [status : ExecutionStatuses, ready : {"none", "yes", "no"}]
Sent(n) == [status : ActiveSubmission, attempt : 1..n]
TaskRow(n, m) == [step : Steps, repair : BOOLEAN, attempt : 0..n, version : 0..m]
WatchRow(m) == [step : {"idle", "plan", "read", "submission"}, next : PlanStatuses, version : 0..m]
Queue == [execute : 0..MaxQueued, submit : 0..MaxQueued]
Remote == [status : {"in_progress", "delivered", "revision", "approved"},
           posts : Nat, events : SUBSET {"revision", "approved"}]

(* TypeOK, with the domains of the rows as lengths.                        *)
Typed ==
    /\ job \in JobStates /\ plan \in PlanRow
    /\ executions \in Seq(Work)
    /\ submissions \in Seq(Sent(Len(executions)))
    /\ queue \in Queue /\ remote \in Remote
    /\ task \in [Procs -> TaskRow(Len(executions), Len(submissions))]
    /\ watch \in WatchRow(Len(submissions))
    /\ reopened \in 0..MaxReopens /\ crashes \in 0..MaxCrashes

LEMMA TypedIsTypeOK == Typed => TypeOK
<1> SUFFICES ASSUME Typed PROVE TypeOK
  OBVIOUS
<1>1. Len(executions) \in Nat /\ Len(submissions) \in Nat
      /\ DOMAIN executions = 1..Len(executions) /\ DOMAIN submissions = 1..Len(submissions)
  BY DEF Typed
<1>2. \A n \in Nat : 0..n = 1..n \cup {0}
  OBVIOUS
<1>3. 0..Len(executions) = DOMAIN executions \cup {0}
      /\ 0..Len(submissions) = DOMAIN submissions \cup {0}
  BY <1>1, <1>2
<1> QED
  BY <1>1, <1>3
     DEF Typed, TypeOK, JobStates, PlanRow, Work, Sent, TaskRow, WatchRow, Queue, Remote

LEMMA TypedInitially == Init => Typed
<1> SUFFICES ASSUME Init PROVE Typed
  OBVIOUS
<1>1. executions = <<>> /\ submissions = <<>> /\ Len(executions) = 0 /\ Len(submissions) = 0
  BY DEF Init
<1>2. job \in JobStates /\ plan \in PlanRow /\ queue \in Queue /\ remote \in Remote
  BY BoundsAssumption DEF Init, JobStates, PlanRow, PlanStatuses, Queue, Remote
<1>3. task \in [Procs -> TaskRow(0, 0)] /\ watch \in WatchRow(0)
  BY DEF Init, TaskRow, WatchRow, Idle, Watching, Steps, PlanStatuses
<1>4. reopened \in 0..MaxReopens /\ crashes \in 0..MaxCrashes
  BY BoundsAssumption DEF Init
<1> QED BY <1>1, <1>2, <1>3, <1>4 DEF Typed

(* What a process is in the middle of.                                     *)
LEMMA TaskTypes ==
    ASSUME Typed, NEW p \in Procs, NEW step \in Steps
    PROVE  LET row == TaskRow(Len(executions), Len(submissions))
           IN  /\ task[p] \in row /\ Idle \in row
               /\ [task EXCEPT ![p] = [@ EXCEPT !.step = step]] \in [Procs -> row]
               /\ [task EXCEPT ![p] = Idle] \in [Procs -> row]
<1> DEFINE row == TaskRow(Len(executions), Len(submissions))
<1>0. Len(executions) \in Nat /\ Len(submissions) \in Nat
  BY DEF Typed
<1>1. task \in [Procs -> row] /\ task[p] \in row
  BY DEF Typed
<1>2. [task[p] EXCEPT !.step = step] \in row
  BY <1>1 DEF TaskRow
<1>3. Idle \in row
  BY <1>0 DEF TaskRow, Idle, Steps
<1> HIDE DEF row
<1>4. [task EXCEPT ![p] = [@ EXCEPT !.step = step]] \in [Procs -> row]
  BY <1>1, <1>2
<1>5. [task EXCEPT ![p] = Idle] \in [Procs -> row]
  BY <1>1, <1>3
<1> QED BY <1>1, <1>3, <1>4, <1>5 DEF row

LEMMA GotoTypes ==
    ASSUME Typed, NEW p \in Procs, \/ \E step \in Steps : Goto(p, step)
                                   \/ Finish(p)
                                   \/ UNCHANGED task
    PROVE  task' \in [Procs -> TaskRow(Len(executions), Len(submissions))]
<1>1. CASE UNCHANGED task
  BY <1>1 DEF Typed
<1>2. CASE Finish(p)
  BY <1>2, TaskTypes DEF Finish, Steps
<1>3. ASSUME NEW step \in Steps, Goto(p, step)
      PROVE  task' \in [Procs -> TaskRow(Len(executions), Len(submissions))]
  BY <1>3, TaskTypes DEF Goto
<1> QED BY <1>1, <1>2, <1>3

LEMMA PlanTypes ==
    ASSUME Typed, UNCHANGED plan \/ \E status \in PlanStatuses : SetPlan(status)
    PROVE  plan' \in PlanRow
<1>1. plan \in PlanRow
  BY DEF Typed
<1> QED BY <1>1 DEF SetPlan, PlanRow

(* Steps that leave the rows of executions and submissions alone.          *)
LEMMA QuietTypes ==
    ASSUME Typed, UNCHANGED <<executions, submissions, reopened>>,
           job' \in JobStates, plan' \in PlanRow, queue' \in Queue, remote' \in Remote,
           task' \in [Procs -> TaskRow(Len(executions), Len(submissions))],
           watch' \in WatchRow(Len(submissions)), crashes' \in 0..MaxCrashes
    PROVE  Typed'
BY DEF Typed

LEMMA QueueStepTypes ==
    ASSUME Typed, NEW p \in Procs, QueueStep(p)
    PROVE  Typed'
<1>1. /\ UNCHANGED <<job, executions, submissions, remote, watch, reopened, crashes>>
      /\ \/ \E step \in Steps : Goto(p, step)
         \/ Finish(p)
         \/ UNCHANGED task
      /\ UNCHANGED plan \/ \E status \in PlanStatuses : SetPlan(status)
      /\ UNCHANGED queue \/ (queue.execute < MaxQueued /\ Push("execute"))
                         \/ (queue.submit < MaxQueued /\ Push("submit"))
  BY DEF QueueStep, EnqueueExecute, MarkQueued, EnqueueSubmit, MarkSubmitting, Steps, PlanStatuses
<1>2. queue' \in Queue
  <2>1. queue \in Queue /\ MaxQueued \in Nat
    BY BoundsAssumption DEF Typed
  <2> QED BY <1>1, <2>1 DEF Queue, Push
<1>3. task' \in [Procs -> TaskRow(Len(executions), Len(submissions))] /\ plan' \in PlanRow
  BY <1>1, GotoTypes, PlanTypes
<1> QED BY <1>1, <1>2, <1>3, QuietTypes DEF Typed

(* How the rows of a job grow.                                             *)
LEMMA Widen ==
    ASSUME NEW n \in Nat, NEW m \in Nat, NEW k \in Nat, NEW l \in Nat, n <= k, m <= l
    PROVE  /\ TaskRow(n, m) \subseteq TaskRow(k, l)
           /\ WatchRow(m) \subseteq WatchRow(l)
           /\ Seq(Sent(n)) \subseteq Seq(Sent(k))
<1>0. 0..n \subseteq 0..k /\ 0..m \subseteq 0..l /\ 1..n \subseteq 1..k
  OBVIOUS
<1>1. TaskRow(n, m) \subseteq TaskRow(k, l)
  BY <1>0 DEF TaskRow
<1>2. WatchRow(m) \subseteq WatchRow(l)
  BY <1>0 DEF WatchRow
<1>3. Sent(n) \subseteq Sent(k)
  BY <1>0 DEF Sent
<1>4. ASSUME NEW seq \in Seq(Sent(n))  PROVE seq \in Seq(Sent(k))
  <2> HIDE DEF Sent
  <2>1. \A i \in 1..Len(seq) : seq[i] \in Sent(n)
    OBVIOUS
  <2> QED BY <1>3, <2>1, SeqDef
<1> QED BY <1>1, <1>2, <1>4

LEMMA AppendWork ==
    ASSUME executions \in Seq(Work), NEW x \in Work, executions' = Append(executions, x)
    PROVE  /\ executions' \in Seq(Work) /\ Len(executions) \in Nat
           /\ Len(executions') = Len(executions) + 1
           /\ executions'[Len(executions) + 1] = x
           /\ \A a \in DOMAIN executions : executions'[a] = executions[a] /\ a # Len(executions) + 1
           /\ DOMAIN executions' = DOMAIN executions \cup {Len(executions) + 1}
BY AppendProperties

LEMMA ElementWritten ==
    ASSUME NEW S, NEW seq \in Seq(S), NEW i \in 1..Len(seq), NEW x \in S
    PROVE  [seq EXCEPT ![i] = x] \in Seq(S) /\ Len([seq EXCEPT ![i] = x]) = Len(seq)
OBVIOUS

LEMMA WriteWork ==
    ASSUME executions \in Seq(Work), NEW a, NEW x, a \in DOMAIN executions => x \in Work,
           executions' = [executions EXCEPT ![a] = x]
    PROVE  /\ executions' \in Seq(Work) /\ Len(executions') = Len(executions)
           /\ DOMAIN executions' = DOMAIN executions
           /\ a \in DOMAIN executions => executions'[a] = x
           /\ \A b \in DOMAIN executions : b # a => executions'[b] = executions[b]
<1>1. CASE a \notin DOMAIN executions
  <2>1. executions' = executions
    BY <1>1
  <2> QED BY <1>1, <2>1
<1>2. CASE a \in DOMAIN executions
  <2>1. a \in 1..Len(executions)
    BY <1>2
  <2>2. executions' \in Seq(Work) /\ Len(executions') = Len(executions)
    BY <1>2, <2>1, ElementWritten
  <2>3. executions'[a] = x /\ \A b \in DOMAIN executions : b # a => executions'[b] = executions[b]
    BY <1>2, <2>1
  <2> QED BY <2>2, <2>3
<1> QED BY <1>1, <1>2

LEMMA AppendSent ==
    ASSUME NEW n, submissions \in Seq(Sent(n)), NEW x \in Sent(n),
           submissions' = Append(submissions, x)
    PROVE  /\ submissions' \in Seq(Sent(n)) /\ Len(submissions) \in Nat
           /\ Len(submissions') = Len(submissions) + 1
           /\ submissions'[Len(submissions) + 1] = x
           /\ \A v \in DOMAIN submissions : submissions'[v] = submissions[v]
<1> DEFINE S == Sent(n)
<1> HIDE DEF S
<1> QED BY AppendProperties DEF S

(* The statuses of submissions change, some or all at once.                *)
LEMMA WriteSent ==
    ASSUME NEW n, submissions \in Seq(Sent(n)),
           submissions' = [v \in DOMAIN submissions |-> submissions'[v]],
           \A v \in DOMAIN submissions :
               \/ submissions'[v] = submissions[v]
               \/ \E status \in ActiveSubmission :
                     submissions'[v] = [submissions[v] EXCEPT !.status = status]
    PROVE  /\ submissions' \in Seq(Sent(n)) /\ Len(submissions') = Len(submissions)
           /\ DOMAIN submissions' = DOMAIN submissions
           /\ \A v \in DOMAIN submissions : submissions'[v].attempt = submissions[v].attempt
<1>1. DOMAIN submissions = 1..Len(submissions) /\ Len(submissions) \in Nat
  OBVIOUS
<1>2. ASSUME NEW v \in DOMAIN submissions
      PROVE  submissions'[v] \in Sent(n) /\ submissions'[v].attempt = submissions[v].attempt
  <2>1. submissions[v] \in Sent(n)
    OBVIOUS
  <2> QED BY <2>1 DEF Sent
<1> DEFINE S == Sent(n)
<1>3. \A v \in 1..Len(submissions) : submissions'[v] \in S
  BY <1>1, <1>2
<1> HIDE DEF S
<1>4. submissions' \in [1..Len(submissions) -> S]
  BY <1>1, <1>3
<1>5. submissions' \in Seq(S)
  BY <1>1, <1>4, SeqDef
<1>6. Len(submissions') = Len(submissions) /\ DOMAIN submissions' = DOMAIN submissions
  BY <1>1, <1>4, <1>5, LenProperties
<1> QED BY <1>2, <1>5, <1>6 DEF S

(* Steps that write executions: a process, the job, the rows.              *)
LEMMA WorkTypes ==
    ASSUME Typed, UNCHANGED <<submissions, queue, remote, watch, reopened, crashes>>,
           job' \in JobStates, plan' \in PlanRow,
           executions' \in Seq(Work), Len(executions) <= Len(executions'),
           task' \in [Procs -> TaskRow(Len(executions'), Len(submissions))]
    PROVE  Typed'
<1>1. Len(executions) \in Nat /\ Len(executions') \in Nat /\ Len(submissions) \in Nat
  BY DEF Typed
<1>2. Seq(Sent(Len(executions))) \subseteq Seq(Sent(Len(executions')))
  BY <1>1, Widen
<1> QED BY <1>2 DEF Typed

LEMMA ExecuteTypes ==
    ASSUME Typed, NEW w \in Workers,
           \/ PopExecute(w) \/ StartExecution(w) \/ RunExecution(w) \/ EvaluateAcceptance(w)
           \/ ReportExecution(w) \/ ReportFailure(w)
    PROVE  Typed'
<1>0. /\ w \in Procs /\ job \in JobStates /\ plan \in PlanRow /\ queue \in Queue
      /\ executions \in Seq(Work) /\ Len(executions) \in Nat /\ Len(submissions) \in Nat
      /\ DOMAIN executions = 1..Len(executions)
      /\ task \in [Procs -> TaskRow(Len(executions), Len(submissions))]
      /\ remote \in Remote /\ watch \in WatchRow(Len(submissions)) /\ crashes \in 0..MaxCrashes
  BY DEF Typed, Procs
<1>1. CASE PopExecute(w)
  <2>1. queue' \in Queue
    BY <1>0, <1>1, BoundsAssumption DEF PopExecute, Pop, Queue
  <2>2. CASE UNCHANGED task /\ (UNCHANGED plan \/ SetPlan("BLOCKED"))
    <3>1. plan' \in PlanRow
      BY <2>2, PlanTypes DEF PlanStatuses
    <3> QED BY <1>0, <1>1, <2>1, <2>2, <3>1, QuietTypes DEF PopExecute
  <2>3. ASSUME NEW repair \in BOOLEAN, repair <=> plan.status = "NEEDS_REPAIR", RepairAllowed(repair),
               plan' = [status |-> "EXECUTING", repairs |-> RepairsAfter(repair)],
               task' = [task EXCEPT ![w] = [Idle EXCEPT !.step = "start", !.repair = repair]]
        PROVE  Typed'
    <3>1. RepairsAfter(repair) \in 0..MaxRepairs
      BY <1>0, <2>3, BoundsAssumption DEF RepairAllowed, RepairsAfter, PlanRow
    <3>2. plan' \in PlanRow
      BY <2>3, <3>1 DEF PlanRow, PlanStatuses
    <3> DEFINE rows == TaskRow(Len(executions), Len(submissions))
               begun == [Idle EXCEPT !.step = "start", !.repair = repair]
    <3>4. begun \in rows
      <4>1. Idle \in rows
        BY <1>0, TaskTypes DEF Steps
      <4> QED BY <4>1 DEF TaskRow, Steps
    <3> HIDE DEF rows, begun
    <3>5. task' \in [Procs -> rows]
      BY <1>0, <2>3, <3>4 DEF rows, begun
    <3> QED BY <1>0, <1>1, <2>1, <3>2, <3>5, QuietTypes DEF PopExecute, rows
  <2> QED BY <1>1, <2>2, <2>3 DEF PopExecute
<1>2. CASE StartExecution(w)
  <2>1. CASE Goto(w, "fail") /\ UNCHANGED <<job, executions>>
    BY <1>0, <1>2, <2>1, GotoTypes, QuietTypes DEF StartExecution, Steps
  <2>2. CASE ~(Goto(w, "fail") /\ UNCHANGED <<job, executions>>)
    <3>1. /\ executions' = Append(executions, [status |-> "EXECUTING", ready |-> "none"])
          /\ job' = "EXECUTING"
          /\ task' = [task EXCEPT ![w] = [@ EXCEPT !.step = "run", !.attempt = Len(executions) + 1]]
          /\ UNCHANGED <<plan, submissions, queue, remote, watch, reopened, crashes>>
      BY <1>2, <2>2 DEF StartExecution
    <3>2. executions' \in Seq(Work) /\ Len(executions') = Len(executions) + 1
      BY <1>0, <3>1, AppendWork DEF Work, ExecutionStatuses
    <3> DEFINE rows == TaskRow(Len(executions'), Len(submissions))
    <3>3. task \in [Procs -> rows]
      BY <1>0, <3>2, Widen
    <3>4. [task[w] EXCEPT !.step = "run", !.attempt = Len(executions) + 1] \in rows
      <4>1. task[w] \in rows /\ Len(executions) + 1 \in 0..Len(executions') /\ "run" \in Steps
        BY <1>0, <3>2, <3>3 DEF Steps
      <4> QED BY <4>1 DEF TaskRow
    <3> HIDE DEF rows
    <3>5. task' \in [Procs -> rows]
      BY <1>0, <3>1, <3>3, <3>4
    <3> QED BY <1>0, <3>1, <3>2, <3>5, WorkTypes DEF rows, JobStates
  <2> QED BY <2>1, <2>2
<1>3. CASE RunExecution(w) \/ EvaluateAcceptance(w)
  <2>0. UNCHANGED <<plan, submissions, queue, remote, watch, reopened, crashes>>
    BY <1>3 DEF RunExecution, EvaluateAcceptance
  <2>1. task' \in [Procs -> TaskRow(Len(executions), Len(submissions))]
    BY <1>0, <1>3, GotoTypes DEF RunExecution, EvaluateAcceptance, FailExecution, Steps
  <2>2. job' \in JobStates
    BY <1>0, <1>3 DEF RunExecution, EvaluateAcceptance, FailExecution, JobStates
  <2>3. ASSUME NEW status \in ExecutionStatuses, NEW ready \in {"none", "yes", "no"},
               SetExecution(w, status, ready)
        PROVE  executions' \in Seq(Work) /\ Len(executions') = Len(executions)
    BY <1>0, <2>3, WriteWork DEF SetExecution, Work
  <2>4. CASE FailExecution(w)
    <3> DEFINE a == task[w].attempt
               status == IF executions[a].status = "EXECUTING" THEN "FAILED" ELSE executions[a].status
               x == [status |-> status, ready |-> executions[a].ready]
    <3>1. executions' = [executions EXCEPT ![a] = x]
      BY <2>4 DEF FailExecution, SetExecution
    <3>2. a \in DOMAIN executions => x \in Work
      <4>1. a \in DOMAIN executions => executions[a] \in Work
        BY <1>0
      <4> HIDE DEF a
      <4> QED BY <4>1 DEF Work, ExecutionStatuses
    <3> HIDE DEF x, a
    <3>3. executions' \in Seq(Work) /\ Len(executions') = Len(executions)
      BY <1>0, <3>1, <3>2, WriteWork
    <3> QED BY <1>0, <2>0, <2>1, <2>2, <3>3, WorkTypes
  <2>5. CASE ~FailExecution(w)
    <3>1. PICK status \in ExecutionStatuses, ready \in {"none", "yes", "no"} :
              SetExecution(w, status, ready)
      BY <1>3, <2>5 DEF RunExecution, EvaluateAcceptance, FinalStatus, ExecutionStatuses
    <3> QED BY <1>0, <2>0, <2>1, <2>2, <2>3, <3>1, WorkTypes
  <2> QED BY <2>4, <2>5
<1>4. CASE ReportExecution(w)
  BY <1>0, <1>4, GotoTypes, PlanTypes, QuietTypes DEF ReportExecution, Steps, PlanStatuses
<1>5. CASE ReportFailure(w)
  BY <1>0, <1>5, GotoTypes, PlanTypes, QuietTypes DEF ReportFailure, Steps, PlanStatuses
<1> QED BY <1>1, <1>2, <1>3, <1>4, <1>5

(* order_by("-attempt").first() of the passed executions.                  *)
LEMMA LatestIsPassed ==
    ASSUME executions \in Seq(Work), PassedExecutions # {}
    PROVE  LatestPassed \in PassedExecutions /\ \A b \in PassedExecutions : b <= LatestPassed
<1> DEFINE n == Len(executions)
           left == {n - a : a \in PassedExecutions}
<1>0. n \in Nat /\ PassedExecutions \subseteq 1..n
  BY DEF PassedExecutions
<1>1. left \subseteq Nat /\ left # {}
  <2>1. \A a \in PassedExecutions : n - a \in Nat
    <3> HIDE DEF n
    <3> QED BY <1>0
  <2> QED BY <2>1
<1>2. PICK least \in left : \A q \in left : ~(<<q, least>> \in OpToRel(<, Nat))
  <2> HIDE DEF left
  <2> QED BY <1>1, NatLessThanWellFounded, WFMin, Zenon
<1>3. \A q \in left : ~(q < least)
  <2> HIDE DEF left
  <2> QED BY <1>1, <1>2 DEF OpToRel
<1>4. PICK a \in PassedExecutions : least = n - a
  BY <1>2
<1>5. \A b \in PassedExecutions : b <= a
  <2> SUFFICES ASSUME NEW b \in PassedExecutions PROVE b <= a
    OBVIOUS
  <2>1. ~(n - b < n - a)
    BY <1>3, <1>4
  <2> HIDE DEF n
  <2> QED BY <1>0, <1>4, <2>1
<1> QED BY <1>4, <1>5 DEF LatestPassed

LEMMA SubmitTypes ==
    ASSUME Typed, NEW w \in Workers,
           \/ PopSubmit(w) \/ OpenSubmission(w) \/ LookForSubmission(w)
           \/ CreateSubmission(w) \/ PostSubmission(w)
           \/ RecordSubmission(w) \/ TransitionSubmitted(w) \/ MarkUnknown(w) \/ ReportSubmission(w),
           CreateSubmission(w) => task[w].attempt \in DOMAIN executions
    PROVE  Typed'
<1> DEFINE rows == TaskRow(Len(executions), Len(submissions))
<1>0. /\ w \in Procs /\ job \in JobStates /\ plan \in PlanRow /\ queue \in Queue
      /\ executions \in Seq(Work) /\ Len(executions) \in Nat /\ Len(submissions) \in Nat
      /\ submissions \in Seq(Sent(Len(executions)))
      /\ DOMAIN executions = 1..Len(executions)
      /\ task \in [Procs -> rows] /\ task[w] \in rows
      /\ remote \in Remote /\ watch \in WatchRow(Len(submissions)) /\ crashes \in 0..MaxCrashes
  BY DEF Typed, Procs
<1>1. CASE PopSubmit(w)
  <2>1. queue' \in Queue
    BY <1>0, <1>1, BoundsAssumption DEF PopSubmit, Pop, Queue
  <2> QED BY <1>0, <1>1, <2>1, GotoTypes, QuietTypes DEF PopSubmit, Steps
<1>2. CASE OpenSubmission(w)
  <2>1. CASE UNCHANGED executions /\ \E step \in Steps : Goto(w, step)
    BY <1>0, <1>2, <2>1, GotoTypes, QuietTypes DEF OpenSubmission
  <2>2. ASSUME PassedExecutions # {}, NEW verdict \in {"yes", "no"},
               executions' = [executions EXCEPT ![LatestPassed].ready = verdict],
               task' = [task EXCEPT ![w] =
                   [@ EXCEPT !.step = IF verdict = "yes" THEN "look" ELSE "submitFailed",
                             !.attempt = LatestPassed]]
        PROVE  Typed'
    <3> DEFINE a == LatestPassed
               x == [executions[a] EXCEPT !.ready = verdict]
               step == IF verdict = "yes" THEN "look" ELSE "submitFailed"
    <3>1. a \in DOMAIN executions /\ a \in 0..Len(executions) /\ step \in Steps
      BY <1>0, <2>2, LatestIsPassed DEF PassedExecutions, Steps
    <3> HIDE DEF a
    <3>2. x \in Work
      <4>1. executions[a] \in Work
        BY <1>0, <3>1
      <4> QED BY <4>1 DEF Work
    <3>3. executions' = [executions EXCEPT ![a] = x]
      BY <2>2 DEF a
    <3> HIDE DEF x
    <3>4. executions' \in Seq(Work) /\ Len(executions') = Len(executions)
      BY <1>0, <3>2, <3>3, WriteWork
    <3>5. [task[w] EXCEPT !.step = step, !.attempt = a] \in rows
      BY <1>0, <3>1 DEF TaskRow
    <3>6. task' \in [Procs -> rows]
      <4> HIDE DEF rows
      <4> QED BY <1>0, <2>2, <3>5 DEF a
    <3> QED BY <1>0, <1>2, <3>4, <3>6, WorkTypes DEF OpenSubmission
  <2> QED BY <1>2, <2>1, <2>2 DEF OpenSubmission, Steps
<1>3. CASE LookForSubmission(w)
  BY <1>0, <1>3, GotoTypes, QuietTypes DEF LookForSubmission, Steps
<1>4. CASE CreateSubmission(w)
  <2>1. /\ submissions' = Append(submissions, [status |-> "SUBMITTING", attempt |-> task[w].attempt])
        /\ task' = [task EXCEPT ![w] = [@ EXCEPT !.step = "post", !.version = Len(submissions) + 1]]
        /\ UNCHANGED <<job, plan, executions, queue, remote, watch, reopened, crashes>>
    BY <1>4 DEF CreateSubmission
  <2>2. [status |-> "SUBMITTING", attempt |-> task[w].attempt] \in Sent(Len(executions))
    BY <1>0, <1>4 DEF Sent, ActiveSubmission
  <2>3. submissions' \in Seq(Sent(Len(executions))) /\ Len(submissions') = Len(submissions) + 1
    BY <1>0, <2>1, <2>2, AppendSent
  <2>4. rows \subseteq TaskRow(Len(executions), Len(submissions'))
        /\ WatchRow(Len(submissions)) \subseteq WatchRow(Len(submissions'))
    BY <1>0, <2>3, Widen
  <2>5. [task[w] EXCEPT !.step = "post", !.version = Len(submissions) + 1]
           \in TaskRow(Len(executions), Len(submissions'))
    <3>1. Len(submissions) + 1 \in 0..Len(submissions') /\ "post" \in Steps
      BY <1>0, <2>3 DEF Steps
    <3> QED BY <1>0, <3>1 DEF TaskRow
  <2>6. task' \in [Procs -> TaskRow(Len(executions), Len(submissions'))]
    <3> HIDE DEF rows
    <3> QED BY <1>0, <2>1, <2>4, <2>5
  <2> QED BY <1>0, <2>1, <2>3, <2>4, <2>6 DEF Typed
<1>5. CASE PostSubmission(w)
  <2>1. remote' \in Remote
    <3>1. remote.posts + 1 \in Nat
      BY <1>0 DEF Remote
    <3>2. \A n \in Nat : [remote EXCEPT !.posts = n, !.status = "delivered"] \in Remote
      BY <1>0 DEF Remote
    <3>3. [remote EXCEPT !.posts = @ + 1, !.status = "delivered"] \in Remote
      BY <3>1, <3>2
    <3> QED BY <1>0, <1>5, <3>3 DEF PostSubmission
  <2> QED BY <1>0, <1>5, <2>1, GotoTypes, QuietTypes DEF PostSubmission, Steps
<1>6. CASE RecordSubmission(w) \/ MarkUnknown(w)
  <2>1. PICK status \in ActiveSubmission :
            submissions' = [submissions EXCEPT ![task[w].version].status = status]
    BY <1>6 DEF RecordSubmission, MarkUnknown, ActiveSubmission
  <2>2. /\ submissions' = [v \in DOMAIN submissions |-> submissions'[v]]
        /\ \A v \in DOMAIN submissions :
               \/ submissions'[v] = submissions[v]
               \/ submissions'[v] = [submissions[v] EXCEPT !.status = status]
    BY <1>0, <2>1
  <2>3. submissions' \in Seq(Sent(Len(executions))) /\ Len(submissions') = Len(submissions)
    BY <1>0, <2>2, WriteSent
  <2>4. task' \in [Procs -> rows]
    BY <1>0, <1>6, GotoTypes DEF RecordSubmission, MarkUnknown, Steps
  <2> QED BY <1>0, <1>6, <2>3, <2>4 DEF RecordSubmission, MarkUnknown, Typed
<1>7. CASE TransitionSubmitted(w)
  BY <1>0, <1>7, GotoTypes, QuietTypes DEF TransitionSubmitted, Steps, JobStates
<1>8. CASE ReportSubmission(w)
  BY <1>0, <1>8, GotoTypes, PlanTypes, QuietTypes DEF ReportSubmission, Steps, PlanStatuses
<1> QED BY <1>1, <1>2, <1>3, <1>4, <1>5, <1>6, <1>7, <1>8

LEMMA WatcherTypes ==
    ASSUME Typed, WatcherStep
    PROVE  Typed'
<1>0. /\ Watcher \in Procs /\ job \in JobStates /\ plan \in PlanRow /\ queue \in Queue
      /\ submissions \in Seq(Sent(Len(executions)))
      /\ remote \in Remote /\ watch \in WatchRow(Len(submissions)) /\ crashes \in 0..MaxCrashes
      /\ task \in [Procs -> TaskRow(Len(executions), Len(submissions))]
  BY DEF Typed, Procs
<1>1. CASE SyncJob
  <2>1. /\ submissions' = [v \in DOMAIN submissions |-> submissions'[v]]
        /\ \A v \in DOMAIN submissions :
               \/ submissions'[v] = submissions[v]
               \/ submissions'[v] = [submissions[v] EXCEPT !.status = "SUBMITTED"]
    <3>1. CASE UNCHANGED submissions
      BY <1>0, <3>1
    <3>2. CASE ~UNCHANGED submissions
      BY <1>1, <3>2 DEF SyncJob
    <3> QED BY <3>1, <3>2
  <2>2. submissions' \in Seq(Sent(Len(executions))) /\ Len(submissions') = Len(submissions)
    BY <1>0, <2>1, WriteSent DEF ActiveSubmission
  <2>3. task' \in [Procs -> TaskRow(Len(executions), Len(submissions))]
    BY <1>0, <1>1, GotoTypes DEF SyncJob
  <2> QED BY <1>0, <1>1, <2>2, <2>3 DEF SyncJob, Typed, JobStates
<1>2. ASSUME NEW status \in {"READY", "BLOCKED"}, PlanAwardedJob(status)  PROVE Typed'
  BY <1>0, <1>2, GotoTypes, PlanTypes, QuietTypes DEF PlanAwardedJob, Steps, PlanStatuses
<1>3. CASE OfferSubmission \/ SeeDelivered
  BY <1>0, <1>3, GotoTypes, QuietTypes DEF OfferSubmission, SeeDelivered, Steps
<1>4. CASE ReconcileSubmission
  BY <1>0, <1>4, PlanTypes, QuietTypes DEF ReconcileSubmission, PlanStatuses
<1> QED BY <1>1, <1>2, <1>3, <1>4 DEF WatcherStep

LEMMA WatchdogTypes ==
    ASSUME Typed, Watchdog
    PROVE  Typed'
<1>0. /\ job \in JobStates /\ plan \in PlanRow /\ queue \in Queue
      /\ executions \in Seq(Work) /\ Len(submissions) \in Nat
      /\ submissions \in Seq(Sent(Len(executions)))
      /\ remote \in Remote /\ watch \in WatchRow(Len(submissions)) /\ crashes \in 0..MaxCrashes
      /\ task \in [Procs -> TaskRow(Len(executions), Len(submissions))]
  BY DEF Typed
<1>1. SafePlanState \in PlanStatuses /\ Watching \in WatchRow(Len(submissions))
  BY <1>0 DEF SafePlanState, PlanStatuses, Watching, WatchRow
<1>2. ASSUME NEW a \in DOMAIN executions, RecoverExecution(a)  PROVE Typed'
  <2>1. executions[a] \in Work
    BY <1>0
  <2>2. [executions[a] EXCEPT !.status = "FAILED"] \in Work
    BY <2>1 DEF Work, ExecutionStatuses
  <2>3. executions' \in Seq(Work) /\ Len(executions') = Len(executions)
    BY <1>0, <1>2, <2>2, WriteWork DEF RecoverExecution
  <2>4. plan' \in PlanRow
    BY <1>1, <1>2, PlanTypes DEF RecoverExecution
  <2> QED BY <1>0, <1>2, <2>3, <2>4, WorkTypes DEF RecoverExecution
<1>3. CASE SeeStalePlan \/ SeeStaleSubmission
  <2>1. watch' \in WatchRow(Len(submissions))
    BY <1>1, <1>3 DEF SeeStalePlan, SeeStaleSubmission, WatchRow
  <2> QED BY <1>0, <1>3, <2>1, QuietTypes DEF SeeStalePlan, SeeStaleSubmission
<1>4. CASE RecoverPlan
  <2>1. watch.next \in PlanStatuses
    BY <1>0 DEF WatchRow
  <2>2. plan' \in PlanRow
    BY <1>4, <2>1, PlanTypes DEF RecoverPlan
  <2> QED BY <1>0, <1>1, <1>4, <2>2, QuietTypes DEF RecoverPlan
<1>5. CASE ReadSubmission
  <2>1. watch' \in WatchRow(Len(submissions))
    BY <1>0, <1>5 DEF ReadSubmission, SubmissionVerdict, WatchRow, PlanStatuses
  <2> QED BY <1>0, <1>5, <2>1, QuietTypes DEF ReadSubmission
<1>6. CASE RecoverSubmission
  <2>1. /\ submissions' = [v \in DOMAIN submissions |-> submissions'[v]]
        /\ \A v \in DOMAIN submissions :
               \/ submissions'[v] = submissions[v]
               \/ submissions'[v] = [submissions[v] EXCEPT !.status = "UNKNOWN_REMOTE_STATE"]
    BY <1>6 DEF RecoverSubmission
  <2>2. submissions' \in Seq(Sent(Len(executions))) /\ Len(submissions') = Len(submissions)
    BY <1>0, <2>1, WriteSent DEF ActiveSubmission
  <2>3. watch.next \in PlanStatuses
    BY <1>0 DEF WatchRow
  <2>4. plan' \in PlanRow
    BY <1>6, <2>3, PlanTypes DEF RecoverSubmission
  <2> QED BY <1>0, <1>1, <1>6, <2>2, <2>4 DEF RecoverSubmission, Typed
<1> QED BY <1>2, <1>3, <1>4, <1>5, <1>6 DEF Watchdog

(* The marketplace, its events, the operator and death.                    *)
LEMMA OtherTypes ==
    ASSUME Typed,
           \/ \E event \in {"revision", "approved"} : ProcessWebhook(event) \/ RemoteDecides(event)
           \/ RetryFailedPlan \/ WatchdogDies \/ \E p \in Procs : Crash(p)
    PROVE  Typed'
<1>0. /\ job \in JobStates /\ plan \in PlanRow /\ queue \in Queue /\ Len(submissions) \in Nat
      /\ remote \in Remote /\ watch \in WatchRow(Len(submissions)) /\ crashes \in 0..MaxCrashes
      /\ reopened \in 0..MaxReopens
      /\ task \in [Procs -> TaskRow(Len(executions), Len(submissions))] /\ Operator \in Procs
  BY DEF Typed, Procs
<1>1. ASSUME NEW event \in {"revision", "approved"}, ProcessWebhook(event)  PROVE Typed'
  <2>1. job' \in JobStates
    BY <1>0, <1>1 DEF ProcessWebhook, JobStates
  <2>2. [remote EXCEPT !.events = @ \ {event}] \in Remote
    BY <1>0 DEF Remote
  <2> QED BY <1>0, <1>1, <2>1, <2>2, QuietTypes DEF ProcessWebhook
<1>2. ASSUME NEW event \in {"revision", "approved"}, RemoteDecides(event)  PROVE Typed'
  <2>1. [remote EXCEPT !.status = event, !.events = @ \cup {event}] \in Remote
    BY <1>0 DEF Remote
  <2> QED BY <1>0, <1>2, <2>1, QuietTypes DEF RemoteDecides
<1>3. CASE RetryFailedPlan
  <2>1. plan' \in PlanRow /\ task' \in [Procs -> TaskRow(Len(executions), Len(submissions))]
    BY <1>0, <1>3, GotoTypes, PlanTypes DEF RetryFailedPlan, Steps, PlanStatuses
  <2>2. reopened' \in 0..MaxReopens
    BY <1>0, <1>3, BoundsAssumption DEF RetryFailedPlan
  <2> QED BY <1>3, <2>1, <2>2 DEF RetryFailedPlan, Typed, JobStates
<1>4. CASE WatchdogDies
  <2>1. Watching \in WatchRow(Len(submissions))
    BY <1>0 DEF Watching, WatchRow, PlanStatuses
  <2>2. crashes' \in 0..MaxCrashes
    BY <1>0, <1>4, BoundsAssumption DEF WatchdogDies
  <2> QED BY <1>0, <1>4, <2>1, <2>2, QuietTypes DEF WatchdogDies
<1>5. ASSUME NEW p \in Procs, Crash(p)  PROVE Typed'
  <2>1. crashes' \in 0..MaxCrashes
    BY <1>0, <1>5, BoundsAssumption DEF Crash
  <2>2. task' \in [Procs -> TaskRow(Len(executions), Len(submissions))]
    BY <1>5, GotoTypes DEF Crash
  <2> QED BY <1>0, <1>5, <2>1, <2>2, QuietTypes DEF Crash
<1> QED BY <1>1, <1>2, <1>3, <1>4, <1>5

(* A worker goes on by itself, dies, or waits.                             *)
LEMMA OthersWait ==
    ASSUME Typed, [Next]_vars, NEW w \in Workers
    PROVE  \/ WorkerStep(w) \/ QueueStep(w)
           \/ task'[w] = Idle
           \/ task'[w] = task[w]
<1>0. task = [p \in Procs |-> task[p]] /\ w \in Procs /\ w # Watcher /\ w # Operator
      /\ Watcher \in Procs /\ Operator \in Procs
  BY ProcsAssumption DEF Typed, Procs
<1>1. ASSUME NEW v \in Workers, v # w, WorkerStep(v)  PROVE task'[w] = task[w]
  <2>1. v \in Procs
    BY DEF Procs
  <2> QED
    BY <1>0, <1>1, <2>1
       DEF WorkerStep, PopExecute, StartExecution, RunExecution, EvaluateAcceptance, FailExecution,
           ReportExecution, ReportFailure, PopSubmit, OpenSubmission, LookForSubmission,
           CreateSubmission, PostSubmission, RecordSubmission, TransitionSubmitted, MarkUnknown,
           ReportSubmission, Goto, Finish
<1>2. ASSUME NEW p \in Procs, p # w, QueueStep(p)  PROVE task'[w] = task[w]
  BY <1>0, <1>2 DEF QueueStep, EnqueueExecute, MarkQueued, EnqueueSubmit, MarkSubmitting, Goto, Finish
<1>3. ASSUME NEW p \in Procs, Crash(p)  PROVE task'[w] \in {Idle, task[w]}
  BY <1>0, <1>3 DEF Crash, Finish
<1>4. ASSUME WatcherStep  PROVE task'[w] = task[w]
  BY <1>0, <1>4 DEF WatcherStep, PlanAwardedJob, OfferSubmission, SeeDelivered, SyncJob,
                    ReconcileSubmission, Goto, Finish
<1>5. ASSUME Watchdog \/ WatchdogDies \/ Webhook \/ RetryFailedPlan
             \/ \E event \in {"revision", "approved"} : RemoteDecides(event)
      PROVE  task'[w] = task[w]
  BY <1>0, <1>5 DEF Watchdog, RecoverExecution, SeeStalePlan, RecoverPlan, SeeStaleSubmission,
                    ReadSubmission, RecoverSubmission, WatchdogDies, Webhook, ProcessWebhook,
                    RetryFailedPlan, RemoteDecides, Goto
<1> QED BY <1>1, <1>2, <1>3, <1>4, <1>5 DEF Next, vars

(* Where its step leaves it.                                               *)
LEMMA TaskMoves ==
    ASSUME Typed, [Next]_vars, NEW w \in Workers
    PROVE  LET next == task'[w].step
           IN  \/ task'[w] = task[w]
               \/ next \in {"idle", "markQueued", "markSubmitting"}
               \/ PopExecute(w) /\ next = "start" /\ (task'[w].repair <=> plan.status = "NEEDS_REPAIR")
               \/ StartExecution(w) /\ next = "run" /\ task'[w].attempt = Len(executions) + 1
               \/ StartExecution(w) /\ next = "fail"
               \/ RunExecution(w) /\ next \in {"evaluate", "fail"} /\ task'[w].attempt = task[w].attempt
               \/ EvaluateAcceptance(w) /\ next \in {"report", "fail"} /\ task'[w].attempt = task[w].attempt
               \/ ReportExecution(w) /\ next \in {"enqueueSubmit", "enqueueExecute"}
               \/ PopSubmit(w) /\ next = "open"
               \/ OpenSubmission(w) /\ next = "look" /\ task'[w].attempt = LatestPassed
                     /\ PassedExecutions # {}
               \/ OpenSubmission(w) /\ next = "submitted" /\ Recorded
               \/ OpenSubmission(w) /\ next = "submitFailed"
               \/ LookForSubmission(w) /\ next = "create" /\ Active = {} /\ task'[w].attempt = task[w].attempt
               \/ LookForSubmission(w) /\ next = "submitted" /\ Recorded
               \/ LookForSubmission(w) /\ next = "submitFailed"
               \/ CreateSubmission(w) /\ next = "post" /\ task'[w].version = Len(submissions) + 1
               \/ PostSubmission(w) /\ next \in {"unknown", "record"} /\ task'[w].version = task[w].version
               \/ RecordSubmission(w) /\ next = "transition"
               \/ TransitionSubmitted(w) /\ next \in {"submitted", "submitFailed"}
               \/ MarkUnknown(w) /\ next = "submitFailed"
<1> DEFINE row == TaskRow(Len(executions), Len(submissions))
<1>0. w \in Procs /\ task \in [Procs -> row] /\ task[w] \in row
  BY DEF Typed, Procs
<1>1. \A step \in Steps : Goto(w, step) =>
          /\ task'[w].step = step /\ task'[w].attempt = task[w].attempt
          /\ task'[w].version = task[w].version
  BY <1>0 DEF Goto, TaskRow
<1>2. (Finish(w) \/ task'[w] = Idle) => task'[w].step = "idle"
  BY <1>0 DEF Finish, Idle
<1>3. UNCHANGED task => task'[w] = task[w]
  OBVIOUS
<1> HIDE DEF row
<1>4. QueueStep(w) => task'[w].step \in {"idle", "markQueued", "markSubmitting"}
  BY <1>1, <1>2
     DEF QueueStep, EnqueueExecute, MarkQueued, EnqueueSubmit, MarkSubmitting, Steps
<1>5. PopExecute(w) => \/ task'[w] = task[w]
                       \/ /\ task'[w].step = "start"
                          /\ task'[w].repair <=> plan.status = "NEEDS_REPAIR"
  BY <1>0, <1>3 DEF PopExecute, Idle
<1>6. StartExecution(w) => \/ task'[w].step = "fail"
                           \/ task'[w].step = "run" /\ task'[w].attempt = Len(executions) + 1
  <2>1. ASSUME task' = [task EXCEPT ![w] = [@ EXCEPT !.step = "run",
                                                     !.attempt = Len(executions) + 1]]
        PROVE  task'[w].step = "run" /\ task'[w].attempt = Len(executions) + 1
    BY <1>0, <2>1 DEF row, TaskRow
  <2> QED BY <1>1, <2>1 DEF StartExecution, Steps
<1>7. RunExecution(w) => task'[w].step \in {"evaluate", "fail"} /\ task'[w].attempt = task[w].attempt
  BY <1>1 DEF RunExecution, FailExecution, Steps
<1>8. EvaluateAcceptance(w) => task'[w].step \in {"report", "fail"} /\ task'[w].attempt = task[w].attempt
  BY <1>1 DEF EvaluateAcceptance, FailExecution, Steps
<1>9. ReportExecution(w) => task'[w].step \in {"idle", "enqueueSubmit", "enqueueExecute"}
  BY <1>1, <1>2 DEF ReportExecution, Steps
<1>10. PopSubmit(w) => task'[w] = task[w] \/ task'[w].step = "open"
  BY <1>1, <1>3 DEF PopSubmit, Steps
<1>11. OpenSubmission(w) => \/ task'[w].step = "submitted" /\ Recorded
                            \/ task'[w].step = "submitFailed"
                            \/ task'[w].step = "look" /\ task'[w].attempt = LatestPassed
                                  /\ PassedExecutions # {}
  <2>1. ASSUME NEW step \in {"look", "submitFailed"},
               task' = [task EXCEPT ![w] = [@ EXCEPT !.step = step, !.attempt = LatestPassed]]
        PROVE  task'[w].step = step /\ task'[w].attempt = LatestPassed
    BY <1>0, <2>1 DEF row, TaskRow
  <2> QED BY <1>1, <2>1 DEF OpenSubmission, Steps
<1>12. LookForSubmission(w) => /\ task'[w].attempt = task[w].attempt
                               /\ \/ task'[w].step = "create" /\ Active = {}
                                  \/ task'[w].step = "submitted" /\ Recorded
                                  \/ task'[w].step = "submitFailed"
  BY <1>1 DEF LookForSubmission, Active, Recorded, Steps
<1>13. CreateSubmission(w) => task'[w].step = "post" /\ task'[w].version = Len(submissions) + 1
  BY <1>0 DEF CreateSubmission, row, TaskRow
<1>14. PostSubmission(w) => task'[w].step \in {"unknown", "record"} /\ task'[w].version = task[w].version
  BY <1>1 DEF PostSubmission, Steps
<1>15. /\ RecordSubmission(w) => task'[w].step = "transition"
       /\ TransitionSubmitted(w) => task'[w].step \in {"submitted", "submitFailed"}
       /\ MarkUnknown(w) => task'[w].step = "submitFailed"
       /\ ReportFailure(w) \/ ReportSubmission(w) => task'[w].step = "idle"
  BY <1>1, <1>2 DEF RecordSubmission, TransitionSubmitted, MarkUnknown, ReportFailure,
                    ReportSubmission, Steps
<1> QED
  BY <1>2, <1>4, <1>5, <1>6, <1>7, <1>8, <1>9, <1>10, <1>11, <1>12, <1>13, <1>14, <1>15, OthersWait
     DEF WorkerStep

(* Who works on a row has one.                                             *)
OnExecution == {"run", "evaluate", "report", "look", "create"}
OnSubmission == {"post", "record", "unknown"}
HasRows ==
    \A w \in Workers :
        /\ task[w].step \in OnExecution => task[w].attempt # 0
        /\ task[w].step \in OnSubmission => task[w].version # 0

LEMMA HasRowsKept ==
    ASSUME Typed, HasRows, [Next]_vars
    PROVE  HasRows'
<1> SUFFICES ASSUME NEW w \in Workers
             PROVE  /\ task'[w].step \in OnExecution => task'[w].attempt # 0
                    /\ task'[w].step \in OnSubmission => task'[w].version # 0
  BY DEF HasRows
<1>1. Len(executions) \in Nat /\ Len(submissions) \in Nat /\ executions \in Seq(Work)
  BY DEF Typed
<1>2. /\ task[w].step \in OnExecution => task[w].attempt # 0
      /\ task[w].step \in OnSubmission => task[w].version # 0
  BY DEF HasRows
<1>3. PassedExecutions # {} => LatestPassed # 0
  BY <1>1, LatestIsPassed DEF PassedExecutions
<1>4. /\ RunExecution(w) => task[w].step = "run"
      /\ EvaluateAcceptance(w) => task[w].step = "evaluate"
      /\ LookForSubmission(w) => task[w].step = "look"
      /\ PostSubmission(w) => task[w].step = "post"
  BY DEF RunExecution, EvaluateAcceptance, LookForSubmission, PostSubmission
<1> QED BY <1>1, <1>2, <1>3, <1>4, TaskMoves DEF OnExecution, OnSubmission

LEMMA TypedKept ==
    ASSUME Typed, HasRows, [Next]_vars
    PROVE  Typed'
<1>1. ASSUME NEW w \in Workers, WorkerStep(w)  PROVE Typed'
  <2>1. task[w] \in TaskRow(Len(executions), Len(submissions)) /\ Len(executions) \in Nat
        /\ DOMAIN executions = 1..Len(executions)
    BY DEF Typed, Procs
  <2>2. CreateSubmission(w) => task[w].attempt \in DOMAIN executions
    BY <2>1 DEF CreateSubmission, HasRows, OnExecution, TaskRow
  <2> QED BY <1>1, <2>2, ExecuteTypes, SubmitTypes DEF WorkerStep
<1>2. ASSUME NEW p \in Procs, QueueStep(p)  PROVE Typed'
  BY <1>2, QueueStepTypes
<1>3. CASE WatcherStep
  BY <1>3, WatcherTypes
<1>4. CASE Watchdog
  BY <1>4, WatchdogTypes
<1>5. CASE WatchdogDies \/ Webhook \/ RetryFailedPlan
           \/ \E event \in {"revision", "approved"} : RemoteDecides(event)
           \/ \E p \in Procs : Crash(p)
  BY <1>5, OtherTypes DEF Webhook
<1>6. CASE UNCHANGED vars
  BY <1>6 DEF vars, Typed
<1> QED BY <1>1, <1>2, <1>3, <1>4, <1>5, <1>6 DEF Next

(* For any number of workers: rows, tasks and what the watchdog has read   *)
(* keep their types, and every reference is to a row there is.             *)
THEOREM TypesOfPlans == Spec => []TypeOK
<1>1. Init => HasRows
  BY DEF Init, HasRows, Idle, OnExecution, OnSubmission, Procs
<1> QED BY <1>1, TypedInitially, TypedKept, HasRowsKept, TypedIsTypeOK, PTL DEF Spec

-----------------------------------------------------------------------------
(* Delivery.                                                               *)

(* All that says the marketplace has the work: rows, tasks, what the       *)
(* watchdog is about to write and what the marketplace shows.              *)
Believed ==
    \/ job \in {"SUBMITTED", "ACCEPTED"}
    \/ Recorded
    \/ plan.status = "SUBMITTED"
    \/ \E w \in Workers : task[w].step \in {"record", "transition", "submitted"}
    \/ task[Watcher].step = "sync"
    \/ remote.status # "in_progress"
    \/ remote.events # {}
    \/ watch.next = "SUBMITTED"

BelievedIsTrue == Believed => remote.posts > 0

LEMMA PostsStay ==
    ASSUME Typed, [Next]_vars
    PROVE  /\ remote.posts \in Nat /\ remote'.posts \in Nat /\ remote.posts <= remote'.posts
           /\ remote' = remote \/ remote'.posts = remote.posts
                 \/ \E w \in Workers : PostSubmission(w) /\ remote'.posts = remote.posts + 1
<1>0. remote \in Remote /\ remote.posts \in Nat
  BY DEF Typed, Remote
<1>1. ASSUME NEW w \in Workers, WorkerStep(w), ~PostSubmission(w)  PROVE remote' = remote
  BY <1>1 DEF WorkerStep, PopExecute, StartExecution, RunExecution, EvaluateAcceptance,
              ReportExecution, ReportFailure, PopSubmit, OpenSubmission, LookForSubmission,
              CreateSubmission, RecordSubmission, TransitionSubmitted, MarkUnknown, ReportSubmission
<1>2. ASSUME NEW w \in Workers, PostSubmission(w)
      PROVE  remote' = remote \/ remote'.posts = remote.posts + 1
  BY <1>0, <1>2 DEF PostSubmission, Remote
<1>3. ASSUME NEW p \in Procs, QueueStep(p) \/ Crash(p)  PROVE remote' = remote
  BY <1>3 DEF QueueStep, EnqueueExecute, MarkQueued, EnqueueSubmit, MarkSubmitting, Crash
<1>4. ASSUME WatcherStep \/ Watchdog \/ WatchdogDies \/ RetryFailedPlan  PROVE remote' = remote
  BY <1>4 DEF WatcherStep, PlanAwardedJob, OfferSubmission, SeeDelivered, SyncJob,
              ReconcileSubmission, Watchdog, RecoverExecution, SeeStalePlan, RecoverPlan,
              SeeStaleSubmission, ReadSubmission, RecoverSubmission, WatchdogDies, RetryFailedPlan
<1>5. ASSUME NEW event \in {"revision", "approved"}, ProcessWebhook(event) \/ RemoteDecides(event)
      PROVE  remote'.posts = remote.posts
  BY <1>0, <1>5 DEF ProcessWebhook, RemoteDecides, Remote
<1>6. remote' = remote \/ remote'.posts = remote.posts
         \/ \E w \in Workers : PostSubmission(w) /\ remote'.posts = remote.posts + 1
  BY <1>1, <1>2, <1>3, <1>4, <1>5 DEF Next, Webhook, vars
<1> QED BY <1>0, <1>6

LEMMA BeliefKept ==
    ASSUME Typed, BelievedIsTrue, [Next]_vars
    PROVE  BelievedIsTrue'
<1> SUFFICES ASSUME ~(remote.posts > 0), ~(remote'.posts > 0), ~Believed
             PROVE  ~Believed'
  BY PostsStay DEF BelievedIsTrue
<1>0. /\ task \in [Procs -> TaskRow(Len(executions), Len(submissions))]
      /\ Watcher \in Procs /\ Watcher \notin Workers /\ Watcher # Operator /\ Operator \in Procs
      /\ plan \in PlanRow /\ remote \in Remote /\ submissions \in Seq(Sent(Len(executions)))
      /\ remote.posts \in Nat /\ watch \in WatchRow(Len(submissions)) /\ Workers \subseteq Procs
  BY ProcsAssumption, PostsStay DEF Typed, Procs
<1>a. ~\E w \in Workers : PostSubmission(w) /\ remote'.posts = remote.posts + 1
  BY <1>0
<1>1. \A w \in Workers : task'[w].step \notin {"record", "transition", "submitted"}
  <2> SUFFICES ASSUME NEW w \in Workers
               PROVE  task'[w].step \notin {"record", "transition", "submitted"}
    OBVIOUS
  <2>0. /\ task[w].step \notin {"record", "transition", "submitted"} /\ ~Recorded /\ job # "SUBMITTED"
        /\ w \in Procs /\ task[w] \in TaskRow(Len(executions), Len(submissions))
    BY <1>0 DEF Believed
  <2>1. PostSubmission(w) => task'[w].step # "record"
    <3>1. PostSubmission(w) => Goto(w, "unknown")
      BY <1>0, <1>a DEF PostSubmission, Remote
    <3>2. Goto(w, "unknown") => task'[w].step = "unknown"
      BY <1>0, <2>0 DEF Goto, TaskRow
    <3> QED BY <3>1, <3>2
  <2>2. ~RecordSubmission(w) /\ ~TransitionSubmitted(w)
    BY <2>0 DEF RecordSubmission, TransitionSubmitted
  <2> QED BY <2>0, <2>1, <2>2, TaskMoves
<1>2. job' \notin {"SUBMITTED", "ACCEPTED"}
  <2>0. job \notin {"SUBMITTED", "ACCEPTED"} /\ remote.events = {} /\ task[Watcher].step # "sync"
        /\ \A w \in Workers : task[w].step # "transition"
    BY DEF Believed
  <2>1. ASSUME NEW w \in Workers, WorkerStep(w)  PROVE job' \notin {"SUBMITTED", "ACCEPTED"}
    BY <2>0, <2>1
       DEF WorkerStep, PopExecute, StartExecution, RunExecution, EvaluateAcceptance, FailExecution,
           ReportExecution, ReportFailure, PopSubmit, OpenSubmission, LookForSubmission,
           CreateSubmission, PostSubmission, RecordSubmission, TransitionSubmitted, MarkUnknown,
           ReportSubmission
  <2>2. ASSUME NEW p \in Procs, QueueStep(p) \/ Crash(p)  PROVE job' = job
    BY <2>2 DEF QueueStep, EnqueueExecute, MarkQueued, EnqueueSubmit, MarkSubmitting, Crash
  <2>3. WatcherStep \/ Watchdog \/ WatchdogDies => job' = job
    BY <2>0 DEF WatcherStep, PlanAwardedJob, OfferSubmission, SeeDelivered, SyncJob,
                ReconcileSubmission, Watchdog, RecoverExecution, SeeStalePlan, RecoverPlan,
                SeeStaleSubmission, ReadSubmission, RecoverSubmission, WatchdogDies
  <2>4. RetryFailedPlan => job' = "AWARDED"
    BY DEF RetryFailedPlan
  <2>5. ASSUME NEW event \in {"revision", "approved"}, ProcessWebhook(event) \/ RemoteDecides(event)
        PROVE  job' = job
    BY <2>0, <2>5 DEF ProcessWebhook, RemoteDecides
  <2> QED BY <2>0, <2>1, <2>2, <2>3, <2>4, <2>5 DEF Next, Webhook, vars
<1>3. ~Recorded'
  <2>0. /\ ~Recorded /\ task[Watcher].step # "sync" /\ \A w \in Workers : task[w].step # "record"
    BY DEF Believed
  <2>1. UNCHANGED submissions => ~Recorded'
    BY <2>0 DEF Recorded
  <2>2. ASSUME NEW w \in Workers, WorkerStep(w), ~CreateSubmission(w), ~MarkUnknown(w)
        PROVE  UNCHANGED submissions
    BY <2>0, <2>2
       DEF WorkerStep, PopExecute, StartExecution, RunExecution, EvaluateAcceptance,
           ReportExecution, ReportFailure, PopSubmit, OpenSubmission, LookForSubmission,
           PostSubmission, RecordSubmission, TransitionSubmitted, ReportSubmission
  <2>3. ASSUME NEW w \in Workers, CreateSubmission(w)  PROVE ~Recorded'
    BY <1>0, <2>0, <2>3, AppendProperties DEF CreateSubmission, Recorded
  <2>4. ASSUME NEW w \in Workers, MarkUnknown(w)  PROVE ~Recorded'
    <3>1. submissions' = [submissions EXCEPT ![task[w].version].status = "UNKNOWN_REMOTE_STATE"]
      BY <2>4 DEF MarkUnknown
    <3>2. \A v \in DOMAIN submissions : submissions[v] \in Sent(Len(executions))
      BY <1>0
    <3>3. \A v \in DOMAIN submissions' :
             v \in DOMAIN submissions
             /\ submissions'[v].status \in {submissions[v].status, "UNKNOWN_REMOTE_STATE"}
      BY <3>1, <3>2 DEF Sent
    <3> QED BY <2>0, <3>3 DEF Recorded
  <2>5. ASSUME NEW p \in Procs, QueueStep(p) \/ Crash(p)  PROVE UNCHANGED submissions
    BY <2>5 DEF QueueStep, EnqueueExecute, MarkQueued, EnqueueSubmit, MarkSubmitting, Crash
  <2>6. WatcherStep \/ WatchdogDies \/ RetryFailedPlan \/ Webhook
           \/ (\E event \in {"revision", "approved"} : RemoteDecides(event))
           \/ (Watchdog /\ ~RecoverSubmission) => UNCHANGED submissions
    BY <2>0 DEF WatcherStep, PlanAwardedJob, OfferSubmission, SeeDelivered, SyncJob,
                ReconcileSubmission, Watchdog, RecoverExecution, SeeStalePlan, RecoverPlan,
                SeeStaleSubmission, ReadSubmission, WatchdogDies, RetryFailedPlan,
                Webhook, ProcessWebhook, RemoteDecides
  <2>7. RecoverSubmission => ~Recorded'
    <3> SUFFICES ASSUME RecoverSubmission PROVE ~Recorded'
      OBVIOUS
    <3>1. submissions' = [v \in DOMAIN submissions |->
              IF v = watch.version
              THEN [submissions[v] EXCEPT !.status = "UNKNOWN_REMOTE_STATE"] ELSE submissions[v]]
      BY DEF RecoverSubmission
    <3>2. \A v \in DOMAIN submissions : submissions[v] \in Sent(Len(executions))
      BY <1>0
    <3>3. \A v \in DOMAIN submissions' :
             v \in DOMAIN submissions
             /\ submissions'[v].status \in {submissions[v].status, "UNKNOWN_REMOTE_STATE"}
      BY <3>1, <3>2 DEF Sent
    <3> QED BY <2>0, <3>3 DEF Recorded
  <2> QED BY <2>1, <2>2, <2>3, <2>4, <2>5, <2>6, <2>7 DEF Next, vars
<1>4. watch'.next # "SUBMITTED"
  <2>0. watch.next # "SUBMITTED" /\ ~Recorded /\ SafePlanState # "SUBMITTED"
    BY DEF Believed, SafePlanState
  <2>1. SeeStalePlan \/ RecoverPlan \/ SeeStaleSubmission \/ RecoverSubmission \/ WatchdogDies
           => watch'.next # "SUBMITTED"
    <3>1. Watching.next = "NONE" /\ [Watching EXCEPT !.step = "read"].next = "NONE"
      BY DEF Watching
    <3>2. [Watching EXCEPT !.step = "plan", !.next = SafePlanState].next = SafePlanState
      BY DEF Watching
    <3> QED
      BY <2>0, <3>1, <3>2
         DEF SeeStalePlan, RecoverPlan, SeeStaleSubmission, RecoverSubmission, WatchdogDies
  <2>2. ReadSubmission => watch'.next # "SUBMITTED"
    BY <1>0, <2>0 DEF ReadSubmission, SubmissionVerdict, Recorded
  <2>3. ASSUME NEW w \in Workers, WorkerStep(w)  PROVE watch' = watch
    BY <2>3
       DEF WorkerStep, PopExecute, StartExecution, RunExecution, EvaluateAcceptance,
           ReportExecution, ReportFailure, PopSubmit, OpenSubmission, LookForSubmission,
           CreateSubmission, PostSubmission, RecordSubmission, TransitionSubmitted, MarkUnknown,
           ReportSubmission
  <2>4. ASSUME NEW p \in Procs, QueueStep(p) \/ Crash(p)  PROVE watch' = watch
    BY <2>4 DEF QueueStep, EnqueueExecute, MarkQueued, EnqueueSubmit, MarkSubmitting, Crash
  <2>5. WatcherStep \/ RetryFailedPlan \/ Webhook
           \/ (\E event \in {"revision", "approved"} : RemoteDecides(event))
           \/ (\E a \in DOMAIN executions : RecoverExecution(a)) => watch' = watch
    BY DEF WatcherStep, PlanAwardedJob, OfferSubmission, SeeDelivered, SyncJob,
           ReconcileSubmission, RecoverExecution, RetryFailedPlan, Webhook, ProcessWebhook, RemoteDecides
  <2> QED BY <2>0, <2>1, <2>2, <2>3, <2>4, <2>5 DEF Next, Watchdog, vars
<1>5. task'[Watcher].step # "sync" /\ remote'.status = "in_progress" /\ remote'.events = {}
  <2>0. /\ remote.status = "in_progress" /\ remote.events = {} /\ task[Watcher].step # "sync"
    BY DEF Believed
  <2>1. remote' = remote
    <3>1. \A event : ~ProcessWebhook(event) /\ ~RemoteDecides(event)
      BY <2>0 DEF ProcessWebhook, RemoteDecides
    <3>2. ASSUME NEW w \in Workers, PostSubmission(w)  PROVE remote' = remote
      BY <1>0, <1>a, <3>2 DEF PostSubmission, Remote
    <3>3. ASSUME NEW w \in Workers, WorkerStep(w), ~PostSubmission(w)  PROVE remote' = remote
      BY <3>3 DEF WorkerStep, PopExecute, StartExecution, RunExecution, EvaluateAcceptance,
                  ReportExecution, ReportFailure, PopSubmit, OpenSubmission, LookForSubmission,
                  CreateSubmission, RecordSubmission, TransitionSubmitted, MarkUnknown, ReportSubmission
    <3>4. ASSUME NEW p \in Procs, QueueStep(p) \/ Crash(p)  PROVE remote' = remote
      BY <3>4 DEF QueueStep, EnqueueExecute, MarkQueued, EnqueueSubmit, MarkSubmitting, Crash
    <3>5. WatcherStep \/ Watchdog \/ WatchdogDies \/ RetryFailedPlan => remote' = remote
      BY DEF WatcherStep, PlanAwardedJob, OfferSubmission, SeeDelivered, SyncJob,
              ReconcileSubmission, Watchdog, RecoverExecution, SeeStalePlan, RecoverPlan,
              SeeStaleSubmission, ReadSubmission, RecoverSubmission, WatchdogDies, RetryFailedPlan
    <3> QED BY <3>1, <3>2, <3>3, <3>4, <3>5 DEF Next, Webhook, vars
  <2>2. task'[Watcher].step # "sync"
    <3>1. task[Watcher] \in TaskRow(Len(executions), Len(submissions))
      BY <1>0
    <3>2. ASSUME NEW w \in Workers, WorkerStep(w)  PROVE task'[Watcher] = task[Watcher]
      BY <1>0, <3>2
         DEF WorkerStep, PopExecute, StartExecution, RunExecution, EvaluateAcceptance, FailExecution,
             ReportExecution, ReportFailure, PopSubmit, OpenSubmission, LookForSubmission,
             CreateSubmission, PostSubmission, RecordSubmission, TransitionSubmitted, MarkUnknown,
             ReportSubmission, Goto, Finish
    <3>3. ASSUME NEW p \in Procs, QueueStep(p) \/ Crash(p)  PROVE task'[Watcher].step # "sync"
      <4>1. CASE p # Watcher
        BY <1>0, <2>0, <3>3, <4>1
           DEF QueueStep, EnqueueExecute, MarkQueued, EnqueueSubmit, MarkSubmitting, Crash, Goto, Finish
      <4>2. CASE p = Watcher
        BY <1>0, <2>0, <3>1, <3>3, <4>2
           DEF QueueStep, EnqueueExecute, MarkQueued, EnqueueSubmit, MarkSubmitting, Crash, Goto, Finish,
               Idle, TaskRow
      <4> QED BY <4>1, <4>2
    <3>4. WatcherStep => task'[Watcher].step # "sync"
      BY <1>0, <2>0, <3>1
         DEF WatcherStep, PlanAwardedJob, OfferSubmission, SeeDelivered, SyncJob,
             ReconcileSubmission, Goto, Finish, Idle, TaskRow
    <3>5. Watchdog \/ WatchdogDies \/ RetryFailedPlan \/ Webhook
             \/ (\E event \in {"revision", "approved"} : RemoteDecides(event))
             => task'[Watcher] = task[Watcher]
      BY <1>0 DEF Watchdog, RecoverExecution, SeeStalePlan, RecoverPlan, SeeStaleSubmission,
                  ReadSubmission, RecoverSubmission, WatchdogDies, RetryFailedPlan, Webhook,
                  ProcessWebhook, RemoteDecides, Goto
    <3> QED BY <2>0, <3>2, <3>3, <3>4, <3>5 DEF Next, vars
  <2> QED BY <2>0, <2>1, <2>2
<1>6. plan'.status # "SUBMITTED"
  <2>0. /\ plan.status # "SUBMITTED" /\ ~Recorded /\ job # "SUBMITTED" /\ watch.next # "SUBMITTED"
        /\ SafePlanState # "SUBMITTED" /\ \A w \in Workers : task[w].step # "submitted"
    BY DEF Believed, SafePlanState
  <2>1. \A status : SetPlan(status) => plan'.status = status
    BY <1>0 DEF SetPlan, PlanRow
  <2>2. ASSUME NEW w \in Workers, WorkerStep(w)  PROVE plan'.status # "SUBMITTED"
    BY <2>0, <2>1, <2>2
       DEF WorkerStep, PopExecute, StartExecution, RunExecution, EvaluateAcceptance,
           ReportExecution, ReportFailure, PopSubmit, OpenSubmission, LookForSubmission,
           CreateSubmission, PostSubmission, RecordSubmission, TransitionSubmitted, MarkUnknown,
           ReportSubmission
  <2>3. ASSUME NEW p \in Procs, QueueStep(p) \/ Crash(p)  PROVE plan'.status # "SUBMITTED"
    BY <2>0, <2>1, <2>3
       DEF QueueStep, EnqueueExecute, MarkQueued, EnqueueSubmit, MarkSubmitting, Crash
  <2>4. WatcherStep => plan'.status # "SUBMITTED"
    BY <2>0, <2>1 DEF WatcherStep, PlanAwardedJob, OfferSubmission, SeeDelivered, SyncJob,
                      ReconcileSubmission
  <2>5. Watchdog => plan'.status # "SUBMITTED"
    BY <2>0, <2>1 DEF Watchdog, RecoverExecution, SeeStalePlan, RecoverPlan, SeeStaleSubmission,
                      ReadSubmission, RecoverSubmission
  <2>6. WatchdogDies \/ RetryFailedPlan \/ Webhook
           \/ (\E event \in {"revision", "approved"} : RemoteDecides(event))
           => plan'.status # "SUBMITTED"
    BY <2>0, <2>1 DEF WatchdogDies, RetryFailedPlan, Webhook, ProcessWebhook, RemoteDecides
  <2> QED BY <2>0, <2>2, <2>3, <2>4, <2>5, <2>6 DEF Next, vars
<1> QED BY <1>1, <1>2, <1>3, <1>4, <1>5, <1>6 DEF Believed

(* For any number of workers and whatever dies: the job is SUBMITTED or    *)
(* ACCEPTED, a submission recorded or the plan SUBMITTED only when the     *)
(* marketplace did get the work (submission.py, recovery.py, the watcher). *)
THEOREM DeliveryIsTrue == Spec => []DeliveredJobWasPosted
<1>1. Init => BelievedIsTrue
  BY ProcsAssumption
     DEF Init, BelievedIsTrue, Believed, Recorded, Idle, Watching, Procs
<1>2. BelievedIsTrue => DeliveredJobWasPosted
  BY DEF BelievedIsTrue, Believed, DeliveredJobWasPosted
<1>3. Init => HasRows
  BY DEF Init, HasRows, Idle, OnExecution, OnSubmission, Procs
<1> QED
  BY <1>1, <1>2, <1>3, TypedInitially, TypedKept, HasRowsKept, BeliefKept, PTL DEF Spec

(* Which steps write the rows of submissions, and how.                     *)
LEMMA SubmissionsMove ==
    ASSUME Typed, [Next]_vars
    PROVE  \/ \E w \in Workers : CreateSubmission(w)
           \/ /\ Len(submissions') = Len(submissions) /\ DOMAIN submissions' = DOMAIN submissions
              /\ \A v \in DOMAIN submissions : submissions'[v].attempt = submissions[v].attempt
<1> DEFINE Same == /\ Len(submissions') = Len(submissions) /\ DOMAIN submissions' = DOMAIN submissions
                   /\ \A v \in DOMAIN submissions : submissions'[v].attempt = submissions[v].attempt
<1>0. submissions \in Seq(Sent(Len(executions)))
  BY DEF Typed
<1>1. UNCHANGED submissions => Same
  OBVIOUS
<1>2. ASSUME submissions' = [v \in DOMAIN submissions |-> submissions'[v]],
             \A v \in DOMAIN submissions :
               \/ submissions'[v] = submissions[v]
               \/ \E status \in ActiveSubmission :
                     submissions'[v] = [submissions[v] EXCEPT !.status = status]
      PROVE  Same
  BY <1>0, <1>2, WriteSent
<1> HIDE DEF Same
<1>3. ASSUME NEW w \in Workers, RecordSubmission(w) \/ MarkUnknown(w)  PROVE Same
  <2>1. PICK status \in ActiveSubmission :
            submissions' = [submissions EXCEPT ![task[w].version].status = status]
    BY <1>3 DEF RecordSubmission, MarkUnknown, ActiveSubmission
  <2>2. /\ submissions' = [v \in DOMAIN submissions |-> submissions'[v]]
        /\ \A v \in DOMAIN submissions :
               \/ submissions'[v] = submissions[v]
               \/ submissions'[v] = [submissions[v] EXCEPT !.status = status]
    BY <1>0, <2>1
  <2> QED BY <1>2, <2>2
<1>4. ASSUME SyncJob, ~UNCHANGED submissions  PROVE Same
  BY <1>2, <1>4 DEF SyncJob, ActiveSubmission
<1>5. ASSUME RecoverSubmission  PROVE Same
  BY <1>2, <1>5 DEF RecoverSubmission, ActiveSubmission
<1>6. ASSUME NEW w \in Workers, WorkerStep(w), ~CreateSubmission(w), ~MarkUnknown(w), ~RecordSubmission(w)
      PROVE  UNCHANGED submissions
  BY <1>6
     DEF WorkerStep, PopExecute, StartExecution, RunExecution, EvaluateAcceptance,
         ReportExecution, ReportFailure, PopSubmit, OpenSubmission, LookForSubmission,
         PostSubmission, TransitionSubmitted, ReportSubmission
<1>7. ASSUME NEW p \in Procs, QueueStep(p) \/ Crash(p)  PROVE UNCHANGED submissions
  BY <1>7 DEF QueueStep, EnqueueExecute, MarkQueued, EnqueueSubmit, MarkSubmitting, Crash
<1>8. (WatcherStep /\ ~SyncJob) \/ WatchdogDies \/ RetryFailedPlan \/ Webhook
         \/ (\E event \in {"revision", "approved"} : RemoteDecides(event))
         \/ (Watchdog /\ ~RecoverSubmission) => UNCHANGED submissions
  BY DEF WatcherStep, PlanAwardedJob, OfferSubmission, SeeDelivered,
         ReconcileSubmission, Watchdog, RecoverExecution, SeeStalePlan, RecoverPlan,
         SeeStaleSubmission, ReadSubmission, WatchdogDies, RetryFailedPlan,
         Webhook, ProcessWebhook, RemoteDecides
<1>9. (\E w \in Workers : CreateSubmission(w)) \/ Same
  BY <1>1, <1>3, <1>4, <1>5, <1>6, <1>7, <1>8 DEF Next, vars
<1> QED BY <1>9 DEF Same

(* And executions.                                                         *)
Finishes(a) == executions[a].status # "EXECUTING" => executions'[a].status # "EXECUTING"

LEMMA ExecutionsMove ==
    ASSUME Typed, HasRows, [Next]_vars
    PROVE  \/ UNCHANGED executions
           \/ /\ \E w \in Workers : StartExecution(w) /\ job' = "EXECUTING"
                     /\ task'[w].step = "run" /\ (job = "AWARDED" \/ task[w].repair)
              /\ executions' = Append(executions, [status |-> "EXECUTING", ready |-> "none"])
           \/ /\ Len(executions') = Len(executions) /\ DOMAIN executions' = DOMAIN executions
              /\ \E a \in DOMAIN executions :
                    /\ \A b \in DOMAIN executions : b # a => executions'[b] = executions[b]
                    /\ Finishes(a)
                    /\ \/ \E w \in Workers : RunExecution(w) /\ a = task[w].attempt
                             /\ executions'[a].status # "EXECUTING"
                       \/ \E w \in Workers : EvaluateAcceptance(w) /\ a = task[w].attempt
                       \/ \E w \in Workers : OpenSubmission(w) /\ a = LatestPassed
                             /\ executions'[a].status = executions[a].status
                             /\ executions[a].ready = "yes" => executions'[a].ready = "yes"
                       \/ RecoverExecution(a) /\ executions'[a].status = "FAILED"
<1> DEFINE Written(a) == /\ Len(executions') = Len(executions) /\ DOMAIN executions' = DOMAIN executions
                         /\ \A b \in DOMAIN executions : b # a => executions'[b] = executions[b]
<1>0. /\ executions \in Seq(Work) /\ DOMAIN executions = 1..Len(executions) /\ Len(executions) \in Nat
      /\ \A w \in Workers : task[w] \in TaskRow(Len(executions), Len(submissions))
      /\ task \in [Procs -> TaskRow(Len(executions), Len(submissions))]
      /\ Workers \subseteq Procs
  BY DEF Typed, Procs
<1>1. ASSUME NEW a \in DOMAIN executions, NEW x \in Work, executions' = [executions EXCEPT ![a] = x]
      PROVE  Written(a) /\ executions'[a] = x
  BY <1>0, <1>1, WriteWork
<1> HIDE DEF Written
<1>2. ASSUME NEW w \in Workers, StartExecution(w), ~UNCHANGED executions
      PROVE  /\ job' = "EXECUTING" /\ task'[w].step = "run" /\ (job = "AWARDED" \/ task[w].repair)
             /\ executions' = Append(executions, [status |-> "EXECUTING", ready |-> "none"])
  <2>1. /\ job' = "EXECUTING" /\ (job = "AWARDED" \/ task[w].repair)
        /\ executions' = Append(executions, [status |-> "EXECUTING", ready |-> "none"])
        /\ task' = [task EXCEPT ![w] = [@ EXCEPT !.step = "run", !.attempt = Len(executions) + 1]]
    BY <1>2 DEF StartExecution
  <2>2. task'[w].step = "run"
    BY <1>0, <2>1 DEF TaskRow
  <2> QED BY <2>1, <2>2
<1>3. ASSUME NEW w \in Workers, RunExecution(w) \/ EvaluateAcceptance(w)
      PROVE  LET a == task[w].attempt
             IN  /\ a \in DOMAIN executions /\ Written(a) /\ Finishes(a)
                 /\ RunExecution(w) => executions'[a].status # "EXECUTING"
  <2> DEFINE a == task[w].attempt
  <2>1. a \in DOMAIN executions
    BY <1>0, <1>3 DEF HasRows, OnExecution, RunExecution, EvaluateAcceptance, TaskRow
  <2>2. executions[a] \in Work
    BY <1>0, <2>1
  <2>3. ASSUME NEW status \in ExecutionStatuses, NEW ready \in {"none", "yes", "no"},
               SetExecution(w, status, ready)
        PROVE  Written(a) /\ executions'[a].status = status
    BY <1>1, <2>1, <2>3 DEF SetExecution, Work
  <2> HIDE DEF a
  <2>4. CASE FailExecution(w)
    <3>1. SetExecution(w, IF executions[a].status = "EXECUTING" THEN "FAILED" ELSE executions[a].status,
                       executions[a].ready)
      BY <2>4 DEF FailExecution, a
    <3>2. (IF executions[a].status = "EXECUTING" THEN "FAILED" ELSE executions[a].status)
             \in ExecutionStatuses \ {"EXECUTING"} /\ executions[a].ready \in {"none", "yes", "no"}
      BY <2>2 DEF Work, ExecutionStatuses
    <3>3. Written(a) /\ executions'[a].status # "EXECUTING"
      BY <2>3, <3>1, <3>2
    <3> QED BY <2>1, <3>3 DEF a, Finishes
  <2>5. CASE ~FailExecution(w)
    <3>1. PICK status \in ExecutionStatuses \ {"EXECUTING"}, ready \in {"none", "yes", "no"} :
              SetExecution(w, status, ready)
      BY <1>3, <2>5 DEF RunExecution, EvaluateAcceptance, FinalStatus, ExecutionStatuses
    <3>2. Written(a) /\ executions'[a].status # "EXECUTING"
      BY <2>3, <3>1
    <3> QED BY <2>1, <3>2 DEF a, Finishes
  <2> QED BY <2>4, <2>5
<1>4. ASSUME NEW w \in Workers, OpenSubmission(w), ~UNCHANGED executions
      PROVE  LET a == LatestPassed
             IN  /\ a \in DOMAIN executions /\ Written(a) /\ Finishes(a)
                 /\ executions'[a].status = executions[a].status
                 /\ executions[a].ready = "yes" => executions'[a].ready = "yes"
  <2> DEFINE a == LatestPassed
  <2>1. PICK verdict \in {"yes", "no"} :
            /\ PassedExecutions # {} /\ executions[a].ready \in {"none", verdict}
            /\ executions' = [executions EXCEPT ![a].ready = verdict]
    BY <1>4 DEF OpenSubmission
  <2>2. a \in DOMAIN executions
    BY <1>0, <2>1, LatestIsPassed DEF PassedExecutions
  <2>3. executions[a] \in Work
    BY <1>0, <2>2
  <2> HIDE DEF a
  <2>4. [executions[a] EXCEPT !.ready = verdict] \in Work
    BY <2>3 DEF Work
  <2>5. Written(a) /\ executions'[a] = [executions[a] EXCEPT !.ready = verdict]
    BY <1>1, <2>1, <2>2, <2>4
  <2>6. executions'[a].status = executions[a].status /\ executions'[a].ready = verdict
    BY <2>3, <2>5 DEF Work
  <2> QED BY <2>1, <2>2, <2>5, <2>6 DEF a, Finishes
<1>5. ASSUME NEW a \in DOMAIN executions, RecoverExecution(a)
      PROVE  Written(a) /\ executions'[a].status = "FAILED" /\ Finishes(a)
  <2>1. executions[a] \in Work
    BY <1>0
  <2>2. [executions[a] EXCEPT !.status = "FAILED"] \in Work
        /\ [executions[a] EXCEPT !.status = "FAILED"].status = "FAILED"
    BY <2>1 DEF Work, ExecutionStatuses
  <2> QED BY <1>1, <1>5, <2>2 DEF RecoverExecution, Finishes
<1>6. ASSUME NEW w \in Workers, WorkerStep(w), ~StartExecution(w), ~RunExecution(w),
             ~EvaluateAcceptance(w), ~OpenSubmission(w)
      PROVE  UNCHANGED executions
  BY <1>6
     DEF WorkerStep, PopExecute, ReportExecution, ReportFailure, PopSubmit, LookForSubmission,
         CreateSubmission, PostSubmission, RecordSubmission, TransitionSubmitted, MarkUnknown,
         ReportSubmission
<1>7. ASSUME NEW p \in Procs, QueueStep(p) \/ Crash(p)  PROVE UNCHANGED executions
  BY <1>7 DEF QueueStep, EnqueueExecute, MarkQueued, EnqueueSubmit, MarkSubmitting, Crash
<1>8. WatcherStep \/ WatchdogDies \/ RetryFailedPlan \/ Webhook
         \/ (\E event \in {"revision", "approved"} : RemoteDecides(event))
         \/ (Watchdog /\ ~\E a \in DOMAIN executions : RecoverExecution(a)) => UNCHANGED executions
  BY DEF WatcherStep, PlanAwardedJob, OfferSubmission, SeeDelivered, SyncJob,
         ReconcileSubmission, Watchdog, SeeStalePlan, RecoverPlan, RecoverSubmission,
         SeeStaleSubmission, ReadSubmission, WatchdogDies, RetryFailedPlan,
         Webhook, ProcessWebhook, RemoteDecides
<1> QED
  BY <1>2, <1>3, <1>4, <1>5, <1>6, <1>7, <1>8 DEF Next, vars, Written

(* One worker service runs (docker-compose.yml): what two at once would do *)
(* to a job the plan's status and the submission's row do not prevent.     *)
OneWorker == \A v, w \in Workers : v = w

(* At most one submission, made by a worker that found none, and at most   *)
(* one POST for it.                                                        *)
PostInv ==
    /\ Len(submissions) <= 1 /\ remote.posts <= Len(submissions)
    /\ \A w \in Workers :
          /\ task[w].step = "create" => Len(submissions) = 0
          /\ task[w].step = "post" => remote.posts = 0 /\ Len(submissions) = 1

LEMMA PostInvKept ==
    ASSUME OneWorker, Typed, HasRows, PostInv, [Next]_vars
    PROVE  PostInv'
<1>0. /\ task \in [Procs -> TaskRow(Len(executions), Len(submissions))] /\ Workers \subseteq Procs
      /\ submissions \in Seq(Sent(Len(executions))) /\ Len(submissions) \in Nat
      /\ remote \in Remote /\ remote.posts \in Nat
  BY DEF Typed, Procs, Remote
<1>1. ASSUME NEW w \in Workers, CreateSubmission(w)  PROVE PostInv'
  <2>1. Len(submissions) = 0 /\ remote.posts = 0
    BY <1>0, <1>1 DEF PostInv, CreateSubmission
  <2>2. submissions' = Append(submissions, [status |-> "SUBMITTING", attempt |-> task[w].attempt])
        /\ remote' = remote /\ task'[w].step = "post"
    BY <1>0, <1>1 DEF CreateSubmission, TaskRow
  <2>3. Len(submissions') = 1
    BY <1>0, <2>1, <2>2
  <2> QED BY <1>1, <2>1, <2>2, <2>3 DEF PostInv, OneWorker
<1>2. ASSUME NEW w \in Workers, PostSubmission(w)  PROVE PostInv'
  <2>1. remote.posts = 0 /\ Len(submissions) = 1 /\ submissions' = submissions
        /\ remote'.posts \in {0, 1}
    BY <1>0, <1>2, PostsStay DEF PostInv, PostSubmission
  <2>2. task'[w].step \in {"unknown", "record"}
    BY <1>0, <1>2 DEF PostSubmission, Goto, TaskRow
  <2> QED BY <1>2, <2>1, <2>2 DEF PostInv, OneWorker
<1>3. CASE \A w \in Workers : ~CreateSubmission(w) /\ ~PostSubmission(w)
  <2>1. remote'.posts = remote.posts
    BY <1>3, PostsStay
  <2>2. Len(submissions') = Len(submissions)
    BY <1>3, SubmissionsMove
  <2>3. ASSUME NEW w \in Workers
        PROVE  /\ task'[w].step = "post" => task[w].step = "post"
               /\ task'[w].step = "create" => task[w].step = "create" \/ Len(submissions) = 0
    <3>1. Active = {} => Len(submissions) = 0
      <4>1. \A v \in DOMAIN submissions : submissions[v] \in Sent(Len(executions))
        BY <1>0
      <4>2. \A v \in DOMAIN submissions : v \in Active
        BY <4>1 DEF Active, Sent
      <4>3. Len(submissions) # 0 => 1 \in DOMAIN submissions
        BY <1>0
      <4> QED BY <4>2, <4>3
    <3> QED BY <1>3, <3>1, TaskMoves
  <2> QED BY <2>1, <2>2, <2>3 DEF PostInv
<1> QED BY <1>1, <1>2, <1>3

(* README.md:164: whatever dies, is lost or answered late, the work of a   *)
(* job reaches the marketplace once when it is recorded as delivered and   *)
(* at most once otherwise, as long as one worker serves the queues.        *)
THEOREM DeliversOnce == ASSUME OneWorker PROVE Spec => []DeliveredOnce
<1>1. Init => PostInv
  BY DEF Init, PostInv, Idle, Procs
<1>2. Init => HasRows
  BY DEF Init, HasRows, Idle, OnExecution, OnSubmission, Procs
<1>3. Typed /\ PostInv => OneRemotePost
  BY DEF Typed, PostInv, OneRemotePost, Remote
<1>4. Typed /\ HasRows /\ PostInv /\ [Next]_vars => PostInv'
  BY PostInvKept
<1> QED
  BY <1>1, <1>2, <1>3, <1>4, TypedInitially, TypedKept, HasRowsKept, DeliveryIsTrue, PTL
     DEF Spec, DeliveredOnce

-----------------------------------------------------------------------------
(* Repair.                                                                 *)

(* Every execution is the first, follows a retry or is a counted repair;   *)
(* an awarded job and a repair taken up have not used theirs yet.          *)
RepairInv ==
    /\ RepairIsBounded
    /\ job = "AWARDED" => Len(executions) <= reopened + plan.repairs
    /\ \A w \in Workers : task[w].step = "start" /\ task[w].repair =>
          /\ Len(executions) <= reopened + plan.repairs
          /\ job = "AWARDED" => Len(executions) + 1 <= reopened + plan.repairs

(* What the bound counts, and the steps that change it.                    *)
LEMMA CountsMove ==
    ASSUME Typed, [Next]_vars
    PROVE  \/ \E w \in Workers : PopExecute(w) /\ plan.status = "NEEDS_REPAIR"
                /\ plan'.repairs = plan.repairs + 1 /\ plan.repairs < MaxRepairs
                /\ UNCHANGED <<job, reopened>>
           \/ RetryFailedPlan /\ job' = "AWARDED" /\ reopened' = reopened + 1
                /\ plan'.repairs = plan.repairs
           \/ /\ plan'.repairs = plan.repairs /\ reopened' = reopened
              /\ job' = "AWARDED" => job = "AWARDED"
<1> DEFINE Same == /\ plan'.repairs = plan.repairs /\ reopened' = reopened
                   /\ job' = "AWARDED" => job = "AWARDED"
<1>0. plan \in PlanRow /\ plan.repairs \in Nat
  BY BoundsAssumption DEF Typed, PlanRow
<1>1. \A status : SetPlan(status) => plan'.repairs = plan.repairs
  BY <1>0 DEF SetPlan, PlanRow
<1>2. UNCHANGED plan => plan'.repairs = plan.repairs
  OBVIOUS
<1>3. ASSUME NEW w \in Workers, PopExecute(w)
      PROVE  \/ plan'.repairs = plan.repairs
             \/ plan.status = "NEEDS_REPAIR" /\ plan'.repairs = plan.repairs + 1
                  /\ plan.repairs < MaxRepairs
  BY <1>0, <1>1, <1>3 DEF PopExecute, RepairsAfter, RepairAllowed
<1>4. ASSUME NEW w \in Workers, PopExecute(w)  PROVE UNCHANGED <<job, reopened>>
  BY <1>4 DEF PopExecute
<1>5. ASSUME NEW w \in Workers, WorkerStep(w), ~PopExecute(w)  PROVE Same
  BY <1>1, <1>2, <1>5
     DEF WorkerStep, StartExecution, RunExecution, EvaluateAcceptance, FailExecution,
         ReportExecution, ReportFailure, PopSubmit, OpenSubmission, LookForSubmission,
         CreateSubmission, PostSubmission, RecordSubmission, TransitionSubmitted, MarkUnknown,
         ReportSubmission
<1>6. ASSUME NEW p \in Procs, QueueStep(p) \/ Crash(p)  PROVE Same
  BY <1>1, <1>2, <1>6 DEF QueueStep, EnqueueExecute, MarkQueued, EnqueueSubmit, MarkSubmitting, Crash
<1>7. WatcherStep \/ Watchdog => Same
  BY <1>1, <1>2
     DEF WatcherStep, PlanAwardedJob, OfferSubmission, SeeDelivered, SyncJob, ReconcileSubmission,
         Watchdog, RecoverExecution, SeeStalePlan, RecoverPlan, SeeStaleSubmission,
         ReadSubmission, RecoverSubmission
<1>8. WatchdogDies \/ Webhook \/ (\E event \in {"revision", "approved"} : RemoteDecides(event)) => Same
  BY <1>2 DEF WatchdogDies, Webhook, ProcessWebhook, RemoteDecides
<1>9. RetryFailedPlan => job' = "AWARDED" /\ reopened' = reopened + 1 /\ plan'.repairs = plan.repairs
  BY <1>1 DEF RetryFailedPlan
<1>10. UNCHANGED vars => Same
  BY DEF vars
<1> HIDE DEF Same
<1>11. Same \/ (\E w \in Workers : PopExecute(w)) \/ RetryFailedPlan
  BY <1>5, <1>6, <1>7, <1>8, <1>10 DEF Next
<1> QED BY <1>3, <1>4, <1>9, <1>11 DEF Same

LEMMA RepairInvKept ==
    ASSUME OneWorker, Typed, HasRows, RepairInv, [Next]_vars
    PROVE  RepairInv'
<1>0. /\ plan.repairs \in Nat /\ MaxRepairs \in Nat /\ reopened \in Nat /\ Len(executions) \in Nat
      /\ executions \in Seq(Work)
  BY BoundsAssumption DEF Typed, PlanRow
<1>1. \A w \in Workers : task'[w].step = "start" =>
          \/ task'[w] = task[w]
          \/ PopExecute(w) /\ (task'[w].repair <=> plan.status = "NEEDS_REPAIR")
  BY TaskMoves
<1>2. CASE Len(executions') = Len(executions)
  <2>1. ASSUME NEW w \in Workers, PopExecute(w), plan.status = "NEEDS_REPAIR",
               plan'.repairs = plan.repairs + 1, plan.repairs < MaxRepairs,
               UNCHANGED <<job, reopened>>
        PROVE  RepairInv'
    BY <1>0, <1>2, <2>1 DEF RepairInv, RepairIsBounded
  <2>2. CASE RetryFailedPlan /\ job' = "AWARDED" /\ reopened' = reopened + 1
             /\ plan'.repairs = plan.repairs
    <3>1. job # "AWARDED" /\ \A w \in Workers : ~PopExecute(w)
      BY <1>0, <2>2 DEF RetryFailedPlan, RetryIsSafe, PopExecute
    <3> QED BY <1>0, <1>1, <1>2, <2>2, <3>1 DEF RepairInv, RepairIsBounded
  <2>3. CASE /\ plan'.repairs = plan.repairs /\ reopened' = reopened
             /\ job' = "AWARDED" => job = "AWARDED"
    <3>1. ASSUME NEW w \in Workers, PopExecute(w), task'[w].step = "start", task'[w].repair,
                 task'[w] # task[w]
          PROVE  FALSE
      BY <1>0, <1>1, <2>3, <3>1, TaskTypes DEF PopExecute, RepairsAfter, Typed, PlanRow
    <3> QED BY <1>0, <1>1, <1>2, <2>3, <3>1 DEF RepairInv, RepairIsBounded
  <2> QED BY <2>1, <2>2, <2>3, CountsMove
<1>3. ASSUME NEW w \in Workers, StartExecution(w), job' = "EXECUTING", task'[w].step = "run",
             job = "AWARDED" \/ task[w].repair,
             executions' = Append(executions, [status |-> "EXECUTING", ready |-> "none"])
      PROVE  RepairInv'
  <2>1. Len(executions') = Len(executions) + 1
    BY <1>0, <1>3
  <2>2. UNCHANGED <<plan, reopened>> /\ task[w].step = "start"
    BY <1>3 DEF StartExecution
  <2> QED BY <1>0, <1>3, <2>1, <2>2 DEF RepairInv, RepairIsBounded, OneWorker
<1> QED BY <1>2, <1>3, ExecutionsMove

(* README.md:31 "bounded repair": whatever dies and whatever the watchdog  *)
(* recovers, one worker runs a job's work at most once more than the       *)
(* operator's retries and the counted repairs.                             *)
THEOREM RepairsAreBounded == ASSUME OneWorker PROVE Spec => []RepairIsBounded
<1>1. Init => RepairInv
  BY BoundsAssumption DEF Init, RepairInv, RepairIsBounded, Idle, Procs
<1>2. Init => HasRows
  BY DEF Init, HasRows, Idle, OnExecution, OnSubmission, Procs
<1>3. Typed /\ HasRows /\ RepairInv /\ [Next]_vars => RepairInv'
  BY RepairInvKept
<1>4. RepairInv => RepairIsBounded
  BY DEF RepairInv
<1> QED
  BY <1>1, <1>2, <1>3, <1>4, TypedInitially, TypedKept, HasRowsKept, PTL DEF Spec

-----------------------------------------------------------------------------
(* One execution at a time, with a watchdog that is prompt.                *)

Held == {"start", "run", "evaluate", "report"}

(* What a worker in the middle of an execution may rely on.                *)
ExecutionHeld(w) ==
    /\ task[w].step = "run" => executions[task[w].attempt].status = "EXECUTING"
    /\ task[w].step \in {"evaluate", "report"} => NoExecuting
    /\ task[w].step \in {"run", "evaluate", "report"} => job \notin {"AWARDED", "FAILED"}
    /\ task[w].step = "start" /\ task[w].repair =>
          /\ NoExecuting
          /\ job = "AWARDED" \/ plan.status \notin {"READY", "QUEUED", "NEEDS_REPAIR"}

(* While something executes, nobody can start the job anew or repair it.   *)
JobHeld ==
    /\ ~NoExecuting => job # "AWARDED" /\ plan.status # "NEEDS_REPAIR"
    /\ job = "AWARDED" => plan.status # "NEEDS_REPAIR"

(* What a prompt watchdog has read is still so.                            *)
WatchHeld ==
    /\ watch.step = "plan" =>
          /\ watch.next = SafePlanState
          /\ plan.status = "QUEUED" \/ (plan.status = "EXECUTING" /\ ~Executing)
    /\ watch.step = "submission" =>
          watch.next \in {"QA_PASSED", "SUBMITTED", "SUBMISSION_RECONCILIATION"}

ExecInv ==
    /\ OneActiveExecution /\ JobHeld /\ WatchHeld
    /\ \A w \in Workers : ExecutionHeld(w)

(* What an action makes of the tasks.                                      *)
LEMMA GotoMoves ==
    ASSUME Typed, NEW p \in Procs, NEW step, Goto(p, step)
    PROVE  /\ task'[p].step = step /\ task'[p].attempt = task[p].attempt
           /\ task'[p].repair = task[p].repair /\ task'[p].version = task[p].version
           /\ \A q \in Procs \ {p} : task'[q] = task[q]
<1>1. task \in [Procs -> TaskRow(Len(executions), Len(submissions))]
  BY DEF Typed
<1> QED BY <1>1 DEF Goto, TaskRow

LEMMA FinishMoves ==
    ASSUME Typed, NEW p \in Procs, Finish(p)
    PROVE  task'[p].step = "idle" /\ \A q \in Procs \ {p} : task'[q] = task[q]
<1>1. task \in [Procs -> TaskRow(Len(executions), Len(submissions))]
  BY DEF Typed
<1> QED BY <1>1 DEF Finish, Idle

LEMMA SetPlanMoves ==
    ASSUME Typed, NEW status, SetPlan(status)
    PROVE  plan'.status = status /\ plan'.repairs = plan.repairs
<1>1. plan \in PlanRow
  BY DEF Typed
<1> QED BY <1>1 DEF SetPlan, PlanRow

(* Any step but the watchdog's finds it at rest.                           *)
LEMMA WatchdogRests ==
    ASSUME WatchdogIsPrompt, watch' = watch
    PROVE  watch = Watching /\ watch.step = "idle"
BY DEF WatchdogIsPrompt, Watching

(* Steps that hold up none of it.                                          *)
Unheld(status) ==
    \/ plan.status = status
    \/ status \notin {"READY", "QUEUED", "NEEDS_REPAIR"}
    \/ plan.status \in {"READY", "NEEDS_REPAIR"} /\ status = "QUEUED"
    \/ job = "AWARDED" /\ status = "READY"

LEMMA ExecFrame ==
    ASSUME ExecInv, UNCHANGED executions, watch'.step = "idle", Unheld(plan'.status),
           job' = job \/ {job, job'} \cap {"AWARDED", "FAILED"} = {},
           \A w \in Workers : task'[w] = task[w] \/ task'[w].step \notin Held
    PROVE  ExecInv'
<1>1. OneActiveExecution' /\ (NoExecuting' <=> NoExecuting)
  BY DEF ExecInv, OneActiveExecution, NoExecuting
<1>2. JobHeld'
  BY <1>1 DEF ExecInv, JobHeld, Unheld
<1>3. WatchHeld'
  BY DEF WatchHeld
<1>4. ASSUME NEW w \in Workers  PROVE ExecutionHeld(w)'
  <2>1. CASE task'[w].step \notin Held
    BY <2>1 DEF Held, ExecutionHeld
  <2>2. CASE task'[w] = task[w]
    <3>1. ExecutionHeld(w)
      BY DEF ExecInv
    <3> QED BY <1>1, <2>2, <3>1 DEF ExecutionHeld, Unheld
  <2> QED BY <2>1, <2>2
<1> QED BY <1>1, <1>2, <1>3, <1>4 DEF ExecInv

LEMMA QueueHoldsUp ==
    ASSUME Typed, ExecInv, WatchdogIsPrompt, NEW p \in Procs, QueueStep(p)
    PROVE  ExecInv'
<1>1. UNCHANGED <<job, executions, watch>>
  BY DEF QueueStep, EnqueueExecute, MarkQueued, EnqueueSubmit, MarkSubmitting
<1>2. Finish(p) \/ Goto(p, "markQueued") \/ Goto(p, "markSubmitting")
  BY DEF QueueStep, EnqueueExecute, MarkQueued, EnqueueSubmit, MarkSubmitting
<1>3. \A w \in Workers : task'[w] = task[w] \/ task'[w].step \notin Held
  BY <1>2, GotoMoves, FinishMoves DEF Held, Procs
<1>4. Unheld(plan'.status)
  <2>1. \/ UNCHANGED plan
        \/ SetPlan("BLOCKED")
        \/ plan.status \in {"READY", "NEEDS_REPAIR"} /\ SetPlan("QUEUED")
        \/ SetPlan("SUBMITTING")
    BY DEF QueueStep, EnqueueExecute, MarkQueued, EnqueueSubmit, MarkSubmitting
  <2> QED BY <2>1, SetPlanMoves DEF Unheld
<1> QED BY <1>1, <1>3, <1>4, WatchdogRests, ExecFrame

(* The gate's verdict is written beside the execution's status.            *)
LEMMA OpenWrites ==
    ASSUME Typed, NEW w \in Workers, OpenSubmission(w),
           ~UNCHANGED executions \/ task'[w].step = "look"
    PROVE  /\ job = "EXECUTING" /\ PassedExecutions # {} /\ LatestPassed \in PassedExecutions
           /\ Len(executions') = Len(executions) /\ DOMAIN executions' = DOMAIN executions
           /\ \A b \in DOMAIN executions :
                 /\ executions'[b].status = executions[b].status
                 /\ b # LatestPassed => executions'[b] = executions[b]
           /\ task'[w].step \in {"look", "submitFailed"} /\ task'[w].attempt = LatestPassed
           /\ task'[w].step = "look" => executions'[LatestPassed].ready = "yes"
           /\ executions[LatestPassed].ready = "yes" => executions'[LatestPassed].ready = "yes"
<1> DEFINE a == LatestPassed
<1>0. /\ task \in [Procs -> TaskRow(Len(executions), Len(submissions))] /\ w \in Procs
      /\ executions \in Seq(Work)
  BY DEF Typed, Procs
<1>1. PICK verdict \in {"yes", "no"} :
        /\ job = "EXECUTING" /\ PassedExecutions # {}
        /\ executions[a].ready \in {"none", verdict}
        /\ executions' = [executions EXCEPT ![a].ready = verdict]
        /\ task' = [task EXCEPT ![w] =
               [@ EXCEPT !.step = IF verdict = "yes" THEN "look" ELSE "submitFailed", !.attempt = a]]
  BY <1>0, GotoMoves DEF OpenSubmission
<1>2. a \in PassedExecutions /\ a \in DOMAIN executions /\ executions[a] \in Work
  BY <1>0, <1>1, LatestIsPassed DEF PassedExecutions
<1> HIDE DEF a
<1>3. /\ [executions[a] EXCEPT !.ready = verdict] \in Work
      /\ [executions[a] EXCEPT !.ready = verdict].status = executions[a].status
      /\ [executions[a] EXCEPT !.ready = verdict].ready = verdict
  BY <1>2 DEF Work
<1>4. /\ Len(executions') = Len(executions) /\ DOMAIN executions' = DOMAIN executions
      /\ executions'[a] = [executions[a] EXCEPT !.ready = verdict]
      /\ \A b \in DOMAIN executions : b # a => executions'[b] = executions[b]
  BY <1>0, <1>1, <1>2, <1>3, WriteWork
<1>5. /\ task'[w].step = (IF verdict = "yes" THEN "look" ELSE "submitFailed")
      /\ task'[w].attempt = a
  BY <1>0, <1>1 DEF TaskRow
<1>6. \A b \in DOMAIN executions :
          executions'[b].status = executions[b].status /\ (b # a => executions'[b] = executions[b])
  BY <1>3, <1>4
<1>7. /\ task'[w].step \in {"look", "submitFailed"}
      /\ task'[w].step = "look" => verdict = "yes"
      /\ executions'[a].ready = verdict
      /\ executions[a].ready = "yes" => verdict = "yes"
  <2>1. executions'[a].ready = verdict
    BY <1>3, <1>4
  <2>2. executions[a].ready = "yes" => verdict = "yes"
    BY <1>1
  <2> QED BY <1>5, <2>1, <2>2
<1> QED BY <1>1, <1>2, <1>4, <1>5, <1>6, <1>7 DEF a

LEMMA SubmittingHoldsUp ==
    ASSUME Typed, ExecInv, WatchdogIsPrompt, NEW w \in Workers, UNCHANGED executions,
           \/ PopSubmit(w) \/ OpenSubmission(w) \/ LookForSubmission(w) \/ CreateSubmission(w)
           \/ PostSubmission(w) \/ RecordSubmission(w) \/ TransitionSubmitted(w) \/ MarkUnknown(w)
           \/ ReportSubmission(w)
    PROVE  ExecInv'
<1>0. watch' = watch /\ w \in Procs /\ task \in [Procs -> TaskRow(Len(executions), Len(submissions))]
  BY DEF Typed, Procs, PopSubmit, OpenSubmission, LookForSubmission, CreateSubmission, PostSubmission,
         RecordSubmission, TransitionSubmitted, MarkUnknown, ReportSubmission
<1>1. ASSUME NEW v \in Workers  PROVE task'[v] = task[v] \/ task'[v].step \notin Held
  <2>1. CASE UNCHANGED task
    BY <2>1
  <2>2. CASE Finish(w)
    BY <1>0, <2>2, FinishMoves DEF Held, Procs
  <2>3. ASSUME NEW step \in Steps \ Held, Goto(w, step)  PROVE task'[v] = task[v] \/ task'[v].step \notin Held
    BY <1>0, <2>3, GotoMoves DEF Procs
  <2>4. ASSUME NEW step \in Steps \ Held, NEW n,
               \/ task' = [task EXCEPT ![w] = [@ EXCEPT !.step = step, !.attempt = n]]
               \/ task' = [task EXCEPT ![w] = [@ EXCEPT !.step = step, !.version = n]]
        PROVE  task'[v] = task[v] \/ task'[v].step \notin Held
    BY <1>0, <2>4 DEF Procs, TaskRow
  <2>5. CASE OpenSubmission(w)
    <3>1. "look" \in Steps \ Held /\ "submitted" \in Steps \ Held /\ "submitFailed" \in Steps \ Held
      BY DEF Steps, Held
    <3>2. Goto(w, "submitted") \/ Goto(w, "submitFailed")
             \/ \E step \in {"look", "submitFailed"} :
                   task' = [task EXCEPT ![w] = [@ EXCEPT !.step = step, !.attempt = LatestPassed]]
      BY <2>5 DEF OpenSubmission
    <3> QED BY <2>3, <2>4, <3>1, <3>2
  <2>6. CASE CreateSubmission(w)
    <3>1. "post" \in Steps \ Held
      BY DEF Steps, Held
    <3> QED BY <2>4, <2>6, <3>1 DEF CreateSubmission
  <2> QED
    BY <2>1, <2>2, <2>3, <2>5, <2>6
       DEF PopSubmit, LookForSubmission, PostSubmission, RecordSubmission, TransitionSubmitted,
           MarkUnknown, ReportSubmission, Steps, Held
<1>2. Unheld(plan'.status)
  <2>1. UNCHANGED plan
        \/ \E status \in {"SUBMITTED", "SUBMISSION_RECONCILIATION", "FAILED"} : SetPlan(status)
    BY DEF PopSubmit, OpenSubmission, LookForSubmission, CreateSubmission, PostSubmission,
           RecordSubmission, TransitionSubmitted, MarkUnknown, ReportSubmission
  <2> QED BY <2>1, SetPlanMoves DEF Unheld
<1>3. job' = job \/ {job, job'} \cap {"AWARDED", "FAILED"} = {}
  BY DEF PopSubmit, OpenSubmission, LookForSubmission, CreateSubmission, PostSubmission,
         RecordSubmission, TransitionSubmitted, MarkUnknown, ReportSubmission
<1>4. watch'.step = "idle"
  BY <1>0, WatchdogRests
<1> QED BY <1>1, <1>2, <1>3, <1>4, ExecFrame

LEMMA WatcherHoldsUp ==
    ASSUME Typed, ExecInv, WatchdogIsPrompt,
           WatcherStep \/ Webhook \/ (\E p \in Procs : Crash(p))
                \/ \E event \in {"revision", "approved"} : RemoteDecides(event)
    PROVE  ExecInv'
<1>0. watch' = watch /\ UNCHANGED executions /\ Watcher \in Procs
  BY DEF Procs, WatcherStep, PlanAwardedJob, OfferSubmission, SeeDelivered, SyncJob,
         ReconcileSubmission, Webhook, ProcessWebhook, Crash, RemoteDecides
<1>1. ASSUME NEW v \in Workers  PROVE task'[v] = task[v] \/ task'[v].step \notin Held
  <2>1. ASSUME NEW p \in Procs, NEW step \in Steps \ Held, UNCHANGED task \/ Finish(p) \/ Goto(p, step)
        PROVE  task'[v] = task[v] \/ task'[v].step \notin Held
    BY <2>1, FinishMoves, GotoMoves DEF Held, Procs
  <2> QED
    BY <1>0, <2>1
       DEF WatcherStep, PlanAwardedJob, OfferSubmission, SeeDelivered, SyncJob,
           ReconcileSubmission, Webhook, ProcessWebhook, Crash, RemoteDecides, Steps, Held
<1>2. Unheld(plan'.status)
  <2>1. \/ UNCHANGED plan
        \/ job = "AWARDED" /\ (\E status \in {"READY", "BLOCKED"} : SetPlan(status))
        \/ SetPlan("SUBMITTED")
    BY DEF WatcherStep, PlanAwardedJob, OfferSubmission, SeeDelivered, SyncJob,
           ReconcileSubmission, Webhook, ProcessWebhook, Crash, RemoteDecides
  <2> QED BY <2>1, SetPlanMoves DEF Unheld
<1>3. job' = job \/ {job, job'} \cap {"AWARDED", "FAILED"} = {}
  BY DEF WatcherStep, PlanAwardedJob, OfferSubmission, SeeDelivered, SyncJob,
         ReconcileSubmission, Webhook, ProcessWebhook, Crash, RemoteDecides
<1>4. watch'.step = "idle"
  BY <1>0, WatchdogRests
<1> QED BY <1>0, <1>1, <1>2, <1>3, <1>4, ExecFrame

LEMMA PopHoldsUp ==
    ASSUME OneWorker, Typed, ExecInv, WatchdogIsPrompt, NEW w \in Workers, PopExecute(w)
    PROVE  ExecInv'
<1>0. /\ UNCHANGED <<job, executions, watch>> /\ watch'.step = "idle"
      /\ w \in Procs /\ task \in [Procs -> TaskRow(Len(executions), Len(submissions))]
  BY WatchdogRests DEF PopExecute, Typed, Procs
<1>1. CASE UNCHANGED task /\ (UNCHANGED plan \/ SetPlan("BLOCKED"))
  <2>1. Unheld(plan'.status)
    BY <1>1, SetPlanMoves DEF Unheld
  <2> QED BY <1>0, <1>1, <2>1, ExecFrame
<1>2. ASSUME NEW repair \in BOOLEAN, repair <=> plan.status = "NEEDS_REPAIR",
             plan' = [status |-> "EXECUTING", repairs |-> RepairsAfter(repair)],
             task' = [task EXCEPT ![w] = [Idle EXCEPT !.step = "start", !.repair = repair]]
      PROVE  ExecInv'
  <2>1. plan'.status = "EXECUTING" /\ task'[w].step = "start" /\ task'[w].repair = repair
    BY <1>0, <1>2 DEF Idle
  <2>2. NoExecuting' = NoExecuting /\ OneActiveExecution' = OneActiveExecution
    BY <1>0 DEF NoExecuting, OneActiveExecution
  <2>3. JobHeld' /\ WatchHeld'
    BY <1>0, <2>1, <2>2 DEF ExecInv, JobHeld, WatchHeld
  <2>4. repair => NoExecuting
    BY <1>2 DEF ExecInv, JobHeld
  <2>5. \A v \in Workers : v = w
    BY DEF OneWorker
  <2>6. ExecutionHeld(w)'
    BY <2>1, <2>2, <2>4 DEF ExecutionHeld
  <2> QED BY <2>2, <2>3, <2>5, <2>6 DEF ExecInv
<1> QED BY <1>1, <1>2 DEF PopExecute

LEMMA StartHoldsUp ==
    ASSUME OneWorker, Typed, HasRows, ExecInv, WatchdogIsPrompt, NEW w \in Workers, StartExecution(w)
    PROVE  ExecInv'
<1>0. /\ UNCHANGED <<plan, watch>> /\ watch'.step = "idle" /\ task[w].step = "start"
      /\ w \in Procs /\ task \in [Procs -> TaskRow(Len(executions), Len(submissions))]
      /\ executions \in Seq(Work)
  BY WatchdogRests DEF StartExecution, Typed, Procs
<1>1. CASE Goto(w, "fail") /\ UNCHANGED <<job, executions>>
  <2>1. \A v \in Workers : task'[v] = task[v] \/ task'[v].step \notin Held
    BY <1>0, <1>1, GotoMoves DEF Procs, Held
  <2> QED BY <1>0, <1>1, <2>1, ExecFrame DEF Unheld
<1>2. CASE ~(Goto(w, "fail") /\ UNCHANGED <<job, executions>>)
  <2>1. /\ job = "AWARDED" \/ task[w].repair
        /\ executions' = Append(executions, [status |-> "EXECUTING", ready |-> "none"])
        /\ job' = "EXECUTING"
        /\ task' = [task EXCEPT ![w] = [@ EXCEPT !.step = "run", !.attempt = Len(executions) + 1]]
    BY <1>2 DEF StartExecution
  <2>2. [status |-> "EXECUTING", ready |-> "none"] \in Work
    BY DEF Work, ExecutionStatuses
  <2>3. /\ DOMAIN executions' = DOMAIN executions \cup {Len(executions) + 1}
        /\ executions'[Len(executions) + 1].status = "EXECUTING"
        /\ \A a \in DOMAIN executions : executions'[a] = executions[a] /\ a # Len(executions) + 1
    BY <1>0, <2>1, <2>2, AppendWork
  <2>4. NoExecuting /\ plan.status # "NEEDS_REPAIR"
    BY <1>0, <2>1 DEF ExecInv, JobHeld, ExecutionHeld
  <2>5. OneActiveExecution'
    BY <2>3, <2>4 DEF OneActiveExecution, NoExecuting
  <2>6. task'[w].step = "run" /\ task'[w].attempt = Len(executions) + 1
    BY <1>0, <2>1 DEF TaskRow
  <2>7. ExecutionHeld(w)'
    BY <2>1, <2>3, <2>6 DEF ExecutionHeld
  <2>8. JobHeld' /\ WatchHeld'
    BY <1>0, <2>1, <2>4 DEF JobHeld, WatchHeld
  <2> QED BY <2>5, <2>7, <2>8 DEF ExecInv, OneWorker
<1> QED BY <1>1, <1>2

(* A step that ends the execution of the only worker.                      *)
LEMMA EndHoldsUp ==
    ASSUME OneWorker, Typed, HasRows, ExecInv, WatchdogIsPrompt, NEW w \in Workers,
           RunExecution(w) \/ EvaluateAcceptance(w)
    PROVE  ExecInv'
<1> DEFINE a == task[w].attempt
<1>0. /\ UNCHANGED <<plan, watch>> /\ watch'.step = "idle" /\ w \in Procs
      /\ task[w].step = IF RunExecution(w) THEN "run" ELSE "evaluate"
      /\ task \in [Procs -> TaskRow(Len(executions), Len(submissions))]
      /\ executions \in Seq(Work) /\ DOMAIN executions = 1..Len(executions)
  BY WatchdogRests DEF RunExecution, EvaluateAcceptance, Typed, Procs
<1>1. a \in DOMAIN executions
  BY <1>0 DEF HasRows, OnExecution, TaskRow
<1>2. executions[a].status = "EXECUTING" \/ NoExecuting
  BY <1>0 DEF ExecInv, ExecutionHeld
<1>3. \A b \in DOMAIN executions : b # a => executions[b].status # "EXECUTING"
  BY <1>1, <1>2 DEF ExecInv, OneActiveExecution, NoExecuting
<1>4. PICK status \in ExecutionStatuses \ {"EXECUTING"}, ready \in {"none", "yes", "no"} :
          SetExecution(w, status, ready)
  <2>1. executions[a] \in Work
    BY <1>0, <1>1
  <2>2. /\ executions[a].status \in ExecutionStatuses
        /\ executions[a].ready \in {"none", "yes", "no"}
    BY <2>1 DEF Work
  <2>3. CASE FailExecution(w)
    BY <2>2, <2>3 DEF FailExecution, ExecutionStatuses
  <2>4. CASE ~FailExecution(w)
    BY <2>4 DEF RunExecution, EvaluateAcceptance, FinalStatus, ExecutionStatuses
  <2> QED BY <2>3, <2>4
<1>5. NoExecuting'
  <2>1. [status |-> status, ready |-> ready] \in Work
    BY <1>4 DEF Work
  <2>2. /\ DOMAIN executions' = DOMAIN executions
        /\ executions'[a] = [status |-> status, ready |-> ready]
        /\ \A b \in DOMAIN executions : b # a => executions'[b] = executions[b]
    BY <1>0, <1>1, <1>4, <2>1, WriteWork DEF SetExecution
  <2> QED BY <1>3, <1>4, <2>2 DEF NoExecuting
<1>6. \/ job' = job
      \/ task'[w].step = "fail" /\ job = "EXECUTING" /\ job' = "FAILED"
  BY <1>0, GotoMoves DEF RunExecution, EvaluateAcceptance, FailExecution
<1>7. task'[w].step \in {"evaluate", "report", "fail"}
  BY <1>0, GotoMoves DEF RunExecution, EvaluateAcceptance, FailExecution
<1>8. job \notin {"AWARDED", "FAILED"}
  BY <1>0 DEF ExecInv, ExecutionHeld
<1>9. ExecutionHeld(w)'
  BY <1>5, <1>6, <1>7, <1>8 DEF ExecutionHeld
<1>10. JobHeld' /\ WatchHeld' /\ OneActiveExecution'
  BY <1>0, <1>5, <1>6, <1>8 DEF JobHeld, WatchHeld, OneActiveExecution, NoExecuting
<1> QED BY <1>9, <1>10 DEF ExecInv, OneWorker

LEMMA ReportHoldsUp ==
    ASSUME OneWorker, Typed, ExecInv, WatchdogIsPrompt, NEW w \in Workers,
           ReportExecution(w) \/ ReportFailure(w)
    PROVE  ExecInv'
<1>0. UNCHANGED <<job, executions, watch>> /\ watch'.step = "idle" /\ w \in Procs
  BY WatchdogRests DEF ReportExecution, ReportFailure, Procs
<1>1. task'[w].step \in {"idle", "enqueueExecute", "enqueueSubmit"}
  BY <1>0, GotoMoves, FinishMoves DEF ReportExecution, ReportFailure
<1>2. \A v \in Workers : task'[v].step \notin Held
  BY <1>1 DEF Held, OneWorker
<1>3. \/ UNCHANGED plan
      \/ \E status \in {"QA_PASSED", "BLOCKED", "FAILED"} : SetPlan(status)
      \/ task[w].step = "report" /\ SetPlan("NEEDS_REPAIR")
  BY DEF ReportExecution, ReportFailure
<1>4. CASE Unheld(plan'.status)
  BY <1>0, <1>2, <1>4, ExecFrame
<1>5. CASE task[w].step = "report"
  <2>1. NoExecuting /\ job # "AWARDED"
    BY <1>5 DEF ExecInv, ExecutionHeld
  <2>2. NoExecuting' /\ OneActiveExecution'
    BY <1>0, <2>1 DEF NoExecuting, OneActiveExecution
  <2> QED BY <1>0, <1>2, <2>1, <2>2 DEF ExecInv, JobHeld, WatchHeld, ExecutionHeld, Held
<1> QED BY <1>3, <1>4, <1>5, SetPlanMoves DEF Unheld

(* The watchdog recovers the one execution that has lost its worker.       *)
LEMMA RecoverHoldsUp ==
    ASSUME Typed, HasRows, ExecInv, WatchdogIsPrompt, NEW a \in DOMAIN executions, RecoverExecution(a)
    PROVE  ExecInv'
<1>0. /\ UNCHANGED <<job, task, watch>> /\ watch'.step = "idle"
      /\ task \in [Procs -> TaskRow(Len(executions), Len(submissions))]
      /\ executions \in Seq(Work) /\ DOMAIN executions = 1..Len(executions)
      /\ Workers \subseteq Procs
  BY WatchdogRests DEF RecoverExecution, Typed, Procs
<1>1. executions[a].status = "EXECUTING" /\ ~Running(a) /\ ~NoExecuting
  BY DEF RecoverExecution, NoExecuting
<1>2. \A b \in DOMAIN executions : executions[b].status = "EXECUTING" => b = a
  BY <1>1 DEF ExecInv, OneActiveExecution
<1>3. NoExecuting'
  <2>1. executions[a] \in Work
    BY <1>0
  <2>2. [executions[a] EXCEPT !.status = "FAILED"] \in Work
        /\ [executions[a] EXCEPT !.status = "FAILED"].status = "FAILED"
    BY <2>1 DEF Work, ExecutionStatuses
  <2>3. /\ DOMAIN executions' = DOMAIN executions /\ executions'[a].status = "FAILED"
        /\ \A b \in DOMAIN executions : b # a => executions'[b] = executions[b]
    BY <1>0, <2>2, WriteWork DEF RecoverExecution
  <2> QED BY <1>2, <2>3 DEF NoExecuting
<1>4. ASSUME NEW w \in Workers  PROVE ExecutionHeld(w)'
  <2>1. task[w].step = "run" => task[w].attempt \in DOMAIN executions
    BY <1>0 DEF HasRows, OnExecution, TaskRow
  <2>2. task[w].step # "run"
    BY <1>1, <1>2, <2>1 DEF ExecInv, ExecutionHeld, Running
  <2> QED BY <1>0, <1>1, <2>2 DEF ExecInv, ExecutionHeld
<1>5. job # "AWARDED"
  BY <1>1 DEF ExecInv, JobHeld
<1>6. JobHeld' /\ WatchHeld' /\ OneActiveExecution'
  BY <1>0, <1>3, <1>5 DEF JobHeld, WatchHeld, OneActiveExecution, NoExecuting
<1> QED BY <1>4, <1>6 DEF ExecInv

LEMMA WatchdogHoldsUp ==
    ASSUME Typed, HasRows, ExecInv, WatchdogIsPrompt,
           \/ SeeStalePlan \/ RecoverPlan \/ SeeStaleSubmission \/ ReadSubmission
           \/ RecoverSubmission \/ WatchdogDies
    PROVE  ExecInv'
<1>0. UNCHANGED <<job, executions, task>>
  BY DEF SeeStalePlan, RecoverPlan, SeeStaleSubmission, ReadSubmission, RecoverSubmission, WatchdogDies
<1>1. CASE SeeStalePlan \/ SeeStaleSubmission \/ ReadSubmission
  <2>1. UNCHANGED plan
    BY <1>1 DEF SeeStalePlan, SeeStaleSubmission, ReadSubmission
  <2>2. OneActiveExecution' /\ JobHeld' /\ \A w \in Workers : ExecutionHeld(w)'
    BY <1>0, <2>1 DEF ExecInv, OneActiveExecution, JobHeld, NoExecuting, ExecutionHeld
  <2>3. CASE SeeStalePlan
    <3>1. watch'.step = "plan" /\ watch'.next = SafePlanState
          /\ (plan.status = "QUEUED" \/ (plan.status = "EXECUTING" /\ ~Executing))
      BY <2>3 DEF SeeStalePlan, Watching
    <3>2. SafePlanState' = SafePlanState /\ Executing' = Executing
      BY <1>0, <2>1 DEF SafePlanState, Executing
    <3> QED BY <2>1, <2>2, <3>1, <3>2 DEF ExecInv, WatchHeld
  <2>4. CASE SeeStaleSubmission
    <3>1. watch'.step = "read"
      BY <2>4 DEF SeeStaleSubmission, Watching
    <3> QED BY <2>2, <3>1 DEF ExecInv, WatchHeld
  <2>5. CASE ReadSubmission
    <3>1. watch'.step = "submission"
          /\ watch'.next \in {"QA_PASSED", "SUBMITTED", "SUBMISSION_RECONCILIATION"}
      BY <2>5 DEF ReadSubmission, SubmissionVerdict
    <3> QED BY <2>2, <3>1 DEF ExecInv, WatchHeld
  <2> QED BY <1>1, <2>3, <2>4, <2>5
<1>2. CASE RecoverPlan
  <2>1. watch'.step = "idle"
    BY <1>2 DEF RecoverPlan, Watching
  <2>2. CASE ~NoExecuting
    <3>1. UNCHANGED plan
      BY <1>2, <2>2 DEF RecoverPlan
    <3> QED BY <1>0, <2>1, <3>1, ExecFrame DEF Unheld
  <2>3. CASE NoExecuting
    <3>1. plan'.status = SafePlanState
      BY <1>2, <2>3, SetPlanMoves DEF RecoverPlan, ExecInv, WatchHeld
    <3>2. NoExecuting' /\ OneActiveExecution' /\ WatchHeld'
      BY <1>0, <2>1, <2>3 DEF NoExecuting, OneActiveExecution, WatchHeld
    <3>3. JobHeld'
      BY <1>0, <3>1, <3>2 DEF JobHeld, SafePlanState
    <3>4. ASSUME NEW w \in Workers  PROVE ExecutionHeld(w)'
      <4>1. plan.status = "QUEUED" \/ task[w].step # "start"
        BY <1>2 DEF ExecInv, WatchHeld, RecoverPlan, Executing
      <4>2. ExecutionHeld(w)
        BY DEF ExecInv
      <4> QED BY <1>0, <3>2, <4>1, <4>2 DEF ExecutionHeld
    <3> QED BY <3>2, <3>3, <3>4 DEF ExecInv
  <2> QED BY <2>2, <2>3
<1>3. CASE RecoverSubmission \/ WatchdogDies
  <2>1. watch'.step = "idle"
    BY <1>3 DEF RecoverSubmission, WatchdogDies, Watching
  <2>2. Unheld(plan'.status)
    BY <1>3, SetPlanMoves DEF RecoverSubmission, WatchdogDies, ExecInv, WatchHeld, Unheld
  <2> QED BY <1>0, <2>1, <2>2, ExecFrame
<1> QED BY <1>1, <1>2, <1>3

LEMMA RetryHoldsUp ==
    ASSUME Typed, ExecInv, WatchdogIsPrompt, RetryFailedPlan
    PROVE  ExecInv'
<1>0. /\ UNCHANGED <<executions, watch>> /\ watch'.step = "idle"
      /\ job = "FAILED" /\ job' = "AWARDED" /\ plan'.status = "READY"
  BY WatchdogRests, SetPlanMoves DEF RetryFailedPlan, RetryIsSafe
<1>1. NoExecuting' /\ OneActiveExecution'
  BY <1>0 DEF RetryFailedPlan, RetryIsSafe, NoExecuting, OneActiveExecution
<1>2. ASSUME NEW w \in Workers  PROVE ExecutionHeld(w)'
  <2>1. task'[w] = task[w]
    BY ProcsAssumption, GotoMoves DEF RetryFailedPlan, Procs
  <2> QED BY <1>0, <1>1, <2>1 DEF ExecInv, ExecutionHeld
<1> QED BY <1>0, <1>1, <1>2 DEF ExecInv, JobHeld, WatchHeld

LEMMA ExecInvKept ==
    ASSUME OneWorker, Typed, HasRows, ExecInv, [Next /\ WatchdogIsPrompt]_vars
    PROVE  ExecInv'
<1>1. CASE UNCHANGED vars
  BY <1>1 DEF vars, ExecInv, OneActiveExecution, JobHeld, WatchHeld, ExecutionHeld, NoExecuting,
              SafePlanState, Executing
<1> SUFFICES ASSUME Next, WatchdogIsPrompt PROVE ExecInv'
  BY <1>1
<1>2. ASSUME NEW w \in Workers, OpenSubmission(w), ~UNCHANGED executions  PROVE ExecInv'
  <2>1. /\ UNCHANGED <<job, plan, watch>> /\ watch'.step = "idle" /\ w \in Procs
        /\ task'[w].step \in {"look", "submitFailed"}
    BY <1>2, OpenWrites, WatchdogRests DEF OpenSubmission, Procs
  <2>2. /\ DOMAIN executions' = DOMAIN executions
        /\ \A b \in DOMAIN executions : executions'[b].status = executions[b].status
    BY <1>2, OpenWrites
  <2>3. (NoExecuting' <=> NoExecuting) /\ OneActiveExecution'
    BY <2>2 DEF ExecInv, NoExecuting, OneActiveExecution
  <2>4. ExecutionHeld(w)'
    BY <2>1 DEF ExecutionHeld
  <2> QED BY <2>1, <2>3, <2>4 DEF ExecInv, JobHeld, WatchHeld, OneWorker
<1>3. ASSUME NEW w \in Workers, WorkerStep(w)  PROVE ExecInv'
  <2>1. CASE \/ PopExecute(w) \/ StartExecution(w) \/ RunExecution(w) \/ EvaluateAcceptance(w)
             \/ ReportExecution(w) \/ ReportFailure(w)
    BY <2>1, PopHoldsUp, StartHoldsUp, EndHoldsUp, ReportHoldsUp
  <2>2. CASE \/ PopSubmit(w) \/ LookForSubmission(w) \/ CreateSubmission(w)
             \/ PostSubmission(w) \/ RecordSubmission(w) \/ TransitionSubmitted(w) \/ MarkUnknown(w)
             \/ ReportSubmission(w)
    <3>1. UNCHANGED executions
      BY <2>2 DEF PopSubmit, LookForSubmission, CreateSubmission, PostSubmission,
                  RecordSubmission, TransitionSubmitted, MarkUnknown, ReportSubmission
    <3> QED BY <2>2, <3>1, SubmittingHoldsUp
  <2>3. CASE OpenSubmission(w)
    BY <1>2, <2>3, SubmittingHoldsUp
  <2> QED BY <1>3, <2>1, <2>2, <2>3 DEF WorkerStep
<1>4. ASSUME NEW p \in Procs, QueueStep(p) \/ Crash(p)  PROVE ExecInv'
  BY <1>4, QueueHoldsUp, WatcherHoldsUp
<1>5. CASE Watchdog \/ WatchdogDies
  BY <1>5, RecoverHoldsUp, WatchdogHoldsUp DEF Watchdog
<1> QED BY <1>3, <1>4, <1>5, WatcherHoldsUp, RetryHoldsUp DEF Next

(* "One execution at a time", and "bounded repair": with one worker and a  *)
(* prompt watchdog, paid work on a job is bounded and never runs twice at  *)
(* once, whichever process dies.                                           *)
THEOREM ExecutionsAreBounded == ASSUME OneWorker PROVE PromptSpec => []ExecutionIsBounded
<1>1. Init => Typed /\ HasRows /\ RepairInv /\ ExecInv
  <2>1. Init => HasRows /\ RepairInv
    BY BoundsAssumption DEF Init, HasRows, RepairInv, RepairIsBounded, Idle, OnExecution, OnSubmission, Procs
  <2>2. Init => ExecInv
    BY DEF Init, ExecInv, OneActiveExecution, JobHeld, WatchHeld, ExecutionHeld, NoExecuting, Idle,
           Watching, Procs
  <2> QED BY <2>1, <2>2, TypedInitially
<1>2. ASSUME Typed, HasRows, RepairInv, ExecInv, [Next /\ WatchdogIsPrompt]_vars
      PROVE  Typed' /\ HasRows' /\ RepairInv' /\ ExecInv'
  <2>1. [Next]_vars
    BY <1>2
  <2> QED BY <1>2, <2>1, TypedKept, HasRowsKept, RepairInvKept, ExecInvKept
<1>3. RepairInv /\ ExecInv => ExecutionIsBounded
  BY DEF RepairInv, ExecInv, ExecutionIsBounded
<1> QED BY <1>1, <1>2, <1>3, PTL DEF PromptSpec

-----------------------------------------------------------------------------
(* What is submitted.                                                      *)

AtWork == {"start", "run", "evaluate", "report", "fail"}
Submitting == {"look", "create"}
Unfinished == {"NONE", "READY", "QUEUED", "NEEDS_REPAIR", "EXECUTING"}

(* The plan offers the job's work, or a worker has accepted the offer.     *)
Offered ==
    \/ plan.status \in {"QA_PASSED", "SUBMITTING"}
    \/ job # "AWARDED" /\ \E w \in Workers : task[w].step = "open"

(* From the acceptance gate on.                                            *)
Committed == submissions # <<>> \/ \E w \in Workers : task[w].step \in Submitting

(* The job's last execution passed QA and nothing will run after it.       *)
Settled ==
    /\ Len(executions) > 0 /\ executions[Len(executions)].status = "QA_PASSED"
    /\ NoExecuting /\ plan.status \notin Unfinished
    /\ \A w \in Workers : task[w].step \notin AtWork

(* Workers look at the last execution only.                                *)
OnLast ==
    \A w \in Workers : task[w].step \in OnExecution => task[w].attempt = Len(executions)

WatchesOffer == watch.step \in {"read", "submission"} => plan.status = "SUBMITTING"

SubInv ==
    /\ \A v \in DOMAIN submissions : submissions[v].attempt = Len(executions)
    /\ OnLast /\ WatchesOffer
    /\ Offered \/ Committed => Settled
    /\ Committed => /\ job \in {"EXECUTING", "SUBMITTED", "ACCEPTED"}
                    /\ executions[Len(executions)].ready = "yes"

(* What a step makes of a task: no work is begun, no execution taken up.   *)
Carries(w) ==
    /\ task'[w].step \in AtWork => task[w].step \in AtWork
    /\ task'[w].step \in Submitting => task[w].step \in Submitting
    /\ task'[w].step \in OnExecution => task[w].step \in OnExecution /\ task'[w].attempt = task[w].attempt

LEMMA TasksCarry ==
    ASSUME Typed, [Next]_vars, NEW w \in Workers
    PROVE  \/ Carries(w)
           \/ PopExecute(w) /\ task'[w].step = "start"
           \/ StartExecution(w) /\ task'[w].step = "run" /\ task'[w].attempt = Len(executions) + 1
           \/ OpenSubmission(w) /\ task'[w].step = "look" /\ task'[w].attempt = LatestPassed
                 /\ PassedExecutions # {}
<1> DEFINE next == task'[w].step
<1>1. CASE \/ next \in {"idle", "markQueued", "markSubmitting", "enqueueSubmit", "enqueueExecute", "open",
                        "submitted", "submitFailed", "post", "unknown", "record", "transition"}
           \/ task'[w] = task[w]
  BY <1>1 DEF Carries, AtWork, Submitting, OnExecution
<1>2. CASE \/ StartExecution(w) /\ next = "fail"
           \/ RunExecution(w) /\ next \in {"evaluate", "fail"} /\ task'[w].attempt = task[w].attempt
           \/ EvaluateAcceptance(w) /\ next \in {"report", "fail"} /\ task'[w].attempt = task[w].attempt
           \/ LookForSubmission(w) /\ next = "create" /\ task'[w].attempt = task[w].attempt
  BY <1>2 DEF Carries, AtWork, Submitting, OnExecution, StartExecution, RunExecution,
              EvaluateAcceptance, LookForSubmission
<1> QED BY <1>1, <1>2, TaskMoves

LEMMA OfferFrame ==
    ASSUME SubInv, UNCHANGED executions, \A w \in Workers : Carries(w),
           Len(submissions') = Len(submissions), DOMAIN submissions' = DOMAIN submissions,
           submissions \in Seq(Sent(Len(executions))), submissions' \in Seq(Sent(Len(executions))),
           \A v \in DOMAIN submissions : submissions'[v].attempt = submissions[v].attempt,
           Offered' => Offered,
           plan'.status \in Unfinished /\ (Offered \/ Committed) => plan.status \in Unfinished,
           Committed => job' \in {"EXECUTING", "SUBMITTED", "ACCEPTED"},
           WatchesOffer'
    PROVE  SubInv'
<1>1. submissions' = <<>> <=> submissions = <<>>
  BY EmptySeq
<1>2. Committed' => Committed
  BY <1>1 DEF Committed, Carries
<1>3. OnLast'
  BY DEF SubInv, OnLast, Carries
<1>4. Offered \/ Committed => Settled'
  BY DEF SubInv, Settled, NoExecuting, Carries
<1> QED BY <1>2, <1>3, <1>4 DEF SubInv

(* Before there is an offer, little has to hold.                           *)
LEMMA NoOffer ==
    ASSUME ~(Offered \/ Committed)', OnLast', WatchesOffer'
    PROVE  SubInv'
BY DEF SubInv, Committed

(* Only a start makes an execution.                                        *)
LEMMA OnlyStart ==
    ASSUME Typed, HasRows, [Next]_vars, OneWorker, NEW w \in Workers, task[w].step # "start"
    PROVE  Len(executions') = Len(executions)
<1>1. \A v \in Workers : ~StartExecution(v)
  BY DEF OneWorker, StartExecution
<1> QED BY <1>1, ExecutionsMove

LEMMA PopKeepsOffer ==
    ASSUME OneWorker, Typed, SubInv, WatchdogIsPrompt, NEW w \in Workers, PopExecute(w)
    PROVE  SubInv'
<1>0. /\ UNCHANGED <<job, executions, submissions, watch>> /\ watch'.step = "idle" /\ w \in Procs
      /\ task \in [Procs -> TaskRow(Len(executions), Len(submissions))]
  BY WatchdogRests DEF PopExecute, Typed, Procs
<1>1. CASE UNCHANGED <<plan, task>>
  BY <1>0, <1>1 DEF SubInv, Offered, Committed, Settled, OnLast, WatchesOffer, NoExecuting
<1>2. CASE ~UNCHANGED <<plan, task>>
  <2>1. plan.status \in {"READY", "QUEUED", "NEEDS_REPAIR"} /\ plan'.status \in {"BLOCKED", "EXECUTING"}
    BY <1>2, SetPlanMoves DEF PopExecute
  <2>2. ~(Offered \/ Committed)
    BY <2>1 DEF SubInv, Settled, Unfinished
  <2>3. UNCHANGED task \/ task'[w].step = "start"
    BY <1>0 DEF PopExecute, Idle
  <2>4. \A v \in Workers : task'[v] = task[v] \/ task'[v].step = "start"
    BY <2>3 DEF OneWorker
  <2>5. ~(Offered \/ Committed)'
    BY <1>0, <2>1, <2>2, <2>4 DEF Offered, Committed, Submitting
  <2>6. OnLast' /\ WatchesOffer'
    BY <1>0, <2>3 DEF SubInv, OnLast, WatchesOffer, OnExecution, OneWorker
  <2> QED BY <2>5, <2>6, NoOffer
<1> QED BY <1>1, <1>2

(* The work becomes an offer when its execution is reported as passed.     *)
LEMMA ExecutingKeepsOffer ==
    ASSUME OneWorker, Typed, HasRows, ExecInv, SubInv, WatchdogIsPrompt, [Next]_vars, NEW w \in Workers,
           \/ StartExecution(w) \/ RunExecution(w) \/ EvaluateAcceptance(w)
           \/ ReportExecution(w) \/ ReportFailure(w)
    PROVE  SubInv'
<1>0. /\ UNCHANGED <<submissions, watch>> /\ watch'.step = "idle" /\ w \in Procs
      /\ task \in [Procs -> TaskRow(Len(executions), Len(submissions))]
      /\ executions \in Seq(Work) /\ DOMAIN executions = 1..Len(executions)
      /\ task[w].step \in AtWork
  BY WatchdogRests DEF StartExecution, RunExecution, EvaluateAcceptance, ReportExecution,
                       ReportFailure, Typed, Procs, AtWork
<1>1. submissions = <<>> /\ plan.status \notin {"QA_PASSED", "SUBMITTING"}
  BY <1>0 DEF SubInv, Settled, Offered, Committed
<1>2. WatchesOffer'
  BY <1>0 DEF WatchesOffer
<1>3. OnLast'
  <2>1. CASE Carries(w)
    <3>1. CASE task'[w].step \in OnExecution
      <4>1. task'[w].attempt = Len(executions)
        BY <2>1, <3>1 DEF Carries, SubInv, OnLast
      <4>2. Len(executions') = Len(executions)
        <5>1. task[w].step \in OnExecution
          BY <2>1, <3>1 DEF Carries
        <5> QED BY <5>1, OnlyStart DEF OnExecution
      <4> QED BY <4>1, <4>2 DEF OnLast, OneWorker
    <3> QED BY <3>1 DEF OnLast, OneWorker
  <2>2. CASE StartExecution(w) /\ task'[w].step = "run" /\ task'[w].attempt = Len(executions) + 1
    <3>1. Len(executions') = Len(executions) + 1
      <4>1. [status |-> "EXECUTING", ready |-> "none"] \in Work
        BY DEF Work, ExecutionStatuses
      <4>2. executions' = Append(executions, [status |-> "EXECUTING", ready |-> "none"])
        BY <1>0, <2>2, GotoMoves DEF StartExecution
      <4> QED BY <1>0, <4>1, <4>2, AppendWork
    <3> QED BY <2>2, <3>1 DEF OnLast, OneWorker
  <2>3. ~PopExecute(w) /\ ~OpenSubmission(w)
    BY <1>0 DEF PopExecute, OpenSubmission, AtWork
  <2> QED BY <2>1, <2>2, <2>3, TasksCarry
<1>4. task'[w].step \in AtWork \cup {"idle", "enqueueSubmit", "enqueueExecute"}
  <2>1. CASE StartExecution(w)
    <3>1. Goto(w, "fail")
             \/ task' = [task EXCEPT ![w] = [@ EXCEPT !.step = "run", !.attempt = Len(executions) + 1]]
      BY <2>1 DEF StartExecution
    <3>2. Goto(w, "fail") => task'[w].step = "fail"
      BY <1>0, GotoMoves
    <3>3. CASE task' = [task EXCEPT ![w] = [@ EXCEPT !.step = "run", !.attempt = Len(executions) + 1]]
      <4>1. task'[w] = [task[w] EXCEPT !.step = "run", !.attempt = Len(executions) + 1]
        BY <1>0, <3>3
      <4>2. task[w] \in TaskRow(Len(executions), Len(submissions))
        BY <1>0
      <4>3. task'[w].step = "run"
        BY <4>1, <4>2 DEF TaskRow
      <4> QED BY <4>3 DEF AtWork
    <3> QED BY <3>1, <3>2, <3>3 DEF AtWork
  <2>2. CASE ~StartExecution(w)
    <3>1. Finish(w) \/ \E step \in AtWork \cup {"enqueueSubmit", "enqueueExecute"} : Goto(w, step)
      BY <2>2 DEF RunExecution, EvaluateAcceptance, FailExecution, ReportExecution, ReportFailure, AtWork
    <3> QED BY <1>0, <3>1, GotoMoves, FinishMoves
  <2> QED BY <2>1, <2>2
<1>5. ~Committed' /\ \A v \in Workers : task'[v].step # "open"
  BY <1>0, <1>1, <1>4 DEF Committed, AtWork, Submitting, OneWorker
<1>6. CASE plan'.status \notin {"QA_PASSED", "SUBMITTING"}
  BY <1>2, <1>3, <1>5, <1>6, NoOffer DEF Offered
<1>7. CASE ReportExecution(w) /\ executions[task[w].attempt].status = "QA_PASSED"
  <2>1. /\ task[w].step = "report" /\ UNCHANGED executions
        /\ plan'.status = "QA_PASSED" /\ task'[w].step = "enqueueSubmit"
    BY <1>0, <1>7, GotoMoves, SetPlanMoves DEF ReportExecution
  <2>2. task[w].attempt = Len(executions) /\ task[w].attempt > 0 /\ NoExecuting
    BY <1>0, <2>1 DEF SubInv, OnLast, OnExecution, HasRows, ExecInv, ExecutionHeld, TaskRow
  <2>3. Settled'
    BY <1>7, <2>1, <2>2 DEF Settled, NoExecuting, Unfinished, AtWork, OneWorker
  <2> QED BY <1>0, <1>1, <1>2, <1>3, <1>5, <2>3 DEF SubInv
<1>8. CASE ~(ReportExecution(w) /\ executions[task[w].attempt].status = "QA_PASSED")
  <2>1. UNCHANGED plan \/ \E status \in {"BLOCKED", "NEEDS_REPAIR", "FAILED"} : SetPlan(status)
    BY <1>8 DEF StartExecution, RunExecution, EvaluateAcceptance, ReportExecution, ReportFailure
  <2> QED BY <1>1, <1>6, <2>1, SetPlanMoves
<1> QED BY <1>7, <1>8

LEMMA SubmissionsRest ==
    ASSUME Typed, HasRows, [Next]_vars, UNCHANGED executions, \A w \in Workers : ~CreateSubmission(w)
    PROVE  /\ Len(submissions') = Len(submissions) /\ DOMAIN submissions' = DOMAIN submissions
           /\ \A v \in DOMAIN submissions : submissions'[v].attempt = submissions[v].attempt
           /\ submissions \in Seq(Sent(Len(executions))) /\ submissions' \in Seq(Sent(Len(executions)))
<1>1. Typed'
  BY TypedKept
<1> QED BY <1>1, SubmissionsMove DEF Typed

(* Steps of submit_work_plan around the gate and the row.                  *)
LEMMA SubmittingKeepsOffer ==
    ASSUME OneWorker, Typed, HasRows, SubInv, WatchdogIsPrompt, [Next]_vars, NEW w \in Workers,
           \/ PopSubmit(w) \/ LookForSubmission(w)
           \/ OpenSubmission(w) /\ UNCHANGED executions /\ task'[w].step # "look"
           \/ PostSubmission(w) \/ RecordSubmission(w) \/ TransitionSubmitted(w) \/ MarkUnknown(w)
           \/ ReportSubmission(w)
    PROVE  SubInv'
<1>0. /\ UNCHANGED <<executions, watch>> /\ watch'.step = "idle" /\ w \in Procs
      /\ task[w].step \notin {"start", "create"}
  BY WatchdogRests
     DEF PopSubmit, OpenSubmission, LookForSubmission, PostSubmission, RecordSubmission,
         TransitionSubmitted, MarkUnknown, ReportSubmission, Procs
<1>1. Carries(w)
  <2>1. ~StartExecution(w) /\ ~(PopExecute(w) /\ task'[w].step = "start")
    <3>1. PopSubmit(w) => UNCHANGED task \/ Goto(w, "open")
      BY DEF PopSubmit
    <3>2. PopSubmit(w) => task'[w].step # "start"
      BY <1>0, <3>1, GotoMoves
    <3>3. ~PopSubmit(w) => task[w].step # "idle"
      BY DEF OpenSubmission, LookForSubmission, PostSubmission, RecordSubmission,
             TransitionSubmitted, MarkUnknown, ReportSubmission
    <3> QED BY <1>0, <3>2, <3>3 DEF StartExecution, PopExecute
  <2>2. OpenSubmission(w) => task'[w].step # "look"
    BY DEF PopSubmit, OpenSubmission, LookForSubmission, PostSubmission, RecordSubmission,
           TransitionSubmitted, MarkUnknown, ReportSubmission
  <2> QED BY <2>1, <2>2, TasksCarry
<1>2. \A v \in Workers : Carries(v) /\ ~CreateSubmission(v)
  BY <1>0, <1>1 DEF OneWorker, CreateSubmission
<1>3. UNCHANGED plan
      \/ (\E status \in {"SUBMITTED", "SUBMISSION_RECONCILIATION", "FAILED"} : SetPlan(status))
  BY DEF PopSubmit, OpenSubmission, LookForSubmission, PostSubmission, RecordSubmission,
         TransitionSubmitted, MarkUnknown, ReportSubmission
<1>4. plan' = plan \/ plan'.status \notin Unfinished \cup {"QA_PASSED", "SUBMITTING"}
  BY <1>3, SetPlanMoves DEF Unfinished
<1>5. job' = job \/ job' = "SUBMITTED"
  BY DEF PopSubmit, OpenSubmission, LookForSubmission, PostSubmission, RecordSubmission,
         TransitionSubmitted, MarkUnknown, ReportSubmission
<1>6. task'[w].step = "open" => plan.status \in {"QA_PASSED", "SUBMITTING"}
  <2>1. CASE OpenSubmission(w)
    <3>1. task \in [Procs -> TaskRow(Len(executions), Len(submissions))]
      BY DEF Typed
    <3>2. ASSUME NEW step \in Steps, NEW a,
                 task' = [task EXCEPT ![w] = [@ EXCEPT !.step = step, !.attempt = a]]
          PROVE  task'[w].step = step
      BY <1>0, <3>1, <3>2 DEF TaskRow
    <3>3. Goto(w, "submitted") \/ Goto(w, "submitFailed")
             \/ \E step \in {"look", "submitFailed"} :
                   task' = [task EXCEPT ![w] = [@ EXCEPT !.step = step, !.attempt = LatestPassed]]
      BY <2>1 DEF OpenSubmission
    <3>4. task'[w].step \in {"look", "submitted", "submitFailed"}
      <4>1. "look" \in Steps /\ "submitFailed" \in Steps
        BY DEF Steps
      <4>2. Goto(w, "submitted") \/ Goto(w, "submitFailed") => task'[w].step \in {"submitted", "submitFailed"}
        BY <1>0, GotoMoves
      <4> QED BY <3>2, <3>3, <4>1, <4>2
    <3> QED BY <3>4
  <2>2. CASE ~OpenSubmission(w)
    <3>1. \/ plan.status \in {"QA_PASSED", "SUBMITTING"}
          \/ UNCHANGED task /\ task[w].step = "idle"
          \/ Finish(w)
          \/ \E step \in Steps \ {"open"} : Goto(w, step)
      BY <2>2 DEF PopSubmit, LookForSubmission, PostSubmission, RecordSubmission,
                  TransitionSubmitted, MarkUnknown, ReportSubmission, Steps
    <3> QED BY <1>0, <3>1, GotoMoves, FinishMoves
  <2> QED BY <2>1, <2>2
<1>7. Offered' => Offered
  BY <1>4, <1>6 DEF Offered, OneWorker
<1>8. Committed => job' \in {"EXECUTING", "SUBMITTED", "ACCEPTED"}
  BY <1>5 DEF SubInv
<1>9. WatchesOffer'
  BY <1>0 DEF WatchesOffer
<1> QED BY <1>0, <1>2, <1>4, <1>7, <1>8, <1>9, SubmissionsRest, OfferFrame

(* The offered work is the last, and the gate has seen it.                 *)
LEMMA OpenKeepsOffer ==
    ASSUME OneWorker, Typed, SubInv, WatchdogIsPrompt, NEW w \in Workers, OpenSubmission(w),
           ~UNCHANGED executions \/ task'[w].step = "look"
    PROVE  SubInv'
<1> DEFINE n == Len(executions)
<1>0. /\ UNCHANGED <<job, plan, submissions, watch>> /\ watch'.step = "idle"
      /\ executions \in Seq(Work) /\ n \in Nat /\ DOMAIN executions = 1..n
      /\ job = "EXECUTING" /\ task[w].step = "open"
  <2>1. UNCHANGED <<job, plan, submissions, watch>> /\ watch'.step = "idle" /\ task[w].step = "open"
    BY WatchdogRests DEF OpenSubmission
  <2>2. executions \in Seq(Work) /\ n \in Nat /\ DOMAIN executions = 1..n
    BY DEF Typed
  <2>3. job = "EXECUTING"
    BY OpenWrites
  <2> QED BY <2>1, <2>2, <2>3
<1>1. Settled
  BY <1>0 DEF SubInv, Offered
<1>2. n \in PassedExecutions /\ n > 0
  BY <1>0, <1>1 DEF Settled, PassedExecutions
<1>3. LatestPassed = n
  <2>1. LatestPassed \in PassedExecutions /\ \A b \in PassedExecutions : b <= LatestPassed
    BY <1>0, <1>2, LatestIsPassed
  <2> QED BY <1>0, <1>2, <2>1 DEF PassedExecutions
<1>4. /\ Len(executions') = n /\ DOMAIN executions' = DOMAIN executions
      /\ \A b \in DOMAIN executions : executions'[b].status = executions[b].status
      /\ task'[w].step \in {"look", "submitFailed"} /\ task'[w].attempt = n
      /\ task'[w].step = "look" => executions'[n].ready = "yes"
      /\ executions[n].ready = "yes" => executions'[n].ready = "yes"
  BY <1>3, OpenWrites
<1>5. Settled'
  BY <1>0, <1>1, <1>2, <1>4 DEF Settled, NoExecuting, AtWork, OneWorker
<1>6. OnLast' /\ WatchesOffer'
  BY <1>0, <1>4 DEF OnLast, WatchesOffer, OneWorker
<1>7. Committed' => executions'[n].ready = "yes"
  BY <1>0, <1>4 DEF SubInv, Committed, Submitting, OneWorker
<1> QED BY <1>0, <1>4, <1>5, <1>6, <1>7 DEF SubInv

LEMMA CreateKeepsOffer ==
    ASSUME OneWorker, Typed, HasRows, SubInv, WatchdogIsPrompt, NEW w \in Workers, CreateSubmission(w)
    PROVE  SubInv'
<1>0. /\ UNCHANGED <<job, plan, executions, watch>> /\ watch'.step = "idle"
      /\ submissions \in Seq(Sent(Len(executions))) /\ task[w].step = "create"
      /\ task \in [Procs -> TaskRow(Len(executions), Len(submissions))] /\ w \in Procs
  BY WatchdogRests DEF CreateSubmission, Typed, Procs
<1>1. Committed /\ Settled
  BY <1>0 DEF SubInv, Committed, Submitting
<1>2. task[w].attempt = Len(executions) /\ task[w].attempt > 0
  BY <1>0 DEF SubInv, OnLast, OnExecution, HasRows, TaskRow
<1>3. \A v \in DOMAIN submissions' : submissions'[v].attempt = Len(executions)
  <2>1. [status |-> "SUBMITTING", attempt |-> task[w].attempt] \in Sent(Len(executions))
    BY <1>0, <1>2 DEF Sent, ActiveSubmission, TaskRow
  <2>2. /\ DOMAIN submissions' = 1..Len(submissions) + 1
        /\ submissions'[Len(submissions) + 1] = [status |-> "SUBMITTING", attempt |-> task[w].attempt]
        /\ \A v \in DOMAIN submissions : submissions'[v] = submissions[v]
        /\ DOMAIN submissions = 1..Len(submissions) /\ Len(submissions) \in Nat
    BY <1>0, <2>1, AppendSent DEF CreateSubmission
  <2> QED BY <1>2, <2>2 DEF SubInv
<1>4. task'[w].step = "post"
  BY <1>0 DEF CreateSubmission, TaskRow
<1>5. Settled' /\ OnLast' /\ WatchesOffer'
  BY <1>0, <1>1, <1>4 DEF Settled, NoExecuting, OnLast, WatchesOffer, AtWork, OnExecution, OneWorker
<1> QED BY <1>0, <1>1, <1>3, <1>5 DEF SubInv

LEMMA QueueKeepsOffer ==
    ASSUME Typed, HasRows, SubInv, WatchdogIsPrompt, [Next]_vars, NEW p \in Procs, QueueStep(p)
    PROVE  SubInv'
<1>0. UNCHANGED <<job, executions, submissions, watch>> /\ watch'.step = "idle"
  BY WatchdogRests DEF QueueStep, EnqueueExecute, MarkQueued, EnqueueSubmit, MarkSubmitting
<1>1. Finish(p) \/ Goto(p, "markQueued") \/ Goto(p, "markSubmitting")
  BY DEF QueueStep, EnqueueExecute, MarkQueued, EnqueueSubmit, MarkSubmitting
<1>2. \A w \in Workers : task'[w] = task[w] \/ task'[w].step \in {"idle", "markQueued", "markSubmitting"}
  BY <1>1, GotoMoves, FinishMoves DEF Procs
<1>3. \A w \in Workers : Carries(w) /\ (task'[w].step = "open" => task[w].step = "open")
  BY <1>2 DEF Carries, AtWork, Submitting, OnExecution
<1>4. \/ UNCHANGED plan
      \/ SetPlan("BLOCKED")
      \/ plan.status \in {"READY", "NEEDS_REPAIR"} /\ SetPlan("QUEUED")
      \/ plan.status = "QA_PASSED" /\ SetPlan("SUBMITTING")
  BY DEF QueueStep, EnqueueExecute, MarkQueued, EnqueueSubmit, MarkSubmitting
<1>5. Offered' => Offered
  BY <1>0, <1>3, <1>4, SetPlanMoves DEF Offered
<1>6. plan'.status \in Unfinished => plan.status \in Unfinished
  BY <1>4, SetPlanMoves DEF Unfinished
<1>7. WatchesOffer' /\ (Committed => job' \in {"EXECUTING", "SUBMITTED", "ACCEPTED"})
  BY <1>0 DEF WatchesOffer, SubInv
<1>8. submissions \in Seq(Sent(Len(executions)))
  BY DEF Typed
<1> QED BY <1>0, <1>3, <1>5, <1>6, <1>7, <1>8, OfferFrame

LEMMA PlanningKeepsOffer ==
    ASSUME Typed, SubInv, WatchdogIsPrompt, NEW status \in {"READY", "BLOCKED"}, PlanAwardedJob(status)
    PROVE  SubInv'
<1>0. /\ UNCHANGED <<job, executions, submissions, watch>> /\ watch'.step = "idle"
      /\ job = "AWARDED" /\ plan'.status = status
  BY WatchdogRests, SetPlanMoves DEF PlanAwardedJob
<1>1. \A w \in Workers : task'[w] = task[w]
  BY ProcsAssumption, GotoMoves, FinishMoves DEF PlanAwardedJob, Procs
<1>2. ~Committed
  BY <1>0 DEF SubInv
<1>3. ~(Offered \/ Committed)'
  BY <1>0, <1>1, <1>2 DEF Offered, Committed
<1>4. OnLast' /\ WatchesOffer'
  BY <1>0, <1>1 DEF SubInv, OnLast, WatchesOffer
<1> QED BY <1>3, <1>4, NoOffer

LEMMA WatcherKeepsOffer ==
    ASSUME Typed, HasRows, SubInv, WatchdogIsPrompt, [Next]_vars,
           \/ OfferSubmission \/ SeeDelivered \/ SyncJob \/ ReconcileSubmission \/ Webhook
           \/ (\E event \in {"revision", "approved"} : RemoteDecides(event))
           \/ (\E p \in Procs : Crash(p))
    PROVE  SubInv'
<1>0. UNCHANGED <<executions, watch>> /\ watch'.step = "idle" /\ Watcher \in Procs
  BY WatchdogRests
     DEF OfferSubmission, SeeDelivered, SyncJob, ReconcileSubmission, Webhook, ProcessWebhook,
         RemoteDecides, Crash, Procs
<1>1. UNCHANGED task \/ (\E p \in Procs : Finish(p)) \/ Goto(Watcher, "enqueueSubmit") \/ Goto(Watcher, "sync")
  BY <1>0 DEF OfferSubmission, SeeDelivered, SyncJob, ReconcileSubmission, Webhook, ProcessWebhook,
              RemoteDecides, Crash
<1>2. \A w \in Workers : task'[w] = task[w] \/ task'[w].step = "idle"
  BY <1>0, <1>1, ProcsAssumption, GotoMoves, FinishMoves DEF Procs
<1>3. \A w \in Workers : Carries(w) /\ (task'[w].step = "open" => task[w].step = "open")
  BY <1>2 DEF Carries, AtWork, Submitting, OnExecution
<1>4. UNCHANGED plan \/ SetPlan("SUBMITTED")
  BY DEF OfferSubmission, SeeDelivered, SyncJob, ReconcileSubmission, Webhook, ProcessWebhook,
         RemoteDecides, Crash
<1>5. job' = job \/ (job # "AWARDED" /\ job' \in {"EXECUTING", "SUBMITTED", "ACCEPTED"})
  BY DEF OfferSubmission, SeeDelivered, SyncJob, ReconcileSubmission, Webhook, ProcessWebhook,
         RemoteDecides, Crash
<1>6. Offered' => Offered
  BY <1>3, <1>4, <1>5, SetPlanMoves DEF Offered
<1>7. plan'.status \in Unfinished => plan.status \in Unfinished
  BY <1>4, SetPlanMoves DEF Unfinished
<1>8. WatchesOffer' /\ (Committed => job' \in {"EXECUTING", "SUBMITTED", "ACCEPTED"})
  BY <1>0, <1>5 DEF WatchesOffer, SubInv
<1>9. /\ submissions \in Seq(Sent(Len(executions))) /\ submissions' \in Seq(Sent(Len(executions)))
      /\ Len(submissions') = Len(submissions) /\ DOMAIN submissions' = DOMAIN submissions
      /\ \A v \in DOMAIN submissions : submissions'[v].attempt = submissions[v].attempt
  <2>1. CASE UNCHANGED submissions
    BY <2>1 DEF Typed
  <2>2. CASE SyncJob
    <3>1. \A w \in Workers : task'[w] = task[w]
      BY <2>2, ProcsAssumption, FinishMoves DEF SyncJob, Procs
    <3>2. \A w \in Workers : ~CreateSubmission(w)
      <4>1. ASSUME NEW w \in Workers, CreateSubmission(w)  PROVE FALSE
        <5>1. task[w].step = "create" /\ task'[w].step = "post"
          BY <4>1 DEF CreateSubmission, Typed, Procs, TaskRow
        <5> QED BY <3>1, <5>1
      <4> QED BY <4>1
    <3> QED BY <1>0, <3>2, SubmissionsRest
  <2> QED BY <2>1, <2>2 DEF OfferSubmission, SeeDelivered, ReconcileSubmission, Webhook,
                            ProcessWebhook, RemoteDecides, Crash
<1> QED BY <1>0, <1>3, <1>6, <1>7, <1>8, <1>9, OfferFrame

LEMMA WatchdogKeepsOffer ==
    ASSUME Typed, HasRows, ExecInv, SubInv, WatchdogIsPrompt, [Next]_vars, Watchdog \/ WatchdogDies
    PROVE  SubInv'
<1>0. UNCHANGED <<job, task>> /\ \A w \in Workers : Carries(w)
  BY DEF Watchdog, RecoverExecution, SeeStalePlan, RecoverPlan, SeeStaleSubmission, ReadSubmission,
         RecoverSubmission, WatchdogDies, Carries
<1>1. ASSUME NEW a \in DOMAIN executions, RecoverExecution(a)  PROVE SubInv'
  <2>1. ~(Offered \/ Committed)
    BY <1>1 DEF RecoverExecution, SubInv, Settled, NoExecuting
  <2>2. UNCHANGED <<submissions, watch>> /\ watch'.step = "idle"
        /\ plan'.status \in {"READY", "NEEDS_REPAIR", "BLOCKED"}
    BY <1>1, WatchdogRests, SetPlanMoves DEF RecoverExecution, SafePlanState
  <2>3. Len(executions') = Len(executions)
    <3>1. \A w \in Workers : ~StartExecution(w)
      <4>1. ASSUME NEW w \in Workers, StartExecution(w)  PROVE FALSE
        <5>1. /\ task[w].step = "start" /\ w \in Procs
              /\ task \in [Procs -> TaskRow(Len(executions), Len(submissions))]
          BY <4>1 DEF StartExecution, Typed, Procs
        <5>2. CASE Goto(w, "fail")
          BY <1>0, <5>1, <5>2, GotoMoves
        <5>3. CASE ~Goto(w, "fail")
          <6>1. task' = [task EXCEPT ![w] = [@ EXCEPT !.step = "run", !.attempt = Len(executions) + 1]]
            BY <4>1, <5>3 DEF StartExecution
          <6>2. task'[w].step = "run"
            BY <5>1, <6>1 DEF TaskRow
          <6> QED BY <1>0, <5>1, <6>2
        <5> QED BY <5>2, <5>3
      <4> QED BY <4>1
    <3> QED BY <3>1, ExecutionsMove
  <2>4. ~(Offered \/ Committed)' /\ OnLast' /\ WatchesOffer'
    BY <1>0, <2>1, <2>2, <2>3 DEF Offered, Committed, SubInv, OnLast, WatchesOffer
  <2> QED BY <2>4, NoOffer
<1>2. CASE SeeStalePlan \/ SeeStaleSubmission \/ ReadSubmission \/ WatchdogDies
  <2>1. UNCHANGED <<plan, executions, submissions>>
    BY <1>2 DEF SeeStalePlan, SeeStaleSubmission, ReadSubmission, WatchdogDies
  <2>2. WatchesOffer'
    <3>1. SeeStaleSubmission \/ ReadSubmission => plan.status = "SUBMITTING"
      BY DEF SeeStaleSubmission, ReadSubmission, SubInv, WatchesOffer
    <3>2. SeeStalePlan => watch'.step = "plan"
      BY DEF SeeStalePlan, Watching
    <3>3. WatchdogDies => watch'.step = "idle"
      BY DEF WatchdogDies, Watching
    <3> QED BY <1>2, <2>1, <3>1, <3>2, <3>3 DEF WatchesOffer
  <2> QED BY <1>0, <2>1, <2>2 DEF SubInv, Offered, Committed, Settled, OnLast, NoExecuting
<1>3. CASE RecoverPlan
  <2>1. UNCHANGED <<executions, submissions>> /\ watch'.step = "idle"
    BY <1>3 DEF RecoverPlan, Watching
  <2>2. ~(Offered \/ Committed)
    BY <1>3 DEF RecoverPlan, ExecInv, WatchHeld, SubInv, Settled, Unfinished
  <2>3. plan' = plan \/ plan'.status \in {"READY", "NEEDS_REPAIR", "BLOCKED"}
    BY <1>3, SetPlanMoves DEF RecoverPlan, ExecInv, WatchHeld, SafePlanState
  <2>4. ~(Offered \/ Committed)' /\ OnLast' /\ WatchesOffer'
    BY <1>0, <2>1, <2>2, <2>3 DEF Offered, Committed, SubInv, OnLast, WatchesOffer
  <2> QED BY <2>4, NoOffer
<1>4. CASE RecoverSubmission
  <2>1. UNCHANGED executions /\ watch'.step = "idle" /\ Offered
    BY <1>4 DEF RecoverSubmission, Watching, SubInv, WatchesOffer, Offered
  <2>2. plan'.status \notin Unfinished
    BY <1>4, SetPlanMoves DEF RecoverSubmission, ExecInv, WatchHeld, Unfinished
  <2>3. \A w \in Workers : ~CreateSubmission(w)
    <3>1. ASSUME NEW w \in Workers, CreateSubmission(w)  PROVE FALSE
      <4>1. task[w].step = "create" /\ task'[w].step = "post"
        BY <3>1 DEF CreateSubmission, Typed, Procs, TaskRow
      <4> QED BY <1>0, <4>1
    <3> QED BY <3>1
  <2>4. WatchesOffer' /\ (Committed => job' \in {"EXECUTING", "SUBMITTED", "ACCEPTED"})
    BY <1>0, <2>1 DEF WatchesOffer, SubInv
  <2> QED BY <1>0, <2>1, <2>2, <2>3, <2>4, SubmissionsRest, OfferFrame
<1> QED BY <1>1, <1>2, <1>3, <1>4 DEF Watchdog

LEMMA RetryKeepsOffer ==
    ASSUME Typed, SubInv, WatchdogIsPrompt, RetryFailedPlan
    PROVE  SubInv'
<1>0. /\ UNCHANGED <<executions, submissions, watch>> /\ watch'.step = "idle"
      /\ job = "FAILED" /\ job' = "AWARDED" /\ plan'.status = "READY"
  BY WatchdogRests, SetPlanMoves DEF RetryFailedPlan, RetryIsSafe
<1>1. \A w \in Workers : task'[w] = task[w]
  BY ProcsAssumption, GotoMoves DEF RetryFailedPlan, Procs
<1>2. ~(Offered \/ Committed)'
  BY <1>0, <1>1 DEF SubInv, Offered, Committed
<1> QED BY <1>0, <1>1, <1>2, NoOffer DEF SubInv, OnLast, WatchesOffer

LEMMA SubInvKept ==
    ASSUME OneWorker, Typed, HasRows, ExecInv, SubInv, [Next /\ WatchdogIsPrompt]_vars
    PROVE  SubInv'
<1>0. [Next]_vars
  OBVIOUS
<1>1. CASE UNCHANGED vars
  BY <1>1 DEF vars, SubInv, Offered, Committed, Settled, OnLast, WatchesOffer, NoExecuting
<1> SUFFICES ASSUME Next, WatchdogIsPrompt PROVE SubInv'
  BY <1>1
<1>2. ASSUME NEW w \in Workers, WorkerStep(w)  PROVE SubInv'
  <2>1. CASE \/ PopExecute(w) \/ StartExecution(w) \/ RunExecution(w) \/ EvaluateAcceptance(w)
             \/ ReportExecution(w) \/ ReportFailure(w)
    BY <1>0, <2>1, PopKeepsOffer, ExecutingKeepsOffer
  <2>2. CASE OpenSubmission(w)
    BY <1>0, <2>2, OpenKeepsOffer, SubmittingKeepsOffer
  <2>3. CASE CreateSubmission(w)
    BY <2>3, CreateKeepsOffer
  <2>4. CASE \/ PopSubmit(w) \/ LookForSubmission(w) \/ PostSubmission(w) \/ RecordSubmission(w)
             \/ TransitionSubmitted(w) \/ MarkUnknown(w) \/ ReportSubmission(w)
    BY <1>0, <2>4, SubmittingKeepsOffer
  <2> QED BY <1>2, <2>1, <2>2, <2>3, <2>4 DEF WorkerStep
<1>3. ASSUME NEW p \in Procs, QueueStep(p) \/ Crash(p)  PROVE SubInv'
  BY <1>0, <1>3, QueueKeepsOffer, WatcherKeepsOffer
<1>4. CASE WatcherStep \/ Webhook \/ (\E event \in {"revision", "approved"} : RemoteDecides(event))
  BY <1>0, <1>4, PlanningKeepsOffer, WatcherKeepsOffer DEF WatcherStep
<1>5. CASE Watchdog \/ WatchdogDies
  BY <1>0, <1>5, WatchdogKeepsOffer
<1> QED BY <1>2, <1>3, <1>4, <1>5, RetryKeepsOffer DEF Next

(* submit_qa_passed_job: what a submission delivers passed QA and its      *)
(* acceptance contract, and it is the job's last work: with one worker and *)
(* a prompt watchdog, nothing runs again once a submission exists.         *)
THEOREM LastAcceptedWorkIsSubmitted ==
    ASSUME OneWorker PROVE PromptSpec => []SubmitsLastAcceptedWork
<1>1. Init => Typed /\ HasRows /\ ExecInv /\ SubInv
  <2>1. Init => HasRows
    BY DEF Init, HasRows, Idle, OnExecution, OnSubmission, Procs
  <2>2. Init => ExecInv
    BY DEF Init, ExecInv, OneActiveExecution, JobHeld, WatchHeld, ExecutionHeld, NoExecuting, Idle,
           Watching, Procs
  <2>3. Init => SubInv
    BY DEF Init, SubInv, Offered, Committed, OnLast, WatchesOffer, Idle, Watching, Procs, OnExecution,
           Submitting
  <2> QED BY <2>1, <2>2, <2>3, TypedInitially
<1>2. ASSUME Typed, HasRows, ExecInv, SubInv, [Next /\ WatchdogIsPrompt]_vars
      PROVE  Typed' /\ HasRows' /\ ExecInv' /\ SubInv'
  <2>1. [Next]_vars
    BY <1>2
  <2> QED BY <1>2, <2>1, TypedKept, HasRowsKept, ExecInvKept, SubInvKept
<1>3. Typed /\ SubInv => SubmitsLastAcceptedWork
  <2> SUFFICES ASSUME Typed, SubInv, NEW v \in DOMAIN submissions
               PROVE  /\ submissions[v].attempt = Len(executions)
                      /\ executions[Len(executions)] = [status |-> "QA_PASSED", ready |-> "yes"]
    BY DEF SubmitsLastAcceptedWork
  <2>1. Committed
    BY DEF Committed
  <2>2. Settled /\ executions[Len(executions)].ready = "yes" /\ submissions[v].attempt = Len(executions)
    BY <2>1 DEF SubInv
  <2>3. executions[Len(executions)] \in Work
    BY <2>2 DEF Typed, Settled
  <2> QED BY <2>2, <2>3 DEF Settled, Work
<1> QED BY <1>1, <1>2, <1>3, PTL DEF PromptSpec
=============================================================================
