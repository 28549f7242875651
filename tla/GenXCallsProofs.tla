-------------------------- MODULE GenXCallsProofs --------------------------
(***************************************************************************)
(* Proofs about GenXCalls for any keys, callers, pollers and credits: no   *)
(* call is paid for twice (IInv), billing is what the gateway reported     *)
(* (EvInv, on top of it), each job counts once, and the credit budget      *)
(* covers the work (HeldWithinLimit: a sum over the keys that reservations *)
(* cover and that no step but a reservation makes larger).                 *)
(***************************************************************************)
EXTENDS GenXCalls, SumTheorems, TLAPS

Row == [status : Statuses, ext : {"none", "session", "job"}, credits : Nat, billing : Billings]
Job == [posts : Nat, job : {"none", "running"} \cup Settled, charged : Nat, reported : BOOLEAN]
CallerTask == [at : Places, key : Keys \cup {NoKey}, phase : Places, error : Errors,
               billing : Billings, payload : Payloads]
PollerTask == [at : {"idle", "discover", "fetch", "apply", "text"}, key : Keys \cup {NoKey},
               billing : Billings, payload : Payloads]

Lost == [rows : SUBSET Keys, billing : SUBSET Keys]

(* The parts of TypeOK by who works on what.                               *)
Typed ==
    /\ calls \in [Keys -> Row]
    /\ \A k \in Keys : calls[k].status = "SUBMITTED" => calls[k].ext = "job"
    /\ remote \in [Keys -> Job]
    /\ stat \in [attempts : Nat, credits : Int]
    /\ task \in [Callers -> CallerTask]
    /\ poll \in [Pollers -> PollerTask]
    /\ \A c \in Callers : task[c].at # "idle" => task[c].key \in Keys
    /\ \A d \in Pollers : poll[d].at # "idle" => poll[d].key \in Keys
    /\ crashes \in Nat /\ overwritten \in Lost

LEMMA TypeIsTyped == TypeOK <=> Typed
BY DEF TypeOK, Typed, Row, Job, CallerTask, PollerTask, Lost

(* The steps below change one row, job or task.                            *)
LEMMA OneChange ==
    ASSUME NEW S, NEW T, NEW f \in [S -> T], NEW x \in S, NEW y \in T
    PROVE  [f EXCEPT ![x] = y] \in [S -> T]
OBVIOUS

LEMMA IdleTyped == Idle \in CallerTask /\ Resting \in PollerTask
BY DEF Idle, Resting, NoPayload, CallerTask, PollerTask, Places, Errors, Billings, Payloads, Settled

LEMMA PayloadTyped ==
    ASSUME Typed, NEW k \in Keys, remote[k].job \in Settled
    PROVE  Payload(k) \in Payloads
<1>1. remote[k] \in Job
  BY DEF Typed
<1> QED BY <1>1 DEF Payload, Payloads, Job

LEMMA ReconcileTyped ==
    ASSUME Typed, NEW k \in Keys, NEW p \in Payloads, Reconcile(k, p)
    PROVE  /\ calls' \in [Keys -> Row] /\ stat' \in [attempts : Nat, credits : Int]
           /\ BillingAfter(k, p) \in Billings
           /\ \A j \in Keys \ {k} : calls'[j] = calls[j]
           /\ calls'[k].status = p.status /\ p.status \in Settled
           /\ calls'[k].ext = calls[k].ext
<1>1. BillingAfter(k, p) \in Billings /\ CreditsAfter(k, p) \in Nat
  <2>1. calls[k] \in Row
    BY DEF Typed
  <2> QED BY <2>1 DEF BillingAfter, CreditsAfter, Billings, Payloads, Row
<1>2. p.status \in Settled /\ p.status \in Statuses /\ p.credits \in Nat
  BY DEF Payloads, Statuses
<1>3. calls' = [calls EXCEPT ![k].status = p.status, ![k].billing = BillingAfter(k, p),
                             ![k].credits = CreditsAfter(k, p)]
  BY DEF Reconcile
<1>4. calls' \in [Keys -> Row]
  <2>1. calls \in [Keys -> Row] /\ calls[k] \in Row
    BY DEF Typed
  <2>2. calls' = [calls EXCEPT ![k] = [calls[k] EXCEPT !.status = p.status,
                     !.billing = BillingAfter(k, p), !.credits = CreditsAfter(k, p)]]
    BY <1>3, <2>1
  <2>3. [calls[k] EXCEPT !.status = p.status, !.billing = BillingAfter(k, p),
                         !.credits = CreditsAfter(k, p)] \in Row
    BY <1>1, <1>2, <2>1 DEF Row
  <2> QED BY <2>1, <2>2, <2>3, OneChange
<1>5. /\ \A j \in Keys \ {k} : calls'[j] = calls[j]
      /\ calls'[k].status = p.status /\ calls'[k].ext = calls[k].ext
  <2>1. calls \in [Keys -> Row] /\ calls[k] \in Row
    BY DEF Typed
  <2> QED BY <1>3, <2>1 DEF Row
<1>6. stat' \in [attempts : Nat, credits : Int]
  <2>1. calls[k].credits \in Nat
    BY DEF Typed, Row
  <2>2. stat.attempts \in Nat /\ stat.credits \in Int
    BY DEF Typed
  <2> QED BY <1>2, <2>1, <2>2 DEF Reconcile
<1> QED BY <1>1, <1>2, <1>4, <1>5, <1>6

(* A caller goes to another place, or raises.                              *)
LEMMA CallerMoves ==
    ASSUME Typed, NEW c \in Callers, task[c].at # "idle"
    PROVE  /\ \A place \in Places : Goto(c, place) =>
                 /\ task' \in [Callers -> CallerTask]
                 /\ \A e \in Callers \ {c} : task'[e] = task[e]
                 /\ task'[c].at = place /\ task'[c].key = task[c].key
           /\ \A error \in Errors : Raise(c, error) =>
                 /\ task' \in [Callers -> CallerTask]
                 /\ \A e \in Callers \ {c} : task'[e] = task[e]
                 /\ task'[c].at = "raised" /\ task'[c].key = task[c].key
                 /\ task'[c].phase = task[c].at /\ task'[c].error = error
<1>1. task \in [Callers -> CallerTask] /\ task[c] \in CallerTask
  BY DEF Typed
<1>2. ASSUME NEW place \in Places, Goto(c, place)
      PROVE  /\ task' \in [Callers -> CallerTask]
             /\ \A e \in Callers \ {c} : task'[e] = task[e]
             /\ task'[c].at = place /\ task'[c].key = task[c].key
  <2>1. task' = [task EXCEPT ![c] = [task[c] EXCEPT !.at = place]]
    BY <1>1, <1>2 DEF Goto
  <2>2. [task[c] EXCEPT !.at = place] \in CallerTask
    BY <1>1 DEF CallerTask
  <2> QED BY <1>1, <2>1, <2>2 DEF CallerTask
<1>3. ASSUME NEW error \in Errors, Raise(c, error)
      PROVE  /\ task' \in [Callers -> CallerTask]
             /\ \A e \in Callers \ {c} : task'[e] = task[e]
             /\ task'[c].at = "raised" /\ task'[c].key = task[c].key
             /\ task'[c].phase = task[c].at /\ task'[c].error = error
  <2>1. task' = [task EXCEPT ![c] = [task[c] EXCEPT !.at = "raised", !.phase = task[c].at,
                                                    !.error = error]]
    BY <1>1, <1>3 DEF Raise
  <2>2. "raised" \in Places
    BY DEF Places
  <2>3. [task[c] EXCEPT !.at = "raised", !.phase = task[c].at, !.error = error] \in CallerTask
    BY <1>1, <2>2 DEF CallerTask
  <2> QED BY <1>1, <2>1, <2>3 DEF CallerTask
<1> QED BY <1>2, <1>3

-----------------------------------------------------------------------------
(* Where a call's row is before its caller has written down what the paid  *)
(* POST brought, and where the caller is before that POST.                 *)
Early == {"NONE", "RESERVED", "SUBMITTING"}
Unpaid == {"reserved", "create", "created", "post"}

(* A row and its work: nothing exists before it is paid for.               *)
RowOK(k) ==
    /\ remote[k].posts <= 1
    /\ remote[k].posts = 0 => remote[k].job = "none"
    /\ calls[k].status = "NONE" => remote[k].posts = 0
    /\ calls[k].status = "FAILED" => remote[k].job \in {"none", "FAILED"}

(* A caller and its call: it has not paid before it comes to the POST, has *)
(* recorded the job before it waits, and what it read of the job, or took  *)
(* for a rejection, is true.                                               *)
CallerOK(c) ==
    LET k == task[c].key
    IN  task[c].at # "idle" =>
            /\ calls[k].status # "NONE"
            /\ task[c].at \in Unpaid => calls[k].status \in Early /\ remote[k].posts = 0
            /\ task[c].at \in {"wait", "apply", "text"} => calls[k].ext = "job"
            /\ task[c].at = "apply" => task[c].payload.status = remote[k].job
            /\ task[c].at = "raised" =>
                  /\ task[c].phase \in {"create", "post", "wait"}
                  /\ task[c].phase = "create" => remote[k].posts = 0
                  /\ task[c].phase = "post" /\ task[c].error \notin Ambiguous(k) =>
                        remote[k].job = "none"
                  /\ task[c].phase = "wait" => calls[k].ext = "job"

OneCaller ==
    \A c, e \in Callers :
        task[c].at # "idle" /\ task[e].at # "idle" /\ task[c].key = task[e].key => c = e

(* A poller takes up a call only when its caller has written that down.    *)
PollerOK(d) ==
    poll[d].at # "idle" =>
        /\ calls[poll[d].key].status \notin Early
        /\ poll[d].at = "apply" => poll[d].payload.status = remote[poll[d].key].job

IInv ==
    /\ Typed /\ OneCaller
    /\ \A k \in Keys : RowOK(k)
    /\ \A c \in Callers : CallerOK(c)
    /\ \A d \in Pollers : PollerOK(d)

(* A step of caller c on its call k keeps what the others rely on.         *)
LEMMA CallerStep ==
    ASSUME IInv, Typed', UNCHANGED poll, NEW c \in Callers, NEW k \in Keys,
           IF task[c].at = "idle" THEN calls[k].status = "NONE" ELSE task[c].key = k,
           task'[c].at # "idle" => task'[c].key = k,
           \A e \in Callers \ {c} : task'[e] = task[e],
           \A j \in Keys \ {k} : calls'[j] = calls[j] /\ remote'[j] = remote[j],
           \/ calls[k].status \in Early
           \/ calls'[k].status \notin Early /\ remote'[k].job = remote[k].job,
           RowOK(k)', CallerOK(c)'
    PROVE  IInv'
<1>1. \A e \in Callers \ {c} : task[e].at # "idle" => task[e].key \in Keys \ {k}
  BY DEF IInv, Typed, OneCaller, CallerOK
<1>2. OneCaller'
  BY <1>1 DEF IInv, OneCaller
<1>3. \A j \in Keys : RowOK(j)'
  BY DEF IInv, RowOK
<1>4. ASSUME NEW e \in Callers \ {c}  PROVE CallerOK(e)'
  <2>1. task'[e] = task[e] /\ CallerOK(e)
    BY DEF IInv
  <2>2. CASE task[e].at = "idle"
    BY <2>1, <2>2 DEF CallerOK
  <2>3. CASE task[e].at # "idle"
    <3>1. /\ calls'[task[e].key] = calls[task[e].key]
          /\ remote'[task[e].key] = remote[task[e].key]
      BY <1>1, <2>3
    <3> QED BY <2>1, <3>1 DEF CallerOK, Ambiguous
  <2> QED BY <2>2, <2>3
<1>5. ASSUME NEW d \in Pollers  PROVE PollerOK(d)'
  <2>1. PollerOK(d) /\ (poll[d].at # "idle" => poll[d].key \in Keys)
    BY DEF IInv, Typed
  <2>2. CASE poll[d].at # "idle" /\ poll[d].key = k
    BY <2>1, <2>2 DEF PollerOK
  <2>3. CASE poll[d].at # "idle" /\ poll[d].key # k
    BY <2>1, <2>3 DEF PollerOK
  <2> QED BY <2>2, <2>3 DEF PollerOK
<1> QED BY <1>2, <1>3, <1>4, <1>5 DEF IInv

(* A step of poller d on call k.                                           *)
LEMMA PollerStep ==
    ASSUME IInv, Typed', UNCHANGED <<task, remote>>, NEW d \in Pollers, NEW k \in Keys,
           \A e \in Pollers \ {d} : poll'[e] = poll[e],
           \A j \in Keys \ {k} : calls'[j] = calls[j],
           calls[k].status \notin Early, calls'[k].status \notin Early,
           calls'[k].ext \in {calls[k].ext, "job"},
           RowOK(k)', PollerOK(d)'
    PROVE  IInv'
<1>1. OneCaller'
  BY DEF IInv, OneCaller
<1>2. \A j \in Keys : RowOK(j)'
  BY DEF IInv, RowOK
<1>3. ASSUME NEW c \in Callers  PROVE CallerOK(c)'
  <2>1. CallerOK(c) /\ (task[c].at # "idle" => task[c].key \in Keys)
    BY DEF IInv, Typed
  <2>2. CASE task[c].at # "idle" /\ task[c].key = k
    BY <2>1, <2>2 DEF CallerOK, Ambiguous, Early
  <2>3. CASE task[c].at # "idle" /\ task[c].key # k
    BY <2>1, <2>3 DEF CallerOK, Ambiguous
  <2> QED BY <2>2, <2>3 DEF CallerOK
<1>4. ASSUME NEW e \in Pollers \ {d}  PROVE PollerOK(e)'
  <2>1. PollerOK(e) /\ (poll[e].at # "idle" => poll[e].key \in Keys) /\ poll'[e] = poll[e]
    BY DEF IInv, Typed
  <2> QED BY <2>1 DEF PollerOK
<1> QED BY <1>1, <1>2, <1>3, <1>4 DEF IInv

-----------------------------------------------------------------------------
LEMMA ReserveKeeps ==
    ASSUME IInv, NEW c \in Callers, NEW k \in Keys, ReserveCall(c, k)
    PROVE  IInv'
<1>1. Typed /\ calls[k] \in Row /\ calls[k].status = "NONE" /\ task[c].at = "idle"
  BY DEF IInv, Typed, ReserveCall, Fresh, Idle
<1>2. /\ calls' = [calls EXCEPT ![k] = [calls[k] EXCEPT !.status = "RESERVED"]]
      /\ UNCHANGED <<remote, stat, poll, crashes, overwritten>>
  BY <1>1 DEF ReserveCall, Typed
<1>3. calls' \in [Keys -> Row] /\ calls'[k].status = "RESERVED" /\ calls'[k].ext = calls[k].ext
      /\ \A j \in Keys \ {k} : calls'[j] = calls[j]
  BY <1>1, <1>2 DEF Typed, Row, Statuses
<1>4. /\ task' \in [Callers -> CallerTask]
      /\ task'[c].at = "reserved" /\ task'[c].key = k
      /\ \A e \in Callers \ {c} : task'[e] = task[e]
  <2>1. task' = [task EXCEPT ![c] = [Idle EXCEPT !.at = "reserved", !.key = k]]
    BY DEF ReserveCall
  <2>2. [Idle EXCEPT !.at = "reserved", !.key = k] \in CallerTask
    BY IdleTyped DEF CallerTask, Places
  <2>3. [Idle EXCEPT !.at = "reserved", !.key = k].at = "reserved"
        /\ [Idle EXCEPT !.at = "reserved", !.key = k].key = k
    BY DEF Idle
  <2> QED BY <1>1, <2>1, <2>2, <2>3 DEF Typed
<1>5. Typed'
  BY <1>1, <1>2, <1>3, <1>4 DEF Typed
<1>6. RowOK(k)' /\ CallerOK(c)'
  <2>1. RowOK(k)
    BY DEF IInv
  <2> QED BY <1>1, <1>2, <1>3, <1>4, <2>1 DEF RowOK, CallerOK, Early, Unpaid
<1> QED BY <1>1, <1>2, <1>3, <1>4, <1>5, <1>6, CallerStep DEF Early

LEMMA StartKeeps == ASSUME IInv, NEW c \in Callers, StartSubmission(c)  PROVE IInv'
<1> DEFINE k == task[c].key
<1>1. /\ Typed /\ task[c].at = "reserved" /\ k \in Keys /\ calls[k] \in Row
      /\ calls[k].status \in Early /\ remote[k].posts = 0
  BY DEF IInv, Typed, CallerOK, StartSubmission, Unpaid
<1>2. /\ calls' = [calls EXCEPT ![k] = [calls[k] EXCEPT !.status = "SUBMITTING"]]
      /\ UNCHANGED <<remote, stat, poll, crashes, overwritten>>
  BY <1>1 DEF StartSubmission, Typed
<1>3. calls' \in [Keys -> Row] /\ calls'[k].status = "SUBMITTING" /\ calls'[k].ext = calls[k].ext
      /\ \A j \in Keys \ {k} : calls'[j] = calls[j]
  BY <1>1, <1>2 DEF Typed, Row, Statuses
<1>4. /\ task' \in [Callers -> CallerTask]
      /\ task'[c].at \in {"create", "post"} /\ task'[c].key = k
      /\ \A e \in Callers \ {c} : task'[e] = task[e]
  <2>1. Goto(c, "create") \/ Goto(c, "post")
    BY DEF StartSubmission
  <2>2. "create" \in Places /\ "post" \in Places
    BY DEF Places
  <2> QED BY <1>1, <2>1, <2>2, CallerMoves
<1>5. Typed'
  BY <1>1, <1>2, <1>3, <1>4 DEF Typed
<1>6. RowOK(k)' /\ CallerOK(c)'
  <2>1. RowOK(k)
    BY <1>1 DEF IInv
  <2> QED BY <1>1, <1>2, <1>3, <1>4, <2>1 DEF RowOK, CallerOK, Early, Unpaid
<1> QED BY <1>1, <1>2, <1>3, <1>4, <1>5, <1>6, CallerStep

LEMMA CreateKeeps == ASSUME IInv, NEW c \in Callers, CreateSession(c)  PROVE IInv'
<1> DEFINE k == task[c].key
<1>1. /\ Typed /\ task[c].at = "create" /\ k \in Keys
      /\ calls[k].status \in Early /\ calls[k].status # "NONE" /\ remote[k].posts = 0
  BY DEF IInv, Typed, CallerOK, CreateSession, Unpaid
<1>2. UNCHANGED <<calls, remote, stat, poll, crashes, overwritten>>
  BY DEF CreateSession
<1>3. /\ task' \in [Callers -> CallerTask]
      /\ task'[c].key = k
      /\ task'[c].at = "created" \/ (task'[c].at = "raised" /\ task'[c].phase = "create")
      /\ \A e \in Callers \ {c} : task'[e] = task[e]
  <2>1. Goto(c, "created") \/ \E error \in Errors : Raise(c, error)
    BY DEF CreateSession
  <2>2. "created" \in Places
    BY DEF Places
  <2> QED BY <1>1, <2>1, <2>2, CallerMoves
<1>4. Typed'
  BY <1>1, <1>2, <1>3 DEF Typed
<1>5. RowOK(k)' /\ CallerOK(c)'
  <2>1. RowOK(k)
    BY <1>1 DEF IInv
  <2> QED BY <1>1, <1>2, <1>3, <2>1 DEF RowOK, CallerOK, Early, Unpaid
<1> QED BY <1>1, <1>2, <1>3, <1>4, <1>5, CallerStep

LEMMA RecordSessionKeeps == ASSUME IInv, NEW c \in Callers, RecordSession(c)  PROVE IInv'
<1> DEFINE k == task[c].key
<1>1. /\ Typed /\ task[c].at = "created" /\ k \in Keys /\ calls[k] \in Row
      /\ calls[k].status \in Early /\ remote[k].posts = 0
  BY DEF IInv, Typed, CallerOK, RecordSession, Unpaid
<1>2. /\ calls' = [calls EXCEPT ![k] = [calls[k] EXCEPT !.ext = "session",
                                              !.status = "SUBMITTING", !.billing = "PENDING"]]
      /\ UNCHANGED <<remote, stat, poll, crashes, overwritten>>
  BY <1>1 DEF RecordSession, SessionStatus, Typed
<1>3. /\ calls' \in [Keys -> Row] /\ calls'[k].status = "SUBMITTING"
      /\ \A j \in Keys \ {k} : calls'[j] = calls[j]
  <2>1. [calls[k] EXCEPT !.ext = "session", !.status = "SUBMITTING", !.billing = "PENDING"] \in Row
    BY <1>1 DEF Row, Statuses, Billings
  <2> QED BY <1>1, <1>2, <2>1 DEF Typed, Row
<1>4. /\ task' \in [Callers -> CallerTask]
      /\ task'[c].at = "post" /\ task'[c].key = k
      /\ \A e \in Callers \ {c} : task'[e] = task[e]
  <2>1. Goto(c, "post") /\ "post" \in Places
    BY DEF RecordSession, Places
  <2> QED BY <1>1, <2>1, CallerMoves
<1>5. Typed'
  BY <1>1, <1>2, <1>3, <1>4 DEF Typed
<1>6. RowOK(k)' /\ CallerOK(c)'
  <2>1. RowOK(k)
    BY <1>1 DEF IInv
  <2> QED BY <1>1, <1>2, <1>3, <1>4, <2>1 DEF RowOK, CallerOK, Early, Unpaid
<1> QED BY <1>1, <1>2, <1>3, <1>4, <1>5, <1>6, CallerStep

(* The paid POST: nothing was posted before, so there was no job.          *)
LEMMA PostKeeps == ASSUME IInv, NEW c \in Callers, PostWork(c)  PROVE IInv'
<1> DEFINE k == task[c].key
<1>1. /\ Typed /\ task[c].at = "post" /\ k \in Keys /\ remote[k] \in Job
      /\ calls[k].status \in Early /\ calls[k].status # "NONE"
      /\ remote[k].posts = 0 /\ remote[k].job = "none"
  BY DEF IInv, Typed, CallerOK, RowOK, PostWork, Unpaid
<1>2. UNCHANGED <<calls, stat, poll, crashes, overwritten>>
  BY DEF PostWork
<1>3. PICK job \in {"running", "none"} :
        /\ remote' = [remote EXCEPT ![k] = [remote[k] EXCEPT !.posts = 1, !.job = job]]
        /\ \/ Goto(c, "posted")
           \/ \E error \in Errors : Raise(c, error) /\ (error \notin Ambiguous(k) => job = "none")
  <2>1. remote[k].posts + 1 = 1
    BY <1>1
  <2>2. Ambiguous(k) \subseteq Errors
    BY DEF Ambiguous, Errors
  <2>3. \A job : [remote EXCEPT ![k].posts = @ + 1, ![k].job = job] =
                  [remote EXCEPT ![k] = [remote[k] EXCEPT !.posts = 1, !.job = job]]
    BY <1>1, <2>1 DEF Typed, Job
  <2> QED BY <1>1, <2>2, <2>3 DEF PostWork
<1>4. /\ remote' \in [Keys -> Job]
      /\ remote'[k].posts = 1 /\ remote'[k].job = job
      /\ \A j \in Keys \ {k} : remote'[j] = remote[j]
  <2>1. [remote[k] EXCEPT !.posts = 1, !.job = job] \in Job
    BY <1>1 DEF Job
  <2> QED BY <1>1, <1>3, <2>1 DEF Typed, Job
<1>5. /\ task' \in [Callers -> CallerTask] /\ task'[c].key = k
      /\ \/ task'[c].at = "posted"
         \/ /\ task'[c].at = "raised" /\ task'[c].phase = "post"
            /\ task'[c].error \notin Ambiguous(k) => job = "none"
      /\ \A e \in Callers \ {c} : task'[e] = task[e]
  <2>1. "posted" \in Places
    BY DEF Places
  <2> QED BY <1>1, <1>3, <2>1, CallerMoves
<1>6. Typed'
  BY <1>1, <1>2, <1>4, <1>5 DEF Typed
<1>7. RowOK(k)' /\ CallerOK(c)'
  <2>1. RowOK(k)'
    BY <1>1, <1>2, <1>4, <1>5 DEF RowOK, Early
  <2>2. CallerOK(c)'
    BY <1>1, <1>2, <1>4, <1>5 DEF CallerOK, Unpaid, Ambiguous
  <2> QED BY <2>1, <2>2
<1> QED BY <1>1, <1>2, <1>4, <1>5, <1>6, <1>7, CallerStep

LEMMA RecordJobKeeps == ASSUME IInv, NEW c \in Callers, RecordJob(c)  PROVE IInv'
<1> DEFINE k == task[c].key
           billing == IF KindOf[k] = "session" THEN "PENDING" ELSE calls[k].billing
<1>1. /\ Typed /\ task[c].at = "posted" /\ k \in Keys /\ calls[k] \in Row
      /\ calls[k].status # "NONE" /\ RowOK(k)
  BY DEF IInv, Typed, CallerOK, RecordJob
<1>2. /\ calls' = [calls EXCEPT ![k] = [calls[k] EXCEPT !.ext = "job", !.status = "SUBMITTED",
                                              !.billing = billing]]
      /\ UNCHANGED <<remote, stat, poll, crashes, overwritten>>
  BY <1>1 DEF RecordJob, Typed
<1>3. /\ calls' \in [Keys -> Row] /\ calls'[k].status = "SUBMITTED" /\ calls'[k].ext = "job"
      /\ \A j \in Keys \ {k} : calls'[j] = calls[j]
  <2>1. billing \in Billings
    BY <1>1 DEF Row, Billings
  <2>2. [calls[k] EXCEPT !.ext = "job", !.status = "SUBMITTED", !.billing = billing] \in Row
    BY <1>1, <2>1 DEF Row, Statuses
  <2> HIDE DEF billing
  <2> QED BY <1>1, <1>2, <2>2 DEF Typed, Row
<1>4. /\ task' \in [Callers -> CallerTask]
      /\ task'[c].at = "wait" /\ task'[c].key = k
      /\ \A e \in Callers \ {c} : task'[e] = task[e]
  <2>1. Goto(c, "wait") /\ "wait" \in Places
    BY DEF RecordJob, Places
  <2> QED BY <1>1, <2>1, CallerMoves
<1>5. Typed'
  BY <1>1, <1>2, <1>3, <1>4 DEF Typed
<1>6. RowOK(k)' /\ CallerOK(c)'
  BY <1>1, <1>2, <1>3, <1>4 DEF RowOK, CallerOK, Unpaid
<1> QED BY <1>1, <1>2, <1>3, <1>4, <1>5, <1>6, CallerStep DEF Early

LEMMA WaitKeeps == ASSUME IInv, NEW c \in Callers, Wait(c)  PROVE IInv'
<1> DEFINE k == task[c].key
<1>1. /\ Typed /\ task[c].at = "wait" /\ k \in Keys /\ task[c] \in CallerTask
      /\ calls[k].status # "NONE" /\ calls[k].ext = "job" /\ RowOK(k)
  BY DEF IInv, Typed, CallerOK, Wait
<1>2. UNCHANGED <<calls, remote, stat, poll, crashes, overwritten>>
  BY DEF Wait
<1>3. /\ task' \in [Callers -> CallerTask] /\ task'[c].key = k
      /\ \/ task'[c].at = "apply" /\ task'[c].payload.status = remote[k].job
         \/ task'[c].at = "raised" /\ task'[c].phase = "wait"
      /\ \A e \in Callers \ {c} : task'[e] = task[e]
  <2>1. CASE /\ remote[k].job \in Settled
             /\ task' = [task EXCEPT ![c].at = "apply", ![c].payload = Payload(k)]
    <3>1. task' = [task EXCEPT ![c] = [task[c] EXCEPT !.at = "apply", !.payload = Payload(k)]]
      BY <1>1, <2>1 DEF Typed
    <3>2. Payload(k) \in Payloads /\ "apply" \in Places
      BY <1>1, <2>1, PayloadTyped DEF Places
    <3>3. [task[c] EXCEPT !.at = "apply", !.payload = Payload(k)] \in CallerTask
      BY <1>1, <3>2 DEF CallerTask
    <3>4. Payload(k).status = remote[k].job
      BY DEF Payload
    <3> QED BY <1>1, <3>1, <3>3, <3>4 DEF Typed, CallerTask
  <2>2. CASE \E error \in {"client", "other"} : Raise(c, error)
    <3>1. {"client", "other"} \subseteq Errors
      BY DEF Errors
    <3> QED BY <1>1, <2>2, <3>1, CallerMoves
  <2> QED BY <2>1, <2>2 DEF Wait
<1>4. Typed'
  BY <1>1, <1>2, <1>3 DEF Typed
<1>5. RowOK(k)' /\ CallerOK(c)'
  BY <1>1, <1>2, <1>3 DEF RowOK, CallerOK, Unpaid
<1> QED BY <1>1, <1>2, <1>3, <1>4, <1>5, CallerStep DEF Early

LEMMA ApplyKeeps == ASSUME IInv, NEW c \in Callers, Apply(c)  PROVE IInv'
<1> DEFINE k == task[c].key
           p == task[c].payload
<1>1. /\ Typed /\ task[c].at = "apply" /\ k \in Keys /\ task[c] \in CallerTask
      /\ p \in Payloads /\ p.status = remote[k].job
      /\ calls[k].ext = "job" /\ calls[k].status # "NONE" /\ RowOK(k)
  BY DEF IInv, Typed, CallerOK, Apply, CallerTask
<1>2. Reconcile(k, p) /\ UNCHANGED <<remote, poll, crashes, overwritten>>
  BY DEF Apply
<1>3. /\ calls' \in [Keys -> Row] /\ stat' \in [attempts : Nat, credits : Int]
      /\ BillingAfter(k, p) \in Billings
      /\ \A j \in Keys \ {k} : calls'[j] = calls[j]
      /\ calls'[k].status = remote[k].job /\ calls'[k].status \in Settled /\ calls'[k].ext = "job"
  BY <1>1, <1>2, ReconcileTyped
<1>4. /\ task' \in [Callers -> CallerTask]
      /\ task'[c].at = "idle" \/ (task'[c].at = "text" /\ task'[c].key = k)
      /\ \A e \in Callers \ {c} : task'[e] = task[e]
  <2> DEFINE new == IF KindOf[k] = "session"
                    THEN [task[c] EXCEPT !.at = "text", !.billing = BillingAfter(k, p)] ELSE Idle
  <2>1. task' = [task EXCEPT ![c] = new]
    BY <1>1 DEF Apply, Typed
  <2>2. [task[c] EXCEPT !.at = "text", !.billing = BillingAfter(k, p)] \in CallerTask
    BY <1>1, <1>3 DEF CallerTask, Places
  <2>3. new \in CallerTask /\ (new.at = "idle" \/ (new.at = "text" /\ new.key = k))
    BY <1>1, <2>2, IdleTyped DEF Idle, CallerTask
  <2> HIDE DEF new
  <2> QED BY <1>1, <2>1, <2>3 DEF Typed
<1>5. Typed'
  BY <1>1, <1>2, <1>3, <1>4 DEF Typed, Settled
<1>6. \A j \in Keys : j = k => RowOK(j)'
  BY <1>1, <1>2, <1>3 DEF RowOK, Settled
<1>7. CallerOK(c)'
  BY <1>3, <1>4 DEF CallerOK, Unpaid, Settled
<1> QED BY <1>1, <1>2, <1>3, <1>4, <1>5, <1>6, <1>7, CallerStep DEF Early, Settled

(* What an older copy of the metadata, written back, changes.              *)
LEMMA WrittenBack ==
    ASSUME Typed, NEW k \in Keys, NEW billing \in Billings, WriteBack(k, billing)
    PROVE  /\ calls' = [calls EXCEPT ![k] = [calls[k] EXCEPT !.billing = billing]]
           /\ overwritten' \in Lost /\ overwritten'.rows = overwritten.rows
           /\ overwritten.billing \subseteq overwritten'.billing
           /\ calls[k].billing = "ACTUAL" /\ billing # "ACTUAL" => k \in overwritten'.billing
<1>1. calls \in [Keys -> Row] /\ overwritten \in Lost
  BY DEF Typed
<1>2. overwritten' = [overwritten EXCEPT !.billing = @ \cup Replaced(k, billing)]
  BY DEF WriteBack
<1>3. Replaced(k, billing) \subseteq Keys
  BY DEF Replaced
<1>4. calls' = [calls EXCEPT ![k] = [calls[k] EXCEPT !.billing = billing]]
  BY <1>1 DEF WriteBack
<1> QED BY <1>1, <1>2, <1>3, <1>4 DEF Lost, Replaced

LEMMA PersistKeeps == ASSUME IInv, NEW c \in Callers, PersistText(c)  PROVE IInv'
<1> DEFINE k == task[c].key
<1>1. /\ Typed /\ task[c].at = "text" /\ k \in Keys /\ calls[k] \in Row
      /\ task[c].billing \in Billings /\ calls[k].status # "NONE" /\ RowOK(k)
  BY DEF IInv, Typed, CallerOK, PersistText, CallerTask
<1>2. /\ calls' = calls \/ calls' = [calls EXCEPT ![k] = [calls[k] EXCEPT !.billing = task[c].billing]]
      /\ task' = [task EXCEPT ![c] = Idle] /\ overwritten' \in Lost
      /\ UNCHANGED <<remote, stat, poll, crashes>>
  <2>1. overwritten \in Lost
    BY <1>1 DEF Typed
  <2>2. CASE WriteBack(k, task[c].billing)
    BY <1>1, <2>1, <2>2, WrittenBack DEF PersistText
  <2>3. CASE UNCHANGED <<calls, overwritten>>
    BY <1>1, <2>1, <2>3 DEF PersistText
  <2> QED BY <2>2, <2>3 DEF PersistText
<1>3. /\ calls' \in [Keys -> Row]
      /\ calls'[k].status = calls[k].status /\ calls'[k].ext = calls[k].ext
      /\ \A j \in Keys \ {k} : calls'[j] = calls[j]
  <2>1. [calls[k] EXCEPT !.billing = task[c].billing] \in Row
    BY <1>1 DEF Row
  <2>2. CASE calls' = [calls EXCEPT ![k] = [calls[k] EXCEPT !.billing = task[c].billing]]
    BY <1>1, <2>1, <2>2 DEF Typed, Row
  <2> QED BY <1>1, <1>2, <2>2 DEF Typed
<1>4. /\ task' \in [Callers -> CallerTask] /\ task'[c].at = "idle"
      /\ \A e \in Callers \ {c} : task'[e] = task[e]
  BY <1>1, <1>2, IdleTyped DEF Typed, Idle
<1>5. Typed'
  BY <1>1, <1>2, <1>3, <1>4 DEF Typed
<1>6. \A j \in Keys : j = k => RowOK(j)'
  BY <1>1, <1>2, <1>3 DEF RowOK
<1>7. CallerOK(c)'
  BY <1>4 DEF CallerOK
<1> QED BY <1>1, <1>2, <1>3, <1>4, <1>5, <1>6, <1>7, CallerStep

(* A confirmed rejection is true: nothing was begun.                       *)
LEMMA RejectionIsTrue ==
    ASSUME IInv, NEW c \in Callers, task[c].at = "raised",
           ConfirmedRejection(task[c].key, task[c].phase, task[c].error)
    PROVE  remote[task[c].key].job = "none"
<1> DEFINE k == task[c].key
<1>1. /\ k \in Keys /\ KindOf[k] \in {"generate", "session"}
      /\ task[c].phase \in {"create", "post", "wait"}
      /\ task[c].phase = "create" => remote[k].job = "none"
      /\ task[c].phase = "post" /\ task[c].error \notin Ambiguous(k) => remote[k].job = "none"
      /\ task[c].phase = "wait" => calls[k].ext = "job"
  BY KeysAssumption DEF IInv, Typed, CallerOK, RowOK
<1>2. CASE task[c].phase = "post"
  BY <1>1, <1>2 DEF ConfirmedRejection, Ambiguous
<1>3. CASE task[c].phase = "wait"
  BY <1>1, <1>3 DEF ConfirmedRejection
<1> QED BY <1>1, <1>2, <1>3

LEMMA FailureKeeps == ASSUME IInv, NEW c \in Callers, WriteFailure(c)  PROVE IInv'
<1> DEFINE k == task[c].key
<1>1. /\ Typed /\ task[c].at = "raised" /\ k \in Keys /\ calls[k] \in Row
      /\ calls[k].status # "NONE" /\ RowOK(k)
  BY DEF IInv, Typed, CallerOK, WriteFailure
<1>2. PICK status \in {"FAILED", "UNKNOWN_REMOTE_STATE"}, billing \in Billings :
        /\ calls' = [calls EXCEPT ![k] = [calls[k] EXCEPT !.status = status, !.billing = billing]]
        /\ status = "FAILED" => remote[k].job = "none"
  <2>1. CASE ConfirmedRejection(k, task[c].phase, task[c].error)
    <3>1. calls' = [calls EXCEPT ![k] = [calls[k] EXCEPT !.status = "FAILED",
                                                         !.billing = "NOT_APPLICABLE"]]
      BY <1>1, <2>1 DEF WriteFailure, Typed
    <3>2. remote[k].job = "none" /\ "NOT_APPLICABLE" \in Billings
      BY <1>1, <2>1, RejectionIsTrue DEF Billings
    <3> QED BY <3>1, <3>2
  <2>2. CASE ~ConfirmedRejection(k, task[c].phase, task[c].error)
    <3> DEFINE billing == IF KindOf[k] = "generate" THEN "NONE" ELSE calls[k].billing
    <3>1. calls' = [calls EXCEPT ![k] = [calls[k] EXCEPT !.status = "UNKNOWN_REMOTE_STATE",
                                                         !.billing = billing]]
      BY <1>1, <2>2 DEF WriteFailure, Typed
    <3>2. billing \in Billings
      BY <1>1 DEF Row, Billings
    <3> HIDE DEF billing
    <3> QED BY <3>1, <3>2
  <2> QED BY <2>1, <2>2
<1>3. /\ task' = [task EXCEPT ![c] = Idle] /\ overwritten' \in Lost
      /\ UNCHANGED <<remote, stat, poll, crashes>>
  <2>1. overwritten \in Lost
    BY <1>1 DEF Typed
  <2>2. overwritten' = [overwritten EXCEPT !.rows =
            @ \cup (IF calls[k].status \in Settled THEN {k} ELSE {})]
    BY DEF WriteFailure
  <2>3. overwritten' \in Lost
    BY <1>1, <2>1, <2>2 DEF Lost
  <2>4. task' = [task EXCEPT ![c] = Idle] /\ UNCHANGED <<remote, stat, poll, crashes>>
    BY DEF WriteFailure
  <2> QED BY <2>3, <2>4
<1>4. /\ calls' \in [Keys -> Row]
      /\ calls'[k].status = status /\ calls'[k].ext = calls[k].ext
      /\ \A j \in Keys \ {k} : calls'[j] = calls[j]
  <2>1. [calls[k] EXCEPT !.status = status, !.billing = billing] \in Row
    BY <1>1 DEF Row, Statuses, Settled
  <2> QED BY <1>1, <1>2, <2>1 DEF Typed, Row
<1>5. /\ task' \in [Callers -> CallerTask] /\ task'[c].at = "idle"
      /\ \A e \in Callers \ {c} : task'[e] = task[e]
  BY <1>1, <1>3, IdleTyped DEF Typed, Idle
<1>6. Typed'
  BY <1>1, <1>3, <1>4, <1>5 DEF Typed
<1>7. \A j \in Keys : j = k => RowOK(j)'
  BY <1>1, <1>2, <1>3, <1>4 DEF RowOK
<1>8. CallerOK(c)'
  BY <1>5 DEF CallerOK
<1> QED BY <1>1, <1>3, <1>4, <1>5, <1>6, <1>7, <1>8, CallerStep DEF Early

-----------------------------------------------------------------------------
LEMMA PollKeeps == ASSUME IInv, NEW d \in Pollers, NEW k \in Keys, PollCall(d, k)  PROVE IInv'
<1> DEFINE at == IF calls[k].ext = "job" THEN "fetch" ELSE "discover"
           new == [Resting EXCEPT !.key = k, !.billing = calls[k].billing, !.at = at]
<1>1. Typed /\ calls[k] \in Row /\ calls[k].status \notin Early /\ RowOK(k)
  BY DEF IInv, Typed, PollCall, Pending, Early
<1>2. poll' = [poll EXCEPT ![d] = new] /\ UNCHANGED <<calls, remote, stat, task, crashes, overwritten>>
  BY DEF PollCall
<1>3. new \in PollerTask /\ new.at \in {"fetch", "discover"} /\ new.key = k
  BY <1>1, IdleTyped DEF PollerTask, Resting, Row
<1> HIDE DEF new
<1>4. /\ poll' \in [Pollers -> PollerTask] /\ poll'[d].at \in {"fetch", "discover"}
      /\ poll'[d].key = k /\ \A e \in Pollers \ {d} : poll'[e] = poll[e]
  BY <1>1, <1>2, <1>3 DEF Typed
<1>5. Typed'
  BY <1>1, <1>2, <1>4 DEF Typed
<1>6. RowOK(k)' /\ PollerOK(d)'
  BY <1>1, <1>2, <1>4 DEF RowOK, PollerOK
<1> QED BY <1>1, <1>2, <1>4, <1>5, <1>6, PollerStep

(* What holds while a poller is at work.                                   *)
LEMMA AtWork ==
    ASSUME IInv, NEW d \in Pollers, poll[d].at # "idle"
    PROVE  /\ Typed /\ poll[d] \in PollerTask /\ poll[d].key \in Keys
           /\ calls[poll[d].key] \in Row /\ RowOK(poll[d].key)
           /\ calls[poll[d].key].status \notin Early
           /\ poll[d].at = "apply" => poll[d].payload.status = remote[poll[d].key].job
BY DEF IInv, Typed, PollerOK

LEMMA DiscoverKeeps == ASSUME IInv, NEW d \in Pollers, DiscoverJob(d)  PROVE IInv'
<1> DEFINE k == poll[d].key
<1>1. /\ Typed /\ poll[d].at = "discover" /\ k \in Keys /\ calls[k] \in Row
      /\ poll[d] \in PollerTask /\ RowOK(k) /\ calls[k].status \notin Early
  BY AtWork DEF DiscoverJob
<1>2. /\ calls' = [calls EXCEPT ![k] = [calls[k] EXCEPT !.ext = "job", !.billing = poll[d].billing]]
      /\ poll' = [poll EXCEPT ![d] = [poll[d] EXCEPT !.at = "fetch"]] /\ overwritten' \in Lost
      /\ UNCHANGED <<remote, stat, task, crashes>>
  <2>1. overwritten \in Lost /\ Replaced(k, poll[d].billing) \subseteq Keys
    BY <1>1 DEF Typed, Replaced
  <2>2. overwritten' = [overwritten EXCEPT !.billing = @ \cup Replaced(k, poll[d].billing)]
    BY DEF DiscoverJob
  <2>3. overwritten' \in Lost
    BY <2>1, <2>2 DEF Lost
  <2> QED BY <1>1, <2>3 DEF DiscoverJob, Typed
<1>3. /\ calls' \in [Keys -> Row]
      /\ calls'[k].status = calls[k].status /\ calls'[k].ext = "job"
      /\ \A j \in Keys \ {k} : calls'[j] = calls[j]
  <2>1. [calls[k] EXCEPT !.ext = "job", !.billing = poll[d].billing] \in Row
    BY <1>1 DEF Row, PollerTask
  <2> QED BY <1>1, <1>2, <2>1 DEF Typed, Row
<1>4. /\ poll' \in [Pollers -> PollerTask] /\ poll'[d].at = "fetch" /\ poll'[d].key = k
      /\ \A e \in Pollers \ {d} : poll'[e] = poll[e]
  <2>1. [poll[d] EXCEPT !.at = "fetch"] \in PollerTask
    BY <1>1 DEF PollerTask
  <2> QED BY <1>1, <1>2, <2>1 DEF Typed, PollerTask
<1>5. Typed'
  BY <1>1, <1>2, <1>3, <1>4 DEF Typed
<1>6. RowOK(k)' /\ PollerOK(d)'
  BY <1>1, <1>2, <1>3, <1>4 DEF RowOK, PollerOK
<1> QED BY <1>1, <1>2, <1>3, <1>4, <1>5, <1>6, PollerStep

LEMMA FetchKeeps == ASSUME IInv, NEW d \in Pollers, FetchJob(d)  PROVE IInv'
<1> DEFINE k == poll[d].key
<1>1. /\ Typed /\ poll[d].at = "fetch" /\ k \in Keys /\ remote[k].job \in Settled
      /\ poll[d] \in PollerTask /\ RowOK(k) /\ calls[k].status \notin Early
  BY AtWork DEF FetchJob
<1>2. /\ poll' = [poll EXCEPT ![d] = [poll[d] EXCEPT !.at = "apply", !.payload = Payload(k)]]
      /\ UNCHANGED <<calls, remote, stat, task, crashes, overwritten>>
  BY <1>1 DEF FetchJob, Typed
<1>3. /\ poll' \in [Pollers -> PollerTask] /\ poll'[d].at = "apply" /\ poll'[d].key = k
      /\ poll'[d].payload.status = remote[k].job
      /\ \A e \in Pollers \ {d} : poll'[e] = poll[e]
  <2>1. Payload(k) \in Payloads /\ Payload(k).status = remote[k].job
    BY <1>1, PayloadTyped DEF Payload
  <2>2. [poll[d] EXCEPT !.at = "apply", !.payload = Payload(k)] \in PollerTask
    BY <1>1, <2>1 DEF PollerTask
  <2> QED BY <1>1, <1>2, <2>1, <2>2 DEF Typed, PollerTask
<1>4. Typed'
  BY <1>1, <1>2, <1>3 DEF Typed
<1>5. RowOK(k)' /\ PollerOK(d)'
  BY <1>1, <1>2, <1>3 DEF RowOK, PollerOK
<1> QED BY <1>1, <1>2, <1>3, <1>4, <1>5, PollerStep

(* The poller lays the call down.                                          *)
LEMMA RestingOK ==
    ASSUME Typed, NEW d \in Pollers, poll' = [poll EXCEPT ![d] = Resting]
    PROVE  /\ poll' \in [Pollers -> PollerTask] /\ poll'[d].at = "idle" /\ PollerOK(d)'
           /\ \A e \in Pollers \ {d} : poll'[e] = poll[e]
<1>1. poll' \in [Pollers -> PollerTask] /\ poll'[d] = Resting
      /\ \A e \in Pollers \ {d} : poll'[e] = poll[e]
  BY IdleTyped DEF Typed
<1>2. Resting.at = "idle"
  BY DEF Resting
<1> QED BY <1>1, <1>2 DEF PollerOK

LEMMA LaterKeeps == ASSUME IInv, NEW d \in Pollers, PollLater(d)  PROVE IInv'
<1>1. /\ Typed /\ poll[d].key \in Keys /\ RowOK(poll[d].key)
      /\ calls[poll[d].key].status \notin Early
  BY AtWork DEF PollLater
<1>2. /\ poll' = [poll EXCEPT ![d] = Resting]
      /\ UNCHANGED <<calls, remote, stat, task, crashes, overwritten>>
  BY DEF PollLater
<1>3. Typed'
  BY <1>1, <1>2, RestingOK DEF Typed
<1>4. \A j \in Keys : j = poll[d].key => RowOK(j)'
  BY <1>1, <1>2 DEF RowOK
<1> QED BY <1>1, <1>2, <1>3, <1>4, RestingOK, PollerStep

LEMMA ApplyPolledKeeps == ASSUME IInv, NEW d \in Pollers, ApplyPolled(d)  PROVE IInv'
<1> DEFINE k == poll[d].key
           p == poll[d].payload
<1>1. /\ Typed /\ poll[d].at = "apply" /\ k \in Keys /\ poll[d] \in PollerTask
      /\ p \in Payloads /\ p.status = remote[k].job /\ RowOK(k) /\ calls[k].status \notin Early
  BY AtWork DEF ApplyPolled, PollerTask
<1>2. Reconcile(k, p) /\ UNCHANGED <<remote, task, crashes, overwritten>>
  BY DEF ApplyPolled
<1>3. /\ calls' \in [Keys -> Row] /\ stat' \in [attempts : Nat, credits : Int]
      /\ BillingAfter(k, p) \in Billings
      /\ \A j \in Keys \ {k} : calls'[j] = calls[j]
      /\ calls'[k].status = remote[k].job /\ calls'[k].status \in Settled
      /\ calls'[k].ext = calls[k].ext
  BY <1>1, <1>2, ReconcileTyped
<1>4. /\ poll' \in [Pollers -> PollerTask]
      /\ poll'[d].at = "idle" \/ (poll'[d].at = "text" /\ poll'[d].key = k)
      /\ \A e \in Pollers \ {d} : poll'[e] = poll[e]
  <2> DEFINE new == IF KindOf[k] = "session"
                    THEN [poll[d] EXCEPT !.at = "text", !.billing = BillingAfter(k, p)]
                    ELSE Resting
  <2>1. poll' = [poll EXCEPT ![d] = new]
    BY <1>1 DEF ApplyPolled, Typed
  <2>2. [poll[d] EXCEPT !.at = "text", !.billing = BillingAfter(k, p)] \in PollerTask
    BY <1>1, <1>3 DEF PollerTask
  <2>3. new \in PollerTask /\ (new.at = "idle" \/ (new.at = "text" /\ new.key = k))
    BY <1>1, <2>2, IdleTyped DEF Resting, PollerTask
  <2> HIDE DEF new
  <2> QED BY <1>1, <2>1, <2>3 DEF Typed
<1>5. Typed'
  BY <1>1, <1>2, <1>3, <1>4 DEF Typed, Settled
<1>6. \A j \in Keys : j = k => RowOK(j)'
  BY <1>1, <1>2, <1>3 DEF RowOK, Settled
<1>7. PollerOK(d)'
  BY <1>3, <1>4 DEF PollerOK, Settled, Early
<1> QED BY <1>1, <1>2, <1>3, <1>4, <1>5, <1>6, <1>7, PollerStep DEF Early, Settled

LEMMA PersistPolledKeeps == ASSUME IInv, NEW d \in Pollers, PersistPolledText(d)  PROVE IInv'
<1> DEFINE k == poll[d].key
<1>1. /\ Typed /\ k \in Keys /\ calls[k] \in Row /\ poll[d].billing \in Billings
      /\ RowOK(k) /\ calls[k].status \notin Early
  BY AtWork DEF PersistPolledText, PollerTask
<1>2. /\ calls' = calls \/ calls' = [calls EXCEPT ![k] = [calls[k] EXCEPT !.billing = poll[d].billing]]
      /\ poll' = [poll EXCEPT ![d] = Resting] /\ overwritten' \in Lost
      /\ UNCHANGED <<remote, stat, task, crashes>>
  <2>1. overwritten \in Lost
    BY <1>1 DEF Typed
  <2>2. CASE WriteBack(k, poll[d].billing)
    BY <1>1, <2>1, <2>2, WrittenBack DEF PersistPolledText
  <2>3. CASE UNCHANGED <<calls, overwritten>>
    BY <1>1, <2>1, <2>3 DEF PersistPolledText
  <2> QED BY <2>2, <2>3 DEF PersistPolledText
<1>3. /\ calls' \in [Keys -> Row]
      /\ calls'[k].status = calls[k].status /\ calls'[k].ext = calls[k].ext
      /\ \A j \in Keys \ {k} : calls'[j] = calls[j]
  <2>1. [calls[k] EXCEPT !.billing = poll[d].billing] \in Row
    BY <1>1 DEF Row
  <2>2. CASE calls' = [calls EXCEPT ![k] = [calls[k] EXCEPT !.billing = poll[d].billing]]
    BY <1>1, <2>1, <2>2 DEF Typed, Row
  <2> QED BY <1>1, <1>2, <2>2 DEF Typed
<1>4. Typed'
  <2>1. poll' \in [Pollers -> PollerTask]
    BY <1>1, <1>2, RestingOK
  <2>2. \A e \in Pollers : poll'[e].at # "idle" => poll'[e].key \in Keys
    BY <1>1, <1>2, RestingOK DEF Typed
  <2>3. \A j \in Keys : calls'[j].status = "SUBMITTED" => calls'[j].ext = "job"
    BY <1>1, <1>3 DEF Typed
  <2> QED BY <1>1, <1>2, <1>3, <2>1, <2>2, <2>3 DEF Typed
<1>5. \A j \in Keys : j = k => RowOK(j)'
  BY <1>1, <1>2, <1>3 DEF RowOK
<1> QED BY <1>1, <1>2, <1>3, <1>4, <1>5, RestingOK, PollerStep

-----------------------------------------------------------------------------
(* The gateway only ends what runs, and nobody has an end of that in hand. *)
LEMMA RemoteStep ==
    ASSUME IInv, remote' \in [Keys -> Job],
           UNCHANGED <<calls, stat, task, poll, crashes, overwritten>>,
           \A k \in Keys :
               /\ remote'[k].posts = remote[k].posts
               /\ remote[k].job # "running" => remote'[k].job = remote[k].job
    PROVE  IInv'
<1>1. Typed' /\ OneCaller'
  BY DEF IInv, Typed, OneCaller
<1>2. ASSUME NEW k \in Keys  PROVE RowOK(k)'
  BY DEF IInv, RowOK
<1>3. ASSUME NEW c \in Callers  PROVE CallerOK(c)'
  <2>1. CallerOK(c) /\ task[c] \in CallerTask /\ (task[c].at # "idle" => task[c].key \in Keys)
    BY DEF IInv, Typed
  <2>2. task[c].payload.status # "running"
    BY <2>1 DEF CallerTask, Payloads, Settled
  <2> QED BY <2>1, <2>2 DEF CallerOK, Ambiguous
<1>4. ASSUME NEW d \in Pollers  PROVE PollerOK(d)'
  <2>1. PollerOK(d) /\ poll[d] \in PollerTask /\ (poll[d].at # "idle" => poll[d].key \in Keys)
    BY DEF IInv, Typed
  <2>2. poll[d].payload.status # "running"
    BY <2>1 DEF PollerTask, Payloads, Settled
  <2> QED BY <2>1, <2>2 DEF PollerOK
<1> QED BY <1>1, <1>2, <1>3, <1>4 DEF IInv

LEMMA RemoteEndsKeeps == ASSUME IInv, NEW k \in Keys, RemoteEnds(k)  PROVE IInv'
<1>1. remote \in [Keys -> Job] /\ remote[k] \in Job /\ remote[k].job = "running"
  BY DEF IInv, Typed, RemoteEnds
<1>2. PICK status \in Settled, charged \in Charges :
        remote' = [remote EXCEPT ![k].job = status, ![k].charged = charged]
  BY DEF RemoteEnds
<1>3. remote' = [remote EXCEPT ![k] = [remote[k] EXCEPT !.job = status, !.charged = charged]]
  BY <1>1, <1>2
<1>4. [remote[k] EXCEPT !.job = status, !.charged = charged] \in Job /\ charged \in Nat
  BY <1>1, CreditsAssumption DEF Job
<1>5. /\ remote' \in [Keys -> Job]
      /\ \A j \in Keys : /\ remote'[j].posts = remote[j].posts
                         /\ remote[j].job # "running" => remote'[j].job = remote[j].job
  BY <1>1, <1>3, <1>4 DEF Job
<1> QED BY <1>5, RemoteStep DEF RemoteEnds

LEMMA RemoteReportsKeeps == ASSUME IInv, NEW k \in Keys, RemoteReports(k)  PROVE IInv'
<1>1. remote \in [Keys -> Job] /\ remote[k] \in Job
  BY DEF IInv, Typed
<1>2. remote' = [remote EXCEPT ![k] = [remote[k] EXCEPT !.reported = TRUE]]
  BY <1>1 DEF RemoteReports
<1>3. [remote[k] EXCEPT !.reported = TRUE] \in Job
  BY <1>1 DEF Job
<1>4. /\ remote' \in [Keys -> Job]
      /\ \A j \in Keys : /\ remote'[j].posts = remote[j].posts
                         /\ remote[j].job # "running" => remote'[j].job = remote[j].job
  BY <1>1, <1>2, <1>3 DEF Job
<1> QED BY <1>4, RemoteStep DEF RemoteReports

(* Whoever dies leaves its rows as they are.                               *)
LEMMA CrashKeeps == ASSUME IInv, Crash  PROVE IInv'
<1>1. Typed /\ crashes' \in Nat /\ UNCHANGED <<calls, remote, stat, overwritten>>
  BY DEF IInv, Typed, Crash
<1>2. CASE \E c \in Callers : task' = [task EXCEPT ![c] = Idle] /\ UNCHANGED poll
  <2>1. PICK c \in Callers : task' = [task EXCEPT ![c] = Idle] /\ UNCHANGED poll
    BY <1>2
  <2>2. /\ task' \in [Callers -> CallerTask] /\ task'[c].at = "idle"
        /\ \A e \in Callers \ {c} : task'[e] = task[e]
    BY <1>1, <2>1, IdleTyped DEF Typed, Idle
  <2>3. Typed'
    BY <1>1, <2>1, <2>2 DEF Typed
  <2>4. OneCaller'
    BY <2>2 DEF IInv, OneCaller
  <2>5. \A k \in Keys : RowOK(k)'
    BY <1>1 DEF IInv, RowOK
  <2>6. \A e \in Callers : CallerOK(e)'
    BY <1>1, <2>2 DEF IInv, CallerOK, Ambiguous
  <2>7. \A d \in Pollers : PollerOK(d)'
    BY <1>1, <2>1 DEF IInv, PollerOK
  <2> QED BY <2>3, <2>4, <2>5, <2>6, <2>7 DEF IInv
<1>3. CASE \E d \in Pollers : poll' = [poll EXCEPT ![d] = Resting] /\ UNCHANGED task
  <2>1. PICK d \in Pollers : poll' = [poll EXCEPT ![d] = Resting] /\ UNCHANGED task
    BY <1>3
  <2>2. /\ poll' \in [Pollers -> PollerTask] /\ PollerOK(d)'
        /\ \A e \in Pollers \ {d} : poll'[e] = poll[e]
    BY <1>1, <2>1, RestingOK
  <2>3. Typed'
    <3>1. poll'[d].at = "idle"
      BY <1>1, <2>1, RestingOK
    <3> QED BY <1>1, <2>1, <2>2, <3>1 DEF Typed
  <2>4. OneCaller'
    BY <2>1 DEF IInv, OneCaller
  <2>5. \A k \in Keys : RowOK(k)'
    BY <1>1 DEF IInv, RowOK
  <2>6. \A c \in Callers : CallerOK(c)'
    BY <1>1, <2>1 DEF IInv, CallerOK, Ambiguous
  <2>7. \A e \in Pollers : PollerOK(e)'
    BY <1>1, <2>2 DEF IInv, PollerOK
  <2> QED BY <2>3, <2>4, <2>5, <2>6, <2>7 DEF IInv
<1> QED BY <1>2, <1>3 DEF Crash

-----------------------------------------------------------------------------
LEMMA InitIInv == Init => IInv
<1> SUFFICES ASSUME Init  PROVE IInv
  OBVIOUS
<1>1. Typed
  BY IdleTyped DEF Init, Typed, Row, Job, Statuses, Billings, Idle, Resting, Lost
<1>2. /\ \A c \in Callers : task[c].at = "idle"
      /\ \A d \in Pollers : poll[d].at = "idle"
  BY DEF Init, Idle, Resting
<1>3. \A k \in Keys : RowOK(k)
  BY DEF Init, RowOK
<1> QED BY <1>1, <1>2, <1>3 DEF IInv, OneCaller, CallerOK, PollerOK

LEMMA CallerKeeps == ASSUME IInv, NEW c \in Callers, Caller(c)  PROVE IInv'
BY ReserveKeeps, StartKeeps, CreateKeeps, RecordSessionKeeps, PostKeeps, RecordJobKeeps, WaitKeeps,
   ApplyKeeps, PersistKeeps, FailureKeeps DEF Caller

LEMMA PollerKeeps == ASSUME IInv, NEW d \in Pollers, Poller(d)  PROVE IInv'
BY PollKeeps, DiscoverKeeps, FetchKeeps, LaterKeeps, ApplyPolledKeeps, PersistPolledKeeps
   DEF Poller

LEMMA StutterKeeps == ASSUME IInv, UNCHANGED vars  PROVE IInv'
<1>1. Typed' /\ OneCaller'
  BY DEF IInv, Typed, OneCaller, vars
<1>2. \A k \in Keys : RowOK(k)'
  BY DEF IInv, RowOK, vars
<1>3. (\A c \in Callers : CallerOK(c)') /\ \A d \in Pollers : PollerOK(d)'
  BY DEF IInv, CallerOK, PollerOK, Ambiguous, vars
<1> QED BY <1>1, <1>2, <1>3 DEF IInv

LEMMA StepIInv == IInv /\ [Next]_vars => IInv'
BY CallerKeeps, PollerKeeps, RemoteEndsKeeps, RemoteReportsKeeps, CrashKeeps, StutterKeeps DEF Next

THEOREM Inductive == Spec => []IInv
BY InitIInv, StepIInv, PTL DEF Spec

(* TypeOK holds of whatever callers and pollers work on whatever calls.    *)
THEOREM Types == Spec => []TypeOK
<1>1. IInv => TypeOK
  BY TypeIsTyped DEF IInv
<1> QED BY <1>1, Inductive, PTL

(* No request key is paid for twice: a second POST would need a caller that*)
(* has not paid, and CallerOK leaves none once a row has left Early.       *)
THEOREM PaidOnce == Spec => []OnePaidPost
<1>1. IInv => OnePaidPost
  BY DEF IInv, RowOK, OnePaidPost
<1> QED BY <1>1, Inductive, PTL

(* A reservation is given back only for work that was never begun or that  *)
(* the gateway itself failed.                                              *)
THEOREM RejectedHasNoWork == Spec => []FailedCallHasNoWork
<1>1. IInv => FailedCallHasNoWork
  BY DEF IInv, RowOK, FailedCallHasNoWork
<1> QED BY <1>1, Inductive, PTL

-----------------------------------------------------------------------------
(* What is known of a call's credits: the gateway reported them, or they   *)
(* were of failed work and an older copy of the metadata let them go.      *)
Evidence(k) ==
    /\ remote[k].reported
    /\ \/ calls[k].credits = remote[k].charged
       \/ k \in overwritten.billing /\ remote[k].job = "FAILED"

(* What was read of a job, and what a reader of the row will write back.   *)
ReadTrue(k, p) == p.known => remote[k].reported /\ p.credits = remote[k].charged
BillingTrue(k, billing) ==
    /\ KindOf[k] = "session"
    /\ billing = "ACTUAL" =>
           Evidence(k) /\ (calls[k].billing = "ACTUAL" \/ k \in overwritten.billing)
    /\ billing = "NOT_APPLICABLE" => remote[k].job \in {"none", "FAILED"}

(* A row and its evidence: there is none before the job is recorded, and   *)
(* what there is came from the gateway.                                    *)
RowEvidence(k) ==
    /\ calls[k].status \in Early => calls[k].ext # "job"
    /\ calls[k].ext # "job" =>
           calls[k].credits = 0 /\ (calls[k].billing \in {"NONE", "PENDING"} \/ calls[k].status = "FAILED")
    /\ calls[k].status \in {"COMPLETED", "CANCELLED"} => calls[k].status = remote[k].job
    /\ remote[k].reported => remote[k].job \in Settled
    /\ calls[k].billing = "ACTUAL" \/ calls[k].credits > 0 => Evidence(k)
    /\ calls[k].billing = "NOT_APPLICABLE" => remote[k].job \in {"none", "FAILED"}
    /\ k \notin overwritten.rows =>
           /\ calls[k].status \notin Settled => calls[k].credits = 0
           /\ calls[k].credits > 0 => calls[k].billing = "ACTUAL" \/ k \in overwritten.billing

CallerEvidence(c) ==
    LET k == task[c].key
    IN  /\ task[c].at = "posted" => calls[k].status \in Early
        /\ task[c].at = "raised" /\ task[c].phase \in {"create", "post"} => calls[k].status \in Early
        /\ task[c].at = "apply" => ReadTrue(k, task[c].payload)
        /\ task[c].at = "text" => BillingTrue(k, task[c].billing)

PollerEvidence(d) ==
    LET k == poll[d].key
    IN  /\ poll[d].at \in {"fetch", "apply", "text"} => calls[k].ext = "job"
        /\ poll[d].at = "discover" =>
               /\ poll[d].billing \in {"NONE", "PENDING"}
               /\ calls[k].status \in Settled => calls[k].ext = "job"
        /\ poll[d].at = "apply" => ReadTrue(k, poll[d].payload)
        /\ poll[d].at = "text" => BillingTrue(k, poll[d].billing)

EvInv ==
    /\ \A k \in Keys : RowEvidence(k)
    /\ \A c \in Callers : CallerEvidence(c)
    /\ \A d \in Pollers : PollerEvidence(d)

(* What call k may come to cost its job: its estimate until the paid POST  *)
(* can no longer happen or the work has ended, and what it cost, up to the *)
(* estimate, from then on.                                                 *)
Held(k) ==
    IF remote[k].job = "none"
    THEN IF \E c \in Callers : task[c].at \in Unpaid /\ task[c].key = k THEN Estimate[k] ELSE 0
    ELSE Exposure(k)

-----------------------------------------------------------------------------
(* What a step on call k must leave to those who have read its row or job. *)
LeavesTrue(k) ==
    /\ remote'[k] = remote[k]
    /\ calls[k].ext = "job" => calls'[k].ext = "job"
    /\ calls'[k].status \in Settled /\ calls'[k].ext # "job" => calls[k].status \in Settled
    /\ KindOf[k] = "session" =>
           /\ \/ calls'[k].credits = calls[k].credits
              \/ remote[k].reported /\ calls'[k].credits = remote[k].charged
              \/ calls[k].billing # "ACTUAL" /\ remote[k].job = "FAILED"
           /\ calls[k].billing = "ACTUAL" =>
                  calls'[k].billing = "ACTUAL" \/ k \in overwritten'.billing

Grows ==
    /\ overwritten.rows \subseteq overwritten'.rows
    /\ overwritten.billing \subseteq overwritten'.billing

LEMMA RowStays ==
    ASSUME NEW k \in Keys, RowEvidence(k), calls'[k] = calls[k], remote'[k] = remote[k], Grows
    PROVE  RowEvidence(k)'
BY DEF RowEvidence, Evidence, Grows

(* A caller, or a poller, that sees a step on call k.                      *)
LEMMA CallerSees ==
    ASSUME Typed, NEW c \in Callers, CallerEvidence(c), task'[c] = task[c], NEW k \in Keys, Grows,
           \A j \in Keys \ {k} : calls'[j] = calls[j] /\ remote'[j] = remote[j],
           task[c].at # "idle" /\ task[c].key = k => LeavesTrue(k) /\ calls[k].status \notin Early
    PROVE  CallerEvidence(c)'
<1>1. CASE task[c].at = "idle"
  BY <1>1 DEF CallerEvidence
<1>2. CASE task[c].at # "idle" /\ task[c].key = k
  BY <1>2 DEF CallerEvidence, LeavesTrue, ReadTrue, BillingTrue, Evidence, Grows
<1>3. CASE task[c].at # "idle" /\ task[c].key # k
  <2>1. task[c].key \in Keys \ {k}
    BY <1>3 DEF Typed
  <2>2. calls'[task[c].key] = calls[task[c].key] /\ remote'[task[c].key] = remote[task[c].key]
    BY <2>1
  <2> QED BY <2>2 DEF CallerEvidence, ReadTrue, BillingTrue, Evidence, Grows
<1> QED BY <1>1, <1>2, <1>3

LEMMA PollerSees ==
    ASSUME Typed, NEW d \in Pollers, PollerEvidence(d), poll'[d] = poll[d], NEW k \in Keys, Grows,
           \A j \in Keys \ {k} : calls'[j] = calls[j] /\ remote'[j] = remote[j],
           poll[d].at # "idle" /\ poll[d].key = k => LeavesTrue(k)
    PROVE  PollerEvidence(d)'
<1>1. CASE poll[d].at = "idle"
  BY <1>1 DEF PollerEvidence
<1>2. CASE poll[d].at # "idle" /\ poll[d].key = k
  BY <1>2 DEF PollerEvidence, LeavesTrue, ReadTrue, BillingTrue, Evidence, Grows
<1>3. CASE poll[d].at # "idle" /\ poll[d].key # k
  <2>1. poll[d].key \in Keys \ {k}
    BY <1>3 DEF Typed
  <2>2. calls'[poll[d].key] = calls[poll[d].key] /\ remote'[poll[d].key] = remote[poll[d].key]
    BY <2>1
  <2> QED BY <2>2 DEF PollerEvidence, ReadTrue, BillingTrue, Evidence, Grows
<1> QED BY <1>1, <1>2, <1>3

(* A step of caller c on its call k, and of poller d on call k.            *)
LEMMA CallerEvStep ==
    ASSUME IInv, EvInv, UNCHANGED poll, NEW c \in Callers, NEW k \in Keys, Grows,
           IF task[c].at = "idle" THEN calls[k].status = "NONE" ELSE task[c].key = k,
           \A e \in Callers \ {c} : task'[e] = task[e],
           \A j \in Keys \ {k} : calls'[j] = calls[j] /\ remote'[j] = remote[j],
           calls[k].status \in Early \/ LeavesTrue(k),
           RowEvidence(k)', CallerEvidence(c)'
    PROVE  EvInv'
<1>1. \A e \in Callers \ {c} : ~(task[e].at # "idle" /\ task[e].key = k)
  BY DEF IInv, Typed, OneCaller, CallerOK
<1>2. ASSUME NEW e \in Callers \ {c}  PROVE CallerEvidence(e)'
  <2>1. Typed /\ CallerEvidence(e)
    BY DEF IInv, EvInv
  <2> QED BY <1>1, <2>1, CallerSees
<1>3. ASSUME NEW d \in Pollers  PROVE PollerEvidence(d)'
  <2>1. Typed /\ PollerEvidence(d) /\ (poll[d].at # "idle" => calls[poll[d].key].status \notin Early)
    BY DEF IInv, EvInv, PollerOK
  <2> QED BY <2>1, PollerSees
<1>4. ASSUME NEW j \in Keys \ {k}  PROVE RowEvidence(j)'
  BY RowStays DEF EvInv
<1> QED BY <1>2, <1>3, <1>4 DEF EvInv

LEMMA PollerEvStep ==
    ASSUME IInv, EvInv, UNCHANGED <<task, remote>>, NEW d \in Pollers, NEW k \in Keys, Grows,
           \A e \in Pollers \ {d} : poll'[e] = poll[e],
           \A j \in Keys \ {k} : calls'[j] = calls[j],
           calls[k].status \notin Early, LeavesTrue(k),
           RowEvidence(k)', PollerEvidence(d)'
    PROVE  EvInv'
<1>1. ASSUME NEW c \in Callers  PROVE CallerEvidence(c)'
  <2>1. Typed /\ CallerEvidence(c)
    BY DEF IInv, EvInv
  <2> QED BY <2>1, CallerSees
<1>2. ASSUME NEW e \in Pollers \ {d}  PROVE PollerEvidence(e)'
  <2>1. Typed /\ PollerEvidence(e)
    BY DEF IInv, EvInv
  <2> QED BY <2>1, PollerSees
<1>3. ASSUME NEW j \in Keys \ {k}  PROVE RowEvidence(j)'
  BY RowStays DEF EvInv
<1> QED BY <1>1, <1>2, <1>3 DEF EvInv


(* The rows of a caller that has not recorded a job show no evidence.      *)
LEMMA EarlyRow ==
    ASSUME Typed, NEW k \in Keys, RowEvidence(k), calls[k].status \in Early
    PROVE  /\ calls[k].ext # "job" /\ calls[k].credits = 0
           /\ calls[k].billing \in {"NONE", "PENDING"}
BY DEF RowEvidence, Early

LEMMA ReserveEv ==
    ASSUME IInv, EvInv, NEW c \in Callers, NEW k \in Keys, ReserveCall(c, k)
    PROVE  EvInv'
<1>1. Typed /\ calls[k] \in Row /\ calls[k].status = "NONE" /\ task[c].at = "idle" /\ RowEvidence(k)
  BY DEF IInv, EvInv, Typed, ReserveCall, Fresh, Idle
<1>2. calls[k].ext # "job" /\ calls[k].credits = 0 /\ calls[k].billing \in {"NONE", "PENDING"}
  BY <1>1, EarlyRow DEF Early
<1>3. /\ calls' = [calls EXCEPT ![k] = [calls[k] EXCEPT !.status = "RESERVED"]]
      /\ task' = [task EXCEPT ![c] = [Idle EXCEPT !.at = "reserved", !.key = k]]
      /\ UNCHANGED <<remote, poll, overwritten>>
  BY <1>1 DEF ReserveCall, Typed
<1>4. /\ calls'[k].status = "RESERVED" /\ calls'[k].ext = calls[k].ext
      /\ calls'[k].credits = calls[k].credits /\ calls'[k].billing = calls[k].billing
      /\ \A j \in Keys \ {k} : calls'[j] = calls[j]
  BY <1>1, <1>3 DEF Typed, Row
<1>5. task'[c].at = "reserved" /\ \A e \in Callers \ {c} : task'[e] = task[e]
  BY <1>1, <1>3 DEF Typed, Idle
<1>6. RowEvidence(k)'
  BY <1>1, <1>2, <1>3, <1>4 DEF RowEvidence, Evidence
<1>7. CallerEvidence(c)'
  BY <1>5 DEF CallerEvidence
<1> QED BY <1>1, <1>3, <1>4, <1>5, <1>6, <1>7, CallerEvStep DEF Early, Grows

LEMMA StartEv == ASSUME IInv, EvInv, NEW c \in Callers, StartSubmission(c)  PROVE EvInv'
<1> DEFINE k == task[c].key
<1>1. /\ Typed /\ task[c].at = "reserved" /\ k \in Keys /\ calls[k] \in Row
      /\ calls[k].status \in Early /\ RowEvidence(k)
  BY DEF IInv, EvInv, Typed, CallerOK, StartSubmission, Unpaid
<1>2. calls[k].ext # "job" /\ calls[k].credits = 0 /\ calls[k].billing \in {"NONE", "PENDING"}
  BY <1>1, EarlyRow
<1>3. /\ calls' = [calls EXCEPT ![k] = [calls[k] EXCEPT !.status = "SUBMITTING"]]
      /\ UNCHANGED <<remote, poll, overwritten>>
  BY <1>1 DEF StartSubmission, Typed
<1>4. /\ calls'[k].status = "SUBMITTING" /\ calls'[k].ext = calls[k].ext
      /\ calls'[k].credits = calls[k].credits /\ calls'[k].billing = calls[k].billing
      /\ \A j \in Keys \ {k} : calls'[j] = calls[j]
  BY <1>1, <1>3 DEF Typed, Row
<1>5. task'[c].at \in {"create", "post"} /\ \A e \in Callers \ {c} : task'[e] = task[e]
  <2>1. Goto(c, "create") \/ Goto(c, "post")
    BY DEF StartSubmission
  <2>2. "create" \in Places /\ "post" \in Places
    BY DEF Places
  <2> QED BY <1>1, <2>1, <2>2, CallerMoves
<1>6. \A j \in Keys : j = k => RowEvidence(j)'
  BY <1>1, <1>2, <1>3, <1>4 DEF RowEvidence, Evidence
<1>7. CallerEvidence(c)'
  BY <1>5 DEF CallerEvidence
<1> QED BY <1>1, <1>3, <1>4, <1>5, <1>6, <1>7, CallerEvStep DEF Grows

LEMMA CreateEv == ASSUME IInv, EvInv, NEW c \in Callers, CreateSession(c)  PROVE EvInv'
<1> DEFINE k == task[c].key
<1>1. /\ Typed /\ task[c].at = "create" /\ k \in Keys
      /\ calls[k].status \in Early /\ RowEvidence(k)
  BY DEF IInv, EvInv, Typed, CallerOK, CreateSession, Unpaid
<1>2. UNCHANGED <<calls, remote, poll, overwritten>>
  BY DEF CreateSession
<1>3. /\ task'[c].at \in {"created", "raised"} /\ task'[c].key = k
      /\ \A e \in Callers \ {c} : task'[e] = task[e]
  <2>1. Goto(c, "created") \/ \E error \in Errors : Raise(c, error)
    BY DEF CreateSession
  <2>2. "created" \in Places
    BY DEF Places
  <2> QED BY <1>1, <2>1, <2>2, CallerMoves
<1>4. \A j \in Keys : j = k => RowEvidence(j)'
  BY <1>1, <1>2, RowStays DEF Grows
<1>5. CallerEvidence(c)'
  BY <1>1, <1>2, <1>3 DEF CallerEvidence
<1> QED BY <1>1, <1>2, <1>3, <1>4, <1>5, CallerEvStep DEF Grows

LEMMA RecordSessionEv == ASSUME IInv, EvInv, NEW c \in Callers, RecordSession(c)  PROVE EvInv'
<1> DEFINE k == task[c].key
<1>1. /\ Typed /\ task[c].at = "created" /\ k \in Keys /\ calls[k] \in Row
      /\ calls[k].status \in Early /\ RowEvidence(k)
  BY DEF IInv, EvInv, Typed, CallerOK, RecordSession, Unpaid
<1>2. calls[k].credits = 0
  BY <1>1, EarlyRow
<1>3. /\ calls' = [calls EXCEPT ![k] = [calls[k] EXCEPT !.ext = "session",
                                              !.status = "SUBMITTING", !.billing = "PENDING"]]
      /\ UNCHANGED <<remote, poll, overwritten>>
  BY <1>1 DEF RecordSession, SessionStatus, Typed
<1>4. /\ calls'[k].status = "SUBMITTING" /\ calls'[k].ext = "session"
      /\ calls'[k].credits = calls[k].credits /\ calls'[k].billing = "PENDING"
      /\ \A j \in Keys \ {k} : calls'[j] = calls[j]
  BY <1>1, <1>3 DEF Typed, Row
<1>5. task'[c].at = "post" /\ \A e \in Callers \ {c} : task'[e] = task[e]
  <2>1. Goto(c, "post") /\ "post" \in Places
    BY DEF RecordSession, Places
  <2> QED BY <1>1, <2>1, CallerMoves
<1>6. \A j \in Keys : j = k => RowEvidence(j)'
  BY <1>1, <1>2, <1>3, <1>4 DEF RowEvidence, Evidence
<1>7. CallerEvidence(c)'
  BY <1>5 DEF CallerEvidence
<1> QED BY <1>1, <1>3, <1>4, <1>5, <1>6, <1>7, CallerEvStep DEF Grows

LEMMA PostEv == ASSUME IInv, EvInv, NEW c \in Callers, PostWork(c)  PROVE EvInv'
<1> DEFINE k == task[c].key
<1>1. /\ Typed /\ task[c].at = "post" /\ k \in Keys /\ remote[k] \in Job
      /\ calls[k].status \in Early /\ remote[k].job = "none" /\ RowEvidence(k)
  BY DEF IInv, EvInv, Typed, CallerOK, RowOK, PostWork, Unpaid
<1>2. /\ calls[k].ext # "job" /\ calls[k].credits = 0 /\ calls[k].billing \in {"NONE", "PENDING"}
      /\ ~remote[k].reported
  <2>1. ~remote[k].reported
    BY <1>1 DEF RowEvidence, Settled
  <2> QED BY <1>1, <2>1, EarlyRow
<1>3. UNCHANGED <<calls, poll, overwritten>>
  BY DEF PostWork
<1>4. /\ remote'[k].reported = remote[k].reported
      /\ \A j \in Keys \ {k} : remote'[j] = remote[j]
  BY <1>1 DEF PostWork, Typed, Job
<1>5. /\ task'[c].at \in {"posted", "raised"} /\ task'[c].key = k
      /\ \A e \in Callers \ {c} : task'[e] = task[e]
  <2>1. Goto(c, "posted") \/ \E error \in Errors : Raise(c, error)
    <3>1. Ambiguous(k) \subseteq Errors
      BY DEF Ambiguous, Errors
    <3> QED BY <3>1 DEF PostWork
  <2>2. "posted" \in Places
    BY DEF Places
  <2> QED BY <1>1, <2>1, <2>2, CallerMoves
<1>6. \A j \in Keys : j = k => RowEvidence(j)'
  BY <1>1, <1>2, <1>3, <1>4 DEF RowEvidence, Evidence, Early
<1>7. CallerEvidence(c)'
  BY <1>1, <1>3, <1>5 DEF CallerEvidence
<1> QED BY <1>1, <1>3, <1>4, <1>5, <1>6, <1>7, CallerEvStep DEF Grows

LEMMA RecordJobEv == ASSUME IInv, EvInv, NEW c \in Callers, RecordJob(c)  PROVE EvInv'
<1> DEFINE k == task[c].key
           billing == IF KindOf[k] = "session" THEN "PENDING" ELSE calls[k].billing
<1>1. /\ Typed /\ task[c].at = "posted" /\ k \in Keys /\ calls[k] \in Row
      /\ calls[k].status \in Early /\ RowEvidence(k)
  BY DEF IInv, EvInv, Typed, CallerEvidence, RecordJob
<1>2. calls[k].credits = 0 /\ calls[k].billing \in {"NONE", "PENDING"}
  BY <1>1, EarlyRow
<1>3. /\ calls' = [calls EXCEPT ![k] = [calls[k] EXCEPT !.ext = "job", !.status = "SUBMITTED",
                                              !.billing = billing]]
      /\ UNCHANGED <<remote, poll, overwritten>>
  BY <1>1 DEF RecordJob, Typed
<1>4. /\ calls'[k].status = "SUBMITTED" /\ calls'[k].ext = "job"
      /\ calls'[k].credits = calls[k].credits /\ calls'[k].billing \in {"NONE", "PENDING"}
      /\ \A j \in Keys \ {k} : calls'[j] = calls[j]
  BY <1>1, <1>2, <1>3 DEF Typed, Row
<1>5. task'[c].at = "wait" /\ \A e \in Callers \ {c} : task'[e] = task[e]
  <2>1. Goto(c, "wait") /\ "wait" \in Places
    BY DEF RecordJob, Places
  <2> QED BY <1>1, <2>1, CallerMoves
<1>6. \A j \in Keys : j = k => RowEvidence(j)'
  BY <1>1, <1>2, <1>3, <1>4 DEF RowEvidence, Evidence, Early
<1>7. CallerEvidence(c)'
  BY <1>5 DEF CallerEvidence
<1> QED BY <1>1, <1>3, <1>4, <1>5, <1>6, <1>7, CallerEvStep DEF Grows

(* What a GET shows is true of the job it was asked about.                 *)
LEMMA WaitEv == ASSUME IInv, EvInv, NEW c \in Callers, Wait(c)  PROVE EvInv'
<1> DEFINE k == task[c].key
<1>1. /\ Typed /\ task[c].at = "wait" /\ k \in Keys /\ task[c] \in CallerTask /\ RowEvidence(k)
  BY DEF IInv, EvInv, Typed, Wait
<1>2. UNCHANGED <<calls, remote, poll, overwritten>>
  BY DEF Wait
<1>3. /\ task'[c].key = k
      /\ \/ task'[c].at = "apply" /\ task'[c].payload = Payload(k)
         \/ task'[c].at = "raised" /\ task'[c].phase = "wait"
      /\ \A e \in Callers \ {c} : task'[e] = task[e]
  <2>1. CASE task' = [task EXCEPT ![c].at = "apply", ![c].payload = Payload(k)]
    BY <1>1, <2>1 DEF Typed, CallerTask
  <2>2. CASE \E error \in {"client", "other"} : Raise(c, error)
    <3>1. {"client", "other"} \subseteq Errors
      BY DEF Errors
    <3> QED BY <1>1, <2>2, <3>1, CallerMoves
  <2> QED BY <2>1, <2>2 DEF Wait
<1>4. \A j \in Keys : j = k => RowEvidence(j)'
  BY <1>1, <1>2, RowStays DEF Grows
<1>5. CallerEvidence(c)'
  BY <1>1, <1>2, <1>3 DEF CallerEvidence, ReadTrue, Payload
<1>6. LeavesTrue(k)
  BY <1>2 DEF LeavesTrue
<1> QED BY <1>1, <1>2, <1>3, <1>4, <1>5, <1>6, CallerEvStep DEF Grows

(* The evidence a reconciliation leaves, and what others know of the row.  *)
LEMMA ReconcileEv ==
    ASSUME Typed, NEW k \in Keys, RowEvidence(k), NEW p \in Payloads, p.status = remote[k].job,
           ReadTrue(k, p), calls[k].ext = "job", Reconcile(k, p), UNCHANGED <<remote, overwritten>>
    PROVE  RowEvidence(k)' /\ LeavesTrue(k) /\ calls'[k].billing = BillingAfter(k, p)
<1>1. /\ calls[k] \in Row /\ calls[k].credits \in Nat /\ p.status \in Settled /\ p.known \in BOOLEAN
  BY DEF Typed, Row, Payloads
<1>2. /\ calls'[k].status = p.status /\ calls'[k].ext = "job"
      /\ calls'[k].billing = BillingAfter(k, p) /\ calls'[k].credits = CreditsAfter(k, p)
  BY <1>1 DEF Reconcile, Typed, Row
<1>3. CASE p.known
  <2>1. /\ calls'[k].billing = "ACTUAL" /\ calls'[k].credits = remote[k].charged
        /\ remote[k].reported
    BY <1>2, <1>3 DEF BillingAfter, CreditsAfter, ReadTrue
  <2> QED BY <1>1, <1>2, <2>1 DEF RowEvidence, Evidence, LeavesTrue, Early, Settled
<1>4. CASE ~p.known /\ calls[k].billing = "ACTUAL"
  <2>1. calls'[k].billing = "ACTUAL" /\ calls'[k].credits = calls[k].credits
    BY <1>2, <1>4 DEF BillingAfter, CreditsAfter
  <2> QED BY <1>1, <1>2, <1>4, <2>1 DEF RowEvidence, Evidence, LeavesTrue, Early, Settled
<1>5. CASE ~p.known /\ calls[k].billing # "ACTUAL" /\ p.status = "FAILED"
  <2>1. calls'[k].billing = "NOT_APPLICABLE" /\ calls'[k].credits = 0
    BY <1>2, <1>5 DEF BillingAfter, CreditsAfter
  <2> QED BY <1>1, <1>2, <1>5, <2>1 DEF RowEvidence, Evidence, LeavesTrue, Early, Settled
<1>6. CASE ~p.known /\ calls[k].billing # "ACTUAL" /\ p.status # "FAILED"
  <2>1. calls'[k].billing = "UNRESOLVED" /\ calls'[k].credits = calls[k].credits
    BY <1>2, <1>6 DEF BillingAfter, CreditsAfter
  <2> QED BY <1>1, <1>2, <1>6, <2>1 DEF RowEvidence, Evidence, LeavesTrue, Early, Settled
<1> QED BY <1>1, <1>3, <1>4, <1>5, <1>6

(* Whoever read the row just reconciled holds its evidence.                *)
LEMMA ReadBack ==
    ASSUME NEW k \in Keys, RowEvidence(k), KindOf[k] = "session"
    PROVE  BillingTrue(k, calls[k].billing)
BY DEF RowEvidence, BillingTrue

LEMMA ApplyEv == ASSUME IInv, EvInv, NEW c \in Callers, Apply(c)  PROVE EvInv'
<1> DEFINE k == task[c].key
           p == task[c].payload
<1>1. /\ Typed /\ task[c].at = "apply" /\ k \in Keys /\ task[c] \in CallerTask
      /\ p \in Payloads /\ p.status = remote[k].job /\ calls[k].ext = "job"
      /\ RowEvidence(k) /\ ReadTrue(k, p)
  BY DEF IInv, EvInv, Typed, CallerOK, CallerEvidence, Apply, CallerTask
<1>2. Reconcile(k, p) /\ UNCHANGED <<remote, poll, overwritten>>
  BY DEF Apply
<1>3. \A j \in Keys \ {k} : calls'[j] = calls[j]
  BY <1>1, <1>2, ReconcileTyped
<1>4. /\ \A j \in Keys : j = k => RowEvidence(j)'
      /\ LeavesTrue(k) /\ calls'[k].billing = BillingAfter(k, p)
  BY <1>1, <1>2, ReconcileEv
<1>5. /\ \/ task'[c].at = "idle"
         \/ /\ KindOf[k] = "session" /\ task'[c].at = "text" /\ task'[c].key = k
            /\ task'[c].billing = calls'[k].billing
      /\ \A e \in Callers \ {c} : task'[e] = task[e]
  <2> DEFINE new == IF KindOf[k] = "session"
                    THEN [task[c] EXCEPT !.at = "text", !.billing = BillingAfter(k, p)] ELSE Idle
  <2>1. task' = [task EXCEPT ![c] = new]
    BY <1>1 DEF Apply, Typed
  <2>2. \/ new.at = "idle"
        \/ KindOf[k] = "session" /\ new.at = "text" /\ new.key = k /\ new.billing = BillingAfter(k, p)
    BY <1>1 DEF Idle, CallerTask
  <2> HIDE DEF new
  <2> QED BY <1>1, <1>4, <2>1, <2>2 DEF Typed
<1>6. CallerEvidence(c)'
  BY <1>1, <1>4, <1>5 DEF CallerEvidence, RowEvidence, BillingTrue, Evidence
<1> QED BY <1>1, <1>2, <1>3, <1>4, <1>5, <1>6, CallerEvStep DEF Grows

(* An older copy of the metadata is written back.                          *)
LEMMA WriteBackEv ==
    ASSUME Typed, NEW k \in Keys, RowEvidence(k), calls[k].ext = "job", NEW billing \in Billings,
           BillingTrue(k, billing), WriteBack(k, billing), UNCHANGED remote
    PROVE  RowEvidence(k)' /\ LeavesTrue(k) /\ Grows
<1>1. /\ calls' = [calls EXCEPT ![k] = [calls[k] EXCEPT !.billing = billing]]
      /\ overwritten'.rows = overwritten.rows /\ overwritten.billing \subseteq overwritten'.billing
      /\ calls[k].billing = "ACTUAL" /\ billing # "ACTUAL" => k \in overwritten'.billing
  BY WrittenBack
<1>2. /\ calls'[k].status = calls[k].status /\ calls'[k].ext = calls[k].ext
      /\ calls'[k].credits = calls[k].credits /\ calls'[k].billing = billing
  BY <1>1 DEF Typed, Row
<1>3. calls[k].credits \in Nat
  BY DEF Typed, Row
<1>4. RowEvidence(k)'
  BY <1>1, <1>2, <1>3 DEF RowEvidence, Evidence, BillingTrue
<1> QED BY <1>1, <1>2, <1>4 DEF LeavesTrue, Grows

LEMMA PersistEv == ASSUME IInv, EvInv, NEW c \in Callers, PersistText(c)  PROVE EvInv'
<1> DEFINE k == task[c].key
<1>1. /\ Typed /\ task[c].at = "text" /\ k \in Keys /\ task[c].billing \in Billings
      /\ calls[k].ext = "job" /\ RowEvidence(k) /\ BillingTrue(k, task[c].billing)
  BY DEF IInv, EvInv, Typed, CallerOK, CallerEvidence, PersistText, CallerTask
<1>2. task' = [task EXCEPT ![c] = Idle] /\ UNCHANGED <<remote, poll>>
  BY DEF PersistText
<1>3. task'[c].at = "idle" /\ \A e \in Callers \ {c} : task'[e] = task[e]
  BY <1>1, <1>2 DEF Typed, Idle
<1>4. CASE WriteBack(k, task[c].billing)
  <2>1. (\A j \in Keys : j = k => RowEvidence(j)') /\ LeavesTrue(k) /\ Grows
    BY <1>1, <1>2, <1>4, WriteBackEv
  <2>2. \A j \in Keys \ {k} : calls'[j] = calls[j]
    BY <1>1, <1>4 DEF WriteBack, Typed
  <2>3. CallerEvidence(c)'
    BY <1>3 DEF CallerEvidence
  <2> QED BY <1>1, <1>2, <1>3, <2>1, <2>2, <2>3, CallerEvStep
<1>5. CASE UNCHANGED <<calls, overwritten>>
  <2>1. (\A j \in Keys : j = k => RowEvidence(j)') /\ LeavesTrue(k) /\ Grows
    BY <1>1, <1>2, <1>5, RowStays DEF LeavesTrue, Grows
  <2>2. CallerEvidence(c)'
    BY <1>3 DEF CallerEvidence
  <2> QED BY <1>1, <1>2, <1>3, <1>5, <2>1, <2>2, CallerEvStep
<1> QED BY <1>4, <1>5 DEF PersistText

(* The except branch: before the job is recorded there is no evidence to   *)
(* lose, and afterwards it leaves the credits alone.                       *)
LEMMA FailureEv == ASSUME IInv, EvInv, NEW c \in Callers, WriteFailure(c)  PROVE EvInv'
<1> DEFINE k == task[c].key
           over == IF calls[k].status \in Settled THEN {k} ELSE {}
<1>1. /\ Typed /\ task[c].at = "raised" /\ k \in Keys /\ calls[k] \in Row
      /\ KindOf[k] \in {"generate", "session"} /\ RowEvidence(k)
      /\ task[c].phase \in {"create", "post"} => calls[k].status \in Early
      /\ task[c].phase \in {"create", "post", "wait"}
      /\ task[c].phase = "wait" => calls[k].ext = "job"
  BY KeysAssumption DEF IInv, EvInv, Typed, CallerOK, CallerEvidence, WriteFailure
<1>2. /\ task' = [task EXCEPT ![c] = Idle] /\ UNCHANGED <<remote, poll>>
      /\ overwritten' = [overwritten EXCEPT !.rows = @ \cup over]
  BY DEF WriteFailure
<1>3. task'[c].at = "idle" /\ \A e \in Callers \ {c} : task'[e] = task[e]
  BY <1>1, <1>2 DEF Typed, Idle
<1>4. /\ Grows /\ overwritten'.billing = overwritten.billing
      /\ calls[k].status \in Settled => k \in overwritten'.rows
  BY <1>1, <1>2 DEF Grows, Typed, Lost
<1>5. CallerEvidence(c)'
  BY <1>3 DEF CallerEvidence
<1>6. CASE ConfirmedRejection(k, task[c].phase, task[c].error)
  <2>1. calls' = [calls EXCEPT ![k] = [calls[k] EXCEPT !.status = "FAILED",
                                                       !.billing = "NOT_APPLICABLE"]]
    BY <1>1, <1>6 DEF WriteFailure, Typed
  <2>2. remote[k].job = "none" /\ calls[k].status \in Early
    <3>1. task[c].phase # "wait"
      BY <1>1, <1>6 DEF ConfirmedRejection
    <3> QED BY <1>1, <1>6, <3>1, RejectionIsTrue
  <2>3. /\ calls'[k].status = "FAILED" /\ calls'[k].ext = calls[k].ext
        /\ calls'[k].credits = calls[k].credits /\ calls'[k].billing = "NOT_APPLICABLE"
        /\ \A j \in Keys \ {k} : calls'[j] = calls[j]
    BY <1>1, <2>1 DEF Typed, Row
  <2>4. calls[k].credits = 0 /\ calls[k].ext # "job"
    BY <1>1, <2>2, EarlyRow
  <2>5. \A j \in Keys : j = k => RowEvidence(j)'
    BY <1>1, <1>2, <2>2, <2>3, <2>4 DEF RowEvidence, Evidence, Early
  <2> QED BY <1>1, <1>2, <1>3, <1>4, <1>5, <2>2, <2>3, <2>5, CallerEvStep
<1>7. CASE ~ConfirmedRejection(k, task[c].phase, task[c].error)
  <2> DEFINE billing == IF KindOf[k] = "generate" THEN "NONE" ELSE calls[k].billing
  <2>1. calls' = [calls EXCEPT ![k] = [calls[k] EXCEPT !.status = "UNKNOWN_REMOTE_STATE",
                                                       !.billing = billing]]
    BY <1>1, <1>7 DEF WriteFailure, Typed
  <2>2. /\ calls'[k].status = "UNKNOWN_REMOTE_STATE" /\ calls'[k].ext = calls[k].ext
        /\ calls'[k].credits = calls[k].credits /\ calls'[k].billing = billing
        /\ \A j \in Keys \ {k} : calls'[j] = calls[j]
    BY <1>1, <2>1 DEF Typed, Row
  <2>3. LeavesTrue(k)
    BY <1>1, <1>2, <2>2 DEF LeavesTrue, Settled
  <2>4. calls[k].credits \in Nat /\ (calls[k].ext = "job" \/ calls[k].status \in Early)
    BY <1>1 DEF Row
  <2>5. calls[k].status \in Early =>
            calls[k].ext # "job" /\ calls[k].credits = 0 /\ calls[k].billing \in {"NONE", "PENDING"}
    BY <1>1, EarlyRow
  <2>6. \A j \in Keys : j = k => RowEvidence(j)'
    BY SMTT(30), <1>1, <1>2, <1>4, <2>2, <2>4, <2>5 DEF RowEvidence, Evidence, Early, Settled, Grows
  <2> QED BY <1>1, <1>2, <1>3, <1>4, <1>5, <2>2, <2>3, <2>6, CallerEvStep
<1> QED BY <1>6, <1>7

LEMMA PollEv == ASSUME IInv, EvInv, NEW d \in Pollers, NEW k \in Keys, PollCall(d, k)  PROVE EvInv'
<1> DEFINE at == IF calls[k].ext = "job" THEN "fetch" ELSE "discover"
           new == [Resting EXCEPT !.key = k, !.billing = calls[k].billing, !.at = at]
<1>1. Typed /\ calls[k] \in Row /\ Pending(k) /\ RowEvidence(k)
  BY DEF IInv, EvInv, Typed, PollCall
<1>2. poll' = [poll EXCEPT ![d] = new] /\ UNCHANGED <<calls, remote, task, overwritten>>
  BY DEF PollCall
<1>3. new.key = k /\ new.billing = calls[k].billing /\ new.at = at
  BY DEF Resting
<1> HIDE DEF new
<1>4. poll'[d] = new /\ \A e \in Pollers \ {d} : poll'[e] = poll[e]
  BY <1>1, <1>2 DEF Typed
<1>5. calls[k].ext # "job" =>
          calls[k].billing \in {"NONE", "PENDING"} /\ calls[k].status \notin Settled
  BY <1>1 DEF RowEvidence, Pending, Settled
<1>6. PollerEvidence(d)'
  BY <1>2, <1>3, <1>4, <1>5 DEF PollerEvidence
<1>7. RowEvidence(k)' /\ LeavesTrue(k) /\ Grows
  BY <1>1, <1>2, RowStays DEF LeavesTrue, Grows
<1>8. calls[k].status \notin Early
  BY <1>1 DEF Pending, Early
<1> QED BY <1>2, <1>4, <1>6, <1>7, <1>8, PollerEvStep

LEMMA DiscoverEv == ASSUME IInv, EvInv, NEW d \in Pollers, DiscoverJob(d)  PROVE EvInv'
<1> DEFINE k == poll[d].key
           lost == Replaced(k, poll[d].billing)
<1>1. /\ Typed /\ poll[d].at = "discover" /\ k \in Keys /\ calls[k] \in Row
      /\ poll[d] \in PollerTask /\ calls[k].status \notin Early /\ RowEvidence(k)
      /\ poll[d].billing \in {"NONE", "PENDING"}
  BY AtWork DEF DiscoverJob, EvInv, PollerEvidence
<1>2. /\ calls' = [calls EXCEPT ![k] = [calls[k] EXCEPT !.ext = "job", !.billing = poll[d].billing]]
      /\ poll' = [poll EXCEPT ![d] = [poll[d] EXCEPT !.at = "fetch"]]
      /\ overwritten' = [overwritten EXCEPT !.billing = @ \cup lost]
      /\ UNCHANGED <<remote, task>>
  BY <1>1 DEF DiscoverJob, Typed
<1>3. /\ calls'[k].status = calls[k].status /\ calls'[k].ext = "job"
      /\ calls'[k].credits = calls[k].credits /\ calls'[k].billing = poll[d].billing
      /\ \A j \in Keys \ {k} : calls'[j] = calls[j]
  BY <1>1, <1>2 DEF Typed, Row
<1>4. /\ poll'[d].at = "fetch" /\ poll'[d].key = k
      /\ \A e \in Pollers \ {d} : poll'[e] = poll[e]
  BY <1>1, <1>2 DEF Typed, PollerTask
<1>5. /\ overwritten'.rows = overwritten.rows /\ overwritten.billing \subseteq overwritten'.billing
      /\ calls[k].billing = "ACTUAL" => k \in overwritten'.billing
  BY <1>1, <1>2 DEF Typed, Lost, Replaced
<1>6. PollerEvidence(d)'
  BY <1>3, <1>4 DEF PollerEvidence
<1>7. LeavesTrue(k) /\ Grows
  BY <1>2, <1>3, <1>5 DEF LeavesTrue, Grows
<1>8. calls[k].credits \in Nat
  BY <1>1 DEF Row
<1>9. \A j \in Keys : j = k => RowEvidence(j)'
  BY SMTT(30), <1>1, <1>2, <1>3, <1>5, <1>8 DEF RowEvidence, Evidence
<1> QED BY <1>1, <1>2, <1>3, <1>4, <1>6, <1>7, <1>9, PollerEvStep

LEMMA FetchEv == ASSUME IInv, EvInv, NEW d \in Pollers, FetchJob(d)  PROVE EvInv'
<1> DEFINE k == poll[d].key
<1>1. /\ Typed /\ poll[d].at = "fetch" /\ k \in Keys /\ poll[d] \in PollerTask
      /\ calls[k].status \notin Early /\ RowEvidence(k) /\ calls[k].ext = "job"
  BY AtWork DEF FetchJob, EvInv, PollerEvidence
<1>2. /\ poll' = [poll EXCEPT ![d] = [poll[d] EXCEPT !.at = "apply", !.payload = Payload(k)]]
      /\ UNCHANGED <<calls, remote, task, overwritten>>
  BY <1>1 DEF FetchJob, Typed
<1>3. /\ poll'[d].at = "apply" /\ poll'[d].key = k /\ poll'[d].payload = Payload(k)
      /\ \A e \in Pollers \ {d} : poll'[e] = poll[e]
  BY <1>1, <1>2 DEF Typed, PollerTask
<1>4. PollerEvidence(d)'
  BY <1>1, <1>2, <1>3 DEF PollerEvidence, ReadTrue, Payload
<1>5. (\A j \in Keys : j = k => RowEvidence(j)') /\ LeavesTrue(k) /\ Grows
  BY <1>1, <1>2, RowStays DEF LeavesTrue, Grows
<1> QED BY <1>1, <1>2, <1>3, <1>4, <1>5, PollerEvStep

LEMMA LaterEv == ASSUME IInv, EvInv, NEW d \in Pollers, PollLater(d)  PROVE EvInv'
<1> DEFINE k == poll[d].key
<1>1. Typed /\ k \in Keys /\ calls[k].status \notin Early /\ RowEvidence(k)
  BY AtWork DEF PollLater, EvInv
<1>2. /\ poll' = [poll EXCEPT ![d] = Resting]
      /\ UNCHANGED <<calls, remote, task, overwritten>>
  BY DEF PollLater
<1>3. poll'[d].at = "idle" /\ \A e \in Pollers \ {d} : poll'[e] = poll[e]
  BY <1>1, <1>2, RestingOK
<1>4. PollerEvidence(d)'
  BY <1>3 DEF PollerEvidence
<1>5. (\A j \in Keys : j = k => RowEvidence(j)') /\ LeavesTrue(k) /\ Grows
  BY <1>1, <1>2, RowStays DEF LeavesTrue, Grows
<1> QED BY <1>1, <1>2, <1>3, <1>4, <1>5, PollerEvStep

LEMMA ApplyPolledEv == ASSUME IInv, EvInv, NEW d \in Pollers, ApplyPolled(d)  PROVE EvInv'
<1> DEFINE k == poll[d].key
           p == poll[d].payload
<1>1. /\ Typed /\ poll[d].at = "apply" /\ k \in Keys /\ poll[d] \in PollerTask
      /\ p \in Payloads /\ p.status = remote[k].job /\ calls[k].ext = "job"
      /\ calls[k].status \notin Early /\ RowEvidence(k) /\ ReadTrue(k, p)
  BY AtWork DEF ApplyPolled, PollerTask, EvInv, PollerEvidence
<1>2. Reconcile(k, p) /\ UNCHANGED <<remote, task, overwritten>>
  BY DEF ApplyPolled
<1>3. calls'[k].ext = "job" /\ \A j \in Keys \ {k} : calls'[j] = calls[j]
  BY <1>1, <1>2, ReconcileTyped
<1>4. /\ \A j \in Keys : j = k => RowEvidence(j)'
      /\ LeavesTrue(k) /\ calls'[k].billing = BillingAfter(k, p)
  BY <1>1, <1>2, ReconcileEv
<1>5. /\ \/ poll'[d].at = "idle"
         \/ /\ KindOf[k] = "session" /\ poll'[d].at = "text" /\ poll'[d].key = k
            /\ poll'[d].billing = calls'[k].billing
      /\ \A e \in Pollers \ {d} : poll'[e] = poll[e]
  <2> DEFINE new == IF KindOf[k] = "session"
                    THEN [poll[d] EXCEPT !.at = "text", !.billing = BillingAfter(k, p)]
                    ELSE Resting
  <2>1. poll' = [poll EXCEPT ![d] = new]
    BY <1>1 DEF ApplyPolled, Typed
  <2>2. \/ new.at = "idle"
        \/ KindOf[k] = "session" /\ new.at = "text" /\ new.key = k /\ new.billing = BillingAfter(k, p)
    BY <1>1 DEF Resting, PollerTask
  <2> HIDE DEF new
  <2> QED BY <1>1, <1>4, <2>1, <2>2 DEF Typed
<1>6. PollerEvidence(d)'
  BY <1>1, <1>3, <1>4, <1>5 DEF PollerEvidence, RowEvidence, BillingTrue, Evidence
<1> QED BY <1>1, <1>2, <1>3, <1>4, <1>5, <1>6, PollerEvStep DEF Grows

LEMMA PersistPolledEv == ASSUME IInv, EvInv, NEW d \in Pollers, PersistPolledText(d)  PROVE EvInv'
<1> DEFINE k == poll[d].key
<1>1. /\ Typed /\ k \in Keys /\ poll[d].billing \in Billings /\ calls[k].status \notin Early
      /\ calls[k].ext = "job" /\ RowEvidence(k) /\ BillingTrue(k, poll[d].billing)
  BY AtWork DEF PersistPolledText, PollerTask, EvInv, PollerEvidence
<1>2. poll' = [poll EXCEPT ![d] = Resting] /\ UNCHANGED <<remote, task>>
  BY DEF PersistPolledText
<1>3. poll'[d].at = "idle" /\ \A e \in Pollers \ {d} : poll'[e] = poll[e]
  BY <1>1, <1>2, RestingOK
<1>4. PollerEvidence(d)'
  BY <1>3 DEF PollerEvidence
<1>5. CASE WriteBack(k, poll[d].billing)
  <2>1. (\A j \in Keys : j = k => RowEvidence(j)') /\ LeavesTrue(k) /\ Grows
    BY <1>1, <1>2, <1>5, WriteBackEv
  <2>2. \A j \in Keys \ {k} : calls'[j] = calls[j]
    BY <1>1, <1>5 DEF WriteBack, Typed
  <2> QED BY <1>1, <1>2, <1>3, <1>4, <2>1, <2>2, PollerEvStep
<1>6. CASE UNCHANGED <<calls, overwritten>>
  <2>1. (\A j \in Keys : j = k => RowEvidence(j)') /\ LeavesTrue(k) /\ Grows
    BY <1>1, <1>2, <1>6, RowStays DEF LeavesTrue, Grows
  <2> QED BY <1>1, <1>2, <1>3, <1>4, <1>6, <2>1, PollerEvStep
<1> QED BY <1>5, <1>6 DEF PersistPolledText

(* The gateway ends only work it has reported nothing of, and reports what *)
(* it charged.                                                             *)
LEMMA RemoteEv ==
    ASSUME IInv, EvInv, UNCHANGED <<calls, task, poll, overwritten>>,
           \A k \in Keys :
               \/ remote'[k] = remote[k]
               \/ /\ remote[k].job = "running" /\ remote'[k].job \in Settled
                  /\ ~remote[k].reported /\ ~remote'[k].reported
               \/ /\ remote[k].job \in Settled /\ remote'[k].job = remote[k].job
                  /\ remote'[k].charged = remote[k].charged /\ ~remote[k].reported
    PROVE  EvInv'
<1>1. ASSUME NEW k \in Keys  PROVE RowEvidence(k)'
  BY DEF EvInv, RowEvidence, Evidence, Settled
<1>2. ASSUME NEW c \in Callers  PROVE CallerEvidence(c)'
  <2>1. CallerEvidence(c) /\ (task[c].at # "idle" => task[c].key \in Keys)
    BY DEF IInv, EvInv, Typed
  <2> QED BY <2>1 DEF CallerEvidence, ReadTrue, BillingTrue, Evidence
<1>3. ASSUME NEW d \in Pollers  PROVE PollerEvidence(d)'
  <2>1. PollerEvidence(d) /\ (poll[d].at # "idle" => poll[d].key \in Keys)
    BY DEF IInv, EvInv, Typed
  <2> QED BY <2>1 DEF PollerEvidence, ReadTrue, BillingTrue, Evidence
<1> QED BY <1>1, <1>2, <1>3 DEF EvInv

LEMMA RemoteEndsEv == ASSUME IInv, EvInv, NEW k \in Keys, RemoteEnds(k)  PROVE EvInv'
<1>1. /\ remote \in [Keys -> Job] /\ remote[k] \in Job /\ remote[k].job = "running"
      /\ ~remote[k].reported
  BY DEF IInv, EvInv, RowEvidence, Typed, RemoteEnds, Settled
<1>2. PICK status \in Settled, charged \in Charges :
        remote' = [remote EXCEPT ![k].job = status, ![k].charged = charged]
  BY DEF RemoteEnds
<1>3. remote' = [remote EXCEPT ![k] = [remote[k] EXCEPT !.job = status, !.charged = charged]]
  BY <1>1, <1>2
<1>4. /\ remote'[k].job = status /\ remote'[k].reported = remote[k].reported
      /\ \A j \in Keys \ {k} : remote'[j] = remote[j]
  BY <1>1, <1>3 DEF Job
<1> QED BY <1>1, <1>4, RemoteEv DEF RemoteEnds

LEMMA RemoteReportsEv == ASSUME IInv, EvInv, NEW k \in Keys, RemoteReports(k)  PROVE EvInv'
<1>1. remote \in [Keys -> Job] /\ remote[k] \in Job
  BY DEF IInv, Typed
<1>2. remote' = [remote EXCEPT ![k] = [remote[k] EXCEPT !.reported = TRUE]]
  BY <1>1 DEF RemoteReports
<1>3. /\ remote'[k].job = remote[k].job /\ remote'[k].charged = remote[k].charged
      /\ \A j \in Keys \ {k} : remote'[j] = remote[j]
  BY <1>1, <1>2 DEF Job
<1> QED BY <1>3, RemoteEv DEF RemoteReports

LEMMA CrashEv == ASSUME IInv, EvInv, Crash  PROVE EvInv'
<1>1. Typed /\ UNCHANGED <<calls, remote, overwritten>>
  BY DEF IInv, Crash
<1>2. \A c \in Callers : task'[c] = task[c] \/ task'[c].at = "idle"
  BY <1>1 DEF Crash, Typed, Idle
<1>3. \A d \in Pollers : poll'[d] = poll[d] \/ poll'[d].at = "idle"
  BY <1>1 DEF Crash, Typed, Resting
<1>4. \A k \in Keys : RowEvidence(k)'
  BY <1>1 DEF EvInv, RowEvidence, Evidence
<1>5. \A c \in Callers : CallerEvidence(c)'
  BY <1>1, <1>2 DEF EvInv, CallerEvidence, ReadTrue, BillingTrue, Evidence
<1>6. \A d \in Pollers : PollerEvidence(d)'
  BY <1>1, <1>3 DEF EvInv, PollerEvidence, ReadTrue, BillingTrue, Evidence
<1> QED BY <1>4, <1>5, <1>6 DEF EvInv

LEMMA StutterEv == ASSUME EvInv, UNCHANGED vars  PROVE EvInv'
BY DEF EvInv, RowEvidence, CallerEvidence, PollerEvidence, ReadTrue, BillingTrue, Evidence, vars

LEMMA InitEv == Init => EvInv
<1> SUFFICES ASSUME Init  PROVE EvInv
  OBVIOUS
<1>1. (\A c \in Callers : task[c].at = "idle") /\ \A d \in Pollers : poll[d].at = "idle"
  BY DEF Init, Idle, Resting
<1>2. \A k \in Keys : RowEvidence(k)
  BY DEF Init, RowEvidence, Evidence, Early, Settled
<1> QED BY <1>1, <1>2 DEF EvInv, CallerEvidence, PollerEvidence

LEMMA StepEv == IInv /\ EvInv /\ [Next]_vars => EvInv'
<1> SUFFICES ASSUME IInv, EvInv, [Next]_vars  PROVE EvInv'
  OBVIOUS
<1>1. ASSUME NEW c \in Callers, Caller(c)  PROVE EvInv'
  BY <1>1, ReserveEv, StartEv, CreateEv, RecordSessionEv, PostEv, RecordJobEv, WaitEv, ApplyEv,
     PersistEv, FailureEv DEF Caller
<1>2. ASSUME NEW d \in Pollers, Poller(d)  PROVE EvInv'
  BY <1>2, PollEv, DiscoverEv, FetchEv, LaterEv, ApplyPolledEv, PersistPolledEv DEF Poller
<1> QED BY <1>1, <1>2, RemoteEndsEv, RemoteReportsEv, CrashEv, StutterEv DEF Next

LEMMA EvInductive == Spec => [](IInv /\ EvInv)
<1>1. Init => IInv /\ EvInv
  BY InitIInv, InitEv
<1>2. IInv /\ EvInv /\ [Next]_vars => (IInv /\ EvInv)'
  BY StepIInv, StepEv
<1> QED BY <1>1, <1>2, PTL DEF Spec

-----------------------------------------------------------------------------
HeldWithinLimit == SumFunction([k \in Keys |-> Held(k)]) <= JobLimit

LEMMA AmountsTyped ==
    ASSUME Typed, NEW k \in Keys
    PROVE  /\ Estimate[k] \in Nat /\ Held(k) \in Nat /\ Exposure(k) \in Nat /\ Reserved(k) \in Nat
           /\ Held(k) <= Estimate[k] /\ Exposure(k) <= Held(k)
<1>1. remote[k].charged \in Nat /\ Estimate[k] \in Nat /\ calls[k].credits \in Nat
  BY CreditsAssumption DEF Typed, Job, Row
<1>2. Exposure(k) \in Nat /\ Exposure(k) <= Estimate[k] /\ (remote[k].job = "none" => Exposure(k) = 0)
  BY <1>1 DEF Exposure
<1> QED BY <1>1, <1>2 DEF Held, Reserved

(* The reservations cover what is held: an estimate is given up only for   *)
(* credits the gateway reported, or for work that will never be charged.   *)
LEMMA ReservationsCover ==
    ASSUME IInv, EvInv, NEW k \in Keys
    PROVE  Held(k) <= Reserved(k)
<1>1. Typed /\ RowOK(k) /\ RowEvidence(k) /\ calls[k].credits \in Nat /\ remote[k].charged \in Nat
      /\ Estimate[k] \in Nat /\ remote[k].job \in {"none", "running"} \cup Settled
  BY CreditsAssumption DEF IInv, EvInv, Typed, Row, Job
<1>2. CASE remote[k].job = "none"
  <2>1. CASE \E c \in Callers : task[c].at \in Unpaid /\ task[c].key = k
    <3>1. calls[k].status \in Early \ {"NONE"}
      BY <2>1 DEF IInv, CallerOK, Unpaid
    <3>2. calls[k].credits = 0 /\ calls[k].billing \in {"NONE", "PENDING"}
      BY <1>1, <3>1, EarlyRow
    <3> QED BY <1>1, <1>2, <2>1, <3>1, <3>2 DEF Held, Reserved, Early
  <2>2. CASE ~\E c \in Callers : task[c].at \in Unpaid /\ task[c].key = k
    BY <1>1, <1>2, <2>2, AmountsTyped DEF Held
  <2> QED BY <2>1, <2>2
<1>3. CASE remote[k].job = "running"
  <2>1. ~remote[k].reported /\ calls[k].status \notin Settled /\ calls[k].status # "NONE"
    BY <1>1, <1>3 DEF RowOK, RowEvidence, Settled
  <2>2. calls[k].billing # "ACTUAL" /\ ~(calls[k].credits > 0)
    BY <1>1, <2>1 DEF RowEvidence, Evidence
  <2> QED BY <1>1, <1>3, <2>1, <2>2 DEF Held, Exposure, Reserved, Settled
<1>4. CASE remote[k].job = "COMPLETED"
  <2>1. calls[k].status \notin {"NONE", "FAILED", "CANCELLED"}
    BY <1>1, <1>4 DEF RowOK, RowEvidence
  <2>2. calls[k].billing = "ACTUAL" \/ calls[k].credits > 0 => calls[k].credits = remote[k].charged
    BY <1>1, <1>4 DEF RowEvidence, Evidence
  <2> QED BY <1>1, <1>4, <2>1, <2>2 DEF Held, Exposure, Reserved
<1>5. CASE remote[k].job \in {"FAILED", "CANCELLED"}
  BY <1>1, <1>5, AmountsTyped DEF Held, Exposure
<1> QED BY <1>1, <1>2, <1>3, <1>4, <1>5 DEF Settled

(* A sum that does not grow anywhere stays within the limit.               *)
LEMMA HeldNotGrown ==
    ASSUME Typed, Typed', HeldWithinLimit, \A k \in Keys : Held(k)' <= Held(k)
    PROVE  HeldWithinLimit'
<1> DEFINE f == [k \in Keys |-> Held(k)]
           g == [k \in Keys |-> Held(k)']
<1>1. IsFiniteSet(Keys) /\ \A k \in Keys : f[k] \in Int /\ g[k] \in Int /\ g[k] <= f[k]
  <2>1. \A k \in Keys : Held(k) \in Nat
    BY AmountsTyped
  <2>2. \A k \in Keys : Held(k)' \in Nat
    BY CreditsAssumption DEF Typed, Job, Held, Exposure
  <2> QED BY <2>1, <2>2, KeysAssumption
<1>2. SumFunctionOnSet(g, Keys) <= SumFunctionOnSet(f, Keys)
  BY <1>1, SumIsMonotone
<1>3. SumFunctionOnSet(f, Keys) \in Int /\ SumFunctionOnSet(g, Keys) \in Int /\ JobLimit \in Int
  BY <1>1, SumIsInt, CreditsAssumption
<1>4. SumFunctionOnSet(f, Keys) <= JobLimit
  BY DEF HeldWithinLimit, SumFunction
<1>5. SumFunctionOnSet(g, Keys) <= JobLimit
  BY <1>2, <1>3, <1>4
<1> QED BY <1>5 DEF HeldWithinLimit, SumFunction

(* Nothing more is held for call k unless it was held in full before.      *)
LEMMA HeldStays ==
    ASSUME Typed, NEW k \in Keys, Held(k)' \in Nat,
           \/ remote[k].job = "running"
           \/ \E c \in Callers : task[c].at \in Unpaid /\ task[c].key = k
           \/ /\ remote'[k].job = remote[k].job /\ remote'[k].charged = remote[k].charged
              /\ \A c \in Callers : ~(task'[c].at \in Unpaid /\ task'[c].key = k),
           remote[k].job = "none" \/ ~\E c \in Callers : task[c].at \in Unpaid /\ task[c].key = k,
           remote'[k].charged \in Nat
    PROVE  Held(k)' <= Held(k)
<1>1. Estimate[k] \in Nat /\ remote[k].charged \in Nat
  BY CreditsAssumption DEF Typed, Job
<1> QED BY <1>1 DEF Held, Exposure

(* Who may still pay is whoever could before.                              *)
LEMMA HeldKept ==
    ASSUME IInv, IInv', HeldWithinLimit,
           \A c \in Callers : task'[c].at \in Unpaid =>
               task[c].at \in Unpaid /\ task'[c].key = task[c].key,
           \A k \in Keys :
               \/ remote'[k].job = remote[k].job /\ remote'[k].charged = remote[k].charged
               \/ remote[k].job = "running"
               \/ \E c \in Callers : task[c].at \in Unpaid /\ task[c].key = k
    PROVE  HeldWithinLimit'
<1>1. ASSUME NEW k \in Keys  PROVE Held(k)' <= Held(k)
  <2>1. Held(k)' \in Nat /\ remote'[k].charged \in Nat
    BY CreditsAssumption DEF IInv, Typed, Job, Held, Exposure
  <2>2. (\E c \in Callers : task[c].at \in Unpaid /\ task[c].key = k) => remote[k].job = "none"
    BY DEF IInv, CallerOK, RowOK, Unpaid
  <2> QED BY <2>1, <2>2, HeldStays DEF IInv
<1> QED BY <1>1, HeldNotGrown DEF IInv

LEMMA ReserveHeld ==
    ASSUME IInv, EvInv, HeldWithinLimit, NEW c \in Callers, NEW k \in Keys, ReserveCall(c, k), IInv'
    PROVE  HeldWithinLimit'
<1> DEFINE f == [j \in Keys |-> Reserved(j)]
           h == [j \in Keys |-> IF j = k THEN Estimate[k] ELSE Reserved(j)]
           g == [j \in Keys |-> Held(j)']
<1>1. /\ Typed /\ calls[k].status = "NONE" /\ task[c] = Idle
      /\ SumFunction(f) + Estimate[k] <= JobLimit
      /\ task' = [task EXCEPT ![c] = [Idle EXCEPT !.at = "reserved", !.key = k]]
      /\ UNCHANGED remote
  BY DEF IInv, ReserveCall, Fresh
<1>2. /\ \A j \in Keys : f[j] \in Int /\ h[j] \in Int /\ f[j] \in Nat
      /\ f[k] = 0 /\ IsFiniteSet(Keys) /\ Estimate[k] \in Nat /\ JobLimit \in Nat
  <2>1. \A j \in Keys : Reserved(j) \in Nat /\ Estimate[j] \in Nat
    BY <1>1, AmountsTyped
  <2>2. Reserved(k) = 0
    BY <1>1 DEF Reserved
  <2> QED BY <2>1, <2>2, KeysAssumption, CreditsAssumption
<1>3. ASSUME NEW j \in Keys  PROVE g[j] \in Int /\ g[j] <= h[j]
  <2>1. Held(j)' \in Nat /\ Held(j)' <= Estimate[j]
    BY CreditsAssumption DEF IInv, Typed, Job, Held, Exposure
  <2>2. ASSUME j # k  PROVE Held(j)' <= Held(j)
    <3>1. Held(j)' = Held(j)
      <4>1. \A e \in Callers : task'[e].at \in Unpaid /\ task'[e].key = j <=>
                               task[e].at \in Unpaid /\ task[e].key = j
        BY <1>1, <2>2 DEF Typed, Idle, Unpaid
      <4> QED BY <1>1, <4>1 DEF Held, Exposure
    <3> QED BY <2>1, <3>1
  <2>3. Held(j) <= Reserved(j) /\ Held(j) \in Nat /\ Reserved(j) \in Nat /\ Estimate[j] \in Nat
    BY <1>1, ReservationsCover, AmountsTyped
  <2> QED BY <2>1, <2>2, <2>3
<1>4. SumFunctionOnSet(h, Keys) = SumFunctionOnSet(f, Keys) - f[k] + h[k]
  <2>1. \A y \in Keys \ {k} : f[y] \in Int /\ h[y] = f[y]
    BY <1>2
  <2> HIDE DEF f, h
  <2> QED BY <1>2, <2>1, SumChanges
<1>5. SumFunctionOnSet(g, Keys) <= SumFunctionOnSet(h, Keys)
  <2> HIDE DEF g, h
  <2> QED BY <1>2, <1>3, SumIsMonotone
<1>6. /\ SumFunctionOnSet(f, Keys) \in Int /\ SumFunctionOnSet(g, Keys) \in Int
      /\ SumFunctionOnSet(h, Keys) \in Int
  <2> HIDE DEF f, g, h
  <2> QED BY <1>2, <1>3, SumIsInt
<1>7. SumFunctionOnSet(f, Keys) + Estimate[k] <= JobLimit /\ h[k] = Estimate[k]
  BY <1>1 DEF SumFunction
<1>8. SumFunctionOnSet(g, Keys) <= JobLimit
  <2> HIDE DEF f, g, h
  <2> QED BY <1>2, <1>4, <1>5, <1>6, <1>7
<1> QED BY <1>8 DEF HeldWithinLimit, SumFunction

(* A caller that leaves its call alone, or goes on with it unpaid.         *)
LEMMA CallerHeld ==
    ASSUME IInv, IInv', HeldWithinLimit, NEW c \in Callers, UNCHANGED remote,
           task'[c].at \in Unpaid => task[c].at \in Unpaid /\ task'[c].key = task[c].key,
           \A e \in Callers \ {c} : task'[e] = task[e]
    PROVE  HeldWithinLimit'
<1>1. \A e \in Callers : task'[e].at \in Unpaid =>
          task[e].at \in Unpaid /\ task'[e].key = task[e].key
  OBVIOUS
<1> QED BY <1>1, HeldKept

LEMMA CallersHeld ==
    ASSUME IInv, EvInv, IInv', HeldWithinLimit, NEW c \in Callers, Caller(c)
    PROVE  HeldWithinLimit'
<1> DEFINE k == task[c].key
<1>0. Typed /\ task[c] \in CallerTask
  BY DEF IInv, Typed
<1>1. CASE \E j \in Keys : ReserveCall(c, j)
  BY <1>1, ReserveHeld
<1>2. CASE StartSubmission(c)
  <2>1. Goto(c, "create") \/ Goto(c, "post")
    BY <1>2 DEF StartSubmission
  <2>2. "create" \in Places /\ "post" \in Places /\ task[c].at = "reserved" /\ UNCHANGED remote
    BY <1>2 DEF Places, StartSubmission
  <2>3. task'[c].key = k /\ \A e \in Callers \ {c} : task'[e] = task[e]
    BY <1>0, <2>1, <2>2, CallerMoves
  <2> QED BY <2>2, <2>3, CallerHeld DEF Unpaid
<1>3. CASE CreateSession(c)
  <2>1. Goto(c, "created") \/ \E error \in Errors : Raise(c, error)
    BY <1>3 DEF CreateSession
  <2>2. "created" \in Places /\ task[c].at = "create" /\ UNCHANGED remote
    BY <1>3 DEF Places, CreateSession
  <2>3. task'[c].key = k /\ \A e \in Callers \ {c} : task'[e] = task[e]
    BY <1>0, <2>1, <2>2, CallerMoves
  <2> QED BY <2>2, <2>3, CallerHeld DEF Unpaid
<1>4. CASE RecordSession(c)
  <2>1. Goto(c, "post") /\ "post" \in Places /\ task[c].at = "created" /\ UNCHANGED remote
    BY <1>4 DEF Places, RecordSession
  <2>2. task'[c].key = k /\ \A e \in Callers \ {c} : task'[e] = task[e]
    BY <1>0, <2>1, CallerMoves
  <2> QED BY <2>1, <2>2, CallerHeld DEF Unpaid
<1>5. CASE PostWork(c)
  <2>1. Goto(c, "posted") \/ \E error \in Errors : Raise(c, error)
    <3>1. Ambiguous(k) \subseteq Errors
      BY DEF Ambiguous, Errors
    <3> QED BY <1>5, <3>1 DEF PostWork
  <2>2. "posted" \in Places /\ task[c].at = "post" /\ k \in Keys
    BY <1>5, <1>0 DEF Places, PostWork, Typed
  <2>3. /\ task'[c].at \in {"posted", "raised"}
        /\ \A e \in Callers \ {c} : task'[e] = task[e]
    BY <1>0, <2>1, <2>2, CallerMoves
  <2>4. \A j \in Keys \ {k} : remote'[j] = remote[j]
    BY <1>5, <1>0 DEF PostWork, Typed
  <2>5. \A e \in Callers : task'[e].at \in Unpaid =>
            task[e].at \in Unpaid /\ task'[e].key = task[e].key
    BY <2>3 DEF Unpaid
  <2>6. \A j \in Keys : \/ remote'[j].job = remote[j].job /\ remote'[j].charged = remote[j].charged
                        \/ \E e \in Callers : task[e].at \in Unpaid /\ task[e].key = j
    <3>1. task[c].at \in Unpaid
      BY <2>2 DEF Unpaid
    <3>2. ASSUME NEW j \in Keys, j # k  PROVE remote'[j].job = remote[j].job /\ remote'[j].charged = remote[j].charged
      BY <2>4, <3>2
    <3> QED BY <3>1, <3>2
  <2> QED BY <2>5, <2>6, HeldKept
<1>6. CASE RecordJob(c)
  <2>1. Goto(c, "wait") /\ "wait" \in Places /\ task[c].at = "posted" /\ UNCHANGED remote
    BY <1>6 DEF Places, RecordJob
  <2>2. task'[c].at = "wait" /\ \A e \in Callers \ {c} : task'[e] = task[e]
    BY <1>0, <2>1, CallerMoves
  <2> QED BY <2>1, <2>2, CallerHeld DEF Unpaid
<1>7. CASE Wait(c)
  <2>1. UNCHANGED remote /\ task[c].at = "wait"
    BY <1>7 DEF Wait
  <2>2. task'[c].at \in {"apply", "raised"} /\ \A e \in Callers \ {c} : task'[e] = task[e]
    <3>1. CASE task' = [task EXCEPT ![c].at = "apply", ![c].payload = Payload(k)]
      BY <1>0, <3>1 DEF Typed, CallerTask
    <3>2. CASE \E error \in {"client", "other"} : Raise(c, error)
      <4>1. {"client", "other"} \subseteq Errors
        BY DEF Errors
      <4> QED BY <1>0, <2>1, <3>2, <4>1, CallerMoves
    <3> QED BY <1>7, <3>1, <3>2 DEF Wait
  <2> QED BY <2>1, <2>2, CallerHeld DEF Unpaid
<1>8. CASE Apply(c) \/ PersistText(c) \/ WriteFailure(c)
  <2>1. UNCHANGED remote
    BY <1>8 DEF Apply, PersistText, WriteFailure
  <2>2. PICK new : /\ task' = [task EXCEPT ![c] = new] /\ new.at \in {"text", "idle"}
    <3>1. CASE Apply(c)
      <4> DEFINE new == IF KindOf[k] = "session"
                        THEN [task[c] EXCEPT !.at = "text",
                                             !.billing = BillingAfter(k, task[c].payload)]
                        ELSE Idle
      <4>1. task' = [task EXCEPT ![c] = new]
        BY <1>0, <3>1 DEF Apply, Typed
      <4>2. new.at \in {"text", "idle"}
        BY <1>0 DEF CallerTask, Idle
      <4> HIDE DEF new
      <4> QED BY <4>1, <4>2
    <3>2. CASE PersistText(c) \/ WriteFailure(c)
      <4>1. task' = [task EXCEPT ![c] = Idle]
        BY <3>2 DEF PersistText, WriteFailure
      <4>2. Idle.at \in {"text", "idle"}
        BY DEF Idle
      <4> QED BY <4>1, <4>2
    <3> QED BY <1>8, <3>1, <3>2
  <2>3. task'[c].at \in {"text", "idle"} /\ \A e \in Callers \ {c} : task'[e] = task[e]
    BY <1>0, <2>2 DEF Typed
  <2> QED BY <2>1, <2>3, CallerHeld DEF Unpaid
<1> QED BY <1>1, <1>2, <1>3, <1>4, <1>5, <1>6, <1>7, <1>8 DEF Caller

LEMMA StepHeld ==
    IInv /\ EvInv /\ HeldWithinLimit /\ [Next]_vars => HeldWithinLimit'
<1> SUFFICES ASSUME IInv, EvInv, HeldWithinLimit, [Next]_vars  PROVE HeldWithinLimit'
  OBVIOUS
<1>1. IInv'
  BY StepIInv
<1>2. ASSUME NEW c \in Callers, Caller(c)  PROVE HeldWithinLimit'
  BY <1>1, <1>2, CallersHeld
<1>3. ASSUME NEW d \in Pollers, Poller(d)  PROVE HeldWithinLimit'
  <2>1. UNCHANGED <<task, remote>>
    BY <1>3 DEF Poller, PollCall, DiscoverJob, FetchJob, PollLater, ApplyPolled, PersistPolledText
  <2> QED BY <1>1, <2>1, HeldKept
<1>4. ASSUME NEW k \in Keys, RemoteEnds(k) \/ RemoteReports(k)  PROVE HeldWithinLimit'
  <2>1. UNCHANGED task /\ remote \in [Keys -> Job]
    BY <1>4 DEF RemoteEnds, RemoteReports, IInv, Typed
  <2>2. \A j \in Keys : \/ remote'[j].job = remote[j].job /\ remote'[j].charged = remote[j].charged
                        \/ remote[j].job = "running"
    <3>1. CASE RemoteEnds(k)
      <4>1. remote[k].job = "running" /\ \A j \in Keys \ {k} : remote'[j] = remote[j]
        BY <2>1, <3>1 DEF RemoteEnds
      <4> QED BY <4>1
    <3>2. CASE RemoteReports(k)
      <4>1. remote' = [remote EXCEPT ![k] = [remote[k] EXCEPT !.reported = TRUE]]
        BY <2>1, <3>2 DEF RemoteReports
      <4> QED BY <2>1, <4>1 DEF Job
    <3> QED BY <1>4, <3>1, <3>2
  <2> QED BY <1>1, <2>1, <2>2, HeldKept
<1>5. CASE Crash
  <2>1. UNCHANGED remote /\ \A c \in Callers : task'[c] = task[c] \/ task'[c].at = "idle"
    BY <1>5 DEF Crash, IInv, Typed, Idle
  <2> QED BY <1>1, <2>1, HeldKept DEF Unpaid
<1>6. CASE UNCHANGED vars
  BY <1>1, <1>6, HeldKept DEF vars
<1> QED BY <1>2, <1>3, <1>4, <1>5, <1>6 DEF Next

LEMMA InitHeld == Init => HeldWithinLimit
<1> SUFFICES ASSUME Init  PROVE HeldWithinLimit
  OBVIOUS
<1> DEFINE f == [k \in Keys |-> Held(k)]
           z == [k \in Keys |-> 0]
<1>1. \A k \in Keys : f[k] = 0
  BY DEF Init, Held, Idle, Unpaid
<1>2. SumFunctionOnSet(f, Keys) = 0
  BY <1>1, KeysAssumption, SumIsZero
<1> QED BY <1>2, CreditsAssumption DEF HeldWithinLimit, SumFunction

(* The job's budget covers what the gateway was asked to do, by whatever   *)
(* callers, whoever dies, and whatever it charges.                         *)
THEOREM BudgetCovers == Spec => []BudgetCoversWork
<1>1. Init => IInv /\ EvInv /\ HeldWithinLimit
  BY InitIInv, InitEv, InitHeld
<1>2. IInv /\ EvInv /\ HeldWithinLimit /\ [Next]_vars => (IInv /\ EvInv /\ HeldWithinLimit)'
  BY StepIInv, StepEv, StepHeld
<1>3. ASSUME IInv, HeldWithinLimit  PROVE BudgetCoversWork
  <2> DEFINE f == [k \in Keys |-> Exposure(k)]
             g == [k \in Keys |-> Held(k)]
  <2>1. IsFiniteSet(Keys) /\ \A k \in Keys : f[k] \in Int /\ g[k] \in Int /\ f[k] <= g[k]
    <3>1. \A k \in Keys : Exposure(k) \in Nat /\ Held(k) \in Nat /\ Exposure(k) <= Held(k)
      BY <1>3, AmountsTyped DEF IInv
    <3> QED BY <3>1, KeysAssumption
  <2>2. SumFunctionOnSet(g, Keys) <= JobLimit
    BY <1>3 DEF HeldWithinLimit, SumFunction
  <2>3. SumFunctionOnSet(f, Keys) <= JobLimit
    <3> HIDE DEF f, g
    <3> QED BY <2>1, <2>2, SumIsMonotone, SumIsInt, CreditsAssumption
  <2> QED BY <2>3 DEF BudgetCoversWork, SumFunction
<1> QED BY <1>1, <1>2, <1>3, PTL DEF Spec


-----------------------------------------------------------------------------
Credits == [k \in Keys |-> calls[k].credits]

LEMMA CountedIsFinite ==
    ASSUME Typed
    PROVE  /\ IsFiniteSet(Counted) /\ Counted \subseteq Keys
           /\ \A k \in Keys : Credits[k] = calls[k].credits /\ Credits[k] \in Int
<1>1. Counted \subseteq Keys /\ IsFiniteSet(Keys)
  BY KeysAssumption DEF Counted
<1>2. IsFiniteSet(Counted)
  BY <1>1, FS_Subset
<1> QED BY <1>1, <1>2 DEF Typed, Row, Credits

(* A step that settles nothing and changes no credits counts nothing.      *)
LEMMA CountsSame ==
    ASSUME Typed, Typed', EvidenceCountsOnce, Grows, UNCHANGED stat, overwritten \in Lost,
           \/ overwritten'.rows # {}
           \/ \A k \in Keys : /\ k \in Counted' <=> k \in Counted
                              /\ calls'[k].credits = calls[k].credits
    PROVE  EvidenceCountsOnce'
<1> SUFFICES ASSUME overwritten'.rows = {}
             PROVE  /\ stat'.attempts = Cardinality(Counted')
                    /\ overwritten'.billing = {} =>
                           stat'.credits = SumFunctionOnSet(Credits', Counted')
  BY DEF EvidenceCountsOnce, Credits
<1>1. overwritten.rows = {} /\ (overwritten'.billing = {} => overwritten.billing = {})
  BY DEF Grows, Lost
<1>2. Counted' = Counted
  BY DEF Counted
<1>3. Credits' = Credits
  BY DEF Credits
<1> QED BY <1>1, <1>2, <1>3 DEF EvidenceCountsOnce, Credits

LEMMA ReconcileCounts ==
    ASSUME Typed, EvidenceCountsOnce, NEW k \in Keys, RowEvidence(k), NEW p \in Payloads,
           calls[k].ext = "job", Reconcile(k, p), UNCHANGED overwritten
    PROVE  EvidenceCountsOnce'
<1> SUFFICES ASSUME overwritten.rows = {}
             PROVE  /\ stat'.attempts = Cardinality(Counted')
                    /\ overwritten.billing = {} =>
                           stat'.credits = SumFunctionOnSet(Credits', Counted')
  BY DEF EvidenceCountsOnce, Credits
<1> DEFINE f == Credits
           g == Credits'
           C == Counted
<1>1. /\ calls'[k].status \in Settled /\ calls'[k].ext = "job"
      /\ \A j \in Keys \ {k} : calls'[j] = calls[j]
  BY ReconcileTyped
<1>2. calls[k].credits \in Nat /\ p.credits \in Nat /\ p.known \in BOOLEAN
      /\ stat.attempts \in Nat /\ stat.credits \in Int
  BY DEF Typed, Row, Payloads
<1>3. calls'[k].credits = CreditsAfter(k, p)
  BY DEF Reconcile, Typed, Row
<1>4. IsFiniteSet(C) /\ C \subseteq Keys /\ \A j \in Keys : f[j] = calls[j].credits /\ f[j] \in Int
  BY CountedIsFinite
<1>5. g[k] = CreditsAfter(k, p) /\ CreditsAfter(k, p) \in Nat /\ \A j \in Keys \ {k} : g[j] = f[j]
  BY <1>1, <1>2, <1>3 DEF Credits, CreditsAfter
<1>6. /\ stat.attempts = Cardinality(C)
      /\ overwritten.billing = {} => stat.credits = SumFunctionOnSet(f, C)
  BY DEF EvidenceCountsOnce, Credits
<1>7. Counted' = C \cup {k}
  BY <1>1 DEF Counted
<1>8. CASE FirstEvidence(k)
  <2>1. k \notin C /\ calls[k].credits = 0
    BY <1>8 DEF FirstEvidence, Counted, RowEvidence
  <2>2. stat'.attempts = stat.attempts + 1 /\ stat'.credits = stat.credits + CreditsAfter(k, p)
    <3>1. p.known => CreditsAfter(k, p) = p.credits
      BY DEF CreditsAfter
    <3>2. ~p.known => CreditsAfter(k, p) = 0
      BY <2>1 DEF CreditsAfter
    <3> QED BY <1>2, <1>8, <3>1, <3>2 DEF Reconcile
  <2>3. Cardinality(C \cup {k}) = Cardinality(C) + 1
    BY <1>4, <2>1, FS_AddElement
  <2>4. SumFunctionOnSet(g, C \cup {k}) = CreditsAfter(k, p) + SumFunctionOnSet(f, C)
    <3>1. IsFiniteSet(C \cup {k}) /\ (C \cup {k}) \ {k} = C
      BY <1>4, <2>1, FS_AddElement
    <3>2. \A x \in C \cup {k} : g[x] \in Int
      BY <1>4, <1>5, <2>1
    <3>3. SumFunctionOnSet(g, C \cup {k}) = g[k] + SumFunctionOnSet(g, (C \cup {k}) \ {k})
      <4> HIDE DEF f, g, C
      <4> QED BY <3>1, <3>2, SumSplits
    <3>4. \A x \in C : f[x] \in Int /\ g[x] = f[x]
      BY <1>4, <1>5, <2>1
    <3>5. SumFunctionOnSet(g, C) = SumFunctionOnSet(f, C)
      <4> HIDE DEF f, g, C
      <4> QED BY <1>4, <3>4, SumIsSame
    <3> HIDE DEF f, g, C
    <3> QED BY <1>5, <3>1, <3>3, <3>5
  <2>5. SumFunctionOnSet(f, C) \in Int
    <3> HIDE DEF f, C
    <3> QED BY <1>4, SumIsInt
  <2> HIDE DEF f, g, C
  <2>6. stat'.attempts = Cardinality(C \cup {k})
    BY <1>6, <2>2, <2>3
  <2>7. overwritten.billing = {} => stat'.credits = SumFunctionOnSet(g, C \cup {k})
    BY <1>5, <1>6, <2>2, <2>4, <2>5
  <2> QED BY <1>7, <2>6, <2>7 DEF g
<1>9. CASE ~FirstEvidence(k)
  <2>1. k \in C /\ C \cup {k} = C
    BY <1>9 DEF FirstEvidence, Counted
  <2>2. stat'.attempts = stat.attempts
    BY <1>2, <1>9 DEF Reconcile
  <2>3. overwritten.billing = {} =>
            stat'.credits = stat.credits + (CreditsAfter(k, p) - calls[k].credits)
    <3> SUFFICES ASSUME overwritten.billing = {}
                 PROVE  stat'.credits = stat.credits + (CreditsAfter(k, p) - calls[k].credits)
      OBVIOUS
    <3>1. p.known => CreditsAfter(k, p) = p.credits
      BY DEF CreditsAfter
    <3>2. ~p.known => CreditsAfter(k, p) = calls[k].credits
      BY <1>2 DEF CreditsAfter, BillingAfter, RowEvidence
    <3> QED BY <1>2, <1>9, <3>1, <3>2 DEF Reconcile
  <2>4. SumFunctionOnSet(g, C) = SumFunctionOnSet(f, C) - f[k] + g[k]
    <3>1. f[k] \in Int /\ g[k] \in Int /\ \A y \in C \ {k} : f[y] \in Int /\ g[y] = f[y]
      BY <1>4, <1>5, <2>1
    <3> HIDE DEF f, g, C
    <3> QED BY <1>4, <2>1, <3>1, SumChanges
  <2>5. SumFunctionOnSet(f, C) \in Int /\ f[k] = calls[k].credits
    <3>1. \A x \in C : f[x] \in Int
      BY <1>4
    <3> HIDE DEF f, C
    <3> QED BY <1>4, <3>1, SumIsInt
  <2> HIDE DEF f, g, C
  <2>6. overwritten.billing = {} => stat'.credits = SumFunctionOnSet(g, C)
    BY <1>2, <1>5, <1>6, <2>3, <2>4, <2>5
  <2> QED BY <1>6, <1>7, <2>1, <2>2, <2>6 DEF g
<1> QED BY <1>8, <1>9

LEMMA StepCounts ==
    IInv /\ EvInv /\ EvidenceCountsOnce /\ [Next]_vars => EvidenceCountsOnce'
<1> SUFFICES ASSUME IInv, EvInv, EvidenceCountsOnce, [Next]_vars  PROVE EvidenceCountsOnce'
  OBVIOUS
<1>1. IInv' /\ Typed /\ Typed' /\ overwritten \in Lost /\ calls \in [Keys -> Row]
  BY StepIInv DEF IInv, Typed
<1>2. ASSUME UNCHANGED <<calls, stat, overwritten>>  PROVE EvidenceCountsOnce'
  BY <1>1, <1>2, CountsSame DEF Counted, Grows
<1>3. ASSUME NEW c \in Callers, Caller(c)  PROVE EvidenceCountsOnce'
  <2> DEFINE k == task[c].key
  <2>1. task[c].at # "idle" => k \in Keys /\ calls[k] \in Row /\ RowEvidence(k)
    BY <1>1 DEF Typed, EvInv
  <2>2. CASE \E j \in Keys : ReserveCall(c, j)
    <3>1. PICK j \in Keys : ReserveCall(c, j)
      BY <2>2
    <3>2. /\ calls[j].status = "NONE" /\ UNCHANGED <<stat, overwritten>>
          /\ calls' = [calls EXCEPT ![j] = [calls[j] EXCEPT !.status = "RESERVED"]]
      BY <1>1, <3>1 DEF ReserveCall, Fresh
    <3>3. /\ calls'[j].status = "RESERVED" /\ calls'[j].credits = calls[j].credits
          /\ \A i \in Keys \ {j} : calls'[i] = calls[i]
      BY <1>1, <3>2 DEF Row
    <3> QED BY <1>1, <3>2, <3>3, CountsSame DEF Counted, Grows, Settled
  <2>3. CASE StartSubmission(c) \/ RecordSession(c) \/ RecordJob(c)
    <3>1. k \in Keys /\ calls[k].status \in Early /\ UNCHANGED <<stat, overwritten>>
      BY <2>1, <2>3 DEF StartSubmission, RecordSession, RecordJob, IInv, EvInv, CallerOK,
                        CallerEvidence, Unpaid
    <3>2. /\ calls'[k].status \notin Settled /\ calls'[k].credits = calls[k].credits
          /\ \A i \in Keys \ {k} : calls'[i] = calls[i]
      <4>1. CASE StartSubmission(c)
        BY <1>1, <3>1, <4>1 DEF StartSubmission, Row, Settled
      <4>2. CASE RecordSession(c)
        BY <1>1, <3>1, <4>2 DEF RecordSession, SessionStatus, Row, Settled
      <4>3. CASE RecordJob(c)
        BY <1>1, <3>1, <4>3 DEF RecordJob, Row, Settled
      <4> QED BY <2>3, <4>1, <4>2, <4>3
    <3> QED BY <1>1, <3>1, <3>2, CountsSame DEF Counted, Grows, Settled, Early
  <2>4. CASE CreateSession(c) \/ PostWork(c) \/ Wait(c)
    BY <1>2, <2>4 DEF CreateSession, PostWork, Wait
  <2>5. CASE Apply(c)
    <3>1. /\ k \in Keys /\ RowEvidence(k) /\ task[c].payload \in Payloads /\ calls[k].ext = "job"
          /\ Reconcile(k, task[c].payload) /\ UNCHANGED overwritten
      BY <1>1, <2>1, <2>5 DEF Apply, IInv, CallerOK, Typed, CallerTask
    <3> QED BY <1>1, <3>1, ReconcileCounts
  <2>6. CASE PersistText(c)
    <3>1. CASE WriteBack(k, task[c].billing)
      <4>1. k \in Keys /\ task[c].billing \in Billings /\ UNCHANGED stat
        BY <1>1, <2>1, <2>6 DEF PersistText, Typed, CallerTask
      <4>2. Grows /\ \A i \in Keys : /\ calls'[i].status = calls[i].status
                                     /\ calls'[i].ext = calls[i].ext
                                     /\ calls'[i].credits = calls[i].credits
        BY <1>1, <3>1, <4>1, WrittenBack DEF Grows, Row
      <4> QED BY <1>1, <4>1, <4>2, CountsSame DEF Counted
    <3>2. CASE UNCHANGED <<calls, overwritten>>
      BY <1>2, <2>6, <3>2 DEF PersistText
    <3> QED BY <2>6, <3>1, <3>2 DEF PersistText
  <2>7. CASE WriteFailure(c)
    <3>1. /\ k \in Keys /\ UNCHANGED stat /\ RowEvidence(k) /\ calls[k] \in Row
          /\ overwritten' = [overwritten EXCEPT !.rows =
                 @ \cup (IF calls[k].status \in Settled THEN {k} ELSE {})]
      BY <2>1, <2>7 DEF WriteFailure
    <3>2. Grows /\ (calls[k].status \in Settled => overwritten'.rows # {})
      BY <1>1, <3>1 DEF Grows, Lost
    <3>3. /\ calls'[k].credits = calls[k].credits /\ calls'[k].ext = calls[k].ext
          /\ calls'[k].status \in {"FAILED", "UNKNOWN_REMOTE_STATE"}
          /\ \A i \in Keys \ {k} : calls'[i] = calls[i]
      BY <1>1, <2>7, <3>1 DEF WriteFailure, Row
    <3>4. calls'[k].status = "FAILED" => calls[k].ext # "job"
      <4>1. SUFFICES ASSUME ConfirmedRejection(k, task[c].phase, task[c].error)
                     PROVE  calls[k].ext # "job"
        BY <1>1, <2>7, <3>1 DEF WriteFailure, Row
      <4>2. /\ task[c].phase \in {"create", "post", "wait"}
            /\ task[c].phase \in {"create", "post"} => calls[k].status \in Early
        BY <2>7 DEF IInv, EvInv, CallerOK, CallerEvidence, WriteFailure
      <4>3. KindOf[k] \in {"generate", "session"}
        BY <3>1, KeysAssumption
      <4> QED BY <3>1, <4>1, <4>2, <4>3 DEF ConfirmedRejection, RowEvidence
    <3> QED BY <1>1, <3>1, <3>2, <3>3, <3>4, CountsSame DEF Counted, Settled
  <2> QED BY <1>3, <2>2, <2>3, <2>4, <2>5, <2>6, <2>7 DEF Caller
<1>4. ASSUME NEW d \in Pollers, Poller(d)  PROVE EvidenceCountsOnce'
  <2> DEFINE k == poll[d].key
  <2>1. poll[d].at # "idle" => /\ k \in Keys /\ RowEvidence(k) /\ calls[k] \in Row
                               /\ poll[d] \in PollerTask /\ PollerEvidence(d)
    BY <1>1 DEF Typed, EvInv
  <2>2. CASE (\E j \in Keys : PollCall(d, j)) \/ FetchJob(d) \/ PollLater(d)
    BY <1>2, <2>2 DEF PollCall, FetchJob, PollLater
  <2>3. CASE DiscoverJob(d)
    <3>1. /\ k \in Keys /\ UNCHANGED stat /\ calls[k] \in Row
          /\ calls[k].status \in Settled => calls[k].ext = "job"
          /\ calls' = [calls EXCEPT ![k].ext = "job", ![k].billing = poll[d].billing]
          /\ overwritten' = [overwritten EXCEPT !.billing = @ \cup Replaced(k, poll[d].billing)]
      BY <2>1, <2>3 DEF DiscoverJob, PollerEvidence
    <3>2. Grows
      BY <1>1, <3>1 DEF Grows, Lost
    <3>3. /\ calls'[k].credits = calls[k].credits /\ calls'[k].ext = "job"
          /\ calls'[k].status = calls[k].status
          /\ \A i \in Keys \ {k} : calls'[i] = calls[i]
      BY <1>1, <3>1 DEF Row
    <3> QED BY <1>1, <3>1, <3>2, <3>3, CountsSame DEF Counted
  <2>4. CASE ApplyPolled(d)
    <3>1. /\ k \in Keys /\ RowEvidence(k) /\ poll[d].payload \in Payloads /\ calls[k].ext = "job"
          /\ Reconcile(k, poll[d].payload) /\ UNCHANGED overwritten
      BY <2>1, <2>4 DEF ApplyPolled, PollerEvidence, PollerTask
    <3> QED BY <1>1, <3>1, ReconcileCounts
  <2>5. CASE PersistPolledText(d)
    <3>1. CASE WriteBack(k, poll[d].billing)
      <4>1. k \in Keys /\ poll[d].billing \in Billings /\ UNCHANGED stat
        BY <2>1, <2>5 DEF PersistPolledText, PollerTask
      <4>2. Grows /\ \A i \in Keys : /\ calls'[i].status = calls[i].status
                                     /\ calls'[i].ext = calls[i].ext
                                     /\ calls'[i].credits = calls[i].credits
        BY <1>1, <3>1, <4>1, WrittenBack DEF Grows, Row
      <4> QED BY <1>1, <4>1, <4>2, CountsSame DEF Counted
    <3>2. CASE UNCHANGED <<calls, overwritten>>
      BY <1>2, <2>5, <3>2 DEF PersistPolledText
    <3> QED BY <2>5, <3>1, <3>2 DEF PersistPolledText
  <2> QED BY <1>4, <2>2, <2>3, <2>4, <2>5 DEF Poller
<1>5. ASSUME NEW k \in Keys, RemoteEnds(k) \/ RemoteReports(k)  PROVE EvidenceCountsOnce'
  BY <1>2, <1>5 DEF RemoteEnds, RemoteReports
<1>6. CASE Crash \/ UNCHANGED vars
  BY <1>2, <1>6 DEF Crash, vars
<1> QED BY <1>3, <1>4, <1>5, <1>6 DEF Next

LEMMA InitCounts == Init => EvidenceCountsOnce
<1> SUFFICES ASSUME Init  PROVE EvidenceCountsOnce
  OBVIOUS
<1>1. Counted = {}
  BY DEF Init, Counted, Settled
<1> DEFINE f == [k \in Keys |-> calls[k].credits]
<1>2. stat.attempts = 0 /\ stat.credits = 0
  BY DEF Init
<1>3. Cardinality({}) = 0 /\ SumFunctionOnSet(f, {}) = 0
  BY FS_EmptySet, SumOfNone
<1> QED BY <1>1, <1>2, <1>3 DEF EvidenceCountsOnce

(* What is booked for paid calls is what the gateway reported, once each,  *)
(* by whatever callers and pollers, in whatever order they apply it.       *)
THEOREM EvidenceOnly == Spec => []BillingIsEvidence
<1>1. Init => IInv /\ EvInv /\ EvidenceCountsOnce
  BY InitIInv, InitEv, InitCounts
<1>2. IInv /\ EvInv /\ EvidenceCountsOnce /\ [Next]_vars =>
          (IInv /\ EvInv /\ EvidenceCountsOnce)'
  BY StepIInv, StepEv, StepCounts
<1>3. EvInv /\ EvidenceCountsOnce => BillingIsEvidence
  BY DEF EvInv, RowEvidence, Evidence, CreditsAreReported, BillingIsEvidence
<1> QED BY <1>1, <1>2, <1>3, PTL DEF Spec
=============================================================================
