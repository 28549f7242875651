-------------------------- MODULE BusinessProofs --------------------------
(***************************************************************************)
(* Proofs about the paid API, the product factory and the AgentGigs        *)
(* webhooks, for any requests, threads, products, cycles and workers.      *)
(***************************************************************************)
EXTENDS CommercialApi, Acquisition, ProductFactory, MarketWebhooks, FiniteSetTheorems,
        SequenceTheorems, TLAPS

-----------------------------------------------------------------------------
(* The paid API.                                                           *)

RequestStatuses == {"NONE", "ADMITTED", "QUEUED", "EXECUTING", "COMPLETED", "FAILED"}
CallPlaces == {"idle", "left", "admit", "insert", "created", "wait", "enqueue", "refuse", "answer"}
RunnerPlaces == {"none", "queued", "plan", "run", "working", "result", "meter"}
ApiRow == [status : RequestStatuses, body : Bodies \cup {NoKey}]
ApiCall == [at : CallPlaces, key : RequestKeys \cup {NoKey}, body : Bodies \cup {NoKey}]
InCall(c) == call[c].at \notin {"idle", "left"}

ApiTypes ==
    /\ row \in [RequestKeys -> ApiRow]
    /\ call \in [Calls -> ApiCall]
    /\ runner \in [RequestKeys -> RunnerPlaces]
    /\ charged \in [RequestKeys -> Nat]
    /\ \A c \in Calls : InCall(c) => call[c].key \in RequestKeys /\ call[c].body \in Bodies
    /\ answers \subseteq [key : RequestKeys, body : Bodies]

(* How a step changes one request or one thread.                           *)
LEMMA GoTypes ==
    ASSUME ApiTypes, NEW c \in Calls, NEW at \in CallPlaces, InCall(c), Go(c, at)
    PROVE  /\ call' \in [Calls -> ApiCall]
           /\ \A d \in Calls : InCall(d)' => call'[d].key \in RequestKeys /\ call'[d].body \in Bodies
BY DEF ApiTypes, Go, InCall, ApiCall

LEMMA LeftTypes ==
    ASSUME ApiTypes, NEW c \in Calls
    PROVE  Left(c) \in ApiCall /\ Left(c).at \in {"idle", "left"}
<1>1. NoCall \in ApiCall /\ NoCall.at = "idle"
  BY DEF NoCall, ApiCall, CallPlaces
<1>2. call[c] \in ApiCall
  BY DEF ApiTypes
<1>3. [call[c] EXCEPT !.at = "left"] \in ApiCall /\ [call[c] EXCEPT !.at = "left"].at = "left"
  BY <1>2 DEF ApiCall, CallPlaces
<1> QED BY <1>1, <1>3 DEF Left

LEMMA LeaveTypes ==
    ASSUME ApiTypes, NEW c \in Calls, Leave(c)
    PROVE  /\ call' \in [Calls -> ApiCall]
           /\ \A d \in Calls : InCall(d)' => call'[d].key \in RequestKeys /\ call'[d].body \in Bodies
BY LeftTypes DEF ApiTypes, Leave, InCall

LEMMA RowTypes ==
    ASSUME ApiTypes, NEW k \in RequestKeys, NEW s \in RequestStatuses, SetRow(k, s)
    PROVE  /\ row' \in [RequestKeys -> ApiRow] /\ row'[k].status = s
           /\ \A l \in RequestKeys : row'[l].body = row[l].body /\ (l # k => row'[l] = row[l])
BY DEF ApiTypes, SetRow, ApiRow

LEMMA RunTypes ==
    ASSUME ApiTypes, NEW k \in RequestKeys, NEW at \in RunnerPlaces, Run(k, at)
    PROVE  /\ runner' \in [RequestKeys -> RunnerPlaces] /\ runner'[k] = at
           /\ \A l \in RequestKeys \ {k} : runner'[l] = runner[l]
BY DEF ApiTypes, Run

LEMMA ApiTypesInitially == ApiInit => ApiTypes
<1> SUFFICES ASSUME ApiInit PROVE ApiTypes
  OBVIOUS
<1>1. NoRow \in ApiRow /\ NoCall \in ApiCall /\ NoCall.at = "idle"
  BY DEF NoRow, NoCall, ApiRow, ApiCall, RequestStatuses, CallPlaces
<1> QED BY <1>1 DEF ApiInit, ApiTypes, InCall, RunnerPlaces

LEMMA ApiTypesKept == ApiTypes /\ ApiNext => ApiTypes'
<1> SUFFICES ASSUME ApiTypes, ApiNext PROVE ApiTypes'
  OBVIOUS
<1>1. ASSUME NEW c \in Calls, NEW k \in RequestKeys, NEW b \in Bodies, Submit(c, k, b)
      PROVE  ApiTypes'
  <2>1. [at |-> "admit", key |-> k, body |-> b] \in ApiCall
    BY DEF ApiCall, CallPlaces
  <2> QED BY <1>1, <2>1 DEF Submit, ApiTypes, InCall
<1>2. ASSUME NEW c \in Calls, Replay(c) \/ RefuseCall(c) \/ LoseInsert(c)
      PROVE  ApiTypes'
  <2>1. InCall(c) /\ Leave(c)
    BY <1>2 DEF Replay, RefuseCall, LoseInsert, InCall
  <2>2. answers' \subseteq [key : RequestKeys, body : Bodies]
    BY <1>2, <2>1 DEF Replay, RefuseCall, LoseInsert, Answered, ApiTypes
  <2> QED BY <1>2, <2>1, <2>2, LeaveTypes DEF Replay, RefuseCall, LoseInsert, ApiTypes
<1>3. ASSUME NEW c \in Calls, CheckQuota(c)
      PROVE  ApiTypes'
  <2>1. InCall(c) /\ Go(c, "insert") /\ "insert" \in CallPlaces
    BY <1>3 DEF CheckQuota, InCall, CallPlaces
  <2> QED BY <1>3, <2>1, GoTypes DEF CheckQuota, ApiTypes
<1>4. ASSUME NEW c \in Calls, InsertRequest(c)
      PROVE  ApiTypes'
  <2>1. InCall(c) /\ Go(c, "created") /\ "created" \in CallPlaces
    BY <1>4 DEF InsertRequest, InCall, CallPlaces
  <2>2. [status |-> "ADMITTED", body |-> call[c].body] \in ApiRow
    BY <2>1 DEF ApiTypes, ApiRow, RequestStatuses
  <2> QED BY <1>4, <2>1, <2>2, GoTypes DEF InsertRequest, ApiTypes
<1>5. ASSUME NEW c \in Calls, ExecuteInThread(c)
      PROVE  ApiTypes'
  <2>1. InCall(c) /\ Go(c, "wait") /\ "wait" \in CallPlaces /\ "plan" \in RunnerPlaces
    BY <1>5 DEF ExecuteInThread, InCall, CallPlaces, RunnerPlaces
  <2>2. call[c].key \in RequestKeys
    BY <2>1 DEF ApiTypes
  <2> QED BY <1>5, <2>1, <2>2, GoTypes, RunTypes DEF ExecuteInThread, ApiTypes
<1>6. ASSUME NEW c \in Calls, QueueRequest(c)
      PROVE  ApiTypes'
  <2>1. InCall(c) /\ Go(c, "enqueue") /\ "enqueue" \in CallPlaces /\ "QUEUED" \in RequestStatuses
    BY <1>6 DEF QueueRequest, InCall, CallPlaces, RequestStatuses
  <2>2. call[c].key \in RequestKeys
    BY <2>1 DEF ApiTypes
  <2> QED BY <1>6, <2>1, <2>2, GoTypes, RowTypes DEF QueueRequest, ApiTypes
<1>7. ASSUME NEW c \in Calls, RefuseQueued(c)
      PROVE  ApiTypes'
  <2>1. InCall(c) /\ "FAILED" \in RequestStatuses
    BY <1>7 DEF RefuseQueued, InCall, RequestStatuses
  <2>2. call[c].key \in RequestKeys
    BY <2>1 DEF ApiTypes
  <2> QED BY <1>7, <2>1, <2>2, LeaveTypes, RowTypes DEF RefuseQueued, ApiTypes
<1>8. ASSUME NEW c \in Calls, AnswerCall(c)
      PROVE  ApiTypes'
  <2>1. InCall(c)
    BY <1>8 DEF AnswerCall, InCall
  <2>2. call[c].key \in RequestKeys /\ call[c].body \in Bodies
    BY <2>1 DEF ApiTypes
  <2>3. answers' \subseteq [key : RequestKeys, body : Bodies] /\ charged' \in [RequestKeys -> Nat]
    BY <1>8, <2>2 DEF AnswerCall, Answered, Charged, ApiTypes
  <2> QED BY <1>8, <2>3, LeaveTypes DEF AnswerCall, ApiTypes
<1>9. ASSUME NEW c \in Calls, NEW lands \in BOOLEAN, NEW raises \in BOOLEAN, Enqueue(c, lands, raises)
      PROVE  ApiTypes'
  <2>1. InCall(c) /\ "refuse" \in CallPlaces /\ "answer" \in CallPlaces /\ "queued" \in RunnerPlaces
    BY <1>9 DEF Enqueue, InCall, CallPlaces, RunnerPlaces
  <2>2. call[c].key \in RequestKeys
    BY <2>1 DEF ApiTypes
  <2>3. Go(c, IF raises THEN "refuse" ELSE "answer")
    BY <1>9 DEF Enqueue
  <2>4. runner' \in [RequestKeys -> RunnerPlaces]
    BY <1>9, <2>1, <2>2, RunTypes DEF Enqueue, ApiTypes
  <2>5. (IF raises THEN "refuse" ELSE "answer") \in CallPlaces
    BY <2>1
  <2> QED BY <1>9, <2>1, <2>3, <2>4, <2>5, GoTypes DEF Enqueue, ApiTypes
<1>10. ASSUME NEW k \in RequestKeys,
              StartTask(k) \/ PlanRequest(k) \/ RunRequest(k) \/ CompleteRequest(k)
              \/ RecordUsageOnce(k) \/ FailRun(k)
       PROVE  ApiTypes'
  <2>1. /\ runner' = runner \/ \E at \in RunnerPlaces : Run(k, at)
        /\ row' = row \/ \E s \in RequestStatuses : SetRow(k, s)
    BY <1>10 DEF StartTask, PlanRequest, RunRequest, Returned, CompleteRequest, RecordUsageOnce,
                 FailRun, FailRequest, RunnerPlaces, RequestStatuses
  <2>2. UNCHANGED <<call, charged, answers>>
    BY <1>10 DEF StartTask, PlanRequest, RunRequest, CompleteRequest, RecordUsageOnce, FailRun
  <2>3. runner' \in [RequestKeys -> RunnerPlaces] /\ row' \in [RequestKeys -> ApiRow]
    BY <2>1, RunTypes, RowTypes DEF ApiTypes
  <2> QED BY <2>2, <2>3 DEF ApiTypes, InCall
<1>11. ASSUME NEW k \in RequestKeys, Die(k)
       PROVE  ApiTypes'
  <2>1. Run(k, "none") /\ "none" \in RunnerPlaces
    BY <1>11 DEF Die, RunnerPlaces
  <2>2. \A c \in Calls : Left(c) \in ApiCall /\ Left(c).at \in {"idle", "left"}
    BY LeftTypes
  <2>3. /\ call' \in [Calls -> ApiCall]
        /\ \A c \in Calls : call'[c] = call[c] \/ call'[c].at \in {"idle", "left"}
    BY <1>11, <2>2 DEF Die, ApiTypes
  <2> QED BY <1>11, <2>1, <2>3, RunTypes DEF Die, ApiTypes, InCall
<1>12. ASSUME NEW k \in RequestKeys, TakeQueued(k) \/ SubmitPassed(k) \/ GetResult(k) \/ RevokeApiKey
       PROVE  ApiTypes'
  BY <1>12 DEF TakeQueued, SubmitPassed, GetResult, RevokeApiKey, ApiTypes, InCall
<1>13. ASSUME NEW k \in RequestKeys, NEW status, DispatchAwarded(k, status)
       PROVE  ApiTypes'
  BY <1>13 DEF DispatchAwarded, ApiTypes, InCall
<1>14. ASSUME NEW k \in RequestKeys, NEW status, EndWork(k, status)
       PROVE  ApiTypes'
  <2>1. /\ runner' = runner \/ \E at \in RunnerPlaces : Run(k, at)
        /\ row' = row \/ \E s \in RequestStatuses : SetRow(k, s)
        /\ UNCHANGED <<call, charged, answers>>
    BY <1>14 DEF EndWork, Returned, FailRequest, RunnerPlaces, RequestStatuses
  <2>2. runner' \in [RequestKeys -> RunnerPlaces] /\ row' \in [RequestKeys -> ApiRow]
    BY <2>1, RunTypes, RowTypes DEF ApiTypes
  <2> QED BY <2>1, <2>2 DEF ApiTypes, InCall
<1>15. RevokeApiKey => ApiTypes'
  BY DEF RevokeApiKey, ApiTypes, InCall
<1> QED BY <1>1, <1>2, <1>3, <1>4, <1>5, <1>6, <1>7, <1>8, <1>9, <1>10, <1>11, <1>12, <1>13, <1>14,
           <1>15, Zenon DEF ApiNext, CallStep, RequestStep

(* Nothing comes from the plan of a request but what passed.               *)
PassedInv ==
    /\ ApiTypes
    /\ ReleasedWorkPassed
    /\ \A k \in RequestKeys : row[k].status = "COMPLETED" => k \in passed
    /\ \A k \in RequestKeys : runner[k] \in {"result", "meter"} => k \in passed

LEMMA PassedInvKept == PassedInv /\ ApiNext => PassedInv'
<1> SUFFICES ASSUME PassedInv, ApiNext PROVE PassedInv'
  OBVIOUS
<1>0. ApiTypes /\ ApiTypes'
  BY ApiTypesKept DEF PassedInv
<1>1. ASSUME NEW c \in Calls, CallStep(c)
      PROVE  PassedInv'
  <2>1. UNCHANGED <<passed, usage, released>>
    BY <1>1 DEF CallStep, Submit, Replay, RefuseCall, CheckQuota, InsertRequest, LoseInsert,
                ExecuteInThread, QueueRequest, RefuseQueued, AnswerCall, Enqueue
  <2>2. CASE UNCHANGED <<row, runner>>
    BY <1>0, <2>1, <2>2 DEF PassedInv, ReleasedWorkPassed
  <2>3. CASE InsertRequest(c)
    <3>1. /\ \A k \in RequestKeys : row'[k] = row[k] \/ row'[k].status = "ADMITTED"
          /\ runner' = runner
      BY <1>0, <2>3 DEF InsertRequest, ApiTypes, ApiRow
    <3> QED BY <1>0, <2>1, <3>1 DEF PassedInv, ReleasedWorkPassed
  <2>4. CASE QueueRequest(c) \/ RefuseQueued(c)
    <3>1. /\ \A k \in RequestKeys : row'[k] = row[k] \/ row'[k].status \in {"QUEUED", "FAILED"}
          /\ runner' = runner
      BY <1>0, <2>4 DEF QueueRequest, RefuseQueued, SetRow, ApiTypes, ApiRow
    <3> QED BY <1>0, <2>1, <3>1 DEF PassedInv, ReleasedWorkPassed
  <2>5. CASE ExecuteInThread(c) \/ \E lands, raises \in BOOLEAN : Enqueue(c, lands, raises)
    <3>1. /\ \A k \in RequestKeys : runner'[k] = runner[k] \/ runner'[k] \in {"plan", "queued"}
          /\ row' = row
      BY <1>0, <2>5 DEF ExecuteInThread, Enqueue, Run, ApiTypes
    <3> QED BY <1>0, <2>1, <3>1 DEF PassedInv, ReleasedWorkPassed
  <2> QED BY <1>1, <2>2, <2>3, <2>4, <2>5
       DEF CallStep, Submit, Replay, RefuseCall, CheckQuota, LoseInsert, AnswerCall
<1>2. ASSUME NEW k \in RequestKeys,
             StartTask(k) \/ PlanRequest(k) \/ RunRequest(k) \/ FailRun(k) \/ Die(k)
      PROVE  PassedInv'
  <2>1. UNCHANGED <<passed, usage, released>>
    BY <1>2 DEF StartTask, PlanRequest, RunRequest, FailRun, Die
  <2>2. /\ row' = row \/ \E s \in {"EXECUTING", "FAILED"} : SetRow(k, s)
        /\ \/ \E at \in {"none", "plan", "run", "working"} : Run(k, at)
           \/ Run(k, "result") /\ k \in passed'
    BY <1>2 DEF StartTask, PlanRequest, RunRequest, FailRun, Die, FailRequest, Returned, Deliverable
  <2>3. \A l \in RequestKeys : row'[l] = row[l] \/ row'[l].status \in {"EXECUTING", "FAILED"}
    BY <1>0, <2>2 DEF SetRow, ApiTypes, ApiRow
  <2>4. \A l \in RequestKeys : \/ runner'[l] = runner[l] \/ l \in passed'
                               \/ runner'[l] \in {"none", "plan", "run", "working"}
    BY <1>0, <2>2 DEF Run, ApiTypes
  <2> QED BY <1>0, <2>1, <2>3, <2>4 DEF PassedInv, ReleasedWorkPassed
<1>3. ASSUME NEW k \in RequestKeys, CompleteRequest(k) \/ RecordUsageOnce(k) \/ GetResult(k)
      PROVE  PassedInv'
  <2>1. k \in passed /\ UNCHANGED passed
    BY <1>3 DEF CompleteRequest, RecordUsageOnce, GetResult, PassedInv
  <2>2. /\ \A l \in RequestKeys \ {k} : row'[l] = row[l] /\ runner'[l] = runner[l]
        /\ released' \cup usage' \subseteq released \cup usage \cup {k}
    BY <1>0, <1>3 DEF CompleteRequest, RecordUsageOnce, GetResult, SetRow, Run, ApiTypes
  <2> QED BY <1>0, <2>1, <2>2 DEF PassedInv, ReleasedWorkPassed
<1>4. ASSUME NEW k \in RequestKeys, NEW status, EndWork(k, status)
      PROVE  PassedInv'
  <2>1. passed \subseteq passed' /\ UNCHANGED <<usage, released>>
    BY <1>4 DEF EndWork
  <2>2. /\ row' = row \/ SetRow(k, "FAILED")
        /\ runner' = runner \/ Run(k, "none") \/ (Run(k, "result") /\ k \in passed')
    BY <1>4 DEF EndWork, Returned, FailRequest, Deliverable
  <2>3. \A l \in RequestKeys : row'[l] = row[l] \/ row'[l].status = "FAILED"
    BY <1>0, <2>2 DEF SetRow, ApiTypes, ApiRow
  <2>4. \A l \in RequestKeys : runner'[l] = runner[l] \/ runner'[l] = "none" \/ l \in passed'
    BY <1>0, <2>2 DEF Run, ApiTypes
  <2> QED BY <1>0, <2>1, <2>3, <2>4 DEF PassedInv, ReleasedWorkPassed
<1>5. ASSUME UNCHANGED <<row, runner, passed, usage, released>>
      PROVE  PassedInv'
  BY <1>0, <1>5 DEF PassedInv, ReleasedWorkPassed
<1> QED BY <1>1, <1>2, <1>3, <1>4, <1>5
     DEF ApiNext, RequestStep, TakeQueued, SubmitPassed, DispatchAwarded, RevokeApiKey

LEMMA ApiTypesStutter == ApiTypes /\ UNCHANGED apiVars => ApiTypes'
BY DEF apiVars, ApiTypes, InCall

(* What is given out or metered passed QA, for any requests and threads:   *)
(* execute_request of commercial_api.py beside dispatch_awarded_jobs.      *)
THEOREM ReleasedPassed == ApiSpec => []ReleasedWorkPassed
<1>1. ApiInit => PassedInv
  <2> SUFFICES ASSUME ApiInit PROVE PassedInv
    OBVIOUS
  <2>1. ApiTypes
    BY ApiTypesInitially
  <2> QED BY <2>1 DEF ApiInit, PassedInv, ReleasedWorkPassed, NoRow
<1>2. PassedInv /\ [ApiNext]_apiVars => PassedInv'
  BY PassedInvKept, ApiTypesStutter DEF PassedInv, ReleasedWorkPassed, apiVars
<1>3. PassedInv => ReleasedWorkPassed
  BY DEF PassedInv
<1> QED BY <1>1, <1>2, <1>3, PTL DEF ApiSpec

(* A thread owns the request it has inserted, and alone may be charged.    *)
Owns(c) == call[c].at \in {"created", "wait", "enqueue", "refuse", "answer"}

KeyInv ==
    /\ ApiTypes
    /\ \A c \in Calls : Owns(c) =>
          /\ row[call[c].key] # NoRow /\ row[call[c].key].body = call[c].body
          /\ charged[call[c].key] = 0
    /\ \A c, d \in Calls : Owns(c) /\ Owns(d) /\ call[c].key = call[d].key => c = d
    /\ \A k \in RequestKeys : row[k] = NoRow => charged[k] = 0
    /\ KeyIsOneRequest

LEMMA GoKeeps ==
    ASSUME ApiTypes, NEW c \in Calls, NEW at \in CallPlaces, Go(c, at)
    PROVE  /\ call'[c].at = at /\ call'[c].key = call[c].key /\ call'[c].body = call[c].body
           /\ \A d \in Calls \ {c} : call'[d] = call[d]
<1>1. call[c] \in ApiCall
  BY DEF ApiTypes
<1>2. /\ [call[c] EXCEPT !.at = at].at = at
      /\ [call[c] EXCEPT !.at = at].key = call[c].key /\ [call[c] EXCEPT !.at = at].body = call[c].body
  BY <1>1 DEF ApiCall
<1>3. call' = [call EXCEPT ![c] = [call[c] EXCEPT !.at = at]]
  BY DEF Go, ApiTypes
<1> QED BY <1>2, <1>3 DEF ApiTypes

LEMMA LeaveKeeps ==
    ASSUME ApiTypes, NEW c \in Calls, Leave(c)
    PROVE  /\ ~Owns(c)' /\ call'[c].at \in {"idle", "left"}
           /\ \A d \in Calls \ {c} : call'[d] = call[d]
BY LeftTypes DEF Leave, ApiTypes, Owns

(* A step that inserts no request and gives no answer.                     *)
LEMMA KeyKept ==
    ASSUME KeyInv, ApiTypes', UNCHANGED <<charged, answers>>,
           \A c \in Calls : Owns(c)' => /\ Owns(c) /\ call'[c].key = call[c].key
                                        /\ call'[c].body = call[c].body,
           \A k \in RequestKeys : row'[k].body = row[k].body,
           \A k \in RequestKeys : row[k] # NoRow => row'[k] # NoRow
    PROVE  KeyInv'
<1>1. \A c \in Calls : Owns(c) => call[c].key \in RequestKeys
  BY DEF KeyInv, ApiTypes, InCall, Owns
<1>2. KeyIsOneRequest'
  <2>1. \A a \in answers : a.key \in RequestKeys
    BY DEF KeyInv, ApiTypes
  <2> QED BY <2>1 DEF KeyInv, KeyIsOneRequest
<1> QED BY <1>1, <1>2 DEF KeyInv, Owns

LEMMA RowKeeps ==
    ASSUME ApiTypes, NEW k \in RequestKeys, NEW s \in RequestStatuses \ {"NONE"}, SetRow(k, s)
    PROVE  /\ \A l \in RequestKeys : row'[l].body = row[l].body
           /\ \A l \in RequestKeys : row[l] # NoRow => row'[l] # NoRow
BY RowTypes DEF NoRow

LEMMA KeyInvKept == KeyInv /\ ApiNext => KeyInv'
<1> SUFFICES ASSUME KeyInv, ApiNext PROVE KeyInv'
  OBVIOUS
<1>0. ApiTypes /\ ApiTypes'
  BY ApiTypesKept DEF KeyInv
<1>1. ASSUME NEW c \in Calls, NEW k \in RequestKeys, NEW b \in Bodies, Submit(c, k, b)
      PROVE  KeyInv'
  <2>1. /\ \A d \in Calls \ {c} : call'[d] = call[d]
        /\ call'[c].at = "admit"
    BY <1>0, <1>1 DEF Submit, ApiTypes
  <2> QED BY <1>0, <1>1, <2>1, KeyKept DEF Submit, Owns
<1>2. ASSUME NEW c \in Calls, RefuseCall(c) \/ LoseInsert(c) \/ CheckQuota(c)
      PROVE  KeyInv'
  <2>1. UNCHANGED <<charged, answers, row>>
    BY <1>2 DEF RefuseCall, LoseInsert, CheckQuota
  <2>2. Leave(c) \/ (Go(c, "insert") /\ "insert" \in CallPlaces)
    BY <1>2 DEF RefuseCall, LoseInsert, CheckQuota, CallPlaces
  <2> QED BY <1>0, <2>1, <2>2, KeyKept, LeaveKeeps, GoKeeps DEF Owns
<1>3. ASSUME NEW c \in Calls, Replay(c)
      PROVE  KeyInv'
  <2>1. UNCHANGED <<charged, row>> /\ Leave(c)
    BY <1>3 DEF Replay
  <2>2. \A a \in answers' : row[a.key].body = a.body
    BY <1>3 DEF Replay, SameRequest, Answered, KeyInv, KeyIsOneRequest
  <2>3. /\ ~Owns(c)'
        /\ \A d \in Calls : Owns(d)' => Owns(d) /\ call'[d] = call[d]
    BY <1>0, <2>1, LeaveKeeps DEF Owns
  <2> QED BY <1>0, <2>1, <2>2, <2>3 DEF KeyInv, KeyIsOneRequest
<1>4. ASSUME NEW c \in Calls, InsertRequest(c)
      PROVE  KeyInv'
  <2>1. call[c].key \in RequestKeys /\ call[c].body \in Bodies /\ row[call[c].key] = NoRow
    BY <1>0, <1>4 DEF InsertRequest, ApiTypes, InCall
  <2>2. /\ \A k \in RequestKeys \ {call[c].key} : row'[k] = row[k]
        /\ row'[call[c].key].body = call[c].body /\ row'[call[c].key] # NoRow
        /\ UNCHANGED <<charged, answers>>
    BY <1>0, <1>4, <2>1 DEF InsertRequest, ApiTypes, NoRow
  <2>3. /\ \A d \in Calls \ {c} : call'[d] = call[d]
        /\ call'[c].key = call[c].key /\ call'[c].body = call[c].body
    BY <1>0, <1>4, GoKeeps DEF InsertRequest, CallPlaces
  <2>4. \A d \in Calls : Owns(d) => call[d].key \in RequestKeys \ {call[c].key}
    BY <1>0, <2>1 DEF KeyInv, ApiTypes, InCall, Owns
  <2>5. \A a \in answers : a.key \in RequestKeys \ {call[c].key}
    BY <1>0, <2>1, ApiAssumption DEF KeyInv, KeyIsOneRequest, ApiTypes, NoRow
  <2>6. KeyIsOneRequest'
    BY <2>2, <2>5 DEF KeyInv, KeyIsOneRequest
  <2>7. \A d \in Calls : Owns(d)' => d = c \/ (Owns(d) /\ call'[d] = call[d])
    BY <2>3 DEF Owns
  <2> QED BY <1>0, <2>1, <2>2, <2>3, <2>4, <2>6, <2>7 DEF KeyInv
<1>5. ASSUME NEW c \in Calls, ExecuteInThread(c) \/ \E lands, raises \in BOOLEAN : Enqueue(c, lands, raises)
      PROVE  KeyInv'
  <2>1. UNCHANGED <<charged, answers, row>> /\ Owns(c)
    BY <1>5 DEF ExecuteInThread, Enqueue, Owns
  <2>2. \E at \in CallPlaces : Go(c, at)
    BY <1>5 DEF ExecuteInThread, Enqueue, CallPlaces
  <2> QED BY <1>0, <2>1, <2>2, KeyKept, GoKeeps DEF Owns
<1>6. ASSUME NEW c \in Calls, QueueRequest(c) \/ RefuseQueued(c)
      PROVE  KeyInv'
  <2>1. UNCHANGED <<charged, answers>> /\ Owns(c) /\ call[c].key \in RequestKeys
    BY <1>0, <1>6 DEF QueueRequest, RefuseQueued, Owns, ApiTypes, InCall
  <2>2. /\ Leave(c) \/ (Go(c, "enqueue") /\ "enqueue" \in CallPlaces)
        /\ SetRow(call[c].key, "QUEUED") \/ SetRow(call[c].key, "FAILED")
    BY <1>6 DEF QueueRequest, RefuseQueued, CallPlaces
  <2>3. \A d \in Calls : Owns(d)' => /\ Owns(d) /\ call'[d].key = call[d].key
                                     /\ call'[d].body = call[d].body
    BY <1>0, <2>1, <2>2, LeaveKeeps, GoKeeps DEF Owns
  <2>4. /\ \A l \in RequestKeys : row'[l].body = row[l].body
        /\ \A l \in RequestKeys : row[l] # NoRow => row'[l] # NoRow
    BY <1>0, <2>1, <2>2, RowKeeps DEF RequestStatuses
  <2> QED BY <1>0, <2>1, <2>3, <2>4, KeyKept
<1>7. ASSUME NEW c \in Calls, AnswerCall(c)
      PROVE  KeyInv'
  <2>1. /\ Owns(c) /\ call[c].key \in RequestKeys /\ Leave(c) /\ UNCHANGED row
        /\ charged[call[c].key] = 0 /\ row[call[c].key].body = call[c].body
        /\ row[call[c].key] # NoRow
    BY <1>0, <1>7 DEF AnswerCall, Owns, ApiTypes, InCall, KeyInv
  <2>2. /\ \A k \in RequestKeys \ {call[c].key} : charged'[k] = charged[k]
        /\ charged'[call[c].key] \in {0, 1}
    BY <1>0, <1>7, <2>1 DEF AnswerCall, Charged, ApiTypes
  <2>3. \A a \in answers' : row[a.key].body = a.body
    BY <1>7, <2>1 DEF AnswerCall, Answered, KeyInv, KeyIsOneRequest
  <2>4. \A d \in Calls : Owns(d)' => /\ Owns(d) /\ call'[d] = call[d] /\ d # c
    BY <1>0, <2>1, LeaveKeeps DEF Owns
  <2>5. \A d \in Calls : Owns(d)' => call[d].key \in RequestKeys \ {call[c].key}
    BY <1>0, <2>1, <2>4 DEF KeyInv, ApiTypes, InCall, Owns
  <2>6. KeyIsOneRequest'
    BY <1>0, <2>1, <2>2, <2>3 DEF KeyInv, KeyIsOneRequest
  <2> QED BY <1>0, <2>1, <2>2, <2>4, <2>5, <2>6 DEF KeyInv
<1>8. ASSUME NEW k \in RequestKeys, NEW status, RequestStep(k) \/ RevokeApiKey
      PROVE  KeyInv'
  <2>1. UNCHANGED <<charged, answers>>
    BY <1>8 DEF RequestStep, StartTask, PlanRequest, RunRequest, CompleteRequest, RecordUsageOnce,
                FailRun, Die, TakeQueued, SubmitPassed, GetResult, DispatchAwarded, EndWork, RevokeApiKey
  <2>2. row' = row \/ \E s \in {"EXECUTING", "COMPLETED", "FAILED"} : SetRow(k, s)
    BY <1>8 DEF RequestStep, StartTask, PlanRequest, RunRequest, CompleteRequest, RecordUsageOnce,
                FailRun, Die, TakeQueued, SubmitPassed, GetResult, DispatchAwarded, EndWork,
                RevokeApiKey, FailRequest, Returned
  <2>3. \A c \in Calls : call'[c] = call[c] \/ call'[c].at \in {"idle", "left"}
    <3>1. CASE Die(k)
      BY <1>0, <3>1, LeftTypes DEF Die
    <3>2. CASE UNCHANGED call
      BY <3>2
    <3> QED BY <1>8, <3>1, <3>2
         DEF RequestStep, StartTask, PlanRequest, RunRequest, CompleteRequest, RecordUsageOnce,
             FailRun, TakeQueued, SubmitPassed, GetResult, DispatchAwarded, EndWork, RevokeApiKey
  <2>4. /\ \A l \in RequestKeys : row'[l].body = row[l].body
        /\ \A l \in RequestKeys : row[l] # NoRow => row'[l] # NoRow
    BY <1>0, <2>2, RowKeeps DEF RequestStatuses
  <2>5. \A d \in Calls : Owns(d)' => Owns(d) /\ call'[d] = call[d]
    BY <2>3 DEF Owns
  <2> QED BY <1>0, <2>1, <2>4, <2>5, KeyKept
<1>9. RevokeApiKey => KeyInv'
  BY <1>0, KeyKept DEF RevokeApiKey, Owns
<1> QED BY <1>1, <1>2, <1>3, <1>4, <1>5, <1>6, <1>7, <1>8, <1>9 DEF ApiNext, CallStep

(* However threads race with an idempotency key, nobody is answered with   *)
(* the request of another body and one answer at most is charged:          *)
(* admit_request and submit of commercial_api.py.                          *)
THEOREM OneRequestPerKey == ApiSpec => []KeyIsOneRequest
<1>1. ApiInit => KeyInv
  <2> SUFFICES ASSUME ApiInit PROVE KeyInv
    OBVIOUS
  <2>1. ApiTypes
    BY ApiTypesInitially
  <2> QED BY <2>1 DEF ApiInit, KeyInv, KeyIsOneRequest, Owns, NoCall
<1>2. KeyInv /\ [ApiNext]_apiVars => KeyInv'
  <2> SUFFICES ASSUME KeyInv, UNCHANGED apiVars PROVE KeyInv'
    BY KeyInvKept
  <2> QED BY ApiTypesStutter, KeyKept DEF KeyInv, apiVars, Owns
<1>3. KeyInv => KeyIsOneRequest
  BY DEF KeyInv
<1> QED BY <1>1, <1>2, <1>3, PTL DEF ApiSpec

(* A thread that was admitted and has not inserted counts as a request.    *)
Inserting == {c \in Calls : call[c].at = "insert"}

QuotaInv ==
    /\ KeyInv
    /\ \A k \in RequestKeys : runner[k] # "none" => row[k] # NoRow
    /\ serving \subseteq Calls /\ serving # {}
    /\ \A c \in Calls : InCall(c) => c \in serving
    /\ Cardinality(Rows) + Cardinality(Inserting) < Quota + Cardinality(serving)

LEMMA CountsAreNat ==
    /\ IsFiniteSet(Rows) /\ Cardinality(Rows) \in Nat
    /\ IsFiniteSet(Inserting) /\ Cardinality(Inserting) \in Nat
    /\ \A T \in SUBSET Calls : IsFiniteSet(T) /\ Cardinality(T) \in Nat
<1>1. Rows \subseteq RequestKeys /\ Inserting \subseteq Calls
  BY DEF Rows, Inserting
<1> QED BY <1>1, ApiAssumption, FS_Subset, FS_CardinalityType

LEMMA QuotaKept ==
    ASSUME QuotaInv, KeyInv', UNCHANGED serving, Rows' = Rows, Inserting' \subseteq Inserting,
           \A c \in Calls : InCall(c)' => InCall(c),
           \A k \in RequestKeys : runner'[k] # "none" => row'[k] # NoRow
    PROVE  QuotaInv'
<1>1. Cardinality(Inserting') <= Cardinality(Inserting) /\ Cardinality(Inserting') \in Nat
  BY CountsAreNat, FS_Subset, FS_CardinalityType
<1>2. Cardinality(Rows') = Cardinality(Rows) /\ Cardinality(Rows) \in Nat
      /\ Cardinality(Inserting) \in Nat
  BY CountsAreNat
<1>3. Cardinality(serving) \in Nat /\ Quota \in Nat
  BY CountsAreNat, ApiAssumption DEF QuotaInv
<1>4. Cardinality(Rows)' = Cardinality(Rows) /\ Cardinality(Inserting)' = Cardinality(Inserting')
      /\ Cardinality(serving)' = Cardinality(serving)
  BY <1>2
<1> QED BY <1>1, <1>2, <1>3, <1>4 DEF QuotaInv

(* Only an insertion adds a row: every other change is of a row that is    *)
(* there.                                                                  *)
LEMMA RowsStay ==
    ASSUME ApiTypes, NEW k \in RequestKeys, row[k] # NoRow,
           NEW s \in RequestStatuses \ {"NONE"}, SetRow(k, s)
    PROVE  Rows' = Rows
BY RowTypes DEF Rows, NoRow

LEMMA QuotaInvKept == QuotaInv /\ ApiNext => QuotaInv'
<1> SUFFICES ASSUME QuotaInv, ApiNext PROVE QuotaInv'
  OBVIOUS
<1>0. ApiTypes /\ KeyInv /\ KeyInv'
  BY KeyInvKept DEF QuotaInv, KeyInv
<1>1. ASSUME NEW c \in Calls, NEW k \in RequestKeys, NEW b \in Bodies, Submit(c, k, b)
      PROVE  QuotaInv'
  <2>1. /\ UNCHANGED <<serving, row, runner>> /\ c \in serving
        /\ call'[c].at = "admit"
        /\ \A d \in Calls \ {c} : call'[d] = call[d]
    BY <1>0, <1>1 DEF Submit, ApiTypes
  <2>2. Rows' = Rows /\ Inserting' \subseteq Inserting
    BY <2>1 DEF Rows, Inserting
  <2>3. /\ Cardinality(Inserting') <= Cardinality(Inserting) /\ Cardinality(Inserting') \in Nat
        /\ Cardinality(Rows) \in Nat /\ Cardinality(Inserting) \in Nat
    BY <2>2, CountsAreNat, FS_Subset, FS_CardinalityType
  <2>4. Cardinality(serving) \in Nat /\ Quota \in Nat
    BY CountsAreNat, ApiAssumption DEF QuotaInv
  <2>5. /\ Cardinality(Rows)' = Cardinality(Rows) /\ Cardinality(serving)' = Cardinality(serving)
        /\ Cardinality(Inserting)' = Cardinality(Inserting')
    BY <2>1, <2>2
  <2>6. (Cardinality(Rows) + Cardinality(Inserting) < Quota + Cardinality(serving))'
    BY <2>3, <2>4, <2>5 DEF QuotaInv
  <2>7. \A d \in Calls : InCall(d)' => d \in serving
    BY <2>1 DEF QuotaInv, InCall
  <2> QED BY <1>0, <2>1, <2>6, <2>7 DEF QuotaInv
<1>2. ASSUME NEW c \in Calls, Replay(c) \/ RefuseCall(c) \/ LoseInsert(c) \/ AnswerCall(c)
      PROVE  QuotaInv'
  <2>1. UNCHANGED <<serving, row, runner>> /\ Leave(c)
    BY <1>2 DEF Replay, RefuseCall, LoseInsert, AnswerCall
  <2>2. /\ Rows' = Rows /\ Inserting' \subseteq Inserting
        /\ \A d \in Calls : InCall(d)' => InCall(d)
    BY <1>0, <2>1, LeaveKeeps DEF Rows, Inserting, InCall
  <2> QED BY <1>0, <2>1, <2>2, QuotaKept DEF QuotaInv
<1>3. ASSUME NEW c \in Calls, CheckQuota(c)
      PROVE  QuotaInv'
  <2>1. /\ UNCHANGED <<serving, row, runner>> /\ Rows' = Rows /\ Cardinality(Rows) < Quota
        /\ \A d \in Calls : InCall(d)' => InCall(d)
    BY <1>0, <1>3, GoKeeps DEF CheckQuota, Admitted, Rows, InCall, CallPlaces
  <2>2. Inserting' \subseteq serving
    BY <2>1 DEF QuotaInv, Inserting, InCall
  <2>3. /\ Cardinality(Inserting') <= Cardinality(serving) /\ Cardinality(Inserting') \in Nat
        /\ Cardinality(serving) \in Nat /\ Cardinality(Rows) \in Nat /\ Quota \in Nat
    BY <2>2, CountsAreNat, ApiAssumption, FS_Subset, FS_CardinalityType DEF QuotaInv
  <2>4. /\ Cardinality(Rows)' = Cardinality(Rows) /\ Cardinality(serving)' = Cardinality(serving)
        /\ Cardinality(Inserting)' = Cardinality(Inserting')
    BY <2>1
  <2>5. (Cardinality(Rows) + Cardinality(Inserting) < Quota + Cardinality(serving))'
    BY <2>1, <2>3, <2>4
  <2> QED BY <1>0, <2>1, <2>5 DEF QuotaInv
<1>4. ASSUME NEW c \in Calls, InsertRequest(c)
      PROVE  QuotaInv'
  <2>1. call[c].key \in RequestKeys /\ call[c].key \notin Rows /\ c \in Inserting
    BY <1>0, <1>4 DEF InsertRequest, ApiTypes, InCall, Rows, Inserting
  <2>2. Rows' = Rows \cup {call[c].key}
    BY <1>0, <1>4, <2>1 DEF InsertRequest, ApiTypes, Rows, NoRow
  <2>3. /\ Inserting' = Inserting \ {c}
        /\ \A d \in Calls : InCall(d)' => InCall(d)
    BY <1>0, <1>4, GoKeeps DEF InsertRequest, CallPlaces, Inserting, InCall
  <2>4. Cardinality(Rows') = Cardinality(Rows) + 1
    BY <2>1, <2>2, CountsAreNat, FS_AddElement
  <2>5. Cardinality(Inserting') = Cardinality(Inserting) - 1
    BY <2>1, <2>3, CountsAreNat, FS_RemoveElement
  <2>6. /\ Cardinality(Rows) \in Nat /\ Cardinality(Inserting) \in Nat
        /\ Cardinality(serving) \in Nat /\ Quota \in Nat
    BY CountsAreNat, ApiAssumption DEF QuotaInv
  <2>7. /\ Cardinality(Rows)' = Cardinality(Rows') /\ Cardinality(Inserting)' = Cardinality(Inserting')
        /\ serving' = serving /\ Cardinality(serving)' = Cardinality(serving)
    BY <1>4 DEF InsertRequest
  <2>8. (Cardinality(Rows) + Cardinality(Inserting) < Quota + Cardinality(serving))'
    BY <2>4, <2>5, <2>6, <2>7 DEF QuotaInv
  <2>9. \A k \in RequestKeys : runner'[k] # "none" => row'[k] # NoRow
    <3>1. runner' = runner /\ \A k \in RequestKeys : row[k] # NoRow => row'[k] # NoRow
      BY <1>4, <2>2 DEF InsertRequest, Rows
    <3> QED BY <3>1 DEF QuotaInv
  <2> QED BY <1>0, <2>3, <2>7, <2>8, <2>9 DEF QuotaInv
<1>5. ASSUME NEW c \in Calls,
             \/ ExecuteInThread(c) \/ QueueRequest(c) \/ RefuseQueued(c)
             \/ \E lands, raises \in BOOLEAN : Enqueue(c, lands, raises)
      PROVE  QuotaInv'
  <2>1. /\ Owns(c) /\ InCall(c) /\ UNCHANGED serving
        /\ call[c].key \in RequestKeys /\ row[call[c].key] # NoRow
    BY <1>0, <1>5 DEF ExecuteInThread, QueueRequest, RefuseQueued, Enqueue, Owns, InCall, KeyInv, ApiTypes
  <2>2. Leave(c) \/ \E at \in {"wait", "enqueue", "refuse", "answer"} : Go(c, at)
    BY <1>5 DEF ExecuteInThread, QueueRequest, RefuseQueued, Enqueue
  <2>3. /\ Inserting' \subseteq Inserting
        /\ \A d \in Calls : InCall(d)' => InCall(d)
    BY <1>0, <2>1, <2>2, LeaveKeeps, GoKeeps DEF Inserting, InCall, CallPlaces
  <2>4. row' = row \/ SetRow(call[c].key, "QUEUED") \/ SetRow(call[c].key, "FAILED")
    BY <1>5 DEF ExecuteInThread, QueueRequest, RefuseQueued, Enqueue
  <2>5. Rows' = Rows
    <3>1. CASE row' = row
      BY <3>1 DEF Rows
    <3> QED BY <1>0, <2>1, <2>4, <3>1, RowsStay DEF RequestStatuses
  <2>6. runner' = runner \/ Run(call[c].key, "plan") \/ Run(call[c].key, "queued")
    BY <1>5 DEF ExecuteInThread, QueueRequest, RefuseQueued, Enqueue
  <2>7. \A k \in RequestKeys : runner'[k] # "none" => row[k] # NoRow
    BY <1>0, <2>1, <2>6 DEF Run, QuotaInv, ApiTypes
  <2>8. \A k \in RequestKeys : runner'[k] # "none" => row'[k] # NoRow
    BY <2>5, <2>7 DEF Rows
  <2> QED BY <1>0, <2>1, <2>3, <2>5, <2>8, QuotaKept
<1>6. ASSUME NEW k \in RequestKeys, RequestStep(k)
      PROVE  QuotaInv'
  <2>1. serving' = serving
    BY <1>6 DEF RequestStep, StartTask, PlanRequest, RunRequest, CompleteRequest, RecordUsageOnce,
                FailRun, Die, TakeQueued, SubmitPassed, GetResult, DispatchAwarded, EndWork
  <2>2. /\ row' = row \/ (runner[k] # "none" /\ \E s \in {"EXECUTING", "COMPLETED", "FAILED"} : SetRow(k, s))
        /\ runner' = runner \/ (runner[k] # "none" /\ \E at \in RunnerPlaces : Run(k, at))
    BY <1>6 DEF RequestStep, StartTask, PlanRequest, RunRequest, CompleteRequest, RecordUsageOnce,
                FailRun, Die, TakeQueued, SubmitPassed, GetResult, DispatchAwarded, EndWork,
                FailRequest, Returned, RunnerPlaces
  <2>3. Rows' = Rows
    <3>1. CASE row' = row
      BY <3>1 DEF Rows
    <3> QED BY <1>0, <2>2, <3>1, RowsStay DEF RequestStatuses, QuotaInv
  <2>4. \A l \in RequestKeys : runner'[l] # "none" => row[l] # NoRow
    BY <1>0, <2>2 DEF Run, QuotaInv, ApiTypes
  <2>5. \A l \in RequestKeys : runner'[l] # "none" => row'[l] # NoRow
    BY <2>3, <2>4 DEF Rows
  <2>6. \A c \in Calls : call'[c] = call[c] \/ call'[c].at \in {"idle", "left"}
    <3>1. CASE Die(k)
      BY <1>0, <3>1, LeftTypes DEF Die
    <3>2. CASE UNCHANGED call
      BY <3>2
    <3> QED BY <1>6, <3>1, <3>2
         DEF RequestStep, StartTask, PlanRequest, RunRequest, CompleteRequest, RecordUsageOnce,
             FailRun, TakeQueued, SubmitPassed, GetResult, DispatchAwarded, EndWork
  <2>7. /\ Inserting' \subseteq Inserting
        /\ \A d \in Calls : InCall(d)' => InCall(d)
    BY <2>6 DEF Inserting, InCall
  <2> QED BY <1>0, <2>1, <2>3, <2>5, <2>7, QuotaKept
<1>7. ASSUME RevokeApiKey PROVE QuotaInv'
  <2>1. UNCHANGED <<serving, row, call, runner>>
    BY <1>7 DEF RevokeApiKey
  <2>2. Rows' = Rows /\ Inserting' = Inserting /\ \A d \in Calls : InCall(d)' => InCall(d)
    BY <2>1 DEF Rows, Inserting, InCall
  <2> QED BY <1>0, <2>1, <2>2, QuotaKept DEF QuotaInv
<1> QED BY <1>1, <1>2, <1>3, <1>4, <1>5, <1>6, <1>7 DEF ApiNext, CallStep

(* Of n threads each may overrun the quota, but together by less than n:   *)
(* _quota_and_rate and admit_request of commercial_api.py.                 *)
THEOREM QuotaIsKept == ApiSpec => []QuotaHolds
<1>1. ApiInit => QuotaInv
  <2> SUFFICES ASSUME ApiInit PROVE QuotaInv
    OBVIOUS
  <2>1. KeyInv
    <3>1. ApiTypes
      BY ApiTypesInitially
    <3> QED BY <3>1 DEF ApiInit, KeyInv, KeyIsOneRequest, Owns, NoCall
  <2>2. Rows = {} /\ Inserting = {} /\ \A c \in Calls : ~InCall(c)
    BY DEF ApiInit, Rows, Inserting, NoCall, InCall
  <2>3. serving \subseteq Calls /\ serving # {} /\ \A k \in RequestKeys : runner[k] = "none"
    BY DEF ApiInit
  <2>4. Cardinality(Rows) = 0 /\ Cardinality(Inserting) = 0
    BY <2>2, FS_EmptySet
  <2>5. Cardinality(serving) \in Nat /\ Cardinality(serving) # 0 /\ Quota \in Nat
    BY <2>3, CountsAreNat, ApiAssumption, FS_EmptySet
  <2> QED BY <2>1, <2>2, <2>3, <2>4, <2>5 DEF QuotaInv
<1>2. QuotaInv /\ [ApiNext]_apiVars => QuotaInv'
  <2> SUFFICES ASSUME QuotaInv, UNCHANGED apiVars PROVE QuotaInv'
    BY QuotaInvKept
  <2>1. KeyInv'
    BY ApiTypesStutter, KeyKept DEF QuotaInv, KeyInv, apiVars, Owns
  <2>2. Rows' = Rows /\ Inserting' = Inserting /\ \A d \in Calls : InCall(d)' => InCall(d)
    BY DEF apiVars, Rows, Inserting, InCall
  <2> QED BY <2>1, <2>2, QuotaKept DEF QuotaInv, apiVars
<1>3. QuotaInv => QuotaHolds
  <2> SUFFICES ASSUME QuotaInv PROVE QuotaHolds
    OBVIOUS
  <2>1. Cardinality(serving) \in Nat /\ Quota \in Nat
    BY CountsAreNat, ApiAssumption DEF QuotaInv
  <2> QED BY <2>1, CountsAreNat DEF QuotaInv, QuotaHolds
<1> QED BY <1>1, <1>2, <1>3, PTL DEF ApiSpec

-----------------------------------------------------------------------------
(* The product factory.                                                    *)

ProductFields == {"state", "reason", "lastQa", "resolved", "inventory", "sales", "refunds", "paid"}

FactoryTypes ==
    /\ DOMAIN product = Products /\ \A p \in Products : DOMAIN product[p] = ProductFields
    /\ DOMAIN opportunity = Products /\ DOMAIN plan = Products
    /\ calls \in [Products -> Seq([run : Nat, known : BOOLEAN])]
    /\ runs \in [Products -> Nat]
    /\ DOMAIN qaPassed = Products

(* A product that may be published has passed QA as it is, and a plan that *)
(* passed is not executed again.                                           *)
ProductInv(p) ==
    /\ Publishable(p) => plan[p] = "QA_PASSED" /\ runs[p] \in qaPassed[p] /\ RunBilled(p)
    /\ product[p].lastQa => plan[p] = "QA_PASSED" /\ runs[p] \in qaPassed[p]
    /\ opportunity[p] \in {"NONE", "CANDIDATE"} => plan[p] = "NONE"

FactoryInv == FactoryTypes /\ \A p \in Products : ProductInv(p)

LEMMA SetTypes ==
    ASSUME FactoryTypes, NEW p \in Products, NEW values, Set(p, values)
    PROVE  /\ DOMAIN product' = Products
           /\ \A q \in Products : DOMAIN product'[q] = ProductFields
           /\ \A q \in Products \ {p} : product'[q] = product[q]
           /\ \A field \in ProductFields :
                 product'[p][field] = IF field \in DOMAIN values THEN values[field] ELSE product[p][field]
           /\ "state" \notin DOMAIN values => product'[p].state = product[p].state
           /\ "lastQa" \notin DOMAIN values => product'[p].lastQa = product[p].lastQa
           /\ "state" \in DOMAIN values => product'[p].state = values.state
           /\ "lastQa" \in DOMAIN values => product'[p].lastQa = values.lastQa
<1>1. /\ DOMAIN product' = Products
      /\ \A q \in Products : DOMAIN product'[q] = ProductFields
      /\ \A q \in Products \ {p} : product'[q] = product[q]
      /\ \A field \in ProductFields :
            product'[p][field] = IF field \in DOMAIN values THEN values[field] ELSE product[p][field]
  BY DEF Set, FactoryTypes
<1>2. "state" \in ProductFields /\ "lastQa" \in ProductFields
  BY DEF ProductFields
<1> QED BY <1>1, <1>2

(* A step of one product leaves the others as they are.                    *)
LEMMA OthersKeep ==
    ASSUME FactoryInv, NEW p \in Products, NEW q \in Products,
           product'[q] = product[q], plan'[q] = plan[q], opportunity'[q] = opportunity[q],
           runs'[q] = runs[q], calls'[q] = calls[q], qaPassed'[q] = qaPassed[q]
    PROVE  ProductInv(q)'
BY DEF FactoryInv, ProductInv, Publishable, RunBilled

LEMMA FactoryInvKept == FactoryInv /\ FactoryNext => FactoryInv'
<1> SUFFICES ASSUME FactoryInv, FactoryNext PROVE FactoryInv'
  OBVIOUS
<1>0. FactoryTypes
  BY DEF FactoryInv
<1>1. ASSUME NEW c \in Cycles, GenerateProductCandidates(c)
      PROVE  FactoryInv'
  <2>1. FactoryTypes'
    BY <1>0, <1>1 DEF GenerateProductCandidates, FactoryTypes, NoProduct, ProductFields
  <2>2. \A p \in Products : /\ product'[p] = product[p] \/ /\ product'[p].state = "PRODUCT_CANDIDATE"
                                                           /\ product'[p].lastQa = FALSE
                            /\ opportunity'[p] = opportunity[p] \/ opportunity[p] = "NONE"
    BY <1>0, <1>1 DEF GenerateProductCandidates, FactoryTypes, NoProduct
  <2> QED BY <1>1, <2>1, <2>2
       DEF GenerateProductCandidates, FactoryInv, ProductInv, Publishable, RunBilled
<1>2. ASSUME NEW c \in Cycles, NEW p \in Products, ApplyStopLoss(c, p)
      PROVE  FactoryInv'
  <2>1. /\ FactoryTypes' /\ UNCHANGED <<opportunity, plan, calls, runs, qaPassed>>
        /\ \A q \in Products \ {p} : product'[q] = product[q]
        /\ product'[p].state = "PAUSED" /\ product'[p].lastQa = product[p].lastQa
    BY <1>0, <1>2 DEF ApplyStopLoss, Set, FactoryTypes, ProductFields
  <2> QED BY <2>1 DEF FactoryInv, ProductInv, Publishable, RunBilled
<1>3. ASSUME NEW c \in Cycles, NEW p \in Products, AdmitNext(c, p)
      PROVE  FactoryInv'
  <2>1. /\ FactoryTypes' /\ UNCHANGED <<calls, runs, qaPassed>>
        /\ \A q \in Products \ {p} : product'[q] = product[q]
        /\ product'[p].state = "ECONOMICS_APPROVED" /\ product'[p].lastQa = product[p].lastQa
    BY <1>0, <1>3, SetTypes DEF AdmitNext, FactoryTypes, ProductFields
  <2>2. /\ opportunity[p] = "CANDIDATE" /\ opportunity'[p] = "ECONOMICS_APPROVED"
        /\ \A q \in Products \ {p} : opportunity'[q] = opportunity[q] /\ plan'[q] = plan[q]
    BY <1>0, <1>3 DEF AdmitNext, FactoryTypes
  <2> QED BY <2>1, <2>2 DEF FactoryInv, ProductInv, Publishable, RunBilled
<1>4. ASSUME NEW c \in Cycles, MarkQueued(c) \/ \E p \in Products : BlockNext(c, p)
      PROVE  FactoryInv'
  <2>1. /\ FactoryTypes' /\ UNCHANGED <<product, calls, runs, qaPassed>>
    BY <1>0, <1>4 DEF MarkQueued, BlockNext, FactoryTypes
  <2>2. \A q \in Products : /\ opportunity'[q] \in {opportunity[q], "QUEUED", "BLOCKED"}
                            /\ plan'[q] = plan[q] \/ (plan[q] = "READY" /\ opportunity'[q] = "QUEUED")
    BY <1>0, <1>4 DEF MarkQueued, BlockNext, FactoryTypes
  <2> QED BY <2>1, <2>2 DEF FactoryInv, ProductInv, Publishable, RunBilled
<1>5. ASSUME NEW p \in Products, StartWork(p)
      PROVE  FactoryInv'
  <2>1. FactoryTypes'
    BY <1>0, <1>5 DEF StartWork, FactoryTypes
  <2>2. /\ UNCHANGED <<product, calls, qaPassed>>
        /\ plan[p] \notin {"NONE", "QA_PASSED"}
        /\ opportunity'[p] \in {opportunity[p], "EXECUTING"}
        /\ \A q \in Products \ {p} : /\ opportunity'[q] = opportunity[q] /\ plan'[q] = plan[q]
                                     /\ runs'[q] = runs[q]
    BY <1>0, <1>5 DEF StartWork, FactoryTypes
  <2> QED BY <2>1, <2>2 DEF FactoryInv, ProductInv, Publishable, RunBilled
<1>6. ASSUME NEW p \in Products, CallGenX(p) \/ FailWork(p)
      PROVE  FactoryInv'
  <2>1. Append(calls[p], [run |-> runs[p], known |-> FALSE]) \in Seq([run : Nat, known : BOOLEAN])
    BY <1>0 DEF FactoryTypes
  <2>2. FactoryTypes'
    BY <1>0, <1>6, <2>1 DEF CallGenX, FailWork, FactoryTypes
  <2>3. /\ UNCHANGED <<product, opportunity, runs, qaPassed>>
        /\ plan[p] = "EXECUTING"
        /\ \A q \in Products \ {p} : plan'[q] = plan[q] /\ calls'[q] = calls[q]
    BY <1>0, <1>6 DEF CallGenX, FailWork, FactoryTypes
  <2> QED BY <2>2, <2>3 DEF FactoryInv, ProductInv, Publishable, RunBilled
<1>7. ASSUME NEW p \in Products, RecordPassed(p)
      PROVE  FactoryInv'
  <2>1. /\ FactoryTypes'
        /\ \A q \in Products \ {p} : product'[q] = product[q]
        /\ product'[p].state = IF RunBilled(p) THEN "READY_TO_PUBLISH" ELSE "PAUSED"
    BY <1>0, <1>7, SetTypes DEF RecordPassed, FactoryTypes, ProductFields
  <2>2. /\ plan'[p] = "QA_PASSED" /\ runs'[p] \in qaPassed'[p] /\ UNCHANGED <<runs, calls>>
        /\ opportunity'[p] \in {"COMPLETED", "BLOCKED"}
        /\ \A q \in Products \ {p} : /\ plan'[q] = plan[q] /\ qaPassed'[q] = qaPassed[q]
                                     /\ opportunity'[q] = opportunity[q]
    BY <1>0, <1>7 DEF RecordPassed, FactoryTypes
  <2> QED BY <2>1, <2>2 DEF FactoryInv, ProductInv, Publishable, RunBilled
<1>8. ASSUME NEW p \in Products, RecordRejected(p)
      PROVE  FactoryInv'
  <2>1. /\ FactoryTypes'
        /\ \A q \in Products \ {p} : product'[q] = product[q]
        /\ product'[p].state = "ECONOMICS_APPROVED" /\ product'[p].lastQa = FALSE
    BY <1>0, <1>8, SetTypes DEF RecordRejected, FactoryTypes, ProductFields
  <2>2. /\ UNCHANGED <<runs, calls, qaPassed>>
        /\ opportunity'[p] = "BLOCKED"
        /\ \A q \in Products \ {p} : plan'[q] = plan[q] /\ opportunity'[q] = opportunity[q]
    BY <1>0, <1>8 DEF RecordRejected, FactoryTypes
  <2> QED BY <2>1, <2>2 DEF FactoryInv, ProductInv, Publishable, RunBilled
<1>9. ASSUME NEW p \in Products, NEW i \in DOMAIN calls[p], NEW truth \in BOOLEAN,
             RefreshCostBasis(p, i, truth)
      PROVE  FactoryInv'
  <2>1. calls' = [calls EXCEPT ![p] = [calls[p] EXCEPT ![i] = [calls[p][i] EXCEPT !.known = truth]]]
    BY <1>0, <1>9 DEF RefreshCostBasis, FactoryTypes
  <2>2. calls[p] \in Seq([run : Nat, known : BOOLEAN])
    BY <1>0 DEF FactoryTypes
  <2>3. calls[p][i] \in [run : Nat, known : BOOLEAN]
    <3>1. i \in 1..Len(calls[p])
      BY <1>9, <2>2
    <3> QED BY <2>2, <3>1, ElementOfSeq
  <2>4. [calls[p][i] EXCEPT !.known = truth] \in [run : Nat, known : BOOLEAN]
    BY <2>3
  <2>5. [calls[p] EXCEPT ![i] = [calls[p][i] EXCEPT !.known = truth]] \in Seq([run : Nat, known : BOOLEAN])
    BY <2>2, <2>4
  <2>6. /\ calls' \in [Products -> Seq([run : Nat, known : BOOLEAN])]
        /\ \A q \in Products \ {p} : calls'[q] = calls[q]
        /\ DOMAIN calls'[p] = DOMAIN calls[p]
        /\ \A n \in DOMAIN calls[p] \ {i} : calls'[p][n] = calls[p][n]
        /\ calls'[p][i].run = calls[p][i].run
    BY <1>0, <2>1, <2>3, <2>5 DEF FactoryTypes
  <2>7. /\ UNCHANGED <<opportunity, plan, runs, qaPassed>> /\ ~calls[p][i].known
        /\ \/ product'[p].state = "PAUSED"
           \/ /\ \A n \in DOMAIN calls'[p] : calls'[p][n].known
              /\ \/ product'[p].state = "READY_TO_PUBLISH" /\ product[p].lastQa
                 \/ product'[p].state = product[p].state
        /\ product'[p].lastQa = product[p].lastQa
        /\ DOMAIN product' = Products
        /\ \A q \in Products : DOMAIN product'[q] = ProductFields
        /\ \A q \in Products \ {p} : product'[q] = product[q]
    <3> DEFINE resolved == \A n \in DOMAIN calls'[p] : calls'[p][n].known
    <3>1. CASE ~resolved
      <4>1. Set(p, [state |-> "PAUSED", reason |-> Unresolved, resolved |-> FALSE])
        BY <1>9, <3>1 DEF RefreshCostBasis
      <4> QED BY <1>0, <1>9, <4>1 DEF RefreshCostBasis, Set, FactoryTypes, ProductFields
    <3>2. CASE resolved /\ product[p].reason = Unresolved
      <4>1. Set(p, [state |-> IF WasAccepted(p) THEN "READY_TO_PUBLISH" ELSE product[p].state,
                    reason |-> "", resolved |-> TRUE])
        BY <1>9, <3>2 DEF RefreshCostBasis
      <4> QED BY <1>0, <1>9, <3>2, <4>1 DEF RefreshCostBasis, Set, FactoryTypes, ProductFields, WasAccepted
    <3>3. CASE resolved /\ product[p].reason # Unresolved
      <4>1. Set(p, [resolved |-> TRUE])
        BY <1>9, <3>3 DEF RefreshCostBasis
      <4> QED BY <1>0, <1>9, <3>3, <4>1, SetTypes DEF RefreshCostBasis, ProductFields
    <3> QED BY <3>1, <3>2, <3>3
  <2>8. FactoryTypes'
    BY <1>0, <2>6, <2>7 DEF FactoryTypes
  <2>9. ProductInv(p)'
    BY <2>6, <2>7 DEF FactoryInv, ProductInv, Publishable, RunBilled
  <2>10. ASSUME NEW q \in Products \ {p} PROVE ProductInv(q)'
    BY <2>6, <2>7, OthersKeep
  <2> QED BY <2>8, <2>9, <2>10 DEF FactoryInv
<1>10. ASSUME NEW p \in Products, RecordPublication(p) \/ RecordSale(p) \/ RecordRefund(p) \/ RecordPayout(p)
       PROVE  FactoryInv'
  <2>1. /\ UNCHANGED <<opportunity, plan, calls, runs, qaPassed>>
        /\ DOMAIN product' = Products
        /\ \A q \in Products : DOMAIN product'[q] = ProductFields
        /\ \A q \in Products \ {p} : product'[q] = product[q]
        /\ product'[p].state = product[p].state \/ Publishable(p)
        /\ product'[p].lastQa = product[p].lastQa
    BY <1>0, <1>10, SetTypes DEF RecordPublication, RecordSale, RecordRefund, RecordPayout, ProductFields
  <2> QED BY <2>1 DEF FactoryInv, FactoryTypes, ProductInv, Publishable, RunBilled
<1>11. ASSUME UNCHANGED <<product, opportunity, plan, calls, runs, qaPassed>>
       PROVE  FactoryInv'
  BY <1>11 DEF FactoryInv, FactoryTypes, ProductInv, Publishable, RunBilled
<1> QED BY <1>1, <1>2, <1>3, <1>4, <1>5, <1>6, <1>7, <1>8, <1>9, <1>10, <1>11
     DEF FactoryNext, CycleStep, ProductStep, TakeApproved, CountActive, EndCycle

(* What may be published came out of a run that passed QA and is fully     *)
(* billed: record_internal_execution_outcome and                           *)
(* refresh_product_cost_basis_for_job of product_factory.py.               *)
THEOREM PublishableProven == FactorySpec => []PublishableIsProven
<1>1. FactoryInit => FactoryInv
  <2> SUFFICES ASSUME FactoryInit PROVE FactoryInv
    OBVIOUS
  <2>1. DOMAIN NoProduct = ProductFields /\ NoProduct.state = "NONE" /\ NoProduct.lastQa = FALSE
    BY DEF NoProduct, ProductFields
  <2>2. FactoryTypes
    BY <2>1 DEF FactoryInit, FactoryTypes, All
  <2>3. ASSUME NEW p \in Products PROVE ProductInv(p)
    BY <2>1 DEF FactoryInit, ProductInv, Publishable, All
  <2> QED BY <2>2, <2>3 DEF FactoryInv
<1>2. FactoryInv /\ [FactoryNext]_factoryVars => FactoryInv'
  <2> SUFFICES ASSUME FactoryInv, UNCHANGED factoryVars PROVE FactoryInv'
    BY FactoryInvKept
  <2> QED BY DEF factoryVars, FactoryInv, FactoryTypes, ProductInv, Publishable, RunBilled
<1>3. FactoryInv => PublishableIsProven
  BY DEF FactoryInv, ProductInv, PublishableIsProven, RunBilled
<1> QED BY <1>1, <1>2, <1>3, PTL DEF FactorySpec

-----------------------------------------------------------------------------
(* The AgentGigs webhooks.                                                 *)

OpenJob == {"EXPECTED", "AWARDED", "EXECUTING", "SUBMITTED"}
JobStates == OpenJob \cup {"FAILED", "ACCEPTED", "PAYOUT_PENDING", "SETTLED", "NONE"}
WorkerPlaces == {"idle", "sync", "award", "deliver", "handle", "reopen", "earn", "earned", "pend",
                 "settle", "done", "raised"}
WorkerRow == [at : WorkerPlaces, event : Events \cup {NoEvent}, seen : JobStates]
EventCounts ==
    /\ attempts \in [Events -> Nat]
    /\ inbox \in [Events -> {"NONE", "RECEIVED", "PROCESSING", "PROCESSED", "FAILED"}]

(* Where the handler of which event may be.                                *)
HandlerOf(w) ==
    /\ worker[w].at \in {"sync", "award", "deliver"} => worker[w].event = NoEvent
    /\ worker[w].at = "reopen" => worker[w].event = "job.revision_requested"
    /\ worker[w].at \in {"earn", "pend"} => worker[w].event \in {"job.approved", "payment.released"}
    /\ worker[w].at \in {"earned", "settle"} => worker[w].event = "payment.released"

WebhookTypes ==
    /\ jobRow \in JobStates
    /\ worker \in [Workers -> WorkerRow]
    /\ EventCounts
    /\ \A w \in Workers : HandlerOf(w)

LEMMA StepTypes ==
    ASSUME WebhookTypes, NEW w \in Workers, NEW at \in WorkerPlaces, Step(w, at)
    PROVE  /\ worker' \in [Workers -> WorkerRow]
           /\ worker'[w].at = at /\ worker'[w].event = worker[w].event
           /\ \A v \in Workers \ {w} : worker'[v] = worker[v]
<1>1. worker[w] \in WorkerRow /\ "NONE" \in JobStates
  BY DEF WebhookTypes, JobStates
<1>2. [worker[w] EXCEPT !.at = at, !.seen = "NONE"] \in WorkerRow
  BY <1>1 DEF WorkerRow
<1>3. worker' = [worker EXCEPT ![w] = [worker[w] EXCEPT !.at = at, !.seen = "NONE"]]
  BY DEF Step, WebhookTypes
<1>4. /\ [worker[w] EXCEPT !.at = at, !.seen = "NONE"].at = at
      /\ [worker[w] EXCEPT !.at = at, !.seen = "NONE"].event = worker[w].event
  BY <1>1 DEF WorkerRow
<1> QED BY <1>2, <1>3, <1>4 DEF WebhookTypes

LEMMA CloseTypes ==
    ASSUME WebhookTypes, NEW w \in Workers, NEW at \in {"done", "raised"}, Close(w, at)
    PROVE  /\ worker' \in [Workers -> WorkerRow]
           /\ IF worker[w].event = NoEvent THEN worker'[w] = FreeWorker
              ELSE worker'[w].at = at /\ worker'[w].event = worker[w].event
           /\ \A v \in Workers \ {w} : worker'[v] = worker[v]
<1>1. FreeWorker \in WorkerRow
  BY DEF FreeWorker, WorkerRow, WorkerPlaces, JobStates
<1>2. at \in WorkerPlaces
  BY DEF WorkerPlaces
<1>3. CASE worker[w].event = NoEvent
  BY <1>1, <1>3 DEF Close, WebhookTypes
<1>4. CASE worker[w].event # NoEvent
  BY <1>2, <1>4, StepTypes DEF Close
<1> QED BY <1>3, <1>4

LEMMA WebhookTypesInitially == WebhookInit => WebhookTypes
<1> SUFFICES ASSUME WebhookInit PROVE WebhookTypes
  OBVIOUS
<1>1. FreeWorker \in WorkerRow /\ FreeWorker.at = "idle" /\ FreeWorker.event = NoEvent
  BY DEF FreeWorker, WorkerRow, WorkerPlaces, JobStates
<1> QED BY <1>1 DEF WebhookInit, WebhookTypes, EventCounts, HandlerOf, JobStates, OpenJob

LEMMA WebhookTypesKept == WebhookTypes /\ WebhookNext => WebhookTypes'
<1> SUFFICES ASSUME WebhookTypes, WebhookNext PROVE WebhookTypes'
  OBVIOUS
<1> USE DEF HandlerOf
<1>1. FreeWorker \in WorkerRow /\ FreeWorker.at = "idle" /\ FreeWorker.event = NoEvent
  BY DEF FreeWorker, WorkerRow, WorkerPlaces, JobStates
<1>2. ASSUME NEW w \in Workers, ListActiveJob(w)
      PROVE  WebhookTypes'
  <2>1. [FreeWorker EXCEPT !.at = "sync", !.seen = jobRow] \in WorkerRow
    BY <1>1 DEF WorkerRow, WorkerPlaces, WebhookTypes
  <2>2. worker' = [worker EXCEPT ![w] = [FreeWorker EXCEPT !.at = "sync", !.seen = jobRow]]
    BY <1>2 DEF ListActiveJob, WebhookTypes
  <2>3. /\ [FreeWorker EXCEPT !.at = "sync", !.seen = jobRow].at = "sync"
        /\ [FreeWorker EXCEPT !.at = "sync", !.seen = jobRow].event = NoEvent
    BY DEF FreeWorker
  <2> QED BY <1>2, <2>1, <2>2, <2>3 DEF ListActiveJob, WebhookTypes, EventCounts
<1>3. ASSUME NEW w \in Workers, NEW e \in Events, ClaimWebhookEvent(w, e)
      PROVE  WebhookTypes'
  <2>1. [FreeWorker EXCEPT !.at = "handle", !.event = e, !.seen = jobRow] \in WorkerRow
    BY <1>1 DEF WorkerRow, WorkerPlaces, WebhookTypes
  <2>2. [FreeWorker EXCEPT !.at = "handle", !.event = e, !.seen = jobRow].at = "handle"
    BY DEF FreeWorker
  <2>3. worker' \in [Workers -> WorkerRow] /\ \A v \in Workers : HandlerOf(v)'
    BY <1>3, <2>1, <2>2 DEF ClaimWebhookEvent, WebhookTypes
  <2>4. EventCounts'
    BY <1>3 DEF ClaimWebhookEvent, WebhookTypes, EventCounts
  <2> QED BY <1>3, <2>3, <2>4 DEF ClaimWebhookEvent, WebhookTypes
<1>4. ASSUME NEW w \in Workers,
             GetStatus(w) \/ AwardJob(w) \/ RecognizeDelivery(w) \/ CreateRevision(w)
             \/ ReopenJob(w) \/ EarnPayout(w) \/ RefreshEarned(w) \/ PendPayout(w)
             \/ SettlePayout(w) \/ FailCall(w)
             \/ \E priced \in BOOLEAN : AcceptApproved(w, priced) \/ AcceptRelease(w, priced)
      PROVE  WebhookTypes'
  <2>1. UNCHANGED <<inbox, attempts>>
    BY <1>4 DEF GetStatus, AwardJob, RecognizeDelivery, CreateRevision, ReopenJob, EarnPayout,
                RefreshEarned, PendPayout, SettlePayout, FailCall, AcceptApproved, AcceptRelease
  <2>2. jobRow' \in JobStates
    BY <1>4 DEF GetStatus, AwardJob, RecognizeDelivery, CreateRevision, ReopenJob, EarnPayout,
                RefreshEarned, PendPayout, SettlePayout, FailCall, AcceptApproved, AcceptRelease,
                WebhookTypes, TransitionJob, JobStates, OpenJob
  <2>3. \/ Close(w, "done") \/ Close(w, "raised")
        \/ Step(w, "award") /\ worker[w].event = NoEvent
        \/ Step(w, "deliver") /\ worker[w].event = NoEvent
        \/ Step(w, "reopen") /\ worker[w].event = "job.revision_requested"
        \/ Step(w, "earn") /\ worker[w].event \in {"job.approved", "payment.released"}
        \/ Step(w, "pend") /\ worker[w].event \in {"job.approved", "payment.released"}
        \/ Step(w, "earned") /\ worker[w].event = "payment.released"
        \/ Step(w, "settle") /\ worker[w].event = "payment.released"
    BY <1>4 DEF GetStatus, AwardJob, RecognizeDelivery, CreateRevision, ReopenJob, EarnPayout,
                RefreshEarned, PendPayout, SettlePayout, FailCall, AcceptApproved, AcceptRelease,
                WebhookTypes, TransitionJob, Done, Raise, Reconcile, In
  <2>4. worker' \in [Workers -> WorkerRow] /\ \A v \in Workers : HandlerOf(v)'
    BY <1>1, <2>3, StepTypes, CloseTypes DEF WebhookTypes, WorkerPlaces
  <2> QED BY <2>1, <2>2, <2>4 DEF WebhookTypes, EventCounts
<1>5. ASSUME NEW w \in Workers, FinishWebhookEvent(w) \/ WorkerDies(w)
      PROVE  WebhookTypes'
  <2>1. worker' \in [Workers -> WorkerRow] /\ \A v \in Workers : HandlerOf(v)'
    BY <1>1, <1>5 DEF FinishWebhookEvent, WorkerDies, WebhookTypes
  <2>2. EventCounts' /\ jobRow' \in JobStates
    BY <1>5 DEF FinishWebhookEvent, WorkerDies, WebhookTypes, EventCounts, Outcome
  <2> QED BY <2>1, <2>2 DEF WebhookTypes
<1>6. ASSUME NEW e \in Events, ReceiveWebhook(e) \/ ReturnStaleEvent(e)
      PROVE  WebhookTypes'
  BY <1>6 DEF ReceiveWebhook, ReturnStaleEvent, WebhookTypes, EventCounts
<1>7. OurWork \/ (\E f \in Events \cup {"funded"} : BuyerActs(f)) => WebhookTypes'
  BY DEF OurWork, BuyerActs, WorkOnJob, PostWork, RecordSubmission, WebhookTypes, EventCounts,
         JobStates, OpenJob
<1> QED BY <1>2, <1>3, <1>4, <1>5, <1>6, <1>7 DEF WebhookNext, WorkerStep

(* What MoneyEventsAccounted asks when the event is processed holds from   *)
(* the moment its handler is done, by whichever worker, and stays.         *)
Accounted(e) ==
    /\ e = "job.approved" => payoutRow \in {"PAYOUT_PENDING", "SETTLED"} \/ e \in alerts
    /\ e = "payment.released" => payoutRow = "SETTLED" \/ e \in alerts

WebhookInv ==
    /\ WebhookTypes
    /\ \A e \in Events : attempts[e] > 0 \/ inbox[e] # "NONE" => e \in happened
    /\ \A w \in Workers : worker[w].event # NoEvent => worker[w].event \in happened
    /\ \A w \in Workers : worker[w].at \in {"done", "raised"} => worker[w].event # NoEvent
    /\ \A w \in Workers : worker[w].at = "done" => Accounted(worker[w].event)
    /\ \A e \in Events : inbox[e] = "PROCESSED" => Accounted(e)
    /\ payoutRow = "SETTLED" => "payment.released" \in happened

(* A worker that takes a step of its own: what its handler, if it is done  *)
(* with it, has to show.                                                   *)
LEMMA HandlerKeeps ==
    ASSUME WebhookInv, WebhookTypes', NEW w \in Workers,
           UNCHANGED <<inbox, attempts, happened>>,
           alerts \subseteq alerts',
           payoutRow \in {"PAYOUT_PENDING", "SETTLED"} => payoutRow' \in {"PAYOUT_PENDING", "SETTLED"},
           payoutRow = "SETTLED" => payoutRow' = "SETTLED",
           payoutRow' = "SETTLED" => payoutRow = "SETTLED" \/ worker[w].event = "payment.released",
           \/ \E at \in WorkerPlaces \ {"done", "raised"} : Step(w, at)
           \/ Done(w) /\ (worker[w].event # NoEvent => Accounted(worker[w].event)')
           \/ Raise(w)
    PROVE  WebhookInv'
<1>1. NoEvent \notin {"payment.released"}
  BY EventAssumption DEF Events
<1>2. \A e \in Events : attempts'[e] > 0 \/ inbox'[e] # "NONE" => e \in happened'
  BY DEF WebhookInv
<1>3. /\ \A v \in Workers : worker'[v].event # NoEvent => worker'[v].event \in happened'
      /\ \A v \in Workers : worker'[v].at \in {"done", "raised"} => worker'[v].event # NoEvent
      /\ \A v \in Workers : worker'[v].at = "done" => Accounted(worker[v].event)'
  <2>1. /\ \A v \in Workers \ {w} : worker'[v] = worker[v]
        /\ \/ worker'[w] = FreeWorker
           \/ worker'[w].event = worker[w].event /\ worker'[w].at \notin {"done", "raised"}
           \/ worker'[w].event = worker[w].event /\ worker[w].event # NoEvent
              /\ (worker'[w].at = "done" => Accounted(worker[w].event)')
    <3>1. CASE \E at \in WorkerPlaces \ {"done", "raised"} : Step(w, at)
      <4>1. PICK at \in WorkerPlaces \ {"done", "raised"} : Step(w, at)
        BY <3>1
      <4> QED BY <4>1, StepTypes DEF WebhookInv
    <3>2. CASE Done(w) /\ (worker[w].event # NoEvent => Accounted(worker[w].event)')
      BY <3>2, CloseTypes DEF WebhookInv, Done
    <3>3. CASE Raise(w)
      BY <3>3, CloseTypes DEF WebhookInv, Raise
    <3> QED BY <3>1, <3>2, <3>3
  <2>2. FreeWorker.event = NoEvent /\ FreeWorker.at = "idle"
    BY DEF FreeWorker
  <2>3. \A v \in Workers \ {w} : worker'[v].at = "done" => Accounted(worker[v].event)'
    BY <2>1 DEF WebhookInv, Accounted
  <2> QED BY <2>1, <2>2, <2>3 DEF WebhookInv
<1>4. \A e \in Events : inbox'[e] = "PROCESSED" => Accounted(e)'
  BY DEF WebhookInv, Accounted
<1>5. payoutRow' = "SETTLED" => "payment.released" \in happened'
  BY <1>1 DEF WebhookInv
<1> QED BY <1>2, <1>3, <1>4, <1>5 DEF WebhookInv

LEMMA WebhookInvInitially == WebhookInit => WebhookInv
<1> SUFFICES ASSUME WebhookInit PROVE WebhookInv
  OBVIOUS
<1>1. FreeWorker.at = "idle" /\ FreeWorker.event = NoEvent
  BY DEF FreeWorker
<1> QED BY <1>1, WebhookTypesInitially DEF WebhookInit, WebhookInv

LEMMA WebhookInvKept == WebhookInv /\ WebhookNext => WebhookInv'
<1> SUFFICES ASSUME WebhookInv, WebhookNext PROVE WebhookInv'
  OBVIOUS
<1>0. WebhookTypes /\ WebhookTypes'
  BY WebhookTypesKept DEF WebhookInv
<1>1. ASSUME NEW w \in Workers,
             GetStatus(w) \/ AwardJob(w) \/ RecognizeDelivery(w) \/ CreateRevision(w)
             \/ ReopenJob(w) \/ FailCall(w)
      PROVE  WebhookInv'
  <2>1. UNCHANGED <<inbox, attempts, happened, alerts, payoutRow>>
    BY <1>1 DEF GetStatus, AwardJob, RecognizeDelivery, CreateRevision, ReopenJob, FailCall
  <2>2. \/ Step(w, "award") \/ Step(w, "deliver") \/ Step(w, "reopen") \/ Raise(w)
        \/ Done(w) /\ worker[w].event \in {NoEvent, "job.revision_requested"}
    BY <1>0, <1>1 DEF GetStatus, AwardJob, RecognizeDelivery, CreateRevision, ReopenJob, FailCall,
                      TransitionJob, In, WebhookTypes, HandlerOf
  <2>3. Done(w) => worker'[w].event = NoEvent \/ worker'[w].event = worker[w].event
    BY <1>0, CloseTypes DEF Done, FreeWorker
  <2>4. Done(w) /\ worker[w].event \in {NoEvent, "job.revision_requested"}
          => (worker[w].event # NoEvent => Accounted(worker[w].event)')
    BY <1>0, CloseTypes DEF Done, Accounted
  <2> QED BY <1>0, <2>1, <2>2, <2>4, HandlerKeeps DEF WorkerPlaces
<1>2. ASSUME NEW w \in Workers, NEW priced \in BOOLEAN, AcceptApproved(w, priced)
      PROVE  WebhookInv'
  <2>1. /\ UNCHANGED <<inbox, attempts, happened, payoutRow>> /\ alerts \subseteq alerts'
        /\ worker[w].event = "job.approved" /\ worker[w].event # NoEvent
    BY <1>2, EventAssumption DEF AcceptApproved, In, Events
  <2>2. Step(w, "earn") \/ Done(w) \/ Raise(w)
    BY <1>2 DEF AcceptApproved, TransitionJob
  <2>3. Done(w) => worker'[w].at = "done" /\ worker'[w].event = "job.approved"
    BY <1>0, <2>1, CloseTypes DEF Done
  <2>4. Done(w) => Accounted(worker[w].event)'
    BY <1>2, <2>3 DEF AcceptApproved, Accounted
  <2> QED BY <1>0, <2>1, <2>2, <2>4, HandlerKeeps DEF WorkerPlaces
<1>3. ASSUME NEW w \in Workers,
             RefreshEarned(w) \/ \E priced \in BOOLEAN : AcceptRelease(w, priced)
      PROVE  WebhookInv'
  <2>1. /\ UNCHANGED <<inbox, attempts, happened, payoutRow>> /\ alerts \subseteq alerts'
        /\ worker[w].event = "payment.released" /\ worker[w].event # NoEvent
    BY <1>0, <1>3, EventAssumption
       DEF RefreshEarned, AcceptRelease, Reconcile, In, Events, WebhookTypes, HandlerOf
  <2>2. \/ Step(w, "earn") \/ Step(w, "pend") \/ Step(w, "settle")
        \/ Done(w) /\ worker[w].event \in alerts'
    BY <1>3 DEF RefreshEarned, AcceptRelease, Reconcile
  <2>3. Done(w) => worker'[w].event = "payment.released"
    BY <1>0, <2>1, CloseTypes DEF Done
  <2>4. Done(w) /\ worker[w].event \in alerts' => Accounted(worker[w].event)'
    BY <2>1, <2>3 DEF Accounted
  <2> QED BY <1>0, <2>1, <2>2, <2>4, HandlerKeeps DEF WorkerPlaces
<1>4. ASSUME NEW w \in Workers, EarnPayout(w) \/ PendPayout(w) \/ SettlePayout(w)
      PROVE  WebhookInv'
  <2>1. /\ UNCHANGED <<inbox, attempts, happened, alerts>>
        /\ worker[w].event \in {"job.approved", "payment.released"} /\ worker[w].event # NoEvent
    BY <1>0, <1>4, EventAssumption
       DEF EarnPayout, PendPayout, SettlePayout, Events, WebhookTypes, HandlerOf
  <2>2. /\ payoutRow \in {"PAYOUT_PENDING", "SETTLED"} => payoutRow' \in {"PAYOUT_PENDING", "SETTLED"}
        /\ payoutRow = "SETTLED" => payoutRow' = "SETTLED"
        /\ payoutRow' = "SETTLED" => payoutRow = "SETTLED" \/ worker[w].event = "payment.released"
    BY <1>0, <1>4 DEF EarnPayout, PendPayout, SettlePayout, WebhookTypes, HandlerOf
  <2>3. \/ Step(w, "pend") \/ Step(w, "earned") \/ Step(w, "settle") \/ Raise(w)
        \/ Done(w) /\ (\/ worker[w].event = "job.approved" /\ payoutRow' = "PAYOUT_PENDING"
                       \/ payoutRow' = "SETTLED")
    BY <1>4 DEF EarnPayout, PendPayout, SettlePayout
  <2>4. Done(w) => worker'[w].event = worker[w].event
    BY <1>0, <2>1, CloseTypes DEF Done
  <2>5. Done(w) /\ (\/ worker[w].event = "job.approved" /\ payoutRow' = "PAYOUT_PENDING"
                   \/ payoutRow' = "SETTLED") => Accounted(worker[w].event)'
    BY <2>4 DEF Accounted
  <2> QED BY <1>0, <2>1, <2>2, <2>3, <2>5, HandlerKeeps DEF WorkerPlaces
<1>5. ASSUME NEW w \in Workers, ListActiveJob(w) \/ WorkerDies(w)
      PROVE  WebhookInv'
  <2>1. UNCHANGED <<inbox, attempts, happened, alerts, payoutRow>>
    BY <1>5 DEF ListActiveJob, WorkerDies
  <2>2. /\ worker'[w].event = NoEvent /\ worker'[w].at \in {"idle", "sync"}
        /\ \A v \in Workers \ {w} : worker'[v] = worker[v]
    BY <1>0, <1>5 DEF ListActiveJob, WorkerDies, FreeWorker, WebhookTypes
  <2> QED BY <1>0, <2>1, <2>2 DEF WebhookInv, Accounted
<1>6. ASSUME NEW w \in Workers, NEW e \in Events, ClaimWebhookEvent(w, e)
      PROVE  WebhookInv'
  <2>1. e \in happened
    BY <1>6 DEF ClaimWebhookEvent, WebhookInv
  <2>2. /\ worker'[w].event = e /\ worker'[w].at = "handle"
        /\ \A v \in Workers \ {w} : worker'[v] = worker[v]
    BY <1>0, <1>6 DEF ClaimWebhookEvent, FreeWorker, WebhookTypes
  <2>3. /\ \A d \in Events : inbox'[d] = IF d = e THEN "PROCESSING" ELSE inbox[d]
        /\ \A d \in Events \ {e} : attempts'[d] = attempts[d]
        /\ UNCHANGED <<happened, alerts, payoutRow>>
    BY <1>0, <1>6 DEF ClaimWebhookEvent, WebhookTypes, EventCounts
  <2> QED BY <1>0, <2>1, <2>2, <2>3 DEF WebhookInv, Accounted
<1>7. ASSUME NEW w \in Workers, FinishWebhookEvent(w)
      PROVE  WebhookInv'
  <2>1. /\ worker'[w].event = NoEvent /\ worker'[w].at = "idle"
        /\ \A v \in Workers \ {w} : worker'[v] = worker[v]
    BY <1>0, <1>7 DEF FinishWebhookEvent, FreeWorker, WebhookTypes
  <2>2. worker[w].event \in Events /\ worker[w].event \in happened
    <3>1. worker[w] \in WorkerRow /\ worker[w].event # NoEvent
      BY <1>0, <1>7 DEF FinishWebhookEvent, WebhookTypes, WebhookInv
    <3> QED BY <3>1 DEF WebhookInv, WorkerRow
  <2>3. /\ \A d \in Events : inbox'[d] = IF d = worker[w].event THEN Outcome(w) ELSE inbox[d]
        /\ UNCHANGED <<attempts, happened, alerts, payoutRow>>
    BY <1>0, <1>7 DEF FinishWebhookEvent, WebhookTypes, EventCounts
  <2>4. Outcome(w) = "PROCESSED" => Accounted(worker[w].event)
    BY DEF Outcome, WebhookInv
  <2> QED BY <1>0, <2>1, <2>2, <2>3, <2>4 DEF WebhookInv, Accounted
<1>8. ASSUME NEW e \in Events, ReceiveWebhook(e) \/ ReturnStaleEvent(e)
      PROVE  WebhookInv'
  <2>1. e \in happened
    BY <1>8 DEF ReceiveWebhook, ReturnStaleEvent, WebhookInv
  <2>2. /\ \A d \in Events : inbox'[d] = inbox[d] \/ (d = e /\ inbox'[d] # "PROCESSED")
        /\ UNCHANGED <<attempts, happened, alerts, payoutRow, worker>>
    BY <1>0, <1>8 DEF ReceiveWebhook, ReturnStaleEvent, WebhookTypes, EventCounts
  <2> QED BY <1>0, <2>1, <2>2 DEF WebhookInv, Accounted
<1>9. ASSUME OurWork \/ \E f \in Events \cup {"funded"} : BuyerActs(f)
      PROVE  WebhookInv'
  <2>1. happened \subseteq happened' /\ UNCHANGED <<inbox, attempts, worker, payoutRow, alerts>>
    BY <1>9 DEF OurWork, WorkOnJob, PostWork, RecordSubmission, BuyerActs
  <2> QED BY <1>0, <2>1 DEF WebhookInv, Accounted
<1> QED BY <1>1, <1>2, <1>3, <1>4, <1>5, <1>6, <1>7, <1>8, <1>9 DEF WebhookNext, WorkerStep

(* What the market tells of money is not lost, and nothing counts as       *)
(* received before it was released, for any number of workers and attempts:*)
(* agentgigs.py.                                                           *)
THEOREM MoneyIsAccounted == WebhookSpec => []MoneyEventsAccounted
<1>1. WebhookInit => WebhookInv
  BY WebhookInvInitially
<1>2. WebhookInv /\ [WebhookNext]_webhookVars => WebhookInv'
  <2> SUFFICES ASSUME WebhookInv, UNCHANGED webhookVars PROVE WebhookInv'
    BY WebhookInvKept
  <2> QED BY DEF webhookVars, WebhookInv, WebhookTypes, EventCounts, HandlerOf, Accounted
<1>3. WebhookInv => MoneyEventsAccounted
  BY DEF WebhookInv, MoneyEventsAccounted, Accounted, Events
<1> QED BY <1>1, <1>2, <1>3, PTL DEF WebhookSpec

(* Work that is open has no money recorded for it: agentgigs.py with       *)
(* job_state.py, whatever row a handler works on.                          *)
THEOREM NoMoneyForOpenWork == WebhookSpec => []OpenWorkHasNoMoney
<1>1. WebhookInit => OpenWorkHasNoMoney
  BY DEF WebhookInit, OpenWorkHasNoMoney
<1>2. OpenWorkHasNoMoney /\ [WebhookNext]_webhookVars => OpenWorkHasNoMoney'
  <2> SUFFICES ASSUME OpenWorkHasNoMoney, [WebhookNext]_webhookVars PROVE OpenWorkHasNoMoney'
    OBVIOUS
  <2>1. CASE \E w \in Workers :
               \/ AwardJob(w) \/ RecognizeDelivery(w) \/ ReopenJob(w)
               \/ \E priced \in BOOLEAN : AcceptApproved(w, priced)
    BY <2>1 DEF AwardJob, RecognizeDelivery, ReopenJob, AcceptApproved, TransitionJob,
                AllowedTransition, OpenWorkHasNoMoney
  <2>2. CASE \E w \in Workers : EarnPayout(w) \/ PendPayout(w) \/ SettlePayout(w)
    BY <2>2 DEF EarnPayout, PendPayout, SettlePayout, OpenWorkHasNoMoney
  <2>3. CASE OurWork
    BY <2>3 DEF OurWork, WorkOnJob, PostWork, RecordSubmission, AllowedTransition, OpenWorkHasNoMoney
  <2>4. CASE UNCHANGED <<jobRow, payoutRow>>
    BY <2>4 DEF OpenWorkHasNoMoney
  <2> QED BY <2>1, <2>2, <2>3, <2>4
       DEF webhookVars, WebhookNext, WorkerStep, ListActiveJob, GetStatus, ClaimWebhookEvent,
           CreateRevision, AcceptRelease, RefreshEarned, FailCall, FinishWebhookEvent, WorkerDies,
           BuyerActs, ReceiveWebhook, ReturnStaleEvent
<1> QED BY <1>1, <1>2, PTL DEF WebhookSpec

-----------------------------------------------------------------------------
(* Acquisition.                                                            *)

WatcherPlaces == {"idle", "fetched", "listed", "gated", "locked", "checked", "posting", "answered",
                  "lost", "leaving", "ranked", "claiming"}
Attempted == [status : {"SUBMITTING", "SUBMITTED", "UNKNOWN_REMOTE_STATE", "CLAIMED", "PENDING",
                        "FUNDED", "REJECTED"}, known : BOOLEAN]
SeenStates == {"NONE", "REACHED", "DISCOVERED", "EXPECTED", "CLAIMED", "AWARDED", "SETTLED"}
WatcherRow == [at : WatcherPlaces, job : Jobs \cup {None}, seen : SeenStates, row : Nat,
               todo : SUBSET Jobs]

AcquisitionTypes ==
    /\ running \subseteq Watchers /\ shared \in BOOLEAN
    /\ path \in [Jobs -> {"APPLY", "BID", "CLAIM", "NONE"}]
    /\ state \in [Jobs -> SeenStates]
    /\ rows \in [Jobs -> Seq(Attempted)]
    /\ lock \in [Jobs -> Watchers \cup {None}] /\ rowlock \in [Jobs -> Watchers \cup {None}]
    /\ watcher \in [Watchers -> WatcherRow]
    /\ remote \in [Jobs -> {"NONE", "PENDING", "FUNDED", "REJECTED"}]
    /\ posts \in [Jobs -> Nat] /\ undone \in [Jobs -> Nat]

(* Only a watcher that runs does anything, and about jobs of its path.     *)
OnTrack(w) ==
    /\ watcher[w].at # "idle" => w \in running
    /\ watcher[w].at \notin {"idle", "ranked"} => watcher[w].job \in Jobs
    /\ watcher[w].at \in {"listed", "gated", "locked", "checked", "posting", "leaving"} =>
          path[Job(w)] \in {"APPLY", "BID"}
    /\ watcher[w].at = "claiming" => path[Job(w)] = "CLAIM"
    /\ watcher[w].at \in {"answered", "lost"} => path[Job(w)] # "NONE"
    /\ \/ watcher[w].at \in {"ranked", "claiming"}
       \/ watcher[w].at \in {"answered", "lost"} /\ path[Job(w)] = "CLAIM"
       => \A j \in watcher[w].todo : path[j] = "CLAIM"

AcquisitionTyped == AcquisitionTypes /\ \A w \in Watchers : OnTrack(w)

(* What a step makes of the watchers.                                      *)
LEMMA WatcherSet ==
    ASSUME AcquisitionTypes, NEW w \in Watchers, NEW x \in WatcherRow, watcher' = [watcher EXCEPT ![w] = x]
    PROVE  /\ watcher' \in [Watchers -> WatcherRow] /\ watcher'[w] = x
           /\ \A u \in Watchers \ {w} : watcher'[u] = watcher[u]
BY DEF AcquisitionTypes

LEMMA WatcherGoes ==
    ASSUME AcquisitionTypes, NEW w \in Watchers, NEW at \in WatcherPlaces, Goes(w, at)
    PROVE  /\ watcher' \in [Watchers -> WatcherRow]
           /\ watcher'[w] \in WatcherRow /\ watcher'[w].at = at /\ Job(w)' = Job(w)
           /\ watcher'[w].todo = watcher[w].todo /\ watcher'[w].seen = watcher[w].seen
           /\ \A u \in Watchers \ {w} : watcher'[u] = watcher[u]
<1>1. watcher[w] \in WatcherRow
  BY DEF AcquisitionTypes
<1>2. [watcher[w] EXCEPT !.at = at] \in WatcherRow
  BY <1>1 DEF WatcherRow
<1>3. watcher' = [watcher EXCEPT ![w] = [watcher[w] EXCEPT !.at = at]]
  BY DEF Goes
<1> QED BY <1>1, <1>2, <1>3, WatcherSet DEF WatcherRow, Job

LEMMA WatcherEnds ==
    ASSUME AcquisitionTypes, NEW w \in Watchers, Ends(w)
    PROVE  /\ watcher' \in [Watchers -> WatcherRow] /\ watcher'[w].at = "idle"
           /\ \A u \in Watchers \ {w} : watcher'[u] = watcher[u]
<1>1. Idle \in WatcherRow /\ Idle.at = "idle"
  BY DEF Idle, WatcherRow, WatcherPlaces, SeenStates
<1> QED BY <1>1, WatcherSet DEF Ends

LEMMA ElementSet ==
    ASSUME NEW S, NEW seq \in Seq(S), NEW i \in DOMAIN seq, NEW x \in S
    PROVE  [seq EXCEPT ![i] = x] \in Seq(S) /\ Len([seq EXCEPT ![i] = x]) = Len(seq) /\ Len(seq) # 0
<1>1. i \in 1..Len(seq)
  OBVIOUS
<1> QED BY <1>1

(* How the rows of a job change: never back to none.                       *)
LEMMA RowWritten ==
    ASSUME NEW seq \in Seq(Attempted), NEW i, NEW x, i \in DOMAIN seq => x \in Attempted
    PROVE  LET next == [seq EXCEPT ![i] = x]
           IN next \in Seq(Attempted) /\ (next = <<>> <=> seq = <<>>)
<1>1. CASE i \notin DOMAIN seq
  <2>1. [seq EXCEPT ![i] = x] = seq
    BY <1>1
  <2> QED BY <2>1
<1>2. CASE i \in DOMAIN seq
  <2>1. /\ [seq EXCEPT ![i] = x] \in Seq(Attempted)
        /\ Len([seq EXCEPT ![i] = x]) = Len(seq) /\ Len(seq) # 0
    BY <1>2, ElementSet
  <2> QED BY <2>1, EmptySeq
<1> QED BY <1>1, <1>2

LEMMA RowAdded ==
    ASSUME NEW seq \in Seq(Attempted), NEW x \in Attempted
    PROVE  Append(seq, x) \in Seq(Attempted) /\ Append(seq, x) # <<>>
<1>1. Append(seq, x) \in Seq(Attempted) /\ Len(Append(seq, x)) = Len(seq) + 1 /\ Len(seq) \in Nat
  BY AppendProperties
<1> QED BY <1>1, EmptySeq

LEMMA TrackFrame ==
    ASSUME AcquisitionTyped, NEW w \in Watchers, UNCHANGED <<running, shared, path>>,
           OnTrack(w)', \A u \in Watchers \ {w} : watcher'[u] = watcher[u]
    PROVE  \A u \in Watchers : OnTrack(u)'
BY DEF AcquisitionTyped, OnTrack, Job

(* A watcher's step that leaves the market and the database alone.         *)
LEMMA QuietWatcher ==
    ASSUME AcquisitionTyped, NEW w \in Watchers,
           UNCHANGED <<running, shared, path, state, rows, rowlock, remote, posts, undone>>,
           lock' \in [Jobs -> Watchers \cup {None}],
           watcher' \in [Watchers -> WatcherRow], OnTrack(w)',
           \A u \in Watchers \ {w} : watcher'[u] = watcher[u]
    PROVE  AcquisitionTyped'
<1>1. \A u \in Watchers : OnTrack(u)'
  BY TrackFrame
<1> QED BY <1>1 DEF AcquisitionTyped, AcquisitionTypes

LEMMA QuietWatcherTyped ==
    ASSUME AcquisitionTyped, NEW w \in Watchers,
           \/ (\E j \in Jobs : Fetch(w, j) \/ ListJob(w, j) \/ SkipClaim(w, j))
           \/ PassGates(w) \/ GiveUpJob(w) \/ AcquireLock(w) \/ EnsureNoActiveAttempt(w)
           \/ ReleaseLock(w) \/ \E chosen \in SUBSET Jobs : RankCandidates(w, chosen)
    PROVE  AcquisitionTyped'
<1>0. AcquisitionTypes /\ OnTrack(w) /\ watcher[w] \in WatcherRow
  BY DEF AcquisitionTyped, AcquisitionTypes
<1>1. UNCHANGED <<running, shared, path, state, rows, rowlock, remote, posts, undone>>
  BY DEF Fetch, ListJob, SkipClaim, PassGates, GiveUpJob, AcquireLock, EnsureNoActiveAttempt,
         ReleaseLock, RankCandidates
<1>2. lock' \in [Jobs -> Watchers \cup {None}]
  BY <1>0 DEF AcquisitionTypes, Fetch, ListJob, SkipClaim, PassGates, GiveUpJob, AcquireLock,
              EnsureNoActiveAttempt, ReleaseLock, RankCandidates
<1>3. Idle \in WatcherRow /\ Idle.at = "idle"
  BY DEF Idle, WatcherRow, WatcherPlaces, SeenStates
<1>4. ASSUME NEW j \in Jobs, Fetch(w, j)  PROVE AcquisitionTyped'
  <2> DEFINE x == [Idle EXCEPT !.at = "fetched", !.job = j, !.seen = state[j]]
  <2>1. x \in WatcherRow /\ x.at = "fetched" /\ x.job = j /\ state[j] \in SeenStates
    BY <1>0, <1>3 DEF WatcherRow, WatcherPlaces, AcquisitionTypes
  <2>2. watcher' = [watcher EXCEPT ![w] = x] /\ w \in running
    BY <1>4 DEF Fetch, At
  <2> HIDE DEF x
  <2>3. OnTrack(w)'
    BY <1>0, <1>1, <2>1, <2>2, WatcherSet DEF OnTrack, Job
  <2> QED BY <1>0, <1>1, <1>2, <2>1, <2>2, <2>3, WatcherSet, QuietWatcher
<1>5. ASSUME NEW j \in Jobs, ListJob(w, j)  PROVE AcquisitionTyped'
  <2> DEFINE x == [Idle EXCEPT !.at = "listed", !.job = j]
  <2>1. x \in WatcherRow /\ x.at = "listed" /\ x.job = j
    BY <1>0, <1>3 DEF WatcherRow, WatcherPlaces, AcquisitionTypes
  <2>2. watcher' = [watcher EXCEPT ![w] = x] /\ w \in running /\ path[j] \in {"APPLY", "BID"}
    BY <1>5 DEF ListJob, At
  <2> HIDE DEF x
  <2>3. OnTrack(w)'
    BY <1>0, <1>1, <2>1, <2>2, WatcherSet DEF OnTrack, Job
  <2> QED BY <1>0, <1>1, <1>2, <2>1, <2>2, <2>3, WatcherSet, QuietWatcher
<1>6. ASSUME NEW j \in Jobs, SkipClaim(w, j)  PROVE AcquisitionTyped'
  <2> DEFINE y == [watcher[w] EXCEPT !.todo = watcher[w].todo \ {j}]
             x == IF watcher[w].todo = {j} THEN Idle ELSE y
  <2>1. y \in WatcherRow /\ y.at = watcher[w].at /\ y.todo \subseteq watcher[w].todo
    BY <1>0 DEF WatcherRow
  <2>2. x \in WatcherRow /\ (x.at = "idle" \/ (x.at = "ranked" /\ x.todo \subseteq watcher[w].todo))
    BY <1>3, <1>6, <2>1 DEF SkipClaim, At
  <2>3. watcher' = [watcher EXCEPT ![w] = x] /\ w \in running /\ watcher[w].at = "ranked"
    BY <1>6 DEF SkipClaim, At
  <2> HIDE DEF x
  <2>4. OnTrack(w)'
    BY <1>0, <1>1, <2>2, <2>3, WatcherSet DEF OnTrack, Job
  <2> QED BY <1>0, <1>1, <1>2, <2>2, <2>3, <2>4, WatcherSet, QuietWatcher
<1>7. ASSUME NEW chosen \in SUBSET Jobs, RankCandidates(w, chosen)  PROVE AcquisitionTyped'
  <2> DEFINE x == [Idle EXCEPT !.at = "ranked", !.todo = chosen]
  <2>1. x \in WatcherRow /\ x.at = "ranked" /\ x.todo = chosen
    BY <1>3 DEF WatcherRow, WatcherPlaces, Idle
  <2>2. /\ watcher' = [watcher EXCEPT ![w] = x] /\ w \in running
        /\ \A j \in chosen : path[j] = "CLAIM"
    BY <1>7 DEF RankCandidates, At
  <2> HIDE DEF x
  <2>3. OnTrack(w)'
    BY <1>0, <1>1, <2>1, <2>2, WatcherSet DEF OnTrack, Job
  <2> QED BY <1>0, <1>1, <1>2, <2>1, <2>2, <2>3, WatcherSet, QuietWatcher
<1>8. CASE GiveUpJob(w) \/ ReleaseLock(w)
  <2>1. Ends(w)
    BY <1>8 DEF GiveUpJob, ReleaseLock
  <2>2. OnTrack(w)'
    BY <1>0, <2>1, WatcherEnds DEF OnTrack
  <2> QED BY <1>0, <1>1, <1>2, <2>1, <2>2, WatcherEnds, QuietWatcher
<1>9. CASE PassGates(w) \/ AcquireLock(w) \/ EnsureNoActiveAttempt(w)
  <2>1. PICK at \in {"gated", "locked", "leaving", "checked"} : Goes(w, at)
    BY <1>9 DEF PassGates, AcquireLock, EnsureNoActiveAttempt
  <2>2. watcher[w].at \in {"listed", "gated", "locked"} /\ w \in running /\ at \in WatcherPlaces
    BY <1>9 DEF PassGates, AcquireLock, EnsureNoActiveAttempt, At, WatcherPlaces
  <2>3. OnTrack(w)'
    BY <1>0, <1>1, <2>1, <2>2, WatcherGoes DEF OnTrack, Job
  <2> QED BY <1>0, <1>1, <1>2, <2>1, <2>2, <2>3, WatcherGoes, QuietWatcher
<1> QED BY <1>4, <1>5, <1>6, <1>7, <1>8, <1>9

LEMMA RecordWrites ==
    ASSUME AcquisitionTypes, NEW w \in Watchers, RecordAttempt(w)
    PROVE  /\ rows' \in [Jobs -> Seq(Attempted)]
           /\ \A j \in Jobs : rows'[j] = <<>> <=> rows[j] = <<>>
<1> DEFINE j == Job(w)
           i == watcher[w].row
           x == IF At(w, "answered") THEN [status |-> "SUBMITTED", known |-> TRUE]
                ELSE [rows[j][i] EXCEPT !.status = "UNKNOWN_REMOTE_STATE"]
<1>1. rows \in [Jobs -> Seq(Attempted)]
  BY DEF AcquisitionTypes
<1>2. rows' = [rows EXCEPT ![j] = [rows[j] EXCEPT ![i] = x]]
  BY DEF RecordAttempt
<1>3. CASE j \notin Jobs
  <2>1. rows' = rows
    BY <1>1, <1>2, <1>3
  <2> QED BY <1>1, <2>1
<1>4. CASE j \in Jobs
  <2>1. rows[j] \in Seq(Attempted)
    BY <1>1, <1>4
  <2>2. i \in DOMAIN rows[j] => x \in Attempted
    <3>1. i \in DOMAIN rows[j] => rows[j][i] \in Attempted
      BY <2>1
    <3> QED BY <3>1 DEF Attempted
  <2> HIDE DEF i, x, j
  <2>3. [rows[j] EXCEPT ![i] = x] \in Seq(Attempted) /\ ([rows[j] EXCEPT ![i] = x] = <<>> <=> rows[j] = <<>>)
    BY <2>1, <2>2, RowWritten
  <2> QED BY <1>1, <1>2, <1>4, <2>3
<1> QED BY <1>3, <1>4

LEMMA ReachesTypes ==
    ASSUME AcquisitionTypes, NEW j, Reaches(j)
    PROVE  /\ posts' \in [Jobs -> Nat] /\ remote' \in [Jobs -> {"NONE", "PENDING", "FUNDED", "REJECTED"}]
           /\ \A k \in Jobs : posts'[k] = IF k = j THEN posts[k] + 1 ELSE posts[k]
<1>1. posts \in [Jobs -> Nat] /\ posts' = [posts EXCEPT ![j] = posts[j] + 1]
  BY DEF AcquisitionTypes, Reaches
<1>2. PICK status \in {"PENDING", remote[j]} : remote' = [remote EXCEPT ![j] = status]
  BY DEF Reaches
<1>3. remote' \in [Jobs -> {"NONE", "PENDING", "FUNDED", "REJECTED"}]
  BY <1>2 DEF AcquisitionTypes
<1>4. CASE j \in Jobs
  <2>1. posts[j] + 1 \in Nat
    BY <1>1, <1>4
  <2> QED BY <1>1, <1>3, <1>4, <2>1
<1>5. CASE j \notin Jobs
  <2>1. posts' = posts
    BY <1>1, <1>5
  <2> QED BY <1>1, <1>3, <1>5, <2>1
<1> QED BY <1>4, <1>5

LEMMA AttemptTyped ==
    ASSUME AcquisitionTyped, NEW w \in Watchers,
           \/ ScoreAndPersist(w) \/ InvalidateShadowState(w) \/ CreateAttempt(w) \/ RecordAttempt(w)
           \/ \E reaches, answered \in BOOLEAN : Post(w, reaches, answered)
    PROVE  AcquisitionTyped'
<1>0. AcquisitionTypes /\ OnTrack(w) /\ watcher[w] \in WatcherRow
  BY DEF AcquisitionTyped, AcquisitionTypes
<1>1. CASE ScoreAndPersist(w) \/ InvalidateShadowState(w)
  <2>1. Ends(w) /\ UNCHANGED <<running, shared, path, rows, lock, rowlock, remote, posts, undone>>
    BY <1>1 DEF ScoreAndPersist, InvalidateShadowState
  <2>2. OnTrack(w)'
    BY <2>1, <1>0, WatcherEnds DEF OnTrack
  <2>3. Scored(watcher[w].seen) \in SeenStates /\ "DISCOVERED" \in SeenStates
    BY <1>0 DEF Scored, SeenStates, WatcherRow
  <2>4. state' \in [Jobs -> SeenStates]
    BY <1>0, <1>1, <2>3 DEF ScoreAndPersist, InvalidateShadowState, SetState, AcquisitionTypes
  <2>5. \A u \in Watchers : OnTrack(u)'
    BY <1>0, <2>1, <2>2, WatcherEnds, TrackFrame
  <2> QED BY <1>0, <2>1, <2>4, <2>5, WatcherEnds DEF AcquisitionTyped, AcquisitionTypes
<1>2. CASE CreateAttempt(w)
  <2> DEFINE j == Job(w)
             x == [watcher[w] EXCEPT !.at = "posting", !.row = Len(rows[j]) + 1]
             begun == [status |-> "SUBMITTING", known |-> FALSE]
  <2>1. j \in Jobs /\ path[j] \in {"APPLY", "BID"} /\ w \in running /\ rows[j] \in Seq(Attempted)
    BY <1>0, <1>2 DEF CreateAttempt, At, OnTrack, Job, AcquisitionTypes
  <2>2. Len(rows[j]) + 1 \in Nat
    BY <2>1
  <2>3. x \in WatcherRow /\ x.at = "posting" /\ x.job = j
    BY <1>0, <2>2 DEF WatcherRow, WatcherPlaces, Job
  <2>4. watcher' = [watcher EXCEPT ![w] = x]
    BY <1>2 DEF CreateAttempt
  <2>5. rows' = [rows EXCEPT ![j] = Append(@, begun)]
    BY <1>2 DEF CreateAttempt
  <2>6. Append(rows[j], begun) \in Seq(Attempted)
    <3>1. begun \in Attempted
      BY DEF Attempted
    <3> QED BY <2>1, <3>1, RowAdded
  <2>7. UNCHANGED <<running, shared, path, state, lock, rowlock, remote, posts, undone>>
    BY <1>2 DEF CreateAttempt
  <2> HIDE DEF x, begun
  <2>8. OnTrack(w)'
    BY <1>0, <2>1, <2>3, <2>4, <2>7, WatcherSet DEF OnTrack, Job
  <2>9. \A u \in Watchers : OnTrack(u)'
    BY <1>0, <2>3, <2>4, <2>7, <2>8, WatcherSet, TrackFrame
  <2>10. rows' \in [Jobs -> Seq(Attempted)]
    BY <1>0, <2>5, <2>6 DEF AcquisitionTypes
  <2> QED BY <1>0, <2>3, <2>4, <2>7, <2>9, <2>10, WatcherSet DEF AcquisitionTyped, AcquisitionTypes
<1>3. CASE RecordAttempt(w)
  <2>1. Goes(w, "leaving") /\ UNCHANGED <<running, shared, path, state, lock, rowlock, remote, posts, undone>>
    BY <1>3 DEF RecordAttempt
  <2>2. rows' \in [Jobs -> Seq(Attempted)]
    BY <1>0, <1>3, RecordWrites DEF AcquisitionTypes
  <2>3. w \in running /\ Job(w) \in Jobs /\ path[Job(w)] \in {"APPLY", "BID"}
    BY <1>0, <1>3 DEF RecordAttempt, At, OnTrack, Job, AcquisitionTypes
  <2>4. OnTrack(w)'
    BY <1>0, <2>1, <2>3, WatcherGoes DEF OnTrack, Job, WatcherPlaces
  <2>5. \A u \in Watchers : OnTrack(u)'
    BY <1>0, <2>1, <2>4, WatcherGoes, TrackFrame DEF WatcherPlaces
  <2> QED BY <1>0, <2>1, <2>2, <2>5, WatcherGoes DEF AcquisitionTyped, AcquisitionTypes, WatcherPlaces
<1>4. ASSUME NEW reaches \in BOOLEAN, NEW answered \in BOOLEAN, Post(w, reaches, answered)
      PROVE  AcquisitionTyped'
  <2> DEFINE at == IF answered THEN "answered" ELSE "lost"
  <2>1. Goes(w, at) /\ UNCHANGED <<running, shared, path, state, rows, lock, rowlock, undone>>
        /\ at \in WatcherPlaces
    BY <1>4 DEF Post, WatcherPlaces
  <2>2. posts' \in [Jobs -> Nat] /\ remote' \in [Jobs -> {"NONE", "PENDING", "FUNDED", "REJECTED"}]
    BY <1>0, <1>4, ReachesTypes DEF Post, AcquisitionTypes
  <2>3. w \in running /\ watcher[w].at = "posting" /\ at \in {"answered", "lost"}
    BY <1>4 DEF Post, At
  <2> HIDE DEF at
  <2>4. OnTrack(w)'
    BY <1>0, <2>1, <2>3, WatcherGoes DEF OnTrack, Job
  <2>5. \A u \in Watchers : OnTrack(u)'
    BY <1>0, <2>1, <2>4, WatcherGoes, TrackFrame
  <2> QED BY <1>0, <2>1, <2>2, <2>5, WatcherGoes DEF AcquisitionTyped, AcquisitionTypes
<1> QED BY <1>1, <1>2, <1>3, <1>4

LEMMA UndoneGrows ==
    ASSUME AcquisitionTypes, NEW w \in Watchers, Crash(w)
    PROVE  /\ undone' \in [Jobs -> Nat] /\ \A j \in Jobs : undone[j] <= undone'[j]
           /\ watcher[w].seen = "REACHED" /\ Job(w) \in Jobs => undone'[Job(w)] = undone[Job(w)] + 1
<1>0. undone \in [Jobs -> Nat]
  BY DEF AcquisitionTypes
<1>1. CASE watcher[w].seen = "REACHED" /\ Job(w) \in Jobs
  <2>1. undone' = [undone EXCEPT ![Job(w)] = undone[Job(w)] + 1] /\ undone[Job(w)] + 1 \in Nat
    BY <1>0, <1>1 DEF Crash
  <2> QED BY <1>0, <1>1, <2>1
<1>2. CASE ~(watcher[w].seen = "REACHED" /\ Job(w) \in Jobs)
  <2>1. undone' = undone
    BY <1>0, <1>2 DEF Crash
  <2> QED BY <1>0, <1>2, <2>1
<1> QED BY <1>1, <1>2

LEMMA SyncWrites ==
    ASSUME AcquisitionTypes, NEW j \in Jobs, NEW i \in DOMAIN rows[j], SyncApplication(j, i)
    PROVE  /\ rows' \in [Jobs -> Seq(Attempted)]
           /\ \A k \in Jobs : rows'[k] = <<>> <=> rows[k] = <<>>
<1> DEFINE x == [status |-> remote[j], known |-> TRUE]
<1>1. rows \in [Jobs -> Seq(Attempted)] /\ rows[j] \in Seq(Attempted)
  BY DEF AcquisitionTypes
<1>2. rows' = [rows EXCEPT ![j] = [rows[j] EXCEPT ![i] = x]]
  BY DEF SyncApplication
<1>3. x \in Attempted
  BY DEF SyncApplication, AcquisitionTypes, Attempted
<1> HIDE DEF x
<1>4. [rows[j] EXCEPT ![i] = x] \in Seq(Attempted) /\ ([rows[j] EXCEPT ![i] = x] = <<>> <=> rows[j] = <<>>)
  BY <1>1, <1>3, RowWritten
<1> QED BY <1>1, <1>2, <1>4

LEMMA ClaimTyped ==
    ASSUME AcquisitionTyped, NEW w \in Watchers,
           \/ (\E j \in Jobs : BeginClaim(w, j)) \/ EndClaim(w) \/ Crash(w)
           \/ \E reaches, answered \in BOOLEAN : CallClaim(w, reaches, answered)
    PROVE  AcquisitionTyped'
<1>0. AcquisitionTypes /\ OnTrack(w) /\ watcher[w] \in WatcherRow
  BY DEF AcquisitionTyped, AcquisitionTypes
<1>1. ASSUME NEW j \in Jobs, BeginClaim(w, j)  PROVE AcquisitionTyped'
  <2> DEFINE x == [watcher[w] EXCEPT !.at = "claiming", !.job = j]
  <2>1. x \in WatcherRow /\ x.at = "claiming" /\ x.job = j /\ x.todo = watcher[w].todo
    BY <1>0 DEF WatcherRow, WatcherPlaces
  <2>2. /\ watcher' = [watcher EXCEPT ![w] = x] /\ w \in running /\ watcher[w].at = "ranked"
        /\ path[j] = "CLAIM"
        /\ UNCHANGED <<running, shared, path, state, rows, lock, remote, posts, undone>>
    BY <1>0, <1>1 DEF BeginClaim, At, OnTrack
  <2>3. rowlock' \in [Jobs -> Watchers \cup {None}]
    BY <1>0, <1>1 DEF BeginClaim, AcquisitionTypes
  <2> HIDE DEF x
  <2>4. OnTrack(w)'
    BY <1>0, <2>1, <2>2, WatcherSet DEF OnTrack, Job
  <2>5. \A u \in Watchers : OnTrack(u)'
    BY <1>0, <2>1, <2>2, <2>4, WatcherSet, TrackFrame
  <2> QED BY <1>0, <2>1, <2>2, <2>3, <2>5, WatcherSet DEF AcquisitionTyped, AcquisitionTypes
<1>2. CASE EndClaim(w)
  <2> DEFINE j == Job(w)
             y == [Idle EXCEPT !.at = "ranked", !.todo = watcher[w].todo \ {j}]
             x == IF watcher[w].todo = {j} THEN Idle ELSE y
             claim == [status |-> IF At(w, "answered") THEN "CLAIMED" ELSE "UNKNOWN_REMOTE_STATE",
                       known |-> At(w, "answered")]
  <2>1. /\ j \in Jobs /\ w \in running /\ rows[j] \in Seq(Attempted)
        /\ UNCHANGED <<running, shared, path, lock, remote, posts, undone>>
    BY <1>0, <1>2 DEF EndClaim, At, OnTrack, Job, AcquisitionTypes
  <2>2. Idle \in WatcherRow /\ Idle.at = "idle" /\ Idle.todo = {}
    BY DEF Idle, WatcherRow, WatcherPlaces, SeenStates
  <2>3. x \in WatcherRow /\ (x.at = "idle" \/ (x.at = "ranked" /\ x.todo \subseteq watcher[w].todo))
    BY <1>0, <2>2 DEF WatcherRow, WatcherPlaces
  <2>4. watcher' = [watcher EXCEPT ![w] = x]
    BY <1>2 DEF EndClaim, Job
  <2>5. rows' = [rows EXCEPT ![j] = Append(rows[j], claim)]
    BY <1>2 DEF EndClaim
  <2>6. claim \in Attempted
    BY DEF Attempted, At
  <2>7. Append(rows[j], claim) \in Seq(Attempted)
    BY <2>1, <2>6, RowAdded
  <2>8. rows' \in [Jobs -> Seq(Attempted)]
    BY <1>0, <2>5, <2>7 DEF AcquisitionTypes
  <2>9. state' \in [Jobs -> SeenStates] /\ rowlock' \in [Jobs -> Watchers \cup {None}]
    BY <1>0, <1>2 DEF EndClaim, SetState, AcquisitionTypes, SeenStates
  <2> HIDE DEF x
  <2>10. \A k \in watcher[w].todo : path[k] = "CLAIM"
    BY <1>0, <1>2 DEF EndClaim, At, OnTrack
  <2>11. OnTrack(w)'
    BY <1>0, <2>1, <2>3, <2>4, <2>10, WatcherSet DEF OnTrack, Job
  <2>12. \A u \in Watchers : OnTrack(u)'
    BY <1>0, <2>1, <2>3, <2>4, <2>11, WatcherSet, TrackFrame
  <2> QED BY <1>0, <2>1, <2>3, <2>4, <2>8, <2>9, <2>12, WatcherSet DEF AcquisitionTyped, AcquisitionTypes
<1>3. CASE Crash(w)
  <2>1. Ends(w) /\ UNCHANGED <<running, shared, path, state, rows, lock, remote, posts>>
    BY <1>3 DEF Crash
  <2>2. rowlock' \in [Jobs -> Watchers \cup {None}] /\ undone' \in [Jobs -> Nat]
    <3>1. rowlock' \in [Jobs -> Watchers \cup {None}]
      BY <1>0, <1>3 DEF Crash, AcquisitionTypes
    <3>2. undone' \in [Jobs -> Nat]
      BY <1>0, <1>3, UndoneGrows
    <3> QED BY <3>1, <3>2
  <2>3. OnTrack(w)'
    BY <1>0, <2>1, WatcherEnds DEF OnTrack
  <2>4. \A u \in Watchers : OnTrack(u)'
    BY <1>0, <2>1, <2>3, WatcherEnds, TrackFrame
  <2> QED BY <1>0, <2>1, <2>2, <2>4, WatcherEnds DEF AcquisitionTyped, AcquisitionTypes
<1>4. ASSUME NEW reaches \in BOOLEAN, NEW answered \in BOOLEAN, CallClaim(w, reaches, answered)
      PROVE  AcquisitionTyped'
  <2> DEFINE x == [watcher[w] EXCEPT !.at = IF answered THEN "answered" ELSE "lost",
                                     !.seen = IF reaches THEN "REACHED" ELSE "NONE"]
  <2>1. /\ x \in WatcherRow /\ x.at \in {"answered", "lost"}
        /\ x.job = watcher[w].job /\ x.todo = watcher[w].todo
    BY <1>0 DEF WatcherRow, WatcherPlaces, SeenStates
  <2>2. /\ watcher' = [watcher EXCEPT ![w] = x] /\ w \in running /\ watcher[w].at = "claiming"
        /\ UNCHANGED <<running, shared, path, state, rows, lock, rowlock, undone>>
    <3>1. watcher' = [watcher EXCEPT ![w] = x]
      BY <1>4 DEF CallClaim
    <3> HIDE DEF x
    <3> QED BY <1>4, <3>1 DEF CallClaim, At
  <2>3. posts' \in [Jobs -> Nat] /\ remote' \in [Jobs -> {"NONE", "PENDING", "FUNDED", "REJECTED"}]
    BY <1>0, <1>4, ReachesTypes DEF CallClaim, AcquisitionTypes
  <2> HIDE DEF x
  <2>4. OnTrack(w)'
    BY <1>0, <2>1, <2>2, WatcherSet DEF OnTrack, Job
  <2>5. \A u \in Watchers : OnTrack(u)'
    BY <1>0, <2>1, <2>2, <2>4, WatcherSet, TrackFrame
  <2> QED BY <1>0, <2>1, <2>2, <2>3, <2>5, WatcherSet DEF AcquisitionTyped, AcquisitionTypes
<1> QED BY <1>1, <1>2, <1>3, <1>4

LEMMA JobTyped ==
    ASSUME AcquisitionTyped, NEW j \in Jobs, JobStep(j)
    PROVE  AcquisitionTyped'
<1>0. AcquisitionTypes
  BY DEF AcquisitionTyped
<1>1. UNCHANGED <<running, shared, path, lock, rowlock, watcher, posts, undone>>
  BY DEF JobStep, MarketDecides, SyncApplication, SyncJob, FinishJob
<1>2. \A u \in Watchers : OnTrack(u)'
  BY <1>1 DEF AcquisitionTyped, OnTrack, Job
<1>3. rows' \in [Jobs -> Seq(Attempted)]
  BY <1>0, SyncWrites DEF JobStep, MarketDecides, SyncJob, FinishJob, AcquisitionTypes
<1>4. state' \in [Jobs -> SeenStates]
  <2>1. ASSUME NEW k \in Jobs, NEW s \in SeenStates, SetState(k, s)  PROVE state' \in [Jobs -> SeenStates]
    BY <1>0, <2>1 DEF SetState, AcquisitionTypes
  <2>2. Award(j) => state' \in [Jobs -> SeenStates]
    BY <1>0, <2>1 DEF Award, AcquisitionTypes, SeenStates
  <2>3. UNCHANGED state => state' \in [Jobs -> SeenStates]
    BY <1>0 DEF AcquisitionTypes
  <2>4. UNCHANGED state \/ Award(j) \/ SetState(j, "SETTLED")
    BY DEF JobStep, MarketDecides, SyncApplication, SyncJob, FinishJob
  <2> QED BY <2>1, <2>2, <2>3, <2>4 DEF SeenStates
<1>5. remote' \in [Jobs -> {"NONE", "PENDING", "FUNDED", "REJECTED"}]
  BY <1>0 DEF JobStep, MarketDecides, SyncApplication, SyncJob, FinishJob, AcquisitionTypes
<1> QED BY <1>0, <1>1, <1>2, <1>3, <1>4, <1>5 DEF AcquisitionTyped, AcquisitionTypes

LEMMA AcquisitionTypedInit ==
    ASSUME AcquisitionInit  PROVE AcquisitionTyped
<1>1. Idle \in WatcherRow /\ Idle.at = "idle"
  BY DEF Idle, WatcherRow, WatcherPlaces, SeenStates
<1>2. <<>> \in Seq(Attempted)
  OBVIOUS
<1>3. running \subseteq Watchers
  BY DEF AcquisitionInit
<1>4. AcquisitionTypes
  <2>1. watcher \in [Watchers -> WatcherRow] /\ rows \in [Jobs -> Seq(Attempted)]
    BY <1>1, <1>2 DEF AcquisitionInit
  <2> QED BY <1>3, <2>1 DEF AcquisitionInit, AcquisitionTypes, SeenStates
<1>5. \A w \in Watchers : watcher[w].at = "idle"
  BY <1>1 DEF AcquisitionInit
<1> QED BY <1>4, <1>5 DEF AcquisitionTyped, OnTrack

LEMMA AcquisitionTypedKept ==
    ASSUME AcquisitionTyped, [AcquisitionNext]_acquisitionVars
    PROVE  AcquisitionTyped'
<1>1. ASSUME NEW w \in Watchers, WatcherStep(w)  PROVE AcquisitionTyped'
  BY <1>1, QuietWatcherTyped, AttemptTyped, ClaimTyped DEF WatcherStep
<1>2. CASE UNCHANGED acquisitionVars
  BY <1>2 DEF acquisitionVars, AcquisitionTyped, AcquisitionTypes, OnTrack, Job
<1> QED BY <1>1, <1>2, JobTyped DEF AcquisitionNext


(* The jobs for which one attempt is promised, and how it comes to one.    *)
Guarded(j) == path[j] # "CLAIM" /\ (Alone \/ (path[j] = "APPLY" /\ ~shared))
PostedOnce(j) ==
    /\ Guarded(j) => posts[j] <= 1 /\ (rows[j] = <<>> => posts[j] = 0)
    /\ path[j] = "CLAIM" =>
          /\ posts[j] <= 1 + undone[j]
          /\ rows[j] = <<>> /\ rowlock[j] = None => posts[j] <= undone[j]
    /\ rowlock[j] # None =>
          /\ path[j] = "CLAIM" /\ Job(rowlock[j]) = j
          /\ watcher[rowlock[j]].at \in {"claiming", "answered", "lost"}
Applies(w) ==
    watcher[w].at \in {"listed", "gated"} \cup Inside /\ path[Job(w)] # "CLAIM" /\ Guarded(Job(w)) =>
        /\ watcher[w].at \in Inside => Alone \/ lock[Job(w)] = w
        /\ watcher[w].at = "checked" \/ (Alone /\ watcher[w].at \in {"listed", "gated", "locked"}) =>
              rows[Job(w)] = <<>>
        /\ watcher[w].at = "posting" => posts[Job(w)] = 0 /\ rows[Job(w)] # <<>>
Claims(w) ==
    watcher[w].at \in {"claiming", "answered", "lost"} /\ path[Job(w)] = "CLAIM" =>
        /\ rowlock[Job(w)] = w /\ rows[Job(w)] = <<>>
        /\ posts[Job(w)] <= undone[Job(w)]
              + (IF watcher[w].at # "claiming" /\ watcher[w].seen = "REACHED" THEN 1 ELSE 0)
AttemptInv ==
    AcquisitionTyped /\ (\A j \in Jobs : PostedOnce(j)) /\ \A w \in Watchers : Applies(w) /\ Claims(w)

LEMMA OnlyOne ==
    ASSUME AcquisitionTyped, Alone, NEW u \in Watchers, NEW w \in Watchers,
           watcher[u].at # "idle", watcher[w].at # "idle"
    PROVE  u = w
<1>1. IsFiniteSet(running)
  BY WatchersAssumption, FS_Subset DEF AcquisitionTyped, AcquisitionTypes
<1>2. PICK x : running = {x}
  BY <1>1, FS_Singleton DEF Alone
<1>3. u \in running /\ w \in running
  BY DEF AcquisitionTyped, OnTrack
<1> QED BY <1>2, <1>3

LEMMA GuardFrame ==
    ASSUME UNCHANGED <<running, shared, path>>
    PROVE  (Alone' <=> Alone) /\ \A j : Guarded(j)' <=> Guarded(j)
BY DEF Guarded, Alone

(* Two applicants are never past the check of one guarded job.             *)
LEMMA OneApplicant ==
    ASSUME AttemptInv, NEW u \in Watchers, NEW w \in Watchers, Job(u) = Job(w),
           watcher[u].at \in Inside, watcher[w].at \in Inside,
           path[Job(w)] # "CLAIM", Guarded(Job(w))
    PROVE  u = w
<1>1. "idle" \notin Inside
  BY DEF Inside
<1>2. CASE Alone
  BY <1>1, <1>2, OnlyOne DEF AttemptInv
<1>3. CASE ~Alone
  BY <1>3 DEF AttemptInv, Applies
<1> QED BY <1>2, <1>3

(* A step of a watcher that moves neither rows, row locks nor posts.       *)
LEMMA QuietAttempt ==
    ASSUME AttemptInv, AcquisitionTyped', NEW w \in Watchers,
           UNCHANGED <<running, shared, path, rows, rowlock, posts, undone>>,
           watcher[w].at \notin {"claiming", "answered", "lost"},
           \A u \in Watchers \ {w} : watcher'[u] = watcher[u],
           \A u \in Watchers \ {w} :
               lock[Job(u)] = u /\ watcher[u].at \in Inside /\ ~Alone /\ Guarded(Job(u)) => lock'[Job(u)] = u,
           Applies(w)', Claims(w)'
    PROVE  AttemptInv'
<1>1. (Alone' <=> Alone) /\ \A j : Guarded(j)' <=> Guarded(j)
  BY GuardFrame
<1>2. ASSUME NEW j \in Jobs  PROVE PostedOnce(j)'
  <2>1. PostedOnce(j) /\ rowlock[j] \in Watchers \cup {None}
    BY DEF AttemptInv, AcquisitionTyped, AcquisitionTypes
  <2>2. rowlock[j] # None => watcher'[rowlock[j]] = watcher[rowlock[j]]
    BY <2>1 DEF PostedOnce
  <2> QED BY <1>1, <2>1, <2>2 DEF PostedOnce, Job
<1>3. ASSUME NEW u \in Watchers \ {w}  PROVE Applies(u)' /\ Claims(u)'
  <2>1. Applies(u) /\ Claims(u) /\ watcher'[u] = watcher[u] /\ Job(u)' = Job(u)
    BY DEF AttemptInv, Job
  <2>2. Claims(u)'
    BY <2>1 DEF Claims
  <2>3. Applies(u)'
    BY <1>1, <2>1 DEF Applies
  <2> QED BY <2>2, <2>3
<1> QED BY <1>2, <1>3 DEF AttemptInv

LEMMA QuietAttemptKept ==
    ASSUME AttemptInv, AcquisitionTyped', NEW w \in Watchers,
           \/ (\E j \in Jobs : Fetch(w, j) \/ ListJob(w, j) \/ SkipClaim(w, j))
           \/ ScoreAndPersist(w) \/ InvalidateShadowState(w)
           \/ PassGates(w) \/ GiveUpJob(w) \/ AcquireLock(w) \/ EnsureNoActiveAttempt(w)
           \/ ReleaseLock(w) \/ \E chosen \in SUBSET Jobs : RankCandidates(w, chosen)
    PROVE  AttemptInv'
<1>0. AcquisitionTypes /\ watcher[w] \in WatcherRow /\ OnTrack(w) /\ Applies(w)
  BY DEF AttemptInv, AcquisitionTyped, AcquisitionTypes
<1>1. /\ UNCHANGED <<running, shared, path, rows, rowlock, posts, undone>>
      /\ watcher[w].at \in {"idle", "fetched", "listed", "gated", "locked", "leaving", "ranked"}
  BY DEF Fetch, ListJob, SkipClaim, PassGates, GiveUpJob, AcquireLock, EnsureNoActiveAttempt,
         ReleaseLock, RankCandidates, ScoreAndPersist, InvalidateShadowState, At
<1>2. (Alone' <=> Alone) /\ \A j : Guarded(j)' <=> Guarded(j)
  BY <1>1, GuardFrame
<1>3. \A u \in Watchers \ {w} : watcher'[u] = watcher[u]
  BY <1>0 DEF AcquisitionTypes, Fetch, ListJob, SkipClaim, PassGates, GiveUpJob, AcquireLock,
         EnsureNoActiveAttempt, ReleaseLock, RankCandidates, ScoreAndPersist, InvalidateShadowState, Goes, Ends
<1>4. Idle \in WatcherRow /\ Idle.at = "idle"
  BY DEF Idle, WatcherRow, WatcherPlaces, SeenStates
<1>5. ASSUME NEW u \in Watchers \ {w}, lock[Job(u)] = u, watcher[u].at \in Inside, ~Alone, Guarded(Job(u))
      PROVE  lock'[Job(u)] = u
  <2>1. Job(u) \in Jobs /\ lock \in [Jobs -> Watchers \cup {None}]
    BY <1>5 DEF AttemptInv, AcquisitionTyped, AcquisitionTypes, OnTrack, Inside, Job
  <2>2. CASE UNCHANGED lock
    BY <1>5, <2>2
  <2>3. CASE AcquireLock(w)
    <3>1. Job(u) # Job(w)
      BY <1>5, <2>3 DEF AcquireLock, MayAcquire, Holds, Guarded, Job
    <3> QED BY <1>5, <2>1, <2>3, <3>1 DEF AcquireLock
  <2>4. CASE ReleaseLock(w)
    BY <1>5, <2>1, <2>4 DEF ReleaseLock
  <2> QED BY <2>2, <2>3, <2>4 DEF Fetch, ListJob, SkipClaim, PassGates, GiveUpJob, AcquireLock,
             EnsureNoActiveAttempt, ReleaseLock, RankCandidates, ScoreAndPersist, InvalidateShadowState
<1>6. Claims(w)' /\ Applies(w)'
  <2>1. ASSUME watcher'[w].at \in {"idle", "fetched", "ranked"}  PROVE Claims(w)' /\ Applies(w)'
    BY <2>1 DEF Claims, Applies, Inside
  <2>2. ASSUME NEW j \in Jobs, Fetch(w, j)  PROVE watcher'[w].at = "fetched"
    BY <1>0, <1>4, <2>2 DEF AcquisitionTypes, Fetch, WatcherRow
  <2>3. ASSUME NEW j \in Jobs, ListJob(w, j)  PROVE Claims(w)' /\ Applies(w)'
    <3>1. watcher'[w].at = "listed" /\ Job(w)' = j /\ rows'[j] = <<>>
      BY <1>0, <1>4, <2>3 DEF AcquisitionTypes, ListJob, WatcherRow, Job
    <3> QED BY <3>1 DEF Claims, Applies, Inside
  <2>4. ASSUME NEW j \in Jobs, SkipClaim(w, j)  PROVE watcher'[w].at \in {"idle", "ranked"}
    BY <1>0, <1>4, <2>4 DEF AcquisitionTypes, SkipClaim, WatcherRow, At
  <2>5. ASSUME NEW chosen \in SUBSET Jobs, RankCandidates(w, chosen)  PROVE watcher'[w].at = "ranked"
    BY <1>0, <1>4, <2>5 DEF AcquisitionTypes, RankCandidates, WatcherRow
  <2>6. ASSUME Ends(w)  PROVE watcher'[w].at = "idle"
    BY <1>0, <2>6, WatcherEnds
  <2>7. CASE PassGates(w) \/ AcquireLock(w) \/ EnsureNoActiveAttempt(w)
    <3>1. PICK at \in {"gated", "locked", "leaving", "checked"} : Goes(w, at)
      BY <2>7 DEF PassGates, AcquireLock, EnsureNoActiveAttempt
    <3>2. watcher'[w].at = at /\ Job(w)' = Job(w) /\ Job(w) \in Jobs
      BY <1>0, <1>1, <2>7, <3>1, WatcherGoes
      DEF WatcherPlaces, OnTrack, PassGates, AcquireLock, EnsureNoActiveAttempt, At, Job
    <3>3. Claims(w)'
      BY <3>2 DEF Claims
    <3>4. CASE PassGates(w)
      <4>1. watcher[w].at = "listed" /\ at = "gated"
        BY <1>0, <3>2, <3>4, WatcherGoes DEF PassGates, At, WatcherPlaces
      <4> QED BY <1>0, <1>1, <1>2, <3>2, <3>3, <4>1 DEF Applies, Inside
    <3>5. CASE AcquireLock(w)
      <4>1. watcher[w].at = "gated" /\ at = "locked" /\ lock'[Job(w)] = w
        BY <1>0, <3>2, <3>5, WatcherGoes DEF AcquireLock, At, WatcherPlaces, AcquisitionTypes
      <4> QED BY <1>0, <1>1, <1>2, <3>2, <3>3, <4>1 DEF Applies, Inside
    <3>6. CASE EnsureNoActiveAttempt(w)
      <4>1. /\ watcher[w].at = "locked" /\ UNCHANGED lock
            /\ at \in {"leaving", "checked"} /\ (at = "checked" => ~ActiveAttempt(Job(w)))
        BY <1>0, <3>2, <3>6, WatcherGoes DEF EnsureNoActiveAttempt, At, WatcherPlaces
      <4>2. path[Job(w)] = "APPLY" /\ ~ActiveAttempt(Job(w)) => rows[Job(w)] = <<>>
        BY DEF ActiveAttempt
      <4> QED BY <1>0, <1>1, <1>2, <3>2, <3>3, <4>1, <4>2 DEF Applies, Inside, Guarded
    <3> QED BY <2>7, <3>3, <3>4, <3>5, <3>6
  <2> QED BY <2>1, <2>2, <2>3, <2>4, <2>5, <2>6, <2>7 DEF GiveUpJob, ReleaseLock, ScoreAndPersist,
                                                        InvalidateShadowState
<1> QED BY <1>1, <1>3, <1>5, <1>6, QuietAttempt

LEMMA JobAttemptKept ==
    ASSUME AttemptInv, AcquisitionTyped', NEW j \in Jobs, JobStep(j)
    PROVE  AttemptInv'
<1>1. UNCHANGED <<running, shared, path, lock, rowlock, watcher, posts, undone>>
  BY DEF JobStep, MarketDecides, SyncApplication, SyncJob, FinishJob
<1>2. \A k \in Jobs : rows'[k] = <<>> <=> rows[k] = <<>>
  BY SyncWrites DEF JobStep, MarketDecides, SyncJob, FinishJob, AttemptInv, AcquisitionTyped
<1>3. (Alone' <=> Alone) /\ \A k : Guarded(k)' <=> Guarded(k)
  BY <1>1, GuardFrame
<1>4. ASSUME NEW k \in Jobs  PROVE PostedOnce(k)'
  BY <1>1, <1>2, <1>3 DEF AttemptInv, PostedOnce, Job
<1>5. ASSUME NEW u \in Watchers  PROVE Applies(u)' /\ Claims(u)'
  <2>1. Applies(u) /\ Claims(u) /\ Job(u)' = Job(u) /\ OnTrack(u)
    BY <1>1 DEF AttemptInv, AcquisitionTyped, Job
  <2>2. watcher[u].at \in {"listed", "gated", "claiming"} \cup Inside => Job(u) \in Jobs
    BY <2>1 DEF OnTrack, Inside, Job
  <2>3. Applies(u)'
    BY <1>1, <1>2, <1>3, <2>1, <2>2 DEF Applies
  <2>4. Claims(u)'
    BY <1>1, <1>2, <2>1, <2>2 DEF Claims, Inside
  <2> QED BY <2>3, <2>4
<1> QED BY <1>4, <1>5 DEF AttemptInv

(* The steps of one attempt: made, posted, recorded.                       *)
LEMMA CreateKept ==
    ASSUME AttemptInv, AcquisitionTyped', NEW w \in Watchers, CreateAttempt(w)
    PROVE  AttemptInv'
<1> DEFINE j == Job(w)
<1>0. AcquisitionTypes /\ watcher[w] \in WatcherRow /\ OnTrack(w) /\ Applies(w)
  BY DEF AttemptInv, AcquisitionTyped, AcquisitionTypes
<1>1. /\ UNCHANGED <<running, shared, path, lock, rowlock, posts, undone>> /\ watcher[w].at = "checked"
      /\ j \in Jobs /\ path[j] \in {"APPLY", "BID"}
  BY <1>0 DEF CreateAttempt, At, OnTrack, Job
<1>2. (Alone' <=> Alone) /\ \A k : Guarded(k)' <=> Guarded(k)
  BY <1>1, GuardFrame
<1>3. /\ watcher'[w].at = "posting" /\ Job(w)' = j
      /\ \A u \in Watchers \ {w} : watcher'[u] = watcher[u]
  BY <1>0 DEF CreateAttempt, AcquisitionTypes, WatcherRow, Job
<1>4. rows'[j] # <<>> /\ \A k \in Jobs \ {j} : rows'[k] = rows[k]
  <2>1. rows[j] \in Seq(Attempted) /\ [status |-> "SUBMITTING", known |-> FALSE] \in Attempted
    BY <1>0, <1>1 DEF AcquisitionTypes, Attempted
  <2> QED BY <1>0, <1>1, <2>1, RowAdded DEF CreateAttempt, AcquisitionTypes
<1>5. Guarded(j) => rows[j] = <<>> /\ posts[j] = 0
  BY <1>0, <1>1 DEF Applies, Inside, AttemptInv, PostedOnce
<1>6. ASSUME NEW k \in Jobs  PROVE PostedOnce(k)'
  <2>1. PostedOnce(k) /\ rowlock[k] \in Watchers \cup {None}
    BY DEF AttemptInv, AcquisitionTyped, AcquisitionTypes
  <2>2. rowlock[k] # None => watcher'[rowlock[k]] = watcher[rowlock[k]]
    BY <1>1, <1>3, <2>1 DEF PostedOnce
  <2> QED BY <1>1, <1>2, <1>4, <2>1, <2>2 DEF PostedOnce, Job
<1>7. ASSUME NEW u \in Watchers \ {w}  PROVE Applies(u)' /\ Claims(u)'
  <2>1. Applies(u) /\ Claims(u) /\ Job(u)' = Job(u) /\ OnTrack(u) /\ watcher'[u] = watcher[u]
    BY <1>3 DEF AttemptInv, AcquisitionTyped, Job
  <2>2. watcher[u].at \in {"listed", "gated", "claiming"} \cup Inside => Job(u) \in Jobs
    BY <2>1 DEF OnTrack, Inside, Job
  <2>3. Job(u) = j /\ Guarded(j) => watcher[u].at \notin Inside
    BY <1>1, OneApplicant DEF Inside
  <2>4. Job(u) = j /\ Alone => watcher[u].at = "idle"
    BY <1>1, OnlyOne DEF AttemptInv
  <2>5. Applies(u)'
    BY <1>1, <1>2, <1>4, <2>1, <2>2, <2>3, <2>4 DEF Applies, Inside
  <2>6. Claims(u)'
    BY <1>1, <1>4, <2>1, <2>2 DEF Claims, Inside
  <2> QED BY <2>5, <2>6
<1>8. Claims(w)'
  BY <1>3 DEF Claims
<1>9. Applies(w)'
  <2>1. watcher[w].at \in Inside /\ (Guarded(j) => Alone \/ lock[j] = w)
    BY <1>0, <1>1 DEF Applies, Inside
  <2> QED BY <1>1, <1>2, <1>3, <1>4, <1>5, <2>1 DEF Applies
<1> QED BY <1>6, <1>7, <1>8, <1>9 DEF AttemptInv

LEMMA PostKept ==
    ASSUME AttemptInv, AcquisitionTyped', NEW w \in Watchers,
           NEW reaches \in BOOLEAN, NEW answered \in BOOLEAN, Post(w, reaches, answered)
    PROVE  AttemptInv'
<1> DEFINE j == Job(w)
           at == IF answered THEN "answered" ELSE "lost"
<1>0. AcquisitionTypes /\ watcher[w] \in WatcherRow /\ OnTrack(w) /\ Applies(w)
  BY DEF AttemptInv, AcquisitionTyped, AcquisitionTypes
<1>1. /\ UNCHANGED <<running, shared, path, rows, lock, rowlock, undone>> /\ watcher[w].at = "posting"
      /\ j \in Jobs /\ path[j] \in {"APPLY", "BID"} /\ Goes(w, at) /\ at \in {"answered", "lost"}
  BY <1>0 DEF Post, At, OnTrack, Job
<1>2. (Alone' <=> Alone) /\ \A k : Guarded(k)' <=> Guarded(k)
  BY <1>1, GuardFrame
<1>3. /\ watcher'[w].at \in {"answered", "lost"} /\ Job(w)' = j
      /\ \A u \in Watchers \ {w} : watcher'[u] = watcher[u]
  <2> HIDE DEF at
  <2> QED BY <1>0, <1>1, WatcherGoes DEF WatcherPlaces
<1>4. /\ \A k \in Jobs \ {j} : posts'[k] = posts[k]
      /\ posts'[j] \in {posts[j], posts[j] + 1} /\ posts[j] \in Nat
  BY <1>0, <1>1, ReachesTypes DEF Post, AcquisitionTypes
<1>5. Guarded(j) => rows[j] # <<>> /\ posts[j] = 0 /\ (Alone \/ lock[j] = w)
  BY <1>0, <1>1 DEF Applies, Inside
<1>6. ASSUME NEW k \in Jobs  PROVE PostedOnce(k)'
  <2>1. PostedOnce(k) /\ rowlock[k] \in Watchers \cup {None}
    BY DEF AttemptInv, AcquisitionTyped, AcquisitionTypes
  <2>2. rowlock[k] # None => watcher'[rowlock[k]] = watcher[rowlock[k]]
    BY <1>1, <1>3, <2>1 DEF PostedOnce
  <2>3. CASE k = j
    BY <1>1, <1>2, <1>4, <1>5, <2>1, <2>2, <2>3 DEF PostedOnce, Job
  <2>4. CASE k # j
    BY <1>1, <1>2, <1>4, <2>1, <2>2, <2>4 DEF PostedOnce, Job
  <2> QED BY <2>3, <2>4
<1>7. ASSUME NEW u \in Watchers \ {w}  PROVE Applies(u)' /\ Claims(u)'
  <2>1. Applies(u) /\ Claims(u) /\ Job(u)' = Job(u) /\ OnTrack(u) /\ watcher'[u] = watcher[u]
    BY <1>3 DEF AttemptInv, AcquisitionTyped, Job
  <2>2. watcher[u].at \in {"listed", "gated", "claiming"} \cup Inside => Job(u) \in Jobs
    BY <2>1 DEF OnTrack, Inside, Job
  <2>3. Job(u) = j /\ Guarded(j) => watcher[u].at \notin Inside
    BY <1>1, OneApplicant DEF Inside
  <2>4. Applies(u)'
    BY <1>1, <1>2, <1>4, <2>1, <2>2, <2>3 DEF Applies, Inside
  <2>5. Claims(u)'
    BY <1>1, <1>4, <2>1, <2>2 DEF Claims, Inside
  <2> QED BY <2>4, <2>5
<1>8. Claims(w)' /\ Applies(w)'
  <2>1. Claims(w)'
    BY <1>1, <1>3 DEF Claims
  <2>2. Applies(w)'
    BY <1>1, <1>2, <1>3, <1>5 DEF Applies
  <2> QED BY <2>1, <2>2
<1> QED BY <1>6, <1>7, <1>8 DEF AttemptInv

LEMMA RecordKept ==
    ASSUME AttemptInv, AcquisitionTyped', NEW w \in Watchers, RecordAttempt(w)
    PROVE  AttemptInv'
<1> DEFINE j == Job(w)
<1>0. AcquisitionTypes /\ watcher[w] \in WatcherRow /\ OnTrack(w) /\ Applies(w)
  BY DEF AttemptInv, AcquisitionTyped, AcquisitionTypes
<1>1. /\ UNCHANGED <<running, shared, path, lock, rowlock, posts, undone>>
      /\ watcher[w].at \in {"answered", "lost"}
      /\ j \in Jobs /\ path[j] \in {"APPLY", "BID"} /\ Goes(w, "leaving")
  BY <1>0 DEF RecordAttempt, At, OnTrack, Job, AcquisitionTypes
<1>2. (Alone' <=> Alone) /\ \A k : Guarded(k)' <=> Guarded(k)
  BY <1>1, GuardFrame
<1>3. /\ watcher'[w].at = "leaving" /\ Job(w)' = j
      /\ \A u \in Watchers \ {w} : watcher'[u] = watcher[u]
  BY <1>0, <1>1, WatcherGoes DEF WatcherPlaces
<1>4. \A k \in Jobs : rows'[k] = <<>> <=> rows[k] = <<>>
  BY <1>0, RecordWrites
<1>5. ASSUME NEW k \in Jobs  PROVE PostedOnce(k)'
  <2>1. PostedOnce(k) /\ rowlock[k] \in Watchers \cup {None}
    BY DEF AttemptInv, AcquisitionTyped, AcquisitionTypes
  <2>2. rowlock[k] # None => rowlock[k] # w
    BY <1>1, <2>1 DEF PostedOnce
  <2>3. rowlock[k] # None => watcher'[rowlock[k]] = watcher[rowlock[k]]
    BY <1>3, <2>1, <2>2
  <2> QED BY <1>1, <1>2, <1>4, <2>1, <2>3 DEF PostedOnce, Job
<1>6. ASSUME NEW u \in Watchers \ {w}  PROVE Applies(u)' /\ Claims(u)'
  <2>1. Applies(u) /\ Claims(u) /\ Job(u)' = Job(u) /\ OnTrack(u) /\ watcher'[u] = watcher[u]
    BY <1>3 DEF AttemptInv, AcquisitionTyped, Job
  <2>2. watcher[u].at \in {"listed", "gated", "claiming"} \cup Inside => Job(u) \in Jobs
    BY <2>1 DEF OnTrack, Inside, Job
  <2>3. Applies(u)'
    BY <1>1, <1>2, <1>4, <2>1, <2>2 DEF Applies
  <2>4. Claims(u)'
    BY <1>1, <1>4, <2>1, <2>2 DEF Claims, Inside
  <2> QED BY <2>3, <2>4
<1>7. Claims(w)' /\ Applies(w)'
  <2>1. Claims(w)'
    BY <1>3 DEF Claims
  <2>2. Guarded(j) => Alone \/ lock[j] = w
    BY <1>0, <1>1 DEF Applies, Inside
  <2>3. Applies(w)'
    BY <1>1, <1>2, <1>3, <2>2 DEF Applies
  <2> QED BY <2>1, <2>3
<1> QED BY <1>5, <1>6, <1>7 DEF AttemptInv

(* A claim is made under the lock of the Job row: what the step of one     *)
(* claimer leaves to the other watchers.                                   *)
LEMMA OthersClaim ==
    ASSUME AttemptInv, NEW w \in Watchers, NEW u \in Watchers \ {w},
           UNCHANGED <<running, shared, path, lock>>, watcher'[u] = watcher[u],
           \A k \in Jobs : path[k] # "CLAIM" => posts'[k] = posts[k],
           \A k \in Jobs : path[k] # "CLAIM" => rows'[k] = rows[k],
           \A k \in Jobs : undone[k] <= undone'[k] /\ undone[k] \in Nat /\ undone'[k] \in Nat /\ posts[k] \in Nat,
           \A k \in Jobs : rowlock[k] = u => /\ rowlock'[k] = u /\ rows'[k] = rows[k]
                                             /\ posts'[k] = posts[k]
    PROVE  Applies(u)' /\ Claims(u)'
<1>1. Applies(u) /\ Claims(u) /\ Job(u)' = Job(u) /\ OnTrack(u)
  BY DEF AttemptInv, AcquisitionTyped, Job
<1>2. watcher[u].at \in {"listed", "gated", "claiming"} \cup Inside => Job(u) \in Jobs
  BY <1>1 DEF OnTrack, Inside, Job
<1>3. (Alone' <=> Alone) /\ \A k : Guarded(k)' <=> Guarded(k)
  BY GuardFrame
<1>4. Applies(u)'
  BY <1>1, <1>2, <1>3 DEF Applies
<1>5. Claims(u)'
  <2>1. SUFFICES ASSUME watcher[u].at \in {"claiming", "answered", "lost"}, path[Job(u)] = "CLAIM"
                 PROVE  Claims(u)'
    BY <1>1 DEF Claims
  <2>2. Job(u) \in Jobs /\ rowlock[Job(u)] = u
    BY <1>1, <1>2, <2>1 DEF Claims, Inside
  <2> QED BY <1>1, <2>1, <2>2 DEF Claims
<1> QED BY <1>4, <1>5

LEMMA BeginClaimKept ==
    ASSUME AttemptInv, AcquisitionTyped', NEW w \in Watchers, NEW j \in Jobs, BeginClaim(w, j)
    PROVE  AttemptInv'
<1>0. AcquisitionTypes /\ watcher[w] \in WatcherRow /\ OnTrack(w)
  BY DEF AttemptInv, AcquisitionTyped, AcquisitionTypes
<1>1. /\ UNCHANGED <<running, shared, path, rows, lock, posts, undone>> /\ watcher[w].at = "ranked"
      /\ path[j] = "CLAIM" /\ rowlock[j] = None /\ rows[j] = <<>>
  BY <1>0 DEF BeginClaim, At, OnTrack, ExistingClaim
<1>2. (Alone' <=> Alone) /\ \A k : Guarded(k)' <=> Guarded(k)
  BY <1>1, GuardFrame
<1>3. /\ watcher'[w].at = "claiming" /\ Job(w)' = j
      /\ \A u \in Watchers \ {w} : watcher'[u] = watcher[u]
  BY <1>0 DEF BeginClaim, AcquisitionTypes, WatcherRow, Job
<1>4. rowlock'[j] = w /\ \A k \in Jobs \ {j} : rowlock'[k] = rowlock[k]
  BY <1>0 DEF BeginClaim, AcquisitionTypes
<1>5. posts \in [Jobs -> Nat] /\ undone \in [Jobs -> Nat] /\ None \notin Watchers
  BY <1>0, WatchersAssumption DEF AcquisitionTypes
<1>6. ASSUME NEW k \in Jobs  PROVE PostedOnce(k)'
  <2>1. PostedOnce(k) /\ rowlock[k] \in Watchers \cup {None}
    BY DEF AttemptInv, AcquisitionTyped, AcquisitionTypes
  <2>2. rowlock[k] # None => watcher'[rowlock[k]] = watcher[rowlock[k]]
    BY <1>1, <1>3, <2>1 DEF PostedOnce
  <2>3. CASE k = j
    BY <1>1, <1>2, <1>3, <1>4, <2>1, <2>3 DEF PostedOnce, Guarded
  <2>4. CASE k # j
    BY <1>1, <1>2, <1>4, <2>1, <2>2, <2>4 DEF PostedOnce, Job
  <2> QED BY <2>3, <2>4
<1>7. ASSUME NEW u \in Watchers \ {w}  PROVE Applies(u)' /\ Claims(u)'
  <2>1. \A k \in Jobs : rowlock[k] = u => rowlock'[k] = u
    BY <1>1, <1>4, <1>5
  <2> QED BY <1>1, <1>3, <1>5, <2>1, OthersClaim
<1>8. Claims(w)' /\ Applies(w)'
  <2>1. posts[j] <= undone[j]
    BY <1>1 DEF AttemptInv, PostedOnce
  <2>2. Claims(w)'
    BY <1>1, <1>3, <1>4, <1>5, <2>1 DEF Claims
  <2>3. Applies(w)'
    BY <1>3 DEF Applies, Inside
  <2> QED BY <2>2, <2>3
<1> QED BY <1>6, <1>7, <1>8 DEF AttemptInv

LEMMA CallClaimKept ==
    ASSUME AttemptInv, AcquisitionTyped', NEW w \in Watchers,
           NEW reaches \in BOOLEAN, NEW answered \in BOOLEAN, CallClaim(w, reaches, answered)
    PROVE  AttemptInv'
<1> DEFINE j == Job(w)
<1>0. AcquisitionTypes /\ watcher[w] \in WatcherRow /\ OnTrack(w) /\ Claims(w)
  BY DEF AttemptInv, AcquisitionTyped, AcquisitionTypes
<1>1. /\ UNCHANGED <<running, shared, path, rows, lock, rowlock, undone>> /\ watcher[w].at = "claiming"
      /\ j \in Jobs /\ path[j] = "CLAIM"
  BY <1>0 DEF CallClaim, At, OnTrack, Job
<1>2. (Alone' <=> Alone) /\ \A k : Guarded(k)' <=> Guarded(k)
  BY <1>1, GuardFrame
<1>3. /\ watcher'[w].at \in {"answered", "lost"} /\ Job(w)' = j
      /\ watcher'[w].seen = "REACHED" <=> reaches
      /\ \A u \in Watchers \ {w} : watcher'[u] = watcher[u]
  BY <1>0 DEF CallClaim, AcquisitionTypes, WatcherRow, Job
<1>4. /\ \A k \in Jobs \ {j} : posts'[k] = posts[k]
      /\ posts'[j] = posts[j] + (IF reaches THEN 1 ELSE 0)
      /\ posts \in [Jobs -> Nat] /\ undone \in [Jobs -> Nat]
  BY <1>0, <1>1, ReachesTypes DEF CallClaim, AcquisitionTypes
<1>5. rowlock[j] = w /\ rows[j] = <<>> /\ posts[j] <= undone[j] /\ w # None
  BY <1>0, <1>1, <1>4, WatchersAssumption DEF Claims
<1>6. ASSUME NEW k \in Jobs  PROVE PostedOnce(k)'
  <2>1. PostedOnce(k) /\ rowlock[k] \in Watchers \cup {None}
    BY DEF AttemptInv, AcquisitionTyped, AcquisitionTypes
  <2>2. CASE k = j
    BY <1>1, <1>2, <1>3, <1>4, <1>5, <2>1, <2>2 DEF PostedOnce, Guarded
  <2>3. CASE k # j
    <3>1. rowlock[k] # None => rowlock[k] # w
      BY <2>1, <2>3 DEF PostedOnce
    <3>2. rowlock[k] # None => watcher'[rowlock[k]] = watcher[rowlock[k]]
      BY <1>3, <2>1, <3>1
    <3> QED BY <1>1, <1>2, <1>4, <2>1, <2>3, <3>2 DEF PostedOnce, Job
  <2> QED BY <2>2, <2>3
<1>7. ASSUME NEW u \in Watchers \ {w}  PROVE Applies(u)' /\ Claims(u)'
  BY <1>1, <1>3, <1>4, <1>5, OthersClaim
<1>8. Claims(w)' /\ Applies(w)'
  <2>1. Claims(w)'
    BY <1>1, <1>3, <1>4, <1>5 DEF Claims
  <2>2. Applies(w)'
    BY <1>1, <1>3 DEF Applies
  <2> QED BY <2>1, <2>2
<1> QED BY <1>6, <1>7, <1>8 DEF AttemptInv

LEMMA EndClaimKept ==
    ASSUME AttemptInv, AcquisitionTyped', NEW w \in Watchers, EndClaim(w)
    PROVE  AttemptInv'
<1> DEFINE j == Job(w)
           claim == [status |-> IF At(w, "answered") THEN "CLAIMED" ELSE "UNKNOWN_REMOTE_STATE",
                     known |-> At(w, "answered")]
<1>0. AcquisitionTypes /\ watcher[w] \in WatcherRow /\ OnTrack(w) /\ Claims(w)
  BY DEF AttemptInv, AcquisitionTyped, AcquisitionTypes
<1>1. /\ UNCHANGED <<running, shared, path, lock, posts, undone>> /\ watcher[w].at \in {"answered", "lost"}
      /\ j \in Jobs /\ path[j] = "CLAIM"
  BY <1>0 DEF EndClaim, At, OnTrack, Job
<1>2. (Alone' <=> Alone) /\ \A k : Guarded(k)' <=> Guarded(k)
  BY <1>1, GuardFrame
<1>3. Idle.at = "idle" /\ Idle \in WatcherRow
  BY DEF Idle, WatcherRow, WatcherPlaces, SeenStates
<1>4. /\ watcher'[w].at \in {"idle", "ranked"}
      /\ \A u \in Watchers \ {w} : watcher'[u] = watcher[u]
  <2>1. [Idle EXCEPT !.at = "ranked", !.todo = watcher[w].todo \ {j}].at = "ranked"
    BY <1>3 DEF WatcherRow
  <2> QED BY <1>0, <1>3, <2>1 DEF EndClaim, AcquisitionTypes
<1>5. rows'[j] # <<>> /\ \A k \in Jobs \ {j} : rows'[k] = rows[k]
  <2>1. rows' = [rows EXCEPT ![j] = Append(rows[j], claim)] /\ rows \in [Jobs -> Seq(Attempted)]
    BY <1>0 DEF EndClaim, AcquisitionTypes
  <2>2. claim \in Attempted
    BY DEF Attempted, At
  <2> HIDE DEF claim, j
  <2> QED BY <1>1, <2>1, <2>2, RowAdded
<1>6. rowlock'[j] = None /\ \A k \in Jobs \ {j} : rowlock'[k] = rowlock[k]
  BY <1>0, <1>1 DEF EndClaim, AcquisitionTypes
<1>7. rowlock[j] = w /\ posts \in [Jobs -> Nat] /\ undone \in [Jobs -> Nat]
  BY <1>0, <1>1 DEF Claims, AcquisitionTypes
<1>8. ASSUME NEW k \in Jobs  PROVE PostedOnce(k)'
  <2>1. PostedOnce(k) /\ rowlock[k] \in Watchers \cup {None}
    BY DEF AttemptInv, AcquisitionTyped, AcquisitionTypes
  <2>2. CASE k = j
    BY <1>1, <1>2, <1>5, <1>6, <2>1, <2>2 DEF PostedOnce, Guarded
  <2>3. CASE k # j
    <3>1. rowlock[k] # None => rowlock[k] # w
      BY <2>1, <2>3 DEF PostedOnce
    <3>2. rowlock[k] # None => watcher'[rowlock[k]] = watcher[rowlock[k]]
      BY <1>4, <2>1, <3>1
    <3> QED BY <1>1, <1>2, <1>5, <1>6, <2>1, <2>3, <3>2 DEF PostedOnce, Job
  <2> QED BY <2>2, <2>3
<1>9. ASSUME NEW u \in Watchers \ {w}  PROVE Applies(u)' /\ Claims(u)'
  BY <1>1, <1>4, <1>5, <1>6, <1>7, OthersClaim
<1>10. Claims(w)' /\ Applies(w)'
  BY <1>4 DEF Claims, Applies, Inside
<1> QED BY <1>8, <1>9, <1>10 DEF AttemptInv

(* A crash: the call of the transaction that is rolled back is counted.    *)
LEMMA CrashKept ==
    ASSUME AttemptInv, AcquisitionTyped', NEW w \in Watchers, Crash(w)
    PROVE  AttemptInv'
<1>0. AcquisitionTypes /\ watcher[w] \in WatcherRow /\ OnTrack(w) /\ Claims(w)
  BY DEF AttemptInv, AcquisitionTyped, AcquisitionTypes
<1>1. UNCHANGED <<running, shared, path, rows, lock, posts>> /\ Ends(w)
  BY DEF Crash
<1>2. (Alone' <=> Alone) /\ \A k : Guarded(k)' <=> Guarded(k)
  BY <1>1, GuardFrame
<1>3. watcher'[w].at = "idle" /\ \A u \in Watchers \ {w} : watcher'[u] = watcher[u]
  BY <1>0, <1>1, WatcherEnds
<1>4. \A k \in Jobs : rowlock'[k] = IF rowlock[k] = w THEN None ELSE rowlock[k]
  BY DEF Crash
<1>5. /\ posts \in [Jobs -> Nat] /\ undone \in [Jobs -> Nat] /\ undone' \in [Jobs -> Nat]
      /\ \A k \in Jobs : undone[k] <= undone'[k]
      /\ watcher[w].seen = "REACHED" /\ Job(w) \in Jobs => undone'[Job(w)] = undone[Job(w)] + 1
  BY <1>0, UndoneGrows DEF AcquisitionTypes
<1>6. ASSUME NEW k \in Jobs  PROVE PostedOnce(k)'
  <2>1. PostedOnce(k) /\ rowlock[k] \in Watchers \cup {None}
    BY DEF AttemptInv, AcquisitionTyped, AcquisitionTypes
  <2>2. posts[k] \in Nat /\ undone[k] \in Nat /\ undone'[k] \in Nat /\ undone[k] <= undone'[k]
    BY <1>5
  <2>3. CASE rowlock[k] = w
    <3>1. path[k] = "CLAIM" /\ Job(w) = k /\ watcher[w].at \in {"claiming", "answered", "lost"}
      BY <2>1, <2>3, WatchersAssumption DEF PostedOnce
    <3>2. posts[k] <= undone[k] + (IF watcher[w].seen = "REACHED" THEN 1 ELSE 0)
      BY <1>0, <2>2, <3>1 DEF Claims
    <3>3. posts[k] <= undone'[k] /\ rowlock'[k] = None
      BY <1>4, <1>5, <2>2, <2>3, <3>1, <3>2
    <3> QED BY <1>1, <1>2, <2>2, <3>1, <3>3 DEF PostedOnce, Guarded
  <2>4. CASE rowlock[k] # w
    <3>1. rowlock[k] # None => watcher'[rowlock[k]] = watcher[rowlock[k]]
      BY <1>3, <2>1, <2>4
    <3> QED BY <1>1, <1>2, <1>4, <2>1, <2>2, <2>4, <3>1 DEF PostedOnce, Job
  <2> QED BY <2>3, <2>4
<1>7. ASSUME NEW u \in Watchers \ {w}  PROVE Applies(u)' /\ Claims(u)'
  BY <1>1, <1>3, <1>4, <1>5, OthersClaim
<1>8. Claims(w)' /\ Applies(w)'
  BY <1>3 DEF Claims, Applies, Inside
<1> QED BY <1>6, <1>7, <1>8 DEF AttemptInv

LEMMA AttemptKept ==
    ASSUME AttemptInv, [AcquisitionNext]_acquisitionVars
    PROVE  AttemptInv'
<1>0. AcquisitionTyped'
  BY AcquisitionTypedKept DEF AttemptInv
<1>1. ASSUME NEW w \in Watchers, WatcherStep(w)  PROVE AttemptInv'
  BY <1>0, <1>1, QuietAttemptKept, CreateKept, PostKept, RecordKept, BeginClaimKept, CallClaimKept,
     EndClaimKept, CrashKept DEF WatcherStep
<1>2. CASE UNCHANGED acquisitionVars
  BY <1>0, <1>2 DEF acquisitionVars, AttemptInv, PostedOnce, Applies, Claims, Guarded, Alone, Job
<1> QED BY <1>0, <1>1, <1>2, JobAttemptKept DEF AcquisitionNext

LEMMA AttemptInit ==
    ASSUME AcquisitionInit  PROVE AttemptInv
<1>1. AcquisitionTyped
  BY AcquisitionTypedInit
<1>2. \A w \in Watchers : watcher[w].at = "idle"
  BY DEF AcquisitionInit, Idle
<1>3. \A j \in Jobs : posts[j] = 0 /\ undone[j] = 0 /\ rowlock[j] = None
  BY DEF AcquisitionInit
<1> QED BY <1>1, <1>2, <1>3 DEF AttemptInv, PostedOnce, Applies, Claims, Inside

(* A market hears once of a job, whatever watchers crash and whatever      *)
(* answers are lost: dealwork_runtime.py, agentgigs.py and the claims of   *)
(* autonomous_income.py.                                                   *)
THEOREM OneAttempt == AcquisitionSpec => []OneRemoteAttempt
<1>1. AttemptInv => OneRemoteAttempt
  <2> SUFFICES ASSUME AttemptInv, NEW j \in Jobs,
                      path[j] = "CLAIM" \/ Alone \/ (path[j] = "APPLY" /\ ~shared)
               PROVE  posts[j] <= 1 + undone[j]
    BY DEF OneRemoteAttempt
  <2>1. PostedOnce(j) /\ posts[j] \in Nat /\ undone[j] \in Nat
    BY DEF AttemptInv, AcquisitionTyped, AcquisitionTypes
  <2> QED BY <2>1 DEF PostedOnce, Guarded
<1> QED BY <1>1, AttemptInit, AttemptKept, PTL DEF AcquisitionSpec
=============================================================================
