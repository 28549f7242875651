----------------------------- MODULE SandboxProxy -----------------------------
(***************************************************************************)
(* proxy_chat_completion of sandbox_genx_proxy.py: the agent in a sandbox  *)
(* asks for completions with the token of its attempt, and asks again when *)
(* an answer is lost.  One GenXCall row per nonce and body, an answer in   *)
(* redis, a paid POST in between.                                          *)
(***************************************************************************)
EXTENDS Naturals

CONSTANTS
    Prompts,    \* bodies sent with the nonce of one token: the request keys
    Handlers,   \* threads of the proxy
    NoPrompt

VARIABLES
    call,      \* GenXCall.status by request key
    answers,   \* keys whose answer is in redis
    handler,   \* the request each thread serves and its step
    postings,  \* POSTs that reached the gateway, by key (ghost)
    replied    \* keys the agent got an answer for
proxyVars == <<call, answers, handler, postings, replied>>

CallStatuses == {"NONE", "RESERVED", "COMPLETED", "FAILED", "UNKNOWN_REMOTE_STATE"}
Serving == {"idle", "post", "record", "store"}
Waiting == [key |-> NoPrompt, step |-> "idle"]

ProxyInit ==
    /\ call = [q \in Prompts |-> "NONE"]
    /\ answers = {} /\ replied = {}
    /\ handler = [h \in Handlers |-> Waiting]
    /\ postings = [q \in Prompts |-> 0]

Reply(h, key) == handler' = [handler EXCEPT ![h] = Waiting] /\ replied' = replied \cup key

(* A key that was seen is answered from redis or refused with 409; mutant: *)
(* an unresolved or failed one is sent again.                              *)
ResendUnfinished(q) == call[q] # "COMPLETED"
MayPost(q) == call[q] = "NONE"

(* The token's signature, expiry and model are checked, then the call is   *)
(* reserved: refusals that change nothing are not steps.                   *)
ReserveCompletion(h, q) ==
    /\ handler[h].step = "idle"
    /\ \/ /\ MayPost(q)
          /\ call' = [call EXCEPT ![q] = "RESERVED"]
          /\ handler' = [handler EXCEPT ![h] = [key |-> q, step |-> "post"]]
          /\ UNCHANGED replied
       \/ /\ call[q] = "COMPLETED" /\ q \in answers
          /\ Reply(h, {q})
          /\ UNCHANGED call
    /\ UNCHANGED <<answers, postings>>

(* No key for the gateway: the reservation is given back.                  *)
NotConfigured(h) ==
    /\ handler[h].step = "post"
    /\ call' = [call EXCEPT ![handler[h].key] = "FAILED"]
    /\ Reply(h, {})
    /\ UNCHANGED <<answers, postings>>

(* What the gateway and the network make of the POST: an answer, a definite*)
(* refusal, or one that leaves its fate open; a body that is not an object *)
(* leaves the call as it was reserved.                                     *)
PostUpstream(h) ==
    LET q == handler[h].key IN
    /\ handler[h].step = "post"
    /\ \/ /\ handler' = [handler EXCEPT ![h].step = "record"]
          /\ postings' = [postings EXCEPT ![q] = @ + 1]
          /\ UNCHANGED <<call, replied>>
       \/ \E status \in {"FAILED", "UNKNOWN_REMOTE_STATE", "RESERVED"}, paid \in 0..1 :
             /\ paid = 1 => status # "FAILED"
             /\ call' = [call EXCEPT ![q] = status]
             /\ postings' = [postings EXCEPT ![q] = @ + paid]
             /\ Reply(h, {})
    /\ UNCHANGED answers

ReconcileAnswer(h) ==
    /\ handler[h].step = "record"
    /\ call' = [call EXCEPT ![handler[h].key] = "COMPLETED"]
    /\ handler' = [handler EXCEPT ![h].step = "store"]
    /\ UNCHANGED <<answers, postings, replied>>

(* Redis may be away: the answer is returned and not stored.               *)
StoreResponse(h) ==
    LET q == handler[h].key IN
    /\ handler[h].step = "store"
    /\ answers' \in {answers, answers \cup {q}}
    /\ Reply(h, {q})
    /\ UNCHANGED <<call, postings>>

AnswerExpires(q) ==
    /\ q \in answers
    /\ answers' = answers \ {q}
    /\ UNCHANGED <<call, handler, postings, replied>>

ProxyDies ==
    /\ \E h \in Handlers : handler[h] # Waiting
    /\ handler' = [h \in Handlers |-> Waiting]
    /\ UNCHANGED <<call, answers, postings, replied>>

ProxyNext ==
    \/ \E h \in Handlers :
          \/ \E q \in Prompts : ReserveCompletion(h, q)
          \/ NotConfigured(h) \/ PostUpstream(h) \/ ReconcileAnswer(h) \/ StoreResponse(h)
    \/ \E q \in Prompts : AnswerExpires(q)
    \/ ProxyDies

ProxySpec == ProxyInit /\ [][ProxyNext]_proxyVars

-----------------------------------------------------------------------------
(* A completion is paid for once, however often the agent repeats a request*)
(* whose answer it lost, and a key given back as FAILED was never paid for *)
(* (sandbox_genx_proxy.py:106-110, "automatic replay is blocked").         *)
CompletionPaidOnce ==
    \A q \in Prompts : postings[q] <= (IF call[q] \in {"NONE", "FAILED"} THEN 0 ELSE 1)
=============================================================================
