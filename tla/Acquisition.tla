----------------------------- MODULE Acquisition -----------------------------
(***************************************************************************)
(* How jobs are won: applications to AgentGigs (agentgigs.py), bids on     *)
(* Dealwork (dealwork_runtime.py), both through acquire_profitable_job, and*)
(* the claims of the autonomous loop (autonomous_income.py).  A revenue    *)
(* watcher does one thing at a time, but one started with --once may run   *)
(* beside the service, and a task synchronises applications at any time.   *)
(***************************************************************************)
EXTENDS Naturals, Sequences, FiniteSets

CONSTANTS
    Jobs,
    Watchers,   \* processes of run_revenue_watcher
    None,
    MaxClaims,  \* EarnControls.max_active_claims
    MaxPosts    \* bound: calls about one job that reach the market

ASSUME WatchersAssumption == IsFiniteSet(Watchers) /\ None \notin Watchers

VARIABLES
    running,   \* the watchers that run
    shared,    \* they have one node id, as AgentGigs' "VPS1"
    path,      \* how each job is acquired; NONE: it is never discovered
    state,     \* Job.state
    rows,      \* Application, Bid or Claim rows of each job, oldest first
    lock,      \* JobLock.node_id, as the watcher that was granted it last
    rowlock,   \* the watcher whose transaction holds the Job row
    watcher,   \* what each watcher is in the middle of
    remote,    \* what the market knows of an application
    posts,     \* calls that reached the market
    undone     \* claims that reached it in a transaction that was rolled back

acquisitionVars == <<running, shared, path, state, rows, lock, rowlock, watcher, remote, posts, undone>>

Idle == [at |-> "idle", job |-> None, seen |-> "NONE", row |-> 0, todo |-> {}]

AcquisitionInit ==
    /\ running \in (SUBSET Watchers) \ {{}}
    /\ shared \in BOOLEAN
    /\ path \in [Jobs -> {"APPLY", "BID", "CLAIM", "NONE"}]
    /\ state = [j \in Jobs |-> "DISCOVERED"]
    /\ rows = [j \in Jobs |-> <<>>]
    /\ lock = [j \in Jobs |-> None] /\ rowlock = [j \in Jobs |-> None]
    /\ watcher = [w \in Watchers |-> Idle]
    /\ remote = [j \in Jobs |-> "NONE"]
    /\ posts = [j \in Jobs |-> 0] /\ undone = [j \in Jobs |-> 0]

Alone == Cardinality(running) = 1
Job(w) == watcher[w].job
At(w, at) == w \in running /\ watcher[w].at = at
Goes(w, at) == watcher' = [watcher EXCEPT ![w].at = at]
Ends(w) == watcher' = [watcher EXCEPT ![w] = Idle]
SetState(j, s) == state' = [state EXCEPT ![j] = s]

-----------------------------------------------------------------------------
(* Discovery and scoring work on the row as it was read.                   *)

Fetch(w, j) ==
    /\ At(w, "idle") /\ path[j] # "NONE" /\ (path[j] = "APPLY" => state[j] \in {"DISCOVERED", "EXPECTED"})
    /\ watcher' = [watcher EXCEPT ![w] = [Idle EXCEPT !.at = "fetched", !.job = j, !.seen = state[j]]]
    /\ UNCHANGED <<running, shared, path, state, rows, lock, rowlock, remote, posts, undone>>

Scored(seen) == IF seen = "DISCOVERED" THEN "EXPECTED" ELSE seen
ScoreAndPersist(w) ==
    /\ At(w, "fetched") /\ rowlock[Job(w)] = None
    /\ IF Scored(watcher[w].seen) = watcher[w].seen THEN UNCHANGED state
       ELSE SetState(Job(w), Scored(watcher[w].seen))
    /\ Ends(w)
    /\ UNCHANGED <<running, shared, path, rows, lock, rowlock, remote, posts, undone>>

(* What is no buyer demand any more is not EXPECTED any more.              *)
InvalidateShadowState(w) ==
    /\ At(w, "fetched") /\ path[Job(w)] # "APPLY" /\ rowlock[Job(w)] = None
    /\ IF watcher[w].seen = "EXPECTED" THEN SetState(Job(w), "DISCOVERED") ELSE UNCHANGED state
    /\ Ends(w)
    /\ UNCHANGED <<running, shared, path, rows, lock, rowlock, remote, posts, undone>>

-----------------------------------------------------------------------------
(* Applications and bids: attempt_profitable_applications and              *)
(* attempt_dealwork_bids list jobs nobody tried, acquire_profitable_job    *)
(* acquires one.                                                           *)

ListJob(w, j) ==
    /\ At(w, "idle") /\ path[j] \in {"APPLY", "BID"}
    /\ state[j] = "EXPECTED" /\ rows[j] = <<>>
    /\ watcher' = [watcher EXCEPT ![w] = [Idle EXCEPT !.at = "listed", !.job = j]]
    /\ UNCHANGED <<running, shared, path, state, rows, lock, rowlock, remote, posts, undone>>

PassGates(w) ==
    /\ At(w, "listed") /\ state[Job(w)] = "EXPECTED" /\ Goes(w, "gated")
    /\ UNCHANGED <<running, shared, path, state, rows, lock, rowlock, remote, posts, undone>>

(* The gates - acquisition_decision, the preflight, the admission - refuse *)
(* or the lease is somebody else's.                                        *)
GiveUpJob(w) ==
    /\ At(w, "listed") \/ At(w, "gated")
    /\ Ends(w)
    /\ UNCHANGED <<running, shared, path, state, rows, lock, rowlock, remote, posts, undone>>

(* acquire_job_lock (JobLock): 180 seconds outlast the call, so a lease    *)
(* expires only when its holder died in the meantime.                      *)
Inside == {"locked", "checked", "posting", "answered", "lost", "leaving"}
Holds(w, j) == lock[j] = w /\ watcher[w].job = j /\ watcher[w].at \in Inside
MayAcquire(w, j) == shared \/ ~\E other \in Watchers : Holds(other, j)
AcquireLock(w) ==
    /\ At(w, "gated") /\ MayAcquire(w, Job(w))
    /\ lock' = [lock EXCEPT ![Job(w)] = w] /\ Goes(w, "locked")
    /\ UNCHANGED <<running, shared, path, state, rows, rowlock, remote, posts, undone>>

(* _ensure_no_active_attempt.  Mutant: an attempt with an unknown answer   *)
(* does not count.                                                         *)
KnownAttempt(j) == \E i \in DOMAIN rows[j] : rows[j][i].status \in {"SUBMITTING", "SUBMITTED"}
ActiveAttempt(j) ==
    CASE path[j] = "APPLY" -> rows[j] # <<>>
      [] path[j] = "BID" -> \E i \in DOMAIN rows[j] : rows[j][i].status \in {"SUBMITTING", "SUBMITTED"}
      [] OTHER -> FALSE
EnsureNoActiveAttempt(w) ==
    /\ At(w, "locked")
    /\ Goes(w, IF ActiveAttempt(Job(w)) THEN "leaving" ELSE "checked")
    /\ UNCHANGED <<running, shared, path, state, rows, lock, rowlock, remote, posts, undone>>

CreateAttempt(w) ==
    /\ At(w, "checked")
    /\ rows' = [rows EXCEPT ![Job(w)] = Append(@, [status |-> "SUBMITTING", known |-> FALSE])]
    /\ watcher' = [watcher EXCEPT ![w].at = "posting", ![w].row = Len(rows[Job(w)]) + 1]
    /\ UNCHANGED <<running, shared, path, state, lock, rowlock, remote, posts, undone>>

Reaches(j) ==
    /\ posts[j] < MaxPosts
    /\ posts' = [posts EXCEPT ![j] = @ + 1]
    /\ remote' = [remote EXCEPT ![j] = IF path[j] = "APPLY" /\ @ = "NONE" THEN "PENDING" ELSE @]

(* The call: it may reach the market although no answer comes.             *)
Post(w, reaches, answered) ==
    /\ At(w, "posting") /\ (answered => reaches)
    /\ IF reaches THEN Reaches(Job(w)) ELSE UNCHANGED <<posts, remote>>
    /\ Goes(w, IF answered THEN "answered" ELSE "lost")
    /\ UNCHANGED <<running, shared, path, state, rows, lock, rowlock, undone>>

RecordAttempt(w) ==
    /\ At(w, "answered") \/ At(w, "lost")
    /\ path[Job(w)] # "CLAIM"
    /\ rows' = [rows EXCEPT ![Job(w)][watcher[w].row] =
          IF At(w, "answered") THEN [status |-> "SUBMITTED", known |-> TRUE]
          ELSE [@ EXCEPT !.status = "UNKNOWN_REMOTE_STATE"]]
    /\ Goes(w, "leaving")
    /\ UNCHANGED <<running, shared, path, state, lock, rowlock, remote, posts, undone>>

(* release_job_lock: only the holder of the last token deletes the row.    *)
ReleaseLock(w) ==
    /\ At(w, "leaving")
    /\ lock' = [lock EXCEPT ![Job(w)] = IF @ = w THEN None ELSE @]
    /\ Ends(w)
    /\ UNCHANGED <<running, shared, path, state, rows, rowlock, remote, posts, undone>>

-----------------------------------------------------------------------------
(* The autonomous loop: the counters are read once, the claims they admit  *)
(* are made one after the other.                                           *)

Open == {j \in Jobs : state[j] # "SETTLED"}
ActiveClaims == {j \in Open : path[j] = "CLAIM" /\ rows[j] # <<>>}

RankCandidates(w, chosen) ==
    /\ At(w, "idle") /\ Cardinality(ActiveClaims) < MaxClaims
    /\ chosen # {} /\ Cardinality(chosen) <= MaxClaims
    /\ \A j \in chosen : path[j] = "CLAIM" /\ state[j] = "EXPECTED"
    /\ watcher' = [watcher EXCEPT ![w] = [Idle EXCEPT !.at = "ranked", !.todo = chosen]]
    /\ UNCHANGED <<running, shared, path, state, rows, lock, rowlock, remote, posts, undone>>

(* claim_once: one transaction under the Job row around the remote call.   *)
ExistingClaim(j) == rows[j] # <<>>
BeginClaim(w, j) ==
    /\ At(w, "ranked") /\ j \in watcher[w].todo /\ rowlock[j] = None /\ ~ExistingClaim(j)
    /\ rowlock' = [rowlock EXCEPT ![j] = w]
    /\ watcher' = [watcher EXCEPT ![w].at = "claiming", ![w].job = j]
    /\ UNCHANGED <<running, shared, path, state, rows, lock, remote, posts, undone>>

(* A claim that exists, a spend that is blocked, a missing adapter.        *)
SkipClaim(w, j) ==
    /\ At(w, "ranked") /\ j \in watcher[w].todo /\ rowlock[j] = None
    /\ watcher' = [watcher EXCEPT ![w] =
          IF @.todo = {j} THEN Idle ELSE [@ EXCEPT !.todo = watcher[w].todo \ {j}]]
    /\ UNCHANGED <<running, shared, path, state, rows, lock, rowlock, remote, posts, undone>>

CallClaim(w, reaches, answered) ==
    /\ At(w, "claiming") /\ (answered => reaches)
    /\ IF reaches THEN Reaches(Job(w)) ELSE UNCHANGED <<posts, remote>>
    /\ watcher' = [watcher EXCEPT ![w].at = IF answered THEN "answered" ELSE "lost",
                                  ![w].seen = IF reaches THEN "REACHED" ELSE "NONE"]
    /\ UNCHANGED <<running, shared, path, state, rows, lock, rowlock, undone>>

EndClaim(w) ==
    /\ At(w, "answered") \/ At(w, "lost")
    /\ path[Job(w)] = "CLAIM"
    /\ rows' = [rows EXCEPT ![Job(w)] = Append(@,
          [status |-> IF At(w, "answered") THEN "CLAIMED" ELSE "UNKNOWN_REMOTE_STATE",
           known |-> At(w, "answered")])]
    /\ IF At(w, "answered") /\ state[Job(w)] = "EXPECTED"
       THEN SetState(Job(w), "CLAIMED") ELSE UNCHANGED state
    /\ rowlock' = [rowlock EXCEPT ![Job(w)] = None]
    /\ watcher' = [watcher EXCEPT ![w] =
          IF @.todo = {@.job} THEN Idle ELSE [Idle EXCEPT !.at = "ranked", !.todo = watcher[w].todo \ {Job(w)}]]
    /\ UNCHANGED <<running, shared, path, lock, remote, posts, undone>>

-----------------------------------------------------------------------------
(* Around the watchers.                                                    *)

(* A watcher dies: its transaction is rolled back, its lease stays.        *)
Crash(w) ==
    /\ w \in running /\ watcher[w] # Idle
    /\ rowlock' = [j \in Jobs |-> IF rowlock[j] = w THEN None ELSE rowlock[j]]
    /\ undone' = IF watcher[w].seen = "REACHED" THEN [undone EXCEPT ![Job(w)] = @ + 1] ELSE undone
    /\ Ends(w)
    /\ UNCHANGED <<running, shared, path, state, rows, lock, remote, posts>>

MarketDecides(j, status) ==
    /\ remote[j] = "PENDING"
    /\ remote' = [remote EXCEPT ![j] = status]
    /\ UNCHANGED <<running, shared, path, state, rows, lock, rowlock, watcher, posts, undone>>

(* sync_applications: a row is found by its reference, or when it is the   *)
(* only one.                                                               *)
Award(j) == IF state[j] = "EXPECTED" THEN SetState(j, "AWARDED") ELSE UNCHANGED state
SyncApplication(j, i) ==
    /\ remote[j] # "NONE" /\ i \in DOMAIN rows[j]
    /\ rows[j][i].known \/ Len(rows[j]) = 1
    /\ rows' = [rows EXCEPT ![j][i] = [status |-> remote[j], known |-> TRUE]]
    /\ IF remote[j] = "FUNDED" THEN Award(j) ELSE UNCHANGED state
    /\ UNCHANGED <<running, shared, path, lock, rowlock, watcher, remote, posts, undone>>

(* sync_job goes by the job alone.                                         *)
SyncJob(j) ==
    /\ remote[j] = "FUNDED" /\ state[j] = "EXPECTED" /\ Award(j)
    /\ UNCHANGED <<running, shared, path, rows, lock, rowlock, watcher, remote, posts, undone>>

(* Planning, execution and payment (WorkPlanLifecycle, PayoutTreasury).    *)
FinishJob(j) ==
    /\ state[j] \in {"CLAIMED", "AWARDED"} /\ rowlock[j] = None
    /\ SetState(j, "SETTLED")
    /\ UNCHANGED <<running, shared, path, rows, lock, rowlock, watcher, remote, posts, undone>>

WatcherStep(w) ==
    \/ \E j \in Jobs : Fetch(w, j) \/ ListJob(w, j) \/ BeginClaim(w, j) \/ SkipClaim(w, j)
    \/ ScoreAndPersist(w) \/ InvalidateShadowState(w) \/ PassGates(w) \/ GiveUpJob(w)
    \/ AcquireLock(w) \/ EnsureNoActiveAttempt(w) \/ CreateAttempt(w) \/ RecordAttempt(w)
    \/ ReleaseLock(w) \/ EndClaim(w) \/ Crash(w)
    \/ \E reaches, answered \in BOOLEAN : Post(w, reaches, answered) \/ CallClaim(w, reaches, answered)
    \/ \E chosen \in SUBSET Jobs : RankCandidates(w, chosen)

JobStep(j) ==
    \/ \E status \in {"FUNDED", "REJECTED"} : MarketDecides(j, status)
    \/ \E i \in DOMAIN rows[j] : SyncApplication(j, i)
    \/ SyncJob(j) \/ FinishJob(j)

AcquisitionNext == (\E w \in Watchers : WatcherStep(w)) \/ (\E j \in Jobs : JobStep(j))

AcquisitionSpec == AcquisitionInit /\ [][AcquisitionNext]_acquisitionVars

-----------------------------------------------------------------------------
(* A market hears once of a job, whatever answers are lost and whoever     *)
(* dies: for claims whatever runs beside the watcher, for applications as  *)
(* long as watchers have node ids of their own, for bids when there is one *)
(* watcher.  Only a claim whose transaction was rolled back is repeated.   *)
OneRemoteAttempt ==
    \A j \in Jobs :
        path[j] = "CLAIM" \/ Alone \/ (path[j] = "APPLY" /\ ~shared)
            => posts[j] <= 1 + undone[j]
=============================================================================
