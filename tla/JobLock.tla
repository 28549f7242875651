------------------------------ MODULE JobLock ------------------------------
(***************************************************************************)
(* The lease on a job: control/services/locks.py and the watchdog loop of  *)
(* recovery.py that deletes expired rows.  Each function of locks.py is one*)
(* transaction under the row lock; the watchdog reads the expired rows and *)
(* deletes them one by one later.  Time is abstract: a lease is live until *)
(* a step ends it.                                                         *)
(***************************************************************************)
EXTENDS Naturals

CONSTANTS
    Procs,        \* processes that work on the job
    Nodes,        \* node ids
    Deployments,  \* what the processes may be started as
    Watchdogs,    \* running watchdogs
    NoOwner,
    MaxToken,     \* bound: fencing tokens
    MaxRows       \* bound: JobLock rows created for the job

ASSUME DeploymentsAssumption == Deployments \subseteq [nodeOf : [Procs -> Nodes], prompt : BOOLEAN]
ASSUME NoOwnerAssumption == NoOwner \notin Procs
ASSUME LockBoundsAssumption == MaxToken \in Nat \ {0} /\ MaxRows \in Nat

VARIABLES
    deployment,  \* the node_id each process passes ("VPS1" unless set), and
                 \* whether nothing happens between a watchdog's two steps
    lockRow,  \* the JobLock row: primary key, node, token, and whose grant it is
    hold,  \* the grant each process still works under, and of which row it was
    seen   \* primary key of the expired row each watchdog is about to delete

lockVars == <<deployment, lockRow, hold, seen>>

NodeOf == deployment.nodeOf

NoLockRow == [id |-> 0, token |-> 0, owner |-> NoOwner, live |-> FALSE]
NoHold == [id |-> 0, token |-> 0, live |-> FALSE]

Exists == lockRow.owner # NoOwner
Node == NodeOf[lockRow.owner]

LockInit ==
    /\ deployment \in Deployments
    /\ lockRow = NoLockRow
    /\ hold = [p \in Procs |-> NoHold]
    /\ seen = [d \in Watchdogs |-> 0]

(* Primary keys are never used again: the largest one ever seen is kept in *)
(* the id of the absent row.                                               *)
Grant(p, id, token) ==
    /\ lockRow' = [id |-> id, token |-> token, owner |-> p, live |-> TRUE]
    /\ hold' = [hold EXCEPT ![p] = [id |-> id, token |-> token, live |-> TRUE]]

DeleteRow == lockRow' = [NoLockRow EXCEPT !.id = lockRow.id]

(* Mutant: a lease is taken over while another node holds it.              *)
IgnoreLease(p) == TRUE

(* A live lease of another node refuses; one of the same node does not.    *)
MayTakeOver(p) == ~lockRow.live \/ Node = NodeOf[p]

NextToken == lockRow.token + 1

AcquireJobLock(p) ==
    /\ hold[p] = NoHold
    /\ \/ ~Exists /\ lockRow.id < MaxRows /\ Grant(p, lockRow.id + 1, 1)
       \/ Exists /\ MayTakeOver(p) /\ lockRow.token < MaxToken /\ Grant(p, lockRow.id, NextToken)
    /\ UNCHANGED seen

(* The comparison of renew_job_lock and release_job_lock.                  *)
SameLease(p) == Exists /\ Node = NodeOf[p] /\ lockRow.token = hold[p].token

(* renew_job_lock; refused, the process gives its work up.                 *)
RenewJobLock(p) ==
    /\ hold[p] # NoHold
    /\ IF SameLease(p) /\ lockRow.live
       THEN hold' = [hold EXCEPT ![p].live = TRUE]
       ELSE hold' = [hold EXCEPT ![p] = NoHold]
    /\ UNCHANGED <<lockRow, seen>>

(* release_job_lock: a lease that is another's stays.                      *)
ReleaseJobLock(p) ==
    /\ hold[p] # NoHold
    /\ IF SameLease(p) THEN DeleteRow ELSE UNCHANGED lockRow
    /\ hold' = [hold EXCEPT ![p] = NoHold]
    /\ UNCHANGED seen

(* lease_until passes, for the row and the process it was granted to; a    *)
(* grant that lost its row ends by itself.                                 *)
LeaseExpires ==
    /\ Exists /\ lockRow.live
    /\ lockRow' = [lockRow EXCEPT !.live = FALSE]
    /\ hold' = IF hold[lockRow.owner].token = lockRow.token
               THEN [hold EXCEPT ![lockRow.owner].live = FALSE] ELSE hold
    /\ UNCHANGED seen

GrantExpires(p) ==
    /\ hold[p].live /\ ~(lockRow.owner = p /\ lockRow.token = hold[p].token)
    /\ hold' = [hold EXCEPT ![p].live = FALSE]
    /\ UNCHANGED <<lockRow, seen>>

(* The process dies: the row stays.                                        *)
HolderDies(p) ==
    /\ hold[p] # NoHold
    /\ hold' = [hold EXCEPT ![p] = NoHold]
    /\ UNCHANGED <<lockRow, seen>>

(* recover_persistent_state reads the expired rows, ...                    *)
SeeExpired(d) ==
    /\ seen[d] = 0 /\ Exists /\ ~lockRow.live
    /\ seen' = [seen EXCEPT ![d] = lockRow.id]
    /\ UNCHANGED <<lockRow, hold>>

(* ... and deletes them by primary key.                                    *)
DeleteExpired(d) ==
    /\ seen[d] # 0
    /\ IF Exists /\ lockRow.id = seen[d] THEN DeleteRow ELSE UNCHANGED lockRow
    /\ seen' = [seen EXCEPT ![d] = 0]
    /\ UNCHANGED hold

LockStep ==
    \/ \E p \in Procs : \/ AcquireJobLock(p) \/ RenewJobLock(p) \/ ReleaseJobLock(p)
                        \/ GrantExpires(p) \/ HolderDies(p)
    \/ LeaseExpires
    \/ \E d \in Watchdogs : SeeExpired(d) \/ DeleteExpired(d)

(* A watchdog that has read a row deletes it before anything else happens. *)
WatchdogIsPrompt == (\A d \in Watchdogs : seen[d] = 0) \/ \E d \in Watchdogs : DeleteExpired(d)

LockNext == LockStep /\ (deployment.prompt => WatchdogIsPrompt) /\ UNCHANGED deployment

LockSpec == LockInit /\ [][LockNext]_lockVars

-----------------------------------------------------------------------------
LockTypeOK ==
    /\ deployment \in Deployments
    /\ lockRow \in [id : 0..MaxRows, token : 0..MaxToken, owner : Procs \cup {NoOwner},
                live : BOOLEAN]
    /\ ~Exists => ~lockRow.live /\ lockRow.token = 0
    /\ hold \in [Procs -> [id : 0..MaxRows, token : 0..MaxToken, live : BOOLEAN]]
    /\ seen \in [Watchdogs -> 0..MaxRows]

(* The lease is exclusive: no two processes work under a live grant at a   *)
(* time, as long as each node runs one process and the watchdog is prompt. *)
OneProcessPerNode == \A p, q \in Procs : NodeOf[p] = NodeOf[q] => p = q
OneLiveHolder ==
    OneProcessPerNode /\ deployment.prompt =>
        \A p, q \in Procs : hold[p].live /\ hold[q].live => p = q

(* locks.py:32 "stale or expired fencing token": as long as its row is not *)
(* deleted, what renew_job_lock and release_job_lock accept is the lease   *)
(* that was granted last, on a shared node and with a late watchdog too.   *)
TokensFence ==
    \A p \in Procs : hold[p].token > 0 /\ hold[p].id = lockRow.id /\ SameLease(p) => lockRow.owner = p

(* The lease as a whole (locks.py:13-50): exclusive where nodes are told   *)
(* apart, and fenced everywhere.                                           *)
LeaseIsExclusive == OneLiveHolder /\ TokensFence
=============================================================================
