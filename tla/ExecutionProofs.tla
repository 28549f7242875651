--------------------------- MODULE ExecutionProofs ---------------------------
(***************************************************************************)
(* Proofs about what the execution of a plan rests on: the lease on its job*)
(* (JobLock), for any number of processes, tokens and rows; the order of   *)
(* its steps (StepOrder), for every graph over any set of keys; and the    *)
(* composite plan (CompositeDag), for every DAG and every bound.           *)
(***************************************************************************)
EXTENDS JobLock, StepOrder, CompositeDag, WellFoundedInduction, SequenceTheorems, TLAPS

-----------------------------------------------------------------------------
(* The lease.                                                              *)

(* What exclusion rests on: a process with a live grant owns the row, which*)
(* is live and carries its token.                                          *)
LiveOwnsRow ==
    \A p \in Procs : hold[p].live =>
        lockRow.owner = p /\ lockRow.live /\ lockRow.token = hold[p].token

LockTyped ==
    /\ lockRow \in [id : Nat, token : Nat, owner : Procs \cup {NoOwner}, live : BOOLEAN]
    /\ lockRow.live => lockRow.owner \in Procs
    /\ hold \in [Procs -> [id : Nat, token : Nat, live : BOOLEAN]]

(* The watchdog is about to delete an expired row or none.                 *)
SeenIsDead ==
    /\ seen \in [Watchdogs -> Nat]
    /\ \A d \in Watchdogs : seen[d] # 0 /\ Exists /\ lockRow.id = seen[d] => ~lockRow.live

LeaseInv == LockTyped /\ LiveOwnsRow
PromptLeaseInv == LeaseInv /\ SeenIsDead

(* Only one kind of deployment excludes, and a deployment stays.           *)
Excludes == OneProcessPerNode /\ deployment.prompt
ExclusiveLeaseInv == Excludes => PromptLeaseInv

LEMMA LeaseInvInitially == LockInit => PromptLeaseInv
BY NoOwnerAssumption
   DEF LockInit, PromptLeaseInv, LeaseInv, LockTyped, LiveOwnsRow, SeenIsDead, NoLockRow, NoHold, Exists

LEMMA LeaseInvKept ==
    ASSUME Excludes, PromptLeaseInv, [LockNext]_lockVars
    PROVE  LeaseInv'
<1> USE DEF LeaseInv, PromptLeaseInv
<1>0. \A p, q \in Procs : NodeOf[p] = NodeOf[q] => p = q
  BY DEF Excludes, OneProcessPerNode
<1>1. CASE UNCHANGED lockVars
  BY <1>1 DEF LockTyped, LiveOwnsRow, lockVars
<1>2. ASSUME NEW p \in Procs, AcquireJobLock(p)  PROVE LeaseInv'
  <2>1. ASSUME NEW id \in Nat, NEW token \in Nat, Grant(p, id, token),
               \A q \in Procs : hold[q].live => q = p
        PROVE  LeaseInv'
    <3>1. LockTyped'
      BY <2>1 DEF LockTyped, Grant
    <3>2. LiveOwnsRow'
      BY <2>1 DEF LockTyped, LiveOwnsRow, Grant
    <3> QED BY <3>1, <3>2
  <2>2. lockRow.id \in Nat /\ lockRow.token \in Nat /\ lockRow.id + 1 \in Nat /\ NextToken \in Nat
    BY DEF LockTyped, NextToken
  <2>3. CASE ~Exists /\ Grant(p, lockRow.id + 1, 1)
    <3>1. \A q \in Procs : ~hold[q].live
      BY <2>3, NoOwnerAssumption DEF Exists, LiveOwnsRow, LockTyped
    <3> QED BY <3>1, <2>1, <2>2, <2>3
  <2>4. CASE Exists /\ MayTakeOver(p) /\ Grant(p, lockRow.id, NextToken)
    <3>1. lockRow.owner \in Procs
      BY <2>4 DEF Exists, LockTyped
    <3>2. \A q \in Procs : hold[q].live => q = p
      BY <1>0, <2>4, <3>1 DEF MayTakeOver, Node, LiveOwnsRow
    <3> QED BY <3>2, <2>1, <2>2, <2>4
  <2> QED BY <1>2, <2>3, <2>4 DEF AcquireJobLock
<1>3. ASSUME NEW p \in Procs, RenewJobLock(p)  PROVE LeaseInv'
  <2>1. CASE SameLease(p) /\ lockRow.live
    <3>1. lockRow.owner \in Procs
      BY <2>1 DEF SameLease, Exists, LockTyped
    <3>2. lockRow.owner = p
      BY <1>0, <2>1, <3>1 DEF SameLease, Node
    <3>3. lockRow' = lockRow /\ hold' = [hold EXCEPT ![p].live = TRUE]
      BY <1>3, <2>1 DEF RenewJobLock
    <3>4. hold[p] \in [id : Nat, token : Nat, live : BOOLEAN]
      BY DEF LockTyped
    <3>5. LockTyped'
      BY <3>3, <3>4 DEF LockTyped
    <3>6. LiveOwnsRow'
      BY <2>1, <3>2, <3>3, <3>4 DEF LockTyped, LiveOwnsRow, SameLease
    <3> QED BY <3>5, <3>6
  <2>2. CASE ~(SameLease(p) /\ lockRow.live)
    <3>1. lockRow' = lockRow /\ hold' = [hold EXCEPT ![p] = NoHold]
      BY <1>3, <2>2 DEF RenewJobLock
    <3> QED BY <3>1 DEF LockTyped, LiveOwnsRow, NoHold
  <2> QED BY <2>1, <2>2
<1>4. ASSUME NEW p \in Procs, ReleaseJobLock(p)  PROVE LeaseInv'
  <2>1. CASE SameLease(p)
    <3>0. lockRow.owner \in Procs
      BY <2>1 DEF SameLease, Exists, LockTyped
    <3>1. lockRow.owner = p
      BY <1>0, <2>1, <3>0 DEF SameLease, Node
    <3>2. lockRow' = [NoLockRow EXCEPT !.id = lockRow.id] /\ hold' = [hold EXCEPT ![p] = NoHold]
      BY <1>4, <2>1 DEF ReleaseJobLock, DeleteRow
    <3>3. LockTyped'
      BY <3>2 DEF LockTyped, NoLockRow, NoHold
    <3>4. LiveOwnsRow'
      BY <3>1, <3>2 DEF LockTyped, LiveOwnsRow, NoHold
    <3> QED BY <3>3, <3>4
  <2>2. CASE ~SameLease(p)
    BY <1>4, <2>2 DEF ReleaseJobLock, LockTyped, LiveOwnsRow, NoHold
  <2> QED BY <2>1, <2>2
<1>5. ASSUME NEW p \in Procs, GrantExpires(p)  PROVE LeaseInv'
  BY <1>5 DEF GrantExpires, LockTyped, LiveOwnsRow
<1>6. ASSUME NEW p \in Procs, HolderDies(p)  PROVE LeaseInv'
  BY <1>6 DEF HolderDies, LockTyped, LiveOwnsRow, NoHold
<1>7. CASE LeaseExpires
  <2>1. lockRow.owner \in Procs
    BY <1>7 DEF LeaseExpires, LockTyped
  <2>2. CASE hold[lockRow.owner].token = lockRow.token
    <3>1. /\ lockRow' = [lockRow EXCEPT !.live = FALSE]
          /\ hold' = [hold EXCEPT ![lockRow.owner].live = FALSE]
      BY <1>7, <2>2 DEF LeaseExpires
    <3>2. LockTyped'
      BY <2>1, <3>1 DEF LockTyped
    <3>3. \A q \in Procs : ~hold'[q].live
      BY <2>1, <3>1 DEF LockTyped, LiveOwnsRow
    <3> QED BY <3>2, <3>3 DEF LiveOwnsRow
  <2>3. CASE hold[lockRow.owner].token # lockRow.token
    BY <1>7, <2>1, <2>3 DEF LeaseExpires, LockTyped, LiveOwnsRow
  <2> QED BY <2>2, <2>3
<1>8. ASSUME NEW d \in Watchdogs, SeeExpired(d)  PROVE LeaseInv'
  BY <1>8 DEF SeeExpired, LockTyped, LiveOwnsRow
<1>9. ASSUME NEW d \in Watchdogs, DeleteExpired(d)  PROVE LeaseInv'
  <2>1. CASE UNCHANGED lockRow
    BY <1>9, <2>1 DEF DeleteExpired, LockTyped, LiveOwnsRow
  <2>2. CASE Exists /\ lockRow.id = seen[d] /\ DeleteRow
    <3>1. ~lockRow.live
      BY <1>9, <2>2 DEF DeleteExpired, SeenIsDead
    <3>2. LockTyped'
      BY <1>9, <2>2 DEF DeleteExpired, DeleteRow, LockTyped, NoLockRow
    <3>3. LiveOwnsRow'
      BY <1>9, <3>1 DEF DeleteExpired, LiveOwnsRow
    <3> QED BY <3>2, <3>3
  <2> QED BY <1>9, <2>1, <2>2 DEF DeleteExpired
<1> QED
  BY <1>1, <1>2, <1>3, <1>4, <1>5, <1>6, <1>7, <1>8, <1>9 DEF LockNext, LockStep

LEMMA StepSeen ==
    ASSUME Excludes, PromptLeaseInv, [LockNext]_lockVars
    PROVE  SeenIsDead'
<1>1. LockTyped /\ SeenIsDead
  BY DEF PromptLeaseInv, LeaseInv
<1>2. CASE UNCHANGED lockVars
  BY <1>1, <1>2 DEF lockVars, SeenIsDead, Exists
<1>3. ASSUME NEW d \in Watchdogs, DeleteExpired(d)  PROVE SeenIsDead'
  <2>1. seen' \in [Watchdogs -> Nat] /\ \A e \in Watchdogs : seen'[e] # 0 => seen'[e] = seen[e]
    BY <1>1, <1>3 DEF DeleteExpired, SeenIsDead
  <2>2. UNCHANGED lockRow \/ lockRow' = [NoLockRow EXCEPT !.id = lockRow.id]
    BY <1>3 DEF DeleteExpired, DeleteRow
  <2>3. lockRow'.live => UNCHANGED lockRow
    BY <2>2 DEF NoLockRow
  <2> QED BY <1>1, <2>1, <2>3 DEF SeenIsDead, Exists
<1>4. CASE (\A d \in Watchdogs : seen[d] = 0) /\ UNCHANGED seen
  BY <1>1, <1>4 DEF SeenIsDead
<1>5. ASSUME NEW d \in Watchdogs, SeeExpired(d)  PROVE SeenIsDead'
  <2>1. ~lockRow.live /\ lockRow' = lockRow /\ lockRow.id \in Nat
    BY <1>1, <1>5 DEF SeeExpired, LockTyped
  <2>2. seen' \in [Watchdogs -> Nat]
    BY <1>1, <1>5, <2>1 DEF SeeExpired, SeenIsDead
  <2> QED BY <2>1, <2>2 DEF SeenIsDead
<1>6. UNCHANGED lockVars \/ (\A d \in Watchdogs : seen[d] = 0) \/ \E d \in Watchdogs : DeleteExpired(d)
  BY DEF Excludes, LockNext, WatchdogIsPrompt
<1>7. \/ UNCHANGED lockVars \/ UNCHANGED seen
      \/ \E d \in Watchdogs : SeeExpired(d) \/ DeleteExpired(d)
  BY DEF LockNext, LockStep, AcquireJobLock, RenewJobLock, ReleaseJobLock, GrantExpires, HolderDies, LeaseExpires
<1> QED BY <1>2, <1>3, <1>4, <1>5, <1>6, <1>7

(* locks.py excludes: with one process on each node, never two processes   *)
(* work under a live lease of the job, whoever dies and with any number of *)
(* watchdogs, as long as these delete a row at once when they find it      *)
(* expired.                                                                *)
THEOREM Exclusion == LockSpec => []OneLiveHolder
<1>1. LockInit => ExclusiveLeaseInv
  BY LeaseInvInitially DEF ExclusiveLeaseInv
<1>2. ExclusiveLeaseInv /\ [LockNext]_lockVars => ExclusiveLeaseInv'
  <2>1. [LockNext]_lockVars => (Excludes' <=> Excludes)
    BY DEF LockNext, lockVars, Excludes, OneProcessPerNode, NodeOf
  <2> QED BY <2>1, LeaseInvKept, StepSeen DEF ExclusiveLeaseInv, PromptLeaseInv
<1>3. ExclusiveLeaseInv => OneLiveHolder
  BY DEF ExclusiveLeaseInv, Excludes, PromptLeaseInv, LeaseInv, LiveOwnsRow, OneLiveHolder
<1> QED
  BY <1>1, <1>2, <1>3, PTL DEF LockSpec

-----------------------------------------------------------------------------
(* What fencing rests on: no grant is of a row still to come, and among the*)
(* grants of the present row only its owner's carries its token.           *)
GrantsOrdered ==
    /\ lockRow \in [id : Nat, token : Nat, owner : Procs \cup {NoOwner}, live : BOOLEAN]
    /\ hold \in [Procs -> [id : Nat, token : Nat, live : BOOLEAN]]
    /\ \A p \in Procs : hold[p].id <= lockRow.id
    /\ \A p \in Procs : Exists /\ hold[p].token > 0 /\ hold[p].id = lockRow.id =>
          hold[p].token <= lockRow.token /\ (hold[p].token = lockRow.token => lockRow.owner = p)

(* A step that grants nothing: the row stays, expires or goes, and grants  *)
(* stay or are given up.                                                   *)
LEMMA OrderKept ==
    ASSUME GrantsOrdered,
           lockRow' \in {lockRow, [lockRow EXCEPT !.live = FALSE], [NoLockRow EXCEPT !.id = lockRow.id]},
           hold' \in [Procs -> [id : Nat, token : Nat, live : BOOLEAN]],
           \A p \in Procs : \/ hold'[p].id = hold[p].id /\ hold'[p].token = hold[p].token
                            \/ hold'[p] = NoHold
    PROVE  GrantsOrdered'
<1>1. /\ lockRow' \in [id : Nat, token : Nat, owner : Procs \cup {NoOwner}, live : BOOLEAN]
      /\ lockRow'.id = lockRow.id
      /\ Exists' => Exists /\ lockRow'.token = lockRow.token /\ lockRow'.owner = lockRow.owner
  <2>1. CASE lockRow' = lockRow
    BY <2>1 DEF GrantsOrdered, Exists
  <2>2. CASE lockRow' = [lockRow EXCEPT !.live = FALSE]
    BY <2>2 DEF GrantsOrdered, Exists
  <2>3. CASE lockRow' = [NoLockRow EXCEPT !.id = lockRow.id]
    BY <2>3 DEF GrantsOrdered, NoLockRow, Exists
  <2> QED BY <2>1, <2>2, <2>3
<1>2. \A p \in Procs : hold'[p].id <= lockRow'.id
  BY <1>1 DEF GrantsOrdered, NoHold
<1>3. ASSUME NEW p \in Procs, Exists', hold'[p].token > 0, hold'[p].id = lockRow'.id
      PROVE  hold'[p].token <= lockRow'.token /\ (hold'[p].token = lockRow'.token => lockRow'.owner = p)
  BY <1>1, <1>3 DEF GrantsOrdered, NoHold
<1> QED BY <1>1, <1>2, <1>3 DEF GrantsOrdered

LEMMA StepOrdered == GrantsOrdered /\ [LockNext]_lockVars => GrantsOrdered'
<1> SUFFICES ASSUME GrantsOrdered, [LockNext]_lockVars  PROVE GrantsOrdered'
  OBVIOUS
<1>1. CASE UNCHANGED lockVars
  BY <1>1, OrderKept DEF lockVars, GrantsOrdered
<1>2. ASSUME NEW p \in Procs, AcquireJobLock(p)  PROVE GrantsOrdered'
  <2>1. ASSUME NEW id \in Nat, NEW token \in Nat, Grant(p, id, token), lockRow.id <= id,
               \A q \in Procs \ {p} : hold[q].token > 0 /\ hold[q].id = id => hold[q].token < token
        PROVE  GrantsOrdered'
    <3>1. /\ lockRow' = [id |-> id, token |-> token, owner |-> p, live |-> TRUE]
          /\ hold' = [hold EXCEPT ![p] = [id |-> id, token |-> token, live |-> TRUE]]
      BY <2>1 DEF Grant
    <3>2. /\ lockRow' \in [id : Nat, token : Nat, owner : Procs \cup {NoOwner}, live : BOOLEAN]
          /\ hold' \in [Procs -> [id : Nat, token : Nat, live : BOOLEAN]]
      BY <3>1 DEF GrantsOrdered
    <3>3. \A q \in Procs : hold'[q].id <= lockRow'.id
      BY <2>1, <3>1 DEF GrantsOrdered
    <3>4. \A q \in Procs : hold'[q].token > 0 /\ hold'[q].id = lockRow'.id =>
             hold'[q].token <= lockRow'.token /\ (hold'[q].token = lockRow'.token => lockRow'.owner = q)
      BY <2>1, <3>1 DEF GrantsOrdered
    <3> QED BY <3>2, <3>3, <3>4 DEF GrantsOrdered
  <2>2. lockRow.id \in Nat /\ lockRow.token \in Nat /\ lockRow.id + 1 \in Nat /\ NextToken \in Nat
    BY DEF GrantsOrdered, NextToken
  <2>3. CASE ~Exists /\ Grant(p, lockRow.id + 1, 1)
    <3>1. \A q \in Procs : hold[q].id # lockRow.id + 1
      BY <2>2 DEF GrantsOrdered
    <3> QED BY <2>1, <2>2, <2>3, <3>1
  <2>4. CASE Exists /\ Grant(p, lockRow.id, NextToken)
    <3>1. \A q \in Procs : hold[q].token > 0 /\ hold[q].id = lockRow.id => hold[q].token < NextToken
      BY <2>2, <2>4 DEF GrantsOrdered, NextToken
    <3> QED BY <2>1, <2>2, <2>4, <3>1
  <2> QED BY <1>2, <2>3, <2>4 DEF AcquireJobLock
<1>3. ASSUME NEW p \in Procs, RenewJobLock(p)  PROVE GrantsOrdered'
  <2>1. lockRow' = lockRow /\ hold' \in {[hold EXCEPT ![p].live = TRUE], [hold EXCEPT ![p] = NoHold]}
    BY <1>3 DEF RenewJobLock
  <2>2. lockRow' \in {lockRow, [lockRow EXCEPT !.live = FALSE], [NoLockRow EXCEPT !.id = lockRow.id]}
    BY <2>1
  <2>3. hold' \in [Procs -> [id : Nat, token : Nat, live : BOOLEAN]]
    <3>1. CASE hold' = [hold EXCEPT ![p].live = TRUE]
      <4>1. hold[p] \in [id : Nat, token : Nat, live : BOOLEAN]
        BY DEF GrantsOrdered
      <4> QED BY <3>1, <4>1 DEF GrantsOrdered
    <3>2. CASE hold' = [hold EXCEPT ![p] = NoHold]
      BY <3>2 DEF GrantsOrdered, NoHold
    <3> QED BY <2>1, <3>1, <3>2
  <2>4. \A q \in Procs : \/ hold'[q].id = hold[q].id /\ hold'[q].token = hold[q].token
                         \/ hold'[q] = NoHold
    BY <2>1 DEF GrantsOrdered
  <2> QED BY <2>2, <2>3, <2>4, OrderKept
<1>4. ASSUME NEW p \in Procs, ReleaseJobLock(p)  PROVE GrantsOrdered'
  <2>1. lockRow' \in {lockRow, [NoLockRow EXCEPT !.id = lockRow.id]} /\ hold' = [hold EXCEPT ![p] = NoHold]
    BY <1>4 DEF ReleaseJobLock, DeleteRow
  <2>2. lockRow' \in {lockRow, [lockRow EXCEPT !.live = FALSE], [NoLockRow EXCEPT !.id = lockRow.id]}
    BY <2>1
  <2>3. hold' \in [Procs -> [id : Nat, token : Nat, live : BOOLEAN]]
    BY <2>1 DEF GrantsOrdered, NoHold
  <2>4. \A q \in Procs : \/ hold'[q].id = hold[q].id /\ hold'[q].token = hold[q].token
                         \/ hold'[q] = NoHold
    BY <2>1 DEF GrantsOrdered
  <2> QED BY <2>2, <2>3, <2>4, OrderKept
<1>5. ASSUME NEW p \in Procs, GrantExpires(p) \/ HolderDies(p)  PROVE GrantsOrdered'
  <2>1. lockRow' = lockRow /\ hold' \in {[hold EXCEPT ![p].live = FALSE], [hold EXCEPT ![p] = NoHold]}
    BY <1>5 DEF GrantExpires, HolderDies
  <2>2. lockRow' \in {lockRow, [lockRow EXCEPT !.live = FALSE], [NoLockRow EXCEPT !.id = lockRow.id]}
    BY <2>1
  <2>3. hold' \in [Procs -> [id : Nat, token : Nat, live : BOOLEAN]]
    <3>1. CASE hold' = [hold EXCEPT ![p].live = FALSE]
      <4>1. hold[p] \in [id : Nat, token : Nat, live : BOOLEAN]
        BY DEF GrantsOrdered
      <4> QED BY <3>1, <4>1 DEF GrantsOrdered
    <3>2. CASE hold' = [hold EXCEPT ![p] = NoHold]
      BY <3>2 DEF GrantsOrdered, NoHold
    <3> QED BY <2>1, <3>1, <3>2
  <2>4. \A q \in Procs : \/ hold'[q].id = hold[q].id /\ hold'[q].token = hold[q].token
                         \/ hold'[q] = NoHold
    BY <2>1 DEF GrantsOrdered
  <2> QED BY <2>2, <2>3, <2>4, OrderKept
<1>6. CASE LeaseExpires
  <2>1. /\ lockRow' = [lockRow EXCEPT !.live = FALSE]
        /\ hold' \in {[hold EXCEPT ![lockRow.owner].live = FALSE], hold}
    BY <1>6 DEF LeaseExpires
  <2>2. lockRow' \in {lockRow, [lockRow EXCEPT !.live = FALSE], [NoLockRow EXCEPT !.id = lockRow.id]}
    BY <2>1
  <2>3. hold' \in [Procs -> [id : Nat, token : Nat, live : BOOLEAN]]
    <3>1. hold \in [Procs -> [id : Nat, token : Nat, live : BOOLEAN]]
      BY DEF GrantsOrdered
    <3>2. CASE hold' = [hold EXCEPT ![lockRow.owner].live = FALSE]
      BY <3>1, <3>2
    <3>3. CASE hold' = hold
      BY <3>1, <3>3
    <3> QED BY <2>1, <3>2, <3>3
  <2>4. \A q \in Procs : \/ hold'[q].id = hold[q].id /\ hold'[q].token = hold[q].token
                         \/ hold'[q] = NoHold
    BY <2>1 DEF GrantsOrdered
  <2> QED BY <2>2, <2>3, <2>4, OrderKept
<1>7. ASSUME NEW d \in Watchdogs, SeeExpired(d) \/ DeleteExpired(d)  PROVE GrantsOrdered'
  <2>1. lockRow' \in {lockRow, [NoLockRow EXCEPT !.id = lockRow.id]} /\ hold' = hold
    BY <1>7 DEF SeeExpired, DeleteExpired, DeleteRow
  <2>2. lockRow' \in {lockRow, [lockRow EXCEPT !.live = FALSE], [NoLockRow EXCEPT !.id = lockRow.id]}
    BY <2>1
  <2>3. hold' \in [Procs -> [id : Nat, token : Nat, live : BOOLEAN]]
    BY <2>1 DEF GrantsOrdered, NoHold
  <2>4. \A q \in Procs : \/ hold'[q].id = hold[q].id /\ hold'[q].token = hold[q].token
                         \/ hold'[q] = NoHold
    BY <2>1 DEF GrantsOrdered
  <2> QED BY <2>2, <2>3, <2>4, OrderKept
<1> QED BY <1>1, <1>2, <1>3, <1>4, <1>5, <1>6, <1>7 DEF LockNext, LockStep

(* The fencing token of locks.py:32, for any processes, nodes and          *)
(* watchdogs, prompt or not: among the grants of one row, renewal and      *)
(* release accept only the last.                                           *)
THEOREM Fencing == LockSpec => []TokensFence
<1>1. LockInit => GrantsOrdered
  BY DEF LockInit, GrantsOrdered, NoLockRow, NoHold, Exists
<1>2. GrantsOrdered => TokensFence
  BY DEF GrantsOrdered, TokensFence, SameLease
<1> QED
  BY <1>1, <1>2, StepOrdered, PTL DEF LockSpec

(* Both together, as the runs check them (locks.py).                       *)
THEOREM ExclusiveLease == LockSpec => []LeaseIsExclusive
<1>1. OneLiveHolder /\ TokensFence => LeaseIsExclusive
  BY DEF LeaseIsExclusive
<1> QED
  BY <1>1, Exclusion, Fencing, PTL
-----------------------------------------------------------------------------
RowType == [id : 0..MaxRows, token : 0..MaxToken, owner : Procs \cup {NoOwner}, live : BOOLEAN]
GrantType == [id : 0..MaxRows, token : 0..MaxToken, live : BOOLEAN]

LEMMA AbsentRow ==
    ASSUME LockTypeOK  PROVE [NoLockRow EXCEPT !.id = lockRow.id] \in RowType
<1>1. lockRow.id \in 0..MaxRows /\ 0 \in 0..MaxToken
  BY LockBoundsAssumption DEF LockTypeOK
<1>2. NoLockRow \in RowType
  BY <1>1, LockBoundsAssumption DEF NoLockRow, RowType
<1> QED BY <1>1, <1>2 DEF RowType

(* A step that grants nothing keeps the types.                             *)
LEMMA TypesKept ==
    ASSUME LockTypeOK, UNCHANGED deployment,
           lockRow' \in {lockRow, [lockRow EXCEPT !.live = FALSE], [NoLockRow EXCEPT !.id = lockRow.id]},
           hold' \in [Procs -> GrantType], seen' \in [Watchdogs -> 0..MaxRows]
    PROVE  LockTypeOK'
<1>1. lockRow' \in RowType
  BY AbsentRow DEF LockTypeOK, RowType
<1>2. ~Exists' => ~lockRow'.live /\ lockRow'.token = 0
  <2>1. CASE lockRow' = lockRow
    BY <2>1 DEF LockTypeOK, Exists
  <2>2. CASE lockRow' = [lockRow EXCEPT !.live = FALSE]
    BY <2>2 DEF LockTypeOK, Exists
  <2>3. CASE lockRow' = [NoLockRow EXCEPT !.id = lockRow.id]
    BY <2>3 DEF NoLockRow
  <2> QED BY <2>1, <2>2, <2>3
<1> QED BY <1>1, <1>2 DEF LockTypeOK, RowType, GrantType

LEMMA StepTypes == LockTypeOK /\ [LockNext]_lockVars => LockTypeOK'
<1> SUFFICES ASSUME LockTypeOK, [LockNext]_lockVars  PROVE LockTypeOK'
  OBVIOUS
<1>0. /\ UNCHANGED deployment
      /\ lockRow \in RowType /\ hold \in [Procs -> GrantType] /\ seen \in [Watchdogs -> 0..MaxRows]
      /\ NoHold \in GrantType
  BY LockBoundsAssumption DEF LockTypeOK, RowType, GrantType, NoHold, LockNext, lockVars
<1>1. CASE UNCHANGED lockVars
  BY <1>1 DEF lockVars, LockTypeOK, Exists
<1>2. ASSUME NEW p \in Procs, AcquireJobLock(p)  PROVE LockTypeOK'
  <2>1. PICK id \in 0..MaxRows, token \in 0..MaxToken : Grant(p, id, token)
    <3>1. CASE ~Exists /\ lockRow.id < MaxRows /\ Grant(p, lockRow.id + 1, 1)
      BY <1>0, <1>2, <3>1, LockBoundsAssumption DEF RowType
    <3>2. CASE Exists /\ lockRow.token < MaxToken /\ Grant(p, lockRow.id, NextToken)
      <4>1. NextToken \in 0..MaxToken /\ lockRow.id \in 0..MaxRows
        BY <1>0, <3>2, LockBoundsAssumption DEF RowType, NextToken
      <4> QED BY <3>2, <4>1
    <3> QED BY <1>2, <3>1, <3>2 DEF AcquireJobLock
  <2>2. /\ lockRow' = [id |-> id, token |-> token, owner |-> p, live |-> TRUE]
        /\ hold' = [hold EXCEPT ![p] = [id |-> id, token |-> token, live |-> TRUE]]
    BY <2>1 DEF Grant
  <2>3. lockRow' \in RowType /\ hold' \in [Procs -> GrantType]
    BY <1>0, <2>2 DEF RowType, GrantType
  <2>4. Exists'
    BY <2>2, NoOwnerAssumption DEF Exists
  <2>5. seen' = seen
    BY <1>2 DEF AcquireJobLock
  <2> QED BY <1>0, <2>3, <2>4, <2>5 DEF LockTypeOK, RowType, GrantType
<1>3. ASSUME NEW p \in Procs, RenewJobLock(p)  PROVE LockTypeOK'
  <2>1. hold[p] \in GrantType
    BY <1>0
  <2>2. [hold[p] EXCEPT !.live = TRUE] \in GrantType
    BY <2>1 DEF GrantType
  <2>3. hold' \in [Procs -> GrantType]
    BY <1>0, <1>3, <2>2 DEF RenewJobLock
  <2>4. lockRow' = lockRow /\ seen' = seen
    BY <1>3 DEF RenewJobLock
  <2> QED BY <1>0, <2>3, <2>4 DEF LockTypeOK, RowType, GrantType, Exists
<1>4. ASSUME NEW p \in Procs, ReleaseJobLock(p)  PROVE LockTypeOK'
  <2>1. /\ lockRow' \in {lockRow, [NoLockRow EXCEPT !.id = lockRow.id]}
        /\ hold' = [hold EXCEPT ![p] = NoHold] /\ seen' = seen
    BY <1>4 DEF ReleaseJobLock, DeleteRow
  <2>2. hold' \in [Procs -> GrantType]
    BY <1>0, <2>1
  <2> QED BY <1>0, <2>1, <2>2, TypesKept
<1>5. ASSUME NEW p \in Procs, GrantExpires(p) \/ HolderDies(p)  PROVE LockTypeOK'
  <2>1. [hold[p] EXCEPT !.live = FALSE] \in GrantType
    BY <1>0 DEF GrantType
  <2>2. hold' \in [Procs -> GrantType] /\ lockRow' = lockRow /\ seen' = seen
    BY <1>0, <1>5, <2>1 DEF GrantExpires, HolderDies
  <2> QED BY <1>0, <2>2 DEF LockTypeOK, RowType, GrantType, Exists
<1>6. CASE LeaseExpires
  <2>1. lockRow.owner \in Procs /\ Exists /\ seen' = seen
    BY <1>0, <1>6 DEF LeaseExpires, Exists, RowType
  <2>2. [hold[lockRow.owner] EXCEPT !.live = FALSE] \in GrantType
    BY <1>0, <2>1 DEF GrantType
  <2>3. hold' \in [Procs -> GrantType]
    BY <1>0, <1>6, <2>2 DEF LeaseExpires
  <2>4. lockRow' = [lockRow EXCEPT !.live = FALSE]
    BY <1>6 DEF LeaseExpires
  <2> QED BY <1>0, <2>1, <2>3, <2>4, TypesKept
<1>7. ASSUME NEW d \in Watchdogs, SeeExpired(d)  PROVE LockTypeOK'
  <2>1. lockRow' = lockRow /\ hold' = hold /\ seen' \in [Watchdogs -> 0..MaxRows]
    BY <1>0, <1>7 DEF SeeExpired, RowType
  <2> QED BY <1>0, <2>1 DEF LockTypeOK, RowType, GrantType, Exists
<1>8. ASSUME NEW d \in Watchdogs, DeleteExpired(d)  PROVE LockTypeOK'
  <2>1. hold' = hold /\ seen' \in [Watchdogs -> 0..MaxRows]
    BY <1>0, <1>8, LockBoundsAssumption DEF DeleteExpired
  <2>2. CASE UNCHANGED lockRow
    BY <1>0, <2>1, <2>2 DEF LockTypeOK, RowType, GrantType, Exists
  <2>3. CASE Exists /\ DeleteRow
    BY <1>0, <2>1, <2>3, TypesKept DEF DeleteRow
  <2> QED BY <1>8, <2>2, <2>3 DEF DeleteExpired
<1> QED
  BY <1>1, <1>2, <1>3, <1>4, <1>5, <1>6, <1>7, <1>8 DEF LockNext, LockStep

(* Rows, grants and the watchdogs' keys stay within the bounds of the      *)
(* instance, and a row that is gone carries neither a lease nor a token    *)
(* (locks.py, recovery.py).                                                *)
THEOREM TypesOfLocks == LockSpec => []LockTypeOK
<1>1. LockInit => LockTypeOK
  BY LockBoundsAssumption DEF LockInit, LockTypeOK, NoLockRow, NoHold, Exists
<1> QED
  BY <1>1, StepTypes, PTL DEF LockSpec

-----------------------------------------------------------------------------
(* The order of steps.                                                     *)

(* A key still remaining is in no round; the rounds are those taken.       *)
RoundsAgree == \A key \in Keys : key \notin remaining => round[key] <= rounds

(* The loop ends only when nothing is ready, and never changes its mind.   *)
EndIsFinal ==
    /\ result = "ordered" => remaining = {}
    /\ result = "COMPOSITE_DEPENDENCY_CYCLE" => remaining # {} /\ Ready = {}

OrderInv == OrderTypeOK /\ OrderRespectsDependencies /\ RoundsAgree /\ EndIsFinal

LEMMA OrderInvInitially == OrderInit => OrderInv
BY DEF OrderInit, OrderInv, OrderTypeOK, OrderRespectsDependencies, RoundsAgree, EndIsFinal

LEMMA TakeRoundKeeps == OrderInv /\ TakeRound => OrderInv'
<1> SUFFICES ASSUME OrderInv, TakeRound PROVE OrderInv'
  OBVIOUS
<1>a. /\ OrderTypeOK /\ OrderRespectsDependencies /\ RoundsAgree /\ EndIsFinal
      /\ dependencies' = dependencies /\ result' = "running" /\ result = "running"
      /\ rounds' = rounds + 1 /\ remaining' = remaining \ Ready /\ Ready \subseteq remaining
      /\ round' = [key \in Keys |-> IF key \in Ready THEN rounds + 1 ELSE round[key]]
  BY DEF OrderInv, TakeRound, Ready
<1>1. OrderTypeOK'
  BY <1>a DEF OrderTypeOK
<1>2. RoundsAgree'
  BY <1>a DEF RoundsAgree, OrderTypeOK
<1>3. OrderRespectsDependencies'
  <2> SUFFICES ASSUME NEW key \in Keys \ remaining', NEW dep \in dependencies[key]
               PROVE  dep \notin remaining' /\ round'[dep] < round'[key]
    BY <1>a DEF OrderRespectsDependencies
  <2>1. dep \in Keys
    BY <1>a DEF OrderTypeOK
  <2>2. CASE key \in Ready
    <3>1. dep \notin remaining
      BY <2>2 DEF Ready
    <3>2. round'[dep] = round[dep] /\ round[dep] <= rounds /\ round'[key] = rounds + 1
      BY <1>a, <2>1, <2>2, <3>1 DEF RoundsAgree
    <3> QED BY <1>a, <2>1, <3>1, <3>2 DEF OrderTypeOK
  <2>3. CASE key \notin Ready
    <3>1. key \notin remaining /\ dep \notin remaining /\ round[dep] < round[key]
      BY <1>a, <2>3 DEF OrderRespectsDependencies
    <3> QED BY <1>a, <2>1, <3>1
  <2> QED BY <2>2, <2>3
<1>4. EndIsFinal'
  BY <1>a DEF EndIsFinal
<1> QED BY <1>1, <1>2, <1>3, <1>4 DEF OrderInv

LEMMA OrderInvKept == OrderInv /\ [OrderNext]_orderVars => OrderInv'
<1> SUFFICES ASSUME OrderInv, [OrderNext]_orderVars PROVE OrderInv'
  OBVIOUS
<1>1. CASE TakeRound
  BY <1>1, TakeRoundKeeps
<1>2. CASE Stop
  <2>1. remaining = {} \/ (remaining # {} /\ Ready = {})
    BY <1>2 DEF Stop
  <2>2. OrderTypeOK' /\ OrderRespectsDependencies' /\ RoundsAgree'
    BY <1>2 DEF Stop, OrderInv, OrderTypeOK, OrderRespectsDependencies, RoundsAgree
  <2> QED BY <1>2, <2>1, <2>2 DEF Stop, OrderInv, EndIsFinal, Ready
<1>3. CASE UNCHANGED orderVars
  BY <1>3 DEF orderVars, OrderInv, OrderTypeOK, OrderRespectsDependencies, RoundsAgree, EndIsFinal, Ready
<1> QED BY <1>1, <1>2, <1>3 DEF OrderNext

(* Rounds are a rank: among the keys of a knot one would come first, and   *)
(* it waits for a key of the knot that comes earlier.                      *)
LEMMA OrderedHasNoCycle == OrderTypeOK /\ OrderRespectsDependencies /\ remaining = {} => ~HasCycle
<1> SUFFICES ASSUME OrderTypeOK, OrderRespectsDependencies, remaining = {},
                    NEW knot \in (SUBSET Keys) \ {{}},
                    \A key \in knot : dependencies[key] \cap knot # {}
             PROVE  FALSE
  BY DEF HasCycle
<1> DEFINE ranks == {round[key] : key \in knot}
<1>0. knot \subseteq Keys /\ \E key \in knot : TRUE
  OBVIOUS
<1>1. ranks \subseteq Nat /\ ranks # {}
  <2>1. \A key \in knot : round[key] \in Nat
    BY <1>0 DEF OrderTypeOK
  <2> QED BY <1>0, <2>1
<1>2. PICK r \in ranks : \A q \in ranks : ~(<<q, r>> \in OpToRel(<, Nat))
  <2> HIDE DEF ranks
  <2> QED BY <1>1, NatLessThanWellFounded, WFMin, Zenon
<1>3. \A q \in ranks : ~(q < r)
  <2> HIDE DEF ranks
  <2> QED BY <1>1, <1>2 DEF OpToRel
<1>4. PICK key \in knot : r = round[key]
  BY <1>2
<1>5. PICK dep \in dependencies[key] \cap knot : TRUE
  OBVIOUS
<1>6. key \in Keys /\ dep \in knot
  BY <1>0, <1>4, <1>5
<1>7. round[dep] < round[key] /\ round[dep] \in ranks
  BY <1>5, <1>6 DEF OrderRespectsDependencies
<1>8. ~(round[dep] < r)
  <2> HIDE DEF ranks
  <2> QED BY <1>3, <1>7
<1> QED BY <1>4, <1>7, <1>8

(* With nothing ready the remaining keys wait for one another.             *)
LEMMA StuckIsCycle == OrderTypeOK /\ remaining # {} /\ Ready = {} => HasCycle
<1> SUFFICES ASSUME OrderTypeOK, remaining # {}, Ready = {} PROVE HasCycle
  OBVIOUS
<1>1. remaining \in (SUBSET Keys) \ {{}}
  BY DEF OrderTypeOK
<1>2. \A key \in remaining : dependencies[key] \cap remaining # {}
  BY DEF Ready
<1> QED BY <1>1, <1>2 DEF HasCycle

LEMMA OrderInvAlways == OrderSpec => []OrderInv
<1> QED BY OrderInvInitially, OrderInvKept, PTL DEF OrderSpec

(* _topological_steps puts every step after its dependencies, whatever the *)
(* graph.                                                                  *)
THEOREM Ordered == OrderSpec => []OrderRespectsDependencies
<1>1. OrderInv => OrderRespectsDependencies
  BY DEF OrderInv
<1> QED BY <1>1, OrderInvAlways, PTL

(* It refuses a graph if and only if the graph has a cycle.                *)
THEOREM RefusesCycles == OrderSpec => []RefusesExactlyCycles
<1>1. OrderInv => RefusesExactlyCycles
  BY OrderedHasNoCycle, StuckIsCycle DEF OrderInv, EndIsFinal, RefusesExactlyCycles
<1> QED BY <1>1, OrderInvAlways, PTL

(* Both together, as the runs check them (_topological_steps).             *)
THEOREM SoundOrder == OrderSpec => []OrderIsSound
<1>1. OrderRespectsDependencies /\ RefusesExactlyCycles => OrderIsSound
  BY DEF OrderIsSound
<1> QED BY <1>1, Ordered, RefusesCycles, PTL

-----------------------------------------------------------------------------
(* Composite plans.                                                         *)

Done(s) == steps[s].status = "QA_PASSED"
Released(s) == steps[s].status \in {"READY", "EXECUTING", "NEEDS_REPAIR", "QA_PASSED"}

(* The step the worker holds: not passed yet, all its dependencies passed. *)
HeldStep ==
    task.at \in {"start", "run", "record", "failStep"} =>
        ~Done(task.step) /\ \A d \in Deps[task.step] : Done(d)

(* The run the worker holds is the step's, and newer than its inputs; it is*)
(* still going while the worker runs it.                                   *)
HeldRun ==
    task.at \in {"run", "record"} =>
        /\ job = "EXECUTING"
        /\ runs[task.run].step = task.step
        /\ task.at = "run" => runs[task.run].status = "EXECUTING"
        /\ \A d \in Deps[task.step] : steps[d].run < task.run

(* Why nobody makes the steps anew under the worker's feet.                *)
JobAgreesWithPlan ==
    /\ plan.status = "FAILED" => task = Idle
    /\ job = "AWARDED" => \A a \in DOMAIN runs : runs[a].status # "EXECUTING"
    /\ job = "AWARDED" /\ task.at \in {"start", "failStep"} => plan.status = "EXECUTING"

IInv ==
    /\ TypeOK /\ DependenciesPassed /\ PassedOnCurrentInputs /\ PassedPlanIsComplete
    /\ HeldStep /\ HeldRun /\ JobAgreesWithPlan

-----------------------------------------------------------------------------
Row == [status : StepStatuses, repairs : Nat, run : Nat]
Run == [status : RunStatuses, step : Steps]

LEMMA DepsAreEarlier ==
    \A s \in Steps : Deps[s] \subseteq Steps /\ s \notin Deps[s]
BY DepsAssumption DEF Steps

LEMMA FirstIsMember ==
    ASSUME NEW S \in SUBSET Steps, S # {}
    PROVE  FirstOf(S) \in S
<1>1. S \subseteq Nat
  BY StepsAssumption DEF Steps
<1>2. PICK s \in S : \A r \in S : ~(<<r, s>> \in OpToRel(<, Nat))
  BY <1>1, NatLessThanWellFounded, WFMin, Zenon
<1>3. \A r \in S : ~(r < s)
  BY <1>1, <1>2 DEF OpToRel
<1>4. \A r \in S : s <= r
  BY <1>1, <1>3
<1> QED BY <1>4 DEF FirstOf

LEMMA TakeableSteps ==
    \A s \in Takeable(Unlocked) : s \in Steps /\ Unlocked[s].status \in {"NEEDS_REPAIR", "READY"}
BY DEF Takeable

(* What unlocking does to a step.                                          *)
LEMMA UnlockedRow ==
    ASSUME TypeOK, NEW s \in Steps
    PROVE  /\ Unlocked[s] \in Row
           /\ Unlocked[s].run = steps[s].run /\ Unlocked[s].repairs = steps[s].repairs
           /\ \/ Unlocked[s] = steps[s]
              \/ /\ steps[s].status = "BLOCKED" /\ Unlocked[s].status = "READY"
                 /\ \A d \in Deps[s] : Done(d)
<1>1. steps[s] \in Row
  BY DEF TypeOK, Row
<1> QED BY <1>1 DEF Unlocked, Row, StepStatuses, Done

LEMMA UnlockedType == TypeOK => Unlocked \in [Steps -> Row]
<1> SUFFICES ASSUME TypeOK PROVE Unlocked \in [Steps -> Row]
  OBVIOUS
<1>1. \A s \in Steps : Unlocked[s] \in Row
  BY UnlockedRow
<1>2. Unlocked = [s \in Steps |-> Unlocked[s]]
  BY DEF Unlocked
<1> QED BY <1>1, <1>2

-----------------------------------------------------------------------------
(* Types.                                                                  *)
LEMMA RunsAppend ==
    ASSUME runs \in Seq(Run), NEW x \in Run, runs' = Append(runs, x)
    PROVE  /\ runs' \in Seq(Run) /\ DOMAIN runs' = DOMAIN runs \cup {NextAttempt}
           /\ NextAttempt \in Nat /\ runs'[NextAttempt] = x
           /\ \A b \in DOMAIN runs : b < NextAttempt /\ runs'[b] = runs[b]
BY AppendProperties DEF NextAttempt

LEMMA ElementWritten ==
    ASSUME NEW S, NEW seq \in Seq(S), NEW i \in 1..Len(seq), NEW x \in S
    PROVE  [seq EXCEPT ![i] = x] \in Seq(S) /\ Len([seq EXCEPT ![i] = x]) = Len(seq)
OBVIOUS

LEMMA RunsExcept ==
    ASSUME runs \in Seq(Run), NEW a \in DOMAIN runs, NEW status \in RunStatuses,
           runs' = [runs EXCEPT ![a].status = status]
    PROVE  /\ runs' \in Seq(Run) /\ DOMAIN runs' = DOMAIN runs
           /\ runs'[a] = [status |-> status, step |-> runs[a].step]
           /\ \A b \in DOMAIN runs : b # a => runs'[b] = runs[b]
<1>1. runs[a] \in Run /\ a \in 1..Len(runs)
  OBVIOUS
<1> DEFINE e == [runs[a] EXCEPT !.status = status]
<1>2. e \in Run /\ e = [status |-> status, step |-> runs[a].step]
  BY <1>1 DEF Run
<1>3. runs' = [runs EXCEPT ![a] = e]
  OBVIOUS
<1> HIDE DEF e
<1>4. runs' \in Seq(Run) /\ Len(runs') = Len(runs)
  <2>1. [runs EXCEPT ![a] = e] \in Seq(Run) /\ Len([runs EXCEPT ![a] = e]) = Len(runs)
    BY <1>1, <1>2, ElementWritten
  <2> QED BY <1>3, <2>1
<1>5. runs'[a] = e /\ \A b \in DOMAIN runs : b # a => runs'[b] = runs[b]
  BY <1>1, <1>3
<1> QED BY <1>2, <1>4, <1>5

(* A step's status and repairs, and its run, written at once.              *)
LEMMA StepsExcept ==
    ASSUME NEW rows \in [Steps -> Row], NEW s \in Steps, NEW status \in StepStatuses,
           NEW n \in Nat
    PROVE  /\ [rows EXCEPT ![s].status = status] \in [Steps -> Row]
           /\ [rows EXCEPT ![s].status = status, ![s].repairs = @ + n] \in [Steps -> Row]
<1>1. rows[s] \in Row
  OBVIOUS
<1>2. [rows EXCEPT ![s].status = status] = [rows EXCEPT ![s] = [rows[s] EXCEPT !.status = status]]
  OBVIOUS
<1>3. [rows EXCEPT ![s].status = status, ![s].repairs = @ + n] =
          [rows EXCEPT ![s] = [rows[s] EXCEPT !.status = status, !.repairs = rows[s].repairs + n]]
  BY <1>1 DEF Row
<1>4. /\ [rows[s] EXCEPT !.status = status] \in Row
      /\ [rows[s] EXCEPT !.status = status, !.repairs = rows[s].repairs + n] \in Row
  <2>1. rows[s].repairs + n \in Nat
    BY <1>1 DEF Row
  <2>2. [rows[s] EXCEPT !.status = status] \in Row
    BY <1>1 DEF Row
  <2>3. [rows[s] EXCEPT !.status = status, !.repairs = rows[s].repairs + n] \in Row
    BY <1>1, <2>1 DEF Row
  <2> QED BY <2>2, <2>3
<1>5. \A r \in Row : [rows EXCEPT ![s] = r] \in [Steps -> Row]
  OBVIOUS
<1> QED BY <1>2, <1>3, <1>4, <1>5

LEMMA RunWritten ==
    ASSUME NEW rows \in [Steps -> Row], NEW s \in Steps, NEW status \in StepStatuses,
           NEW run \in Nat
    PROVE  [rows EXCEPT ![s].status = status, ![s].run = run] \in [Steps -> Row]
<1>1. rows[s] \in Row
  OBVIOUS
<1>2. [rows EXCEPT ![s].status = status, ![s].run = run] =
          [rows EXCEPT ![s] = [rows[s] EXCEPT !.status = status, !.run = run]]
  BY <1>1 DEF Row
<1>3. [rows[s] EXCEPT !.status = status, !.run = run] \in Row
  BY <1>1 DEF Row
<1> QED BY <1>2, <1>3

LEMMA QueueType ==
    ASSUME TypeOK, QueueExecution
    PROVE  plan' \in [status : PlanStatuses, repairs : Nat] /\ queue' \in Nat
           /\ plan'.status \in {"BLOCKED", "READY", "QUEUED"} /\ plan'.repairs = plan.repairs
BY DEF TypeOK, QueueExecution, SetPlan, PlanStatuses

LEMMA RecoverType ==
    ASSUME TypeOK, NEW S \in SUBSET StepWith("EXECUTING"), Recover(S)
    PROVE  /\ plan' \in [status : PlanStatuses, repairs : Nat]
           /\ plan'.status \in {"READY", "NEEDS_REPAIR", "BLOCKED"}
           /\ \/ steps' = steps
              \/ \E s \in S, status \in {"NEEDS_REPAIR", "BLOCKED"} :
                    steps' = [steps EXCEPT ![s].status = status]
<1>1. SafePlanState \in {"READY", "NEEDS_REPAIR", "BLOCKED"}
  BY DEF SafePlanState
<1>2. /\ plan' = [plan EXCEPT !.status = plan'.status]
      /\ plan'.status \in {"READY", "NEEDS_REPAIR", "BLOCKED"}
  BY <1>1 DEF Recover, SetPlan, TypeOK
<1>3. plan' \in [status : PlanStatuses, repairs : Nat]
  BY <1>2 DEF TypeOK, PlanStatuses
<1>4. CASE S = {}
  BY <1>2, <1>3, <1>4 DEF Recover
<1>5. CASE S # {}
  <2>1. S \subseteq Steps
    BY DEF StepWith
  <2>2. FirstOf(S) \in S
    BY <1>5, <2>1, FirstIsMember
  <2> QED BY <1>2, <1>3, <1>5, <2>2 DEF Recover
<1> QED BY <1>4, <1>5

LEMMA TypeStep == TypeOK /\ [Next]_vars => TypeOK'
<1> SUFFICES ASSUME TypeOK, [Next]_vars PROVE TypeOK'
  OBVIOUS
<1> USE DEF StepStatuses, PlanStatuses, RunStatuses, Places, Idle
<1>a. Unlocked \in [Steps -> Row]
  BY UnlockedType
<1>1. CASE UNCHANGED vars
  BY <1>1 DEF TypeOK, vars
<1>2. CASE PlanAwardedJob
  <2>1. FreshSteps \in [Steps -> Row]
    BY DEF FreshSteps, Row
  <2> QED BY <1>2, <2>1, QueueType DEF PlanAwardedJob, TypeOK, Row
<1>3. CASE Pop
  <2>1. queue' \in Nat
    <3>1. queue' = queue - 1 /\ queue > 0
      BY <1>3 DEF Pop
    <3> QED BY <3>1 DEF TypeOK
  <2>2. UNCHANGED <<job, plan, steps, runs, reopened, crashes>>
    BY <1>3 DEF Pop
  <2>3. task' \in [at : Places, left : Nat, step : Steps \cup {0}, run : Nat,
                  next : PlanStatuses \cup {"allow"}]
        /\ task'.at \in {"idle", "loop"}
    <3>1. CASE task' = task
      BY <1>3, <3>1 DEF Pop, TypeOK
    <3>2. CASE task' # task
      <4>1. PICK limit \in Limits : task' = [Idle EXCEPT !.at = "loop", !.left = limit]
        BY <1>3, <3>2 DEF Pop
      <4>2. limit \in Nat
        BY StepsAssumption
      <4> QED BY <4>1, <4>2
    <3> QED BY <3>1, <3>2
  <2> QED BY <2>1, <2>2, <2>3 DEF TypeOK
<1>4. CASE EndPlan
  BY <1>4, <1>a DEF EndPlan, SetPlan, TypeOK, Row
<1>5. CASE RefuseRepair
  <2>1. steps' \in [Steps -> Row]
    BY <1>5, <1>a DEF RefuseRepair, Row
  <2> QED BY <1>5, <2>1 DEF RefuseRepair, SetPlan, TypeOK, Row
<1>6. CASE TakeStep
  <2> DEFINE s == FirstOf(Takeable(Unlocked))
             one == IF StepWith("NEEDS_REPAIR") # {} THEN 1 ELSE 0
  <2>1. s \in Steps
    BY <1>6, TakeableSteps, FirstIsMember DEF TakeStep
  <2>2. one \in Nat
    OBVIOUS
  <2>3. steps' = [Unlocked EXCEPT ![s].status = "EXECUTING", ![s].repairs = @ + one]
    BY <1>6 DEF TakeStep
  <2> HIDE DEF one, s
  <2>4. steps' \in [Steps -> Row]
    BY <1>a, <2>1, <2>2, <2>3, StepsExcept
  <2>5. plan' \in [status : PlanStatuses, repairs : Nat]
    BY <1>6, <2>2 DEF TakeStep, TypeOK, one
  <2>6. /\ task'.at = "start" /\ task'.step \in Steps
        /\ task' \in [at : Places, left : Nat, step : Steps \cup {0}, run : Nat,
                        next : PlanStatuses \cup {"allow"}]
    <3>1. task.left - 1 \in Nat
      BY <1>6 DEF TakeStep, TypeOK
    <3>2. \E next \in {"allow", "NONE"} :
             task' = [task EXCEPT !.at = "start", !.step = s, !.left = task.left - 1,
                                  !.next = next]
      BY <1>6 DEF TakeStep, s
    <3> QED BY <2>1, <3>1, <3>2 DEF TypeOK
  <2> QED BY <1>6, <2>4, <2>5, <2>6 DEF TakeStep, TypeOK, Row
<1>7. CASE LoopRaises
  BY <1>7 DEF LoopRaises, TypeOK
<1>8. CASE LoopEnds
  BY <1>8 DEF LoopEnds, SetPlan, TypeOK
<1>9. CASE StartStep
  <2>1. CASE task' = [task EXCEPT !.at = "failStep"] /\ UNCHANGED <<job, runs>>
    BY <1>9, <2>1 DEF StartStep, TypeOK
  <2>2. CASE /\ runs' = Append(runs, [status |-> "EXECUTING", step |-> task.step])
             /\ job' = "EXECUTING"
             /\ task' = [task EXCEPT !.at = "run", !.run = NextAttempt]
    <3>1. [status |-> "EXECUTING", step |-> task.step] \in Run
      BY <1>9 DEF StartStep, TypeOK, Run
    <3>2. runs' \in Seq(Run) /\ NextAttempt \in DOMAIN runs' /\ NextAttempt \in Nat
      BY <2>2, <3>1, RunsAppend DEF TypeOK, Run
    <3> QED BY <1>9, <2>2, <3>2 DEF StartStep, TypeOK, Run
  <2> QED BY <1>9, <2>1, <2>2 DEF StartStep
<1>10. CASE RunStep
  <2>1. PICK status \in {"QA_PASSED", "NEEDS_REPAIR", "FAILED"} :
          /\ runs' = [runs EXCEPT ![task.run].status = status]
          /\ job' = IF status = "FAILED" /\ job = "EXECUTING" THEN "FAILED" ELSE job
          /\ task' = [task EXCEPT !.at = IF status = "FAILED" THEN "failStep" ELSE "record"]
    BY <1>10 DEF RunStep
  <2>2. task.run \in DOMAIN runs /\ runs \in Seq(Run)
    BY <1>10 DEF RunStep, TypeOK, Run
  <2>3. /\ runs' \in Seq(Run) /\ DOMAIN runs' = DOMAIN runs
        /\ runs'[task.run].status = status
    <3>1. status \in RunStatuses
      OBVIOUS
    <3> HIDE DEF RunStatuses
    <3>2. /\ runs' \in Seq(Run) /\ DOMAIN runs' = DOMAIN runs
          /\ runs'[task.run] = [status |-> status, step |-> runs[task.run].step]
      BY <2>1, <2>2, <3>1, RunsExcept, Zenon
    <3> QED BY <3>2
  <2>4. task' \in [at : Places, left : Nat, step : Steps \cup {0}, run : Nat,
                   next : PlanStatuses \cup {"allow"}]
        /\ task'.at \in {"failStep", "record"} /\ task'.step = task.step /\ task'.run = task.run
        /\ task'.at = "record" => status # "FAILED"
    BY <2>1 DEF TypeOK
  <2> QED BY <1>10, <2>1, <2>2, <2>3, <2>4 DEF RunStep, TypeOK, Run
<1>11. CASE RecordStep
  <2>1. PICK status \in {"BLOCKED", Verdict} :
          /\ steps' = [steps EXCEPT ![task.step].status = status, ![task.step].run = task.run]
          /\ task' = IF status = "QA_PASSED"
                     THEN [Idle EXCEPT !.at = "loop", !.left = task.left]
                     ELSE [task EXCEPT !.at = "writePlan", !.next = status]
    BY <1>11 DEF RecordStep
  <2>2. status \in {"BLOCKED", "QA_PASSED", "NEEDS_REPAIR"} /\ task.run \in Nat
    BY <1>11 DEF RecordStep, Verdict, TypeOK
  <2>3. steps' \in [Steps -> Row]
    <3>1. steps \in [Steps -> Row] /\ task.step \in Steps /\ status \in StepStatuses
      BY <1>11, <2>2 DEF RecordStep, TypeOK, Row, StepStatuses
    <3> QED BY <2>1, <2>2, <3>1, RunWritten
  <2>4. /\ task' \in [at : Places, left : Nat, step : Steps \cup {0}, run : Nat,
                      next : PlanStatuses \cup {"allow"}]
        /\ task'.at \in {"loop", "writePlan"}
        /\ task'.at = "writePlan" => task'.next \in {"BLOCKED", "NEEDS_REPAIR"}
    <3>1. CASE status = "QA_PASSED"
      BY <2>1, <3>1 DEF TypeOK, Idle, Places, PlanStatuses
    <3>2. CASE status # "QA_PASSED"
      BY <2>1, <2>2, <3>2 DEF TypeOK
    <3> QED BY <3>1, <3>2
  <2> QED BY <1>11, <2>3, <2>4 DEF RecordStep, TypeOK, Row
<1>12. CASE FailStep
  <2>1. /\ steps' = [steps EXCEPT ![task.step].status = "FAILED"]
        /\ task' = [task EXCEPT !.at = "writePlan", !.next = "FAILED"]
        /\ UNCHANGED <<job, plan, runs, queue, reopened, crashes>>
        /\ task.at = "failStep"
    BY <1>12 DEF FailStep
  <2>2. steps' \in [Steps -> Row]
    <3>1. steps \in [Steps -> Row] /\ task.step \in Steps /\ "FAILED" \in StepStatuses
      BY <2>1 DEF TypeOK, Row
    <3> HIDE DEF StepStatuses
    <3> QED BY <2>1, <3>1, StepsExcept
  <2>3. /\ task' \in [at : Places, left : Nat, step : Steps \cup {0}, run : Nat,
                      next : PlanStatuses \cup {"allow"}]
        /\ task'.at = "writePlan" /\ task'.next = "FAILED"
    BY <2>1 DEF TypeOK
  <2> QED BY <2>1, <2>2, <2>3 DEF TypeOK, Row
<1>13. CASE WritePlan
  BY <1>13 DEF WritePlan, SetPlan, TypeOK
<1>14. CASE RecoverPlan
  <2>1. steps' \in [Steps -> Row]
    <3>1. \/ steps' = steps
          \/ \E s \in Steps, status \in {"NEEDS_REPAIR", "BLOCKED"} :
                steps' = [steps EXCEPT ![s].status = status]
      BY <1>14, RecoverType DEF RecoverPlan, Interrupted, StepWith
    <3>2. steps \in [Steps -> Row] /\ {"NEEDS_REPAIR", "BLOCKED"} \subseteq StepStatuses
      BY DEF TypeOK, Row
    <3> HIDE DEF StepStatuses
    <3>3. \A s \in Steps, status \in StepStatuses :
              [steps EXCEPT ![s].status = status] \in [Steps -> Row]
      BY <3>2, StepsExcept
    <3> QED BY <3>1, <3>2, <3>3
  <2> QED BY <1>14, <2>1, RecoverType DEF RecoverPlan, Interrupted, TypeOK, Row
<1>15. CASE RetryFailedPlan
  BY <1>15, QueueType DEF RetryFailedPlan, TypeOK
<1>16. CASE Crash
  BY <1>16 DEF Crash, TypeOK
<1>17. ASSUME NEW a \in DOMAIN runs, RecoverExecution(a) PROVE TypeOK'
  <2> DEFINE S == {s \in Steps : steps[s].run = a /\ steps[s].status = "EXECUTING"}
  <2>1. S \in SUBSET StepWith("EXECUTING") /\ Recover(S)
    BY <1>17 DEF RecoverExecution, StepWith
  <2> HIDE DEF S
  <2>2. steps' \in [Steps -> Row]
    <3>1. \/ steps' = steps
          \/ \E s \in Steps, status \in {"NEEDS_REPAIR", "BLOCKED"} :
                steps' = [steps EXCEPT ![s].status = status]
      BY <2>1, RecoverType DEF StepWith
    <3>2. steps \in [Steps -> Row] /\ {"NEEDS_REPAIR", "BLOCKED"} \subseteq StepStatuses
      BY DEF TypeOK, Row
    <3> HIDE DEF StepStatuses
    <3>3. \A s \in Steps, status \in StepStatuses :
              [steps EXCEPT ![s].status = status] \in [Steps -> Row]
      BY <3>2, StepsExcept
    <3> QED BY <3>1, <3>2, <3>3
  <2>3. /\ runs' \in Seq(Run) /\ DOMAIN runs' = DOMAIN runs
        /\ \A b \in DOMAIN runs : b # a => runs'[b] = runs[b]
    BY <1>17, RunsExcept DEF RecoverExecution, TypeOK, Run
  <2>4. task.at = "record" => task.run # a
    BY <1>17 DEF RecoverExecution, TypeOK
  <2>5. plan' \in [status : PlanStatuses, repairs : Nat]
    <3> HIDE DEF PlanStatuses
    <3> QED BY <2>1, RecoverType
  <2>6. UNCHANGED <<job, queue, task, reopened, crashes>>
    BY <1>17 DEF RecoverExecution
  <2>7. /\ task'.at \in {"run", "record"} => task'.run \in DOMAIN runs'
        /\ task'.at = "record" => runs'[task'.run].status \in {"QA_PASSED", "NEEDS_REPAIR"}
    BY <2>3, <2>4, <2>6 DEF TypeOK
  <2> QED BY <2>2, <2>3, <2>5, <2>6, <2>7 DEF TypeOK, Row, Run
<1> QED
  BY <1>1, <1>2, <1>3, <1>4, <1>5, <1>6, <1>7, <1>8, <1>9, <1>10, <1>11, <1>12, <1>13,
     <1>14, <1>15, <1>16, <1>17 DEF Next, Worker
-----------------------------------------------------------------------------
(* Passed steps stay as they are, none is added, and a step is released    *)
(* only when its dependencies passed.                                      *)
KeepsPassed ==
    \A s \in Steps :
        /\ Done(s) => steps'[s] = steps[s]
        /\ Done(s)' => Done(s)
        /\ Released(s)' => Released(s) \/ \A d \in Deps[s] : Done(d)

PassesHeldStep == RecordStep /\ steps'[task.step].status = "QA_PASSED"

LEMMA UnlockedKeeps ==
    ASSUME IInv, NEW s \in Steps, NEW row \in Row,
           Unlocked[s].status \in {"NEEDS_REPAIR", "READY"}, row.status \in {"EXECUTING", "BLOCKED"},
           steps' = [Unlocked EXCEPT ![s] = row]
    PROVE  KeepsPassed
<1>1. SUFFICES ASSUME NEW t \in Steps
              PROVE  /\ Done(t) => steps'[t] = steps[t]
                     /\ Done(t)' => Done(t)
                     /\ Released(t)' => Released(t) \/ \A d \in Deps[t] : Done(d)
  BY DEF KeepsPassed
<1>2. TypeOK /\ DependenciesPassed
  BY DEF IInv
<1>3. Unlocked \in [Steps -> Row]
  BY <1>2, UnlockedType
<1>4. /\ Unlocked[t].run = steps[t].run
      /\ \/ Unlocked[t] = steps[t]
         \/ /\ steps[t].status = "BLOCKED" /\ Unlocked[t].status = "READY"
            /\ \A d \in Deps[t] : Done(d)
  BY <1>2, UnlockedRow
<1>5. CASE t = s
  <2>1. steps'[t].status \in {"EXECUTING", "BLOCKED"} /\ Unlocked[t].status \in {"NEEDS_REPAIR", "READY"}
    BY <1>3, <1>5
  <2> QED BY <1>4, <2>1 DEF Done, Released
<1>6. CASE t # s
  <2>1. steps'[t] = Unlocked[t]
    BY <1>3, <1>6
  <2> QED BY <1>4, <2>1 DEF Done, Released
<1> QED BY <1>5, <1>6

LEMMA RecoverKeeps ==
    ASSUME IInv, NEW S \in SUBSET StepWith("EXECUTING"), Recover(S)
    PROVE  KeepsPassed
<1>1. CASE steps' = steps
  BY <1>1 DEF KeepsPassed, Done, Released
<1>2. ASSUME NEW s \in S, NEW status \in {"NEEDS_REPAIR", "BLOCKED"},
             steps' = [steps EXCEPT ![s].status = status]
      PROVE  KeepsPassed
  <2>1. s \in Steps /\ steps[s].status = "EXECUTING" /\ steps \in [Steps -> Row]
    BY DEF StepWith, IInv, TypeOK, Row
  <2>2. steps' = [steps EXCEPT ![s] = [steps[s] EXCEPT !.status = status]]
    BY <1>2, <2>1
  <2>3. steps'[s].status = status /\ \A t \in Steps : t # s => steps'[t] = steps[t]
    BY <2>1, <2>2 DEF Row
  <2> QED BY <2>1, <2>3 DEF KeepsPassed, Done, Released
<1> QED BY <1>1, <1>2, RecoverType DEF IInv

LEMMA KeepsStep ==
    ASSUME IInv, [Next]_vars, ~PlanAwardedJob, ~PassesHeldStep
    PROVE  KeepsPassed
<1>1. CASE UNCHANGED steps
  BY <1>1 DEF KeepsPassed, Done, Released
<1>a. Unlocked \in [Steps -> Row] /\ steps \in [Steps -> Row]
  BY UnlockedType DEF IInv, TypeOK, Row
<1>2. CASE EndPlan
  <2>1. steps' = Unlocked
    BY <1>2 DEF EndPlan
  <2> QED BY <2>1, UnlockedRow DEF KeepsPassed, Done, Released, IInv
<1>3. CASE RefuseRepair
  <2> DEFINE s == FirstOf(Takeable(Unlocked))
  <2>1. Takeable(Unlocked) # {}
    <3>1. PICK t \in Steps : steps[t].status = "NEEDS_REPAIR"
      BY <1>3 DEF RefuseRepair, StepWith
    <3>2. Unlocked[t].status = "NEEDS_REPAIR"
      BY <3>1, UnlockedRow DEF IInv
    <3> QED BY <3>1, <3>2 DEF Takeable
  <2>2. s \in Takeable(Unlocked)
    BY <2>1, TakeableSteps, FirstIsMember
  <2>3. s \in Steps /\ Unlocked[s].status \in {"NEEDS_REPAIR", "READY"}
    BY <2>2, TakeableSteps
  <2>4. steps' = [Unlocked EXCEPT ![s].status = "BLOCKED"]
    BY <1>3 DEF RefuseRepair
  <2> HIDE DEF s
  <2> DEFINE row == [Unlocked[s] EXCEPT !.status = "BLOCKED"]
  <2>5. row \in Row /\ row.status = "BLOCKED"
    BY <1>a, <2>3 DEF Row, StepStatuses
  <2>6. steps' = [Unlocked EXCEPT ![s] = row]
    BY <2>4
  <2> HIDE DEF row
  <2> QED BY <2>3, <2>5, <2>6, UnlockedKeeps
<1>4. CASE TakeStep
  <2> DEFINE s == FirstOf(Takeable(Unlocked))
             one == IF StepWith("NEEDS_REPAIR") # {} THEN 1 ELSE 0
  <2>1. s \in Takeable(Unlocked)
    BY <1>4, TakeableSteps, FirstIsMember DEF TakeStep
  <2>2. s \in Steps /\ Unlocked[s].status \in {"NEEDS_REPAIR", "READY"}
    BY <2>1, TakeableSteps
  <2>3. steps' = [Unlocked EXCEPT ![s].status = "EXECUTING", ![s].repairs = @ + one]
    BY <1>4 DEF TakeStep
  <2>4. one \in Nat
    OBVIOUS
  <2> HIDE DEF s, one
  <2> DEFINE row == [Unlocked[s] EXCEPT !.status = "EXECUTING", !.repairs = Unlocked[s].repairs + one]
  <2>5. Unlocked[s] \in Row /\ Unlocked[s].repairs + one \in Nat
    BY <1>a, <2>2, <2>4 DEF Row
  <2>6. row \in Row /\ row.status = "EXECUTING"
    BY <2>5 DEF Row, StepStatuses
  <2>7. steps' = [Unlocked EXCEPT ![s] = row]
    BY <1>a, <2>2, <2>3, <2>5 DEF Row
  <2> HIDE DEF row
  <2> QED BY <2>2, <2>6, <2>7, UnlockedKeeps
<1>5. CASE RecordStep
  <2>1. PICK status \in {"BLOCKED", Verdict} :
          steps' = [steps EXCEPT ![task.step].status = status, ![task.step].run = task.run]
    BY <1>5 DEF RecordStep
  <2>2. /\ task.step \in Steps /\ ~Done(task.step)
        /\ \A d \in Deps[task.step] : Done(d)
    BY <1>5 DEF RecordStep, IInv, TypeOK, HeldStep
  <2>3. steps'[task.step].status # "QA_PASSED"
    BY <1>5 DEF PassesHeldStep
  <2>4. \A t \in Steps : t # task.step => steps'[t] = steps[t]
    BY <1>a, <2>1, <2>2
  <2> QED BY <2>2, <2>3, <2>4 DEF KeepsPassed, Done, Released
<1>6. CASE FailStep
  <2>1. steps' = [steps EXCEPT ![task.step].status = "FAILED"]
    BY <1>6 DEF FailStep
  <2>2. task.step \in Steps /\ ~Done(task.step)
    BY <1>6 DEF FailStep, IInv, TypeOK, HeldStep
  <2>3. /\ steps'[task.step].status = "FAILED"
        /\ \A t \in Steps : t # task.step => steps'[t] = steps[t]
    BY <1>a, <2>1, <2>2 DEF Row
  <2> QED BY <2>2, <2>3 DEF KeepsPassed, Done, Released
<1>7. CASE RecoverPlan
  BY <1>7, RecoverKeeps DEF RecoverPlan, Interrupted
<1>8. ASSUME NEW a \in DOMAIN runs, RecoverExecution(a) PROVE KeepsPassed
  <2> DEFINE S == {s \in Steps : steps[s].run = a /\ steps[s].status = "EXECUTING"}
  <2>1. S \in SUBSET StepWith("EXECUTING") /\ Recover(S)
    BY <1>8 DEF RecoverExecution, StepWith
  <2> HIDE DEF S
  <2> QED BY <2>1, RecoverKeeps
<1>9. \/ UNCHANGED steps \/ EndPlan \/ RefuseRepair \/ TakeStep \/ RecordStep \/ FailStep
      \/ RecoverPlan \/ \E a \in DOMAIN runs : RecoverExecution(a)
  BY DEF Next, Worker, vars, Pop, LoopRaises, LoopEnds, StartStep, RunStep, WritePlan,
         RetryFailedPlan, Crash
<1> QED BY <1>1, <1>2, <1>3, <1>4, <1>5, <1>6, <1>7, <1>8, <1>9

-----------------------------------------------------------------------------
(* Runs are never taken away or moved to another step, and an ended run    *)
(* keeps its verdict.                                                      *)
LEMMA RunsKept ==
    ASSUME IInv, [Next]_vars
    PROVE  \A a \in DOMAIN runs :
              /\ a \in DOMAIN runs' /\ runs'[a].step = runs[a].step
              /\ runs[a].status # "EXECUTING" => runs'[a] = runs[a]
<1> runs \in Seq(Run) /\ RunStatuses = {"EXECUTING", "QA_PASSED", "NEEDS_REPAIR", "FAILED"}
  BY DEF IInv, TypeOK, Run, RunStatuses
<1>1. CASE UNCHANGED runs
  BY <1>1
<1>2. CASE StartStep
  <2>1. CASE runs' = Append(runs, [status |-> "EXECUTING", step |-> task.step])
    <3>1. [status |-> "EXECUTING", step |-> task.step] \in Run
      BY <1>2 DEF StartStep, IInv, TypeOK, Run
    <3> QED BY <2>1, <3>1, RunsAppend
  <2> QED BY <1>2, <2>1 DEF StartStep
<1>3. ASSUME NEW a \in DOMAIN runs, NEW status \in RunStatuses,
             runs[a].status = "EXECUTING", runs' = [runs EXCEPT ![a].status = status]
      PROVE  \A b \in DOMAIN runs :
                /\ b \in DOMAIN runs' /\ runs'[b].step = runs[b].step
                /\ runs[b].status # "EXECUTING" => runs'[b] = runs[b]
  BY <1>3, RunsExcept
<1>4. CASE RunStep
  <2>1. task.run \in DOMAIN runs /\ runs[task.run].status = "EXECUTING"
    BY <1>4 DEF RunStep, IInv, TypeOK, HeldRun
  <2> QED BY <1>3, <1>4, <2>1 DEF RunStep
<1>5. ASSUME NEW a \in DOMAIN runs, RecoverExecution(a)
      PROVE  runs[a].status = "EXECUTING" /\ runs' = [runs EXCEPT ![a].status = "FAILED"]
  BY <1>5 DEF RecoverExecution
<1>6. \/ UNCHANGED runs \/ StartStep \/ RunStep \/ \E a \in DOMAIN runs : RecoverExecution(a)
  BY DEF Next, Worker, vars, Pop, LoopRaises, LoopEnds, EndPlan, RefuseRepair, TakeStep,
         RecordStep, FailStep, RecoverPlan, WritePlan, RetryFailedPlan, Crash, PlanAwardedJob
<1> QED BY <1>1, <1>2, <1>3, <1>4, <1>5, <1>6

(* What a step that passes leaves behind.                                  *)
LEMMA PassedStep ==
    ASSUME IInv, PassesHeldStep
    PROVE  /\ task.step \in Steps /\ ~Done(task.step)
           /\ \A d \in Deps[task.step] : d # task.step /\ Done(d) /\ steps[d].run < task.run
           /\ steps'[task.step].status = "QA_PASSED" /\ steps'[task.step].run = task.run
           /\ task.run \in DOMAIN runs
           /\ runs[task.run] = [status |-> "QA_PASSED", step |-> task.step]
           /\ \A t \in Steps : t # task.step => steps'[t] = steps[t]
           /\ runs' = runs /\ plan' = plan /\ job' = job /\ task'.at \notin
                  {"start", "run", "record", "failStep"}
<1>1. /\ task.at = "record" /\ task.step \in Steps /\ task.run \in DOMAIN runs
      /\ steps \in [Steps -> Row] /\ runs[task.run].step = task.step
      /\ runs \in Seq(Run) /\ runs[task.run] \in Run
  <2>1. task.at = "record" /\ TypeOK /\ HeldRun
    BY DEF PassesHeldStep, RecordStep, IInv
  <2>2. task.step \in Steps /\ task.run \in DOMAIN runs /\ runs \in Seq(Run)
        /\ steps \in [Steps -> Row] /\ runs[task.run].step = task.step
    BY <2>1 DEF TypeOK, HeldRun, Row, Run
  <2>3. \A a \in DOMAIN runs : runs[a] \in Run
    BY <2>2
  <2> QED BY <2>1, <2>2, <2>3
<1>2. PICK status \in {"BLOCKED", Verdict} :
        steps' = [steps EXCEPT ![task.step].status = status, ![task.step].run = task.run]
  BY DEF PassesHeldStep, RecordStep
<1>3. /\ steps'[task.step].status = status /\ steps'[task.step].run = task.run
      /\ \A t \in Steps : t # task.step => steps'[t] = steps[t]
  BY <1>1, <1>2 DEF Row
<1>4. runs[task.run].status = "QA_PASSED"
  BY <1>3 DEF PassesHeldStep, Verdict
<1>5. runs[task.run] = [status |-> "QA_PASSED", step |-> task.step]
  BY <1>1, <1>4 DEF Run
<1>6. /\ ~Done(task.step)
      /\ \A d \in Deps[task.step] : d # task.step /\ Done(d) /\ steps[d].run < task.run
  BY <1>1, DepsAreEarlier DEF IInv, HeldStep, HeldRun
<1>7. /\ runs' = runs /\ plan' = plan /\ job' = job
      /\ task'.at \notin {"start", "run", "record", "failStep"}
  BY DEF PassesHeldStep, RecordStep, IInv, TypeOK, Idle
<1> QED BY <1>1, <1>3, <1>5, <1>6, <1>7 DEF PassesHeldStep

LEMMA DependenciesStep == IInv /\ [Next]_vars => DependenciesPassed'
<1> SUFFICES ASSUME IInv, [Next]_vars, NEW s \in Steps, Released(s)', NEW d \in Deps[s]
            PROVE  Done(d)'
  BY DEF DependenciesPassed, Released, Done
<1>1. d \in Steps /\ d # s
  BY DepsAreEarlier
<1>2. Released(s) => Done(d)
  BY DEF IInv, DependenciesPassed, Released, Done
<1>3. CASE PlanAwardedJob
  BY <1>3 DEF PlanAwardedJob, FreshSteps, Released
<1>4. CASE PassesHeldStep
  BY <1>1, <1>2, <1>4, PassedStep DEF Done, Released
<1>5. CASE ~PlanAwardedJob /\ ~PassesHeldStep
  <2>1. KeepsPassed
    BY <1>5, KeepsStep
  <2>2. Done(d)
    BY <1>2, <2>1 DEF KeepsPassed
  <2> QED BY <1>1, <2>1, <2>2 DEF KeepsPassed, Done
<1> QED BY <1>3, <1>4, <1>5

LEMMA InputsStep == IInv /\ [Next]_vars => PassedOnCurrentInputs'
<1> SUFFICES ASSUME IInv, [Next]_vars, NEW s \in Steps, Done(s)'
            PROVE  /\ steps'[s].run \in DOMAIN runs'
                   /\ runs'[steps'[s].run] = [status |-> "QA_PASSED", step |-> s]
                   /\ \A d \in Deps[s] : steps'[d].run < steps'[s].run
  BY DEF PassedOnCurrentInputs, StepWith, Done
<1>1. \A d \in Deps[s] : d \in Steps /\ d # s
  BY DepsAreEarlier
<1>2. Done(s) => /\ steps[s].run \in DOMAIN runs
                /\ runs[steps[s].run] = [status |-> "QA_PASSED", step |-> s]
                /\ \A d \in Deps[s] : Done(d) /\ steps[d].run < steps[s].run
  BY DEF IInv, PassedOnCurrentInputs, DependenciesPassed, StepWith, Done
<1>3. CASE PlanAwardedJob
  BY <1>3 DEF PlanAwardedJob, FreshSteps, Done
<1>4. CASE PassesHeldStep
  <2>1. CASE s = task.step
    BY <1>1, <1>4, <2>1, PassedStep
  <2>2. CASE s # task.step
    <3>1. steps'[s] = steps[s] /\ Done(s) /\ runs' = runs
      BY <1>4, <2>2, PassedStep DEF Done
    <3>2. \A d \in Deps[s] : steps'[d] = steps[d]
      BY <1>1, <1>2, <1>4, <3>1, PassedStep
    <3> QED BY <1>2, <3>1, <3>2
  <2> QED BY <2>1, <2>2
<1>5. CASE ~PlanAwardedJob /\ ~PassesHeldStep
  <2>1. KeepsPassed
    BY <1>5, KeepsStep
  <2>2. Done(s) /\ steps'[s] = steps[s]
    BY <2>1 DEF KeepsPassed
  <2>3. \A d \in Deps[s] : steps'[d] = steps[d]
    BY <1>1, <1>2, <2>1, <2>2 DEF KeepsPassed
  <2>4. steps[s].run \in DOMAIN runs' /\ runs'[steps[s].run] = runs[steps[s].run]
    BY <1>2, <2>2, RunsKept
  <2> QED BY <1>2, <2>2, <2>3, <2>4
<1> QED BY <1>3, <1>4, <1>5

LEMMA CompleteStep == IInv /\ [Next]_vars => PassedPlanIsComplete'
<1> SUFFICES ASSUME IInv, [Next]_vars, plan'.status = "QA_PASSED"
            PROVE  \A s \in Steps : Done(s)'
  BY DEF PassedPlanIsComplete, StepWith, Done
<1>1. plan.status = "QA_PASSED" => \A s \in Steps : Done(s)
  BY DEF IInv, PassedPlanIsComplete, StepWith, Done
<1>2. CASE PlanAwardedJob
  BY <1>2, QueueType DEF PlanAwardedJob, IInv
<1>3. CASE PassesHeldStep
  BY <1>1, <1>3, PassedStep
<1>4. CASE ~PlanAwardedJob /\ ~PassesHeldStep
  <2>1. KeepsPassed
    BY <1>4, KeepsStep
  <2>2. plan.status = "QA_PASSED" \/ (EndPlan /\ \A s \in Steps : Done(s))
    <3>1. CASE UNCHANGED plan
      BY <3>1
    <3>2. CASE EndPlan
      BY <3>2 DEF EndPlan, SetPlan, AllPassed, StepWith, Done, IInv, TypeOK
    <3>3. CASE RefuseRepair \/ LoopEnds
      BY <3>3 DEF RefuseRepair, LoopEnds, SetPlan, IInv, TypeOK
    <3>4. CASE TakeStep
      BY <3>4 DEF TakeStep
    <3>5. CASE WritePlan
      BY <3>5 DEF WritePlan, SetPlan, IInv, TypeOK
    <3>6. CASE RecoverPlan
      <4>1. Interrupted \in SUBSET StepWith("EXECUTING") /\ Recover(Interrupted)
        BY <3>6 DEF RecoverPlan, Interrupted
      <4> QED BY <4>1, RecoverType DEF IInv
    <3>7. ASSUME NEW a \in DOMAIN runs, RecoverExecution(a) PROVE FALSE
      <4> DEFINE S == {s \in Steps : steps[s].run = a /\ steps[s].status = "EXECUTING"}
      <4>1. S \in SUBSET StepWith("EXECUTING") /\ Recover(S)
        BY <3>7 DEF RecoverExecution, StepWith
      <4> HIDE DEF S
      <4> QED BY <4>1, RecoverType DEF IInv
    <3>8. CASE RetryFailedPlan
      BY <3>8, QueueType DEF RetryFailedPlan, IInv
    <3> QED
      BY <1>4, <3>1, <3>2, <3>3, <3>4, <3>5, <3>6, <3>7, <3>8
         DEF Next, Worker, vars, Pop, LoopRaises, StartStep, RunStep, RecordStep, FailStep, Crash
  <2> QED BY <1>1, <2>1, <2>2 DEF KeepsPassed, Done
<1> QED BY <1>2, <1>3, <1>4

-----------------------------------------------------------------------------
(* Who can move the plan or the job while the worker holds a step.         *)
LEMMA JobStep == IInv /\ [Next]_vars => JobAgreesWithPlan'
<1> SUFFICES ASSUME IInv, [Next]_vars PROVE JobAgreesWithPlan'
  OBVIOUS
<1> TypeOK /\ JobAgreesWithPlan /\ HeldRun
  BY DEF IInv
<1>1. CASE UNCHANGED vars
  BY <1>1 DEF vars, JobAgreesWithPlan
<1>2. CASE PlanAwardedJob
  <2>1. plan'.status \in {"BLOCKED", "READY", "QUEUED"} /\ plan.status # "EXECUTING"
    BY <1>2, QueueType DEF PlanAwardedJob
  <2> QED BY <1>2, <2>1 DEF PlanAwardedJob, JobAgreesWithPlan
<1>3. CASE Pop
  BY <1>3 DEF Pop, JobAgreesWithPlan, Idle
<1>4. CASE EndPlan \/ RefuseRepair \/ LoopRaises \/ LoopEnds \/ WritePlan \/ Crash
  BY <1>4 DEF EndPlan, RefuseRepair, LoopRaises, LoopEnds, WritePlan, Crash, JobAgreesWithPlan, Idle
<1>5. CASE TakeStep
  BY <1>5 DEF TakeStep, JobAgreesWithPlan, TypeOK
<1>6. CASE StartStep
  <2>1. task.at = "start" /\ UNCHANGED plan
    BY <1>6 DEF StartStep
  <2>2. CASE task' = [task EXCEPT !.at = "failStep"] /\ UNCHANGED <<job, runs>>
    BY <2>1, <2>2 DEF JobAgreesWithPlan, TypeOK, Idle
  <2>3. CASE job' = "EXECUTING"
    BY <2>1, <2>3 DEF JobAgreesWithPlan, Idle
  <2> QED BY <1>6, <2>2, <2>3 DEF StartStep
<1>7. CASE RunStep
  <2>1. job = "EXECUTING" /\ job' \in {"EXECUTING", "FAILED"} /\ plan' = plan /\ task # Idle
    BY <1>7 DEF RunStep, HeldRun, Idle
  <2> QED BY <2>1 DEF JobAgreesWithPlan
<1>8. CASE RecordStep
  <2>1. job = "EXECUTING" /\ job' = job /\ plan' = plan /\ task # Idle
    BY <1>8 DEF RecordStep, HeldRun, Idle
  <2> QED BY <2>1 DEF JobAgreesWithPlan
<1>9. CASE FailStep
  BY <1>9 DEF FailStep, JobAgreesWithPlan, TypeOK, Idle
<1>10. CASE RecoverPlan
  <2>1. Interrupted \in SUBSET StepWith("EXECUTING") /\ Recover(Interrupted)
    BY <1>10 DEF RecoverPlan, Interrupted
  <2>2. plan'.status # "FAILED"
    BY <2>1, RecoverType
  <2> QED BY <1>10, <2>2 DEF RecoverPlan, PlanIsStale, JobAgreesWithPlan, Idle
<1>11. ASSUME NEW a \in DOMAIN runs, RecoverExecution(a) PROVE JobAgreesWithPlan'
  <2> DEFINE S == {s \in Steps : steps[s].run = a /\ steps[s].status = "EXECUTING"}
  <2>1. S \in SUBSET StepWith("EXECUTING") /\ Recover(S)
    BY <1>11 DEF RecoverExecution, StepWith
  <2> HIDE DEF S
  <2>2. plan'.status # "FAILED"
    BY <2>1, RecoverType
  <2>3. job # "AWARDED" /\ job' = job
    BY <1>11 DEF RecoverExecution, JobAgreesWithPlan
  <2> QED BY <2>2, <2>3 DEF JobAgreesWithPlan
<1>12. CASE RetryFailedPlan
  <2>1. plan'.status \in {"BLOCKED", "READY", "QUEUED"}
    BY <1>12, QueueType DEF RetryFailedPlan
  <2>2. task' = Idle /\ runs' = runs
    BY <1>12 DEF RetryFailedPlan, JobAgreesWithPlan
  <2> QED BY <1>12, <2>1, <2>2 DEF RetryFailedPlan, JobAgreesWithPlan, Idle
<1> QED
  BY <1>1, <1>2, <1>3, <1>4, <1>5, <1>6, <1>7, <1>8, <1>9, <1>10, <1>11, <1>12 DEF Next, Worker

LEMMA NotAnewWhileHeld ==
    IInv /\ PlanAwardedJob => task.at \notin {"start", "run", "record", "failStep"}
BY DEF IInv, PlanAwardedJob, HeldRun, JobAgreesWithPlan

LEMMA LetsGo ==
    ASSUME TypeOK, Pop \/ EndPlan \/ RefuseRepair \/ LoopRaises \/ LoopEnds \/ FailStep
                   \/ WritePlan \/ Crash
    PROVE  task'.at \notin {"start", "run", "record", "failStep"}
<1>1. CASE Pop
  <2>1. CASE task' = task
    BY <1>1, <2>1 DEF Pop, Idle
  <2>2. CASE task' # task
    <3>1. PICK limit \in Limits : task' = [Idle EXCEPT !.at = "loop", !.left = limit]
      BY <1>1, <2>2 DEF Pop
    <3> QED BY <3>1 DEF Idle
  <2> QED BY <2>1, <2>2
<1>2. CASE FailStep
  BY <1>2 DEF FailStep, TypeOK
<1>3. CASE EndPlan \/ RefuseRepair \/ LoopRaises \/ LoopEnds \/ WritePlan \/ Crash
  <2>1. task' = Idle
    BY <1>3 DEF EndPlan, RefuseRepair, LoopRaises, LoopEnds, WritePlan, Crash
  <2> QED BY <2>1 DEF Idle
<1> QED BY <1>1, <1>2, <1>3

(* Only TakeStep gives the worker a step; every other step of the system   *)
(* leaves it the one it has.                                               *)
LEMMA HeldTask ==
    ASSUME IInv, [Next]_vars, task'.at \in {"start", "run", "record", "failStep"}, ~TakeStep
    PROVE  /\ task'.step = task.step /\ task.at \in {"start", "run", "record", "failStep"}
           /\ task'.at = "start" => task.at = "start"
           /\ KeepsPassed
<1>1. task'.step = task.step /\ task.at \in {"start", "run", "record", "failStep"}
      /\ (task'.at = "start" => task.at = "start")
  <2>1. CASE UNCHANGED task
    BY <2>1
  <2>2. CASE Pop \/ EndPlan \/ RefuseRepair \/ LoopRaises \/ LoopEnds \/ FailStep \/ WritePlan \/ Crash
    BY <2>2, LetsGo DEF IInv
  <2>3. CASE StartStep
    BY <2>3 DEF StartStep, IInv, TypeOK
  <2>4. CASE RunStep
    BY <2>4 DEF RunStep, IInv, TypeOK
  <2>5. CASE RecordStep
    BY <2>5 DEF RecordStep, Idle, IInv, TypeOK
  <2>6. \/ UNCHANGED task \/ Pop \/ EndPlan \/ RefuseRepair \/ LoopRaises \/ LoopEnds \/ FailStep
        \/ WritePlan \/ Crash \/ StartStep \/ RunStep \/ RecordStep
    BY DEF Next, Worker, vars, PlanAwardedJob, RecoverPlan, RetryFailedPlan, RecoverExecution
  <2> QED BY <2>1, <2>2, <2>3, <2>4, <2>5, <2>6
<1>2. ~PlanAwardedJob /\ ~PassesHeldStep
  BY <1>1, NotAnewWhileHeld, PassedStep
<1> QED BY <1>1, <1>2, KeepsStep

LEMMA HeldStepStep == IInv /\ [Next]_vars /\ TypeOK' => HeldStep'
<1> SUFFICES ASSUME IInv, [Next]_vars, TypeOK', task'.at \in {"start", "run", "record", "failStep"}
            PROVE  /\ steps'[task'.step].status # "QA_PASSED"
                   /\ \A d \in Deps[task'.step] : steps'[d].status = "QA_PASSED"
  BY DEF HeldStep, Done
<1>1. task'.step \in Steps
  BY DEF TypeOK
<1>2. CASE TakeStep
  <2> DEFINE s == FirstOf(Takeable(Unlocked))
  <2>1. s \in Takeable(Unlocked)
    BY <1>2, TakeableSteps, FirstIsMember DEF TakeStep
  <2>2. s \in Steps /\ Unlocked[s].status \in {"NEEDS_REPAIR", "READY"}
    BY <2>1, TakeableSteps
  <2>3. task'.step = s /\ \A d \in Deps[s] : Done(d)
    BY <1>2 DEF TakeStep, Done, IInv, TypeOK
  <2> HIDE DEF s
  <2>4. ~Done(s)
    BY <2>2, UnlockedRow DEF Done, IInv
  <2>5. KeepsPassed
    <3>1. ~PlanAwardedJob /\ ~PassesHeldStep
      BY <1>2 DEF TakeStep, PlanAwardedJob, PassesHeldStep, RecordStep, Idle, IInv, TypeOK
    <3> QED BY <3>1, KeepsStep
  <2>6. \A d \in Deps[s] : d \in Steps
    BY <2>2, DepsAreEarlier
  <2> QED BY <2>2, <2>3, <2>4, <2>5, <2>6 DEF KeepsPassed, Done
<1>3. CASE ~TakeStep
  <2>1. ~Done(task.step) /\ (\A d \in Deps[task.step] : Done(d)) /\ KeepsPassed /\ task'.step = task.step
    BY <1>3, HeldTask DEF IInv, HeldStep
  <2>2. \A d \in Deps[task.step] : d \in Steps
    BY <1>1, <2>1, DepsAreEarlier
  <2> QED BY <1>1, <2>1, <2>2 DEF KeepsPassed, Done
<1> QED BY <1>2, <1>3

LEMMA HeldRunStep == IInv /\ [Next]_vars /\ TypeOK' => HeldRun'
<1> SUFFICES ASSUME IInv, [Next]_vars, TypeOK', task'.at \in {"run", "record"}
            PROVE  /\ job' = "EXECUTING"
                   /\ runs'[task'.run].step = task'.step
                   /\ task'.at = "run" => runs'[task'.run].status = "EXECUTING"
                   /\ \A d \in Deps[task'.step] : steps'[d].run < task'.run
  BY DEF HeldRun
<1>1. ~TakeStep
  BY DEF TakeStep, IInv, TypeOK
<1>2. /\ task'.step = task.step /\ task.at \in {"start", "run", "record", "failStep"}
      /\ KeepsPassed /\ task.step \in Steps
  BY <1>1, HeldTask DEF IInv, TypeOK
<1>3. \A d \in Deps[task.step] : Done(d) /\ steps'[d] = steps[d] /\ steps[d].run \in DOMAIN runs
  <2>1. \A d \in Deps[task.step] : d \in Steps /\ Done(d)
    BY <1>2, DepsAreEarlier DEF IInv, HeldStep
  <2> QED BY <1>2, <2>1 DEF KeepsPassed, IInv, PassedOnCurrentInputs, StepWith, Done
<1>4. CASE StartStep
  <2>1. /\ runs' = Append(runs, [status |-> "EXECUTING", step |-> task.step])
        /\ job' = "EXECUTING" /\ task' = [task EXCEPT !.at = "run", !.run = NextAttempt]
    BY <1>4 DEF StartStep, IInv, TypeOK
  <2>2. [status |-> "EXECUTING", step |-> task.step] \in Run /\ runs \in Seq(Run)
    BY <1>2 DEF IInv, TypeOK, Run, RunStatuses
  <2>3. /\ runs'[NextAttempt] = [status |-> "EXECUTING", step |-> task.step]
        /\ \A b \in DOMAIN runs : b < NextAttempt
    BY <2>1, <2>2, RunsAppend
  <2>4. task'.run = NextAttempt
    BY <2>1 DEF IInv, TypeOK
  <2>5. runs'[task'.run].step = task'.step /\ runs'[task'.run].status = "EXECUTING"
    BY <1>2, <2>3, <2>4
  <2>6. \A d \in Deps[task'.step] : steps'[d].run < task'.run
    BY <1>2, <1>3, <2>3, <2>4
  <2> QED BY <2>1, <2>5, <2>6
<1>5. CASE ~StartStep
  <2>1. /\ task.at \in {"run", "record"} /\ task'.run = task.run /\ job' = job
        /\ task'.at = "run" => task.at = "run" /\ runs'[task.run].status = runs[task.run].status
    <3>1. CASE UNCHANGED <<task, job, runs>>
      BY <3>1
    <3>2. CASE RunStep
      BY <3>2 DEF RunStep, IInv, TypeOK
    <3>3. CASE PlanAwardedJob \/ RetryFailedPlan
      <4>1. task # Idle /\ task' = task /\ job # "AWARDED" /\ plan.status # "FAILED"
        BY <1>2, <3>3, NotAnewWhileHeld
           DEF IInv, JobAgreesWithPlan, Idle, PlanAwardedJob, RetryFailedPlan
      <4> QED BY <3>3, <4>1 DEF PlanAwardedJob, RetryFailedPlan
    <3>4. ASSUME NEW a \in DOMAIN runs, RecoverExecution(a),
                 task' = task, job' = job, runs \in Seq(Run)
          PROVE  task.at = "run" => runs'[task.run].status = runs[task.run].status
      <4>1. task.at = "run" => task.run # a /\ task.run \in DOMAIN runs
        BY <3>4 DEF RecoverExecution, IInv, TypeOK
      <4>2. "FAILED" \in RunStatuses /\ runs' = [runs EXCEPT ![a].status = "FAILED"]
        BY <3>4 DEF RecoverExecution, RunStatuses
      <4> QED BY <3>4, <4>1, <4>2, RunsExcept
    <3>5. runs \in Seq(Run)
      BY DEF IInv, TypeOK, Run
    <3>6. \A a \in DOMAIN runs : RecoverExecution(a) => task' = task /\ job' = job
      BY DEF RecoverExecution
    <3>7. ~Pop /\ ~EndPlan /\ ~RefuseRepair /\ ~LoopRaises /\ ~LoopEnds /\ ~FailStep /\ ~WritePlan
          /\ ~Crash /\ ~RecordStep
      <4>1. ~RecordStep
        <5>1. task \in [at : Places, left : Nat, step : Steps \cup {0}, run : Nat,
                         next : PlanStatuses \cup {"allow"}]
          BY DEF IInv, TypeOK
        <5> QED BY <5>1 DEF RecordStep, Idle
      <4> QED BY <4>1, LetsGo DEF IInv
    <3>8. \/ UNCHANGED <<task, job, runs>> \/ RunStep \/ PlanAwardedJob \/ RetryFailedPlan
          \/ \E a \in DOMAIN runs : RecoverExecution(a)
      BY <1>1, <1>5, <3>7 DEF Next, Worker, vars, RecoverPlan
    <3>9. UNCHANGED task \/ RunStep
      BY <3>1, <3>6, <3>8 DEF PlanAwardedJob, RetryFailedPlan
    <3>10. task.at \in {"run", "record"}
      BY <3>9 DEF RunStep
    <3> QED BY <3>1, <3>2, <3>3, <3>4, <3>5, <3>6, <3>8, <3>9, <3>10
  <2>2. task.run \in DOMAIN runs
    BY <2>1 DEF IInv, TypeOK
  <2>3. runs'[task.run].step = runs[task.run].step
    BY <2>2, RunsKept
  <2> QED BY <1>2, <1>3, <2>1, <2>3 DEF IInv, HeldRun
<1> QED BY <1>4, <1>5

-----------------------------------------------------------------------------
LEMMA InitIInv == Init => IInv
<1> SUFFICES ASSUME Init PROVE IInv
  OBVIOUS
<1>1. TypeOK
  BY DEF Init, TypeOK, FreshSteps, Idle, StepStatuses, PlanStatuses, Places
<1>2. DependenciesPassed /\ PassedOnCurrentInputs
  BY DEF Init, FreshSteps, DependenciesPassed, PassedOnCurrentInputs, StepWith
<1>3. PassedPlanIsComplete /\ HeldStep /\ HeldRun /\ JobAgreesWithPlan
  BY DEF Init, PassedPlanIsComplete, HeldStep, HeldRun, JobAgreesWithPlan, Idle
<1> QED BY <1>1, <1>2, <1>3 DEF IInv

LEMMA StepIInv == IInv /\ [Next]_vars => IInv'
BY TypeStep, DependenciesStep, InputsStep, CompleteStep, HeldStepStep, HeldRunStep, JobStep
   DEF IInv

THEOREM Invariance == Spec => []IInv
<1> QED BY InitIInv, StepIInv, PTL DEF Spec

(* Types, for every DAG.                                                   *)
THEOREM Typed == Spec => []TypeOK
<1>1. IInv => TypeOK
  BY DEF IInv
<1> QED BY <1>1, Invariance, PTL

(* No step is released before its dependencies passed, whatever dies, is   *)
(* recovered, repaired or retried (_unlock_composite_steps and the check   *)
(* before a step is taken).                                                *)
THEOREM DependenciesFirst == Spec => []DependenciesPassed
<1>1. IInv => DependenciesPassed
  BY DEF IInv
<1> QED BY <1>1, Invariance, PTL

(* A passed step's result comes from a run of that step that passed and    *)
(* that started after the runs of its inputs.                              *)
THEOREM CurrentInputs == Spec => []PassedOnCurrentInputs
<1>1. IInv => PassedOnCurrentInputs
  BY DEF IInv
<1> QED BY <1>1, Invariance, PTL

(* A plan passes only when all its steps did.                              *)
THEOREM CompletePlans == Spec => []PassedPlanIsComplete
<1>1. IInv => PassedPlanIsComplete
  BY DEF IInv
<1> QED BY <1>1, Invariance, PTL

-----------------------------------------------------------------------------
LEMMA RefinesInit == Init => Dag!Init
BY DEF Init, Dag!Init, FreshSteps, StepWith

LEMMA RefinesStep == IInv /\ [Next]_vars => [Dag!Next]_(StepWith("QA_PASSED"))
<1> SUFFICES ASSUME IInv, [Next]_vars PROVE [Dag!Next]_(StepWith("QA_PASSED"))
  OBVIOUS
<1>1. CASE PlanAwardedJob
  <2>1. StepWith("QA_PASSED")' = {}
    BY <1>1 DEF PlanAwardedJob, FreshSteps, StepWith
  <2> QED BY <2>1 DEF Dag!Next, Dag!MakeAnew
<1>2. CASE PassesHeldStep
  <2>1. /\ task.step \in Steps /\ task.step \notin StepWith("QA_PASSED")
        /\ Deps[task.step] \subseteq StepWith("QA_PASSED")
    BY <1>2, PassedStep, DepsAreEarlier DEF StepWith, Done
  <2>2. StepWith("QA_PASSED")' = StepWith("QA_PASSED") \cup {task.step}
    BY <1>2, PassedStep DEF StepWith
  <2> QED BY <2>1, <2>2 DEF Dag!Next, Dag!Pass
<1>3. CASE ~PlanAwardedJob /\ ~PassesHeldStep
  BY <1>3, KeepsStep DEF KeepsPassed, StepWith, Done
<1> QED BY <1>1, <1>2, <1>3

(* Every step of the worker, the watchdog and the operator is a step of    *)
(* DagOrder, or changes nothing it sees.                                   *)
THEOREM Refinement == Spec => ImplementsDagOrder
<1> QED BY RefinesInit, RefinesStep, Invariance, PTL DEF Spec, ImplementsDagOrder, Dag!Spec
=============================================================================
