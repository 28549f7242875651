---------------------------- MODULE UsageEvidence ----------------------------
(***************************************************************************)
(* genx_usage_evidence.py: what a finished GenX call cost when the gateway *)
(* no longer says so, from two snapshots of the account's balance around   *)
(* it.  The charge of a call is a fact of the gateway; the rows hold what  *)
(* is known of it, and when calls were made and ended.                     *)
(***************************************************************************)
EXTENDS FiniteSets, Integers

CONSTANTS
    Billed,       \* GenXCall rows of one account
    Prices,       \* what the gateway may charge for one
    MaxSnapshots  \* bound

ASSUME PricesAssumption == Prices \subseteq Nat

VARIABLES
    now,       \* the clock: every dated event has a time of its own
    row,       \* GenXCall: status, billing_truth, credits, started_at, completed_at
    work,      \* the remote job of a call: state, created_at, updated_at, charge
    spent,     \* what the account has been charged in all
    balance,   \* a balance read and not yet a row; -1 for none
    snapshots, \* GenXAccountSnapshot rows: created_at and the balance
    torn       \* a charge fell between the two, for some snapshot
usageVars == <<now, row, work, spent, balance, snapshots, torn>>

RowStatuses == {"NONE", "RESERVED", "COMPLETED", "FAILED"}
Truths == {"PENDING", "UNRESOLVED", "NOT_APPLICABLE", "ACTUAL"}

UsageInit ==
    /\ now = 0 /\ spent = 0 /\ balance = -1 /\ snapshots = {} /\ torn = FALSE
    /\ row = [c \in Billed |-> [status |-> "NONE", truth |-> "PENDING", credits |-> 0,
                                started |-> 0, completed |-> 0]]
    /\ work = [c \in Billed |-> [state |-> "none", began |-> 0, ended |-> 0, charge |-> 0]]

Tick == now' = now + 1

Reserve(c) ==
    /\ row[c].status = "NONE"
    /\ Tick /\ row' = [row EXCEPT ![c].status = "RESERVED", ![c].started = now']
    /\ UNCHANGED <<work, spent, balance, snapshots, torn>>

(* The gateway takes its charge when it accepts the work or when it is done*)
(* and takes none for work that fails.                                     *)
Charge(amount) ==
    /\ spent' = spent + amount
    /\ torn' = (torn \/ (amount > 0 /\ balance >= 0))

WorkBegins(c) ==
    /\ row[c].status = "RESERVED" /\ work[c].state = "none"
    /\ Tick
    /\ \E amount \in Prices \cup {0} :
          /\ work' = [work EXCEPT ![c] = [state |-> "running", began |-> now', ended |-> 0,
                                          charge |-> amount]]
          /\ Charge(amount)
    /\ UNCHANGED <<row, balance, snapshots>>

WorkEnds(c) ==
    /\ work[c].state = "running"
    /\ Tick
    /\ \/ \E amount \in (IF work[c].charge = 0 THEN Prices ELSE {0}) :
             /\ work' = [work EXCEPT ![c].state = "done", ![c].ended = now', ![c].charge = @ + amount]
             /\ Charge(amount)
       \/ /\ work[c].charge = 0
          /\ work' = [work EXCEPT ![c].state = "failed", ![c].ended = now']
          /\ UNCHANGED <<spent, torn>>
    /\ UNCHANGED <<row, balance, snapshots>>

(* reconcile_remote_job_payload of a payload with or without usage.        *)
Known(c, truth, credits) ==
    /\ row' = [row EXCEPT
           ![c].status = IF work[c].state = "done" THEN "COMPLETED" ELSE "FAILED",
           ![c].truth = truth, ![c].credits = credits,
           ![c].completed = IF @ = 0 THEN now + 1 ELSE @]
    /\ now' = IF row[c].completed = 0 THEN now + 1 ELSE now

(* A poll, or _direct_remote_usage where the gateway shows the usage.      *)
ReconcileCall(c) ==
    /\ work[c].state \in {"done", "failed"} /\ row[c].truth # "ACTUAL"
    /\ \/ Known(c, "ACTUAL", work[c].charge)
       \/ Known(c, IF work[c].state = "failed" THEN "NOT_APPLICABLE" ELSE "UNRESOLVED", 0)
    /\ UNCHANGED <<work, spent, balance, snapshots, torn>>

(* sync_models reads the balance, then writes the catalogue and the row.   *)
ReadBalance ==
    /\ balance = -1 /\ Cardinality(snapshots) < MaxSnapshots
    /\ balance' = spent
    /\ UNCHANGED <<now, row, work, spent, snapshots, torn>>

InsertSnapshot ==
    /\ balance >= 0
    /\ Tick /\ snapshots' = snapshots \cup {[at |-> now', spent |-> balance]}
    /\ balance' = -1
    /\ UNCHANGED <<row, work, spent, torn>>

-----------------------------------------------------------------------------
(* _possible_competing_calls; mutant: only calls dated inside the window.  *)
DatedInside(c, before, after) ==
    {o \in Billed \ {c} :
        /\ row[o].status # "NONE" /\ row[o].truth # "NOT_APPLICABLE"
        /\ \/ row[o].started \in before.at..after.at
           \/ row[o].completed \in before.at..after.at}
Competing(c, before, after) ==
    {o \in Billed \ {c} :
        /\ row[o].status # "NONE" /\ row[o].truth # "NOT_APPLICABLE"
        /\ ~(row[o].truth = "ACTUAL" /\ row[o].credits = 0)
        /\ \/ row[o].started \in before.at..after.at
           \/ row[o].completed \in before.at..after.at
           \/ /\ row[o].started < before.at
              /\ row[o].completed = 0 \/ row[o].completed >= before.at}

Latest(set) == CHOOSE s \in set : \A t \in set : t.at <= s.at
Earliest(set) == CHOOSE s \in set : \A t \in set : s.at <= t.at

(* resolve_missing_genx_usage, where the gateway shows no usage.           *)
ResolveByBalance(c) ==
    LET start == row[c].started
        earlier == {s \in snapshots : s.at <= start}
        later == {s \in snapshots : s.at >= work[c].ended}
    IN
    /\ row[c].truth # "ACTUAL" /\ work[c].state = "done"
    /\ earlier # {} /\ later # {}
    /\ Latest(earlier).spent < Earliest(later).spent
    /\ Competing(c, Latest(earlier), Earliest(later)) = {}
    /\ Known(c, "ACTUAL", Earliest(later).spent - Latest(earlier).spent)
    /\ UNCHANGED <<work, spent, balance, snapshots, torn>>

UsageNext ==
    \/ \E c \in Billed :
          \/ Reserve(c) \/ WorkBegins(c) \/ WorkEnds(c) \/ ReconcileCall(c)
          \/ ResolveByBalance(c)
    \/ ReadBalance \/ InsertSnapshot

UsageSpec == UsageInit /\ [][UsageNext]_usageVars

-----------------------------------------------------------------------------
(* A cost on record is what the gateway took for that call, whichever calls*)
(* ran beside it, provided no charge fell between the reading of a balance *)
(* and the row that dates it (genx_usage_evidence.py:317-320).             *)
CostIsOfThisCall == \A c \in Billed :
    row[c].truth = "ACTUAL" /\ ~torn => row[c].credits = work[c].charge
=============================================================================
