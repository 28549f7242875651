--------------------------- MODULE PayoutTreasury ---------------------------
(***************************************************************************)
(* Money truth of the controller: control/services/finance.py.             *)
(*                                                                         *)
(* record_payout_state is one database transaction.  It locks the job row  *)
(* and the payout row, validates the transition, posts the ledger entry,   *)
(* recomputes the treasury row of the marketplace from the payouts it can  *)
(* see, and commits.  The job row is locked for the whole transaction, but *)
(* the sums behind the treasury row are read under READ COMMITTED from the *)
(* payouts of every job of the marketplace: transactions of two jobs       *)
(* overlap.  So the transaction is two steps here: RecordPayoutState (locks*)
(* and reads) and CommitPayout (writes).                                   *)
(***************************************************************************)
EXTENDS Integers, FiniteSets, Functions

CONSTANTS
    Jobs,        \* jobs of one marketplace
    Inbound,     \* those created from an inbound service order
    Currencies,  \* currency codes
    Quotes,      \* the (gross, fee) pairs callers report
    Refs,        \* external references callers report
    NoRef,       \* the empty reference: entries fall back to "job:<id>"
    Txns         \* concurrent transactions

ASSUME QuotesAssumption == Quotes \subseteq [gross : Nat, fee : Nat]
ASSUME RefsAssumption == NoRef \notin Refs
ASSUME InboundAssumption == Inbound \subseteq Jobs /\ IsFiniteSet(Jobs)

VARIABLES
    jobState,  \* Job.state, by job
    payout,    \* the Payout row, by job and currency
    ledger,    \* LedgerEntry rows by entry_key: job, currency and kind
    treasury,  \* the TreasuryBalance row, by currency
    txn        \* the open transaction of each session

vars == <<jobState, payout, ledger, treasury, txn>>

JobStates == {"AWARDED", "EXECUTING", "SUBMITTED", "ACCEPTED",
              "PAYOUT_PENDING", "SETTLED", "FAILED"}
PayoutStates == {"EARNED", "PAYOUT_PENDING", "SETTLED", "REVERSED"}
Kinds == {"earned", "settled", "reversed"}
Rows == Jobs \X Currencies

NoPayout == [state |-> "NONE", gross |-> 0, fee |-> 0, ref |-> NoRef]
NoEntry == [posted |-> FALSE, reference |-> NoRef, amount |-> 0]
Idle == [open |-> FALSE]

Payout == [state : PayoutStates \cup {"NONE"}, gross : Nat, fee : Nat,
           ref : Refs \cup {NoRef}]
Entry == [posted : BOOLEAN, reference : Refs \cup {NoRef}, amount : Nat]

-----------------------------------------------------------------------------
(* Mutant: money is settled without having been earned.                    *)
SkipEarned(from, to) == from = to \/ to = "SETTLED" \/ (from # "NONE" /\ to = "REVERSED")

(* payout_state.py: the transitions assert_payout_transition accepts.      *)
AllowedPayoutTransition(from, to) ==
    \/ from = to
    \/ from = "NONE" /\ to = "EARNED"
    \/ from = "EARNED" /\ to \in {"PAYOUT_PENDING", "SETTLED", "REVERSED"}
    \/ from = "PAYOUT_PENDING" /\ to \in {"SETTLED", "REVERSED"}
    \/ from = "SETTLED" /\ to = "REVERSED"

(* Mutant: money is earned and pending whatever the state of the work.     *)
NoWorkNeeded(j, current, target, advance) ==
    IF advance
    THEN target = "SETTLED" => jobState[j] \in {"ACCEPTED", "PAYOUT_PENDING", "SETTLED"}
    ELSE j \in Inbound /\ jobState[j] # "FAILED"

(* _validate_job_money_state: what the job must be for the payout to move. *)
ValidJobMoneyState(j, current, target, advance) ==
    IF advance
    THEN /\ current = "NONE" /\ target = "EARNED"
              => jobState[j] \in {"SUBMITTED", "ACCEPTED"}
         /\ target = "PAYOUT_PENDING"
              => jobState[j] \in {"ACCEPTED", "PAYOUT_PENDING"}
         /\ target = "SETTLED"
              => jobState[j] \in {"ACCEPTED", "PAYOUT_PENDING", "SETTLED"}
         /\ target = "REVERSED" => current # "NONE"
    ELSE j \in Inbound /\ jobState[j] # "FAILED"

(* The transition_job calls of record_payout_state, composed.              *)
JobStateAfter(j, target, advance) ==
    CASE advance /\ target = "EARNED" /\ jobState[j] = "SUBMITTED" -> "ACCEPTED"
      [] advance /\ target = "PAYOUT_PENDING" /\ jobState[j] = "ACCEPTED"
           -> "PAYOUT_PENDING"
      [] advance /\ target = "SETTLED"
           /\ jobState[j] \in {"ACCEPTED", "PAYOUT_PENDING"} -> "SETTLED"
      [] OTHER -> jobState[j]

(* The entry each target state posts.                                      *)
PostedKinds(target) ==
    CASE target = "EARNED" -> {"earned"}
      [] target = "SETTLED" -> {"settled"}
      [] target = "REVERSED" -> {"reversed"}
      [] OTHER -> {}

(* _post_once: an existing entry must be the same entry.                   *)
PostOnce(key, entry) == ledger[key].posted => ledger[key] = entry

(* _recompute_treasury: sums of net over the payouts a transaction sees.   *)
NetOf(rows, c, states) ==
    SumFunctionOnSet([j \in Jobs |-> rows[<<j, c>>].gross - rows[<<j, c>>].fee],
                     {j \in Jobs : rows[<<j, c>>].state \in states})

(* Mutant: reversed payouts stay in the earned and settled totals.         *)
KeepReversed(rows, c) ==
    [earned  |-> NetOf(rows, c, PayoutStates),
     pending |-> NetOf(rows, c, {"PAYOUT_PENDING"}),
     settled |-> NetOf(rows, c, {"SETTLED", "REVERSED"})]

RecomputeTreasury(rows, c) ==
    [earned  |-> NetOf(rows, c, {"EARNED", "PAYOUT_PENDING", "SETTLED"}),
     pending |-> NetOf(rows, c, {"PAYOUT_PENDING"}),
     settled |-> NetOf(rows, c, {"SETTLED"})]

-----------------------------------------------------------------------------
Init ==
    /\ jobState \in [Jobs -> {"AWARDED"}]
    /\ payout = [r \in Rows |-> NoPayout]
    /\ ledger = [k \in Rows \X Kinds |-> NoEntry]
    /\ treasury = [c \in Currencies |-> [earned |-> 0, pending |-> 0, settled |-> 0]]
    /\ txn = [t \in Txns |-> Idle]

(* SELECT ... FOR UPDATE on the job row waits for the transaction that     *)
(* holds it.                                                               *)
Unlocked(j) == \A t \in Txns : txn[t].open => txn[t].job # j

(* record_payout_state up to and with _recompute_treasury's reads.  Every  *)
(* ValueError of the code is a guard: the call rolls back, nothing changes.*)
RecordPayoutState(t, j, c, target, quote, ref, advance) ==
    LET r == <<j, c>>
        old == payout[r]
        new == [state |-> target, gross |-> quote.gross, fee |-> quote.fee,
                ref |-> IF ref # NoRef THEN ref ELSE old.ref]
        entry == [posted |-> TRUE, reference |-> new.ref,
                  amount |-> quote.gross - quote.fee]
    IN  /\ ~txn[t].open
        /\ Unlocked(j)
        /\ quote.fee <= quote.gross
        /\ AllowedPayoutTransition(old.state, target)
        /\ ValidJobMoneyState(j, old.state, target, advance)
        /\ old.state # "NONE" => old.gross = quote.gross /\ old.fee = quote.fee
        /\ \A kind \in PostedKinds(target) : PostOnce(<<r, kind>>, entry)
        /\ txn' = [txn EXCEPT ![t] =
               [open |-> TRUE, job |-> j, cur |-> c, row |-> new,
                jobTo |-> JobStateAfter(j, target, advance),
                kinds |-> PostedKinds(target), entry |-> entry,
                balance |-> RecomputeTreasury([payout EXCEPT ![r] = new], c)]]
        /\ UNCHANGED <<jobState, payout, ledger, treasury>>

(* The ledger a transaction leaves, as far as it sees it.                  *)
LedgerAfter(x) ==
    [k \in Rows \X Kinds |->
        IF k[1] = <<x.job, x.cur>> /\ k[2] \in x.kinds THEN x.entry ELSE ledger[k]]

(* The transaction commits: update_or_create overwrites the treasury row   *)
(* with the sums read earlier.                                             *)
CommitPayout(t) ==
    LET x == txn[t]
        r == <<x.job, x.cur>>
    IN  /\ x.open
        /\ jobState' = [jobState EXCEPT ![x.job] = x.jobTo]
        /\ payout' = [payout EXCEPT ![r] = x.row]
        /\ ledger' = LedgerAfter(x)
        /\ treasury' = [treasury EXCEPT ![x.cur] = x.balance]
        /\ txn' = [txn EXCEPT ![t] = Idle]

(* A later step of the transaction raises, or the process dies.            *)
RollbackPayout(t) ==
    /\ txn[t].open
    /\ txn' = [txn EXCEPT ![t] = Idle]
    /\ UNCHANGED <<jobState, payout, ledger, treasury>>

(* The transitions the rest of the controller makes with transition_job    *)
(* (execution, submission, webhooks, operator retry): each takes the row   *)
(* lock.                                                                   *)
LifecycleMoves ==
    {<<"AWARDED", "EXECUTING">>, <<"EXECUTING", "SUBMITTED">>,
     <<"EXECUTING", "FAILED">>, <<"FAILED", "AWARDED">>,
     <<"SUBMITTED", "EXECUTING">>, <<"SUBMITTED", "ACCEPTED">>}

TransitionJob(j, target) ==
    /\ Unlocked(j)
    /\ <<jobState[j], target>> \in LifecycleMoves
    /\ jobState' = [jobState EXCEPT ![j] = target]
    /\ UNCHANGED <<payout, ledger, treasury, txn>>

Next ==
    \/ \E t \in Txns, j \in Jobs, c \in Currencies, target \in PayoutStates,
          quote \in Quotes, ref \in Refs \cup {NoRef}, advance \in BOOLEAN :
          RecordPayoutState(t, j, c, target, quote, ref, advance)
    \/ \E t \in Txns : CommitPayout(t) \/ RollbackPayout(t)
    \/ \E j \in Jobs, target \in JobStates : TransitionJob(j, target)

Spec == Init /\ [][Next]_vars

-----------------------------------------------------------------------------
(* Types: the rows and, in an open transaction, what it is about to write. *)
(* (What the treasury's sums are is said by TreasuryMatchesLedger.)        *)
RowsTyped ==
    /\ jobState \in [Jobs -> JobStates]
    /\ payout \in [Rows -> Payout]
    /\ ledger \in [Rows \X Kinds -> Entry]

TxnTyped(x) ==
    /\ x.job \in Jobs /\ x.cur \in Currencies /\ x.row \in Payout
    /\ x.jobTo \in JobStates /\ x.kinds \subseteq Kinds /\ x.entry \in Entry

TypeOK ==
    /\ RowsTyped
    /\ \A t \in Txns : txn[t].open \in BOOLEAN /\ (txn[t].open => TxnTyped(txn[t]))

(* "Only SETTLED is received cash": the entries posted for a payout are    *)
(* exactly those of its state's history, each for the payout's net, so a   *)
(* cash entry exists only for a payout that was SETTLED and a reversal     *)
(* only for a REVERSED one, whatever calls are repeated or interleaved     *)
(* (_post_once, assert_payout_transition).                                 *)
LedgerMatchesPayout ==
    \A r \in Rows :
        LET s == payout[r].state
            Has(kind) == ledger[<<r, kind>>].posted
        IN  /\ Has("earned") <=> s # "NONE"
            /\ s = "SETTLED" => Has("settled")
            /\ s \in {"NONE", "EARNED", "PAYOUT_PENDING"} => ~Has("settled")
            /\ Has("reversed") <=> s = "REVERSED"
            /\ \A kind \in Kinds :
                   Has(kind) => ledger[<<r, kind>>].amount = payout[r].gross - payout[r].fee

(* A job is SETTLED only when cash was posted for it in some currency:     *)
(* record_payout_state is the one way into SETTLED.                        *)
SettledJobHasCash ==
    \A j \in Jobs : jobState[j] = "SETTLED" =>
        \E c \in Currencies : ledger[<<<<j, c>>, "settled">>].posted

(* Money never runs ahead of the work: a payout of marketplace work exists *)
(* only once the job was accepted, so revision, failure and retry cannot   *)
(* reach a job with earnings, and a payout is pending or settled only when *)
(* the job went at least as far.                                           *)
MoneyFollowsWork ==
    \A j \in Jobs \ Inbound, c \in Currencies :
        LET s == payout[<<j, c>>].state
        IN  /\ s # "NONE" => jobState[j] \in {"ACCEPTED", "PAYOUT_PENDING", "SETTLED"}
            /\ s = "PAYOUT_PENDING" => jobState[j] # "ACCEPTED"
            /\ s = "SETTLED" => jobState[j] = "SETTLED"

(* Ledger rows are append-only: once posted an entry never changes, also   *)
(* when a call is repeated with another external reference (_post_once).   *)
LedgerAppendOnly ==
    [][\A k \in Rows \X Kinds : ledger[k].posted => ledger'[k] = ledger[k]]_vars

(* The sums a transaction writes to the treasury, which it takes from the  *)
(* payouts, agree with the append-only ledger it leaves: cash settled and  *)
(* not reversed, earnings not reversed.  (Between its reads and its commit *)
(* others may commit: see ReversalLeavesSettledCash.)                      *)
PostedNet(entries, c, kind) ==
    SumFunctionOnSet([j \in Jobs |-> entries[<<<<j, c>>, kind>>].amount],
                     {j \in Jobs : entries[<<<<j, c>>, kind>>].posted
                                 /\ ~entries[<<<<j, c>>, "reversed">>].posted})

TreasuryMatchesLedger ==
    [][\A t \in Txns : ~txn[t].open /\ txn'[t].open =>
          LET x == txn'[t]
          IN  /\ x.balance.settled = PostedNet(LedgerAfter(x), x.cur, "settled")
              /\ x.balance.earned = PostedNet(LedgerAfter(x), x.cur, "earned")]_vars

(* docs/two-sided-revenue-engine.md:18, "Reversal preserves historical     *)
(* settlement evidence while removing the payout from settled cash": with  *)
(* no transaction open, settled cash never exceeds the SETTLED payouts.    *)
ReversalLeavesSettledCash ==
    (\A t \in Txns : ~txn[t].open) =>
        \A c \in Currencies : treasury[c].settled <= NetOf(payout, c, {"SETTLED"})

(* The ledger alone tells the life of the money: see MoneyLifecycle.       *)
Phase(r) ==
    CASE ledger[<<r, "reversed">>].posted -> "reversed"
      [] ledger[<<r, "settled">>].posted /\ ~ledger[<<r, "reversed">>].posted -> "cash"
      [] ledger[<<r, "earned">>].posted /\ ~ledger[<<r, "settled">>].posted
           /\ ~ledger[<<r, "reversed">>].posted -> "receivable"
      [] OTHER -> "none"

Money == INSTANCE MoneyLifecycle WITH phase <- [r \in Rows |-> Phase(r)]
ImplementsMoneyLifecycle == Money!Spec
=============================================================================
