---------------------------- MODULE MoneyProofs ----------------------------
(***************************************************************************)
(* What is said of money: payouts, the ledger and the treasury's sums      *)
(* (PayoutTreasury), and what reports call earned (ProfitTruth).           *)
(*                                                                         *)
(* The safety of PayoutTreasury for any jobs, currencies, quotes,          *)
(* references and number of concurrent transactions.  The row lock is the  *)
(* argument: while a transaction is open nobody else moves its job or its  *)
(* payout row, so what it validated when it started (OpenTxnValid) still   *)
(* holds when it commits.                                                  *)
(***************************************************************************)
EXTENDS PayoutTreasury, ProfitTruth, SumTheorems, TLAPS

(* A job that can have a payout in state s.                                *)
JobFits(js, s) ==
    /\ s # "NONE" => js \in {"ACCEPTED", "PAYOUT_PENDING", "SETTLED"}
    /\ s = "PAYOUT_PENDING" => js # "ACCEPTED"
    /\ s = "SETTLED" => js = "SETTLED"

(* The job states a payout transaction moves between.                      *)
JobAdvances(from, to) ==
    \/ from = to
    \/ from = "SUBMITTED" /\ to = "ACCEPTED"
    \/ from = "ACCEPTED" /\ to \in {"PAYOUT_PENDING", "SETTLED"}
    \/ from = "PAYOUT_PENDING" /\ to = "SETTLED"

(* What a transaction validated is still true.                             *)
OpenTxnValid(x) ==
    LET old == payout[<<x.job, x.cur>>]
    IN  /\ TxnTyped(x)
        /\ x.row.state \in PayoutStates
        /\ AllowedPayoutTransition(old.state, x.row.state)
        /\ old.state # "NONE" => old.gross = x.row.gross /\ old.fee = x.row.fee
        /\ x.kinds = PostedKinds(x.row.state)
        /\ x.entry.posted
        /\ x.entry.amount = x.row.gross - x.row.fee
        /\ \A kind \in x.kinds : PostOnce(<<<<x.job, x.cur>>, kind>>, x.entry)
        /\ JobAdvances(jobState[x.job], x.jobTo)
        /\ x.jobTo = "SETTLED" => jobState[x.job] = "SETTLED" \/ x.row.state = "SETTLED"
        /\ x.job \notin Inbound => JobFits(x.jobTo, x.row.state)

TxnsInv ==
    /\ txn = [t \in Txns |-> txn[t]]
    /\ \A t \in Txns : txn[t].open \in BOOLEAN
    /\ \A t \in Txns : txn[t].open => OpenTxnValid(txn[t])
    /\ \A t, u \in Txns : txn[t].open /\ txn[u].open /\ t # u => txn[t].job # txn[u].job

IInv == RowsTyped /\ TxnsInv /\ LedgerMatchesPayout /\ MoneyFollowsWork /\ SettledJobHasCash

-----------------------------------------------------------------------------
LEMMA InitIInv == Init => IInv
<1> SUFFICES ASSUME Init PROVE IInv
  OBVIOUS
<1>1. NoPayout \in Payout /\ NoPayout.state = "NONE" /\ NoEntry \in Entry /\ ~NoEntry.posted
  BY DEF NoPayout, Payout, NoEntry, Entry
<1>2. /\ \A r \in Rows : payout[r] = NoPayout
      /\ \A k \in Rows \X Kinds : ledger[k] = NoEntry
      /\ \A j \in Jobs : jobState[j] = "AWARDED"
  BY DEF Init
<1>3. RowsTyped
  BY <1>1 DEF Init, RowsTyped, JobStates
<1>4. TxnsInv
  BY DEF Init, TxnsInv, Idle
<1>5. LedgerMatchesPayout
  BY <1>1, <1>2 DEF LedgerMatchesPayout, Kinds
<1>6. MoneyFollowsWork /\ SettledJobHasCash
  BY <1>1, <1>2 DEF MoneyFollowsWork, SettledJobHasCash, Rows
<1>7. QED
  BY <1>3, <1>4, <1>5, <1>6 DEF IInv

(* Recording only opens a transaction; what it checks is OpenTxnValid.     *)
LEMMA RecordInv ==
  ASSUME IInv, NEW t \in Txns, NEW j \in Jobs, NEW c \in Currencies,
         NEW target \in PayoutStates, NEW quote \in Quotes,
         NEW ref \in Refs \cup {NoRef}, NEW advance \in BOOLEAN,
         RecordPayoutState(t, j, c, target, quote, ref, advance)
  PROVE  IInv'
<1> DEFINE r == <<j, c>>
           old == payout[r]
           new == [state |-> target, gross |-> quote.gross, fee |-> quote.fee,
                   ref |-> IF ref # NoRef THEN ref ELSE old.ref]
           entry == [posted |-> TRUE, reference |-> new.ref,
                     amount |-> quote.gross - quote.fee]
           x == txn'[t]
<1>1. /\ r \in Rows /\ old \in Payout /\ jobState[j] \in JobStates
      /\ quote.gross \in Nat /\ quote.fee \in Nat /\ quote.fee <= quote.gross
  BY QuotesAssumption DEF IInv, RowsTyped, Rows, RecordPayoutState
<1>2. new \in Payout /\ entry \in Entry
  BY <1>1 DEF Payout, Entry
<1>3. /\ x.open = TRUE /\ x.job = j /\ x.cur = c /\ x.row = new
      /\ x.jobTo = JobStateAfter(j, target, advance)
      /\ x.kinds = PostedKinds(target) /\ x.entry = entry
      /\ \A u \in Txns : u # t => txn'[u] = txn[u]
      /\ txn' = [u \in Txns |-> txn'[u]]
  BY DEF RecordPayoutState, IInv, TxnsInv
<1>4. UNCHANGED <<jobState, payout, ledger>>
  BY DEF RecordPayoutState
<1>5. PostedKinds(target) \subseteq Kinds
  BY DEF PostedKinds, Kinds
<1>6. JobStateAfter(j, target, advance) \in JobStates
  BY <1>1 DEF JobStateAfter, JobStates
<1>7. TxnTyped(x)
  BY <1>2, <1>3, <1>5, <1>6 DEF TxnTyped
<1>8. JobAdvances(jobState[j], x.jobTo)
  BY <1>3 DEF JobAdvances, JobStateAfter
<1>9. x.jobTo = "SETTLED" => jobState[j] = "SETTLED" \/ target = "SETTLED"
  BY <1>3 DEF JobStateAfter
<1>10. j \notin Inbound => JobFits(x.jobTo, target)
  <2> SUFFICES ASSUME j \notin Inbound PROVE JobFits(x.jobTo, target)
    OBVIOUS
  <2>1. advance /\ ValidJobMoneyState(j, old.state, target, advance)
    BY DEF RecordPayoutState, ValidJobMoneyState
  <2>2. AllowedPayoutTransition(old.state, target)
    BY DEF RecordPayoutState
  <2>3. JobFits(jobState[j], old.state)
    BY <1>1 DEF IInv, MoneyFollowsWork, JobFits, Rows
  <2>4. QED
    BY <1>3, <2>1, <2>2, <2>3
       DEF ValidJobMoneyState, AllowedPayoutTransition, JobFits, JobStateAfter, PayoutStates
<1>11. OpenTxnValid(txn[t])'
  <2>1. AllowedPayoutTransition(old.state, target)
    BY DEF RecordPayoutState
  <2>2. old.state # "NONE" => old.gross = quote.gross /\ old.fee = quote.fee
    BY DEF RecordPayoutState
  <2>3. \A kind \in PostedKinds(target) : PostOnce(<<r, kind>>, entry)
    BY DEF RecordPayoutState
  <2>4. x.row.state = target /\ x.row.gross = quote.gross /\ x.row.fee = quote.fee
    BY <1>3
  <2>5. x.entry.posted /\ x.entry.amount = quote.gross - quote.fee
    BY <1>3
  <2> HIDE DEF new, entry, old
  <2>6. QED
    BY <1>3, <1>4, <1>7, <1>8, <1>9, <1>10, <2>1, <2>2, <2>3, <2>4, <2>5
       DEF OpenTxnValid, TxnTyped, PostOnce, old
<1>12. \A u \in Txns : txn'[u].open => OpenTxnValid(txn[u])'
  <2> SUFFICES ASSUME NEW u \in Txns, txn'[u].open, u # t
               PROVE  OpenTxnValid(txn[u])'
    BY <1>11
  <2>1. OpenTxnValid(txn[u]) /\ txn'[u] = txn[u]
    BY <1>3 DEF IInv, TxnsInv
  <2>2. QED
    BY <2>1, <1>4 DEF OpenTxnValid, TxnTyped, PostOnce
<1>13. TxnsInv'
  <2>1. \A u \in Txns : txn[u].open => txn[u].job # j
    BY DEF RecordPayoutState, Unlocked
  <2>2. \A u \in Txns : txn'[u].open \in BOOLEAN
    BY <1>3 DEF IInv, TxnsInv
  <2>3. \A u, w \in Txns : txn'[u].open /\ txn'[w].open /\ u # w => txn'[u].job # txn'[w].job
    BY <1>3, <2>1 DEF IInv, TxnsInv
  <2>4. QED
    BY <1>3, <1>12, <2>2, <2>3 DEF TxnsInv
<1>14. QED
  BY <1>4, <1>13 DEF IInv, RowsTyped, LedgerMatchesPayout, MoneyFollowsWork, SettledJobHasCash

(* Closing a transaction keeps what is known of the others.                *)
LEMMA CloseTxn ==
  ASSUME TxnsInv, NEW t \in Txns, txn' = [txn EXCEPT ![t] = Idle]
  PROVE  /\ txn'[t] = Idle
         /\ \A u \in Txns : u # t => txn'[u] = txn[u]
         /\ txn' = [u \in Txns |-> txn'[u]]
         /\ \A u \in Txns : txn'[u].open \in BOOLEAN
         /\ \A u \in Txns : txn'[u].open => u # t
         /\ \A u, w \in Txns : txn'[u].open /\ txn'[w].open /\ u # w
                               => txn'[u].job # txn'[w].job
<1>1. /\ txn'[t] = Idle
      /\ \A u \in Txns : u # t => txn'[u] = txn[u]
      /\ txn' = [u \in Txns |-> txn'[u]]
  BY DEF TxnsInv
<1>2. Idle.open = FALSE
  BY DEF Idle
<1>3. ASSUME NEW u \in Txns PROVE txn'[u].open \in BOOLEAN
  <2>1. CASE u = t
    BY <1>1, <1>2, <2>1
  <2>2. CASE u # t
    BY <1>1, <2>2 DEF TxnsInv
  <2>3. QED
    BY <2>1, <2>2
<1>4. \A u \in Txns : txn'[u].open => u # t
  BY <1>1, <1>2
<1>5. \A u, w \in Txns : txn'[u].open /\ txn'[w].open /\ u # w => txn'[u].job # txn'[w].job
  BY <1>1, <1>4 DEF TxnsInv
<1>6. QED
  BY <1>1, <1>3, <1>4, <1>5

(* A commit writes one payout row, its entries and its job; the row lock   *)
(* keeps every other open transaction on another job.                      *)
(* The entries of a payout are those of its state's history.               *)
Matches(rows, entries) ==
    \A r \in Rows :
        LET s == rows[r].state
            Has(kind) == entries[<<r, kind>>].posted
        IN  /\ Has("earned") <=> s # "NONE"
            /\ s = "SETTLED" => Has("settled")
            /\ s \in {"NONE", "EARNED", "PAYOUT_PENDING"} => ~Has("settled")
            /\ Has("reversed") <=> s = "REVERSED"
            /\ \A kind \in Kinds :
                   Has(kind) => entries[<<r, kind>>].amount = rows[r].gross - rows[r].fee

(* What an open transaction will leave if nobody commits before it.        *)
LEMMA WhatCommits ==
  ASSUME IInv, NEW t \in Txns, txn[t].open
  PROVE  Matches([payout EXCEPT ![<<txn[t].job, txn[t].cur>>] = txn[t].row], LedgerAfter(txn[t]))
<1> DEFINE x == txn[t]
           r == <<x.job, x.cur>>
           old == payout[r]
           rows == [payout EXCEPT ![r] = x.row]
           entries == LedgerAfter(x)
<1>1. OpenTxnValid(x) /\ payout \in [Rows -> Payout]
  BY DEF IInv, TxnsInv, RowsTyped
<1>2. r \in Rows /\ x.kinds \subseteq Kinds
  BY <1>1 DEF OpenTxnValid, TxnTyped, Rows
<1>3. rows[r] = x.row /\ \A q \in Rows : q # r => rows[q] = payout[q]
  BY <1>1, <1>2
<1>4. \A q \in Rows, kind \in Kinds :
         entries[<<q, kind>>] = IF q = r /\ kind \in x.kinds THEN x.entry ELSE ledger[<<q, kind>>]
  BY DEF LedgerAfter
<1> HIDE DEF rows, entries
<1> SUFFICES ASSUME NEW q \in Rows
             PROVE  LET s == rows[q].state
                        Has(kind) == entries[<<q, kind>>].posted
                    IN  /\ Has("earned") <=> s # "NONE"
                        /\ s = "SETTLED" => Has("settled")
                        /\ s \in {"NONE", "EARNED", "PAYOUT_PENDING"} => ~Has("settled")
                        /\ Has("reversed") <=> s = "REVERSED"
                        /\ \A kind \in Kinds : Has(kind) =>
                             entries[<<q, kind>>].amount = rows[q].gross - rows[q].fee
  BY DEF Matches, rows, entries
<1>5. CASE q # r
  BY <1>3, <1>4, <1>5 DEF IInv, LedgerMatchesPayout, Kinds
<1>6. CASE q = r
  <2>1. /\ x.row.state \in PayoutStates
        /\ AllowedPayoutTransition(old.state, x.row.state)
        /\ old.state # "NONE" => old.gross = x.row.gross /\ old.fee = x.row.fee
        /\ x.kinds = PostedKinds(x.row.state)
        /\ x.entry.posted /\ x.entry.amount = x.row.gross - x.row.fee
    BY <1>1 DEF OpenTxnValid
  <2>2. /\ ledger[<<r, "earned">>].posted <=> old.state # "NONE"
        /\ old.state = "SETTLED" => ledger[<<r, "settled">>].posted
        /\ old.state \in {"NONE", "EARNED", "PAYOUT_PENDING"} => ~ledger[<<r, "settled">>].posted
        /\ ledger[<<r, "reversed">>].posted <=> old.state = "REVERSED"
        /\ \A kind \in Kinds : ledger[<<r, kind>>].posted =>
              ledger[<<r, kind>>].amount = old.gross - old.fee
    BY <1>2 DEF IInv, LedgerMatchesPayout
  <2>3. \A kind \in Kinds : entries[<<r, kind>>] =
           IF kind \in x.kinds THEN x.entry ELSE ledger[<<r, kind>>]
    BY <1>2, <1>4
  <2>4. \A kind \in Kinds : entries[<<r, kind>>].posted =>
           entries[<<r, kind>>].amount = x.row.gross - x.row.fee
    <3> TAKE kind \in Kinds
    <3>1. CASE kind \in x.kinds
      BY <2>1, <2>3, <3>1
    <3>2. CASE kind \notin x.kinds
      <4>1. entries[<<r, kind>>] = ledger[<<r, kind>>]
        BY <2>3, <3>2
      <4>2. ledger[<<r, kind>>].posted => old.state # "NONE"
        BY <2>2 DEF Kinds
      <4> QED BY <2>1, <2>2, <4>1, <4>2
    <3> QED BY <3>1, <3>2
  <2>5. /\ entries[<<r, "earned">>].posted <=> x.row.state # "NONE"
        /\ x.row.state = "SETTLED" => entries[<<r, "settled">>].posted
        /\ x.row.state \in {"NONE", "EARNED", "PAYOUT_PENDING"}
             => ~entries[<<r, "settled">>].posted
        /\ entries[<<r, "reversed">>].posted <=> x.row.state = "REVERSED"
    BY SMTT(30), <2>1, <2>2, <2>3 DEF Kinds, PostedKinds, AllowedPayoutTransition, PayoutStates
  <2> QED BY <1>3, <1>6, <2>4, <2>5
<1> QED BY <1>5, <1>6

LEMMA CommitInv ==
  ASSUME IInv, NEW t \in Txns, CommitPayout(t)
  PROVE  IInv'
<1> DEFINE x == txn[t]
           r == <<x.job, x.cur>>
           old == payout[r]
<1>1. OpenTxnValid(x)
  BY DEF CommitPayout, LedgerAfter, IInv, TxnsInv
<1>2. x.job \in Jobs /\ x.cur \in Currencies /\ r \in Rows /\ x.row \in Payout
      /\ x.jobTo \in JobStates /\ x.entry \in Entry /\ x.kinds \subseteq Kinds
  BY <1>1 DEF OpenTxnValid, TxnTyped, Rows
<1>3. /\ payout'[r] = x.row
      /\ \A q \in Rows : q # r => payout'[q] = payout[q]
      /\ jobState'[x.job] = x.jobTo
      /\ \A j \in Jobs : j # x.job => jobState'[j] = jobState[j]
      /\ txn'[t] = Idle
      /\ \A u \in Txns : u # t => txn'[u] = txn[u]
      /\ txn' = [u \in Txns |-> txn'[u]]
  BY <1>2 DEF CommitPayout, LedgerAfter, IInv, RowsTyped, TxnsInv
<1>4. \A q \in Rows, kind \in Kinds :
         ledger'[<<q, kind>>] =
           IF q = r /\ kind \in x.kinds THEN x.entry ELSE ledger[<<q, kind>>]
  BY DEF CommitPayout, LedgerAfter
<1>5. RowsTyped'
  <2>1. payout' \in [Rows -> Payout] /\ jobState' \in [Jobs -> JobStates]
    BY <1>2 DEF CommitPayout, LedgerAfter, IInv, RowsTyped
  <2>2. ledger' \in [Rows \X Kinds -> Entry]
    <3>1. ledger' = [k \in Rows \X Kinds |->
                       IF k[1] = r /\ k[2] \in x.kinds THEN x.entry ELSE ledger[k]]
      BY DEF CommitPayout, LedgerAfter
    <3>2. x.entry \in Entry /\ \A k \in Rows \X Kinds : ledger[k] \in Entry
      BY <1>2 DEF IInv, RowsTyped
    <3> HIDE DEF x, r
    <3>3. QED
      BY <3>1, <3>2
  <2>3. QED
    BY <2>1, <2>2 DEF RowsTyped
<1>6. TxnsInv'
  <2>1. txn' = [txn EXCEPT ![t] = Idle] /\ TxnsInv
    BY DEF CommitPayout, LedgerAfter, IInv
  <2>2. /\ \A u \in Txns : txn'[u].open \in BOOLEAN
        /\ \A u, w \in Txns : txn'[u].open /\ txn'[w].open /\ u # w
                               => txn'[u].job # txn'[w].job
    BY <2>1, CloseTxn
  <2>3. ASSUME NEW u \in Txns, txn'[u].open PROVE OpenTxnValid(txn[u])'
    <3>1. u # t /\ txn'[u] = txn[u]
      BY <1>3, <2>3 DEF Idle
    <3>2. OpenTxnValid(txn[u]) /\ txn[u].job # x.job
      BY <2>3, <3>1 DEF IInv, TxnsInv, CommitPayout
    <3> DEFINE y == txn[u]
               q == <<y.job, y.cur>>
    <3>3. y.job \in Jobs /\ y.kinds \subseteq Kinds /\ q \in Rows /\ q # r
      BY <3>2 DEF OpenTxnValid, TxnTyped, Rows
    <3>4. payout'[q] = payout[q] /\ jobState'[y.job] = jobState[y.job]
          /\ \A kind \in y.kinds : ledger'[<<q, kind>>] = ledger[<<q, kind>>]
      BY <1>3, <1>4, <3>2, <3>3
    <3>5. QED
      BY <3>1, <3>2, <3>4 DEF OpenTxnValid, TxnTyped, PostOnce
  <2>4. QED
    BY <1>3, <2>2, <2>3 DEF TxnsInv
<1>7. LedgerMatchesPayout'
  <2>1. payout' = [payout EXCEPT ![r] = x.row] /\ ledger' = LedgerAfter(x) /\ x.open
    BY DEF CommitPayout
  <2>2. Matches([payout EXCEPT ![r] = x.row], LedgerAfter(x))
    BY <2>1, WhatCommits
  <2> QED BY <2>1, <2>2 DEF Matches, LedgerMatchesPayout
<1>8. MoneyFollowsWork'
  <2> SUFFICES ASSUME NEW j \in Jobs \ Inbound, NEW c \in Currencies
               PROVE  JobFits(jobState'[j], payout'[<<j, c>>].state)
    BY DEF MoneyFollowsWork, JobFits
  <2>1. <<j, c>> \in Rows /\ JobFits(jobState[j], payout[<<j, c>>].state)
    BY DEF Rows, IInv, MoneyFollowsWork, JobFits
  <2>2. CASE j # x.job
    BY <1>3, <2>1, <2>2
  <2>3. CASE j = x.job
    <3>1. JobAdvances(jobState[j], x.jobTo) /\ JobFits(x.jobTo, x.row.state)
      BY <1>1, <2>3 DEF OpenTxnValid
    <3>2. JobFits(x.jobTo, payout[<<j, c>>].state)
      BY <2>1, <3>1 DEF JobAdvances, JobFits
    <3>3. QED
      BY <1>3, <2>1, <2>3, <3>1, <3>2
  <2>4. QED
    BY <2>2, <2>3
<1>9. SettledJobHasCash'
  <2> SUFFICES ASSUME NEW j \in Jobs, jobState'[j] = "SETTLED"
               PROVE  \E c \in Currencies : ledger'[<<<<j, c>>, "settled">>].posted
    BY DEF SettledJobHasCash
  <2>1. x.entry.posted /\ x.kinds = PostedKinds(x.row.state)
    BY <1>1 DEF OpenTxnValid
  <2>2. \A c \in Currencies : ledger[<<<<j, c>>, "settled">>].posted
                               => ledger'[<<<<j, c>>, "settled">>].posted
    BY <1>4, <2>1 DEF Rows, Kinds
  <2>3. CASE jobState[j] = "SETTLED"
    BY <2>2, <2>3 DEF IInv, SettledJobHasCash
  <2>4. CASE jobState[j] # "SETTLED"
    <3>1. j = x.job /\ x.row.state = "SETTLED"
      BY <1>1, <1>3, <2>4 DEF OpenTxnValid
    <3>2. "settled" \in x.kinds /\ "settled" \in Kinds
      BY <2>1, <3>1 DEF PostedKinds, Kinds
    <3>3. QED
      BY <1>2, <1>4, <2>1, <3>1, <3>2
  <2>5. QED
    BY <2>3, <2>4
<1>10. QED
  BY <1>5, <1>6, <1>7, <1>8, <1>9 DEF IInv

LEMMA RollbackInv ==
  ASSUME IInv, NEW t \in Txns, RollbackPayout(t)
  PROVE  IInv'
<1>1. /\ txn'[t] = Idle
      /\ \A u \in Txns : u # t => txn'[u] = txn[u]
      /\ txn' = [u \in Txns |-> txn'[u]]
      /\ \A u \in Txns : txn'[u].open \in BOOLEAN
      /\ \A u, w \in Txns : txn'[u].open /\ txn'[w].open /\ u # w
                             => txn'[u].job # txn'[w].job
      /\ UNCHANGED <<jobState, payout, ledger>>
  BY CloseTxn DEF RollbackPayout, IInv
<1>2. ASSUME NEW u \in Txns, txn'[u].open PROVE OpenTxnValid(txn[u])'
  <2>1. u # t /\ txn'[u] = txn[u]
    BY <1>1, <1>2 DEF Idle
  <2>2. OpenTxnValid(txn[u])
    BY <1>2, <2>1 DEF IInv, TxnsInv
  <2>3. QED
    BY <1>1, <2>1, <2>2 DEF OpenTxnValid, TxnTyped, PostOnce
<1>3. TxnsInv'
  BY <1>1, <1>2 DEF TxnsInv
<1>4. QED
  BY <1>1, <1>3 DEF IInv, RowsTyped, LedgerMatchesPayout, MoneyFollowsWork, SettledJobHasCash

(* The rest of the controller never moves a job that has earnings, and     *)
(* never moves one into SETTLED.                                           *)
LEMMA TransitionInv ==
  ASSUME IInv, NEW j \in Jobs, NEW target \in JobStates, TransitionJob(j, target)
  PROVE  IInv'
<1>1. /\ jobState'[j] = target
      /\ \A i \in Jobs : i # j => jobState'[i] = jobState[i]
      /\ UNCHANGED <<payout, ledger, txn>>
      /\ jobState[j] \in {"AWARDED", "EXECUTING", "FAILED", "SUBMITTED"}
      /\ target # "SETTLED"
      /\ \A t \in Txns : txn[t].open => txn[t].job # j
  BY DEF TransitionJob, LifecycleMoves, Unlocked, IInv, RowsTyped
<1>2. RowsTyped'
  BY DEF TransitionJob, IInv, RowsTyped
<1>3. TxnsInv'
  <2>1. \A t \in Txns : txn[t].open => OpenTxnValid(txn[t])'
    BY <1>1 DEF IInv, TxnsInv, OpenTxnValid, TxnTyped, PostOnce
  <2>2. QED
    BY <1>1, <2>1 DEF IInv, TxnsInv
<1>4. MoneyFollowsWork'
  BY <1>1 DEF IInv, MoneyFollowsWork
<1>5. SettledJobHasCash'
  BY <1>1 DEF IInv, SettledJobHasCash
<1>6. QED
  BY <1>1, <1>2, <1>3, <1>4, <1>5 DEF IInv, LedgerMatchesPayout

LEMMA InvStep == IInv /\ [Next]_vars => IInv'
<1> SUFFICES ASSUME IInv, [Next]_vars PROVE IInv'
  OBVIOUS
<1>1. CASE UNCHANGED vars
  BY <1>1 DEF vars, IInv, RowsTyped, TxnsInv, OpenTxnValid, TxnTyped, PostOnce,
              LedgerMatchesPayout, MoneyFollowsWork, SettledJobHasCash
<1>2. CASE Next
  BY <1>2, RecordInv, CommitInv, RollbackInv, TransitionInv DEF Next
<1>3. QED
  BY <1>1, <1>2

LEMMA Invariant == Spec => []IInv
  BY InitIInv, InvStep, PTL DEF Spec

(* For any jobs, currencies and sessions: the rows keep their types, and   *)
(* what an open record_payout_state is about to write fits them.           *)
THEOREM TypesOfMoney == Spec => []TypeOK
<1>1. IInv => TypeOK
  BY DEF IInv, TxnsInv, OpenTxnValid, TypeOK
<1> QED BY <1>1, Invariant, PTL

(* Entries posted for a payout are exactly its state's history.            *)
THEOREM LedgerSound == Spec => []LedgerMatchesPayout
  BY Invariant, PTL DEF IInv

(* A SETTLED job has received cash.                                        *)
THEOREM SettledSound == Spec => []SettledJobHasCash
  BY Invariant, PTL DEF IInv

(* A payout never runs ahead of the accepted work.                         *)
THEOREM MoneySound == Spec => []MoneyFollowsWork
  BY Invariant, PTL DEF IInv

(* Only a commit writes the ledger.                                        *)
LEMMA LedgerWriter ==
  ASSUME [Next]_vars
  PROVE  UNCHANGED ledger \/ \E t \in Txns : CommitPayout(t)
<1>1. ASSUME NEW t \in Txns, NEW j \in Jobs, NEW c \in Currencies,
             NEW target \in PayoutStates, NEW quote \in Quotes,
             NEW ref \in Refs \cup {NoRef}, NEW advance \in BOOLEAN,
             RecordPayoutState(t, j, c, target, quote, ref, advance)
      PROVE  UNCHANGED ledger
  BY <1>1 DEF RecordPayoutState
<1>2. ASSUME NEW t \in Txns, RollbackPayout(t) PROVE UNCHANGED ledger
  BY <1>2 DEF RollbackPayout
<1>3. ASSUME NEW j \in Jobs, NEW target \in JobStates, TransitionJob(j, target)
      PROVE  UNCHANGED ledger
  BY <1>3 DEF TransitionJob
<1>4. CASE UNCHANGED vars
  BY <1>4 DEF vars
<1>5. QED
  BY <1>1, <1>2, <1>3, <1>4 DEF Next

(* Ledger entries are never rewritten.                                     *)
THEOREM AppendOnly == Spec => LedgerAppendOnly
<1>1. ASSUME IInv, [Next]_vars, NEW k \in Rows \X Kinds, ledger[k].posted
      PROVE  ledger'[k] = ledger[k]
  <2>1. CASE UNCHANGED ledger
    BY <2>1
  <2>2. ASSUME NEW t \in Txns, CommitPayout(t) PROVE ledger'[k] = ledger[k]
    <3>1. OpenTxnValid(txn[t])
      BY <1>1, <2>2 DEF CommitPayout, LedgerAfter, IInv, TxnsInv
    <3>2. k = <<k[1], k[2]>>
      BY <1>1
    <3> DEFINE x == txn[t]
               r == <<x.job, x.cur>>
    <3>3. ledger'[k] = IF k[1] = r /\ k[2] \in x.kinds THEN x.entry ELSE ledger[k]
      BY <1>1, <2>2 DEF CommitPayout, LedgerAfter
    <3>4. k[1] = r /\ k[2] \in x.kinds => ledger[<<k[1], k[2]>>] = x.entry
      BY <1>1, <3>1, <3>2 DEF OpenTxnValid, PostOnce
    <3>5. QED
      BY <3>2, <3>3, <3>4
  <2>3. UNCHANGED ledger \/ \E t \in Txns : CommitPayout(t)
    BY <1>1, LedgerWriter
  <2>4. QED
    BY <2>1, <2>2, <2>3
<1>2. IInv /\ [Next]_vars =>
        [\A k \in Rows \X Kinds : ledger[k].posted => ledger'[k] = ledger[k]]_vars
  BY <1>1
<1>3. QED
  BY <1>2, Invariant, PTL DEF Spec, LedgerAppendOnly

-----------------------------------------------------------------------------
(* The phase of a payout, read off the ledger, is its state's phase.       *)
LEMMA PhaseOfState ==
  ASSUME LedgerMatchesPayout, NEW r \in Rows, payout[r].state \in PayoutStates \cup {"NONE"}
  PROVE  Phase(r) = CASE payout[r].state = "NONE" -> "none"
                      [] payout[r].state \in {"EARNED", "PAYOUT_PENDING"} -> "receivable"
                      [] payout[r].state = "SETTLED" -> "cash"
                      [] payout[r].state = "REVERSED" -> "reversed"
<1>1. /\ ledger[<<r, "earned">>].posted <=> payout[r].state # "NONE"
      /\ payout[r].state = "SETTLED" => ledger[<<r, "settled">>].posted
      /\ payout[r].state \in {"NONE", "EARNED", "PAYOUT_PENDING"}
           => ~ledger[<<r, "settled">>].posted
      /\ ledger[<<r, "reversed">>].posted <=> payout[r].state = "REVERSED"
  BY DEF LedgerMatchesPayout
<1>2. CASE payout[r].state = "NONE"
  BY <1>1, <1>2 DEF Phase
<1>3. CASE payout[r].state \in {"EARNED", "PAYOUT_PENDING"}
  BY <1>1, <1>3 DEF Phase
<1>4. CASE payout[r].state = "SETTLED"
  BY <1>1, <1>4 DEF Phase
<1>5. CASE payout[r].state = "REVERSED"
  BY <1>1, <1>5 DEF Phase
<1>6. QED
  BY <1>2, <1>3, <1>4, <1>5 DEF PayoutStates
(* The refinement: the first state has no money, a commit moves one row's  *)
(* phase at most one legal move, every other step stutters.                *)
LEMMA PhaseInit == Init => Money!Init
<1> SUFFICES ASSUME Init PROVE Money!Init
  OBVIOUS
<1>1. \A r \in Rows : payout[r].state = "NONE"
  BY DEF Init, NoPayout
<1>2. LedgerMatchesPayout
  BY InitIInv DEF IInv
<1>3. \A r \in Rows : Phase(r) = "none"
  BY <1>1, <1>2, PhaseOfState
<1>4. QED
  BY <1>3 DEF Money!Init

LEMMA PhaseStep ==
  ASSUME IInv, [Next]_vars
  PROVE  [Money!Next]_([r \in Rows |-> Phase(r)])
<1> DEFINE phase == [r \in Rows |-> Phase(r)]
<1>1. CASE UNCHANGED ledger
  BY <1>1 DEF Phase
<1>2. ASSUME NEW t \in Txns, CommitPayout(t)
      PROVE  Money!Next \/ UNCHANGED phase
  <2> DEFINE x == txn[t]
             new == x.row.state
  <2> PICK r \in Rows : r = <<x.job, x.cur>>
    BY <1>2 DEF CommitPayout, LedgerAfter, IInv, TxnsInv, OpenTxnValid, TxnTyped, Rows
  <2> DEFINE old == payout[r].state
  <2>1. /\ OpenTxnValid(x)
        /\ new \in PayoutStates /\ AllowedPayoutTransition(old, new)
    BY <1>2 DEF CommitPayout, LedgerAfter, IInv, TxnsInv, OpenTxnValid
  <2>2. \A q \in Rows : payout[q].state \in PayoutStates \cup {"NONE"}
    BY DEF IInv, RowsTyped, Payout
  <2>3. payout'[r] = x.row
    BY <1>2, <2>1 DEF CommitPayout, LedgerAfter, IInv, RowsTyped
  <2>4. LedgerMatchesPayout /\ LedgerMatchesPayout'
    BY <1>2, CommitInv DEF IInv
  <2>5. \A q \in Rows : q # r => Phase(q)' = Phase(q)
    <3> SUFFICES ASSUME NEW q \in Rows, q # r
                 PROVE  \A kind \in Kinds : ledger'[<<q, kind>>] = ledger[<<q, kind>>]
      BY DEF Phase, Kinds
    <3>1. QED
      BY <1>2 DEF CommitPayout, LedgerAfter
  <2>6. Phase(r) = CASE old = "NONE" -> "none"
                      [] old \in {"EARNED", "PAYOUT_PENDING"} -> "receivable"
                      [] old = "SETTLED" -> "cash"
                      [] old = "REVERSED" -> "reversed"
    BY <2>1, <2>2, <2>4, PhaseOfState
  <2>7. Phase(r)' = CASE new = "NONE" -> "none"
                      [] new \in {"EARNED", "PAYOUT_PENDING"} -> "receivable"
                      [] new = "SETTLED" -> "cash"
                      [] new = "REVERSED" -> "reversed"
    <3>1. /\ ledger'[<<r, "earned">>].posted <=> new # "NONE"
          /\ new = "SETTLED" => ledger'[<<r, "settled">>].posted
          /\ new \in {"NONE", "EARNED", "PAYOUT_PENDING"}
               => ~ledger'[<<r, "settled">>].posted
          /\ ledger'[<<r, "reversed">>].posted <=> new = "REVERSED"
      BY <2>1, <2>3, <2>4 DEF LedgerMatchesPayout
    <3>2. CASE new \in {"EARNED", "PAYOUT_PENDING"}
      BY <3>1, <3>2 DEF Phase
    <3>3. CASE new = "SETTLED"
      BY <3>1, <3>3 DEF Phase
    <3>4. CASE new = "REVERSED"
      BY <3>1, <3>4 DEF Phase
    <3>5. QED
      BY <2>1, <3>2, <3>3, <3>4 DEF PayoutStates
  <2>8. \/ Phase(r)' = Phase(r)
        \/ Phase(r) = "none" /\ Phase(r)' = "receivable"
        \/ Phase(r) = "receivable" /\ Phase(r)' \in {"cash", "reversed"}
        \/ Phase(r) = "cash" /\ Phase(r)' = "reversed"
    <3>1. CASE old = new
      BY <2>6, <2>7, <3>1
    <3>2. CASE old = "NONE" /\ new = "EARNED"
      BY <2>6, <2>7, <3>2
    <3>3. CASE old = "EARNED" /\ new \in {"PAYOUT_PENDING", "SETTLED", "REVERSED"}
      BY <2>6, <2>7, <3>3
    <3>4. CASE old = "PAYOUT_PENDING" /\ new \in {"SETTLED", "REVERSED"}
      BY <2>6, <2>7, <3>4
    <3>5. CASE old = "SETTLED" /\ new = "REVERSED"
      BY <2>6, <2>7, <3>5
    <3>6. QED
      BY <2>1, <3>1, <3>2, <3>3, <3>4, <3>5 DEF AllowedPayoutTransition
  <2>9. phase' = [phase EXCEPT ![r] = Phase(r)'] /\ phase[r] = Phase(r)
    BY <2>1, <2>5
  <2>10. Phase(r)' = Phase(r) => UNCHANGED phase
    BY <2>9, <2>1
  <2>11. QED
    BY <2>1, <2>8, <2>9, <2>10
       DEF Money!Next, Money!Earn, Money!Settle, Money!Reverse, Money!Move
<1>3. QED
  BY <1>1, <1>2, LedgerWriter

(* The ledger of the concurrent code implements the abstract life of money.*)
THEOREM Refinement == Spec => ImplementsMoneyLifecycle
<1>1. IInv /\ [Next]_vars => [Money!Next]_([r \in Rows |-> Phase(r)])
  BY PhaseStep
<1>2. QED
  BY <1>1, PhaseInit, Invariant, PTL DEF Spec, Money!Spec, ImplementsMoneyLifecycle

-----------------------------------------------------------------------------
(* Where entries match payouts, the sums over both agree.                  *)
LEMMA SumsAgree ==
  ASSUME NEW rows, NEW entries, Matches(rows, entries), NEW c \in Currencies,
         \A r \in Rows : rows[r].state \in PayoutStates \cup {"NONE"},
         \A k \in Rows \X Kinds : entries[k].amount \in Nat
  PROVE  /\ NetOf(rows, c, {"SETTLED"}) = PostedNet(entries, c, "settled")
         /\ NetOf(rows, c, {"EARNED", "PAYOUT_PENDING", "SETTLED"}) = PostedNet(entries, c, "earned")
<1> DEFINE net == [j \in Jobs |-> rows[<<j, c>>].gross - rows[<<j, c>>].fee]
           Amount(kind) == [j \in Jobs |-> entries[<<<<j, c>>, kind>>].amount]
           In(states) == {j \in Jobs : rows[<<j, c>>].state \in states}
           Posted(kind) == {j \in Jobs : entries[<<<<j, c>>, kind>>].posted
                                      /\ ~entries[<<<<j, c>>, "reversed">>].posted}
<1>1. \A j \in Jobs : <<j, c>> \in Rows
  BY DEF Rows
<1>2. ASSUME NEW kind \in {"earned", "settled"}, NEW states, In(states) = Posted(kind)
      PROVE  SumFunctionOnSet(net, In(states)) = SumFunctionOnSet(Amount(kind), Posted(kind))
  <2> DEFINE S == In(states)
             f == net
             g == Amount(kind)
  <2>1. IsFiniteSet(S) /\ S \subseteq Jobs
    BY InboundAssumption, FS_Subset
  <2>2. \A j \in S : g[j] \in Int /\ f[j] = g[j]
    <3>1. kind \in Kinds
      BY DEF Kinds
    <3>2. ASSUME NEW j \in S  PROVE g[j] \in Int /\ f[j] = g[j]
      <4>1. <<j, c>> \in Rows /\ <<<<j, c>>, kind>> \in Rows \X Kinds /\ j \in Posted(kind)
        BY <1>1, <1>2, <3>1
      <4>2. entries[<<<<j, c>>, kind>>].amount = rows[<<j, c>>].gross - rows[<<j, c>>].fee
        BY <3>1, <4>1 DEF Matches
      <4> QED BY <4>1, <4>2
    <3> QED BY <3>2
  <2> HIDE DEF S, f, g
  <2>3. SumFunctionOnSet(f, S) = SumFunctionOnSet(g, S)
    BY <2>1, <2>2, SumIsSame
  <2> QED BY <1>2, <2>3 DEF S, f, g
<1>3. In({"SETTLED"}) = Posted("settled")
  BY <1>1 DEF Matches, PayoutStates, Kinds
<1>4. In({"EARNED", "PAYOUT_PENDING", "SETTLED"}) = Posted("earned")
  BY <1>1 DEF Matches, PayoutStates, Kinds
<1> QED BY <1>2, <1>3, <1>4 DEF NetOf, PostedNet

(* What an open transaction is about to write agrees with its ledger.      *)
SumsOfOpenTxns ==
  \A t \in Txns : txn[t].open =>
      LET x == txn[t]
          rows == [payout EXCEPT ![<<x.job, x.cur>>] = x.row]
      IN  /\ RecomputeTreasury(rows, x.cur).settled = PostedNet(LedgerAfter(x), x.cur, "settled")
          /\ RecomputeTreasury(rows, x.cur).earned = PostedNet(LedgerAfter(x), x.cur, "earned")

LEMMA OpenSums == ASSUME IInv  PROVE SumsOfOpenTxns
<1> SUFFICES ASSUME NEW t \in Txns, txn[t].open
             PROVE  LET x == txn[t]
                        rows == [payout EXCEPT ![<<x.job, x.cur>>] = x.row]
                    IN  /\ RecomputeTreasury(rows, x.cur).settled = PostedNet(LedgerAfter(x), x.cur, "settled")
                        /\ RecomputeTreasury(rows, x.cur).earned = PostedNet(LedgerAfter(x), x.cur, "earned")
  BY DEF SumsOfOpenTxns
<1> DEFINE x == txn[t]
           rows == [payout EXCEPT ![<<x.job, x.cur>>] = x.row]
           entries == LedgerAfter(x)
<1>1. TxnTyped(x) /\ payout \in [Rows -> Payout] /\ ledger \in [Rows \X Kinds -> Entry]
  BY DEF IInv, TxnsInv, RowsTyped, OpenTxnValid
<1>2. \A r \in Rows : rows[r].state \in PayoutStates \cup {"NONE"}
  <2>1. rows \in [Rows -> Payout]
    BY <1>1 DEF TxnTyped
  <2> QED BY <2>1 DEF Payout
<1>3. \A k \in Rows \X Kinds : entries[k].amount \in Nat
  <2>1. \A k \in Rows \X Kinds : entries[k] \in Entry
    BY <1>1 DEF LedgerAfter, TxnTyped
  <2> QED BY <2>1 DEF Entry
<1>4. Matches(rows, entries) /\ x.cur \in Currencies
  BY <1>1, WhatCommits DEF TxnTyped
<1> HIDE DEF rows, entries
<1>5. /\ NetOf(rows, x.cur, {"SETTLED"}) = PostedNet(entries, x.cur, "settled")
      /\ NetOf(rows, x.cur, {"EARNED", "PAYOUT_PENDING", "SETTLED"}) =
             PostedNet(entries, x.cur, "earned")
  BY <1>2, <1>3, <1>4, SumsAgree
<1> QED BY <1>5 DEF RecomputeTreasury, rows, entries

(* Only record_payout_state opens a transaction.                           *)
LEMMA TxnOpener ==
  ASSUME IInv, [Next]_vars, NEW t \in Txns, ~txn[t].open, txn'[t].open
  PROVE  /\ UNCHANGED <<payout, ledger>>
         /\ txn'[t].balance =
                RecomputeTreasury([payout EXCEPT ![<<txn'[t].job, txn'[t].cur>>] = txn'[t].row],
                                  txn'[t].cur)
<1>1. txn = [u \in Txns |-> txn[u]]
  BY DEF IInv, TxnsInv
<1>2. ASSUME NEW u \in Txns, CommitPayout(u) \/ RollbackPayout(u)  PROVE FALSE
  <2>1. txn' = [txn EXCEPT ![u] = Idle]
    BY <1>2 DEF CommitPayout, RollbackPayout
  <2>2. CASE u = t
    BY <1>1, <2>1, <2>2 DEF Idle
  <2>3. CASE u # t
    BY <1>1, <2>1, <2>3
  <2> QED BY <2>2, <2>3
<1>3. ASSUME NEW j \in Jobs, NEW target \in JobStates, TransitionJob(j, target)  PROVE FALSE
  BY <1>3 DEF TransitionJob
<1>4. ~UNCHANGED vars
  BY DEF vars
<1>5. PICK u \in Txns, j \in Jobs, c \in Currencies, target \in PayoutStates, quote \in Quotes,
           ref \in Refs \cup {NoRef}, advance \in BOOLEAN :
        RecordPayoutState(u, j, c, target, quote, ref, advance)
  BY <1>2, <1>3, <1>4 DEF Next
<1> DEFINE new == [state |-> target, gross |-> quote.gross, fee |-> quote.fee,
                   ref |-> IF ref # NoRef THEN ref ELSE payout[<<j, c>>].ref]
           entry == [posted |-> TRUE, reference |-> new.ref, amount |-> quote.gross - quote.fee]
           x == [open |-> TRUE, job |-> j, cur |-> c, row |-> new,
                 jobTo |-> JobStateAfter(j, target, advance),
                 kinds |-> PostedKinds(target), entry |-> entry,
                 balance |-> RecomputeTreasury([payout EXCEPT ![<<j, c>>] = new], c)]
<1>6. txn' = [txn EXCEPT ![u] = x] /\ UNCHANGED <<payout, ledger>>
  BY <1>5 DEF RecordPayoutState
<1>7. u = t /\ txn'[t] = x
  BY <1>1, <1>6
<1>8. x.job = j /\ x.cur = c /\ x.row = new
      /\ x.balance = RecomputeTreasury([payout EXCEPT ![<<j, c>>] = new], c)
  OBVIOUS
<1> HIDE DEF x, new
<1> QED BY <1>6, <1>7, <1>8

(* What a transaction writes to the treasury agrees with the append-only   *)
(* ledger it leaves, for any number of jobs and currencies.                *)
THEOREM TreasurySound == Spec => TreasuryMatchesLedger
<1>1. IInv' => SumsOfOpenTxns'
  <2>1. IInv => SumsOfOpenTxns
    BY OpenSums
  <2> QED BY <2>1, PTL
<1>2. ASSUME IInv, IInv', [Next]_vars, NEW t \in Txns, ~txn[t].open, txn'[t].open
      PROVE  LET x == txn'[t]
             IN  /\ x.balance.settled = PostedNet(LedgerAfter(x), x.cur, "settled")
                 /\ x.balance.earned = PostedNet(LedgerAfter(x), x.cur, "earned")
  <2> DEFINE x == txn'[t]
             rows == [payout EXCEPT ![<<x.job, x.cur>>] = x.row]
  <2>1. UNCHANGED <<payout, ledger>> /\ x.balance = RecomputeTreasury(rows, x.cur)
    BY <1>2, TxnOpener
  <2>2. /\ RecomputeTreasury(rows, x.cur).settled = PostedNet(LedgerAfter(x), x.cur, "settled")
        /\ RecomputeTreasury(rows, x.cur).earned = PostedNet(LedgerAfter(x), x.cur, "earned")
    <3> DEFINE before == LedgerAfter(x)
               after == [k \in Rows \X Kinds |->
                           IF k[1] = <<x.job, x.cur>> /\ k[2] \in x.kinds THEN x.entry ELSE ledger'[k]]
               then == [payout' EXCEPT ![<<x.job, x.cur>>] = x.row]
    <3>1. before = after /\ rows = then
      BY <2>1 DEF LedgerAfter
    <3>2. /\ RecomputeTreasury(then, x.cur).settled = PostedNet(after, x.cur, "settled")
          /\ RecomputeTreasury(then, x.cur).earned = PostedNet(after, x.cur, "earned")
      BY <1>1, <1>2 DEF SumsOfOpenTxns, LedgerAfter, RecomputeTreasury, NetOf, PostedNet
    <3> HIDE DEF before, after, rows, then
    <3> QED BY <3>1, <3>2 DEF before, rows
  <2> QED BY <2>1, <2>2
<1>3. IInv /\ IInv' /\ [Next]_vars =>
        [\A t \in Txns : ~txn[t].open /\ txn'[t].open =>
          LET x == txn'[t]
          IN  /\ x.balance.settled = PostedNet(LedgerAfter(x), x.cur, "settled")
              /\ x.balance.earned = PostedNet(LedgerAfter(x), x.cur, "earned")]_vars
  BY <1>2
<1> QED BY <1>3, Invariant, PTL DEF Spec, TreasuryMatchesLedger

-----------------------------------------------------------------------------
(* Reports of profit.  Only a call that ended cost something, and a value  *)
(* once known is the charge.                                               *)
CallsValued ==
    /\ costs \in [CostedCalls -> CallRow]
    /\ \A c \in CostedCalls :
         /\ costs[c].truth = "ACTUAL" => costs[c].cost = costs[c].charge
         /\ costs[c].cost > 0 => costs[c].truth = "ACTUAL" /\ Terminal(c)

ReportTyped ==
    report \in [kind : {"NONE", "GROWTH", "AGGREGATE"}, step : {"cash", "coverage", "cost", "done"},
                window : Windows, day : Int, made : SUBSET CostedCalls, ended : SUBSET CostedCalls,
                torn : BOOLEAN, jobs : [Windows -> SUBSET ProfitJobs], spent : [Windows -> Int],
                covered : [Windows -> BOOLEAN]]

(* What the completed calls of a report's jobs charged, and if every call  *)
(* of those jobs is known.                                                 *)
CompletedOf(jobs) == {c \in CallsOf(jobs) \cap report.ended : costs[c].status = "COMPLETED"}
Charged(jobs) == SumFunctionOnSet([c \in CostedCalls |-> costs[c].charge], CompletedOf(jobs))
AllKnown(jobs) == \A c \in CallsOf(jobs) : CostKnown(c)

(* An aggregate: one list of payouts, the cost first, then the coverage.   *)
AggregateSound ==
    report.kind = "AGGREGATE" /\ ~report.torn =>
        /\ report.window = "WEEK"
        /\ report.step \in {"coverage", "done"} => report.spent["WEEK"] = Spent(report.jobs["WEEK"])
        /\ report.step = "done" /\ report.covered["WEEK"] => AllKnown(report.jobs["WEEK"])

(* A growth report: the jobs it counts are still settled, coverage comes   *)
(* before the cost, and the cost is not less than what they charged.       *)
GrowthSound ==
    report.kind = "GROWTH" /\ ~report.torn =>
        /\ report.step \in {"coverage", "cost"} => report.jobs[report.window] \subseteq Settled(report.window)
        /\ report.step \in {"cash", "coverage"} => ~report.covered[report.window]
        /\ report.step # "done" /\ report.window = "DAY" => ~report.covered["WEEK"]
        /\ \A w \in Windows : report.covered[w] =>
               /\ AllKnown(report.jobs[w])
               /\ ~(report.step = "cost" /\ report.window = w) => Charged(report.jobs[w]) <= report.spent[w]

ProfitInv ==
    /\ CallsValued /\ ReportTyped /\ today \in Int
    /\ \A c \in report.ended : Terminal(c)
    /\ AggregateSound /\ GrowthSound

(* Where every call is known, what it cost is what it charged.             *)
LEMMA KnownCost ==
  ASSUME CallsValued, ReportTyped, NEW jobs, NEW more, jobs \subseteq more, AllKnown(jobs)
  PROVE  /\ Charged(jobs) = Spent(jobs)
         /\ Charged(jobs) <= Spent(more)
         /\ Spent(more) \in Int
<1> DEFINE charge == [c \in CostedCalls |-> costs[c].charge]
           cost == [c \in CostedCalls |-> costs[c].cost]
           S == CompletedOf(jobs)
           T == CompletedOf(more)
<1>1. IsFiniteSet(T) /\ S \subseteq T /\ T \subseteq CostedCalls /\ IsFiniteSet(S)
  <2>1. T \subseteq CostedCalls /\ S \subseteq T
    BY DEF CompletedOf, CallsOf, ReportTyped
  <2> QED BY <2>1, ProfitAssumption, FS_Subset
<1>2. \A c \in T : cost[c] \in Int /\ cost[c] >= 0
  BY <1>1 DEF CallsValued, CallRow
<1>3. \A c \in S : cost[c] \in Int /\ charge[c] = cost[c]
  <2> SUFFICES ASSUME NEW c \in S  PROVE costs[c].cost \in Int /\ costs[c].charge = costs[c].cost
    BY <1>1
  <2>1. c \in CostedCalls /\ CostKnown(c) /\ costs[c].status = "COMPLETED"
    BY <1>1 DEF AllKnown, CompletedOf
  <2>2. costs[c] \in CallRow
    BY <2>1 DEF CallsValued
  <2> QED BY <2>1, <2>2 DEF CallsValued, CostKnown, CallRow
<1>4. Spent(jobs) = SumFunctionOnSet(cost, S) /\ Spent(more) = SumFunctionOnSet(cost, T)
      /\ Charged(jobs) = SumFunctionOnSet(charge, S)
  BY DEF Spent, Charged, CompletedOf
<1> HIDE DEF charge, cost, S, T
<1>5. SumFunctionOnSet(charge, S) = SumFunctionOnSet(cost, S)
  BY <1>1, <1>3, SumIsSame
<1>6. SumFunctionOnSet(cost, S) <= SumFunctionOnSet(cost, T) /\ SumFunctionOnSet(cost, T) \in Int
  BY <1>1, <1>2, SumOfFewer, SumIsInt
<1> QED BY <1>4, <1>5, <1>6

(* What happens around a report: it keeps what it found, and if it is not  *)
(* torn the payouts it counted stay settled and the costs of an aggregate  *)
(* stay as they are; a known cost always does.                             *)
LEMMA AroundReport ==
  ASSUME ProfitInv, CallsValued', today' \in Int, NEW b \in BOOLEAN, ~b => ~report.torn,
         report' = [report EXCEPT !.torn = b],
         report.kind = "GROWTH" /\ ~b =>
             \A w \in Windows : \A j \in Settled(w) :
                 payouts'[j].state = "SETTLED" /\ payouts'[j].day = payouts[j].day,
         \A c \in report.ended :
             /\ costs'[c].status = costs[c].status /\ costs'[c].charge = costs[c].charge
             /\ \/ costs'[c] = costs[c]
                \/ ~CostKnown(c) /\ (report.kind = "AGGREGATE" => b)
  PROVE  ProfitInv'
<1>1. ReportTyped' /\ report'.torn = b /\ report'.kind = report.kind /\ report'.step = report.step
      /\ report'.window = report.window /\ report'.day = report.day /\ report'.made = report.made
      /\ report'.ended = report.ended /\ report'.jobs = report.jobs /\ report'.spent = report.spent
      /\ report'.covered = report.covered
  BY DEF ProfitInv, ReportTyped
<1>2. \A c \in report'.ended : Terminal(c)'
  BY <1>1 DEF ProfitInv, Terminal
<1>3. ASSUME NEW jobs, AllKnown(jobs)
      PROVE  \A c \in report'.made : ServedJob[c] \in jobs => CostKnown(c)'
  BY <1>1, <1>3 DEF AllKnown, CallsOf, CostKnown
<1>4. ASSUME NEW w \in Windows
      PROVE  /\ AllKnown(report.jobs[w]) => AllKnown(report.jobs[w])'
             /\ Charged(report.jobs[w])' = Charged(report.jobs[w])
             /\ report.kind = "AGGREGATE" /\ ~b => Spent(report.jobs[w])' = Spent(report.jobs[w])
  <2>1. AllKnown(report.jobs[w]) => AllKnown(report.jobs[w])'
    BY <1>1, <1>3 DEF AllKnown, CallsOf
  <2> DEFINE S == CompletedOf(report.jobs[w])
             charge == [c \in CostedCalls |-> costs[c].charge]
             cost == [c \in CostedCalls |-> costs[c].cost]
             chargeNow == [c \in CostedCalls |-> costs'[c].charge]
             costNow == [c \in CostedCalls |-> costs'[c].cost]
  <2>2. CompletedOf(report.jobs[w])' = S
    BY <1>1 DEF CompletedOf, CallsOf
  <2>3. S \subseteq CostedCalls /\ S \subseteq report.ended /\ IsFiniteSet(S)
    <3>1. S \subseteq CostedCalls /\ S \subseteq report.ended
      BY DEF CompletedOf, CallsOf, ProfitInv, ReportTyped
    <3> QED BY <3>1, ProfitAssumption, FS_Subset
  <2>4. \A c \in S : charge[c] \in Int /\ cost[c] \in Int /\ chargeNow[c] = charge[c]
    BY <2>3 DEF ProfitInv, CallsValued, CallRow
  <2>5. report.kind = "AGGREGATE" /\ ~b => \A c \in S : costNow[c] = cost[c]
    BY <2>3
  <2>6. /\ Charged(report.jobs[w]) = SumFunctionOnSet(charge, S)
        /\ Spent(report.jobs[w]) = SumFunctionOnSet(cost, S)
    BY DEF Charged, Spent, CompletedOf
  <2>7. /\ Charged(report.jobs[w])' = SumFunctionOnSet(chargeNow, S)
        /\ Spent(report.jobs[w])' = SumFunctionOnSet(costNow, S)
    BY <2>2 DEF Charged, Spent, CompletedOf
  <2> HIDE DEF S, charge, cost, chargeNow, costNow
  <2>8. SumFunctionOnSet(chargeNow, S) = SumFunctionOnSet(charge, S)
    BY <2>3, <2>4, SumIsSame
  <2>9. report.kind = "AGGREGATE" /\ ~b => SumFunctionOnSet(costNow, S) = SumFunctionOnSet(cost, S)
    BY <2>3, <2>4, <2>5, SumIsSame
  <2> QED BY <2>1, <2>6, <2>7, <2>8, <2>9
<1>5. AggregateSound'
  BY <1>1, <1>4 DEF AggregateSound, ProfitInv, Windows
<1>6. GrowthSound'
  <2> SUFFICES ASSUME report.kind = "GROWTH", ~b  PROVE GrowthSound'
    BY <1>1 DEF GrowthSound
  <2>1. \A w \in Windows : Settled(w) \subseteq Settled(w)'
    BY <1>1 DEF Settled
  <2>2. GrowthSound /\ report.window \in Windows
    BY DEF ProfitInv, ReportTyped
  <2>3. /\ report'.step \in {"coverage", "cost"} =>
               report'.jobs[report'.window] \subseteq Settled(report.window)'
        /\ report'.step \in {"cash", "coverage"} => ~report'.covered[report'.window]
        /\ report'.step # "done" /\ report'.window = "DAY" => ~report'.covered["WEEK"]
    BY <1>1, <2>1, <2>2 DEF GrowthSound
  <2>4. ASSUME NEW w \in Windows, report'.covered[w]
        PROVE  /\ AllKnown(report.jobs[w])'
               /\ ~(report'.step = "cost" /\ report'.window = w) =>
                      Charged(report.jobs[w])' <= report'.spent[w]
    BY <1>1, <1>4, <2>2, <2>4 DEF GrowthSound
  <2> QED BY <2>3, <2>4 DEF GrowthSound
<1> QED BY <1>1, <1>2, <1>5, <1>6 DEF ProfitInv

LEMMA NoReportYet == ProfitInit => ProfitInv
<1> SUFFICES ASSUME ProfitInit  PROVE ProfitInv
  OBVIOUS
<1>1. CallsValued
  BY DEF ProfitInit, CallsValued, CallRow, NoCall
<1>2. ReportTyped
  BY DEF ProfitInit, ReportTyped, NoReport, Windows
<1>3. report.kind = "NONE" /\ report.ended = {}
  BY DEF ProfitInit, NoReport
<1>4. today \in Int
  BY DEF ProfitInit
<1> QED BY <1>1, <1>2, <1>3, <1>4 DEF ProfitInv, AggregateSound, GrowthSound

(* The money of a call with usage, or without.                             *)
LEMMA ValuedRow ==
  ASSUME NEW row \in CallRow, NEW usage \in BOOLEAN, NEW price \in BOOLEAN, row.cost = 0
  PROVE  LET x == Valued(row, usage, price)
         IN  /\ x \in CallRow /\ x.status = row.status /\ x.charge = row.charge
             /\ x.truth = "ACTUAL" => x.cost = x.charge
             /\ x.cost > 0 => x.truth = "ACTUAL"
<1> DEFINE Row(truth, cost) == [status |-> row.status, charge |-> row.charge, cost |-> cost, truth |-> truth]
<1>1. /\ \A truth : [row EXCEPT !.truth = truth] = Row(truth, 0)
      /\ [row EXCEPT !.truth = "ACTUAL", !.cost = row.charge] = Row("ACTUAL", row.charge)
  <2>1. row = [status |-> row.status, charge |-> row.charge, cost |-> 0, truth |-> row.truth]
    BY DEF CallRow
  <2>2. [row EXCEPT !.truth = "ACTUAL", !.cost = row.charge] = Row("ACTUAL", row.charge)
    <3> DEFINE half == [row EXCEPT !.truth = "ACTUAL"]
    <3>1. half = [status |-> row.status, charge |-> row.charge, cost |-> 0, truth |-> "ACTUAL"]
      BY <2>1
    <3> HIDE DEF half
    <3>2. [half EXCEPT !.cost = row.charge] = Row("ACTUAL", row.charge)
      BY <3>1
    <3> QED BY <3>2 DEF half
  <2>3. ASSUME NEW truth  PROVE [row EXCEPT !.truth = truth] = Row(truth, 0)
    BY <2>1
  <2> QED BY <2>2, <2>3
<1>2. \/ \E truth \in {"NOT_APPLICABLE", "UNRESOLVED", "ACTUAL_ZERO_CREDITS"} :
            Valued(row, usage, price) = Row(truth, 0)
      \/ Valued(row, usage, price) = Row("ACTUAL", row.charge)
  BY <1>1 DEF Valued
<1> QED BY <1>2 DEF CallRow

(* Payouts, calls and days around the report.                              *)
LEMMA OthersKeepReport ==
  ASSUME ProfitInv, report = NoReport \/ Reporting,
         \/ DayEnds
         \/ \E j \in ProfitJobs : ReversePayout(j) \/ \E day \in 1..MaxDay : SettlePayout(j, day)
         \/ \E c \in CostedCalls, price \in BOOLEAN :
               MakeCall(c) \/ UsageArrives(c, price)
               \/ \E status \in {"COMPLETED", "FAILED"}, charge \in 0..1, usage \in BOOLEAN :
                     CallEnds(c, status, charge, usage, price)
         \/ UNCHANGED profitVars
  PROVE  ProfitInv'
<1> USE DEF ProfitInv
<1>1. report \in [kind : {"NONE", "GROWTH", "AGGREGATE"}, step : {"cash", "coverage", "cost", "done"},
                window : Windows, day : Int, made : SUBSET CostedCalls, ended : SUBSET CostedCalls,
                torn : BOOLEAN, jobs : [Windows -> SUBSET ProfitJobs], spent : [Windows -> Int],
                covered : [Windows -> BOOLEAN]]
  BY DEF ReportTyped
<1>2. report = [report EXCEPT !.torn = report.torn]
  BY <1>1
<1>3. report.kind = "NONE" \/ Reporting
  BY DEF NoReport
<1>0. today' \in Int
  <2>1. CASE DayEnds
    BY <2>1 DEF DayEnds
  <2>2. CASE ~DayEnds
    <3>1. UNCHANGED today
      BY <2>2 DEF SettlePayout, ReversePayout, MakeCall, CallEnds, UsageArrives, profitVars
    <3> QED BY <3>1
  <2> QED BY <2>1, <2>2
<1>4. CASE UNCHANGED <<costs, report>> /\ \A j \in ProfitJobs : payouts[j].state = "SETTLED" => payouts'[j] = payouts[j]
  <2>1. CallsValued'
    BY <1>4 DEF CallsValued, Terminal
  <2>2. \A w \in Windows : \A j \in Settled(w) :
            payouts'[j].state = "SETTLED" /\ payouts'[j].day = payouts[j].day
    BY <1>4 DEF Settled
  <2> QED BY <1>1, <1>2, <1>4, <2>1, <2>2, <1>0, AroundReport
<1>5. CASE DayEnds \/ UNCHANGED profitVars
  BY <1>4, <1>5 DEF DayEnds, profitVars
<1>6. ASSUME NEW j \in ProfitJobs, NEW day \in 1..MaxDay, SettlePayout(j, day)  PROVE ProfitInv'
  <2>1. \A i \in ProfitJobs : payouts[i].state = "SETTLED" => payouts'[i] = payouts[i]
    BY <1>6 DEF SettlePayout
  <2> QED BY <1>4, <1>6, <2>1 DEF SettlePayout
<1>7. ASSUME NEW j \in ProfitJobs, ReversePayout(j)  PROVE ProfitInv'
  <2> DEFINE b == report.torn \/ (Reporting /\ report.kind = "GROWTH")
  <2>1. report' = [report EXCEPT !.torn = b] /\ UNCHANGED costs
    BY <1>7 DEF ReversePayout
  <2>2. b \in BOOLEAN /\ (~b => ~report.torn)
    BY <1>1
  <2>3. report.kind = "GROWTH" => b
    BY <1>3
  <2>4. CallsValued'
    BY <2>1 DEF CallsValued, Terminal
  <2> HIDE DEF b
  <2> QED BY <2>1, <2>2, <2>3, <2>4, <1>0, AroundReport
<1>8. ASSUME NEW c \in CostedCalls, NEW row, costs' = [costs EXCEPT ![c] = row], row \in CallRow,
             row.truth = "ACTUAL" => row.cost = row.charge,
             row.cost > 0 => row.truth = "ACTUAL" /\ row.status \in {"COMPLETED", "FAILED"}
      PROVE  CallsValued'
  BY <1>8 DEF CallsValued, Terminal
<1>9. ASSUME NEW c \in CostedCalls, ~Terminal(c), UNCHANGED <<payouts, report>>, CallsValued',
             \A d \in CostedCalls : d # c => costs'[d] = costs[d]
      PROVE  ProfitInv'
  <2>1. \A d \in report.ended : costs'[d] = costs[d]
    BY <1>1, <1>9
  <2>2. \A w \in Windows : \A j \in Settled(w) :
            payouts'[j].state = "SETTLED" /\ payouts'[j].day = payouts[j].day
    BY <1>9 DEF Settled
  <2> QED BY <1>1, <1>2, <1>9, <2>1, <2>2, <1>0, AroundReport
<1>10. ASSUME NEW c \in CostedCalls, MakeCall(c)  PROVE ProfitInv'
  <2> DEFINE row == [costs[c] EXCEPT !.status = "SUBMITTED"]
  <2>1. costs' = [costs EXCEPT ![c] = row] /\ UNCHANGED <<payouts, report>> /\ ~Terminal(c)
    BY <1>10 DEF MakeCall, Terminal
  <2>2. /\ row \in CallRow /\ (row.truth = "ACTUAL" => row.cost = row.charge)
        /\ row.cost > 0 => row.truth = "ACTUAL" /\ row.status \in {"COMPLETED", "FAILED"}
    BY <2>1 DEF CallsValued, CallRow
  <2>3. \A d \in CostedCalls : d # c => costs'[d] = costs[d]
    BY <2>1 DEF CallsValued
  <2> HIDE DEF row
  <2> QED BY <1>8, <1>9, <2>1, <2>2, <2>3
<1>11. ASSUME NEW c \in CostedCalls, NEW price \in BOOLEAN, NEW status \in {"COMPLETED", "FAILED"},
              NEW charge \in 0..1, NEW usage \in BOOLEAN, CallEnds(c, status, charge, usage, price)
       PROVE  ProfitInv'
  <2> DEFINE ended == [costs[c] EXCEPT !.status = status, !.charge = charge]
             row == Valued(ended, usage, price)
  <2>1. costs' = [costs EXCEPT ![c] = row] /\ UNCHANGED <<payouts, report>> /\ ~Terminal(c)
    BY <1>11 DEF CallEnds, Terminal
  <2>2. ended \in CallRow /\ ended.cost = 0
    <3>1. costs[c] \in CallRow /\ costs[c].cost = 0
      BY <2>1 DEF CallsValued, CallRow
    <3> QED BY <3>1 DEF CallRow
  <2>5. ended.status = status
    BY DEF CallsValued, CallRow
  <2> HIDE DEF ended
  <2>3. /\ row \in CallRow /\ (row.truth = "ACTUAL" => row.cost = row.charge)
        /\ row.cost > 0 => row.truth = "ACTUAL" /\ row.status \in {"COMPLETED", "FAILED"}
    BY <2>2, <2>5, ValuedRow
  <2>4. \A d \in CostedCalls : d # c => costs'[d] = costs[d]
    BY <2>1 DEF CallsValued
  <2> HIDE DEF row
  <2> QED BY <1>8, <1>9, <2>1, <2>3, <2>4
<1>12. ASSUME NEW c \in CostedCalls, NEW price \in BOOLEAN, UsageArrives(c, price)  PROVE ProfitInv'
  <2> DEFINE row == Valued(costs[c], TRUE, price)
             b == report.torn \/ (Reporting /\ report.kind = "AGGREGATE")
  <2>1. costs' = [costs EXCEPT ![c] = row] /\ report' = [report EXCEPT !.torn = b] /\ UNCHANGED payouts
    BY <1>12 DEF UsageArrives
  <2>2. b \in BOOLEAN /\ (~b => ~report.torn) /\ (report.kind = "AGGREGATE" => b)
    BY <1>1, <1>3
  <2>3. /\ costs[c] \in CallRow /\ costs[c].cost = 0 /\ costs[c].truth = "UNRESOLVED"
        /\ costs[c].status \in {"COMPLETED", "FAILED"}
    BY <1>12 DEF CallsValued, CallRow, UsageArrives, Terminal
  <2>4. /\ row \in CallRow /\ (row.truth = "ACTUAL" => row.cost = row.charge)
        /\ row.cost > 0 => row.truth = "ACTUAL" /\ row.status \in {"COMPLETED", "FAILED"}
        /\ row.status = costs[c].status /\ row.charge = costs[c].charge
    BY <2>3, ValuedRow
  <2> HIDE DEF row, b
  <2>5. CallsValued'
    BY <1>8, <2>1, <2>4
  <2>6. ~CostKnown(c)
    BY <2>3 DEF CostKnown
  <2>7. \A d \in report.ended :
             /\ costs'[d].status = costs[d].status /\ costs'[d].charge = costs[d].charge
             /\ costs'[d] = costs[d] \/ (~CostKnown(d) /\ (report.kind = "AGGREGATE" => b))
    BY <1>1, <2>1, <2>2, <2>4, <2>6 DEF CallsValued
  <2>8. \A w \in Windows : \A j \in Settled(w) :
            payouts'[j].state = "SETTLED" /\ payouts'[j].day = payouts[j].day
    BY <2>1 DEF Settled
  <2> QED BY <2>1, <2>2, <2>5, <2>7, <2>8, <1>0, AroundReport
<1> QED BY <1>5, <1>6, <1>7, <1>10, <1>11, <1>12

(* The queries of a report read; what it found about its calls stays.      *)
LEMMA SameCalls ==
  ASSUME UNCHANGED costs, report'.made = report.made, report'.ended = report.ended, NEW jobs
  PROVE  /\ AllKnown(jobs)' <=> AllKnown(jobs)
         /\ Charged(jobs)' = Charged(jobs)
         /\ Spent(jobs)' = Spent(jobs)
<1>1. AllKnown(jobs)' <=> AllKnown(jobs)
  BY DEF AllKnown, CallsOf, CostKnown
<1>2. CompletedOf(jobs)' = CompletedOf(jobs)
  BY DEF CompletedOf, CallsOf
<1>3. Charged(jobs)' = Charged(jobs)
  BY <1>2 DEF Charged
<1>4. /\ Spent(jobs) = SumFunctionOnSet([c \in CostedCalls |-> costs[c].cost], CompletedOf(jobs))
      /\ Spent(jobs)' = SumFunctionOnSet([c \in CostedCalls |-> costs'[c].cost], CompletedOf(jobs)')
  BY DEF Spent, CompletedOf
<1> QED BY <1>1, <1>2, <1>3, <1>4

LEMMA ReportBegins == ASSUME ProfitInv, NEW kind \in {"GROWTH", "AGGREGATE"}, BeginReport(kind)  PROVE ProfitInv'
<1> DEFINE made == {c \in CostedCalls : costs[c].status # "NONE"}
           ended == {c \in CostedCalls : Terminal(c)}
<1>1. report' = [kind |-> kind, step |-> "cash", window |-> IF kind = "GROWTH" THEN "DAY" ELSE "WEEK",
                 day |-> today, made |-> made, ended |-> ended, torn |-> FALSE,
                 jobs |-> [w \in Windows |-> {}], spent |-> [w \in Windows |-> 0],
                 covered |-> [w \in Windows |-> FALSE]]
  BY DEF BeginReport, NoReport
<1> HIDE DEF made, ended
<1>2. UNCHANGED <<costs, today>> /\ made \subseteq CostedCalls /\ ended \subseteq CostedCalls
      /\ \A c \in ended : Terminal(c)
  BY DEF BeginReport, made, ended
<1>3. ReportTyped'
  BY <1>1, <1>2 DEF ReportTyped, Windows, ProfitInv
<1>4. CallsValued' /\ today' \in Int /\ \A c \in report'.ended : Terminal(c)'
  BY <1>1, <1>2 DEF ProfitInv, CallsValued, Terminal
<1>5. AggregateSound' /\ GrowthSound'
  BY <1>1, <1>2 DEF AggregateSound, GrowthSound, Windows
<1> QED BY <1>3, <1>4, <1>5 DEF ProfitInv

LEMMA CashIsRead == ASSUME ProfitInv, ReadCash  PROVE ProfitInv'
<1> DEFINE w0 == report.window
<1>1. /\ ReportTyped /\ w0 \in Windows /\ UNCHANGED <<payouts, costs, today>>
      /\ report.step = "cash"
  BY DEF ProfitInv, ReportTyped, ReadCash
<1>2. /\ report'.kind = report.kind /\ report'.window = w0 /\ report'.day = report.day
      /\ report'.made = report.made /\ report'.ended = report.ended /\ report'.torn = report.torn
      /\ report'.spent = report.spent /\ report'.covered = report.covered
      /\ report'.step = (IF report.kind = "GROWTH" THEN "coverage" ELSE "cost")
      /\ report'.jobs = [report.jobs EXCEPT ![w0] = Settled(w0)]
      /\ ReportTyped'
  <2> DEFINE half == [report EXCEPT !.jobs[w0] = Settled(w0)]
  <2>1. /\ ReportTyped /\ Settled(w0) \subseteq ProfitJobs
    BY <1>1 DEF Settled
  <2>2. /\ half.kind = report.kind /\ half.window = w0 /\ half.day = report.day
        /\ half.made = report.made /\ half.ended = report.ended /\ half.torn = report.torn
        /\ half.spent = report.spent /\ half.covered = report.covered
        /\ half.jobs = [report.jobs EXCEPT ![w0] = Settled(w0)]
    BY <2>1 DEF ReportTyped
  <2>3. report' = [half EXCEPT !.step = IF report.kind = "GROWTH" THEN "coverage" ELSE "cost"]
    BY DEF ReadCash
  <2>4. half \in [kind : {"NONE", "GROWTH", "AGGREGATE"}, step : {"cash", "coverage", "cost", "done"},
                window : Windows, day : Int, made : SUBSET CostedCalls, ended : SUBSET CostedCalls,
                torn : BOOLEAN, jobs : [Windows -> SUBSET ProfitJobs], spent : [Windows -> Int],
                covered : [Windows -> BOOLEAN]]
    BY <1>1, <2>1 DEF ReportTyped
  <2> HIDE DEF half
  <2> QED BY <2>2, <2>3, <2>4 DEF ReportTyped
<1> HIDE DEF w0
<1>3. CallsValued' /\ today' \in Int /\ \A c \in report'.ended : Terminal(c)'
  BY <1>1, <1>2 DEF ProfitInv, CallsValued, Terminal
<1>4. AggregateSound'
  BY <1>1, <1>2 DEF AggregateSound, ProfitInv, w0
<1>5. GrowthSound'
  <2> SUFFICES ASSUME report.kind = "GROWTH", ~report.torn  PROVE GrowthSound'
    BY <1>2 DEF GrowthSound
  <2>1. /\ ~report.covered[w0]
        /\ w0 = "DAY" => ~report.covered["WEEK"]
        /\ \A w \in Windows : report.covered[w] =>
               AllKnown(report.jobs[w]) /\ Charged(report.jobs[w]) <= report.spent[w]
    BY <1>1 DEF ProfitInv, GrowthSound, w0
  <2>2. report'.jobs[w0] = Settled(w0) /\ \A w \in Windows : Settled(w)' = Settled(w)
    <3>1. report'.jobs[w0] = Settled(w0)
      BY <1>1, <1>2 DEF ReportTyped
    <3>2. \A w \in Windows : Settled(w)' = Settled(w)
      BY <1>1, <1>2 DEF Settled
    <3> QED BY <3>1, <3>2
  <2>4. report'.jobs[report'.window] \subseteq Settled(report.window)'
    BY <1>1, <1>2, <2>2
  <2>3. ASSUME NEW w \in Windows, report.covered[w]
        PROVE  /\ AllKnown(report.jobs[w])' /\ Charged(report.jobs[w])' <= report.spent[w]
    <3>1. report'.jobs[w] = report.jobs[w]
      BY <1>1, <1>2, <2>1, <2>3 DEF ReportTyped
    <3>2. AllKnown(report'.jobs[w]) /\ Charged(report'.jobs[w]) <= report.spent[w]
      BY <2>1, <2>3, <3>1
    <3> QED BY <1>1, <1>2, <3>2, SameCalls
  <2> QED BY <1>2, <2>1, <2>3, <2>4 DEF GrowthSound
<1> QED BY <1>2, <1>3, <1>4, <1>5 DEF ProfitInv

LEMMA CoverageIsRead == ASSUME ProfitInv, ReadCoverage  PROVE ProfitInv'
<1> DEFINE w0 == report.window
           known == \A c \in CallsOf(JobsNow) : CostKnown(c)
<1>1. /\ ReportTyped /\ w0 \in Windows /\ UNCHANGED <<payouts, costs, today>>
      /\ report.step = "coverage" /\ known \in BOOLEAN
  BY DEF ProfitInv, ReportTyped, ReadCoverage
<1>2. /\ report'.kind = report.kind /\ report'.window = w0 /\ report'.day = report.day
      /\ report'.made = report.made /\ report'.ended = report.ended /\ report'.torn = report.torn
      /\ report'.spent = report.spent /\ report'.jobs = report.jobs
      /\ report'.step = (IF report.kind = "GROWTH" THEN "cost" ELSE "done")
      /\ report'.covered = [report.covered EXCEPT ![w0] = known]
      /\ ReportTyped'
  <2> HIDE DEF known
  <2> DEFINE half == [report EXCEPT !.covered[w0] = known]
  <2>2. /\ half.kind = report.kind /\ half.window = w0 /\ half.day = report.day
        /\ half.made = report.made /\ half.ended = report.ended /\ half.torn = report.torn
        /\ half.spent = report.spent /\ half.jobs = report.jobs
        /\ half.covered = [report.covered EXCEPT ![w0] = known]
    BY <1>1 DEF ReportTyped
  <2>3. report' = [half EXCEPT !.step = IF report.kind = "GROWTH" THEN "cost" ELSE "done"]
    BY DEF ReadCoverage, known
  <2>4. half \in [kind : {"NONE", "GROWTH", "AGGREGATE"}, step : {"cash", "coverage", "cost", "done"},
                window : Windows, day : Int, made : SUBSET CostedCalls, ended : SUBSET CostedCalls,
                torn : BOOLEAN, jobs : [Windows -> SUBSET ProfitJobs], spent : [Windows -> Int],
                covered : [Windows -> BOOLEAN]]
    BY <1>1 DEF ReportTyped
  <2> HIDE DEF half
  <2> QED BY <2>2, <2>3, <2>4 DEF ReportTyped
<1>3. known <=> AllKnown(JobsNow)
  BY DEF AllKnown
<1>4. \A w \in Windows : report'.covered[w] = (IF w = w0 THEN known ELSE report.covered[w])
  <2> HIDE DEF known, w0
  <2> QED BY <1>1, <1>2 DEF ReportTyped
<1> HIDE DEF w0, known
<1>5. CallsValued' /\ today' \in Int /\ \A c \in report'.ended : Terminal(c)'
  BY <1>1, <1>2 DEF ProfitInv, CallsValued, Terminal
<1>6. AggregateSound'
  <2> SUFFICES ASSUME report.kind = "AGGREGATE", ~report.torn  PROVE AggregateSound'
    BY <1>2 DEF AggregateSound
  <2>1. w0 = "WEEK" /\ report.spent["WEEK"] = Spent(report.jobs["WEEK"])
        /\ JobsNow = report.jobs["WEEK"]
    BY <1>1 DEF ProfitInv, AggregateSound, JobsNow, w0
  <2>2. /\ Spent(report.jobs["WEEK"])' = Spent(report'.jobs["WEEK"])
        /\ AllKnown(report.jobs["WEEK"])' <=> AllKnown(report'.jobs["WEEK"])
    BY <1>1, <1>2, SameCalls
  <2> QED BY <1>1, <1>2, <1>3, <1>4, <2>1, <2>2 DEF AggregateSound
<1>7. GrowthSound'
  <2> SUFFICES ASSUME report.kind = "GROWTH", ~report.torn  PROVE GrowthSound'
    BY <1>2 DEF GrowthSound
  <2>1. /\ report.jobs[w0] \subseteq Settled(w0)
        /\ w0 = "DAY" => ~report.covered["WEEK"]
        /\ \A w \in Windows : report.covered[w] =>
               AllKnown(report.jobs[w]) /\ Charged(report.jobs[w]) <= report.spent[w]
    BY <1>1 DEF ProfitInv, GrowthSound, w0
  <2>2. known => AllKnown(report.jobs[w0])
    <3>1. JobsNow = Settled(w0)
      BY DEF JobsNow, w0
    <3> QED BY <1>3, <2>1, <3>1 DEF AllKnown, CallsOf
  <2>3. ASSUME NEW w \in Windows, report'.covered[w]
        PROVE  /\ AllKnown(report.jobs[w])'
               /\ w # w0 => Charged(report.jobs[w])' <= report.spent[w]
    <3>1. AllKnown(report'.jobs[w]) /\ (w # w0 => Charged(report'.jobs[w]) <= report.spent[w])
      BY <1>2, <1>4, <2>1, <2>2, <2>3
    <3> QED BY <1>1, <1>2, <3>1, SameCalls
  <2>4. report'.jobs[report'.window] \subseteq Settled(report.window)'
    <3>1. \A w \in Windows : Settled(w)' = Settled(w)
      BY <1>1, <1>2 DEF Settled
    <3> QED BY <1>1, <1>2, <2>1, <3>1
  <2>5. report'.window = "DAY" => ~report'.covered["WEEK"]
    BY <1>2, <1>4, <2>1 DEF Windows
  <2> QED BY <1>2, <2>3, <2>4, <2>5 DEF GrowthSound
<1> QED BY <1>2, <1>5, <1>6, <1>7 DEF ProfitInv

LEMMA CostIsRead == ASSUME ProfitInv, ReadCost  PROVE ProfitInv'
<1> DEFINE w0 == report.window
           next == IF report.kind = "AGGREGATE" THEN "coverage" ELSE IF w0 = "DAY" THEN "cash" ELSE "done"
<1>1. /\ ReportTyped /\ w0 \in Windows /\ UNCHANGED <<payouts, costs, today>>
      /\ report.step = "cost" /\ CallsValued
  BY DEF ProfitInv, ReportTyped, ReadCost
<1>2. Spent(JobsNow) \in Int
  <2>1. AllKnown({})
    BY DEF AllKnown, CallsOf
  <2> QED BY <1>1, <2>1, KnownCost
<1>3. /\ report'.kind = report.kind /\ report'.window = "WEEK" /\ report'.day = report.day
      /\ report'.made = report.made /\ report'.ended = report.ended /\ report'.torn = report.torn
      /\ report'.jobs = report.jobs /\ report'.covered = report.covered /\ report'.step = next
      /\ report'.spent = [report.spent EXCEPT ![w0] = Spent(JobsNow)]
      /\ ReportTyped'
  <2> DEFINE half == [report EXCEPT !.spent[w0] = Spent(JobsNow)]
             most == [half EXCEPT !.window = "WEEK"]
  <2>1. /\ half.kind = report.kind /\ half.step = report.step /\ half.day = report.day
        /\ half.made = report.made /\ half.ended = report.ended /\ half.torn = report.torn
        /\ half.jobs = report.jobs /\ half.covered = report.covered
        /\ half.spent = [report.spent EXCEPT ![w0] = Spent(JobsNow)]
    BY <1>1 DEF ReportTyped
  <2>2. half \in [kind : {"NONE", "GROWTH", "AGGREGATE"}, step : {"cash", "coverage", "cost", "done"},
                window : Windows, day : Int, made : SUBSET CostedCalls, ended : SUBSET CostedCalls,
                torn : BOOLEAN, jobs : [Windows -> SUBSET ProfitJobs], spent : [Windows -> Int],
                covered : [Windows -> BOOLEAN]]
    BY <1>1, <1>2 DEF ReportTyped
  <2>3. report' = [most EXCEPT !.step = next] /\ next \in {"cash", "coverage", "done"}
    BY DEF ReadCost
  <2> HIDE DEF half, next
  <2>4. /\ most \in [kind : {"NONE", "GROWTH", "AGGREGATE"}, step : {"cash", "coverage", "cost", "done"},
                window : Windows, day : Int, made : SUBSET CostedCalls, ended : SUBSET CostedCalls,
                torn : BOOLEAN, jobs : [Windows -> SUBSET ProfitJobs], spent : [Windows -> Int],
                covered : [Windows -> BOOLEAN]]
        /\ most.kind = half.kind /\ most.window = "WEEK" /\ most.day = half.day
        /\ most.made = half.made /\ most.ended = half.ended /\ most.torn = half.torn
        /\ most.jobs = half.jobs /\ most.covered = half.covered /\ most.spent = half.spent
    BY <2>2 DEF Windows
  <2> HIDE DEF most
  <2> QED BY <2>1, <2>3, <2>4 DEF ReportTyped
<1>4. \A w \in Windows : report'.spent[w] = (IF w = w0 THEN Spent(JobsNow) ELSE report.spent[w])
  <2> HIDE DEF w0
  <2> QED BY <1>1, <1>3 DEF ReportTyped
<1>5. CallsValued' /\ today' \in Int /\ \A c \in report'.ended : Terminal(c)'
  BY <1>1, <1>3 DEF ProfitInv, CallsValued, Terminal
<1> HIDE DEF w0
<1>6. AggregateSound'
  <2> SUFFICES ASSUME report.kind = "AGGREGATE", ~report.torn  PROVE AggregateSound'
    BY <1>3 DEF AggregateSound
  <2>1. w0 = "WEEK" /\ JobsNow = report.jobs["WEEK"] /\ next = "coverage"
    BY <1>1 DEF ProfitInv, AggregateSound, JobsNow, w0
  <2>2. Spent(report.jobs["WEEK"])' = Spent(report'.jobs["WEEK"])
    BY <1>1, <1>3, SameCalls
  <2> QED BY <1>1, <1>3, <1>4, <2>1, <2>2 DEF AggregateSound
<1>7. GrowthSound'
  <2> SUFFICES ASSUME report.kind = "GROWTH", ~report.torn  PROVE GrowthSound'
    BY <1>3 DEF GrowthSound
  <2>1. /\ report.jobs[w0] \subseteq Settled(w0)
        /\ w0 = "DAY" => ~report.covered["WEEK"]
        /\ \A w \in Windows : report.covered[w] =>
               AllKnown(report.jobs[w]) /\ (w # w0 => Charged(report.jobs[w]) <= report.spent[w])
    BY <1>1 DEF ProfitInv, GrowthSound, w0
  <2>2. JobsNow = Settled(w0)
    BY DEF JobsNow, w0
  <2>3. report.covered[w0] => Charged(report.jobs[w0]) <= Spent(JobsNow)
    BY <1>1, <2>1, <2>2, KnownCost
  <2>4. ASSUME NEW w \in Windows, report'.covered[w]
        PROVE  AllKnown(report.jobs[w])' /\ Charged(report.jobs[w])' <= report'.spent[w]
    <3>1. AllKnown(report'.jobs[w]) /\ Charged(report'.jobs[w]) <= report'.spent[w]
      BY <1>3, <1>4, <2>1, <2>3, <2>4
    <3> QED BY <1>1, <1>3, <3>1, SameCalls
  <2>5. report'.step = "done" \/ (w0 = "DAY" /\ report'.step = "cash")
    BY <1>3 DEF w0
  <2> QED BY <1>3, <2>1, <2>4, <2>5 DEF GrowthSound
<1> QED BY <1>3, <1>5, <1>6, <1>7 DEF ProfitInv

(* What a report calls earned was earned, for any payouts, calls and       *)
(* targets and whatever settles, ends or becomes known between its queries.*)
THEOREM EarnedProfit == ProfitSpec => []ProfitIsEarned
<1>1. ProfitInv /\ [ProfitNext]_profitVars => ProfitInv'
  <2> SUFFICES ASSUME ProfitInv, [ProfitNext]_profitVars  PROVE ProfitInv'
    OBVIOUS
  <2>1. CASE UNCHANGED profitVars
    <3>1. report' = [report EXCEPT !.torn = report.torn] /\ report.torn \in BOOLEAN
      BY <2>1 DEF ProfitInv, ReportTyped, profitVars
    <3>2. CallsValued' /\ today' \in Int
      BY <2>1 DEF ProfitInv, CallsValued, Terminal, profitVars
    <3>3. \A w \in Windows : \A j \in Settled(w) :
              payouts'[j].state = "SETTLED" /\ payouts'[j].day = payouts[j].day
      BY <2>1 DEF Settled, profitVars
    <3>4. UNCHANGED costs
      BY <2>1 DEF profitVars
    <3> QED BY <3>1, <3>2, <3>3, <3>4, AroundReport
  <2>2. CASE ProfitNext
    <3>1. CASE ReadCash \/ ReadCoverage \/ ReadCost \/ \E kind \in {"GROWTH", "AGGREGATE"} : BeginReport(kind)
      BY <3>1, CashIsRead, CoverageIsRead, CostIsRead, ReportBegins
    <3>2. CASE ~(ReadCash \/ ReadCoverage \/ ReadCost \/ \E kind \in {"GROWTH", "AGGREGATE"} : BeginReport(kind))
      BY <2>2, <3>2, OthersKeepReport DEF ProfitNext, ProfitStep
    <3> QED BY <3>1, <3>2
  <2> QED BY <2>1, <2>2
<1>2. ProfitInv => ProfitIsEarned
  <2> SUFFICES ASSUME ProfitInv, report.step = "done", ~report.torn
               PROVE  /\ report.kind = "AGGREGATE" /\ AggregateProfit > 0 => AggregateProfit <= Earned("WEEK")
                      /\ report.kind = "GROWTH" /\ OnTrack => \A w \in Windows : Earned(w) >= Targets[w]
    BY DEF ProfitIsEarned
  <2> DEFINE Cash(w) == Net * Cardinality(report.jobs[w])
  <2>1. ASSUME NEW w \in Windows
        PROVE  /\ Earned(w) = Cash(w) - Charged(report.jobs[w]) /\ Profit(w) = Cash(w) - report.spent[w]
               /\ Cash(w) \in Int /\ report.spent[w] \in Int /\ Charged(report.jobs[w]) \in Int /\ Targets[w] \in Int
    <3> DEFINE S == CompletedOf(report.jobs[w])
               charge == [c \in CostedCalls |-> costs[c].charge]
    <3>1. Charged(report.jobs[w]) = SumFunctionOnSet(charge, S)
      BY DEF Charged
    <3>2. S \subseteq CostedCalls /\ IsFiniteSet(S)
      <4>1. S \subseteq CostedCalls
        BY DEF CompletedOf, CallsOf, ProfitInv, ReportTyped
      <4> QED BY <4>1, ProfitAssumption, FS_Subset
    <3>3. \A c \in S : charge[c] \in Int
      BY <3>2 DEF ProfitInv, CallsValued, CallRow
    <3>4. Cardinality(report.jobs[w]) \in Nat
      <4>1. report.jobs[w] \subseteq ProfitJobs
        BY DEF ProfitInv, ReportTyped
      <4> QED BY <4>1, ProfitAssumption, FS_Subset, FS_CardinalityType
    <3>5. Cash(w) \in Int /\ report.spent[w] \in Int /\ Targets[w] \in Int
      BY <3>4, ProfitAssumption DEF ProfitInv, ReportTyped
    <3>6. Earned(w) = Cash(w) - Charged(report.jobs[w]) /\ Profit(w) = Cash(w) - report.spent[w]
      BY DEF Earned, Profit, Charged, CompletedOf
    <3> HIDE DEF S, charge, Cash
    <3>7. Charged(report.jobs[w]) \in Int
      BY <3>1, <3>2, <3>3, SumIsInt
    <3> QED BY <3>5, <3>6, <3>7
  <2> HIDE DEF Cash
  <2>2. ASSUME report.kind = "AGGREGATE", AggregateProfit > 0
        PROVE  AggregateProfit <= Earned("WEEK")
    <3>1. report.covered["WEEK"] /\ AggregateProfit = Profit("WEEK")
      BY <2>1, <2>2 DEF AggregateProfit, Windows
    <3>2. report.spent["WEEK"] = Spent(report.jobs["WEEK"]) /\ AllKnown(report.jobs["WEEK"])
      BY <2>2, <3>1 DEF ProfitInv, AggregateSound
    <3>3. Charged(report.jobs["WEEK"]) = report.spent["WEEK"]
      BY <3>2, KnownCost DEF ProfitInv
    <3> QED BY <2>1, <3>1, <3>3 DEF Windows
  <2>3. ASSUME report.kind = "GROWTH", OnTrack, NEW w \in Windows
        PROVE  Earned(w) >= Targets[w]
    <3>1. report.covered[w] /\ Profit(w) >= Targets[w]
      BY <2>3 DEF OnTrack
    <3>2. Charged(report.jobs[w]) <= report.spent[w]
      BY <2>3, <3>1 DEF ProfitInv, GrowthSound
    <3> QED BY <2>1, <3>1, <3>2
  <2> QED BY <2>2, <2>3
<1> QED BY NoReportYet, <1>1, <1>2, PTL DEF ProfitSpec
=============================================================================
