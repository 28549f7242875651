--------------------------- MODULE MoneyLifecycle ---------------------------
(***************************************************************************)
(* What the ledger promises about each payout: money is first a receivable *)
(* earned by accepted work, then cash, and may be reversed from either; it *)
(* never becomes cash twice and a reversal is final.                       *)
(***************************************************************************)
CONSTANT Rows  \* payout rows
VARIABLE phase

Init == phase = [r \in Rows |-> "none"]

Move(r, from, to) == phase[r] = from /\ phase' = [phase EXCEPT ![r] = to]

Earn(r) == Move(r, "none", "receivable")
Settle(r) == Move(r, "receivable", "cash")
Reverse(r) == Move(r, "receivable", "reversed") \/ Move(r, "cash", "reversed")

Next == \E r \in Rows : Earn(r) \/ Settle(r) \/ Reverse(r)

Spec == Init /\ [][Next]_phase
=============================================================================
