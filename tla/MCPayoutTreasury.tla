-------------------------- MODULE MCPayoutTreasury --------------------------
(* Instances of PayoutTreasury for TLC.                                    *)
EXTENDS PayoutTreasury, TLC

CONSTANTS j1, j2

TwoJobs == {j1, j2}
FullNet == {[gross |-> 2, fee |-> 1]}
ValidAndInvalid == {[gross |-> 2, fee |-> 1], [gross |-> 0, fee |-> 1]}
=============================================================================
