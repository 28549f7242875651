------------------------ MODULE MCWorkPlanLifecycle ------------------------
(* Instances of WorkPlanLifecycle for TLC.                                 *)
EXTENDS WorkPlanLifecycle, TLC

CONSTANTS w1, w2

OneWorker == {w1}
=============================================================================
