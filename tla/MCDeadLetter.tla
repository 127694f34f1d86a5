---------------------------- MODULE MCDeadLetter ----------------------------
(***************************************************************************)
(* Instances of DeadLetter for TLC: two jobs of different tasks, both of   *)
(* which go to the dead letter queue or one of which is excluded from it.  *)
(***************************************************************************)
EXTENDS DeadLetter, TLC

CONSTANTS j1, j2, t1, t2, t3

TwoTasks == {j1 :> t1 @@ j2 :> t2, j1 :> t1 @@ j2 :> t3}

=============================================================================
