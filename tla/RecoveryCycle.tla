---------------------------- MODULE RecoveryCycle ----------------------------
(***************************************************************************)
(* What the controller promises about the training it manages: one launch  *)
(* at a time, each followed by the next only through a recovery, whatever  *)
(* happens to the controller in between.  "alive" is the set of launches   *)
(* that have processes and have not slipped out of its hands; "record" is  *)
(* what somebody who has only the state file knows: "new" (no training was *)
(* ever confirmed), "training", "recovering", or, when the file was cut,   *)
(* "torn".                                                                 *)
(***************************************************************************)
EXTENDS Integers

VARIABLES run, alive, record

Init == run = 0 /\ alive = {} /\ record = "new"

\* A launch finds nothing of an earlier one, and not while the record says that
\* a training is under way.
Launch ==
  /\ alive = {}
  /\ record # "training"
  /\ run' = run + 1
  /\ alive' = {run + 1}
  /\ UNCHANGED record

\* A launch that was made but is thought to have failed, so that nothing is known
\* to be alive.
Misfire ==
  /\ alive = {}
  /\ record # "training"
  /\ run' = run + 1
  /\ UNCHANGED <<alive, record>>

\* Each new record passes through a cut one, and is about the launch that is there: a
\* job begins anew only when nothing is in hand, and is confirmed only after a launch.
Tear == record' = "torn" /\ UNCHANGED <<run, alive>>
Begin == record = "torn" /\ alive = {} /\ record' = "new" /\ UNCHANGED <<run, alive>>
Confirm == record = "torn" /\ run > 0 /\ record' = "training" /\ UNCHANGED <<run, alive>>
Recover == record = "torn" /\ record' = "recovering" /\ UNCHANGED <<run, alive>>

\* The training ends, by itself or because it is stopped, or it is given up on.
End == alive # {} /\ alive' = {} /\ UNCHANGED <<run, record>>

Next == Launch \/ Misfire \/ Tear \/ Begin \/ Confirm \/ Recover \/ End

Spec == Init /\ [][Next]_<<run, alive, record>>
=============================================================================
