---------------------------- MODULE RunLifecycle ----------------------------
(***************************************************************************)
(* What a merge run promises about its life, whatever its phases do: the   *)
(* status only ever moves along VALID_TRANSITIONS, a finished run never    *)
(* moves again, and a crash can only bring back the status of the last     *)
(* checkpoint.  The orchestrator implements this specification.            *)
(***************************************************************************)
EXTENDS StateMachine

VARIABLES status,   \* MergeState.status of the live run
          saved     \* the status in checkpoint.json

lifeVars == <<status, saved>>

LifeInit == status = "INITIALIZED" /\ saved = "INITIALIZED"

\* A phase, the loop or an error handler changes the status and may save.
Move == /\ can_transition(status, status')
        /\ saved' \in {saved, status'}

\* Work inside a phase that saves a checkpoint without changing the status.
SaveInPlace == UNCHANGED status /\ saved' = status

\* The process dies without saving; `merge resume` loads the checkpoint.
Restore == status' = saved /\ UNCHANGED saved

LifeNext == Move \/ SaveInPlace \/ Restore

LifeSpec == LifeInit /\ [][LifeNext]_lifeVars

(* A run whose outcome is on disk has ended for good: no step changes the  *)
(* status of a run saved as COMPLETED or FAILED (cli resume returns at     *)
(* once for such a checkpoint, resume.py:105-109).                         *)
Ended == saved \in Terminal /\ status = saved
EndIsFinal == [][Ended => UNCHANGED lifeVars]_lifeVars
=============================================================================
