------------------------------ MODULE SavedRun ------------------------------
(***************************************************************************)
(* What a weekly run promises to those who look at it, whether the         *)
(* always-on workers (WorkerRun) or the external wake (WakeRun) carry it   *)
(* out, and however often they are cut short.                              *)
(*                                                                         *)
(* Neither executor locks the rows while it finalises, and both write a    *)
(* status they derived from counts several transactions old. What they     *)
(* write is true of the rows as they are when it is written.               *)
(***************************************************************************)
EXTENDS RecipientLife

VARIABLE run
runVars == <<run, rowVars>>

Truthful(s) ==
  /\ s = "success" => \A r \in Rows : row[r] = "accepted"
  /\ s = "partial_success" => \E r \in Rows : row[r] = "accepted"
  /\ s = "unknown" => \E r \in Rows : row[r] \in {"unknown", "cancelled"}

\* A run is finished with its report stored, and only then called completed.
Finish(s) ==
  /\ run.report /\ Truthful(s)
  /\ run' = [run EXCEPT !.status = s, !.completed = TRUE]

Update ==
  \/ run' = Preparing(run) \/ run' = Reported(run)
  \/ \E s \in Ended : Finish(s)
  \/ \E s \in {"failed", "unknown"} : run' = NotFinished(run, s)
  \/ run' = [run EXCEPT !.status = "cancelled", !.completed = TRUE]

RunInit == run = NewRun /\ RowInit
RunNext ==
  \/ UNCHANGED run /\ (Deliver \/ Cancel)
  \/ run' = [run EXCEPT !.status = "sending"] /\ Retry
  \/ UNCHANGED rowVars /\ Update

RunSpec == RunInit /\ [][RunNext]_runVars
=============================================================================
