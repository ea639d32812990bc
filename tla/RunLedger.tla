----------------------------- MODULE RunLedger -----------------------------
(***************************************************************************)
(* What the weekly push keeps about one run (weekly_push_runs) and its     *)
(* recipients (weekly_push_recipients), and how the second is summarised   *)
(* into the first. Shared by the two executors: the always-on workers      *)
(* (WorkerRun) and the external wake (WakeRun).                            *)
(*                                                                         *)
(* A recipient is its status alone; the claim, the request and the         *)
(* completion are module Delivery's. An `unknown` row that still has a     *)
(* nextRetryAt is the status "unknown_retry".                              *)
(***************************************************************************)
EXTENDS Naturals, FiniteSets

CONSTANT Rows     \* the run's recipients

RowStatuses == {"pending", "processing", "retry_wait", "unknown_retry",
                "accepted", "failed", "unknown", "cancelled"}
RunStatuses == {"queued", "sending", "success", "partial_success", "failed",
                "unknown", "cancelled"}

\* Rows still to be delivered, by the list the handlers test.
Retryable(s) == s \in {"pending", "processing", "retry_wait", "unknown_retry"}
OpenRows(row) == {r \in Rows : Retryable(row[r])}

HowMany(row, s) == Cardinality({r \in Rows : row[r] \in s})

\* countRecipientStatuses; a cancelled row falls into its last branch.
Counts(row) ==
  [open |-> HowMany(row, {"pending", "processing", "retry_wait", "unknown_retry"}),
   accepted |-> HowMany(row, {"accepted"}), failed |-> HowMany(row, {"failed"}),
   unknown |-> HowMany(row, {"unknown", "cancelled"})]
NoCounts == [open |-> 0, accepted |-> 0, failed |-> 0, unknown |-> 0]

\* The status finalizeWeeklyPushRun derives from the counts.
\* Mutant: a row nobody could confirm does not stop the success.
OutcomeIgnoresUnknown(c) ==
  IF c.failed > 0 THEN IF c.accepted > 0 THEN "partial_success" ELSE "failed"
  ELSE "success"
Outcome(c) ==
  IF c.unknown > 0 THEN "unknown"
  ELSE IF c.failed > 0 THEN IF c.accepted > 0 THEN "partial_success" ELSE "failed"
  ELSE "success"

Count == 0 .. Cardinality(Rows)
Tally == [open : Count, accepted : Count, failed : Count, unknown : Count]
Run == [status : RunStatuses,
        completed : BOOLEAN,     \* completedAt is set
        report : BOOLEAN]        \* reportPath is set; the totals are left out

\* createRunBundle: the run is queued with one pending row per recipient.
\* Runs the earlier sender left have rows in any open state.
NewRun == [status |-> "queued", completed |-> FALSE, report |-> FALSE]

\* finalizeWeeklyPushRun's updates of the run, in order: preparing, the stored
\* report, the final one; and the one its catch makes.
Preparing(run) == [run EXCEPT !.status = "sending", !.completed = FALSE]
Reported(run) == [run EXCEPT !.report = TRUE]
Finished(run, c) == [run EXCEPT !.status = Outcome(c), !.completed = TRUE]
NotFinished(run, s) == [run EXCEPT !.status = s, !.completed = FALSE]

Ended == {"success", "partial_success", "failed", "unknown"}

\* reconcileWeeklyPushRun's early return: the finalisation went through.
\* Mutant: an ended status is enough, even of a finalisation that failed.
EndedByStatus(run) == run.status \in Ended
Concluded(run) == run.status \in Ended /\ run.completed /\ run.report
=============================================================================
