----------------------------- MODULE WorkerRun -----------------------------
(***************************************************************************)
(* One weekly run in the always-on runtime: three pg-boss workers and the  *)
(* administrator's routes change the same run and rows, each in its own    *)
(* transactions, with no lock between them.                                *)
(*                                                                         *)
(*   modules/weeklyPush/weeklyPush.worker     handleWeeklyPushJob (main),  *)
(*                           handleRecipientJob (rcpt), finalizeWeeklyPushRun *)
(*   modules/weeklyPush/weeklyPush.reconcile  reconcileWeeklyPushRun (recon) *)
(*   modules/weeklyPush/weeklyPush.routes     cancel                       *)
(*   core/weekly-push/use-cases               retryFailed                  *)
(*                                                                         *)
(* pg-boss and the LINE side of a delivery are external: a failed or       *)
(* crashed job is tried again until its retry limit, and a delivery takes  *)
(* a row from claim to one of deliveryCompletion's states (see Delivery).  *)
(***************************************************************************)
EXTENDS RunLedger

CONSTANTS
  NoRow,
  Legacy,        \* rows the earlier sender left unknown, with a retry ahead
  MaxTries,      \* MAX_DELIVERY_ATTEMPTS
  JobAttempts,   \* retryLimit + 1 of the main and the recipient jobs
  MaxUpsets      \* bound: crashes, failed reports or summaries, cancel and
                 \* retryFailed requests, altogether

Actors == {"main", "rcpt", "recon"}
Nobody == "nobody"

VARIABLES
  run, row,      \* the run and the status of each recipient
  due,           \* a row's lease is over, or its retry is due
  tries,         \* attemptCount
  holder,        \* whose claim token a row carries
  mainJob,       \* attempts left of the run's own job; 0: it is over
  rcptJob,       \* attempts left of each row's waiting job; 0: there is none
  act,           \* what each worker is doing
  cancelling,    \* how far a cancel request is
  upsets

ledger == <<run, row, due, tries, holder>>
queue == <<mainJob, rcptJob>>
vars == <<ledger, queue, act, cancelling, upsets>>

ASSUME WorkerRunAssumption ==
  /\ IsFiniteSet(Rows) /\ NoRow \notin Rows /\ Legacy \subseteq Rows
  /\ MaxTries \in Nat \ {0} /\ JobAttempts \in Nat \ {0}
  /\ MaxUpsets \in Nat

Act == [pc : {"idle", "picked", "rows", "sending", "count", "prepare", "report", "finish"},
        todo : SUBSET Rows, cur : Rows \cup {NoRow}, retry : BOOLEAN,
        finished : BOOLEAN,        \* reconcile read a finished run
        counts : Tally,
        job : Rows \cup {NoRow},   \* handleRecipientJob: the row of the job
        left : 0 .. JobAttempts]   \* and the attempts left after this one
Idle == [pc |-> "idle", todo |-> {}, cur |-> NoRow, retry |-> FALSE,
         finished |-> FALSE, counts |-> NoCounts, job |-> NoRow, left |-> 0]

TypeOK ==
  /\ run \in Run /\ row \in [Rows -> RowStatuses]
  /\ due \in [Rows -> BOOLEAN] /\ tries \in [Rows -> 0 .. MaxTries + 1]
  /\ holder \in [Rows -> Actors \cup {Nobody}]
  /\ mainJob \in 0 .. JobAttempts /\ rcptJob \in [Rows -> 0 .. JobAttempts]
  /\ act \in [Actors -> Act]
  /\ cancelling \in {"no", "rows", "run"}
  /\ upsets \in 0 .. MaxUpsets

Init ==
  /\ run = NewRun
  /\ row = [r \in Rows |-> IF r \in Legacy THEN "unknown_retry" ELSE "pending"]
  /\ due = [r \in Rows |-> r \notin Legacy]
  /\ tries = [r \in Rows |-> IF r \in Legacy THEN 1 ELSE 0]
  /\ holder = [r \in Rows |-> Nobody]
  /\ mainJob = JobAttempts
  /\ rcptJob = [r \in Rows |-> 0]
  /\ act = [a \in Actors |-> Idle]
  /\ cancelling = "no"
  /\ upsets = 0

-----------------------------------------------------------------------------
(***************************************************************************)
(* The queue (external). A job that throws, or whose worker is gone, is    *)
(* tried again until its limit. Several waiting jobs of one row count as   *)
(* the one with most attempts left.                                        *)
(***************************************************************************)
Larger(m, n) == IF m > n THEN m ELSE n

EndJob(a, failed) ==
  /\ act' = [act EXCEPT ![a] = Idle]
  /\ mainJob' = IF a # "main" THEN mainJob ELSE IF failed THEN mainJob - 1 ELSE 0
  /\ rcptJob' = IF a = "rcpt" /\ failed
                THEN [rcptJob EXCEPT ![act[a].job] = Larger(@, act[a].left)]
                ELSE rcptJob

\* Mutant: a new job of a row adds its attempts to those left.
EnqueueAdds(R) ==
  rcptJob' = [r \in Rows |-> rcptJob[r] + IF r \in R THEN JobAttempts ELSE 0]
Enqueue(R) ==
  rcptJob' = [r \in Rows |-> IF r \in R THEN JobAttempts ELSE rcptJob[r]]

-----------------------------------------------------------------------------
(***************************************************************************)
(* handleWeeklyPushJob: the run is marked sending whatever it was, then    *)
(* every row is offered for delivery.                                      *)
(***************************************************************************)
MainStart ==
  /\ act["main"].pc = "idle" /\ mainJob > 0
  /\ run' = [run EXCEPT !.status = "sending", !.completed = FALSE]
  /\ act' = [act EXCEPT !["main"] = [Idle EXCEPT !.pc = "rows", !.todo = Rows]]
  /\ UNCHANGED <<row, due, tries, holder, queue, cancelling, upsets>>

\* handleRecipientJob: one row.
RcptStart(r) ==
  /\ act["rcpt"].pc = "idle" /\ rcptJob[r] > 0
  /\ rcptJob' = [rcptJob EXCEPT ![r] = 0]
  /\ act' = [act EXCEPT !["rcpt"] = [Idle EXCEPT !.pc = "rows", !.todo = {r},
                                       !.job = r, !.left = rcptJob[r] - 1]]
  /\ UNCHANGED <<ledger, mainJob, cancelling, upsets>>

(***************************************************************************)
(* deliverSavedRecipient, as Delivery implements it: claim, then complete  *)
(* under the claim's token. A row is claimable when it is pending or when  *)
(* its lease or retry delay is over.                                       *)
(***************************************************************************)
Claimable(r) == Retryable(row[r]) /\ (row[r] = "pending" \/ due[r])

Claim(a, r) ==
  /\ act[a].pc = "rows" /\ r \in act[a].todo
  /\ Claimable(r)
  /\ row' = [row EXCEPT ![r] = "processing"]
  /\ due' = [due EXCEPT ![r] = FALSE]
  /\ tries' = [tries EXCEPT ![r] = IF @ > MaxTries THEN @ ELSE @ + 1]
  /\ holder' = [holder EXCEPT ![r] = a]
  /\ act' = [act EXCEPT ![a].pc = "sending", ![a].cur = r,
                        ![a].todo = @ \ {r}]
  /\ UNCHANGED <<run, queue, cancelling, upsets>>

\* "unclaimed": the row is read again, and a job retry is due if it is still open.
\* Mutant: an unclaimed row never asks for a retry.
UnclaimedIsDone(s) == FALSE
RetryUnclaimed(s) == Retryable(s)
Unclaimed(a, r) ==
  /\ act[a].pc = "rows" /\ r \in act[a].todo
  /\ ~Claimable(r)
  /\ act' = [act EXCEPT ![a].retry = @ \/ RetryUnclaimed(row[r]),
                        ![a].todo = @ \ {r}]
  /\ UNCHANGED <<ledger, queue, cancelling, upsets>>

\* The states deliveryCompletion gives: a retry only while attempts are left. Too
\* many attempts send nothing, but a row that is incomplete fails before they count.
Answers(r) ==
  IF tries[r] > MaxTries THEN {"failed", "unknown"}
  ELSE {"accepted", "failed", "unknown"} \cup
       (IF tries[r] < MaxTries THEN {"retry_wait"} ELSE {})

Complete(a) ==
  LET r == act[a].cur IN
  /\ act[a].pc = "sending" /\ holder[r] = a
  /\ \E s \in Answers(r) :
       /\ row' = [row EXCEPT ![r] = s]
       /\ act' = [act EXCEPT ![a].pc = "rows", ![a].cur = NoRow,
                             ![a].retry = @ \/ s = "retry_wait"]
  /\ due' = [due EXCEPT ![r] = FALSE]
  /\ holder' = [holder EXCEPT ![r] = Nobody]
  /\ UNCHANGED <<run, tries, queue, cancelling, upsets>>

\* "claim was superseded" leaves the handler: the job fails.
Superseded(a) ==
  /\ act[a].pc = "sending" /\ holder[act[a].cur] # a
  /\ EndJob(a, TRUE)
  /\ UNCHANGED <<ledger, cancelling, upsets>>

-----------------------------------------------------------------------------
(***************************************************************************)
(* All rows offered: count, and finalise only if nothing is left open.     *)
(***************************************************************************)
\* Mutant: the job trusts its own deliveries and does not look at the others.
OnlyOwnRetries(c, a) == act[a].retry
Unsettled(c, a) == act[a].retry \/ c.open > 0

MainCount ==
  LET c == Counts(row) IN
  /\ act["main"].pc = "rows" /\ act["main"].todo = {}
  /\ IF Unsettled(c, "main")
     THEN EndJob("main", TRUE)
     ELSE /\ act' = [act EXCEPT !["main"].pc = "prepare", !["main"].counts = c]
          /\ UNCHANGED queue
  /\ UNCHANGED <<ledger, cancelling, upsets>>

\* A recipient job whose own row is settled leaves an open run to the others.
RcptCount ==
  LET c == Counts(row) IN
  /\ act["rcpt"].pc = "rows" /\ act["rcpt"].todo = {}
  /\ IF act["rcpt"].retry THEN EndJob("rcpt", TRUE)
     ELSE IF c.open > 0 THEN EndJob("rcpt", FALSE)
     ELSE /\ act' = [act EXCEPT !["rcpt"].pc = "prepare", !["rcpt"].counts = c]
          /\ UNCHANGED queue
  /\ UNCHANGED <<ledger, cancelling, upsets>>

(***************************************************************************)
(* finalizeWeeklyPushRun: four awaits, each its own transaction, all with  *)
(* the counts of its caller.                                               *)
(***************************************************************************)
Prepare(a) ==
  /\ act[a].pc = "prepare"
  /\ run' = Preparing(run)
  /\ act' = [act EXCEPT ![a].pc = "report"]
  /\ UNCHANGED <<row, due, tries, holder, queue, cancelling, upsets>>

StoreReport(a) ==
  /\ act[a].pc = "report"
  /\ run' = Reported(run)
  /\ act' = [act EXCEPT ![a].pc = "finish"]
  /\ UNCHANGED <<row, due, tries, holder, queue, cancelling, upsets>>

\* The summary is accepted, or no group is configured.
Finish(a) ==
  /\ act[a].pc = "finish"
  /\ run' = Finished(run, act[a].counts)
  /\ EndJob(a, FALSE)
  /\ UNCHANGED <<row, due, tries, holder, cancelling, upsets>>

\* The report cannot be stored, or the summary is not accepted: the catch.
Catch(a) ==
  /\ act[a].pc \in {"report", "finish"} /\ upsets < MaxUpsets
  /\ upsets' = upsets + 1
  /\ \E s \in {"failed", "unknown"} :
       /\ s = "unknown" => act[a].pc = "finish"
       /\ run' = NotFinished(run, s)
  /\ EndJob(a, TRUE)
  /\ UNCHANGED <<row, due, tries, holder, cancelling>>

-----------------------------------------------------------------------------
(***************************************************************************)
(* The reconcile schedule lists the runs in these states every five        *)
(* minutes; reconcileWeeklyPushRun, when a run's turn comes, reads it first *)
(* and decides on that reading at the end.                                 *)
(***************************************************************************)
Watched == {"queued", "sending", "unknown", "failed"}

ReconPick ==
  /\ act["recon"].pc = "idle" /\ run.status \in Watched
  /\ act' = [act EXCEPT !["recon"].pc = "picked"]
  /\ UNCHANGED <<ledger, queue, cancelling, upsets>>

ReconStart ==
  LET open == OpenRows(row) IN
  /\ act["recon"].pc = "picked"
  /\ Enqueue(open)
  /\ act' = [act EXCEPT !["recon"] =
       [Idle EXCEPT !.pc = "count", !.retry = (open # {}),
                    !.finished = Concluded(run)]]
  /\ UNCHANGED <<ledger, mainJob, cancelling, upsets>>

ReconCount ==
  LET c == Counts(row)  a == act["recon"] IN
  /\ a.pc = "count"
  /\ IF a.retry \/ c.open > 0
     THEN /\ run' = Preparing(run)
          /\ act' = [act EXCEPT !["recon"] = Idle]
     ELSE /\ UNCHANGED run
          /\ act' = [act EXCEPT !["recon"] =
               IF a.finished THEN Idle
               ELSE [a EXCEPT !.pc = "prepare", !.counts = c]]
  /\ UNCHANGED <<row, due, tries, holder, queue, cancelling, upsets>>

-----------------------------------------------------------------------------
\* cancelUnsentRecipients leaves a row that is being sent alone.
\* Mutant: it does not.
NotSettled == {"pending", "processing", "retry_wait"}
Unsent == {"pending", "retry_wait"}

\* cancel: refused for a run that has ended, by a status read before the updates.
CancelCheck ==
  /\ cancelling = "no" /\ upsets < MaxUpsets
  /\ run.status \notin {"success", "partial_success", "failed", "cancelled"}
  /\ cancelling' = "rows" /\ upsets' = upsets + 1
  /\ UNCHANGED <<ledger, queue, act>>

CancelRows ==
  /\ cancelling = "rows"
  /\ row' = [r \in Rows |-> IF row[r] \in Unsent THEN "cancelled" ELSE row[r]]
  /\ cancelling' = "run"
  /\ UNCHANGED <<run, due, tries, holder, queue, act, upsets>>

CancelRun ==
  /\ cancelling = "run"
  /\ run' = [run EXCEPT !.status = "cancelled", !.completed = TRUE]
  /\ cancelling' = "no"
  /\ UNCHANGED <<row, due, tries, holder, queue, act, upsets>>

\* retryFailed: one transaction; completedAt is passed as undefined and stays.
RetryFailed ==
  LET failed == {r \in Rows : row[r] = "failed"} IN
  /\ upsets < MaxUpsets /\ failed # {}
  /\ row' = [r \in Rows |-> IF r \in failed THEN "pending" ELSE row[r]]
  /\ due' = [r \in Rows |-> IF r \in failed THEN TRUE ELSE due[r]]
  /\ run' = [run EXCEPT !.status = "sending"]
  /\ Enqueue(failed)
  /\ upsets' = upsets + 1
  /\ UNCHANGED <<tries, holder, mainJob, act, cancelling>>

\* The clock: the lease of a sender is over, or a retry delay is.
BecomesDue(r) ==
  /\ ~due[r] /\ row[r] \in {"processing", "retry_wait", "unknown_retry"}
  /\ due' = [due EXCEPT ![r] = TRUE]
  /\ UNCHANGED <<run, row, tries, holder, queue, act, cancelling, upsets>>

\* A worker stops anywhere; its job expires and counts as failed.
Crash(a) ==
  /\ act[a].pc # "idle" /\ upsets < MaxUpsets
  /\ upsets' = upsets + 1
  /\ EndJob(a, TRUE)
  /\ UNCHANGED <<ledger, cancelling>>

-----------------------------------------------------------------------------
Deliver(a) ==
  \/ \E r \in Rows : Claim(a, r) \/ Unclaimed(a, r)
  \/ Complete(a) \/ Superseded(a)
Finalize(a) == Prepare(a) \/ StoreReport(a) \/ Finish(a)
Main == MainStart \/ MainCount \/ Deliver("main") \/ Finalize("main")
Rcpt == (\E r \in Rows : RcptStart(r)) \/ RcptCount \/ Deliver("rcpt") \/ Finalize("rcpt")
Recon == ReconPick \/ ReconStart \/ ReconCount \/ Finalize("recon")
Clock == \E r \in Rows : BecomesDue(r)

Next ==
  \/ Main \/ Rcpt \/ Recon \/ Clock
  \/ \E a \in Actors : Catch(a) \/ Crash(a)
  \/ CancelCheck \/ CancelRows \/ CancelRun \/ RetryFailed

Spec == Init /\ [][Next]_vars

\* Workers poll their queues and every await settles; nobody has to cancel,
\* retry or fail.
FairSpec ==
  /\ Spec
  /\ WF_vars(Main) /\ WF_vars(Rcpt) /\ WF_vars(Recon) /\ WF_vars(CancelRows \/ CancelRun)
  /\ \A r \in Rows : WF_vars(BecomesDue(r))

-----------------------------------------------------------------------------
(***************************************************************************)
(* Properties                                                              *)
(***************************************************************************)
\* A run says success only if LINE accepted every recipient, whichever of the
\* three finalisers wrote it and however old its counts are.
SuccessMeansAccepted ==
  run.status = "success" => \A r \in Rows : row[r] = "accepted"

\* A run shown as finished has its report, even if an earlier finalisation of it
\* failed half-way or another one is in progress.
FinishedHasReport ==
  run.completed /\ run.status \in Ended => run.report

\* The rows a finaliser overlooks were counted as failed and retried meanwhile;
\* nothing that was open at its count is declared finished.
OverlooksOnlyRetried ==
  [][\A a \in Actors : Finish(a) =>
       Cardinality(OpenRows(row)) <= act[a].counts.failed]_vars

\* To those who look at it, the run does only what SavedRun promises: no row is
\* settled but by the attempt that took it up, a final status is true of the rows when
\* it is written, and the report is there.
Promise == INSTANCE SavedRun
ImplementsSavedRun == Promise!RunSpec

\* A recipient that was cancelled is never messaged, whatever job still carries
\* it and whoever had claimed it before.
CancelledRowsStay ==
  [][\A r \in Rows : row[r] = "cancelled" => row'[r] = "cancelled"]_vars

\* A cancelled run has ended, as the cancel route answers for one: only an
\* administrator's retryFailed may take it up again, no worker.
CancelledStaysCancelled ==
  [][run.status = "cancelled" => run'.status = "cancelled" \/ RetryFailed]_vars

\* Every run ends: its rows are settled and completedAt is set, for good.
EventuallyFinished ==
  <>[](run.completed /\ (OpenRows(row) = {} \/ run.status \in {"cancelled", "partial_success"}))
=============================================================================
