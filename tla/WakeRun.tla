------------------------------- MODULE WakeRun -------------------------------
(***************************************************************************)
(* One weekly run under the external wake: no worker polls; a request      *)
(* arrives now and then, takes the lock, handles the jobs it has time for, *)
(* one after the other, and ends.                                          *)
(*                                                                         *)
(*   modules/notificationWake/wake-runtime.ts        the wake              *)
(*   modules/notificationWake/notification-batch.ts  its steps             *)
(*   modules/notificationWake/wake-intake.ts         recovery by an admin  *)
(*                                                                         *)
(* A step of a parent job (fan-out) and its acknowledgement are one        *)
(* transaction; those of a recipient or of the report are not. The lock    *)
(* belongs to the session through which a wake does everything, so a wake  *)
(* that is gone does nothing any more.                                     *)
(***************************************************************************)
EXTENDS RunLedger, Integers

CONSTANTS
  Legacy,        \* rows the earlier sender left unknown, with a retry date
  Chunk,         \* rows a fan-out visits at most (limit: 25)
  MaxTries,      \* MAX_DELIVERY_ATTEMPTS
  FirstAttempts, \* attempts of the run's own job and of a manual retry (1 + 3)
  WakeAttempts,  \* attempts of the jobs a wake creates (1 + 20)
  MaxUpsets,     \* bound: crashes, failures, interruptions
  MaxCancels,    \* bound: cancel requests
  MaxRecoveries, \* bound: recoveries by an administrator
  MaxRetries,    \* bound: retryFailed requests
  MaxAll         \* bound: all of these together

VARIABLES
  run, row,      \* the run and the status of each recipient
  due,           \* a row's lease is over, or its retry is due
  tries,         \* attemptCount
  job,           \* pgboss.job: the jobs of this run, by identity
  wake,          \* what the wake that holds the lock is doing
  cancelling,    \* how far a cancel request is
  recovering,    \* a recovery has read that the run is not completed
  upsets, cancels, recoveries, retries

ledger == <<run, row, due, tries>>
admin == <<cancelling, recovering, cancels, recoveries, retries>>
vars == <<ledger, job, wake, admin, upsets>>
\* Room for one more disturbance.
Room == upsets + cancels + recoveries + retries < MaxAll

ASSUME WakeRunAssumption ==
  /\ Rows \subseteq Nat \ {0} /\ IsFiniteSet(Rows) /\ Legacy \subseteq Rows
  /\ Chunk \in Nat \ {0} /\ MaxTries \in Nat \ {0}
  /\ FirstAttempts \in Nat \ {0} /\ WakeAttempts \in Nat \ {0}
  /\ MaxUpsets \in Nat /\ MaxCancels \in Nat /\ MaxRecoveries \in Nat /\ MaxRetries \in {0, 1}
  /\ MaxAll \in Nat

(***************************************************************************)
(* Job identities. `first` carries the run's id, `resume` and `report` are *)
(* the two once-only jobs of nextUnfinishedRun, `rcpt` is once-only for a  *)
(* row; `manual` has an identity of its own per retryFailed (one at most). *)
(***************************************************************************)
First == <<"first", 0>>
Resume == <<"resume", 0>>
Report == <<"report", 0>>
Rcpt(r) == <<"rcpt", r>>
Manual(r) == <<"manual", r>>
Parents == {First, Resume}
RowJobs == {"rcpt", "manual"} \X Rows
JobIds == Parents \cup {Report} \cup RowJobs
NoJob == <<"none", 0>>

Attempts(j) == IF j[1] \in {"first", "manual"} THEN FirstAttempts ELSE WakeAttempts
\* `later` and `retry` wait for their start_after, set by this wake or an earlier one.
Job == [state : {"none", "ready", "later", "retry", "active", "overdue",
                 "completed", "failed"},
        left : Nat,               \* attempts left, this one included
        cursor : Nat]             \* the last row a fan-out visited
Absent == [state |-> "none", left |-> 0, cursor |-> 0]
\* Mutant: the retry limit does not count the first attempt.
RetriesOnly(j) == [state |-> "ready", left |-> Attempts(j) - 1, cursor |-> 0]
NewJob(j) == [state |-> "ready", left |-> Attempts(j), cursor |-> 0]

Wake == [phase : {"off", "drain", "plan", "planned", "redrain"},
         pc : {"idle", "fanout", "read", "claim", "sending", "check", "count",
               "prepare", "store", "finish", "done", "again", "failed"},
         job : JobIds \cup {NoJob}, counts : Tally]
Off == [phase |-> "off", pc |-> "idle", job |-> NoJob, counts |-> NoCounts]

TypeOK ==
  /\ run \in Run /\ row \in [Rows -> RowStatuses]
  /\ due \in [Rows -> BOOLEAN] /\ tries \in [Rows -> 0 .. MaxTries + 1]
  /\ job \in [JobIds -> Job] /\ wake \in Wake
  /\ \A j \in JobIds : job[j].left \in 0 .. Attempts(j)
  /\ cancelling \in {"no", "rows", "run"} /\ recovering \in BOOLEAN
  /\ upsets \in 0 .. MaxUpsets /\ cancels \in 0 .. MaxCancels
  /\ recoveries \in 0 .. MaxRecoveries /\ retries \in 0 .. MaxRetries

\* createRunBundle: the run, its rows and its first job, in one transaction.
Init ==
  /\ run = NewRun
  /\ row = [r \in Rows |-> IF r \in Legacy THEN "unknown_retry" ELSE "pending"]
  /\ due = [r \in Rows |-> r \notin Legacy]
  /\ tries = [r \in Rows |-> IF r \in Legacy THEN 1 ELSE 0]
  /\ job = [j \in JobIds |-> IF j = First THEN NewJob(j) ELSE Absent]
  /\ wake = Off
  /\ cancelling = "no" /\ recovering = FALSE
  /\ upsets = 0 /\ cancels = 0 /\ recoveries = 0 /\ retries = 0

-----------------------------------------------------------------------------
(***************************************************************************)
(* The queue. An identity that was ever used, archived jobs included, is   *)
(* not sent again. A failed attempt is retried while any are left; a       *)
(* continuation is not an attempt.                                         *)
(***************************************************************************)
\* Mutant: only the live jobs are looked up.
SendUnlessLive(jobs, S) ==
  [j \in JobIds |-> IF j \in S /\ jobs[j].state \in {"none", "completed", "failed"}
                    THEN NewJob(j) ELSE jobs[j]]
SendOnce(jobs, S) ==
  [j \in JobIds |-> IF j \in S /\ jobs[j].state = "none" THEN NewJob(j) ELSE jobs[j]]

AttemptFailed(x, wait) ==
  [x EXCEPT !.state = IF x.left > 1 THEN wait ELSE "failed", !.left = @ - 1]

\* A wake begins: it has the lock, and jobs that were left active too long expire.
\* A retry is delayed for longer than a wake lasts.
WakeStart ==
  /\ wake.phase = "off"
  /\ wake' = [Off EXCEPT !.phase = "drain"]
  /\ job' = [j \in JobIds |->
       CASE job[j].state = "overdue" -> AttemptFailed(job[j], "retry")
         [] job[j].state = "later" -> [job[j] EXCEPT !.state = "retry"]
         [] OTHER -> job[j]]
  /\ UNCHANGED <<ledger, admin, upsets>>

Idle == wake.phase \in {"drain", "redrain"} /\ wake.pc = "idle"
NothingReady == \A j \in JobIds : job[j].state # "ready"

Fetch(j) ==
  /\ Idle /\ job[j].state = "ready"
  /\ job' = [job EXCEPT ![j].state = "active"]
  /\ wake' = [wake EXCEPT !.job = j,
       !.pc = IF j \in Parents THEN "fanout" ELSE IF j = Report THEN "check" ELSE "read"]
  /\ UNCHANGED <<ledger, admin, upsets>>

\* acknowledge, or the failure's UPDATE, each fenced by the claim it answers.
Acknowledge ==
  LET j == wake.job IN
  /\ wake.pc \in {"done", "again", "failed"}
  /\ job' = [job EXCEPT ![j] =
       CASE wake.pc = "done" -> [@ EXCEPT !.state = "completed"]
         [] wake.pc = "again" -> [@ EXCEPT !.state = IF j \in Parents THEN "ready" ELSE "later"]
         [] wake.pc = "failed" -> AttemptFailed(@, "later")]
  /\ wake' = [Off EXCEPT !.phase = wake.phase]
  /\ UNCHANGED <<ledger, admin, upsets>>

-----------------------------------------------------------------------------
(***************************************************************************)
(* fanoutWeeklyRun: the rows after the cursor, in order, at most Chunk of  *)
(* them; each that is still to be delivered gets its job.                  *)
(***************************************************************************)
After(cursor) == {r \in Rows : r > cursor}
UpTo(last, cursor) == {r \in After(cursor) : r <= last}
Ends(cursor) ==         \* the rows a chunk may end with; a deadline may cut it short
  IF After(cursor) = {} THEN {cursor}
  ELSE {last \in After(cursor) : Cardinality(UpTo(last, cursor)) <= Chunk}

\* Mutant: the parent is done when its chunk is.
ChunkIsAll(last) == TRUE
AllVisited(last) == After(last) = {}

FanOut ==
  LET p == wake.job  cursor == job[wake.job].cursor IN
  /\ wake.pc = "fanout"
  /\ \E last \in Ends(cursor) :
       LET open == {Rcpt(r) : r \in {x \in UpTo(last, cursor) : Retryable(row[x])}}
           sent == SendOnce(job, open \cup IF AllVisited(last) THEN {Report} ELSE {})
       IN job' = IF AllVisited(last)
                 THEN [sent EXCEPT ![p].state = "completed", ![p].cursor = 0]
                 ELSE [sent EXCEPT ![p].state = "ready", ![p].cursor = last]
  /\ wake' = [Off EXCEPT !.phase = wake.phase]
  /\ UNCHANGED <<ledger, admin, upsets>>

-----------------------------------------------------------------------------
(***************************************************************************)
(* handleBoundedRecipient: one row; the claim and the completion are       *)
(* Delivery's. A row that is still to be delivered comes back.             *)
(***************************************************************************)
WakeRow == wake.job[2]
Go(pc) == wake' = [wake EXCEPT !.pc = pc]

ComesBack(s) == Retryable(s)

ReadRow ==
  LET s == row[WakeRow] IN
  /\ wake.pc = "read"
  /\ Go(CASE ~Retryable(s) -> "done"
          [] s \in {"retry_wait", "unknown_retry"} /\ ~due[WakeRow] -> "again"
          [] OTHER -> "claim")
  /\ UNCHANGED <<ledger, job, admin, upsets>>

Claimable(r) == Retryable(row[r]) /\ (row[r] = "pending" \/ due[r])

Claim ==
  /\ wake.pc = "claim" /\ Claimable(WakeRow)
  /\ row' = [row EXCEPT ![WakeRow] = "processing"]
  /\ due' = [due EXCEPT ![WakeRow] = FALSE]
  /\ tries' = [tries EXCEPT ![WakeRow] = IF @ > MaxTries THEN @ ELSE @ + 1]
  /\ Go("sending")
  /\ UNCHANGED <<run, job, admin, upsets>>

Unclaimed ==
  /\ wake.pc = "claim" /\ ~Claimable(WakeRow)
  /\ Go(IF ComesBack(row[WakeRow]) THEN "again" ELSE "done")
  /\ UNCHANGED <<ledger, job, admin, upsets>>

Answers(r) ==
  IF tries[r] > MaxTries THEN {"failed", "unknown"}
  ELSE {"accepted", "failed", "unknown"} \cup
       (IF tries[r] < MaxTries THEN {"retry_wait"} ELSE {})

Complete ==
  /\ wake.pc = "sending"
  /\ \E s \in Answers(WakeRow) :
       /\ row' = [row EXCEPT ![WakeRow] = s]
       /\ Go(IF ComesBack(s) THEN "again" ELSE "done")
  /\ due' = [due EXCEPT ![WakeRow] = FALSE]
  /\ UNCHANGED <<run, tries, job, admin, upsets>>

-----------------------------------------------------------------------------
(***************************************************************************)
(* The report job: nothing for a completed run; it waits for open rows;    *)
(* else finalizeWeeklyPushRun with the counts just taken.                  *)
(***************************************************************************)
ReportCheck ==
  /\ wake.pc = "check"
  /\ Go(IF run.completed THEN "done" ELSE "count")
  /\ UNCHANGED <<ledger, job, admin, upsets>>

WaitsForRows(c) == c.open > 0

ReportCount ==
  LET c == Counts(row) IN
  /\ wake.pc = "count"
  /\ IF WaitsForRows(c) THEN Go("again")
     ELSE wake' = [wake EXCEPT !.pc = "prepare", !.counts = c]
  /\ UNCHANGED <<ledger, job, admin, upsets>>

Prepare ==
  /\ wake.pc = "prepare"
  /\ run' = Preparing(run)
  /\ Go("store")
  /\ UNCHANGED <<row, due, tries, job, admin, upsets>>

StoreReport ==
  /\ wake.pc = "store"
  /\ run' = Reported(run)
  /\ Go("finish")
  /\ UNCHANGED <<row, due, tries, job, admin, upsets>>

Finish ==
  /\ wake.pc = "finish"
  /\ run' = Finished(run, wake.counts)
  /\ Go("done")
  /\ UNCHANGED <<row, due, tries, job, admin, upsets>>

Catch ==
  /\ wake.pc \in {"store", "finish"} /\ upsets < MaxUpsets /\ Room
  /\ upsets' = upsets + 1
  /\ \E s \in {"failed", "unknown"} :
       /\ s = "unknown" => wake.pc = "finish"
       /\ run' = NotFinished(run, s)
  /\ Go("failed")
  /\ UNCHANGED <<row, due, tries, job, admin>>

-----------------------------------------------------------------------------
(***************************************************************************)
(* After the first drain: a run nextUnfinishedRun finds gets its parent    *)
(* and its report job, once each, in two statements.                       *)
(***************************************************************************)
Unfinished == ~run.completed /\ run.status \in {"queued", "sending", "unknown", "failed"}

DrainEnds ==
  /\ wake.phase = "drain" /\ Idle /\ NothingReady
  /\ wake' = [wake EXCEPT !.phase = "plan"]
  /\ UNCHANGED <<ledger, job, admin, upsets>>

PlanResume ==
  /\ wake.phase = "plan"
  /\ job' = IF Unfinished THEN SendOnce(job, {Resume}) ELSE job
  /\ wake' = [wake EXCEPT !.phase = IF Unfinished THEN "planned" ELSE "redrain"]
  /\ UNCHANGED <<ledger, admin, upsets>>

PlanReport ==
  /\ wake.phase = "planned"
  /\ job' = SendOnce(job, {Report})
  /\ wake' = [wake EXCEPT !.phase = "redrain"]
  /\ UNCHANGED <<ledger, admin, upsets>>

\* The second drain has found nothing more either.
WakeEnd ==
  /\ wake.phase = "redrain" /\ Idle /\ NothingReady
  /\ wake' = Off
  /\ UNCHANGED <<ledger, job, admin, upsets>>

-----------------------------------------------------------------------------
\* The wake stops anywhere, its session with it; a job it had stays active.
Crash ==
  /\ wake.phase # "off" /\ upsets < MaxUpsets /\ Room
  /\ upsets' = upsets + 1
  /\ wake' = Off
  /\ UNCHANGED <<ledger, job, admin>>

\* A step throws, between two of its statements.
Throw ==
  /\ wake.pc \in {"fanout", "read", "claim", "sending", "check", "count", "prepare"}
  /\ upsets < MaxUpsets /\ Room
  /\ upsets' = upsets + 1
  /\ Go("failed")
  /\ UNCHANGED <<ledger, job, admin>>

\* The time is up: a fan-out or a recipient that has not begun continues later,
\* between two steps the wake ends.
OutOfTime ==
  /\ \/ wake.pc \in {"fanout", "read", "claim"}
     \/ wake.phase # "off" /\ wake.pc = "idle"
  /\ upsets < MaxUpsets /\ Room
  /\ upsets' = upsets + 1
  /\ IF wake.pc = "idle" THEN wake' = Off ELSE Go("again")
  /\ UNCHANGED <<ledger, job, admin>>

CancelCheck ==
  /\ Room /\ cancelling = "no" /\ cancels < MaxCancels
  /\ cancelling' = "rows" /\ cancels' = cancels + 1
  /\ run.status \notin {"success", "partial_success", "failed", "cancelled"}
  /\ UNCHANGED <<ledger, job, wake, recovering, recoveries, retries, upsets>>

CancelRows ==
  /\ cancelling = "rows" /\ cancelling' = "run"
  /\ row' = [r \in Rows |-> IF row[r] \in {"pending", "retry_wait"} THEN "cancelled" ELSE row[r]]
  /\ UNCHANGED <<run, due, tries, job, wake, recovering, cancels, recoveries, retries, upsets>>

CancelRun ==
  /\ cancelling = "run" /\ cancelling' = "no"
  /\ run' = [run EXCEPT !.status = "cancelled", !.completed = TRUE]
  /\ UNCHANGED <<row, due, tries, job, wake, recovering, cancels, recoveries, retries, upsets>>

\* retryFailed: each row gets a job of its own; completedAt stays as it is.
RetryFailed ==
  LET failed == {r \in Rows : row[r] = "failed"} IN
  /\ Room /\ retries < MaxRetries /\ failed # {}
  /\ row' = [r \in Rows |-> IF r \in failed THEN "pending" ELSE row[r]]
  /\ due' = [r \in Rows |-> IF r \in failed THEN TRUE ELSE due[r]]
  /\ run' = [run EXCEPT !.status = "sending"]
  /\ job' = [j \in JobIds |-> IF j \in {Manual(r) : r \in failed} THEN NewJob(j) ELSE job[j]]
  /\ retries' = retries + 1
  /\ UNCHANGED <<tries, wake, cancelling, recovering, cancels, recoveries, upsets>>

\* enqueueSavedRunRecovery: refused for a completed run, by a read made before
\* the transaction in which failed jobs start over.
RecoverCheck ==
  /\ Room /\ recoveries < MaxRecoveries /\ ~recovering /\ ~run.completed
  /\ recovering' = TRUE /\ recoveries' = recoveries + 1
  /\ UNCHANGED <<ledger, job, wake, cancelling, cancels, retries, upsets>>

Recover ==
  /\ recovering /\ recovering' = FALSE
  /\ job' = SendOnce([j \in JobIds |->
              IF job[j].state = "failed"
              THEN [job[j] EXCEPT !.state = "ready", !.left = Attempts(j)]
              ELSE job[j]], {Resume, Report})
  /\ UNCHANGED <<ledger, wake, cancelling, cancels, recoveries, retries, upsets>>

BecomesDue(r) ==
  /\ ~due[r] /\ row[r] \in {"processing", "retry_wait", "unknown_retry"}
  /\ due' = [due EXCEPT ![r] = TRUE]
  /\ UNCHANGED <<run, row, tries, job, wake, admin, upsets>>

\* The clock of a job: its start_after has come, or its expireInSeconds have
\* passed since a wake that is gone took it.
JobClock(j) ==
  /\ \/ /\ job[j].state = "retry"
        /\ job' = [job EXCEPT ![j].state = "ready"]
     \/ /\ job[j].state = "active" /\ wake.job # j
        /\ job' = [job EXCEPT ![j].state = "overdue"]
  /\ UNCHANGED <<ledger, wake, admin, upsets>>

-----------------------------------------------------------------------------
Step ==
  \/ Acknowledge \/ FanOut
  \/ ReadRow \/ Claim \/ Unclaimed \/ Complete
  \/ ReportCheck \/ ReportCount \/ Prepare \/ StoreReport \/ Finish
Waking ==
  \/ WakeStart \/ DrainEnds \/ PlanResume \/ PlanReport \/ WakeEnd
  \/ \E j \in JobIds : Fetch(j)

Next ==
  \/ Step \/ Waking
  \/ \E j \in JobIds : JobClock(j)
  \/ \E r \in Rows : BecomesDue(r)
  \/ Catch \/ Crash \/ Throw \/ OutOfTime
  \/ CancelCheck \/ CancelRows \/ CancelRun
  \/ RetryFailed \/ RecoverCheck \/ Recover

Spec == Init /\ [][Next]_vars

\* The scheduler keeps calling, a wake goes on with what it has begun, the clock
\* goes on. Nobody has to cancel, retry or recover.
FairSpec ==
  /\ Spec
  /\ WF_vars(Step \/ Waking) /\ WF_vars(CancelRows \/ CancelRun)
  /\ \A j \in JobIds : WF_vars(JobClock(j))
  /\ \A r \in Rows : WF_vars(BecomesDue(r))

-----------------------------------------------------------------------------
(***************************************************************************)
(* Properties                                                              *)
(***************************************************************************)
\* A recipient still to be delivered is on somebody's list: a job of its own, or
\* the run's first job that has not come to it yet, whatever wakes were cut short
\* and whoever cancels, retries or recovers. Jobs that used up their attempts
\* count: the planning or an administrator takes them up.
Listed(j) == job[j].state \notin {"none", "completed"}
NoRecipientForgotten ==
  \A r \in Rows : Retryable(row[r]) =>
    Listed(Rcpt(r)) \/ Listed(Manual(r)) \/ (Listed(First) /\ job[First].cursor < r)

\* To those who look at it, the run does only what SavedRun promises: no row is
\* settled but by the attempt that took it up, a final status is true of the rows when
\* it is written, and the report is there.
Promise == INSTANCE SavedRun
ImplementsSavedRun == Promise!RunSpec

\* A run says success only if LINE accepted every recipient, although retryFailed
\* and cancel act on the rows while the report job is at work.
SuccessMeansAccepted ==
  run.status = "success" => \A r \in Rows : row[r] = "accepted"

\* A run that is completed under a final status has its report.
FinishedHasReport == run.completed /\ run.status \in Ended => run.report

\* A completed identity is never used again: no recovery, planning or parent
\* repeats a job that has done its work.
CompletedJobsStay ==
  [][\A j \in JobIds : job[j].state = "completed" => job'[j].state = "completed"]_vars

\* The run ends: completedAt is set for good, and the rows are settled unless the
\* run was cancelled, whatever was cut short, cancelled or recovered. (A run retried
\* by hand is SendingEnds.)
EventuallyFinished ==
  <>(retries > 0) \/ <>[](run.completed /\ (OpenRows(row) = {} \/ run.status = "cancelled"))

\* A run that is sending, also one that was retried by hand, stops sending.
SendingEnds == run.status = "sending" ~> run.status # "sending"
=============================================================================
