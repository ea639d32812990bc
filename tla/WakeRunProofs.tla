--------------------------- MODULE WakeRunProofs ---------------------------
(***************************************************************************)
(* What holds of a run under the external wake for any number of           *)
(* recipients, chunk size, attempts, wakes, crashes, cancellations and     *)
(* recoveries, and one retry by hand.                                      *)
(*                                                                         *)
(* One wake at a time works, so the job it has is active and nobody else   *)
(* completes it (Shape). A once-only recipient job that is used up leaves  *)
(* its row settled, or reopened with a job of its own (DoneRow, UsedUp).   *)
(***************************************************************************)
EXTENDS WakeRun, RunLedgerProofs

Finalizing == {"prepare", "store", "finish"}
Live == {"ready", "later", "retry", "active", "overdue"}

\* The wake has the active job it works on, of the kind its step belongs to.
Shape ==
  /\ wake.phase \notin {"drain", "redrain"} => wake.pc = "idle"
  /\ wake.pc # "idle" => wake.job \in JobIds /\ job[wake.job].state = "active"
  /\ wake.pc = "fanout" => wake.job \in Parents
  /\ wake.pc \in {"read", "claim", "sending"} => wake.job \in RowJobs
  /\ wake.pc \in {"check", "count"} \cup Finalizing => wake.job = Report
  /\ wake.pc = "done" => wake.job \notin Parents

\* A job that will still be tried has an attempt left.
Attempting == \A j \in JobIds : job[j].state \in Live => job[j].left > 0

\* The jobs of a retry by hand do not exist before it.
Unretried == retries = 0 => \A r \in Rows : job[Manual(r)].state = "none"

Typed == TypeOK /\ Shape /\ Attempting /\ Unretried

-----------------------------------------------------------------------------
\* The identities of the jobs are all different.
LEMMA JobNames ==
  /\ First \in JobIds /\ Resume \in JobIds /\ Report \in JobIds /\ NoJob \notin JobIds
  /\ Parents \subseteq JobIds /\ RowJobs \subseteq JobIds
  /\ Report \notin Parents /\ Report \notin RowJobs /\ Parents \cap RowJobs = {}
  /\ \A r \in Rows : Rcpt(r) \in RowJobs /\ Manual(r) \in RowJobs /\ Rcpt(r)[2] = r
                     /\ Manual(r)[2] = r /\ Rcpt(r)[1] = "rcpt" /\ Manual(r)[1] = "manual"
  /\ \A r, q \in Rows : Rcpt(r) # Manual(q)
  /\ \A j \in RowJobs : j[2] \in Rows /\ (j = Rcpt(j[2]) \/ j = Manual(j[2]))
BY DEF First, Resume, Report, Rcpt, Manual, Parents, RowJobs, JobIds, NoJob

\* Every job starts with at least one attempt.
LEMMA AttemptsPositive == \A j : Attempts(j) \in Nat /\ Attempts(j) > 0
BY WakeRunAssumption DEF Attempts

\* A job, new or sent once, is well typed and has attempts left.
JobOK(x, j) == x \in Job /\ x.left \in 0 .. Attempts(j) /\ (x.state \in Live => x.left > 0)

LEMMA NewJobOK == \A j : JobOK(NewJob(j), j) /\ NewJob(j).state = "ready" /\ NewJob(j).cursor = 0
<1> SUFFICES ASSUME NEW j PROVE JobOK(NewJob(j), j) /\ NewJob(j).state = "ready" /\ NewJob(j).cursor = 0
  OBVIOUS
<1>1. Attempts(j) \in Nat /\ Attempts(j) > 0 BY AttemptsPositive
<1> QED BY <1>1 DEF NewJob, Job, JobOK

\* sendOnce leaves used identities alone.
LEMMA SendOnceEach ==
  ASSUME NEW jobs \in [JobIds -> Job], NEW S
  PROVE  LET sent == SendOnce(jobs, S) IN
         /\ sent \in [JobIds -> Job]
         /\ \A j \in JobIds : sent[j] = IF j \in S /\ jobs[j].state = "none"
                                        THEN NewJob(j) ELSE jobs[j]
         /\ (\A j \in JobIds : JobOK(jobs[j], j)) => \A j \in JobIds : JobOK(sent[j], j)
BY NewJobOK DEF SendOnce, JobOK

\* A failed attempt is one attempt less, and is retried only if one is left.
LEMMA FailedAttempt ==
  ASSUME NEW j, NEW x, JobOK(x, j), x.left > 0, NEW wait \in {"later", "retry"}
  PROVE  LET y == AttemptFailed(x, wait) IN
         JobOK(y, j) /\ y.state \in {wait, "failed"} /\ y.cursor = x.cursor
<1>1. Attempts(j) \in Nat BY AttemptsPositive
<1>2. x.left \in Nat /\ x \in Job BY DEF JobOK, Job
<1>3. PICK s \in {wait, "failed"} : /\ AttemptFailed(x, wait) = [x EXCEPT !.state = s, !.left = x.left - 1]
                                    /\ s = wait => x.left > 1
  BY DEF AttemptFailed
<1> DEFINE y == [x EXCEPT !.state = s, !.left = x.left - 1]
<1>4. x.left - 1 \in Nat BY <1>2
<1>5. y \in Job /\ y.state = s /\ y.left = x.left - 1 /\ y.cursor = x.cursor BY <1>2, <1>4 DEF Job
<1>6. x.left - 1 \in 0 .. Attempts(j) BY <1>1, <1>2 DEF JobOK
<1>7. s \in Live => x.left - 1 > 0 BY <1>2, <1>3 DEF Live
<1> QED BY <1>3, <1>5, <1>6, <1>7 DEF JobOK

\* Steps of the wake that only move on keep it well typed.
LEMMA OffType ==
  \A p \in {"off", "drain", "plan", "planned", "redrain"} :
    LET w == [Off EXCEPT !.phase = p] IN
    w \in Wake /\ w.phase = p /\ w.pc = "idle" /\ w.job = NoJob
<1>1. NoCounts \in Tally BY NoCountsTyped, WakeRunAssumption
<1> QED BY <1>1 DEF Off, Wake

JobsOK == job \in [JobIds -> Job] /\ \A j \in JobIds : JobOK(job[j], j)

LEMMA JobsTyped == TypeOK /\ Attempting => JobsOK
BY DEF TypeOK, Attempting, JobsOK, JobOK

LEMMA InitTyped == Init => Typed
<1> SUFFICES ASSUME Init PROVE Typed OBVIOUS
<1> USE WakeRunAssumption
<1>1. JobOK(Absent, NoJob) /\ Absent \in Job /\ \A j : Absent.left \in 0 .. Attempts(j)
  BY AttemptsPositive DEF Absent, Job, JobOK, Live
<1>2. job \in [JobIds -> Job] BY <1>1, NewJobOK DEF Init, JobOK
<1>3. \A j \in JobIds : job[j].left \in 0 .. Attempts(j) /\ (job[j].state \in Live => job[j].left > 0)
  BY <1>1, NewJobOK DEF Init, JobOK, Absent, Live
<1>4. wake \in Wake /\ wake.pc = "idle" /\ wake.phase = "off"
  <2>1. NoCounts \in Tally BY NoCountsTyped
  <2> QED BY <2>1 DEF Init, Off, Wake
<1>5. TypeOK
  <2>1. run \in Run /\ row \in [Rows -> RowStatuses]
    BY DEF Init, NewRun, Run, RunStatuses, RowStatuses
  <2>2. due \in [Rows -> BOOLEAN] BY DEF Init
  <2>3. tries \in [Rows -> 0 .. MaxTries + 1] BY DEF Init
  <2>4. upsets \in 0 .. MaxUpsets /\ cancels \in 0 .. MaxCancels
        /\ recoveries \in 0 .. MaxRecoveries /\ retries \in 0 .. MaxRetries
    BY DEF Init
  <2>5. cancelling \in {"no", "rows", "run"} /\ recovering \in BOOLEAN BY DEF Init
  <2> QED BY <1>2, <1>3, <1>4, <2>1, <2>2, <2>3, <2>4, <2>5 DEF TypeOK
<1>6. Shape BY <1>4 DEF Shape, Finalizing
<1>7. Unretried
  BY JobNames DEF Init, Unretried, First, Manual, Absent
<1> QED BY <1>3, <1>5, <1>6, <1>7 DEF Typed, Attempting

-----------------------------------------------------------------------------
\* A step of the wake that goes on to another one, the jobs unchanged.
LEMMA GoOn ==
  ASSUME Typed, UNCHANGED <<job, retries>>, wake' \in Wake,
         wake'.phase = wake.phase, wake'.job = wake.job, wake.pc # "idle",
         \/ wake'.pc \in {"again", "failed"}
         \/ wake'.pc = "claim" /\ wake.pc = "read"
         \/ wake'.pc = "sending" /\ wake.pc = "claim"
         \/ wake'.pc = "done" /\ wake.pc \notin {"fanout", "done", "again", "failed"}
         \/ wake'.pc \in {"count"} \cup Finalizing /\ wake.pc \in {"check", "count"} \cup Finalizing
  PROVE  Shape' /\ Attempting' /\ Unretried'
<1>1. wake.phase \in {"drain", "redrain"} BY DEF Typed, Shape
<1>2. wake.job \in JobIds /\ job[wake.job].state = "active" BY DEF Typed, Shape
<1>3. wake'.pc = "done" => wake.job \notin Parents
  BY JobNames DEF Typed, Shape, TypeOK, Wake, Finalizing
<1>4. Shape' BY <1>1, <1>2, <1>3 DEF Typed, Shape, Finalizing
<1> QED BY <1>4 DEF Typed, Attempting, Unretried

LEMMA GoType ==
  ASSUME wake \in Wake, NEW pc, Go(pc),
         pc \in {"claim", "sending", "count", "prepare", "store", "finish", "done", "again", "failed"}
  PROVE  /\ wake' \in Wake /\ wake'.pc = pc /\ wake'.job = wake.job
         /\ wake'.phase = wake.phase /\ wake'.counts = wake.counts
BY DEF Go, Wake

\* A step after which the wake has no job, and changed no job but its own.
LEMMA ToIdle ==
  ASSUME wake' \in Wake, wake'.pc = "idle" PROVE Shape'
BY DEF Shape, Finalizing

\* Typing of the variables, action by action.
LEMMA DeliveryTyped ==
  ASSUME Typed, ReadRow \/ Claim \/ Unclaimed \/ Complete PROVE Typed'
<1> USE WakeRunAssumption
<1>0. wake \in Wake BY DEF Typed, TypeOK
<1>1. CASE ReadRow
  <2>1. PICK pc \in {"done", "again", "claim"} : Go(pc)
    BY <1>1 DEF ReadRow
  <2>2. UNCHANGED <<ledger, job, admin, upsets>> /\ wake.pc = "read" BY <1>1 DEF ReadRow
  <2>3. Shape' /\ Attempting' /\ Unretried' BY <1>0, <2>1, <2>2, GoType, GoOn DEF admin
  <2> QED BY <1>0, <2>1, <2>2, <2>3, GoType DEF Typed, TypeOK, ledger, admin
<1>2. CASE Claim
  <2>1. Go("sending") /\ wake.pc = "claim" /\ UNCHANGED <<run, job, admin, upsets>>
    BY <1>2 DEF Claim
  <2>2. Shape' /\ Attempting' /\ Unretried' BY <1>0, <2>1, GoType, GoOn DEF admin
  <2>3. row' \in [Rows -> RowStatuses] BY <1>2 DEF Claim, Typed, TypeOK, RowStatuses
  <2>4. due' \in [Rows -> BOOLEAN] BY <1>2 DEF Claim, Typed, TypeOK
  <2>5. tries' \in [Rows -> 0 .. MaxTries + 1]
    <3>1. tries \in [Rows -> 0 .. MaxTries + 1] BY DEF Typed, TypeOK
    <3>2. \A n \in 0 .. MaxTries + 1 : (IF n > MaxTries THEN n ELSE n + 1) \in 0 .. MaxTries + 1
      OBVIOUS
    <3>3. tries' = [tries EXCEPT ![WakeRow] = IF @ > MaxTries THEN @ ELSE @ + 1] BY <1>2 DEF Claim
    <3> QED BY <3>1, <3>2, <3>3
  <2> QED BY <1>0, <2>1, <2>2, <2>3, <2>4, <2>5, GoType DEF Typed, TypeOK, admin
<1>3. CASE Unclaimed
  <2>1. PICK pc \in {"done", "again"} : Go(pc)
    BY <1>3 DEF Unclaimed
  <2>2. UNCHANGED <<ledger, job, admin, upsets>> /\ wake.pc = "claim" BY <1>3 DEF Unclaimed
  <2>3. Shape' /\ Attempting' /\ Unretried' BY <1>0, <2>1, <2>2, GoType, GoOn DEF admin
  <2> QED BY <1>0, <2>1, <2>2, <2>3, GoType DEF Typed, TypeOK, ledger, admin
<1>4. CASE Complete
  <2>1. PICK s \in Answers(WakeRow) : /\ row' = [row EXCEPT ![WakeRow] = s]
                                      /\ Go(IF ComesBack(s) THEN "again" ELSE "done")
    BY <1>4 DEF Complete
  <2>2. PICK pc \in {"done", "again"} : Go(pc) BY <2>1
  <2>3. UNCHANGED <<run, tries, job, admin, upsets>> /\ wake.pc = "sending" BY <1>4 DEF Complete
  <2>4. Shape' /\ Attempting' /\ Unretried' BY <1>0, <2>2, <2>3, GoType, GoOn DEF admin
  <2>5. s \in RowStatuses BY DEF Answers, RowStatuses
  <2>6. row' \in [Rows -> RowStatuses] BY <2>1, <2>5 DEF Typed, TypeOK
  <2>7. due' \in [Rows -> BOOLEAN] BY <1>4 DEF Complete, Typed, TypeOK
  <2> QED BY <1>0, <2>2, <2>3, <2>4, <2>6, <2>7, GoType DEF Typed, TypeOK, admin
<1> QED BY <1>1, <1>2, <1>3, <1>4

LEMMA ReportTyped ==
  ASSUME Typed, ReportCheck \/ ReportCount \/ Prepare \/ StoreReport \/ Finish \/ Catch
  PROVE  Typed'
<1> USE WakeRunAssumption
<1>0. wake \in Wake /\ run \in Run BY DEF Typed, TypeOK
<1>1. CASE ReportCheck
  <2>1. PICK pc \in {"done", "count"} : Go(pc) BY <1>1 DEF ReportCheck
  <2>2. UNCHANGED <<ledger, job, admin, upsets>> /\ wake.pc = "check" BY <1>1 DEF ReportCheck
  <2>3. Shape' /\ Attempting' /\ Unretried' BY <1>0, <2>1, <2>2, GoType, GoOn DEF admin
  <2> QED BY <1>0, <2>1, <2>2, <2>3, GoType DEF Typed, TypeOK, ledger, admin
<1>2. CASE ReportCount
  <2>1. UNCHANGED <<ledger, job, admin, upsets>> /\ wake.pc = "count" BY <1>2 DEF ReportCount
  <2>2. Counts(row) \in Tally BY CountsOfRows DEF Typed, TypeOK
  <2>3. /\ wake' \in Wake /\ wake'.phase = wake.phase /\ wake'.job = wake.job
        /\ wake'.pc \in {"again", "prepare"}
    BY <1>0, <1>2, <2>2 DEF ReportCount, Go, Wake
  <2>4. Shape' /\ Attempting' /\ Unretried' BY <2>1, <2>3, GoOn DEF admin, Finalizing
  <2> QED BY <2>1, <2>3, <2>4 DEF Typed, TypeOK, ledger, admin
<1>3. ASSUME NEW q \in Run, NEW pc \in {"store", "finish", "done", "failed"}, run' = q, Go(pc),
             wake.pc \in Finalizing, upsets' \in 0 .. MaxUpsets,
             UNCHANGED <<row, due, tries, job, admin>>
      PROVE  Typed'
  <2>1. Shape' /\ Attempting' /\ Unretried'
    BY <1>0, <1>3, GoType, GoOn DEF admin, Finalizing
  <2> QED BY <1>0, <1>3, <2>1, GoType DEF Typed, TypeOK, admin
<1>4. upsets \in 0 .. MaxUpsets BY DEF Typed, TypeOK
<1>5. CASE Prepare
  <2>1. Preparing(run) \in Run BY <1>0 DEF Preparing, Run, RunStatuses
  <2> QED BY <1>3, <1>4, <1>5, <2>1 DEF Prepare, Finalizing
<1>6. CASE StoreReport
  <2>1. Reported(run) \in Run BY <1>0 DEF Reported, Run
  <2> QED BY <1>3, <1>4, <1>6, <2>1 DEF StoreReport, Finalizing
<1>7. CASE Finish
  <2>1. Finished(run, wake.counts) \in Run
    BY <1>0, OutcomeEnds DEF Finished, Run, RunStatuses, Ended
  <2> QED BY <1>3, <1>4, <1>7, <2>1 DEF Finish, Finalizing
<1>8. CASE Catch
  <2>1. PICK s \in {"failed", "unknown"} : run' = NotFinished(run, s) BY <1>8 DEF Catch
  <2>2. NotFinished(run, s) \in Run BY <1>0 DEF NotFinished, Run, RunStatuses
  <2>3. upsets' \in 0 .. MaxUpsets BY <1>4, <1>8 DEF Catch
  <2> QED BY <1>3, <1>8, <2>1, <2>2, <2>3 DEF Catch, Finalizing
<1> QED BY <1>1, <1>2, <1>5, <1>6, <1>7, <1>8

\* What is left to show of a step that only concerns the queue.
LEMMA QueueStep ==
  ASSUME Typed, UNCHANGED <<ledger, admin>>, JobsOK', wake' \in Wake, Shape',
         upsets' \in 0 .. MaxUpsets,
         \A r \in Rows : job[Manual(r)].state = "none" => job'[Manual(r)].state = "none"
  PROVE  Typed'
<1>1. Attempting' /\ (\A j \in JobIds : job'[j].left \in 0 .. Attempts(j)) /\ job' \in [JobIds -> Job]
  BY DEF JobsOK, JobOK, Attempting
<1>2. Unretried' BY DEF Typed, Unretried, admin
<1> QED BY <1>1, <1>2 DEF Typed, TypeOK, ledger, admin

LEMMA QueueTyped ==
  ASSUME Typed,
         \/ WakeStart \/ (\E j \in JobIds : Fetch(j) \/ JobClock(j)) \/ Acknowledge \/ FanOut
  PROVE  Typed'
<1>0. wake \in Wake /\ upsets \in 0 .. MaxUpsets /\ job \in [JobIds -> Job] BY DEF Typed, TypeOK
<1>j. \A j \in JobIds : JobOK(job[j], j) BY JobsTyped DEF Typed, JobsOK
<1>m. \A r \in Rows : Manual(r) \in JobIds BY JobNames
<1>1. CASE WakeStart
  <2>1. wake' \in Wake /\ wake'.pc = "idle" BY <1>1, OffType DEF WakeStart
  <2>2. ASSUME NEW j \in JobIds
        PROVE  JobOK(job'[j], j) /\ (job[j].state = "none" => job'[j].state = "none")
    <3>1. CASE job[j].state = "overdue"
      <4>1. job[j].left > 0 BY <1>j, <3>1 DEF JobOK, Live
      <4>2. job'[j] = AttemptFailed(job[j], "retry") BY <1>1, <3>1 DEF WakeStart
      <4> QED BY <1>j, <3>1, <4>1, <4>2, FailedAttempt
    <3>2. CASE job[j].state = "later"
      <4>1. job'[j] = [job[j] EXCEPT !.state = "retry"] BY <1>1, <3>2 DEF WakeStart
      <4> QED BY <1>j, <3>2, <4>1 DEF JobOK, Job, Live
    <3>3. CASE job[j].state \notin {"overdue", "later"}
      <4>1. job'[j] = job[j] BY <1>1, <3>3 DEF WakeStart
      <4> QED BY <1>j, <4>1
    <3> QED BY <3>1, <3>2, <3>3
  <2>3. JobsOK' BY <1>1, <2>2 DEF WakeStart, JobsOK, JobOK
  <2> QED BY <1>0, <1>1, <1>m, <2>1, <2>2, <2>3, ToIdle, QueueStep DEF WakeStart
<1>2. ASSUME NEW j \in JobIds, Fetch(j) PROVE Typed'
  <2> DEFINE x == [job[j] EXCEPT !.state = "active"]
  <2>1. job' = [job EXCEPT ![j] = x] /\ job[j].state = "ready" BY <1>0, <1>2 DEF Fetch
  <2>2. JobOK(x, j) /\ x.state = "active" BY <1>j, <2>1 DEF JobOK, Job, Live
  <2>3. JobsOK' BY <1>0, <1>j, <2>1, <2>2 DEF JobsOK, JobOK
  <2>4. PICK pc \in {"fanout", "check", "read"} :
          /\ wake' = [wake EXCEPT !.job = j, !.pc = pc]
          /\ pc = "fanout" => j \in Parents
          /\ pc = "check" => j = Report
          /\ pc = "read" => j \notin Parents /\ j # Report
    BY <1>2 DEF Fetch
  <2>5. wake' \in Wake /\ wake'.job = j /\ wake'.pc = pc /\ wake'.phase = wake.phase
    BY <1>0, <2>4 DEF Wake
  <2>6. wake.phase \in {"drain", "redrain"} BY <1>2 DEF Fetch, Idle
  <2>7. pc = "read" => j \in RowJobs BY <2>4 DEF JobIds
  <2>8. job'[j].state = "active" BY <1>0, <2>1, <2>2
  <2>9. Shape' BY <2>4, <2>5, <2>6, <2>7, <2>8 DEF Shape, Finalizing
  <2>10. \A r \in Rows : job[Manual(r)].state = "none" => job'[Manual(r)].state = "none"
    BY <1>0, <1>m, <2>1
  <2> QED BY <1>0, <1>2, <2>3, <2>5, <2>9, <2>10, QueueStep DEF Fetch
<1>3. ASSUME NEW j \in JobIds, JobClock(j) PROVE Typed'
  <2>1. PICK s \in {"ready", "overdue"} :
          /\ job' = [job EXCEPT ![j].state = s]
          /\ job[j].state \in {"retry", "active"}
          /\ job[j].state = "active" => wake.job # j
    BY <1>3 DEF JobClock
  <2> DEFINE x == [job[j] EXCEPT !.state = s]
  <2>2. job' = [job EXCEPT ![j] = x] BY <1>0, <2>1
  <2>3. JobOK(x, j) BY <1>j, <2>1 DEF JobOK, Job, Live
  <2>4. JobsOK' BY <1>0, <1>j, <2>2, <2>3 DEF JobsOK, JobOK
  <2>5. UNCHANGED <<ledger, wake, admin, upsets>> BY <1>3 DEF JobClock
  <2>6. wake.pc # "idle" => job'[wake.job] = job[wake.job]
    BY <1>0, <2>1, <2>2 DEF Typed, Shape
  <2>7. Shape' BY <2>5, <2>6 DEF Typed, Shape, Finalizing
  <2>8. \A r \in Rows : job[Manual(r)].state = "none" => job'[Manual(r)].state = "none"
    BY <1>0, <1>m, <2>1, <2>2
  <2> QED BY <1>0, <2>4, <2>5, <2>7, <2>8, QueueStep
<1>4. CASE Acknowledge
  <2> DEFINE j == wake.job
  <2>0. j \in JobIds /\ job[j].state = "active" BY <1>4 DEF Acknowledge, Typed, Shape
  <2>a. job[j].left > 0 BY <1>j, <2>0 DEF JobOK, Live
  <2>1. PICK x : /\ job' = [job EXCEPT ![j] = x]
                 /\ \/ x = [job[j] EXCEPT !.state = "completed"]
                    \/ x = [job[j] EXCEPT !.state = "ready"]
                    \/ x = [job[j] EXCEPT !.state = "later"]
                    \/ x = AttemptFailed(job[j], "later")
    BY <1>0, <1>4, <2>0 DEF Acknowledge
  <2>2. JobOK(x, j)
    BY <1>j, <2>0, <2>a, <2>1, FailedAttempt DEF JobOK, Job, Live
  <2>3. JobsOK' BY <1>0, <1>j, <2>1, <2>2 DEF JobsOK, JobOK
  <2>4. wake' \in Wake /\ wake'.pc = "idle" BY <1>0, <1>4, OffType DEF Acknowledge, Wake
  <2>5. \A r \in Rows : job[Manual(r)].state = "none" => job'[Manual(r)].state = "none"
    BY <1>0, <1>m, <2>0, <2>1
  <2> QED BY <1>0, <1>4, <2>3, <2>4, <2>5, ToIdle, QueueStep DEF Acknowledge
<1>5. CASE FanOut
  <2> DEFINE p == wake.job
  <2>0. p \in Parents /\ p \in JobIds /\ job[p].state = "active" BY <1>5 DEF FanOut, Typed, Shape
  <2>1. PICK last \in Ends(job[p].cursor), S \in SUBSET JobIds :
          /\ \A r \in Rows : Manual(r) \notin S
          /\ LET sent == SendOnce(job, S) IN
               job' = IF AllVisited(last)
                      THEN [sent EXCEPT ![p].state = "completed", ![p].cursor = 0]
                      ELSE [sent EXCEPT ![p].state = "ready", ![p].cursor = last]
    <3>1. PICK last \in Ends(job[p].cursor) :
            LET open == {Rcpt(r) : r \in {x \in UpTo(last, job[p].cursor) : Retryable(row[x])}}
                sent == SendOnce(job, open \cup IF AllVisited(last) THEN {Report} ELSE {})
            IN job' = IF AllVisited(last)
                      THEN [sent EXCEPT ![p].state = "completed", ![p].cursor = 0]
                      ELSE [sent EXCEPT ![p].state = "ready", ![p].cursor = last]
      BY <1>5 DEF FanOut
    <3> DEFINE S == {Rcpt(r) : r \in {x \in UpTo(last, job[p].cursor) : Retryable(row[x])}}
                    \cup IF AllVisited(last) THEN {Report} ELSE {}
    <3>2. UpTo(last, job[p].cursor) \subseteq Rows BY DEF UpTo, After
    <3>3. S \subseteq JobIds /\ \A r \in Rows : Manual(r) \notin S BY <3>2, JobNames
    <3> QED BY <3>1, <3>3
  <2>2. last \in Nat
    <3>1. job[p].cursor \in Nat BY <1>0, <2>0 DEF Job
    <3> QED BY <3>1, WakeRunAssumption DEF Ends, After
  <2> DEFINE sent == SendOnce(job, S)
  <2>3. /\ sent \in [JobIds -> Job] /\ \A j \in JobIds : JobOK(sent[j], j)
        /\ sent[p] = job[p]
        /\ \A r \in Rows : sent[Manual(r)] = job[Manual(r)]
    BY <1>0, <1>j, <1>m, <2>0, <2>1, SendOnceEach
  <2>4. PICK s \in {"completed", "ready"}, c \in Nat :
          job' = [sent EXCEPT ![p].state = s, ![p].cursor = c]
    BY <2>1, <2>2
  <2> DEFINE x == [job[p] EXCEPT !.state = s, !.cursor = c]
  <2>5. job' = [sent EXCEPT ![p] = x] BY <2>3, <2>4 DEF Job
  <2>6. JobOK(x, p) BY <1>j, <2>0 DEF JobOK, Job, Live
  <2>7. JobsOK' BY <2>0, <2>3, <2>5, <2>6 DEF JobsOK, JobOK
  <2>8. wake' \in Wake /\ wake'.pc = "idle" BY <1>0, <1>5, OffType DEF FanOut, Wake
  <2>9. \A r \in Rows : job'[Manual(r)] = job[Manual(r)]
    BY <1>m, <2>0, <2>3, <2>5, JobNames
  <2> QED BY <1>0, <1>5, <2>7, <2>8, <2>9, ToIdle, QueueStep DEF FanOut
<1> QED BY <1>1, <1>2, <1>3, <1>4, <1>5

LEMMA PlanTyped ==
  ASSUME Typed,
         \/ DrainEnds \/ PlanResume \/ PlanReport \/ WakeEnd \/ Crash \/ Throw \/ OutOfTime
  PROVE  Typed'
<1> USE WakeRunAssumption
<1>0. wake \in Wake /\ upsets \in 0 .. MaxUpsets /\ job \in [JobIds -> Job] BY DEF Typed, TypeOK
<1>j. JobsOK BY JobsTyped DEF Typed
<1>m. \A r \in Rows : Manual(r) \in JobIds /\ Manual(r) \notin {Resume, Report}
  BY JobNames DEF Resume, Report, Manual
\* Between two jobs only the phase changes, and jobs may be sent once.
<1>1. ASSUME wake' \in Wake, wake'.pc = "idle", upsets' \in 0 .. MaxUpsets, UNCHANGED <<ledger, admin>>,
             job' = job \/ \E S \in SUBSET {Resume, Report} : job' = SendOnce(job, S)
      PROVE  Typed'
  <2>1. ASSUME NEW S \in SUBSET {Resume, Report}, job' = SendOnce(job, S)
        PROVE  JobsOK' /\ \A r \in Rows : job'[Manual(r)] = job[Manual(r)]
    BY <1>0, <1>j, <1>m, <2>1, SendOnceEach DEF JobsOK
  <2>2. JobsOK' /\ \A r \in Rows : job'[Manual(r)] = job[Manual(r)]
    BY <1>1, <1>j, <2>1 DEF JobsOK
  <2> QED BY <1>1, <2>2, ToIdle, QueueStep
<1>2. CASE DrainEnds
  <2>1. wake' \in Wake /\ wake'.pc = "idle" BY <1>0, <1>2 DEF DrainEnds, Idle, Wake
  <2> QED BY <1>0, <1>1, <1>2, <2>1 DEF DrainEnds
<1>3. CASE PlanResume
  <2>1. wake.pc = "idle" BY <1>3 DEF PlanResume, Typed, Shape
  <2>2. wake' \in Wake /\ wake'.pc = "idle" BY <1>0, <1>3, <2>1 DEF PlanResume, Wake
  <2> QED BY <1>0, <1>1, <1>3, <2>2 DEF PlanResume
<1>4. CASE PlanReport
  <2>1. wake.pc = "idle" BY <1>4 DEF PlanReport, Typed, Shape
  <2>2. wake' \in Wake /\ wake'.pc = "idle" BY <1>0, <1>4, <2>1 DEF PlanReport, Wake
  <2> QED BY <1>0, <1>1, <1>4, <2>2 DEF PlanReport
<1>5. Off \in Wake /\ Off.pc = "idle" BY NoCountsTyped DEF Off, Wake
<1>6. CASE WakeEnd BY <1>0, <1>1, <1>5, <1>6 DEF WakeEnd
<1>7. CASE Crash BY <1>0, <1>1, <1>5, <1>7 DEF Crash
<1>8. ASSUME wake.pc # "idle", Go("again") \/ Go("failed"), upsets' \in 0 .. MaxUpsets,
             UNCHANGED <<ledger, job, admin>>
      PROVE  Typed'
  <2>1. PICK pc \in {"again", "failed"} : Go(pc) BY <1>8
  <2>2. wake' \in Wake BY <1>0, <2>1, GoType
  <2>3. Shape' BY <1>0, <1>8, <2>1, GoType, GoOn DEF admin
  <2> QED BY <1>8, <1>j, <2>2, <2>3, QueueStep DEF JobsOK
<1>9. CASE Throw BY <1>0, <1>8, <1>9 DEF Throw
<1>10. CASE OutOfTime
  <2>1. CASE wake.pc = "idle" BY <1>0, <1>1, <1>5, <1>10, <2>1 DEF OutOfTime
  <2>2. CASE wake.pc # "idle" BY <1>0, <1>8, <1>10, <2>2 DEF OutOfTime
  <2> QED BY <2>1, <2>2
<1> QED BY <1>2, <1>3, <1>4, <1>6, <1>7, <1>9, <1>10

LEMMA AdminTyped ==
  ASSUME Typed,
         \/ CancelCheck \/ CancelRows \/ CancelRun \/ RetryFailed \/ RecoverCheck \/ Recover
         \/ \E r \in Rows : BecomesDue(r)
  PROVE  Typed'
<1> USE WakeRunAssumption
<1>0. job \in [JobIds -> Job] BY DEF Typed, TypeOK
<1>j. \A j \in JobIds : JobOK(job[j], j) BY JobsTyped DEF Typed, JobsOK
<1>m. \A r \in Rows : Manual(r) \in JobIds BY JobNames
<1>1. CASE CancelCheck
  <2>1. cancels' \in 0 .. MaxCancels BY <1>1 DEF CancelCheck, Typed, TypeOK
  <2> QED BY <1>1, <2>1 DEF CancelCheck, Typed, TypeOK, Shape, Attempting, Unretried, ledger
<1>2. CASE CancelRows
  <2>1. row' \in [Rows -> RowStatuses] BY <1>2 DEF CancelRows, Typed, TypeOK, RowStatuses
  <2> QED BY <1>2, <2>1 DEF CancelRows, Typed, TypeOK, Shape, Attempting, Unretried
<1>3. CASE CancelRun
  <2>1. run' \in Run BY <1>3 DEF CancelRun, Typed, TypeOK, Run, RunStatuses
  <2> QED BY <1>3, <2>1 DEF CancelRun, Typed, TypeOK, Shape, Attempting, Unretried
<1>4. CASE RetryFailed
  <2>1. row' \in [Rows -> RowStatuses] BY <1>4 DEF RetryFailed, Typed, TypeOK, RowStatuses
  <2>2. due' \in [Rows -> BOOLEAN] BY <1>4 DEF RetryFailed, Typed, TypeOK
  <2>3. run' \in Run BY <1>4 DEF RetryFailed, Typed, TypeOK, Run, RunStatuses
  <2>4. retries = 0 /\ retries' = 1 /\ retries' \in 0 .. MaxRetries
    BY <1>4 DEF RetryFailed, Typed, TypeOK
  <2>5. \A j \in JobIds : job'[j] = job[j] \/ (job'[j] = NewJob(j) /\ job[j].state = "none")
    BY <1>4, <2>4, <1>m DEF RetryFailed, Typed, Unretried
  <2>6. JobsOK'
    <3>1. job' \in [JobIds -> Job] BY <1>0, <1>4, NewJobOK DEF RetryFailed, JobOK
    <3> QED BY <1>j, <2>5, <3>1, NewJobOK DEF JobsOK
  <2>7. UNCHANGED <<tries, wake, cancelling, recovering, cancels, recoveries, upsets>>
    BY <1>4 DEF RetryFailed
  <2>8. wake.pc # "idle" => job'[wake.job].state = "active"
    BY <2>5 DEF Typed, Shape
  <2>9. Shape' BY <2>7, <2>8 DEF Typed, Shape, Finalizing
  <2>10. Attempting' /\ Unretried' /\ \A j \in JobIds : job'[j].left \in 0 .. Attempts(j)
    BY <2>4, <2>6 DEF Attempting, Unretried, JobsOK, JobOK
  <2> QED BY <2>1, <2>2, <2>3, <2>4, <2>6, <2>7, <2>9, <2>10 DEF Typed, TypeOK, JobsOK
<1>5. CASE RecoverCheck
  <2>1. recoveries' \in 0 .. MaxRecoveries BY <1>5 DEF RecoverCheck, Typed, TypeOK
  <2> QED BY <1>5, <2>1 DEF RecoverCheck, Typed, TypeOK, Shape, Attempting, Unretried, ledger
<1>6. CASE Recover
  <2>1. PICK jobs : /\ jobs = [j \in JobIds |->
                               IF job[j].state = "failed"
                               THEN [job[j] EXCEPT !.state = "ready", !.left = Attempts(j)]
                               ELSE job[j]]
                    /\ job' = SendOnce(jobs, {Resume, Report})
    BY <1>6 DEF Recover
  <2>2. ASSUME NEW j \in JobIds
        PROVE  JobOK(jobs[j], j) /\ (job[j].state # "failed" => jobs[j] = job[j])
    <3>1. Attempts(j) \in Nat /\ Attempts(j) > 0 BY AttemptsPositive
    <3>2. JobOK(job[j], j) /\ job[j] \in Job BY <1>j DEF JobOK
    <3>3. CASE job[j].state # "failed"
      <4>1. jobs[j] = job[j] BY <2>1, <3>3
      <4> QED BY <3>2, <4>1
    <3>4. CASE job[j].state = "failed"
      <4> DEFINE x == [job[j] EXCEPT !.state = "ready", !.left = Attempts(j)]
      <4>1. jobs[j] = x BY <2>1, <3>4
      <4>2. x \in Job /\ x.left = Attempts(j) BY <3>1, <3>2 DEF Job
      <4>3. JobOK(x, j) BY <3>1, <4>2 DEF JobOK
      <4> QED BY <3>4, <4>1, <4>3
    <3> QED BY <3>3, <3>4
  <2>3. jobs \in [JobIds -> Job] BY <2>1, <2>2 DEF JobOK
  <2>a. job' = SendOnce(jobs, {Resume, Report}) BY <2>1
  <2>4. JobsOK' BY <2>a, <2>2, <2>3, SendOnceEach DEF JobsOK
  <2>5. \A j \in JobIds : job[j].state # "failed" =>
          job'[j] = job[j] \/ (job[j].state = "none" /\ j \in {Resume, Report})
    <3>1. \A j \in JobIds : job'[j] = IF j \in {Resume, Report} /\ jobs[j].state = "none"
                                     THEN NewJob(j) ELSE jobs[j]
      BY <2>a, <2>3, SendOnceEach
    <3>2. \A j \in JobIds : job[j].state # "failed" => jobs[j] = job[j] BY <2>2
    <3> QED BY <3>1, <3>2
  <2>6. UNCHANGED <<ledger, wake, cancelling, cancels, recoveries, retries, upsets>> /\ recovering' = FALSE
    BY <1>6 DEF Recover
  <2>7. wake.pc # "idle" => job'[wake.job].state = "active"
    <3> SUFFICES ASSUME wake.pc # "idle" PROVE job'[wake.job].state = "active" OBVIOUS
    <3>1. wake.job \in JobIds /\ job[wake.job].state = "active" BY DEF Typed, Shape
    <3> QED BY <2>5, <3>1
  <2>8. Shape' BY <2>6, <2>7 DEF Typed, Shape, Finalizing
  <2>9. \A r \in Rows : job[Manual(r)].state = "none" => job'[Manual(r)].state = "none"
    <3> SUFFICES ASSUME NEW r \in Rows, job[Manual(r)].state = "none"
                 PROVE  job'[Manual(r)].state = "none"
      OBVIOUS
    <3>1. Manual(r) \notin {Resume, Report} BY DEF Manual, Resume, Report
    <3> QED BY <1>m, <2>5, <3>1
  <2>10. Attempting' /\ Unretried' /\ \A j \in JobIds : job'[j].left \in 0 .. Attempts(j)
    BY <2>4, <2>6, <2>9 DEF Typed, Attempting, Unretried, JobsOK, JobOK
  <2> QED BY <2>4, <2>6, <2>8, <2>10 DEF Typed, TypeOK, JobsOK, ledger
<1>7. ASSUME NEW r \in Rows, BecomesDue(r) PROVE Typed'
  <2>1. due' \in [Rows -> BOOLEAN] BY <1>7 DEF BecomesDue, Typed, TypeOK
  <2> QED BY <1>7, <2>1 DEF BecomesDue, Typed, TypeOK, Shape, Attempting, Unretried, admin
<1> QED BY <1>1, <1>2, <1>3, <1>4, <1>5, <1>6, <1>7

LEMMA TypedStep == Typed /\ [Next]_vars => Typed'
<1> SUFFICES ASSUME Typed, [Next]_vars PROVE Typed' OBVIOUS
<1>1. CASE UNCHANGED vars
  BY <1>1 DEF vars, ledger, admin, Typed, TypeOK, Shape, Attempting, Unretried
<1> QED BY <1>1, DeliveryTyped, ReportTyped, QueueTyped, PlanTyped, AdminTyped
           DEF Next, Step, Waking

-----------------------------------------------------------------------------
\* A row that is being sent is in processing: only its claim could change it.
Sending == wake.pc = "sending" => row[WakeRow] = "processing"

\* Which steps touch the rows, and which begin a request.
LEMMA RowSteps ==
  ASSUME [Next]_vars
  PROVE  \/ Claim \/ Complete \/ CancelRows \/ RetryFailed
         \/ row' = row
<1>1. CASE Acknowledge \/ FanOut \/ ReadRow \/ Unclaimed \/ ReportCheck \/ ReportCount
  BY <1>1 DEF Acknowledge, FanOut, ReadRow, Unclaimed, ReportCheck, ReportCount, ledger
<1>2. CASE Prepare \/ StoreReport \/ Finish \/ Catch
  BY <1>2 DEF Prepare, StoreReport, Finish, Catch
<1>3. CASE WakeStart \/ DrainEnds \/ PlanResume \/ PlanReport \/ WakeEnd
  BY <1>3 DEF WakeStart, DrainEnds, PlanResume, PlanReport, WakeEnd, ledger
<1>4. CASE Crash \/ Throw \/ OutOfTime \/ CancelCheck \/ CancelRun \/ RecoverCheck \/ Recover
  BY <1>4 DEF Crash, Throw, OutOfTime, CancelCheck, CancelRun, RecoverCheck, Recover, ledger
<1>5. CASE (\E j \in JobIds : Fetch(j) \/ JobClock(j)) \/ (\E r \in Rows : BecomesDue(r)) \/ UNCHANGED vars
  BY <1>5 DEF Fetch, JobClock, BecomesDue, vars, ledger
<1> QED BY <1>1, <1>2, <1>3, <1>4, <1>5 DEF Next, Step, Waking

\* What may become of a row: only retryFailed reopens one, and only the wake
\* that claimed it completes it.
LEMMA RowMoves ==
  ASSUME Typed, Sending, [Next]_vars, NEW r \in Rows
  PROVE  /\ Retryable(row'[r]) /\ ~Retryable(row[r]) => RetryFailed /\ row[r] = "failed"
         /\ row[r] \in {"accepted", "unknown", "cancelled"} => row'[r] = row[r]
         /\ row'[r] \in {"processing", "retry_wait"} =>
              \/ row'[r] = row[r]
              \/ wake.pc \in {"claim", "sending"} /\ WakeRow = r
         /\ row'[r] = "unknown_retry" => row[r] = "unknown_retry"
<1>0. row \in [Rows -> RowStatuses] BY DEF Typed, TypeOK
<1>1. CASE row' = row BY <1>1
<1>2. CASE Claim
  <2>1. wake.pc = "claim" /\ Retryable(row[WakeRow]) /\ row' = [row EXCEPT ![WakeRow] = "processing"]
    BY <1>2 DEF Claim, Claimable
  <2> QED BY <1>0, <2>1 DEF Retryable
<1>3. CASE Complete
  <2>1. PICK s \in Answers(WakeRow) : row' = [row EXCEPT ![WakeRow] = s] BY <1>3 DEF Complete
  <2>2. s \in {"accepted", "failed", "unknown", "retry_wait"} BY DEF Answers
  <2>3. wake.pc = "sending" /\ row[WakeRow] = "processing" BY <1>3 DEF Complete, Sending
  <2> QED BY <1>0, <2>1, <2>2, <2>3 DEF Retryable
<1>4. CASE CancelRows
  BY <1>0, <1>4 DEF CancelRows, Retryable
<1>5. CASE RetryFailed
  BY <1>0, <1>5 DEF RetryFailed, Retryable
<1> QED BY <1>1, <1>2, <1>3, <1>4, <1>5, RowSteps

LEMMA SendingStep == Typed /\ Sending /\ [Next]_vars => Sending'
<1> SUFFICES ASSUME Typed, Sending, [Next]_vars, wake'.pc = "sending"
             PROVE  row'[WakeRow'] = "processing"
  BY DEF Sending
<1>0. row \in [Rows -> RowStatuses] /\ wake \in Wake BY DEF Typed, TypeOK
<1>1. CASE Claim
  <2>1. wake.job \in RowJobs /\ wake'.job = wake.job
    BY <1>0, <1>1, GoType DEF Claim, Typed, Shape
  <2>2. WakeRow \in Rows /\ WakeRow' = WakeRow BY <2>1, JobNames DEF WakeRow
  <2> QED BY <1>0, <1>1, <2>2 DEF Claim
<1>2. CASE wake' = wake
  <2>1. row[WakeRow] = "processing" /\ WakeRow' = WakeRow BY <1>2 DEF Sending, WakeRow
  <2>2. CASE row' = row BY <2>1, <2>2
  <2>3. wake.pc = "sending" /\ wake.job \in RowJobs BY <1>2 DEF Typed, Shape
  <2>4. WakeRow \in Rows BY <2>3, JobNames DEF WakeRow
  <2>5. CASE CancelRows BY <1>0, <2>1, <2>4, <2>5 DEF CancelRows
  <2>6. CASE RetryFailed BY <1>0, <2>1, <2>4, <2>6 DEF RetryFailed
  <2>7. ~Claim /\ ~Complete
    <3>1. Claim => FALSE BY <2>3 DEF Claim
    <3>2. Complete => wake'.pc \in {"again", "done"} BY <1>0 DEF Complete, Go, Wake
    <3> QED BY <3>1, <3>2, <2>3, <1>2
  <2> QED BY <2>2, <2>5, <2>6, <2>7, RowSteps
<1>3. ASSUME NEW w, wake' = [wake EXCEPT !.pc = w], w # "sending" PROVE FALSE
  BY <1>0, <1>3 DEF Wake
<1>4. CASE ReadRow \/ Unclaimed \/ Complete \/ ReportCheck \/ Prepare \/ StoreReport \/ Finish
           \/ Catch \/ Throw
  BY <1>3, <1>4 DEF ReadRow, Unclaimed, Complete, ReportCheck, Prepare, StoreReport, Finish,
                    Catch, Throw, Go
<1>5. CASE ReportCount BY <1>0, <1>5 DEF ReportCount, Go, Wake
<1>6. CASE Acknowledge \/ FanOut \/ WakeStart
  BY <1>6 DEF Acknowledge, FanOut, WakeStart, Off
<1>7. CASE DrainEnds \/ PlanResume \/ PlanReport
  <2>1. wake.pc = "idle" BY <1>7 DEF DrainEnds, Idle, PlanResume, PlanReport, Typed, Shape
  <2> QED BY <1>0, <1>7, <2>1 DEF DrainEnds, PlanResume, PlanReport, Wake
<1>8. CASE WakeEnd \/ Crash \/ OutOfTime BY <1>3, <1>8 DEF WakeEnd, Crash, OutOfTime, Off, Go
<1>9. ASSUME NEW j \in JobIds, Fetch(j) PROVE FALSE BY <1>0, <1>9 DEF Fetch, Wake
<1>10. CASE \/ CancelCheck \/ CancelRows \/ CancelRun \/ RetryFailed \/ RecoverCheck \/ Recover
            \/ (\E j \in JobIds : JobClock(j)) \/ (\E r \in Rows : BecomesDue(r)) \/ UNCHANGED vars
  BY <1>2, <1>10 DEF CancelCheck, CancelRows, CancelRun, RetryFailed, RecoverCheck, Recover,
                     JobClock, BecomesDue, vars
<1> QED BY <1>1, <1>4, <1>5, <1>6, <1>7, <1>8, <1>9, <1>10 DEF Next, Step, Waking

-----------------------------------------------------------------------------
\* What may become of a job: nothing; it is created; it stays unfinished; or
\* the wake that has it completes it, a parent perhaps after another chunk.
Unfinal(x) == x.state \notin {"none", "completed"}

LEMMA JobMoves ==
  ASSUME Typed, [Next]_vars, NEW j \in JobIds
  PROVE  \/ job'[j] = job[j]
         \/ job[j].state = "none" /\ job'[j] = NewJob(j)
         \/ Unfinal(job[j]) /\ Unfinal(job'[j]) /\ job'[j].cursor = job[j].cursor
         \/ /\ Acknowledge /\ wake.pc = "done" /\ j = wake.job
            /\ job[j].state = "active" /\ job'[j].state = "completed"
         \/ FanOut /\ j = wake.job /\ job[j].state = "active"
<1> DEFINE G == \/ job'[j] = job[j]
                \/ job[j].state = "none" /\ job'[j] = NewJob(j)
                \/ Unfinal(job[j]) /\ Unfinal(job'[j]) /\ job'[j].cursor = job[j].cursor
                \/ /\ Acknowledge /\ wake.pc = "done" /\ j = wake.job
                   /\ job[j].state = "active" /\ job'[j].state = "completed"
                \/ FanOut /\ j = wake.job /\ job[j].state = "active"
<1>0. job \in [JobIds -> Job] /\ job[j] \in Job BY DEF Typed, TypeOK
<1>j. \A k \in JobIds : JobOK(job[k], k) BY JobsTyped DEF Typed, JobsOK
<1>1. CASE WakeStart
  <2>1. CASE job[j].state = "overdue"
    <3>1. job'[j] = AttemptFailed(job[j], "retry") BY <1>1, <2>1 DEF WakeStart
    <3>2. job[j].left > 0 BY <1>j, <2>1 DEF JobOK, Live
    <3> QED BY <1>j, <2>1, <3>1, <3>2, FailedAttempt DEF Unfinal
  <2>2. CASE job[j].state = "later"
    <3>1. job'[j] = [job[j] EXCEPT !.state = "retry"] BY <1>1, <2>2 DEF WakeStart
    <3> QED BY <1>0, <2>2, <3>1 DEF Unfinal, Job
  <2>3. CASE job[j].state \notin {"overdue", "later"} BY <1>1, <2>3 DEF WakeStart
  <2> QED BY <2>1, <2>2, <2>3
<1>2. ASSUME NEW k \in JobIds, NEW s \in {"active", "ready", "overdue"}, job' = [job EXCEPT ![k].state = s],
             job[k].state \in {"ready", "retry", "active"}
      PROVE  G
  <2>1. CASE k = j
    <3>1. job'[j] = [job[j] EXCEPT !.state = s] BY <1>0, <1>2, <2>1
    <3> QED BY <1>0, <1>2, <2>1, <3>1 DEF Unfinal, Job
  <2>2. CASE k # j BY <1>0, <1>2, <2>2
  <2> QED BY <2>1, <2>2
<1>3. ASSUME NEW k \in JobIds, Fetch(k) \/ JobClock(k) PROVE G
  BY <1>2, <1>3 DEF Fetch, JobClock
<1>4. CASE Acknowledge
  <2>0. wake.job \in JobIds /\ job[wake.job].state = "active" BY <1>4 DEF Acknowledge, Typed, Shape
  <2>1. CASE wake.job # j BY <1>0, <1>4, <2>0, <2>1 DEF Acknowledge
  <2>2. CASE wake.job = j /\ wake.pc = "done"
    <3>1. job'[j] = [job[j] EXCEPT !.state = "completed"] BY <1>0, <1>4, <2>2 DEF Acknowledge
    <3> QED BY <1>0, <1>4, <2>0, <2>2, <3>1 DEF Job
  <2>3. CASE wake.job = j /\ wake.pc = "again"
    <3>1. PICK s \in {"ready", "later"} : job'[j] = [job[j] EXCEPT !.state = s]
      BY <1>0, <1>4, <2>3 DEF Acknowledge
    <3> QED BY <1>0, <2>0, <2>3, <3>1 DEF Job, Unfinal
  <2>4. CASE wake.job = j /\ wake.pc = "failed"
    <3>1. job'[j] = AttemptFailed(job[j], "later") BY <1>0, <1>4, <2>4 DEF Acknowledge
    <3>2. job[j].left > 0 BY <1>j, <2>0, <2>4 DEF JobOK, Live
    <3> QED BY <1>j, <2>0, <2>4, <3>1, <3>2, FailedAttempt DEF Unfinal
  <2> QED BY <1>4, <2>1, <2>2, <2>3, <2>4 DEF Acknowledge
<1>5. ASSUME NEW S, job' = SendOnce(job, S) PROVE G
  BY <1>0, <1>5, SendOnceEach
<1>6. CASE FanOut
  <2>0. wake.job \in JobIds /\ job[wake.job].state = "active" BY <1>6 DEF FanOut, Typed, Shape
  <2>1. CASE wake.job = j BY <1>6, <2>0, <2>1
  <2>2. CASE wake.job # j
    <3>1. PICK S, s, c : LET sent == SendOnce(job, S) IN
                         job' = [sent EXCEPT ![wake.job].state = s, ![wake.job].cursor = c]
      <4>1. PICK S, last :
              LET sent == SendOnce(job, S)
              IN job' = IF AllVisited(last)
                        THEN [sent EXCEPT ![wake.job].state = "completed", ![wake.job].cursor = 0]
                        ELSE [sent EXCEPT ![wake.job].state = "ready", ![wake.job].cursor = last]
        BY <1>6 DEF FanOut
      <4>2. CASE AllVisited(last) BY <4>1, <4>2
      <4>3. CASE ~AllVisited(last) BY <4>1, <4>3
      <4> QED BY <4>2, <4>3
    <3>2. SendOnce(job, S) \in [JobIds -> Job]
          /\ SendOnce(job, S)[j] = IF j \in S /\ job[j].state = "none" THEN NewJob(j) ELSE job[j]
      BY <1>0, SendOnceEach
    <3> QED BY <2>2, <3>1, <3>2
  <2> QED BY <2>1, <2>2
<1>7. CASE PlanResume \/ PlanReport
  BY <1>5, <1>7 DEF PlanResume, PlanReport
<1>8. CASE Recover
  <2>1. PICK jobs : /\ jobs = [k \in JobIds |->
                               IF job[k].state = "failed"
                               THEN [job[k] EXCEPT !.state = "ready", !.left = Attempts(k)]
                               ELSE job[k]]
                    /\ job' = SendOnce(jobs, {Resume, Report})
    BY <1>8 DEF Recover
  <2>2. job'[j] = IF j \in {Resume, Report} /\ jobs[j].state = "none" THEN NewJob(j) ELSE jobs[j]
    BY <2>1 DEF SendOnce
  <2>3. CASE job[j].state # "failed"
    <3>1. jobs[j] = job[j] BY <2>1, <2>3
    <3> QED BY <2>2, <3>1
  <2>4. CASE job[j].state = "failed"
    <3>1. jobs[j] = [job[j] EXCEPT !.state = "ready", !.left = Attempts(j)] BY <2>1, <2>4
    <3>2. jobs[j].state = "ready" /\ jobs[j].cursor = job[j].cursor BY <1>0, <3>1 DEF Job
    <3> QED BY <2>2, <2>4, <3>2 DEF Unfinal
  <2> QED BY <2>3, <2>4
<1>9. CASE RetryFailed
  <2>1. retries = 0 BY <1>9, WakeRunAssumption DEF RetryFailed, Typed, TypeOK
  <2>2. job'[j] = job[j] \/ (job'[j] = NewJob(j) /\ \E r \in Rows : j = Manual(r))
    BY <1>9 DEF RetryFailed
  <2> QED BY <2>1, <2>2 DEF Typed, Unretried
<1>10. CASE \/ ReadRow \/ Claim \/ Unclaimed \/ Complete \/ ReportCheck \/ ReportCount
            \/ Prepare \/ StoreReport \/ Finish \/ Catch \/ DrainEnds \/ WakeEnd \/ Crash \/ Throw
            \/ OutOfTime \/ CancelCheck \/ CancelRows \/ CancelRun \/ RecoverCheck
            \/ (\E r \in Rows : BecomesDue(r)) \/ UNCHANGED vars
  BY <1>10 DEF ReadRow, Claim, Unclaimed, Complete, ReportCheck, ReportCount, Prepare, StoreReport,
       Finish, Catch, DrainEnds, WakeEnd, Crash, Throw, OutOfTime, CancelCheck, CancelRows,
       CancelRun, RecoverCheck, BecomesDue, vars
<1> QED BY <1>1, <1>3, <1>4, <1>6, <1>7, <1>8, <1>9, <1>10 DEF Next, Step, Waking

\* The parent a fan-out has come to the end of, or goes on with.
LEMMA FanOutParent ==
  ASSUME Typed, FanOut
  PROVE  LET p == wake.job  cursor == job[wake.job].cursor IN
         /\ p \in Parents /\ UNCHANGED row
         /\ \E last \in Ends(cursor) :
              /\ \/ job'[p].state = "completed" /\ AllVisited(last)
                 \/ job'[p].state = "ready" /\ job'[p].cursor = last
              /\ \A r \in UpTo(last, cursor) : Retryable(row[r]) => job'[Rcpt(r)].state # "none"
<1> DEFINE p == wake.job  cursor == job[wake.job].cursor
<1>0. p \in Parents /\ p \in JobIds /\ row' = row BY JobNames DEF FanOut, Typed, Shape, ledger
<1>1. job \in [JobIds -> Job] BY DEF Typed, TypeOK
<1>2. PICK last \in Ends(cursor) :
        LET open == {Rcpt(r) : r \in {x \in UpTo(last, cursor) : Retryable(row[x])}}
            sent == SendOnce(job, open \cup IF AllVisited(last) THEN {Report} ELSE {})
        IN job' = IF AllVisited(last)
                  THEN [sent EXCEPT ![p].state = "completed", ![p].cursor = 0]
                  ELSE [sent EXCEPT ![p].state = "ready", ![p].cursor = last]
  BY DEF FanOut
<1> DEFINE S == {Rcpt(r) : r \in {x \in UpTo(last, cursor) : Retryable(row[x])}}
                \cup IF AllVisited(last) THEN {Report} ELSE {}
<1>3. PICK sent \in [JobIds -> Job] :
        /\ \A j \in S \cap JobIds : sent[j].state # "none"
        /\ job' = IF AllVisited(last)
                  THEN [sent EXCEPT ![p].state = "completed", ![p].cursor = 0]
                  ELSE [sent EXCEPT ![p].state = "ready", ![p].cursor = last]
  <2>1. SendOnce(job, S) \in [JobIds -> Job]
        /\ \A j \in S \cap JobIds : SendOnce(job, S)[j].state # "none"
    BY <1>1, SendOnceEach, NewJobOK
  <2> QED BY <1>2, <2>1
<1>4. \/ job'[p].state = "completed" /\ AllVisited(last)
      \/ job'[p].state = "ready" /\ job'[p].cursor = last
  BY <1>0, <1>3 DEF Job
<1>5. ASSUME NEW r \in UpTo(last, cursor), Retryable(row[r]) PROVE job'[Rcpt(r)].state # "none"
  <2>1. r \in Rows /\ Rcpt(r) \in S BY <1>5 DEF UpTo, After
  <2>2. Rcpt(r) \in JobIds /\ Rcpt(r) # p BY <1>0, <2>1, JobNames
  <2>3. job'[Rcpt(r)] = sent[Rcpt(r)] BY <1>3, <2>2
  <2> QED BY <1>3, <2>1, <2>2, <2>3
<1> QED BY <1>0, <1>4, <1>5

\* What may become of the run.
LEMMA RunMoves ==
  ASSUME Typed, [Next]_vars
  PROVE  \/ run' = run
         \/ run'.status = "sending" /\ run'.report = run.report /\ run'.completed \in {FALSE, run.completed}
         \/ run'.status \in {"failed", "unknown"} /\ run'.report = run.report /\ run'.completed = FALSE
         \/ CancelRun /\ run'.status = "cancelled" /\ run'.report = run.report
         \/ StoreReport /\ run'.report /\ run'.status = run.status /\ run'.completed = run.completed
         \/ Finish /\ run'.report = run.report /\ run'.status = Outcome(wake.counts)
<1>0. run \in Run BY DEF Typed, TypeOK
<1>1. CASE Prepare BY <1>0, <1>1 DEF Prepare, Preparing, Run
<1>2. CASE RetryFailed BY <1>0, <1>2 DEF RetryFailed, Run
<1>3. CASE Catch BY <1>0, <1>3 DEF Catch, NotFinished, Run
<1>4. CASE CancelRun BY <1>0, <1>4 DEF CancelRun, Run
<1>5. CASE StoreReport BY <1>0, <1>5 DEF StoreReport, Reported, Run
<1>6. CASE Finish BY <1>0, <1>6 DEF Finish, Finished, Run
<1>7. CASE \/ Acknowledge \/ FanOut \/ ReadRow \/ Claim \/ Unclaimed \/ Complete \/ ReportCheck \/ ReportCount
           \/ WakeStart \/ DrainEnds \/ PlanResume \/ PlanReport \/ WakeEnd \/ Crash \/ Throw
           \/ OutOfTime \/ CancelCheck \/ CancelRows \/ RecoverCheck \/ Recover
  BY <1>7 DEF Acknowledge, FanOut, ReadRow, Claim, Unclaimed, Complete, ReportCheck, ReportCount,
       WakeStart, DrainEnds, PlanResume, PlanReport, WakeEnd, Crash, Throw,
       OutOfTime, CancelCheck, CancelRows, RecoverCheck, Recover, ledger
<1>8. CASE (\E j \in JobIds : Fetch(j) \/ JobClock(j)) \/ (\E r \in Rows : BecomesDue(r)) \/ UNCHANGED vars
  BY <1>8 DEF Fetch, JobClock, BecomesDue, vars, ledger
<1> QED BY <1>1, <1>2, <1>3, <1>4, <1>5, <1>6, <1>7, <1>8 DEF Next, Step, Waking

\* How the wake comes to be finalising, or to be done with a recipient's job.
LEMMA WakeMoves ==
  ASSUME Typed, [Next]_vars
  PROVE  /\ wake'.pc \in Finalizing =>
              \/ /\ wake.pc \in Finalizing /\ wake'.counts = wake.counts
                 /\ wake'.pc = "finish" => wake.pc = "finish" \/ StoreReport
              \/ /\ ReportCount /\ ~(Counts(row).open > 0) /\ wake'.counts = Counts(row)
                 /\ wake'.pc = "prepare"
         /\ wake'.pc = "done" /\ wake'.job \in RowJobs =>
              \/ wake' = wake
              \/ wake'.job = wake.job /\ ~Retryable(row'[WakeRow])
<1> DEFINE Counting ==
             \/ /\ wake.pc \in Finalizing /\ wake'.counts = wake.counts
                /\ wake'.pc = "finish" => wake.pc = "finish" \/ StoreReport
             \/ /\ ReportCount /\ ~(Counts(row).open > 0) /\ wake'.counts = Counts(row)
                /\ wake'.pc = "prepare"
           Settling == wake' = wake \/ (wake'.job = wake.job /\ ~Retryable(row'[WakeRow]))
           G == /\ wake'.pc \in Finalizing => Counting
                /\ wake'.pc = "done" /\ wake'.job \in RowJobs => Settling
<1>0. wake \in Wake /\ row \in [Rows -> RowStatuses] BY DEF Typed, TypeOK
<1>1. wake' = wake => G OBVIOUS
<1>2. wake'.pc \notin Finalizing \cup {"done"} => G OBVIOUS
<1>3. ASSUME NEW pc, Go(pc), pc \notin Finalizing \cup {"done"} PROVE G
  BY <1>0, <1>2, <1>3 DEF Go, Wake
<1>4. CASE ReadRow
  <2>1. CASE ~Retryable(row[WakeRow])
    <3>1. wake'.pc = "done" /\ wake'.job = wake.job /\ row' = row
      <4>1. row' = row BY <1>4 DEF ReadRow, ledger
      <4>2. PICK pc : /\ Go(pc)
                      /\ pc = CASE ~Retryable(row[WakeRow]) -> "done"
                               [] row[WakeRow] \in {"retry_wait", "unknown_retry"} /\ ~due[WakeRow] -> "again"
                               [] OTHER -> "claim"
        BY <1>4 DEF ReadRow
      <4>3. ~Retryable(row[WakeRow]) => row[WakeRow] \notin {"retry_wait", "unknown_retry"}
        BY DEF Retryable
      <4>4. pc = "done" BY <2>1, <4>2, <4>3
      <4> QED BY <1>0, <4>1, <4>2, <4>4, GoType
    <3> QED BY <2>1, <3>1 DEF Finalizing
  <2>2. CASE Retryable(row[WakeRow])
    <3>1. PICK pc \in {"again", "claim"} : Go(pc) BY <1>4, <2>2 DEF ReadRow
    <3> QED BY <1>3, <3>1 DEF Finalizing
  <2> QED BY <2>1, <2>2
<1>5. CASE Unclaimed
  <2>1. CASE Retryable(row[WakeRow])
    BY <1>3, <1>5, <2>1 DEF Unclaimed, ComesBack, Finalizing
  <2>2. CASE ~Retryable(row[WakeRow])
    <3>1. wake'.pc = "done" /\ wake'.job = wake.job /\ row' = row
      BY <1>0, <1>5, <2>2 DEF Unclaimed, ComesBack, Go, Wake, ledger
    <3> QED BY <2>2, <3>1 DEF Finalizing
  <2> QED BY <2>1, <2>2
<1>6. CASE Complete
  <2>1. PICK s : row' = [row EXCEPT ![WakeRow] = s] /\ Go(IF ComesBack(s) THEN "again" ELSE "done")
    BY <1>6 DEF Complete
  <2>2. WakeRow \in Rows
    BY <1>6, JobNames DEF Complete, Typed, Shape, WakeRow
  <2>3. CASE Retryable(s) BY <1>3, <2>1, <2>3 DEF ComesBack, Finalizing
  <2>4. CASE ~Retryable(s)
    <3>1. wake'.pc = "done" /\ wake'.job = wake.job /\ row'[WakeRow] = s
      BY <1>0, <2>1, <2>2, <2>4 DEF ComesBack, Go, Wake
    <3> QED BY <2>4, <3>1 DEF Finalizing
  <2> QED BY <2>3, <2>4
<1>7. CASE Claim BY <1>3, <1>7 DEF Claim, Finalizing
<1>8. CASE ReportCheck \/ Finish
  <2>1. wake.job = Report BY <1>8 DEF ReportCheck, Finish, Typed, Shape, Finalizing
  <2>2. wake'.job = Report /\ wake'.pc \in {"count", "done"}
    BY <1>0, <1>8, <2>1 DEF ReportCheck, Finish, Go, Wake
  <2> QED BY <2>2, JobNames DEF Finalizing
<1>9. CASE ReportCount
  <2>1. CASE Counts(row).open > 0 BY <1>3, <1>9, <2>1 DEF ReportCount, WaitsForRows, Finalizing
  <2>2. CASE ~(Counts(row).open > 0)
    <3>1. wake'.pc = "prepare" /\ wake'.counts = Counts(row)
      BY <1>0, <1>9, <2>2 DEF ReportCount, WaitsForRows, Wake
    <3> QED BY <1>9, <2>2, <3>1
  <2> QED BY <2>1, <2>2
<1>10. CASE Prepare \/ StoreReport
  <2>1. /\ wake.pc \in Finalizing /\ wake'.counts = wake.counts
        /\ wake'.pc = "store" \/ (wake'.pc = "finish" /\ StoreReport)
    BY <1>0, <1>10 DEF Prepare, StoreReport, Go, Wake, Finalizing
  <2> QED BY <2>1
<1>11. CASE Catch \/ Throw BY <1>3, <1>11 DEF Catch, Throw, Finalizing
<1>12. Off.pc = "idle" BY DEF Off
<1>13. CASE Acknowledge \/ FanOut \/ WakeStart \/ WakeEnd \/ Crash
  <2>1. wake' = Off \/ \E p : wake' = [Off EXCEPT !.phase = p]
    BY <1>13 DEF Acknowledge, FanOut, WakeStart, WakeEnd, Crash
  <2>2. wake'.pc = "idle" BY <2>1 DEF Off
  <2> QED BY <1>2, <2>2 DEF Finalizing
<1>14. CASE OutOfTime
  <2>1. CASE wake' = Off BY <1>2, <1>12, <2>1 DEF Finalizing
  <2>2. CASE Go("again") BY <1>3, <2>2 DEF Finalizing
  <2> QED BY <1>14, <2>1, <2>2 DEF OutOfTime
<1>15. CASE DrainEnds \/ PlanResume \/ PlanReport
  <2>1. wake.pc = "idle" BY <1>15 DEF DrainEnds, Idle, PlanResume, PlanReport, Typed, Shape
  <2>2. wake'.pc = "idle" BY <1>0, <1>15, <2>1 DEF DrainEnds, PlanResume, PlanReport, Wake
  <2> QED BY <1>2, <2>2 DEF Finalizing
<1>16. ASSUME NEW j \in JobIds, Fetch(j) PROVE G
  <2>1. wake'.pc \in {"fanout", "check", "read"} BY <1>0, <1>16 DEF Fetch, Wake
  <2> QED BY <1>2, <2>1 DEF Finalizing
<1>17. CASE \/ CancelCheck \/ CancelRows \/ CancelRun \/ RetryFailed \/ RecoverCheck \/ Recover
            \/ (\E j \in JobIds : JobClock(j)) \/ (\E r \in Rows : BecomesDue(r)) \/ UNCHANGED vars
  <2>1. wake' = wake
    BY <1>17 DEF CancelCheck, CancelRows, CancelRun, RetryFailed, RecoverCheck, Recover,
                     JobClock, BecomesDue, vars
  <2> QED BY <1>1, <2>1
<1> QED BY <1>4, <1>5, <1>6, <1>7, <1>8, <1>9, <1>10, <1>11, <1>13, <1>14, <1>15, <1>16, <1>17
        DEF Next, Step, Waking

-----------------------------------------------------------------------------
(***************************************************************************)
(* Who takes care of an open row.                                          *)
(***************************************************************************)
OwnJob(r) == Listed(Rcpt(r)) \/ Listed(Manual(r))
Owned(r) == Retryable(row[r]) => OwnJob(r)
Reopened(r) == Retryable(row[r]) => Listed(Manual(r))

\* A wake that is done with a recipient's job leaves the row settled, or
\* reopened with a job of its own.
DoneRow == wake.pc = "done" /\ wake.job \in RowJobs =>
   /\ Reopened(WakeRow)
   /\ wake.job[1] = "manual" => ~Retryable(row[WakeRow])

\* So does a once-only job that is used up.
UsedUp == \A r \in Rows : job[Rcpt(r)].state = "completed" => Reopened(r)

\* A report about to write success has every row accepted.
Successful == wake.pc \in Finalizing /\ Outcome(wake.counts) = "success" =>
                \A r \in Rows : row[r] = "accepted"

\* A report about to finish is stored.
Stored == wake.pc = "finish" => run.report

IInv ==
  /\ Typed /\ Sending /\ DoneRow /\ UsedUp /\ Successful /\ Stored
  /\ SuccessMeansAccepted /\ FinishedHasReport

\* Once an open row has a job of its own, it keeps one while it is open; once
\* it is either settled or reopened with a job, it stays so.
LEMMA OwnStays ==
  ASSUME Typed, Sending, DoneRow, [Next]_vars, NEW r \in Rows
  PROVE  /\ Reopened(r) => Reopened(r)'
         /\ Owned(r) => Owned(r)'
<1>0. /\ Rcpt(r) \in JobIds /\ Manual(r) \in JobIds /\ Rcpt(r) \in RowJobs /\ Manual(r) \in RowJobs
      /\ Rcpt(r) # Manual(r) /\ Rcpt(r)[2] = r /\ Manual(r)[2] = r /\ Manual(r)[1] = "manual"
  BY JobNames
<1>1. ASSUME Listed(Manual(r)), Retryable(row[r]) PROVE Listed(Manual(r))'
  <2>1. ~(wake.pc = "done" /\ wake.job = Manual(r))
    BY <1>0, <1>1 DEF DoneRow, WakeRow
  <2>2. FanOut => wake.job # Manual(r) BY <1>0, FanOutParent, JobNames
  <2> QED BY <1>0, <1>1, <2>1, <2>2, JobMoves DEF Listed, Unfinal
<1>2. RetryFailed /\ row[r] = "failed" => Listed(Manual(r))'
  <2> SUFFICES ASSUME RetryFailed, row[r] = "failed" PROVE Listed(Manual(r))' OBVIOUS
  <2>1. job'[Manual(r)] = NewJob(Manual(r)) BY <1>0 DEF RetryFailed
  <2> QED BY <2>1, NewJobOK DEF Listed
<1>3. ASSUME Listed(Rcpt(r)), Retryable(row[r]) PROVE OwnJob(r)'
  <2>1. CASE wake.pc = "done" /\ wake.job = Rcpt(r)
    <3>1. Listed(Manual(r)) BY <1>0, <1>3, <2>1 DEF DoneRow, WakeRow, Reopened
    <3> QED BY <1>1, <1>3, <3>1 DEF OwnJob
  <2>2. CASE ~(wake.pc = "done" /\ wake.job = Rcpt(r))
    <3>1. FanOut => wake.job # Rcpt(r) BY <1>0, FanOutParent, JobNames
    <3>2. Listed(Rcpt(r))' BY <1>0, <1>3, <2>2, <3>1, JobMoves DEF Listed, Unfinal
    <3> QED BY <3>2 DEF OwnJob
  <2> QED BY <2>1, <2>2
<1>4. Retryable(row'[r]) /\ ~Retryable(row[r]) => RetryFailed /\ row[r] = "failed"
  BY RowMoves
<1>5. Reopened(r) => Reopened(r)' BY <1>1, <1>2, <1>4 DEF Reopened
<1>6. Owned(r) => Owned(r)' BY <1>1, <1>2, <1>3, <1>4 DEF Owned, OwnJob
<1> QED BY <1>5, <1>6

LEMMA InitInv == Init => IInv
<1> SUFFICES ASSUME Init PROVE IInv OBVIOUS
<1>1. Typed BY InitTyped
<1>2. wake.pc = "idle" BY DEF Init, Off
<1>3. \A r \in Rows : Rcpt(r) \in JobIds /\ job[Rcpt(r)].state = "none"
  BY JobNames DEF Init, First, Rcpt, Absent
<1>5. run.status = "queued" /\ run.completed = FALSE BY DEF Init, NewRun
<1> QED BY <1>1, <1>2, <1>3, <1>5
        DEF IInv, Sending, DoneRow, UsedUp, Successful, Stored, Finalizing,
            SuccessMeansAccepted, FinishedHasReport

LEMMA StepInv == IInv /\ [Next]_vars => IInv'
<1> SUFFICES ASSUME IInv, [Next]_vars PROVE IInv' OBVIOUS
<1> USE DEF IInv
<1>1. Typed' /\ Sending' BY TypedStep, SendingStep
<1>2. \A r \in Rows : Reopened(r) => Reopened(r)' BY OwnStays
<1>3. DoneRow'
  <2> SUFFICES ASSUME wake'.pc = "done", wake'.job \in RowJobs
               PROVE  /\ Reopened(WakeRow)'
                      /\ wake'.job[1] = "manual" => ~Retryable(row'[WakeRow'])
    BY DEF DoneRow
  <2>1. CASE wake' = wake
    <3>1. WakeRow \in Rows /\ WakeRow' = WakeRow BY <2>1, JobNames DEF WakeRow
    <3>2. Reopened(WakeRow) BY <2>1 DEF DoneRow
    <3>3. Reopened(WakeRow)' BY <1>2, <3>1, <3>2 DEF Reopened
    <3>4. ASSUME wake'.job[1] = "manual" PROVE ~Retryable(row'[WakeRow])
      <4>1. ~Retryable(row[WakeRow]) BY <2>1, <3>4 DEF DoneRow
      <4>2. wake.job = Manual(WakeRow) BY <2>1, <3>4, JobNames DEF WakeRow
      <4>3. job[Manual(WakeRow)].state = "active" BY <2>1, <4>2 DEF Typed, Shape
      <4>4. retries # 0 BY <3>1, <4>3 DEF Typed, Unretried
      <4>5. ~RetryFailed
        <5>1. retries \in 0 .. MaxRetries BY DEF Typed, TypeOK
        <5>2. RetryFailed => retries < MaxRetries BY DEF RetryFailed
        <5> QED BY <4>4, <5>1, <5>2, WakeRunAssumption
      <4> QED BY <3>1, <4>1, <4>5, RowMoves
    <3> QED BY <3>1, <3>3, <3>4
  <2>2. CASE wake'.job = wake.job /\ ~Retryable(row'[WakeRow])
    <3>1. WakeRow' = WakeRow BY <2>2 DEF WakeRow
    <3> QED BY <2>2, <3>1 DEF Reopened
  <2> QED BY <2>1, <2>2, WakeMoves
<1>4. UsedUp'
  <2> SUFFICES ASSUME NEW r \in Rows, job'[Rcpt(r)].state = "completed" PROVE Reopened(r)'
    BY DEF UsedUp, Reopened
  <2>0. Rcpt(r) \in JobIds /\ Rcpt(r) \in RowJobs /\ Rcpt(r) \notin Parents /\ Rcpt(r)[2] = r
    BY JobNames
  <2>1. ~(FanOut /\ wake.job = Rcpt(r)) BY <2>0, FanOutParent
  <2>2. job[Rcpt(r)].state = "completed" \/ (wake.pc = "done" /\ wake.job = Rcpt(r))
    BY <2>0, <2>1, JobMoves, NewJobOK DEF Unfinal
  <2>3. Reopened(r) BY <2>0, <2>2 DEF UsedUp, DoneRow, WakeRow
  <2> QED BY <1>2, <2>3
<1>c. row \in [Rows -> RowStatuses] /\ IsFiniteSet(Rows) BY WakeRunAssumption DEF Typed, TypeOK
<1>a. (\A r \in Rows : row[r] = "accepted") => \A r \in Rows : row'[r] = "accepted"
  BY RowMoves
<1>7. Successful'
  <2> SUFFICES ASSUME wake'.pc \in Finalizing, Outcome(wake'.counts) = "success"
               PROVE  \A r \in Rows : row'[r] = "accepted"
    BY DEF Successful
  <2>1. CASE wake.pc \in Finalizing /\ wake'.counts = wake.counts
    BY <1>a, <2>1 DEF Successful
  <2>2. CASE ~(Counts(row).open > 0) /\ wake'.counts = Counts(row)
    BY <1>a, <1>c, <2>2, CountsOfRows
  <2> QED BY <2>1, <2>2, WakeMoves
\* A stored report stays, and StoreReport stores it.
<1>8. (run.report => run'.report) /\ (StoreReport => run'.report)
  <2>1. run \in Run BY DEF Typed, TypeOK
  <2>2. StoreReport => run'.report BY <2>1 DEF StoreReport, Reported, Run
  <2> QED BY <2>2, RunMoves
<1>9. Stored' BY <1>8, WakeMoves DEF Stored, Finalizing
<1>10. SuccessMeansAccepted' /\ FinishedHasReport'
  <2>1. CASE run' = run BY <1>a, <2>1 DEF SuccessMeansAccepted, FinishedHasReport
  <2>2. CASE run'.status \in {"sending", "cancelled"}
    BY <2>2 DEF SuccessMeansAccepted, FinishedHasReport, Ended
  <2>3. CASE run'.status \in {"failed", "unknown"} /\ run'.completed = FALSE
    BY <2>3 DEF SuccessMeansAccepted, FinishedHasReport
  <2>4. CASE StoreReport /\ run'.report /\ run'.status = run.status
    BY <1>a, <2>4 DEF SuccessMeansAccepted, FinishedHasReport
  <2>5. CASE Finish /\ run'.report = run.report /\ run'.status = Outcome(wake.counts)
    <3>1. wake.pc = "finish" BY <2>5 DEF Finish
    <3>2. run'.report BY <2>5, <3>1 DEF Stored
    <3>3. run'.status = "success" => \A r \in Rows : row'[r] = "accepted"
      BY <1>a, <2>5, <3>1 DEF Successful, Finalizing
    <3> QED BY <3>2, <3>3 DEF SuccessMeansAccepted, FinishedHasReport
  <2> QED BY <2>1, <2>2, <2>3, <2>4, <2>5, RunMoves
<1> QED BY <1>1, <1>3, <1>4, <1>7, <1>9, <1>10

\* The inductive invariant of a run under the wake.
THEOREM Invariant == Spec => []IInv
BY InitInv, StepInv, PTL DEF Spec

\* Every reachable state is well typed.
THEOREM TypeCorrect == Spec => []TypeOK
BY Invariant, PTL DEF IInv, Typed

\* A run is shown as a success only if LINE accepted every recipient, although
\* cancellations and retries by hand go on while its report is made.
THEOREM SuccessIsReal == Spec => []SuccessMeansAccepted
BY Invariant, PTL DEF IInv

\* A run completed under a final status has its report.
THEOREM ReportIsThere == Spec => []FinishedHasReport
BY Invariant, PTL DEF IInv

\* No recovery, planning or fan-out repeats a job that has done its work.
THEOREM NothingRepeats == Spec => CompletedJobsStay
<1>1. ASSUME IInv, [Next]_vars
      PROVE  \A j \in JobIds : job[j].state = "completed" => job'[j].state = "completed"
  BY <1>1, JobMoves DEF IInv, Unfinal
<1>2. IInv /\ [Next]_vars =>
        [\A j \in JobIds : job[j].state = "completed" => job'[j].state = "completed"]_vars
  BY <1>1
<1> QED BY <1>2, Invariant, PTL DEF Spec, CompletedJobsStay

-----------------------------------------------------------------------------
(***************************************************************************)
(* No recipient is forgotten: a row the first job has not come to yet is   *)
(* on its list, and one it has passed has, while it is open, a job of its  *)
(* own.                                                                    *)
(***************************************************************************)
Remembered(r) ==
  Listed(Rcpt(r)) \/ Listed(Manual(r)) \/ (Listed(First) /\ job[First].cursor < r)

LEMMA InitRemembered == Init => NoRecipientForgotten
<1> SUFFICES ASSUME Init PROVE NoRecipientForgotten OBVIOUS
<1>1. job[First].state = "ready" /\ job[First].cursor = 0 BY JobNames, NewJobOK DEF Init
<1>2. \A r \in Rows : 0 < r BY WakeRunAssumption
<1> QED BY <1>1, <1>2 DEF NoRecipientForgotten, Listed

\* One row: if somebody has it on its list, somebody has it after a step.
LEMMA RememberedStep ==
  ASSUME IInv, NoRecipientForgotten, [Next]_vars, NEW r \in Rows, Retryable(row'[r])
  PROVE  Remembered(r)'
<1>0. Typed /\ Sending /\ DoneRow /\ UsedUp /\ job \in [JobIds -> Job]
  BY DEF IInv, Typed, TypeOK
<1>r. r \in Nat /\ r > 0 BY WakeRunAssumption
<1>n. Rcpt(r) \in JobIds /\ First \in JobIds /\ First \in Parents BY JobNames DEF Parents
\* A row that has a job, or did not need one.
<1>1. ASSUME Owned(r) PROVE Remembered(r)'
  <2>1. Owned(r)' BY <1>0, <1>1, OwnStays
  <2> QED BY <2>1 DEF Owned, OwnJob, Remembered
<1>2. CASE ~Retryable(row[r]) BY <1>1, <1>2 DEF Owned
<1>3. CASE Listed(Rcpt(r)) \/ Listed(Manual(r)) BY <1>1, <1>3 DEF Owned, OwnJob
\* A row the first job has yet to come to.
<1>4. ASSUME Listed(First), job[First].cursor < r, Retryable(row[r]) PROVE Remembered(r)'
  <2>0. job[First].cursor \in Nat BY <1>0, <1>n DEF Job
  <2>1. CASE FanOut /\ First = wake.job
    <3>1. PICK last \in Ends(job[First].cursor) :
            /\ \/ job'[First].state = "completed" /\ AllVisited(last)
               \/ job'[First].state = "ready" /\ job'[First].cursor = last
            /\ \A x \in UpTo(last, job[First].cursor) :
                 Retryable(row[x]) => job'[Rcpt(x)].state # "none"
      BY <1>0, <2>1, FanOutParent
    <3>2. last \in Nat BY <2>0, WakeRunAssumption DEF Ends, After
    <3>3. CASE r <= last
      <4>1. r \in UpTo(last, job[First].cursor) BY <1>4, <3>3 DEF UpTo, After
      <4>2. job'[Rcpt(r)].state # "none" BY <1>4, <3>1, <4>1
      <4>3. CASE job'[Rcpt(r)].state = "completed"
        <5>1. job[Rcpt(r)].state = "completed"
          <6>1. Rcpt(r) # wake.job BY <1>0, <2>1, FanOutParent, JobNames
          <6>2. ~(Acknowledge /\ wake.pc = "done")
            BY <2>1 DEF FanOut
          <6> QED BY <1>0, <1>n, <4>3, <6>1, JobMoves, NewJobOK DEF Unfinal
        <5> QED BY <1>0, <1>1, <5>1 DEF UsedUp, Reopened, Owned, OwnJob
      <4>4. CASE job'[Rcpt(r)].state # "completed" BY <4>2, <4>4 DEF Remembered, Listed
      <4> QED BY <4>3, <4>4
    <3>4. CASE ~(r <= last)
      <4>1. r \in After(last) BY <1>r, <3>2, <3>4 DEF After
      <4>2. job'[First].state = "ready" /\ job'[First].cursor = last
        BY <3>1, <4>1 DEF AllVisited
      <4>3. last < r BY <1>r, <3>2, <3>4
      <4> QED BY <4>2, <4>3 DEF Remembered, Listed
    <3> QED BY <3>3, <3>4
  <2>2. CASE ~(FanOut /\ First = wake.job)
    <3>1. ~(wake.pc = "done" /\ First = wake.job) BY <1>0, <1>n DEF Typed, Shape
    <3>2. Listed(First)' /\ job'[First].cursor = job[First].cursor
      BY <1>0, <1>n, <1>4, <2>0, <2>2, <3>1, JobMoves DEF Listed, Unfinal
    <3> QED BY <1>4, <3>2 DEF Remembered
  <2> QED BY <2>1, <2>2
<1> QED BY <1>2, <1>3, <1>4 DEF NoRecipientForgotten

\* For any number of recipients, chunks and wakes, and rows the earlier sender
\* left unknown as well, an open recipient is always on somebody's list.
THEOREM NobodyForgotten == Spec => []NoRecipientForgotten
<1>1. Init => IInv /\ NoRecipientForgotten BY InitInv, InitRemembered
<1>2. IInv /\ NoRecipientForgotten /\ [Next]_vars => (IInv /\ NoRecipientForgotten)'
  BY StepInv, RememberedStep DEF NoRecipientForgotten, Remembered
<1> QED BY <1>1, <1>2, PTL DEF Spec

-----------------------------------------------------------------------------
(***************************************************************************)
(* What the run promises: SavedRun.                                        *)
(***************************************************************************)
\* What the report is about to write is true of the rows as they are now.
Verdict == wake.pc \in Finalizing => Promise!Truthful(Outcome(wake.counts))

\* What is true of the rows stays true of them: a verdict rests on final rows.
LEMMA TruthStays ==
  ASSUME Typed, Sending, [Next]_vars, NEW s, Promise!Truthful(s)
  PROVE  Promise!Truthful(s)'
<1>1. \A r \in Rows : row[r] \in {"accepted", "unknown", "cancelled"} => row'[r] = row[r]
  BY RowMoves
<1> QED BY <1>1 DEF Promise!Truthful

LEMMA VerdictStep == IInv /\ Verdict /\ [Next]_vars => Verdict'
<1> SUFFICES ASSUME IInv, Verdict, [Next]_vars, wake'.pc \in Finalizing
             PROVE  Promise!Truthful(Outcome(wake.counts))'
  BY DEF Verdict
<1> USE DEF IInv
<1> SUFFICES ASSUME NEW s, s = Outcome(wake'.counts)
             PROVE  Promise!Truthful(s)'
  BY DEF Promise!Truthful
<1>1. CASE wake.pc \in Finalizing /\ wake'.counts = wake.counts
  <2>1. Promise!Truthful(s) BY <1>1 DEF Verdict
  <2> QED BY <2>1, TruthStays
<1>2. CASE ~(Counts(row).open > 0) /\ wake'.counts = Counts(row)
  <2>1. Promise!Truthful(s)
    BY <1>2, CountsOfRows, WakeRunAssumption DEF Typed, TypeOK, Promise!Truthful
  <2> QED BY <2>1, TruthStays
<1> QED BY <1>1, <1>2, WakeMoves

\* The run and its rows start as createRunBundle and the earlier sender left them.
LEMMA PromiseInit == Init => Promise!RunInit
BY DEF Init, NewRun, Promise!RunInit, Promise!NewRun, Promise!RowInit

\* Deliveries: a claim is an attempt, the answer settles the row of the claim.
LEMMA PromiseDeliver ==
  ASSUME IInv, Claim \/ Complete
  PROVE  Promise!RunNext
<1> USE DEF IInv
<1>1. wake.job \in RowJobs BY DEF Claim, Complete, Typed, Shape
<1>2. WakeRow \in Rows BY <1>1, JobNames DEF WakeRow
<1>3. CASE Claim
  <2>1. Promise!Attempt(WakeRow)
    BY <1>3 DEF Claim, Claimable, Retryable, Promise!Attempt, Promise!Retryable
  <2> QED BY <1>2, <1>3, <2>1 DEF Claim, Promise!RunNext, Promise!Deliver
<1>4. CASE Complete
  <2>1. PICK s \in Answers(WakeRow) : row' = [row EXCEPT ![WakeRow] = s] BY <1>4 DEF Complete
  <2>2. UNCHANGED <<run, tries>> /\ row[WakeRow] = "processing" BY <1>4 DEF Complete, Sending
  <2>3. tries[WakeRow] \in Nat /\ MaxTries \in Nat
    BY <1>2, WakeRunAssumption DEF Typed, TypeOK
  <2>4. s \in {"accepted", "failed", "unknown", "retry_wait"} BY DEF Answers
  <2>5. s = "accepted" => tries[WakeRow] <= MaxTries BY <2>3 DEF Answers
  <2>6. s = "retry_wait" => tries[WakeRow] < MaxTries BY <2>3 DEF Answers
  <2>7. Promise!Settle(WakeRow, s) BY <2>1, <2>2, <2>5, <2>6 DEF Promise!Settle
  <2> QED BY <1>2, <2>2, <2>4, <2>7 DEF Promise!RunNext, Promise!Deliver
<1> QED BY <1>3, <1>4

\* The administrator's requests move the rows they name, and no others.
LEMMA PromiseRequests ==
  ASSUME CancelRows \/ CancelRun \/ RetryFailed
  PROVE  Promise!RunNext
<1>1. CASE CancelRows
  <2> DEFINE S == {r \in Rows : row[r] \in {"pending", "retry_wait"}}
  <2>1. S \in SUBSET Rows OBVIOUS
  <2>2. Promise!Move(S, {"pending", "retry_wait"}, "cancelled")
    BY <1>1 DEF CancelRows, Promise!Move
  <2>3. Promise!Cancel BY <2>1, <2>2 DEF Promise!Cancel
  <2> QED BY <1>1, <2>3 DEF CancelRows, Promise!RunNext
<1>2. CASE CancelRun
  BY <1>2 DEF CancelRun, Promise!RunNext, Promise!Update, Promise!rowVars
<1>3. CASE RetryFailed
  <2> DEFINE S == {r \in Rows : row[r] = "failed"}
  <2>1. S \in SUBSET Rows OBVIOUS
  <2>2. Promise!Move(S, {"failed"}, "pending") BY <1>3 DEF RetryFailed, Promise!Move
  <2>3. Promise!Retry BY <2>1, <2>2 DEF Promise!Retry
  <2> QED BY <1>3, <2>3 DEF RetryFailed, Promise!RunNext
<1> QED BY <1>1, <1>2, <1>3

\* The report: what it writes is true, and it has been stored.
LEMMA PromiseFinalize ==
  ASSUME IInv, Verdict, Prepare \/ StoreReport \/ Finish \/ Catch
  PROVE  Promise!RunNext
<1> USE DEF IInv
<1>1. UNCHANGED <<row, tries>> BY DEF Prepare, StoreReport, Finish, Catch
<1> SUFFICES Promise!Update BY <1>1 DEF Promise!RunNext, Promise!rowVars
<1>2. CASE Prepare BY <1>2 DEF Prepare, Preparing, Promise!Preparing, Promise!Update
<1>3. CASE StoreReport BY <1>3 DEF StoreReport, Reported, Promise!Reported, Promise!Update
<1>4. CASE Finish
  <2> DEFINE s == Outcome(wake.counts)
  <2>1. wake.pc = "finish" BY <1>4 DEF Finish
  <2>2. run.report /\ Promise!Truthful(s) BY <2>1 DEF Stored, Verdict, Finalizing
  <2>3. s \in Promise!Ended BY OutcomeEnds DEF Ended, Promise!Ended
  <2>4. run' = [run EXCEPT !.status = s, !.completed = TRUE] BY <1>4 DEF Finish, Finished
  <2>5. Promise!Finish(s) BY <2>2, <2>4 DEF Promise!Finish
  <2> QED BY <2>3, <2>5 DEF Promise!Update
<1>5. CASE Catch BY <1>5 DEF Catch, NotFinished, Promise!NotFinished, Promise!Update
<1> QED BY <1>2, <1>3, <1>4, <1>5

\* The queue, the planning, the clock and a wake cut short change nothing that can be seen.
LEMMA PromiseStep ==
  ASSUME IInv, Verdict, [Next]_vars
  PROVE  [Promise!RunNext]_(Promise!runVars)
<1> DEFINE Kept == [Promise!RunNext]_(Promise!runVars)
<1> SUFFICES Kept OBVIOUS
<1> HIDE DEF Kept
<1>1. ASSUME UNCHANGED <<run, row, tries>> PROVE Kept
  BY <1>1 DEF Kept, Promise!runVars, Promise!rowVars
<1>2. CASE Acknowledge \/ FanOut \/ ReadRow \/ Unclaimed \/ ReportCheck \/ ReportCount
  BY <1>1, <1>2 DEF Acknowledge, FanOut, ReadRow, Unclaimed, ReportCheck, ReportCount, ledger
<1>3. CASE WakeStart \/ DrainEnds \/ PlanResume \/ PlanReport \/ WakeEnd
  BY <1>1, <1>3 DEF WakeStart, DrainEnds, PlanResume, PlanReport, WakeEnd, ledger
<1>4. CASE Crash \/ Throw \/ OutOfTime \/ CancelCheck \/ RecoverCheck \/ Recover
  BY <1>1, <1>4 DEF Crash, Throw, OutOfTime, CancelCheck, RecoverCheck, Recover, ledger
<1>5. ASSUME NEW j \in JobIds, Fetch(j) \/ JobClock(j) PROVE Kept
  BY <1>1, <1>5 DEF Fetch, JobClock, ledger
<1>6. ASSUME NEW r \in Rows, BecomesDue(r) PROVE Kept BY <1>1, <1>6 DEF BecomesDue
<1>7. CASE UNCHANGED vars BY <1>1, <1>7 DEF vars, ledger
<1>8. CASE Claim \/ Complete BY <1>8, PromiseDeliver DEF Kept
<1>9. CASE CancelRows \/ CancelRun \/ RetryFailed BY <1>9, PromiseRequests DEF Kept
<1>10. CASE Prepare \/ StoreReport \/ Finish \/ Catch BY <1>10, PromiseFinalize DEF Kept
<1>11. CASE Step BY <1>2, <1>8, <1>10, <1>11 DEF Step
<1>12. CASE Waking BY <1>3, <1>5, <1>12 DEF Waking
<1> QED BY <1>4, <1>5, <1>6, <1>7, <1>9, <1>10, <1>11, <1>12 DEF Next

\* Under the wake too, however it is cut short, the run keeps to what SavedRun promises.
THEOREM KeepsPromise == Spec => ImplementsSavedRun
<1>1. Init => Verdict BY DEF Init, Verdict, Finalizing, Off
<1>2. Spec => []Verdict BY <1>1, Invariant, VerdictStep, PTL DEF Spec
<1> QED BY <1>2, Invariant, PromiseInit, PromiseStep, PTL
           DEF Spec, ImplementsSavedRun, Promise!RunSpec
=============================================================================
