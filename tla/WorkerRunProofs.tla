-------------------------- MODULE WorkerRunProofs --------------------------
(***************************************************************************)
(* What holds of a weekly run for any number of recipients, attempts,      *)
(* crashes, cancellations and retries, whichever worker finalises it.      *)
(*                                                                         *)
(* A finaliser works with counts read several transactions ago. That a     *)
(* success is nevertheless a success rests on one fact: nothing ever       *)
(* changes an accepted row, since only the holder of a claim completes a   *)
(* row (Claims) and a claim is only ever on a row being processed.         *)
(***************************************************************************)
EXTENDS WorkerRun, RunLedgerProofs

AllAccepted == \A r \in Rows : row[r] = "accepted"
Finalizing == {"prepare", "report", "finish"}

\* The main job is still in its queue while its worker runs.
MainBusy == act["main"].pc # "idle" => mainJob > 0

\* A claim token is that of a row being processed.
Claims == \A r \in Rows : holder[r] # Nobody => row[r] = "processing"

\* A finaliser about to write success has every row accepted, however long ago
\* it counted them.
Successful == \A a \in Actors :
  act[a].pc \in Finalizing /\ Outcome(act[a].counts) = "success" => AllAccepted

\* A finaliser about to finish has a stored report.
Stored == \A a \in Actors : act[a].pc = "finish" => run.report

IInv ==
  /\ TypeOK /\ MainBusy /\ Claims /\ Successful /\ Stored
  /\ SuccessMeansAccepted /\ FinishedHasReport

-----------------------------------------------------------------------------
LEMMA InitInv == Init => IInv
<1> SUFFICES ASSUME Init PROVE IInv OBVIOUS
<1> USE WorkerRunAssumption
<1>1. 0 \in Count
  <2>1. Cardinality(Rows) \in Nat BY FS_CardinalityType
  <2> QED BY <2>1 DEF Count
<1>2. Idle \in Act BY <1>1 DEF Act, Idle, NoCounts, Tally
<1>3. TypeOK
  BY <1>2 DEF Init, TypeOK, NewRun, Run, RunStatuses, RowStatuses, Actors
<1> QED BY <1>3 DEF Init, IInv, MainBusy, Claims, Successful, Stored, NewRun, Idle,
               SuccessMeansAccepted, FinishedHasReport, Finalizing, Actors, Ended

\* The end of a worker's job keeps the queue and the workers well typed.
LEMMA JobEnds ==
  ASSUME TypeOK, MainBusy, NEW a \in Actors, NEW failed \in BOOLEAN, EndJob(a, failed),
         act[a].pc # "idle"
  PROVE  /\ act' \in [Actors -> Act] /\ act' = [act EXCEPT ![a] = Idle]
         /\ mainJob' \in 0 .. JobAttempts
         /\ rcptJob' \in [Rows -> 0 .. JobAttempts]
         /\ MainBusy'
<1> USE WorkerRunAssumption
<1>0. Idle \in Act
  <2>1. Cardinality(Rows) \in Nat BY FS_CardinalityType
  <2> QED BY <2>1 DEF Act, Idle, NoCounts, Tally, Count
<1>1. act' = [act EXCEPT ![a] = Idle] BY DEF EndJob
<1>2. act' \in [Actors -> Act] BY <1>0, <1>1 DEF TypeOK
<1>3. mainJob' \in 0 .. JobAttempts BY DEF EndJob, TypeOK, MainBusy
<1>4. rcptJob' \in [Rows -> 0 .. JobAttempts]
  <2>1. act[a].left \in 0 .. JobAttempts BY DEF TypeOK, Act
  <2> QED BY <2>1 DEF EndJob, TypeOK, Larger
<1>5. MainBusy'
  <2>1. CASE a = "main" BY <1>1, <2>1 DEF MainBusy, TypeOK, Actors, Idle
  <2>2. CASE a # "main"
    BY <1>1, <2>2 DEF MainBusy, TypeOK, Actors, EndJob
  <2> QED BY <2>1, <2>2
<1> QED BY <1>1, <1>2, <1>3, <1>4, <1>5

\* Typing of the variables, action by action.
LEMMA TypeStep == TypeOK /\ MainBusy /\ [Next]_vars => TypeOK' /\ MainBusy'
<1> SUFFICES ASSUME TypeOK, MainBusy, [Next]_vars PROVE TypeOK' /\ MainBusy' OBVIOUS
<1> USE WorkerRunAssumption
<1>i. Idle \in Act
  <2>1. Cardinality(Rows) \in Nat BY FS_CardinalityType
  <2> QED BY <2>1 DEF Act, Idle, NoCounts, Tally, Count
<1>c. Counts(row) \in Tally BY CountsOfRows DEF TypeOK
<1>1. CASE MainStart
  <2>1. run' \in Run BY <1>1 DEF MainStart, TypeOK, Run, RunStatuses
  <2>2. [Idle EXCEPT !.pc = "rows", !.todo = Rows] \in Act BY <1>i DEF Act
  <2>3. act' \in [Actors -> Act] BY <1>1, <2>2 DEF MainStart, TypeOK
  <2> QED BY <1>1, <2>1, <2>3 DEF MainStart, TypeOK, MainBusy, queue
<1>2. ASSUME NEW r \in Rows, RcptStart(r) PROVE TypeOK' /\ MainBusy'
  <2>1. rcptJob[r] - 1 \in 0 .. JobAttempts BY <1>2 DEF RcptStart, TypeOK
  <2>2. [Idle EXCEPT !.pc = "rows", !.todo = {r}, !.job = r, !.left = rcptJob[r] - 1] \in Act
    BY <1>i, <2>1 DEF Act
  <2>3. act' \in [Actors -> Act] BY <1>2, <2>2 DEF RcptStart, TypeOK
  <2>4. rcptJob' \in [Rows -> 0 .. JobAttempts] BY <1>2 DEF RcptStart, TypeOK
  <2>5. act'["main"] = act["main"] BY <1>2 DEF RcptStart, TypeOK, Actors
  <2> QED BY <1>2, <2>3, <2>4, <2>5 DEF RcptStart, TypeOK, MainBusy, ledger
<1>3. ASSUME NEW a \in Actors, NEW r \in Rows, Claim(a, r) PROVE TypeOK' /\ MainBusy'
  <2>1. row' \in [Rows -> RowStatuses] BY <1>3 DEF Claim, TypeOK, RowStatuses
  <2>2. due' \in [Rows -> BOOLEAN] BY <1>3 DEF Claim, TypeOK
  <2>3. tries' \in [Rows -> 0 .. MaxTries + 1] BY <1>3 DEF Claim, TypeOK
  <2>4. holder' \in [Rows -> Actors \cup {Nobody}] BY <1>3 DEF Claim, TypeOK
  <2>5. [act[a] EXCEPT !.pc = "sending", !.cur = r, !.todo = @ \ {r}] \in Act
    BY DEF TypeOK, Act
  <2>6. act' = [act EXCEPT ![a] = [act[a] EXCEPT !.pc = "sending", !.cur = r, !.todo = @ \ {r}]]
    BY <1>3 DEF Claim, TypeOK, Act
  <2>7. act' \in [Actors -> Act] BY <2>5, <2>6 DEF TypeOK
  <2>8. act'["main"].pc # "idle" => act["main"].pc # "idle"
    BY <1>3, <2>6 DEF Claim, TypeOK, Actors
  <2> QED BY <1>3, <2>1, <2>2, <2>3, <2>4, <2>7, <2>8 DEF Claim, TypeOK, MainBusy, queue
<1>4. ASSUME NEW a \in Actors, NEW r \in Rows, Unclaimed(a, r) PROVE TypeOK' /\ MainBusy'
  <2> DEFINE x == [act[a] EXCEPT !.retry = @ \/ RetryUnclaimed(row[r]), !.todo = @ \ {r}]
  <2>1. (act[a].retry \/ RetryUnclaimed(row[r])) \in BOOLEAN BY DEF TypeOK, Act, RetryUnclaimed, Retryable
  <2>2. x \in Act BY <2>1 DEF TypeOK, Act
  <2>3. act' = [act EXCEPT ![a] = x] BY <1>4 DEF Unclaimed, TypeOK, Act
  <2>4. act' \in [Actors -> Act] BY <2>2, <2>3 DEF TypeOK
  <2>5. act'["main"].pc # "idle" => act["main"].pc # "idle"
    BY <1>4, <2>3 DEF Unclaimed, TypeOK, Actors
  <2> QED BY <1>4, <2>4, <2>5 DEF Unclaimed, TypeOK, MainBusy, ledger, queue
<1>5. ASSUME NEW a \in Actors, Complete(a) PROVE TypeOK' /\ MainBusy'
  <2> DEFINE q == act[a].cur
  <2>1. PICK s \in Answers(q) :
          /\ row' = [row EXCEPT ![q] = s]
          /\ act' = [act EXCEPT ![a].pc = "rows", ![a].cur = NoRow,
                                ![a].retry = @ \/ s = "retry_wait"]
    BY <1>5 DEF Complete
  <2>2. s \in RowStatuses BY DEF Answers, RowStatuses
  <2>3. row' \in [Rows -> RowStatuses] BY <2>1, <2>2 DEF TypeOK
  <2>4. due' \in [Rows -> BOOLEAN] BY <1>5 DEF Complete, TypeOK
  <2>5. holder' \in [Rows -> Actors \cup {Nobody}] BY <1>5 DEF Complete, TypeOK
  <2> DEFINE x == [act[a] EXCEPT !.pc = "rows", !.cur = NoRow, !.retry = @ \/ s = "retry_wait"]
  <2>6. act[a] \in Act BY DEF TypeOK
  <2>7. x \in Act BY <2>6 DEF Act
  <2>8. act' = [act EXCEPT ![a] = x] BY <2>1 DEF TypeOK, Act
  <2>9. act' \in [Actors -> Act] BY <2>7, <2>8 DEF TypeOK
  <2>10. act'["main"].pc # "idle" => act["main"].pc # "idle"
    BY <1>5, <2>8 DEF Complete, TypeOK, Actors
  <2> QED BY <1>5, <2>3, <2>4, <2>5, <2>9, <2>10 DEF Complete, TypeOK, MainBusy, queue
<1>6. ASSUME NEW a \in Actors, Superseded(a) PROVE TypeOK' /\ MainBusy'
  <2>1. EndJob(a, TRUE) /\ act[a].pc # "idle" BY <1>6 DEF Superseded
  <2> QED BY <1>6, <2>1, JobEnds DEF Superseded, TypeOK, ledger
<1>7. CASE MainCount
  <2>1. CASE Unsettled(Counts(row), "main")
    <3>1. EndJob("main", TRUE) /\ act["main"].pc # "idle" BY <1>7, <2>1 DEF MainCount
    <3> QED BY <1>7, <3>1, JobEnds DEF MainCount, TypeOK, ledger, Actors
  <2>2. CASE ~Unsettled(Counts(row), "main")
    <3> DEFINE x == [act["main"] EXCEPT !.pc = "prepare", !.counts = Counts(row)]
    <3>1. x \in Act BY <1>c DEF TypeOK, Act, Actors
    <3>2. act' = [act EXCEPT !["main"] = x] BY <1>7, <2>2 DEF MainCount, TypeOK, Act, Actors
    <3>3. act' \in [Actors -> Act] BY <3>1, <3>2 DEF TypeOK
    <3>4. act["main"].pc # "idle" BY <1>7 DEF MainCount
    <3> QED BY <1>7, <2>2, <3>3, <3>4 DEF MainCount, TypeOK, MainBusy, ledger, queue
  <2> QED BY <2>1, <2>2
<1>8. CASE RcptCount
  <2>0. act["rcpt"].pc # "idle" /\ "rcpt" \in Actors BY <1>8 DEF RcptCount, Actors
  <2>1. ASSUME NEW failed \in BOOLEAN, EndJob("rcpt", failed) PROVE TypeOK' /\ MainBusy'
    BY <1>8, <2>0, <2>1, JobEnds DEF RcptCount, TypeOK, ledger
  <2>2. CASE ~act["rcpt"].retry /\ ~(Counts(row).open > 0)
    <3> DEFINE x == [act["rcpt"] EXCEPT !.pc = "prepare", !.counts = Counts(row)]
    <3>1. x \in Act BY <1>c DEF TypeOK, Act, Actors
    <3>2. act' = [act EXCEPT !["rcpt"] = x] BY <1>8, <2>2 DEF RcptCount, TypeOK, Act, Actors
    <3>3. act' \in [Actors -> Act] BY <3>1, <3>2 DEF TypeOK
    <3>4. act'["main"] = act["main"] BY <3>2 DEF TypeOK, Actors
    <3> QED BY <1>8, <2>2, <3>3, <3>4 DEF RcptCount, TypeOK, MainBusy, ledger, queue
  <2> QED BY <1>8, <2>1, <2>2 DEF RcptCount
\* The finaliser and the reconciliation.
<1>9. ASSUME NEW a \in Actors, NEW p \in {"report", "finish"}, NEW q \in Run,
             act[a].pc \in Finalizing, run' = q, act' = [act EXCEPT ![a].pc = p],
             UNCHANGED <<row, due, tries, holder, queue, cancelling, upsets>>
      PROVE  TypeOK' /\ MainBusy'
  <2>1. [act[a] EXCEPT !.pc = p] \in Act BY DEF TypeOK, Act
  <2>2. act' = [act EXCEPT ![a] = [act[a] EXCEPT !.pc = p]] BY <1>9 DEF TypeOK, Act
  <2>3. act' \in [Actors -> Act] BY <2>1, <2>2 DEF TypeOK
  <2>4. act'["main"].pc # "idle" => act["main"].pc # "idle"
    BY <1>9, <2>2 DEF TypeOK, Actors, Finalizing
  <2> QED BY <1>9, <2>3, <2>4 DEF TypeOK, MainBusy, queue
<1>10. ASSUME NEW a \in Actors, Prepare(a) PROVE TypeOK' /\ MainBusy'
  <2>1. Preparing(run) \in Run BY DEF TypeOK, Preparing, Run, RunStatuses
  <2> QED BY <1>9, <1>10, <2>1 DEF Prepare, Finalizing
<1>11. ASSUME NEW a \in Actors, StoreReport(a) PROVE TypeOK' /\ MainBusy'
  <2>1. Reported(run) \in Run BY DEF TypeOK, Reported, Run
  <2> QED BY <1>9, <1>11, <2>1 DEF StoreReport, Finalizing
<1>12. ASSUME NEW a \in Actors, Finish(a) PROVE TypeOK' /\ MainBusy'
  <2>1. run' \in Run
    BY <1>12, OutcomeEnds DEF Finish, TypeOK, Finished, Run, RunStatuses, Ended
  <2>2. EndJob(a, FALSE) /\ act[a].pc # "idle" BY <1>12 DEF Finish
  <2> QED BY <1>12, <2>1, <2>2, JobEnds DEF Finish, TypeOK
<1>13. ASSUME NEW a \in Actors, Catch(a) PROVE TypeOK' /\ MainBusy'
  <2>1. run' \in Run BY <1>13 DEF Catch, TypeOK, NotFinished, Run, RunStatuses
  <2>2. EndJob(a, TRUE) /\ act[a].pc # "idle" BY <1>13 DEF Catch
  <2>3. upsets' \in 0 .. MaxUpsets BY <1>13 DEF Catch, TypeOK
  <2> QED BY <1>13, <2>1, <2>2, <2>3, JobEnds DEF Catch, TypeOK
<1>14. CASE ReconPick
  <2>1. [act["recon"] EXCEPT !.pc = "picked"] \in Act BY DEF TypeOK, Act, Actors
  <2>2. act' = [act EXCEPT !["recon"] = [act["recon"] EXCEPT !.pc = "picked"]]
    BY <1>14 DEF ReconPick, TypeOK, Act, Actors
  <2>3. act' \in [Actors -> Act] BY <2>1, <2>2 DEF TypeOK
  <2>4. act'["main"] = act["main"] BY <2>2 DEF TypeOK, Actors
  <2> QED BY <1>14, <2>3, <2>4 DEF ReconPick, TypeOK, MainBusy, ledger, queue
<1>15. CASE ReconStart
  <2> DEFINE x == [Idle EXCEPT !.pc = "count", !.retry = (OpenRows(row) # {}),
                               !.finished = Concluded(run)]
  <2>1. Concluded(run) \in BOOLEAN BY DEF Concluded, TypeOK, Run
  <2>2. x \in Act BY <1>i, <2>1 DEF Act
  <2>3. act' = [act EXCEPT !["recon"] = x] BY <1>15 DEF ReconStart
  <2>4. act' \in [Actors -> Act] BY <2>2, <2>3 DEF TypeOK
  <2>5. act'["main"] = act["main"] BY <2>3 DEF TypeOK, Actors
  <2>6. rcptJob' \in [Rows -> 0 .. JobAttempts] BY <1>15 DEF ReconStart, Enqueue, TypeOK
  <2> QED BY <1>15, <2>4, <2>5, <2>6 DEF ReconStart, TypeOK, MainBusy, ledger
<1>16. CASE ReconCount
  <2>1. run' \in Run BY <1>16 DEF ReconCount, TypeOK, Preparing, Run, RunStatuses
  <2>2. [act["recon"] EXCEPT !.pc = "prepare", !.counts = Counts(row)] \in Act
    BY <1>c DEF TypeOK, Act, Actors
  <2>3. act' \in [Actors -> Act] /\ act'["main"] = act["main"]
    BY <1>16, <1>i, <2>2 DEF ReconCount, TypeOK, Actors
  <2> QED BY <1>16, <2>1, <2>3 DEF ReconCount, TypeOK, MainBusy, queue
<1>17. CASE CancelCheck
  BY <1>17 DEF CancelCheck, TypeOK, MainBusy, ledger, queue
<1>18. CASE CancelRows
  <2>1. row' \in [Rows -> RowStatuses] BY <1>18 DEF CancelRows, TypeOK, RowStatuses
  <2> QED BY <1>18, <2>1 DEF CancelRows, TypeOK, MainBusy, queue
<1>19. CASE CancelRun
  <2>1. run' \in Run BY <1>19 DEF CancelRun, TypeOK, Run, RunStatuses
  <2> QED BY <1>19, <2>1 DEF CancelRun, TypeOK, MainBusy, queue
<1>20. CASE RetryFailed
  <2>1. row' \in [Rows -> RowStatuses] BY <1>20 DEF RetryFailed, TypeOK, RowStatuses
  <2>2. due' \in [Rows -> BOOLEAN] BY <1>20 DEF RetryFailed, TypeOK
  <2>3. run' \in Run BY <1>20 DEF RetryFailed, TypeOK, Run, RunStatuses
  <2>4. rcptJob' \in [Rows -> 0 .. JobAttempts] BY <1>20 DEF RetryFailed, Enqueue, TypeOK
  <2>5. upsets' \in 0 .. MaxUpsets BY <1>20 DEF RetryFailed, TypeOK
  <2>6. UNCHANGED <<tries, holder, mainJob, act, cancelling>> BY <1>20 DEF RetryFailed
  <2> QED BY <2>1, <2>2, <2>3, <2>4, <2>5, <2>6 DEF TypeOK, MainBusy
<1>21. ASSUME NEW r \in Rows, BecomesDue(r) PROVE TypeOK' /\ MainBusy'
  <2>1. due' \in [Rows -> BOOLEAN] BY <1>21 DEF BecomesDue, TypeOK
  <2> QED BY <1>21, <2>1 DEF BecomesDue, TypeOK, MainBusy, queue
<1>22. ASSUME NEW a \in Actors, Crash(a) PROVE TypeOK' /\ MainBusy'
  <2>1. EndJob(a, TRUE) /\ act[a].pc # "idle" BY <1>22 DEF Crash
  <2>2. upsets' \in 0 .. MaxUpsets BY <1>22 DEF Crash, TypeOK
  <2> QED BY <1>22, <2>1, <2>2, JobEnds DEF Crash, TypeOK, ledger
<1>23. CASE UNCHANGED vars
  BY <1>23 DEF vars, ledger, queue, TypeOK, MainBusy
<1> QED
  BY <1>1, <1>2, <1>3, <1>4, <1>5, <1>6, <1>7, <1>8, <1>10, <1>11, <1>12, <1>13, <1>14,
     <1>15, <1>16, <1>17, <1>18, <1>19, <1>20, <1>21, <1>22, <1>23
     DEF Next, Main, Rcpt, Recon, Clock, Deliver, Finalize, Actors

-----------------------------------------------------------------------------
\* What a step may do to the rows and their claims.
LEMMA RowSteps ==
  ASSUME [Next]_vars
  PROVE  \/ UNCHANGED <<row, holder>>
         \/ \E a \in Actors, r \in Rows : Claim(a, r)
         \/ \E a \in Actors : Complete(a)
         \/ CancelRows \/ RetryFailed
<1>1. MainStart \/ MainCount \/ RcptCount => UNCHANGED <<row, holder>>
  BY DEF MainStart, MainCount, RcptCount, ledger
<1>2. ReconPick \/ ReconStart \/ ReconCount => UNCHANGED <<row, holder>>
  BY DEF ReconPick, ReconStart, ReconCount, ledger
<1>3. ASSUME NEW a, Finalize(a) \/ Catch(a) \/ Crash(a) \/ Superseded(a)
      PROVE  UNCHANGED <<row, holder>>
  BY <1>3 DEF Finalize, Prepare, StoreReport, Finish, Catch, Crash, Superseded, ledger
<1>4. ASSUME NEW a, NEW r \in Rows, RcptStart(r) \/ Unclaimed(a, r) \/ BecomesDue(r)
      PROVE  UNCHANGED <<row, holder>>
  BY <1>4 DEF RcptStart, Unclaimed, BecomesDue, ledger
<1>5. CancelCheck \/ CancelRun \/ UNCHANGED vars => UNCHANGED <<row, holder>>
  BY DEF CancelCheck, CancelRun, vars, ledger
<1> QED BY <1>1, <1>2, <1>3, <1>4, <1>5
           DEF Next, Main, Rcpt, Recon, Clock, Deliver, Actors

Settled(r) == row[r] \in {"accepted", "unknown", "cancelled"}

\* Only a claimed row is completed, so an accepted, unknown or cancelled one is final.
LEMMA RowsStep ==
  ASSUME TypeOK, Claims, [Next]_vars
  PROVE  Claims' /\ \A r \in Rows : Settled(r) => row'[r] = row[r]
<1>0. Nobody \notin Actors BY DEF Nobody, Actors
<1>1. CASE UNCHANGED <<row, holder>> BY <1>1 DEF Claims
<1>2. ASSUME NEW a \in Actors, NEW q \in Rows, Claim(a, q)
      PROVE  Claims' /\ \A r \in Rows : Settled(r) => row'[r] = row[r]
  <2>1. Retryable(row[q]) BY <1>2 DEF Claim, Claimable
  <2>2. ~Settled(q) BY <2>1 DEF Retryable, Settled
  <2> QED BY <1>2, <2>2 DEF Claim, Claims, TypeOK
<1>3. ASSUME NEW a \in Actors, Complete(a)
      PROVE  Claims' /\ \A r \in Rows : Settled(r) => row'[r] = row[r]
  <2> DEFINE q == act[a].cur
  <2>1. holder[q] = a /\ holder' = [holder EXCEPT ![q] = Nobody] BY <1>3 DEF Complete
  <2>2. \E x : row' = [row EXCEPT ![q] = x] BY <1>3 DEF Complete
  <2>3. q \in Rows => row[q] = "processing" BY <1>0, <2>1 DEF Claims
  <2>4. \A r \in Rows : r # q => row'[r] = row[r] /\ holder'[r] = holder[r]
    BY <2>1, <2>2 DEF TypeOK
  <2>5. q \in Rows => holder'[q] = Nobody /\ ~Settled(q)
    BY <2>1, <2>3 DEF TypeOK, Settled
  <2> QED BY <2>4, <2>5 DEF Claims
<1>4. CASE CancelRows
  BY <1>4 DEF CancelRows, Unsent, Claims, TypeOK, Settled
<1>5. CASE RetryFailed
  BY <1>5 DEF RetryFailed, Claims, TypeOK, Settled
<1> QED BY <1>1, <1>2, <1>3, <1>4, <1>5, RowSteps

-----------------------------------------------------------------------------
\* What a step may do to the run.
LEMMA RunSteps ==
  ASSUME TypeOK, [Next]_vars
  PROVE  \/ run' = run
         \/ run'.status \in {"sending", "cancelled"} /\ run'.report = run.report
         \/ run'.completed = FALSE /\ run'.status # "success" /\ run'.report = run.report
         \/ \E a \in Actors : StoreReport(a)
         \/ \E a \in Actors : Finish(a)
<1> DEFINE G == \/ run' = run
                \/ run'.status \in {"sending", "cancelled"} /\ run'.report = run.report
                \/ run'.completed = FALSE /\ run'.status # "success" /\ run'.report = run.report
                \/ \E a \in Actors : StoreReport(a)
                \/ \E a \in Actors : Finish(a)
<1>0. run \in Run BY DEF TypeOK
<1>1. MainStart \/ CancelRun \/ RetryFailed => G
  BY <1>0 DEF MainStart, CancelRun, RetryFailed, Run
<1>2. ReconCount => G BY <1>0 DEF ReconCount, Preparing, Run
<1>3. ASSUME NEW a, Prepare(a) PROVE G BY <1>0, <1>3 DEF Prepare, Preparing, Run
<1>4. ASSUME NEW a, Catch(a) PROVE G BY <1>0, <1>4 DEF Catch, NotFinished, Run
<1>5. MainCount \/ RcptCount \/ ReconPick \/ ReconStart \/ CancelCheck \/ CancelRows
        \/ UNCHANGED vars => run' = run
  BY DEF MainCount, RcptCount, ReconPick, ReconStart, CancelCheck, CancelRows, vars, ledger
<1>6. ASSUME NEW a, Crash(a) \/ Superseded(a) \/ Complete(a) PROVE run' = run
  BY <1>6 DEF Crash, Superseded, Complete, ledger
<1>7. ASSUME NEW a, NEW r \in Rows,
             RcptStart(r) \/ Claim(a, r) \/ Unclaimed(a, r) \/ BecomesDue(r)
      PROVE  run' = run
  BY <1>7 DEF RcptStart, Claim, Unclaimed, BecomesDue, ledger
<1> QED BY <1>1, <1>2, <1>3, <1>4, <1>5, <1>6, <1>7
           DEF Next, Main, Rcpt, Recon, Clock, Deliver, Finalize, Actors

\* A worker that is finalising after a step was before it, with the same counts,
\* or has just counted and found nothing open.
LEMMA FinalizerSteps ==
  ASSUME TypeOK, [Next]_vars, NEW a \in Actors, act'[a].pc \in Finalizing
  PROVE  \/ /\ act[a].pc \in Finalizing /\ act'[a].counts = act[a].counts
            /\ act'[a].pc = "finish" => act[a].pc = "finish" \/ StoreReport(a)
         \/ /\ ~(Counts(row).open > 0) /\ act'[a].counts = Counts(row)
            /\ act'[a].pc = "prepare"
<1> DEFINE G ==
      \/ /\ act[a].pc \in Finalizing /\ act'[a].counts = act[a].counts
         /\ act'[a].pc = "finish" => act[a].pc = "finish" \/ StoreReport(a)
      \/ /\ ~(Counts(row).open > 0) /\ act'[a].counts = Counts(row)
         /\ act'[a].pc = "prepare"
<1>0. act \in [Actors -> Act] /\ act[a] \in Act BY DEF TypeOK
<1>1. act'[a] = act[a] => G OBVIOUS
<1>2. Idle.pc \notin Finalizing BY DEF Idle, Finalizing
<1>3. ASSUME NEW b, NEW failed, EndJob(b, failed) PROVE G
  BY <1>0, <1>1, <1>2, <1>3 DEF EndJob
<1>4. MainStart \/ ReconPick \/ ReconStart => G
  <2>1. MainStart => G BY <1>0, <1>1 DEF MainStart, Finalizing, Idle
  <2>2. ReconPick => G BY <1>0, <1>1 DEF ReconPick, Finalizing, Act
  <2>3. ReconStart => G BY <1>0, <1>1 DEF ReconStart, Finalizing, Idle
  <2> QED BY <2>1, <2>2, <2>3
<1>5. ASSUME NEW r, RcptStart(r) PROVE G
  BY <1>0, <1>1, <1>5 DEF RcptStart, Finalizing, Idle
<1>6. ASSUME NEW b, NEW r, Claim(b, r) \/ Unclaimed(b, r) PROVE G
  BY <1>0, <1>1, <1>6 DEF Claim, Unclaimed, Finalizing, Act
<1>7. ASSUME NEW b, Complete(b) PROVE G
  BY <1>0, <1>1, <1>7 DEF Complete, Finalizing, Act
<1>8. ASSUME NEW b, Superseded(b) \/ Finish(b) \/ Catch(b) \/ Crash(b) PROVE G
  BY <1>3, <1>8 DEF Superseded, Finish, Catch, Crash
<1>9. MainCount \/ RcptCount => G
  <2>1. CASE \E b, f : EndJob(b, f) BY <1>3, <2>1
  <2>2. ASSUME NEW b, act' = [act EXCEPT ![b].pc = "prepare", ![b].counts = Counts(row)],
               ~(Counts(row).open > 0)
        PROVE  G
    <3>1. CASE b = a BY <1>0, <2>2, <3>1 DEF Act
    <3>2. CASE b # a BY <1>0, <1>1, <2>2, <3>2
    <3> QED BY <3>1, <3>2
  <2>3. CASE MainCount BY <2>1, <2>2, <2>3 DEF MainCount, Unsettled
  <2>4. CASE RcptCount BY <2>1, <2>2, <2>4 DEF RcptCount
  <2> QED BY <2>3, <2>4
<1>10. ASSUME ReconCount PROVE G
  <2>1. CASE act' = [act EXCEPT !["recon"] = Idle] BY <1>0, <1>1, <1>2, <2>1
  <2>2. CASE /\ ~(Counts(row).open > 0)
             /\ act' = [act EXCEPT !["recon"] =
                          [act["recon"] EXCEPT !.pc = "prepare", !.counts = Counts(row)]]
    <3>1. CASE a = "recon" BY <1>0, <2>2, <3>1 DEF Act
    <3>2. CASE a # "recon" BY <1>0, <1>1, <2>2, <3>2
    <3> QED BY <3>1, <3>2
  <2> QED BY <1>10, <2>1, <2>2 DEF ReconCount
<1>11. ASSUME NEW b, Prepare(b) \/ StoreReport(b) PROVE G
  BY <1>0, <1>1, <1>11 DEF Prepare, StoreReport, Finalizing, Act
<1>12. CancelCheck \/ CancelRows \/ CancelRun \/ RetryFailed \/ UNCHANGED vars => G
  BY <1>1 DEF CancelCheck, CancelRows, CancelRun, RetryFailed, vars
<1>13. ASSUME NEW r, BecomesDue(r) PROVE G BY <1>1, <1>13 DEF BecomesDue
<1> QED BY <1>4, <1>5, <1>6, <1>7, <1>8, <1>9, <1>10, <1>11, <1>12, <1>13
           DEF Next, Main, Rcpt, Recon, Clock, Deliver, Finalize, Actors

-----------------------------------------------------------------------------
LEMMA StepInv == IInv /\ [Next]_vars => IInv'
<1> SUFFICES ASSUME IInv, [Next]_vars PROVE IInv' OBVIOUS
<1> USE DEF IInv
<1>1. TypeOK' /\ MainBusy' BY TypeStep
<1>2. Claims' BY RowsStep
<1>3. AllAccepted => AllAccepted' BY RowsStep DEF AllAccepted, Settled
<1>4. Successful'
  <2> SUFFICES ASSUME NEW a \in Actors, act'[a].pc \in Finalizing,
                      Outcome(act'[a].counts) = "success"
               PROVE  AllAccepted'
    BY DEF Successful
  <2>1. CASE act[a].pc \in Finalizing /\ act'[a].counts = act[a].counts
    BY <1>3, <2>1 DEF Successful
  <2>2. CASE ~(Counts(row).open > 0) /\ act'[a].counts = Counts(row)
    BY <1>3, <2>2, CountsOfRows, WorkerRunAssumption DEF TypeOK, AllAccepted
  <2> QED BY <2>1, <2>2, FinalizerSteps
\* A stored report stays, and StoreReport stores it.
<1>5. run.report => run'.report
  <2>1. run \in Run BY DEF TypeOK
  <2>2. ASSUME NEW a, StoreReport(a) \/ Finish(a), run.report PROVE run'.report
    BY <2>1, <2>2 DEF StoreReport, Finish, Reported, Finished, Run
  <2> QED BY <2>2, RunSteps
<1>6. Stored'
  <2> SUFFICES ASSUME NEW a \in Actors, act'[a].pc = "finish" PROVE run'.report
    BY DEF Stored
  <2>1. act[a].pc = "finish" \/ StoreReport(a) BY FinalizerSteps DEF Finalizing
  <2>2. StoreReport(a) => run'.report BY DEF StoreReport, Reported, TypeOK, Run
  <2> QED BY <1>5, <2>1, <2>2 DEF Stored
<1>7. SuccessMeansAccepted' /\ FinishedHasReport'
  <2>0. run \in Run BY DEF TypeOK
  <2>1. CASE run' = run BY <1>3, <2>1 DEF SuccessMeansAccepted, FinishedHasReport, AllAccepted
  <2>2. CASE run'.status \in {"sending", "cancelled"}
    BY <2>2 DEF SuccessMeansAccepted, FinishedHasReport, Ended
  <2>3. CASE run'.completed = FALSE /\ run'.status # "success"
    BY <2>3 DEF SuccessMeansAccepted, FinishedHasReport
  <2>4. ASSUME NEW a \in Actors, StoreReport(a)
        PROVE  SuccessMeansAccepted' /\ FinishedHasReport'
    <3>1. run'.status = run.status /\ run'.report
      BY <2>0, <2>4 DEF StoreReport, Reported, Run
    <3> QED BY <1>3, <3>1 DEF SuccessMeansAccepted, FinishedHasReport, AllAccepted
  <2>5. ASSUME NEW a \in Actors, Finish(a)
        PROVE  SuccessMeansAccepted' /\ FinishedHasReport'
    <3>1. act[a].pc = "finish" /\ run' = Finished(run, act[a].counts) BY <2>5 DEF Finish
    <3>2. run'.status = Outcome(act[a].counts) BY <2>0, <3>1 DEF Finished, Run
    <3>3. run'.report BY <1>5, <3>1 DEF Stored
    <3>4. run'.status = "success" => AllAccepted'
      BY <1>3, <3>1, <3>2 DEF Successful, Finalizing
    <3> QED BY <3>3, <3>4 DEF SuccessMeansAccepted, FinishedHasReport, AllAccepted
  <2> QED BY <2>1, <2>2, <2>3, <2>4, <2>5, RunSteps
<1> QED BY <1>1, <1>2, <1>4, <1>6, <1>7

\* The inductive invariant of a weekly run.
THEOREM Invariant == Spec => []IInv
BY InitInv, StepInv, PTL DEF Spec

\* Every reachable state is well typed.
THEOREM TypeCorrect == Spec => []TypeOK
BY Invariant, PTL DEF IInv

\* Whoever finalises a run and however old its counts are, it is shown as a
\* success only if LINE accepted every recipient.
THEOREM SuccessIsReal == Spec => []SuccessMeansAccepted
BY Invariant, PTL DEF IInv

\* A run shown as finished has its report.
THEOREM ReportIsThere == Spec => []FinishedHasReport
BY Invariant, PTL DEF IInv

\* A cancelled recipient is never taken up again.
THEOREM CancelledStay == Spec => CancelledRowsStay
<1>1. IInv /\ [Next]_vars => [\A r \in Rows : row[r] = "cancelled" => row'[r] = "cancelled"]_vars
  BY RowsStep DEF IInv, Settled
<1> QED BY <1>1, Invariant, PTL DEF Spec, CancelledRowsStay

-----------------------------------------------------------------------------
(* What a finaliser overlooks                                              *)

\* A row may still be delivered: it is open, or failed and can be retried.
Loose(r) == Retryable(row[r]) \/ row[r] = "failed"
LooseRows == {r \in Rows : Loose(r)}

\* A finaliser counted as failed at least the rows that may still be delivered.
Foreseen == \A a \in Actors :
  act[a].pc \in Finalizing => Cardinality(LooseRows) <= act[a].counts.failed

\* A row once accepted, unknown or cancelled is not delivered again.
LEMMA LooseStep ==
  ASSUME TypeOK, Claims, [Next]_vars
  PROVE  \A r \in Rows : Loose(r)' => Loose(r)
<1> USE DEF Loose
<1>0. Nobody \notin Actors BY DEF Nobody, Actors
<1>1. CASE UNCHANGED <<row, holder>> BY <1>1
<1>2. ASSUME NEW a \in Actors, NEW q \in Rows, Claim(a, q)
      PROVE  \A r \in Rows : Loose(r)' => Loose(r)
  <2>1. Retryable(row[q]) /\ \A r \in Rows : r # q => row'[r] = row[r]
    BY <1>2 DEF Claim, Claimable, TypeOK
  <2> QED BY <2>1
<1>3. ASSUME NEW a \in Actors, Complete(a)
      PROVE  \A r \in Rows : Loose(r)' => Loose(r)
  <2> DEFINE q == act[a].cur
  <2>1. holder[q] = a /\ \E x : row' = [row EXCEPT ![q] = x] BY <1>3 DEF Complete
  <2>2. q \in Rows => Retryable(row[q]) BY <1>0, <2>1 DEF Claims, Retryable
  <2>3. \A r \in Rows : r # q => row'[r] = row[r] BY <2>1 DEF TypeOK
  <2> QED BY <2>2, <2>3
<1>4. CASE CancelRows BY <1>4 DEF CancelRows, TypeOK, Retryable
<1>5. CASE RetryFailed BY <1>5 DEF RetryFailed, TypeOK
<1> QED BY <1>1, <1>2, <1>3, <1>4, <1>5, RowSteps

\* Fewer rows are not more.
LEMMA LooseFewer ==
  ASSUME TypeOK, Claims, [Next]_vars
  PROVE  /\ Cardinality(LooseRows') <= Cardinality(LooseRows)
         /\ Cardinality(LooseRows) \in Nat /\ Cardinality(LooseRows') \in Nat
<1>1. LooseRows' \subseteq LooseRows BY LooseStep DEF LooseRows
<1>2. IsFiniteSet(LooseRows) BY FS_Subset, WorkerRunAssumption DEF LooseRows
<1> QED BY <1>1, <1>2, FS_Subset, FS_CardinalityType

LEMMA ForeseenStep == IInv /\ Foreseen /\ [Next]_vars => Foreseen'
<1> SUFFICES ASSUME IInv, Foreseen, [Next]_vars, NEW a \in Actors, act'[a].pc \in Finalizing
             PROVE  Cardinality(LooseRows') <= act'[a].counts.failed
  BY DEF Foreseen
<1> USE DEF IInv
<1>1. /\ Cardinality(LooseRows') <= Cardinality(LooseRows)
      /\ Cardinality(LooseRows) \in Nat /\ Cardinality(LooseRows') \in Nat
  BY LooseFewer
<1>2. CASE act[a].pc \in Finalizing /\ act'[a].counts = act[a].counts
  <2>1. act[a].counts.failed \in Nat
    BY FS_CardinalityType, WorkerRunAssumption DEF TypeOK, Act, Tally, Count
  <2> QED BY <1>1, <1>2, <2>1 DEF Foreseen
\* At the count nothing was open, so all that may still be delivered was failed.
<1>3. CASE ~(Counts(row).open > 0) /\ act'[a].counts = Counts(row)
  <2>1. \A r \in Rows : ~Retryable(row[r])
    BY <1>3, CountsOfRows, WorkerRunAssumption DEF TypeOK
  <2>2. LooseRows = {r \in Rows : row[r] \in {"failed"}} BY <2>1 DEF LooseRows, Loose
  <2>3. Counts(row).failed = Cardinality(LooseRows) BY <2>2 DEF Counts, HowMany
  <2> QED BY <1>1, <1>3, <2>3
<1> QED BY <1>2, <1>3, FinalizerSteps

\* The rows that are open when a run is declared finished are no more than those its
\* finaliser counted as failed: an administrator retried them after the count. No row
\* that was open at the count is overlooked.
THEOREM OnlyRetriedOverlooked == Spec => OverlooksOnlyRetried
<1>1. Init => Foreseen BY DEF Init, Foreseen, Finalizing, Idle
<1>2. IInv /\ Foreseen =>
        \A a \in Actors : Finish(a) => Cardinality(OpenRows(row)) <= act[a].counts.failed
  <2> SUFFICES ASSUME IInv, Foreseen, NEW a \in Actors, act[a].pc = "finish"
               PROVE  Cardinality(OpenRows(row)) <= act[a].counts.failed
    BY DEF Finish
  <2>1. OpenRows(row) \subseteq LooseRows BY DEF OpenRows, LooseRows, Loose
  <2>2. IsFiniteSet(LooseRows) BY FS_Subset, WorkerRunAssumption DEF LooseRows
  <2>3. /\ Cardinality(OpenRows(row)) <= Cardinality(LooseRows)
        /\ Cardinality(OpenRows(row)) \in Nat /\ Cardinality(LooseRows) \in Nat
    BY <2>1, <2>2, FS_Subset, FS_CardinalityType
  <2>4. act[a].counts.failed \in Nat
    BY FS_CardinalityType, WorkerRunAssumption DEF IInv, TypeOK, Act, Tally, Count
  <2>5. Cardinality(LooseRows) <= act[a].counts.failed BY DEF Foreseen, Finalizing
  <2> QED BY <2>3, <2>4, <2>5
<1>3. Spec => []Foreseen BY <1>1, Invariant, ForeseenStep, PTL DEF Spec
<1>4. IInv /\ Foreseen /\ [Next]_vars =>
        [\A a \in Actors : Finish(a) => Cardinality(OpenRows(row)) <= act[a].counts.failed]_vars
  BY <1>2
<1> QED BY <1>3, <1>4, Invariant, PTL DEF Spec, OverlooksOnlyRetried

-----------------------------------------------------------------------------
(* What the run promises: SavedRun                                         *)

\* What a finaliser is about to write is true of the rows as they are now.
Verdict == \A a \in Actors :
  act[a].pc \in Finalizing => Promise!Truthful(Outcome(act[a].counts))

\* What is true of the rows stays true of them: a verdict rests on final rows.
LEMMA TruthStays ==
  ASSUME TypeOK, Claims, [Next]_vars, NEW s, Promise!Truthful(s)
  PROVE  Promise!Truthful(s)'
<1>1. \A r \in Rows : Settled(r) => row'[r] = row[r] BY RowsStep
<1> QED BY <1>1 DEF Settled, Promise!Truthful

LEMMA VerdictStep == IInv /\ Verdict /\ [Next]_vars => Verdict'
<1> SUFFICES ASSUME IInv, Verdict, [Next]_vars, NEW a \in Actors, act'[a].pc \in Finalizing
             PROVE  Promise!Truthful(Outcome(act[a].counts))'
  BY DEF Verdict
<1> USE DEF IInv
<1> SUFFICES ASSUME NEW s, s = Outcome(act'[a].counts)
             PROVE  Promise!Truthful(s)'
  BY DEF Promise!Truthful
<1>1. CASE act[a].pc \in Finalizing /\ act'[a].counts = act[a].counts
  <2>1. Promise!Truthful(s) BY <1>1 DEF Verdict
  <2> QED BY <2>1, TruthStays
<1>2. CASE ~(Counts(row).open > 0) /\ act'[a].counts = Counts(row)
  <2>1. Promise!Truthful(s)
    BY <1>2, CountsOfRows, WorkerRunAssumption DEF TypeOK, Promise!Truthful
  <2> QED BY <2>1, TruthStays
<1> QED BY <1>1, <1>2, FinalizerSteps

\* The rows start as the run and the earlier sender left them.
LEMMA PromiseInit == Init => Promise!RunInit
BY DEF Init, NewRun, Promise!RunInit, Promise!NewRun, Promise!RowInit

\* Deliveries: a claim is an attempt, a completion under a claim settles it.
LEMMA PromiseClaim ==
  ASSUME NEW a, NEW r \in Rows, Claim(a, r)
  PROVE  Promise!RunNext
<1>1. Promise!Attempt(r)
  BY DEF Claim, Claimable, Retryable, Promise!Attempt, Promise!Retryable
<1> QED BY <1>1 DEF Claim, Promise!RunNext, Promise!Deliver

LEMMA PromiseComplete ==
  ASSUME IInv, NEW a \in Actors, Complete(a)
  PROVE  [Promise!RunNext]_(Promise!runVars)
<1> USE DEF IInv
<1> DEFINE q == act[a].cur
<1>1. PICK s \in Answers(q) : row' = [row EXCEPT ![q] = s] BY DEF Complete
<1>2. UNCHANGED <<run, tries>> BY DEF Complete
<1>3. CASE q \notin Rows
  <2>1. row' = row BY <1>1, <1>3 DEF TypeOK
  <2> QED BY <1>2, <2>1 DEF Promise!runVars, Promise!rowVars
<1>4. CASE q \in Rows
  <2>1. Nobody \notin Actors BY DEF Nobody, Actors
  <2>2. row[q] = "processing" BY <1>4, <2>1 DEF Complete, Claims
  <2>3. tries[q] \in Nat /\ MaxTries \in Nat BY <1>4, WorkerRunAssumption DEF TypeOK
  <2>4. s \in {"accepted", "failed", "unknown", "retry_wait"} BY DEF Answers
  <2>5. s = "accepted" => tries[q] <= MaxTries BY <2>3 DEF Answers
  <2>6. s = "retry_wait" => tries[q] < MaxTries BY <2>3 DEF Answers
  <2>7. Promise!Settle(q, s) BY <1>1, <1>2, <2>2, <2>5, <2>6 DEF Promise!Settle
  <2> QED BY <1>2, <1>4, <2>4, <2>7 DEF Promise!RunNext, Promise!Deliver
<1> QED BY <1>3, <1>4

\* The administrator's requests move the rows they name, and no others.
LEMMA PromiseRequests ==
  ASSUME TypeOK, CancelRows \/ CancelRun \/ RetryFailed
  PROVE  Promise!RunNext
<1>1. CASE CancelRows
  <2> DEFINE S == {r \in Rows : row[r] \in Unsent}
  <2>1. S \in SUBSET Rows OBVIOUS
  <2>2. Promise!Move(S, {"pending", "retry_wait"}, "cancelled")
    BY <1>1 DEF CancelRows, Unsent, Promise!Move
  <2>3. Promise!Cancel BY <2>1, <2>2 DEF Promise!Cancel
  <2> QED BY <1>1, <2>3 DEF CancelRows, Promise!RunNext
<1>2. CASE CancelRun
  BY <1>2 DEF CancelRun, Promise!RunNext, Promise!Update, Promise!rowVars
<1>3. CASE RetryFailed
  <2> DEFINE S == {r \in Rows : row[r] = "failed"}
  <2>1. S \in SUBSET Rows OBVIOUS
  <2>2. Promise!Move(S, {"failed"}, "pending") BY <1>3 DEF RetryFailed, Promise!Move
  <2>3. Promise!Retry BY <2>1, <2>2 DEF Promise!Retry
  <2> QED BY <1>3, <2>3 DEF RetryFailed, Promise!RunNext
<1> QED BY <1>1, <1>2, <1>3

\* The finalisation: what it writes is true, and it has stored the report.
LEMMA PromiseFinalize ==
  ASSUME IInv, Verdict, NEW a \in Actors, Finalize(a) \/ Catch(a)
  PROVE  Promise!RunNext
<1> USE DEF IInv
<1>1. UNCHANGED <<row, tries>> BY DEF Finalize, Prepare, StoreReport, Finish, Catch
<1> SUFFICES Promise!Update
  BY <1>1 DEF Promise!RunNext, Promise!rowVars
<1>2. CASE Prepare(a)
  BY <1>2 DEF Prepare, Preparing, Promise!Preparing, Promise!Update
<1>3. CASE StoreReport(a)
  BY <1>3 DEF StoreReport, Reported, Promise!Reported, Promise!Update
<1>4. CASE Finish(a)
  <2> DEFINE s == Outcome(act[a].counts)
  <2>1. act[a].pc = "finish" BY <1>4 DEF Finish
  <2>2. run.report /\ Promise!Truthful(s) BY <2>1 DEF Stored, Verdict, Finalizing
  <2>3. s \in Promise!Ended BY OutcomeEnds DEF Ended, Promise!Ended
  <2>4. run' = [run EXCEPT !.status = s, !.completed = TRUE] BY <1>4 DEF Finish, Finished
  <2>5. Promise!Finish(s) BY <2>2, <2>4 DEF Promise!Finish
  <2> QED BY <2>3, <2>5 DEF Promise!Update
<1>5. CASE Catch(a)
  BY <1>5 DEF Catch, NotFinished, Promise!NotFinished, Promise!Update
<1> QED BY <1>2, <1>3, <1>4, <1>5 DEF Finalize

\* The rest does nothing that can be seen, or marks the run as in progress.
LEMMA PromiseRest ==
  ASSUME IInv, Verdict, [Next]_vars
  PROVE  [Promise!RunNext]_(Promise!runVars)
<1> DEFINE Kept == [Promise!RunNext]_(Promise!runVars)
<1> SUFFICES Kept OBVIOUS
<1> HIDE DEF Kept
<1>1. ASSUME UNCHANGED <<run, row, tries>> PROVE Kept
  BY <1>1 DEF Kept, Promise!runVars, Promise!rowVars
<1>2. CASE UNCHANGED vars \/ ReconPick \/ ReconStart \/ CancelCheck
  BY <1>1, <1>2 DEF vars, ledger, ReconPick, ReconStart, CancelCheck
<1>3. CASE MainCount \/ RcptCount BY <1>1, <1>3 DEF MainCount, RcptCount, ledger
<1>4. ASSUME NEW a \in Actors, Superseded(a) \/ Crash(a) PROVE Kept
  BY <1>1, <1>4 DEF Superseded, Crash, ledger
<1>5. ASSUME NEW a \in Actors, NEW r \in Rows, Unclaimed(a, r) \/ RcptStart(r) \/ BecomesDue(r)
      PROVE  Kept
  BY <1>1, <1>5 DEF Unclaimed, RcptStart, BecomesDue, ledger
<1>6. ASSUME run' = Preparing(run), UNCHANGED <<row, tries>> PROVE Kept
  BY <1>6 DEF Kept, Preparing, Promise!Preparing, Promise!RunNext, Promise!Update, Promise!rowVars
<1>7. CASE MainStart BY <1>6, <1>7 DEF MainStart, Preparing
<1>8. CASE ReconCount BY <1>1, <1>6, <1>8 DEF ReconCount
<1>9. CASE CancelRows \/ CancelRun \/ RetryFailed BY <1>9, PromiseRequests DEF IInv, Kept
<1>10. ASSUME NEW a \in Actors, NEW r \in Rows, Claim(a, r) PROVE Kept BY <1>10, PromiseClaim DEF Kept
<1>11. ASSUME NEW a \in Actors, Complete(a) PROVE Kept BY <1>11, PromiseComplete DEF Kept
<1>12. ASSUME NEW a \in Actors, Finalize(a) \/ Catch(a) PROVE Kept BY <1>12, PromiseFinalize DEF Kept
<1>13. ASSUME NEW a \in Actors, Deliver(a) PROVE Kept
  BY <1>4, <1>5, <1>10, <1>11, <1>13 DEF Deliver
<1>14. CASE Main BY <1>3, <1>7, <1>12, <1>13, <1>14 DEF Main, Actors
<1>15. CASE Rcpt BY <1>3, <1>5, <1>12, <1>13, <1>15 DEF Rcpt, Actors
<1>16. CASE Recon BY <1>2, <1>8, <1>12, <1>16 DEF Recon, Actors
<1>17. CASE Clock BY <1>5, <1>17 DEF Clock, Actors
<1> QED BY <1>2, <1>4, <1>9, <1>12, <1>14, <1>15, <1>16, <1>17 DEF Next

\* Whichever worker acts, and wherever it is cut short, the run keeps to what SavedRun
\* promises.
THEOREM KeepsPromise == Spec => ImplementsSavedRun
<1>1. Init => Verdict BY DEF Init, Verdict, Finalizing, Idle
<1>2. Spec => []Verdict BY <1>1, Invariant, VerdictStep, PTL DEF Spec
<1> QED BY <1>2, Invariant, PromiseInit, PromiseRest, PTL
           DEF Spec, ImplementsSavedRun, Promise!RunSpec
=============================================================================
