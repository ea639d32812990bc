--------------------------- MODULE DeliveryProofs ---------------------------
(***************************************************************************)
(* Theorems about Delivery for every set of rows, senders and operators,   *)
(* every attempt limit, lease and window; and, with one retryFailed        *)
(* transaction at a time, that Delivery implements DurableSend. What two   *)
(* overlapping transactions can break is in the second half (the run       *)
(* TwoRetries shows one way).                                              *)
(***************************************************************************)
EXTENDS DeliveryRefinement, FiniteSetTheorems, TLAPS

-----------------------------------------------------------------------------
(* Types                                                                   *)

LEMMA CompletionType ==
  ASSUME NEW j \in Job, j.id \in Ids, j.attempt \in Nat \ {0}, j.first \in Nat,
         NEW outcome \in Outcomes, NEW at \in Nat
  PROVE  Completion(j, outcome, at) \in Job
<1> DEFINE delay == RetryDelay(j.attempt)
<1>1. CASE outcome = "unknown" /\ CanRetry(j, at)
  <2>1. j.attempt \in 1 .. MaxAttempts
    BY <1>1, ConstantsAssumption DEF CanRetry
  <2>2. delay \in Nat
    BY <2>1, BackoffAssumption
  <2>3. at + delay \in Time
    BY <2>2 DEF Time
  <2> HIDE DEF delay
  <2>4. Completion(j, outcome, at)
          = [j EXCEPT !.outcome = outcome, !.nextRetryAt = at + delay]
    BY <1>1 DEF Completion, delay
  <2> QED BY <2>3, <2>4 DEF Job
<1>2. CASE ~(outcome = "unknown" /\ CanRetry(j, at))
  BY <1>2 DEF Completion, Job, Time
<1> QED BY <1>1, <1>2

LEMMA ClaimedRowType ==
  ASSUME NEW r \in Row, NEW at \in Nat, NEW tok \in Nat
  PROVE  ClaimedRow(r, at, tok) \in Row /\ FirstAttempt(r, at) \in Nat
<1>1. FirstAttempt(r, at) \in Nat
  BY DEF FirstAttempt, Row, Time, None
<1>2. /\ r.attempts + 1 \in Nat /\ None \in Time /\ at \in Time
      /\ FirstAttempt(r, at) \in Time /\ "processing" \in Statuses
  BY <1>1 DEF Row, Time, Statuses
<1> QED BY <1>1, <1>2 DEF ClaimedRow, Row

LEMMA CompletedRowType ==
  ASSUME NEW r \in Row, NEW j \in Job
  PROVE  CompletedRow(r, j) \in Row
BY DEF CompletedRow, FinalStatus, Row, Job, Statuses, Outcomes

LEMMA InitTypes == Init => TypeOK
<1> SUFFICES ASSUME Init PROVE TypeOK
  OBVIOUS
<1>1. None \in Time /\ 0 \in Time /\ "pending" \in Statuses
  BY DEF Time, Statuses
<1>2. \A ok \in BOOLEAN : FreshRow(ok) \in Row
  BY <1>1 DEF FreshRow, Row, NoToken
<1>3. \A st \in {"sending", "unknown"} : LegacyRow(st) \in Row
  <2> TAKE st \in {"sending", "unknown"}
  <2>1. st \in Statuses /\ FreshRow(TRUE) \in Row
    BY <1>2 DEF Statuses
  <2>2. (IF st = "sending" THEN None ELSE 0) \in Time
    BY <1>1
  <2> QED BY <1>1, <2>1, <2>2 DEF LegacyRow, Row
<1>4. NeverAccepted \in [at : Time, count : Nat]
      /\ [at |-> 0, count |-> 1] \in [at : Time, count : Nat]
  BY <1>1 DEF NeverAccepted
<1>5. \A x \in InitialPairs : x[1] \in Row /\ x[2] \in [at : Time, count : Nat]
  BY <1>2, <1>3, <1>4 DEF InitialPairs
<1>6. row \in [Ids -> Row] /\ platform \in [Ids -> [at : Time, count : Nat]]
  BY <1>5 DEF Init
<1>7. NoJob \in Job
  BY <1>1 DEF NoJob, Job, NoToken
<1> QED BY <1>6, <1>7 DEF Init, TypeOK

-----------------------------------------------------------------------------
(* The initial states *)

LEMMA InitIInv == Init => IInv
<1> SUFFICES ASSUME Init PROVE IInv
  OBVIOUS
<1>1. TypeOK
  BY InitTypes
<1>2. JobsOK /\ ClaimsDiffer /\ RequestsOK
  <2>1. requests = {} /\ \A w \in Workers : pc[w] = "idle"
    BY DEF Init
  <2> QED BY <2>1 DEF JobsOK, JobOK, ClaimsDiffer, RequestsOK, RequestOK, OnePerAttempt, OwnRequests, Holding
<1>3. \A x \in InitialPairs :
        /\ x[1].token = 0 /\ x[1].createdAt = 0 /\ x[1].first = None
        /\ x[1].status \notin {"accepted", "retry_wait"}
        /\ x[2].count \in {0, 1} /\ (x[2].count = 0 <=> x[2].at = None)
        /\ x[2].at # None => x[2].at = 0 /\ ~x[1].saved
  <2> SUFFICES ASSUME NEW x \in InitialPairs
               PROVE  /\ x[1].token = 0 /\ x[1].createdAt = 0 /\ x[1].first = None
                      /\ x[1].status \notin {"accepted", "retry_wait"}
                      /\ x[2].count \in {0, 1} /\ (x[2].count = 0 <=> x[2].at = None)
                      /\ x[2].at # None => x[2].at = 0 /\ ~x[1].saved
    OBVIOUS
  <2>1. CASE \E ok \in BOOLEAN : x = <<FreshRow(ok), NeverAccepted>>
    BY <2>1 DEF FreshRow, NeverAccepted, NoToken
  <2>2. CASE /\ \E st \in {"sending", "unknown"} : x[1] = LegacyRow(st)
             /\ x[2] \in {NeverAccepted, [at |-> 0, count |-> 1]}
    <3>1. PICK st \in {"sending", "unknown"} : x[1] = LegacyRow(st)
      BY <2>2
    <3>2. x[1].token = 0 /\ x[1].createdAt = 0 /\ x[1].first = None
          /\ x[1].status = st /\ ~x[1].saved
      BY <3>1 DEF LegacyRow, FreshRow, NoToken
    <3> QED BY <2>2, <3>2 DEF NeverAccepted, None
  <2> QED BY <2>1, <2>2 DEF InitialPairs
<1>4. PICK start \in [Ids -> InitialPairs] :
        /\ row = [i \in Ids |-> start[i][1]]
        /\ platform = [i \in Ids |-> start[i][2]]
  BY DEF Init
<1>5. \A i \in Ids :
        /\ row[i].token = 0 /\ row[i].createdAt = 0 /\ row[i].first = None
        /\ row[i].status \notin {"accepted", "retry_wait"}
        /\ platform[i].count \in {0, 1} /\ (platform[i].count = 0 <=> platform[i].at = None)
        /\ platform[i].at # None => platform[i].at = 0 /\ ~row[i].saved
  BY <1>3, <1>4
<1>6. LatestClaim
  BY <1>5 DEF Init, LatestClaim, Holding
<1>7. PlatformOK
  BY <1>5 DEF Init, PlatformOK, MemoryOK, None
<1>8. RowsOK
  BY <1>5 DEF RowsOK, AcceptedIsTrue, RetryIsPossible
<1> QED BY <1>1, <1>2, <1>6, <1>7, <1>8 DEF IInv

-----------------------------------------------------------------------------
(* Steps of a sender *)

LEMMA NoJobType == NoJob \in Job
BY DEF NoJob, Job, Time, None, NoToken

\* Unclaimed, Superseded and Crash: the sender forgets its job.
LEMMA ReleaseStep ==
  ASSUME IInv, NEW w \in Workers,
         pc' = [pc EXCEPT ![w] = "idle"], job' = [job EXCEPT ![w] = NoJob],
         UNCHANGED <<now, row, issued, requests, platform, picked, resets>>
  PROVE  IInv'
<1> USE DEF IInv
<1>1. TypeOK'
  BY NoJobType DEF TypeOK
<1>2. \A v \in Workers : pc'[v] # "idle" => v # w /\ pc'[v] = pc[v] /\ job'[v] = job[v]
  BY DEF TypeOK
<1>3. JobsOK' /\ ClaimsDiffer' /\ LatestClaim' /\ RequestsOK'
  BY <1>2 DEF JobsOK, JobOK, ClaimsDiffer, LatestClaim, RequestsOK, RequestOK, OnePerAttempt, OwnRequests, Holding
<1>4. PlatformOK' /\ RowsOK'
  BY DEF PlatformOK, MemoryOK, RowsOK, AcceptedIsTrue, RetryIsPossible
<1> QED BY <1>1, <1>3, <1>4

LEMMA BeginStep ==
  ASSUME IInv, NEW w \in Workers, NEW i \in Ids, Begin(w, i)
  PROVE  IInv'
<1> USE DEF IInv, Begin
<1> DEFINE new == [NoJob EXCEPT !.id = i, !.at = now]
<1>1. new \in Job /\ new.id = i /\ new.at = now
  BY NoJobType DEF NoJob, Job, TypeOK, Time
<1>2. job' = [job EXCEPT ![w] = new]
  OBVIOUS
<1> HIDE DEF new
<1>3. TypeOK'
  BY <1>1, <1>2 DEF TypeOK
<1>4. \A v \in Workers : v # w => pc'[v] = pc[v] /\ job'[v] = job[v]
  BY <1>2 DEF TypeOK
<1>5. pc'[w] = "claiming" /\ job'[w] = new
  BY <1>2 DEF TypeOK
<1>6. JobsOK' /\ ClaimsDiffer' /\ LatestClaim' /\ RequestsOK'
  BY <1>1, <1>4, <1>5 DEF JobsOK, JobOK, ClaimsDiffer, LatestClaim, RequestsOK, RequestOK, OnePerAttempt, OwnRequests, Holding, TypeOK
<1>7. PlatformOK' /\ RowsOK'
  BY DEF PlatformOK, MemoryOK, RowsOK, AcceptedIsTrue, RetryIsPossible
<1> QED BY <1>3, <1>6, <1>7

\* Refuse, NotSent, Receive and TimeOut: the sender learns its outcome.
LEMMA AnswerStep ==
  ASSUME IInv, NEW w \in Workers, pc[w] \in {"claimed", "sending"},
         NEW j \in Job, job' = [job EXCEPT ![w] = j],
         j.id = job[w].id, j.at = job[w].at, j.token = job[w].token,
         j.attempt = job[w].attempt, j.first = job[w].first,
         j.outcome # "none",
         j.nextRetryAt # None => /\ j.outcome = "unknown" /\ j.attempt < MaxAttempts
                                 /\ j.nextRetryAt < j.first + Window,
         j.outcome = "accepted" => platform[j.id].at # None,
         pc' = [pc EXCEPT ![w] = "answered"],
         UNCHANGED <<now, row, issued, requests, platform, picked, resets>>
  PROVE  IInv'
<1> USE DEF IInv
<1>1. TypeOK'
  BY DEF TypeOK
<1>2. \A v \in Workers : v # w => pc'[v] = pc[v] /\ job'[v] = job[v]
  BY DEF TypeOK
<1>3. pc'[w] = "answered" /\ job'[w] = j
  BY DEF TypeOK
<1>4. JobsOK'
  BY <1>2, <1>3 DEF JobsOK, JobOK, Holding
<1>5. ClaimsDiffer' /\ LatestClaim' /\ RequestsOK'
  BY <1>2, <1>3 DEF ClaimsDiffer, LatestClaim, RequestsOK, RequestOK, OnePerAttempt, OwnRequests, Holding
<1>6. PlatformOK' /\ RowsOK'
  BY DEF PlatformOK, MemoryOK, RowsOK, AcceptedIsTrue, RetryIsPossible
<1> QED BY <1>1, <1>4, <1>5, <1>6

\* A claimed sender's job, as CompletionType wants it.
LEMMA HeldJob ==
  ASSUME IInv, NEW w \in Workers, pc[w] \in {"claimed", "sending", "answered"}
  PROVE  /\ job[w] \in Job /\ job[w].id \in Ids
         /\ job[w].attempt \in Nat \ {0} /\ job[w].first \in Nat
BY DEF IInv, TypeOK, JobsOK, JobOK, Holding, Job, Time, Row

LEMMA CompletionFacts ==
  ASSUME NEW j \in Job, NEW outcome \in Outcomes, NEW at \in Nat
  PROVE  LET c == Completion(j, outcome, at) IN
         /\ c.id = j.id /\ c.at = j.at /\ c.token = j.token
         /\ c.attempt = j.attempt /\ c.first = j.first /\ c.outcome = outcome
         /\ c.nextRetryAt # None =>
              /\ outcome = "unknown" /\ j.attempt < MaxAttempts
              /\ c.nextRetryAt < j.first + Window
<1>1. CASE outcome = "unknown" /\ CanRetry(j, at)
  <2> DEFINE delay == RetryDelay(j.attempt)
  <2>1. at + delay < j.first + Window /\ j.attempt < MaxAttempts
    BY <1>1 DEF CanRetry
  <2> HIDE DEF delay
  <2>2. Completion(j, outcome, at)
          = [j EXCEPT !.outcome = outcome, !.nextRetryAt = at + delay]
    BY <1>1 DEF Completion, delay
  <2> QED BY <1>1, <2>1, <2>2 DEF Job
<1>2. CASE ~(outcome = "unknown" /\ CanRetry(j, at))
  BY <1>2 DEF Completion, Job
<1> QED BY <1>1, <1>2

\* The three ways an answer becomes a completion.
LEMMA CompletionStep ==
  ASSUME IInv, NEW w \in Workers, pc[w] \in {"claimed", "sending"},
         NEW outcome \in Outcomes,
         job' = [job EXCEPT ![w] = Completion(job[w], outcome, now)],
         outcome = "accepted" => platform[job[w].id].at # None,
         pc' = [pc EXCEPT ![w] = "answered"],
         UNCHANGED <<now, row, issued, requests, platform, picked, resets>>
  PROVE  IInv'
<1> DEFINE c == Completion(job[w], outcome, now)
<1>1. /\ job[w] \in Job /\ job[w].id \in Ids /\ job[w].attempt \in Nat \ {0}
      /\ job[w].first \in Nat /\ now \in Nat
  BY HeldJob DEF IInv, TypeOK
<1>2. c \in Job
  BY <1>1, CompletionType
<1>3. /\ c.id = job[w].id /\ c.at = job[w].at /\ c.token = job[w].token
      /\ c.attempt = job[w].attempt /\ c.first = job[w].first /\ c.outcome = outcome
      /\ c.nextRetryAt # None =>
           /\ outcome = "unknown" /\ job[w].attempt < MaxAttempts
           /\ c.nextRetryAt < job[w].first + Window
  BY <1>1, CompletionFacts
<1>4. c.outcome # "none"
  BY <1>3 DEF Outcomes
<1>5. job' = [job EXCEPT ![w] = c]
  OBVIOUS
<1>6. c.nextRetryAt # None => /\ c.outcome = "unknown" /\ c.attempt < MaxAttempts
                              /\ c.nextRetryAt < c.first + Window
  BY <1>3
<1>7. c.outcome = "accepted" => platform[c.id].at # None
  BY <1>3
<1> HIDE DEF c
<1> QED BY <1>2, <1>3, <1>4, <1>5, <1>6, <1>7, AnswerStep

LEMMA RefuseStep == ASSUME IInv, NEW w \in Workers, Refuse(w) PROVE IInv'
<1> DEFINE j == job[w]
           c == IF ~row[j.id].valid THEN Completion(j, "rejected", now)
                ELSE [j EXCEPT !.outcome = "unknown", !.nextRetryAt = None]
<1>1. /\ pc[w] = "claimed" /\ pc' = [pc EXCEPT ![w] = "answered"]
      /\ job' = [job EXCEPT ![w] = c]
      /\ UNCHANGED <<now, row, issued, requests, platform, picked, resets>>
  BY DEF Refuse
<1>2. j \in Job /\ j.id \in Ids /\ j.attempt \in Nat \ {0} /\ j.first \in Nat /\ now \in Nat
  BY <1>1, HeldJob DEF IInv, TypeOK
<1>3. CASE ~row[j.id].valid
  <2>1. c = Completion(j, "rejected", now) /\ "rejected" \in Outcomes
    BY <1>3 DEF Outcomes
  <2>2. c \in Job
    BY <1>2, <2>1, CompletionType
  <2> HIDE DEF c
  <2> QED BY <1>1, <2>1, <2>2, CompletionStep
<1>4. CASE row[j.id].valid
  <2>1. /\ c = [j EXCEPT !.outcome = "unknown", !.nextRetryAt = None]
        /\ "unknown" \in Outcomes \cup {"none"} /\ None \in Time
    BY <1>4 DEF Outcomes, Time
  <2>2. c \in Job /\ c.outcome = "unknown" /\ c.nextRetryAt = None
        /\ c.id = j.id /\ c.at = j.at /\ c.token = j.token
        /\ c.attempt = j.attempt /\ c.first = j.first
    BY <1>2, <2>1 DEF Job
  <2> HIDE DEF c
  <2> QED BY <1>1, <2>2, AnswerStep
<1> QED BY <1>3, <1>4

LEMMA NotSentStep == ASSUME IInv, NEW w \in Workers, NotSent(w) PROVE IInv'
<1>1. PICK outcome \in {"rejected", "unknown"} :
        job' = [job EXCEPT ![w] = Completion(job[w], outcome, now)]
  BY DEF NotSent
<1>2. outcome \in Outcomes
  BY DEF Outcomes
<1> QED BY <1>1, <1>2, CompletionStep DEF NotSent

LEMMA ReceiveStep == ASSUME IInv, NEW w \in Workers, Receive(w) PROVE IInv'
<1>1. PICK q \in requests : /\ q.token = job[w].token /\ q.state \in Outcomes
                             /\ job' = [job EXCEPT ![w] = Completion(job[w], q.state, now)]
  BY DEF Receive
<1>2. q.id = job[w].id
  BY <1>1 DEF IInv, RequestsOK, OwnRequests, Receive, Holding
<1>3. q.state = "accepted" => platform[job[w].id].at # None
  BY <1>1, <1>2 DEF IInv, RequestsOK, RequestOK
<1> QED BY <1>1, <1>3, CompletionStep DEF Receive

LEMMA TimeOutStep == ASSUME IInv, NEW w \in Workers, TimeOut(w) PROVE IInv'
<1>1. "unknown" \in Outcomes
  BY DEF Outcomes
<1> QED BY <1>1, CompletionStep DEF TimeOut

\* The token and the attempt number of a claim are new.
LEMMA ClaimStep == ASSUME IInv, NEW w \in Workers, Claim(w) PROVE IInv'
<1> USE DEF IInv
<1> DEFINE i == job[w].id
           at == job[w].at
           r == row[i]
           f == FirstAttempt(r, at)
           new == [NoJob EXCEPT !.id = i, !.at = at, !.token = issued + 1,
                                !.attempt = r.attempts + 1, !.first = f]
           c == ClaimedRow(r, at, issued + 1)
<1>1. /\ pc[w] = "claiming" /\ pc' = [pc EXCEPT ![w] = "claimed"]
      /\ issued' = issued + 1 /\ row' = [row EXCEPT ![i] = c]
      /\ job' = [job EXCEPT ![w] = new]
      /\ UNCHANGED <<now, requests, platform, picked, resets>>
  BY DEF Claim
<1>2. i \in Ids /\ at \in 0 .. now /\ r \in Row /\ now \in Nat /\ issued \in Nat
  BY <1>1 DEF JobsOK, JobOK, TypeOK
<1>3. c \in Row /\ f \in Nat
  <2>1. at \in Nat /\ issued + 1 \in Nat
    BY <1>2
  <2> QED BY ONLY <1>2, <2>1, ClaimedRowType
<1>4. /\ c.status = "processing" /\ c.attempts = r.attempts + 1 /\ c.first = f
      /\ c.token = issued + 1 /\ c.createdAt = r.createdAt /\ c.saved = TRUE
      /\ r.attempts \in Nat /\ r.createdAt \in Nat /\ r.first \in Time
  BY <1>2 DEF ClaimedRow, Row
<1>5. f = IF r.first # None THEN r.first
          ELSE IF r.saved /\ r.attempts = 0 THEN at ELSE r.createdAt
  BY DEF FirstAttempt
<1>6. /\ new \in Job /\ new.id = i /\ new.at = at /\ new.token = issued + 1
      /\ new.attempt = r.attempts + 1 /\ new.first = f
  <2>1. at \in Time /\ f \in Time /\ issued + 1 \in Nat /\ r.attempts + 1 \in Nat
    BY <1>2, <1>3, <1>4 DEF Time
  <2> HIDE DEF f
  <2> QED BY <1>2, <2>1, NoJobType DEF NoJob, Job
<1> HIDE DEF f, new, c
<1>7. TypeOK'
  BY <1>1, <1>2, <1>3, <1>6 DEF TypeOK
<1>8. \A k \in Ids : row'[k] = IF k = i THEN c ELSE row[k]
  BY <1>1 DEF TypeOK
<1>9. \A v \in Workers : v # w => pc'[v] = pc[v] /\ job'[v] = job[v]
  BY <1>1 DEF TypeOK
<1>10. pc'[w] = "claimed" /\ job'[w] = new
  BY <1>1 DEF TypeOK
<1>11. r.first # None => f = r.first
  BY <1>5
<1>12. f # None
  BY <1>3 DEF None
<1>13. JobsOK'
  <2> SUFFICES ASSUME NEW v \in Workers PROVE JobOK(v)'
    BY DEF JobsOK
  <2>1. JobOK(v)
    BY DEF JobsOK
  <2>2. CASE v = w
    BY <1>1, <1>2, <1>4, <1>6, <1>8, <1>10, <1>12, <2>2 DEF JobOK, Holding
  <2>3. CASE v # w
    <3>1. pc'[v] = pc[v] /\ job'[v] = job[v]
      BY <1>9, <2>3
    <3>2. pc[v] \in Holding =>
            /\ job[v].attempt \in 1 .. row'[job[v].id].attempts
            /\ job[v].first = row'[job[v].id].first
      BY <1>2, <1>4, <1>8, <1>11, <2>1 DEF JobOK, Holding
    <3> QED BY <1>1, <1>2, <2>1, <3>1, <3>2 DEF JobOK, Holding
  <2> QED BY <2>2, <2>3
<1>14. \A v \in Workers : v # w /\ pc[v] \in Holding =>
         /\ job[v].token \in 1 .. issued
         /\ job[v].attempt \in 1 .. row[job[v].id].attempts
  BY DEF JobsOK, JobOK
<1>15. ClaimsDiffer'
  BY <1>2, <1>4, <1>6, <1>9, <1>10, <1>14 DEF ClaimsDiffer
<1>16. LatestClaim'
  BY <1>1, <1>2, <1>4, <1>6, <1>8, <1>9, <1>10, <1>14 DEF LatestClaim, TypeOK, Row
<1>17. RequestsOK'
  <2>1. \A q \in requests : RequestOK(q)
    BY DEF RequestsOK
  <2>2. requests' = requests /\ platform' = platform
    BY <1>1
  <2>3. \A q \in requests : RequestOK(q)'
    <3> SUFFICES ASSUME NEW q \in requests PROVE RequestOK(q)'
      OBVIOUS
    <3>1. q.id \in Ids /\ q.attempt \in Nat /\ q.token \in Nat
      BY DEF TypeOK, Request
    <3> QED BY <1>1, <1>2, <1>4, <1>8, <1>11, <2>1, <2>2, <3>1 DEF RequestOK
  <2>4. OnePerAttempt'
    BY <2>2 DEF RequestsOK, OnePerAttempt
  <2>5. OwnRequests'
    <3> SUFFICES ASSUME NEW v \in Workers, NEW q \in requests, pc'[v] \in Holding
                 PROVE  /\ q.token = job'[v].token => q.id = job'[v].id
                        /\ pc'[v] = "claimed" /\ q.id = job'[v].id => q.attempt # job'[v].attempt
      BY <2>2 DEF OwnRequests
    <3>1. CASE v = w
      BY <1>2, <1>4, <1>6, <1>10, <2>1, <3>1 DEF RequestOK
    <3>2. CASE v # w
      BY <1>9, <3>2 DEF RequestsOK, OwnRequests
    <3> QED BY <3>1, <3>2
  <2> QED BY <2>2, <2>3, <2>4, <2>5 DEF RequestsOK
<1>18. PlatformOK'
  <2> SUFFICES ASSUME NEW k \in Ids PROVE MemoryOK(k)'
    BY DEF PlatformOK
  <2>1. MemoryOK(k) /\ platform' = platform /\ now' = now
    BY <1>1 DEF PlatformOK
  <2>2. CASE k # i
    BY <1>8, <2>1, <2>2 DEF MemoryOK
  <2>3. CASE k = i
    <3>1. f <= now
      BY <1>2, <1>5, <2>1, <2>3 DEF MemoryOK
    <3>2. platform[k].at # None => f <= platform[k].at
      BY <1>2, <1>5, <2>1, <2>3 DEF MemoryOK
    <3> QED BY <1>4, <1>8, <1>12, <2>1, <2>3, <3>1, <3>2 DEF MemoryOK
  <2> QED BY <2>2, <2>3
<1>19. RowsOK'
  BY <1>1, <1>4, <1>8 DEF RowsOK, AcceptedIsTrue, RetryIsPossible
<1> QED BY <1>7, <1>13, <1>15, <1>16, <1>17, <1>18, <1>19

LEMMA SendStep == ASSUME IInv, NEW w \in Workers, Send(w) PROVE IInv'
<1> USE DEF IInv
<1> DEFINE j == job[w]
<1>0. PICK new : new = [id |-> j.id, attempt |-> j.attempt, token |-> j.token,
                        at |-> now, state |-> "flying"]
  OBVIOUS
<1>1. /\ pc[w] = "claimed" /\ pc' = [pc EXCEPT ![w] = "sending"]
      /\ ~Exhausted(j) /\ ~WindowExpired(j)
      /\ requests' = requests \cup {new}
      /\ UNCHANGED <<now, row, job, issued, platform, picked, resets>>
  BY <1>0 DEF Send
<1>2. /\ j \in Job /\ j.id \in Ids /\ j.attempt \in Nat \ {0} /\ j.first \in Nat
      /\ now \in Nat /\ issued \in Nat /\ row[j.id] \in Row
  BY <1>1, HeldJob DEF TypeOK
<1>3. /\ j.token \in 1 .. issued /\ j.attempt <= row[j.id].attempts
      /\ j.first # None /\ j.first = row[j.id].first
  BY <1>1, <1>2 DEF JobsOK, JobOK, Holding, Row
<1>4. j.attempt \in 1 .. MaxAttempts /\ now < j.first + Window
  BY <1>1, <1>2, ConstantsAssumption DEF Exhausted, WindowExpired
<1>5. j.first <= now
  BY <1>2, <1>3 DEF PlatformOK, MemoryOK
<1>6. /\ new \in Request /\ new.id = j.id /\ new.attempt = j.attempt
      /\ new.token = j.token /\ new.at = now /\ new.state = "flying"
  BY <1>0, <1>2, <1>3 DEF Request, Job
<1>7. TypeOK'
  BY <1>1, <1>6 DEF TypeOK
<1>8. \A v \in Workers : pc'[v] = IF v = w THEN "sending" ELSE pc[v]
  BY <1>1 DEF TypeOK
<1>9. JobsOK'
  BY <1>1, <1>4, <1>8 DEF JobsOK, JobOK, Holding
<1>10. ClaimsDiffer' /\ LatestClaim'
  BY <1>1, <1>8 DEF ClaimsDiffer, LatestClaim, Holding
<1>11. \A q \in requests' : RequestOK(q)'
  <2>1. RequestOK(new)'
    BY <1>1, <1>3, <1>4, <1>5, <1>6 DEF RequestOK
  <2>2. \A q \in requests : RequestOK(q)'
    BY <1>1 DEF RequestsOK, RequestOK
  <2> QED BY <1>1, <2>1, <2>2
<1>12. \A q \in requests : q.id = j.id => q.attempt # j.attempt
  BY <1>1 DEF RequestsOK, OwnRequests, Holding
<1>13. OnePerAttempt'
  BY <1>1, <1>6, <1>12 DEF RequestsOK, OnePerAttempt
<1>14. OwnRequests'
  <2> SUFFICES ASSUME NEW v \in Workers, NEW q \in requests', pc'[v] \in Holding
               PROVE  /\ q.token = job[v].token => q.id = job[v].id
                      /\ pc'[v] = "claimed" /\ q.id = job[v].id => q.attempt # job[v].attempt
    BY <1>1 DEF OwnRequests
  <2>1. CASE q \in requests
    BY <1>1, <1>8, <2>1 DEF RequestsOK, OwnRequests, Holding
  <2>2. CASE q = new /\ v = w
    BY <1>6, <1>8, <2>2
  <2>3. CASE q = new /\ v # w
    BY <1>1, <1>6, <1>8, <2>3 DEF ClaimsDiffer, Holding
  <2> QED BY <1>1, <2>1, <2>2, <2>3
<1>15. PlatformOK' /\ RowsOK'
  BY <1>1 DEF PlatformOK, MemoryOK, RowsOK, AcceptedIsTrue, RetryIsPossible
<1> QED BY <1>7, <1>9, <1>10, <1>11, <1>13, <1>14, <1>15 DEF RequestsOK

-----------------------------------------------------------------------------
(* Steps of LINE *)

\* A request is answered or lost; LINE's memory of the key is kept, or begins now.
LEMMA AnsweredStep ==
  ASSUME IInv, NEW q \in requests, NEW outcome \in {"lost"} \cup Outcomes,
         requests' = Answered(q, outcome),
         \/ platform' = platform
         \/ /\ platform[q.id].count = 0
            /\ platform' = [platform EXCEPT ![q.id] = [at |-> now, count |-> @.count + 1]],
         outcome = "accepted" => platform'[q.id].at # None,
         UNCHANGED <<now, row, pc, job, issued, picked, resets>>
  PROVE  IInv'
<1> USE DEF IInv
<1>0. PICK new : new = [q EXCEPT !.state = outcome]
  OBVIOUS
<1>1. requests' = (requests \ {q}) \cup {new}
  BY <1>0 DEF Answered
<1>2. q \in Request /\ now \in Nat
  BY DEF TypeOK
<1>3. /\ new \in Request /\ new.id = q.id /\ new.attempt = q.attempt
      /\ new.token = q.token /\ new.at = q.at /\ new.state = outcome
  BY <1>0, <1>2 DEF Request
<1>4. platform' \in [Ids -> [at : Time, count : Nat]]
  BY <1>2 DEF TypeOK, Request, Time
<1>5. TypeOK'
  BY <1>1, <1>3, <1>4 DEF TypeOK
<1>6. \A i \in Ids : platform[i].at # None => platform'[i].at # None
  <2>1. CASE platform' = platform
    BY <2>1
  <2>2. CASE platform' = [platform EXCEPT ![q.id] = [at |-> now, count |-> @.count + 1]]
    BY <1>2, <2>2 DEF TypeOK, None
  <2> QED BY <2>1, <2>2
<1>7. JobsOK' /\ ClaimsDiffer' /\ LatestClaim'
  BY <1>6 DEF JobsOK, JobOK, ClaimsDiffer, LatestClaim, Holding
<1>8. \A p \in requests : RequestOK(p) /\ p \in Request
  BY DEF RequestsOK, TypeOK
<1>9. \A p \in requests' : RequestOK(p)'
  <2>1. RequestOK(new)'
    BY <1>3, <1>8 DEF RequestOK
  <2>2. \A p \in requests : RequestOK(p)'
    BY <1>6, <1>8 DEF RequestOK, Request
  <2> QED BY <1>1, <2>1, <2>2
<1>10. OnePerAttempt'
  BY <1>1, <1>3 DEF RequestsOK, OnePerAttempt
<1>11. OwnRequests'
  BY <1>1, <1>3 DEF RequestsOK, OwnRequests
<1>12. PlatformOK'
  <2> SUFFICES ASSUME NEW i \in Ids PROVE MemoryOK(i)'
    BY DEF PlatformOK
  <2>1. MemoryOK(i)
    BY DEF PlatformOK
  <2>2. CASE platform' = platform \/ i # q.id
    <3>1. platform'[i] = platform[i]
      BY <2>2 DEF TypeOK
    <3> QED BY <2>1, <3>1 DEF MemoryOK
  <2>3. CASE platform' # platform /\ i = q.id
    <3>1. platform'[i] = [at |-> now, count |-> 1] /\ platform[i].count = 0
      BY <2>3 DEF TypeOK
    <3>2. row[i].first # None /\ row[i].first <= now
      BY <1>8, <2>1, <2>3 DEF RequestOK, MemoryOK
    <3> QED BY <1>2, <2>1, <3>1, <3>2 DEF MemoryOK, None
  <2> QED BY <2>2, <2>3
<1>13. RowsOK'
  BY <1>6 DEF RowsOK, AcceptedIsTrue, RetryIsPossible
<1> QED BY <1>5, <1>7, <1>9, <1>10, <1>11, <1>12, <1>13 DEF RequestsOK

\* A key LINE accepted before is still remembered when a request arrives: the
\* request left inside the window of the first attempt, and LINE's memory began
\* after that attempt.
LEMMA KeyIsRemembered ==
  ASSUME IInv, NEW q \in requests, now <= q.at + Transit, platform[q.id].at # None
  PROVE  Remembered(q.id)
<1>1. q.id \in Ids /\ q.at \in Nat /\ now \in Nat /\ row[q.id] \in Row
      /\ platform[q.id].at \in Nat
  BY DEF IInv, TypeOK, Request, Time
<1>2. row[q.id].first # None /\ q.at < row[q.id].first + Window
  BY DEF IInv, RequestsOK, RequestOK
<1>3. row[q.id].first <= platform[q.id].at /\ row[q.id].first \in Nat
  BY <1>1, <1>2 DEF IInv, PlatformOK, MemoryOK, Row, Time
<1> QED BY <1>1, <1>2, <1>3, ConstantsAssumption, MemoryAssumption DEF Remembered

LEMMA LineStep == ASSUME IInv, Line PROVE IInv'
<1>1. PICK q \in requests : Accept(q) \/ Reject(q) \/ Lose(q)
  BY DEF Line
<1>2. q.id \in Ids /\ platform[q.id].count \in {0, 1} /\ now \in Nat
      /\ (platform[q.id].count = 0 <=> platform[q.id].at = None)
      /\ platform \in [Ids -> [at : Time, count : Nat]]
  BY DEF IInv, TypeOK, Request, PlatformOK, MemoryOK
<1>3. CASE Accept(q)
  <2>1. PICK outcome \in {"accepted", "unknown"} : requests' = Answered(q, outcome)
    BY <1>3 DEF Accept
  <2>2. outcome \in {"lost"} \cup Outcomes
    BY DEF Outcomes
  <2>3. CASE Remembered(q.id)
    <3>1. platform' = platform /\ platform'[q.id].at # None
      BY <1>3, <2>3 DEF Accept, Remembered
    <3> QED BY <1>3, <2>1, <2>2, <3>1, AnsweredStep DEF Accept
  <2>4. CASE ~Remembered(q.id)
    <3>1. platform[q.id].at = None
      BY <1>3, <2>4, KeyIsRemembered DEF Accept
    <3>2. platform[q.id].count = 0
      BY <1>2, <3>1
    <3>3. platform' = [platform EXCEPT ![q.id] = [at |-> now, count |-> @.count + 1]]
      BY <1>3, <2>4 DEF Accept
    <3>4. platform'[q.id].at # None
      BY <1>2, <3>3 DEF None
    <3> QED BY <1>3, <2>1, <2>2, <3>2, <3>3, <3>4, AnsweredStep DEF Accept
  <2> QED BY <2>3, <2>4
<1>4. CASE Reject(q)
  <2>1. PICK outcome \in {"rejected", "unknown"} : requests' = Answered(q, outcome)
    BY <1>4 DEF Reject
  <2>2. outcome \in {"lost"} \cup Outcomes
    BY DEF Outcomes
  <2> QED BY <1>4, <2>1, <2>2, AnsweredStep DEF Reject
<1>5. CASE Lose(q)
  BY <1>5, AnsweredStep DEF Lose
<1> QED BY <1>1, <1>3, <1>4, <1>5

-----------------------------------------------------------------------------
(* Steps on the rows: complete, cancel, retryFailed *)

\* Rows change in nothing that the senders and LINE depend on.
LEMMA RowsStep ==
  ASSUME IInv, row' \in [Ids -> Row],
         \A i \in Ids : /\ row'[i].attempts = row[i].attempts /\ row'[i].first = row[i].first
                        /\ row'[i].token = row[i].token /\ row'[i].saved = row[i].saved
                        /\ row'[i].createdAt = row[i].createdAt,
         RowsOK',
         UNCHANGED <<now, issued, requests, platform>>,
         \A w \in Workers : pc'[w] = "idle" \/ (pc'[w] = pc[w] /\ job'[w] = job[w]),
         pc' \in [Workers -> {"idle", "claiming", "claimed", "sending", "answered"}],
         job' \in [Workers -> Job],
         picked' \in [Admins -> SUBSET Ids], resets' \in Nat
  PROVE  IInv'
<1> USE DEF IInv
<1>1. TypeOK'
  BY DEF TypeOK
<1>2. \A q \in requests : q.id \in Ids
  BY DEF TypeOK, Request
<1>3. JobsOK'
  BY DEF JobsOK, JobOK, Holding
<1>4. ClaimsDiffer' /\ LatestClaim'
  BY <1>3 DEF ClaimsDiffer, LatestClaim, Holding, JobsOK, JobOK
<1>5. \A q \in requests' : RequestOK(q)'
  BY <1>2 DEF RequestsOK, RequestOK
<1>6. OnePerAttempt' /\ OwnRequests'
  BY DEF RequestsOK, OnePerAttempt, OwnRequests, Holding
<1>7. PlatformOK'
  BY DEF PlatformOK, MemoryOK
<1> QED BY <1>1, <1>3, <1>4, <1>5, <1>6, <1>7 DEF RequestsOK

LEMMA CompleteStep == ASSUME IInv, NEW w \in Workers, Complete(w) PROVE IInv'
<1> USE DEF IInv
<1> DEFINE j == job[w]
           i == j.id
           c == CompletedRow(row[i], j)
<1>1. /\ pc[w] = "answered" /\ row[i].token = j.token
      /\ row' = [row EXCEPT ![i] = c]
      /\ pc' = [pc EXCEPT ![w] = "idle"] /\ job' = [job EXCEPT ![w] = NoJob]
      /\ UNCHANGED <<now, issued, requests, platform, picked, resets>>
  BY DEF Complete
<1>2. i \in Ids /\ j \in Job /\ row[i] \in Row
  BY <1>1, HeldJob DEF TypeOK
<1>3. c \in Row
  BY <1>2, CompletedRowType
<1>4. /\ c.attempts = row[i].attempts /\ c.first = row[i].first /\ c.token = row[i].token
      /\ c.saved = row[i].saved /\ c.createdAt = row[i].createdAt
      /\ c.status = FinalStatus(j) /\ c.nextRetryAt = j.nextRetryAt
  BY <1>2 DEF CompletedRow, Row
<1>5. /\ j.attempt = row[i].attempts /\ j.first = row[i].first
      /\ j.nextRetryAt # None => j.attempt < MaxAttempts /\ j.nextRetryAt < j.first + Window
      /\ j.outcome = "accepted" => platform[i].at # None
  BY <1>1, <1>2 DEF LatestClaim, JobsOK, JobOK, Holding
<1>6. /\ c.status = "accepted" => j.outcome = "accepted"
      /\ c.status = "retry_wait" => j.nextRetryAt # None
  BY <1>4 DEF FinalStatus
<1> HIDE DEF c
<1>7. \A k \in Ids : row'[k] = IF k = i THEN c ELSE row[k]
  BY <1>1 DEF TypeOK
<1>8. RowsOK'
  <2>1. platform' = platform
    BY <1>1
  <2>2. AcceptedIsTrue'
    BY <1>5, <1>6, <1>7, <2>1 DEF RowsOK, AcceptedIsTrue
  <2>3. RetryIsPossible'
    BY <1>4, <1>5, <1>6, <1>7 DEF RowsOK, RetryIsPossible
  <2> QED BY <2>2, <2>3 DEF RowsOK
<1>9. row' \in [Ids -> Row] /\ pc' \in [Workers -> {"idle", "claiming", "claimed", "sending", "answered"}]
      /\ job' \in [Workers -> Job]
      /\ \A v \in Workers : pc'[v] = "idle" \/ (pc'[v] = pc[v] /\ job'[v] = job[v])
  BY <1>1, <1>3, NoJobType DEF TypeOK
<1>10. \A k \in Ids : /\ row'[k].attempts = row[k].attempts /\ row'[k].first = row[k].first
                      /\ row'[k].token = row[k].token /\ row'[k].saved = row[k].saved
                      /\ row'[k].createdAt = row[k].createdAt
  BY <1>4, <1>7
<1>11. picked' \in [Admins -> SUBSET Ids] /\ resets' \in Nat
       /\ UNCHANGED <<now, issued, requests, platform>>
  BY <1>1 DEF TypeOK
<1> QED BY <1>8, <1>9, <1>10, <1>11, RowsStep

\* Some rows become cancelled or pending; nothing else of them changes but dates.
LEMMA MoveStep ==
  ASSUME IInv, row' \in [Ids -> Row],
         \A i \in Ids : /\ row'[i].attempts = row[i].attempts /\ row'[i].first = row[i].first
                        /\ row'[i].token = row[i].token /\ row'[i].saved = row[i].saved
                        /\ row'[i].createdAt = row[i].createdAt,
         \A i \in Ids : row'[i] = row[i] \/ row'[i].status \in {"cancelled", "pending"},
         UNCHANGED <<now, pc, job, issued, requests, platform>>,
         picked' \in [Admins -> SUBSET Ids], resets' \in Nat
  PROVE  IInv'
<1> USE DEF IInv
<1>1. RowsOK'
  BY DEF RowsOK, AcceptedIsTrue, RetryIsPossible
<1>2. /\ pc' \in [Workers -> {"idle", "claiming", "claimed", "sending", "answered"}]
      /\ job' \in [Workers -> Job]
      /\ \A v \in Workers : pc'[v] = "idle" \/ (pc'[v] = pc[v] /\ job'[v] = job[v])
      /\ UNCHANGED <<now, issued, requests, platform>>
  BY DEF TypeOK
<1> QED BY <1>1, <1>2, RowsStep

LEMMA CancelStep == ASSUME IInv, Cancel PROVE IInv'
<1>1. row \in [Ids -> Row] /\ picked \in [Admins -> SUBSET Ids] /\ resets \in Nat
  BY DEF IInv, TypeOK
<1>2. \A r \in Row : [r EXCEPT !.status = "cancelled", !.completed = TRUE] \in Row
  <2>1. "cancelled" \in Statuses
    BY DEF Statuses
  <2> QED BY <2>1 DEF Row
<1>3. \A i \in Ids : row'[i] = IF row[i].status \in {"pending", "retry_wait"}
                               THEN [row[i] EXCEPT !.status = "cancelled", !.completed = TRUE]
                               ELSE row[i]
  BY DEF Cancel
<1>4. row' \in [Ids -> Row]
  BY <1>1, <1>2 DEF Cancel
<1>5. \A i \in Ids : /\ row'[i].attempts = row[i].attempts /\ row'[i].first = row[i].first
                     /\ row'[i].token = row[i].token /\ row'[i].saved = row[i].saved
                     /\ row'[i].createdAt = row[i].createdAt
                     /\ (row'[i] = row[i] \/ row'[i].status \in {"cancelled", "pending"})
  BY <1>1, <1>3 DEF Row
<1>6. UNCHANGED <<now, pc, job, issued, requests, platform, picked, resets>>
  BY DEF Cancel
<1> QED BY <1>1, <1>4, <1>5, <1>6, MoveStep

LEMMA ResetRowFacts ==
  ASSUME NEW r \in Row
  PROVE  /\ ResetRow(r) \in Row /\ ResetRow(r).status = "pending"
         /\ ResetRow(r).attempts = r.attempts /\ ResetRow(r).first = r.first
         /\ ResetRow(r).token = r.token /\ ResetRow(r).saved = r.saved
         /\ ResetRow(r).createdAt = r.createdAt
<1>1. "pending" \in Statuses /\ None \in Time
  BY DEF Statuses, Time
<1> QED BY <1>1 DEF ResetRow, Row

LEMMA CommitResetStep == ASSUME IInv, NEW a \in Admins, CommitReset(a) PROVE IInv'
<1>1. row \in [Ids -> Row] /\ picked \in [Admins -> SUBSET Ids] /\ resets \in Nat
  BY DEF IInv, TypeOK
<1>2. row' = [i \in Ids |-> IF i \in picked[a] THEN ResetRow(row[i]) ELSE row[i]]
  BY DEF CommitReset
<1>3. row' \in [Ids -> Row]
  BY <1>1, <1>2, ResetRowFacts
<1>4. \A i \in Ids : /\ row'[i].attempts = row[i].attempts /\ row'[i].first = row[i].first
                     /\ row'[i].token = row[i].token /\ row'[i].saved = row[i].saved
                     /\ row'[i].createdAt = row[i].createdAt
                     /\ (row'[i] = row[i] \/ row'[i].status \in {"cancelled", "pending"})
  BY <1>1, <1>2, ResetRowFacts
<1>5. picked' \in [Admins -> SUBSET Ids] /\ resets' \in Nat
      /\ UNCHANGED <<now, pc, job, issued, requests, platform>>
  BY <1>1 DEF CommitReset
<1> QED BY <1>3, <1>4, <1>5, MoveStep

\* retryFailed reads, or gives up: only what it has read changes.
LEMMA PickStep ==
  ASSUME IInv, NEW a \in Admins, PickFailed(a) \/ AbortReset(a) PROVE IInv'
<1>1. /\ picked' \in [Admins -> SUBSET Ids]
      /\ UNCHANGED <<now, row, pc, job, issued, requests, platform, resets>>
  BY DEF PickFailed, AbortReset, IInv, TypeOK
<1>2. row' \in [Ids -> Row] /\ resets' \in Nat
  BY <1>1 DEF IInv, TypeOK
<1>3. \A i \in Ids : row'[i] = row[i]
  BY <1>1
<1> QED BY <1>1, <1>2, <1>3, MoveStep

LEMMA TickStep == ASSUME IInv, Tick PROVE IInv'
<1> USE DEF IInv
<1>1. now' = now + 1 /\ now \in Nat /\ now' \in Nat
      /\ UNCHANGED <<row, pc, job, issued, requests, platform, picked, resets>>
  BY DEF Tick, TypeOK
<1>2. TypeOK'
  BY <1>1 DEF TypeOK
<1>3. JobsOK'
  <2>1. \A w \in Workers : job[w].at \in 0 .. now => job[w].at \in 0 .. now'
    BY <1>1
  <2> QED BY <1>1, <2>1 DEF JobsOK, JobOK, Holding
<1>4. ClaimsDiffer' /\ LatestClaim' /\ RequestsOK' /\ RowsOK'
  BY <1>1 DEF ClaimsDiffer, LatestClaim, Holding, RequestsOK, RequestOK, OnePerAttempt,
              OwnRequests, RowsOK, AcceptedIsTrue, RetryIsPossible
<1>5. PlatformOK'
  <2>1. \A i \in Ids : row[i].createdAt \in Nat /\ row[i].first \in Int
    BY DEF TypeOK, Row, Time, None
  <2> QED BY <1>1, <2>1 DEF PlatformOK, MemoryOK
<1> QED BY <1>2, <1>3, <1>4, <1>5

-----------------------------------------------------------------------------
(* The invariant, and what it gives *)

LEMMA SenderStep == ASSUME IInv, NEW w \in Workers, Sender(w) PROVE IInv'
<1>1. CASE \E i \in Ids : Begin(w, i)
  BY <1>1, BeginStep
<1>2. CASE Claim(w)
  BY <1>2, ClaimStep
<1>3. CASE Unclaimed(w) \/ Superseded(w) \/ Crash(w)
  BY <1>3, ReleaseStep DEF Unclaimed, Superseded, Crash
<1>4. CASE Refuse(w)
  BY <1>4, RefuseStep
<1>5. CASE NotSent(w)
  BY <1>5, NotSentStep
<1>6. CASE Send(w)
  BY <1>6, SendStep
<1>7. CASE Receive(w)
  BY <1>7, ReceiveStep
<1>8. CASE TimeOut(w)
  BY <1>8, TimeOutStep
<1>9. CASE Complete(w)
  BY <1>9, CompleteStep
<1> QED BY <1>1, <1>2, <1>3, <1>4, <1>5, <1>6, <1>7, <1>8, <1>9 DEF Sender

LEMMA StutterStep == ASSUME IInv, UNCHANGED vars PROVE IInv'
BY DEF vars, IInv, TypeOK, JobsOK, JobOK, ClaimsDiffer, LatestClaim, RequestsOK, RequestOK,
       OnePerAttempt, OwnRequests, PlatformOK, MemoryOK, RowsOK, AcceptedIsTrue,
       RetryIsPossible, Holding

LEMMA NextStep == ASSUME IInv, [Next]_vars PROVE IInv'
<1>1. CASE \E w \in Workers : Sender(w)
  BY <1>1, SenderStep
<1>2. CASE Line
  BY <1>2, LineStep
<1>3. CASE Cancel
  BY <1>3, CancelStep
<1>4. CASE \E a \in Admins : Admin(a)
  BY <1>4, CommitResetStep, PickStep DEF Admin
<1>5. CASE Tick
  BY <1>5, TickStep
<1>6. CASE UNCHANGED vars
  BY <1>6, StutterStep
<1> QED BY <1>1, <1>2, <1>3, <1>4, <1>5, <1>6 DEF Next

\* The inductive invariant holds in every reachable state, with any number of
\* senders, operators and rows.
THEOREM Invariant == Spec => []IInv
BY InitIInv, NextStep, PTL DEF Spec

\* Every reachable state is well typed.
THEOREM TypeCorrect == Spec => []TypeOK
<1>1. IInv => TypeOK
  BY DEF IInv
<1> QED BY <1>1, Invariant, PTL

\* LINE delivers a saved notification at most once.
THEOREM DeliveredOnce == Spec => []AtMostOnce
<1>1. IInv => AtMostOnce
  BY DEF IInv, PlatformOK, MemoryOK, AtMostOnce
<1> QED BY <1>1, Invariant, PTL

\* Every request leaves inside the window of its row's first attempt.
THEOREM WindowKept == Spec => []SendsInsideWindow
<1>1. IInv => SendsInsideWindow
  BY DEF IInv, RequestsOK, RequestOK, SendsInsideWindow
<1> QED BY <1>1, Invariant, PTL

\* A row saved as accepted was accepted by LINE.
THEOREM AcceptanceIsReal == Spec => []AcceptedIsTrue
<1>1. IInv => AcceptedIsTrue
  BY DEF IInv, RowsOK
<1> QED BY <1>1, Invariant, PTL

\* A scheduled retry has an attempt left and is due inside the window.
THEOREM RetriesArePossible == Spec => []RetryIsPossible
<1>1. IInv => RetryIsPossible
  BY DEF IInv, RowsOK
<1> QED BY <1>1, Invariant, PTL

\* A row sends at most MaxAttempts requests in its life: its requests have
\* different attempt numbers, all of them in 1 .. MaxAttempts.
THEOREM BudgetKept == Spec => []AttemptBudget
<1>1. ASSUME IInv, NEW i \in Ids
      PROVE  Cardinality({q \in requests : q.id = i}) <= MaxAttempts
  <2> DEFINE S == {q \in requests : q.id = i}
             number == [q \in S |-> q.attempt]
  <2>1. IsFiniteSet(1 .. MaxAttempts) /\ Cardinality(1 .. MaxAttempts) = MaxAttempts
    BY FS_Interval, ConstantsAssumption
  <2>2. number \in Injection(S, 1 .. MaxAttempts)
    BY <1>1 DEF IInv, RequestsOK, RequestOK, OnePerAttempt, Injection, IsInjective
  <2> HIDE DEF S, number
  <2>3. Cardinality(S) <= Cardinality(1 .. MaxAttempts)
    BY <2>1, <2>2, FS_Injection
  <2> QED BY <2>1, <2>3 DEF S
<1>2. IInv => AttemptBudget
  BY <1>1 DEF AttemptBudget
<1> QED BY <1>2, Invariant, PTL

-----------------------------------------------------------------------------
(* The second invariant: rows whose claim is current are processing *)

LEMMA InitOInv == Init => OInv
<1> SUFFICES ASSUME Init PROVE OInv
  OBVIOUS
<1>1. ClaimedIsProcessing /\ PickedIsFailed
  BY DEF Init, ClaimedIsProcessing, PickedIsFailed, Holding
<1>2. DatesMatchStatus
  <2> SUFFICES ASSUME NEW i \in Ids
               PROVE  (row[i].completed <=> Settled(row[i])) /\ (row[i].sent <=> row[i].status = "accepted")
    BY DEF DatesMatchStatus
  <2>1. row[i] \in {FreshRow(ok) : ok \in BOOLEAN} \cup {LegacyRow(st) : st \in {"sending", "unknown"}}
    BY DEF Init, InitialPairs
  <2>2. CASE \E ok \in BOOLEAN : row[i] = FreshRow(ok)
    BY <2>2 DEF FreshRow, Settled
  <2>3. CASE row[i] = LegacyRow("sending")
    BY <2>3 DEF LegacyRow, FreshRow, Settled
  <2>4. CASE row[i] = LegacyRow("unknown")
    <3>1. /\ row[i].status = "unknown" /\ row[i].nextRetryAt = 0
          /\ row[i].completed = FALSE /\ row[i].sent = FALSE
      BY <2>4 DEF LegacyRow, FreshRow
    <3> QED BY <3>1 DEF Settled, None
  <2> QED BY <2>1, <2>2, <2>3, <2>4
<1> QED BY <1>1, <1>2 DEF OInv

\* Steps that leave the rows alone and hand out no claim.
LEMMA QuietStep ==
  ASSUME OInv, row' = row,
         \A a \in Admins : picked'[a] \subseteq {i \in Ids : row[i].status = "failed"},
         \A w \in Workers : pc'[w] \in Holding =>
           pc[w] \in Holding /\ job'[w].id = job[w].id /\ job'[w].token = job[w].token
  PROVE  OInv'
BY DEF OInv, ClaimedIsProcessing, PickedIsFailed, DatesMatchStatus

\* Nobody's claim is current on a row, other than a processing one, that moved.
LEMMA SenderQuiet ==
  ASSUME IInv, OInv, NEW w \in Workers, row' = row, picked' = picked,
         pc' = [pc EXCEPT ![w] = pc'[w]], job' = [job EXCEPT ![w] = job'[w]],
         pc'[w] \in Holding =>
           pc[w] \in Holding /\ job'[w].id = job[w].id /\ job'[w].token = job[w].token
  PROVE  OInv'
<1>1. \A v \in Workers : v # w => pc'[v] = pc[v] /\ job'[v] = job[v]
  BY DEF IInv, TypeOK
<1>2. \A a \in Admins : picked'[a] \subseteq {i \in Ids : row[i].status = "failed"}
  BY DEF OInv, PickedIsFailed, IInv, TypeOK
<1> QED BY <1>1, <1>2, QuietStep

LEMMA ReleaseQuiet ==
  ASSUME IInv, OInv, NEW w \in Workers,
         Unclaimed(w) \/ Superseded(w) \/ Crash(w) \/ \E i \in Ids : Begin(w, i)
  PROVE  OInv' /\ row' = row
<1>1. /\ row' = row /\ picked' = picked /\ pc'[w] \in {"idle", "claiming"}
      /\ pc' = [pc EXCEPT ![w] = pc'[w]] /\ job' = [job EXCEPT ![w] = job'[w]]
  BY DEF Unclaimed, Superseded, Crash, Begin, IInv, TypeOK
<1> QED BY <1>1, SenderQuiet DEF Holding

\* What a claimed sender does until it saves its result.
LEMMA WorkQuiet ==
  ASSUME IInv, OInv, NEW w \in Workers,
         Refuse(w) \/ NotSent(w) \/ Send(w) \/ Receive(w) \/ TimeOut(w)
  PROVE  OInv' /\ row' = row
<1>1. pc[w] \in {"claimed", "sending"} /\ row' = row /\ picked' = picked
  BY DEF Refuse, NotSent, Send, Receive, TimeOut
<1>2. job[w] \in Job
  BY DEF IInv, TypeOK
<1>3. \A outcome, at : /\ Completion(job[w], outcome, at).id = job[w].id
                       /\ Completion(job[w], outcome, at).token = job[w].token
  BY <1>2 DEF Completion, Job
<1>4. \E j : /\ job' = [job EXCEPT ![w] = j]
             /\ j.id = job[w].id /\ j.token = job[w].token
  <2>1. CASE Refuse(w)
    <3>1. CASE ~row[job[w].id].valid
      <4>1. job' = [job EXCEPT ![w] = Completion(job[w], "rejected", now)]
        BY <2>1, <3>1 DEF Refuse
      <4> QED BY <1>3, <4>1
    <3>2. CASE row[job[w].id].valid
      <4> DEFINE k == [job[w] EXCEPT !.outcome = "unknown", !.nextRetryAt = None]
      <4>1. job' = [job EXCEPT ![w] = k]
        BY <2>1, <3>2 DEF Refuse
      <4>2. k.id = job[w].id /\ k.token = job[w].token
        BY <1>2 DEF Job
      <4> QED BY <4>1, <4>2
    <3> QED BY <3>1, <3>2
  <2>2. CASE NotSent(w)
    <3>1. PICK outcome \in {"rejected", "unknown"} :
            job' = [job EXCEPT ![w] = Completion(job[w], outcome, now)]
      BY <2>2 DEF NotSent
    <3> QED BY <1>3, <3>1
  <2>3. CASE Send(w)
    <3>1. job' = [job EXCEPT ![w] = job[w]]
      BY <2>3 DEF Send, IInv, TypeOK
    <3> QED BY <3>1
  <2>4. CASE Receive(w)
    <3>1. PICK q \in requests : job' = [job EXCEPT ![w] = Completion(job[w], q.state, now)]
      BY <2>4 DEF Receive
    <3> QED BY <1>3, <3>1
  <2>5. CASE TimeOut(w)
    <3>1. job' = [job EXCEPT ![w] = Completion(job[w], "unknown", now)]
      BY <2>5 DEF TimeOut
    <3> QED BY <1>3, <3>1
  <2> QED BY <2>1, <2>2, <2>3, <2>4, <2>5
<1>5. pc' = [pc EXCEPT ![w] = pc'[w]]
  BY DEF Refuse, NotSent, Send, Receive, TimeOut, IInv, TypeOK
<1>6. /\ job' = [job EXCEPT ![w] = job'[w]]
      /\ job'[w].id = job[w].id /\ job'[w].token = job[w].token
  BY <1>4 DEF IInv, TypeOK
<1> QED BY <1>1, <1>5, <1>6, SenderQuiet DEF Holding

\* LINE, the clock, and retryFailed while it reads or gives up.
LEMMA OutsideQuiet ==
  ASSUME IInv, OInv, Line \/ Tick \/ \E a \in Admins : PickFailed(a) \/ AbortReset(a)
  PROVE  OInv' /\ row' = row
<1>1. /\ row' = row /\ pc' = pc /\ job' = job
  BY DEF Line, Tick, PickFailed, AbortReset, Accept, Reject, Lose
<1>2. \A a \in Admins : picked[a] \subseteq {i \in Ids : row[i].status = "failed"}
  BY DEF OInv, PickedIsFailed, IInv, TypeOK
<1>3. \A a \in Admins : picked'[a] \subseteq {i \in Ids : row[i].status = "failed"}
  <2>1. CASE Line \/ Tick
    BY <1>2, <2>1 DEF Line, Tick, Accept, Reject, Lose
  <2>2. CASE \E a \in Admins : PickFailed(a) \/ AbortReset(a)
    BY <1>2, <2>2 DEF PickFailed, AbortReset, IInv, TypeOK
  <2> QED BY <2>1, <2>2
<1> QED BY <1>1, <1>3, QuietStep

-----------------------------------------------------------------------------
(* The four steps that change rows *)

LEMMA ClaimRows ==
  ASSUME IInv, OInv, NEW w \in Workers, Claim(w)
  PROVE  /\ OInv'
         /\ job[w].id \in Ids /\ ~Settled(row[job[w].id]) /\ ~Settled(row'[job[w].id])
         /\ \A k \in Ids : k # job[w].id => row'[k] = row[k]
<1> DEFINE i == job[w].id
           c == ClaimedRow(row[i], job[w].at, issued + 1)
<1>1. pc[w] = "claiming" /\ Claimable(row[i], job[w].at) /\ row' = [row EXCEPT ![i] = c]
      /\ pc' = [pc EXCEPT ![w] = "claimed"] /\ picked' = picked
  BY DEF Claim
<1>2. i \in Ids /\ row[i] \in Row
  BY <1>1 DEF IInv, JobsOK, JobOK, TypeOK
<1>3. c.status = "processing" /\ c.token = issued + 1 /\ c.completed = row[i].completed
      /\ c.sent = row[i].sent
  BY <1>2 DEF ClaimedRow, Row
<1>4. ~Settled(row[i]) /\ row[i].status \notin {"failed", "accepted"}
  BY <1>1 DEF Claimable, Settled
<1> HIDE DEF c
<1>5. \A k \in Ids : row'[k] = IF k = i THEN c ELSE row[k]
  BY <1>1 DEF IInv, TypeOK
<1>6. ~Settled(row'[i])
  BY <1>2, <1>3, <1>5 DEF Settled
<1>7. DatesMatchStatus'
  BY <1>3, <1>4, <1>5, <1>6 DEF OInv, DatesMatchStatus, Settled
<1>8. PickedIsFailed'
  BY <1>1, <1>4, <1>5 DEF OInv, PickedIsFailed, IInv, TypeOK
<1>9. ClaimedIsProcessing'
  <2> SUFFICES ASSUME NEW v \in Workers, pc'[v] \in Holding, job'[v].token = row'[job'[v].id].token
               PROVE  row'[job'[v].id].status = "processing"
    BY DEF ClaimedIsProcessing
  <2>1. CASE v = w
    <3>1. job'[w].id = i
      BY <2>1 DEF Claim, IInv, TypeOK
    <3> QED BY <1>2, <1>3, <1>5, <2>1, <3>1
  <2>2. CASE v # w
    <3>1. pc'[v] = pc[v] /\ job'[v] = job[v]
      BY <2>2 DEF Claim, IInv, TypeOK
    <3>2. job[v].id \in Ids /\ job[v].token \in 1 .. issued /\ issued \in Nat
      BY <3>1 DEF IInv, JobsOK, JobOK, Holding, TypeOK
    <3>3. job[v].id # i
      BY <1>2, <1>3, <1>5, <3>1, <3>2
    <3> QED BY <1>5, <3>1, <3>2, <3>3 DEF OInv, ClaimedIsProcessing
  <2> QED BY <2>1, <2>2
<1> QED BY <1>2, <1>4, <1>5, <1>6, <1>7, <1>8, <1>9 DEF OInv

LEMMA CompleteRows ==
  ASSUME IInv, OInv, NEW w \in Workers, Complete(w)
  PROVE  LET i == job[w].id  s == FinalStatus(job[w]) IN
         /\ OInv'
         /\ i \in Ids /\ row[i].status = "processing"
         /\ row'[i].status = s
         /\ \/ ~Settled(row'[i])
            \/ /\ Settled(row'[i])
               /\ s \in {"accepted", "failed", "unknown"}
               /\ s = "accepted" => platform[i].at # None
         /\ \A k \in Ids : k # i => row'[k] = row[k]
<1> DEFINE j == job[w]
           i == j.id
           c == CompletedRow(row[i], j)
<1>1. pc[w] = "answered" /\ row[i].token = j.token /\ row' = [row EXCEPT ![i] = c]
      /\ pc' = [pc EXCEPT ![w] = "idle"] /\ picked' = picked
      /\ job' = [job EXCEPT ![w] = NoJob]
  BY DEF Complete
<1>2. i \in Ids /\ row[i] \in Row /\ row[i].status = "processing" /\ j \in Job
  BY <1>1 DEF IInv, JobsOK, JobOK, TypeOK, Holding, OInv, ClaimedIsProcessing
<1>3. /\ c.status = FinalStatus(j) /\ c.nextRetryAt = j.nextRetryAt
      /\ c.completed = (j.nextRetryAt = None) /\ c.sent = (j.outcome = "accepted")
      /\ c.token = j.token
  BY <1>1, <1>2 DEF CompletedRow, Row
<1>4. /\ j.outcome \in Outcomes
      /\ j.nextRetryAt # None => j.outcome = "unknown"
      /\ j.outcome = "accepted" => platform[i].at # None
  BY <1>1, <1>2 DEF IInv, JobsOK, JobOK, Job, Holding
<1>5. /\ FinalStatus(j) = "accepted" <=> j.outcome = "accepted"
      /\ FinalStatus(j) \in {"accepted", "failed", "unknown", "retry_wait"}
      /\ FinalStatus(j) = "retry_wait" <=> j.nextRetryAt # None
  BY <1>4 DEF FinalStatus, Outcomes
<1> HIDE DEF c
<1>6. \A k \in Ids : row'[k] = IF k = i THEN c ELSE row[k]
  BY <1>1 DEF IInv, TypeOK
<1>7. (c.completed <=> Settled(c)) /\ (c.sent <=> c.status = "accepted")
  BY <1>3, <1>5 DEF Settled
<1>8. DatesMatchStatus'
  BY <1>6, <1>7 DEF OInv, DatesMatchStatus, Settled
<1>9. PickedIsFailed'
  BY <1>1, <1>2, <1>6 DEF OInv, PickedIsFailed, IInv, TypeOK
<1>10. ClaimedIsProcessing'
  <2> SUFFICES ASSUME NEW v \in Workers, pc'[v] \in Holding, job'[v].token = row'[job'[v].id].token
               PROVE  row'[job'[v].id].status = "processing"
    BY DEF ClaimedIsProcessing
  <2>1. v # w /\ pc'[v] = pc[v] /\ job'[v] = job[v]
    BY <1>1 DEF IInv, TypeOK, Holding
  <2>2. job[v].id \in Ids /\ job[v].token # j.token
    BY <1>1, <2>1 DEF IInv, JobsOK, JobOK, ClaimsDiffer, Holding
  <2>3. job[v].id # i
    BY <1>3, <1>6, <2>1, <2>2
  <2> QED BY <1>6, <2>1, <2>2, <2>3 DEF OInv, ClaimedIsProcessing
<1>11. /\ row'[i].status = FinalStatus(j)
       /\ \/ ~Settled(row'[i])
          \/ /\ Settled(row'[i])
             /\ FinalStatus(j) \in {"accepted", "failed", "unknown"}
             /\ FinalStatus(j) = "accepted" => platform[i].at # None
  BY <1>2, <1>3, <1>4, <1>5, <1>6 DEF Settled
<1> QED BY <1>2, <1>6, <1>8, <1>9, <1>10, <1>11 DEF OInv

LEMMA CancelRows ==
  ASSUME IInv, OInv, Cancel
  PROVE  /\ OInv'
         /\ \A k \in Ids : IF row[k].status \in {"pending", "retry_wait"}
                           THEN row'[k].status = "cancelled" ELSE row'[k] = row[k]
<1>1. /\ \A k \in Ids : IF row[k].status \in {"pending", "retry_wait"}
                        THEN row'[k] = [row[k] EXCEPT !.status = "cancelled", !.completed = TRUE]
                        ELSE row'[k] = row[k]
      /\ pc' = pc /\ job' = job /\ picked' = picked
  BY DEF Cancel
<1>2. \A k \in Ids : row[k] \in Row
  BY DEF IInv, TypeOK
<1>3. \A k \in Ids : row[k].status \in {"pending", "retry_wait"} =>
        /\ row'[k].status = "cancelled" /\ row'[k].completed = TRUE
        /\ row'[k].sent = row[k].sent /\ row'[k].token = row[k].token
  BY <1>1, <1>2 DEF Row
<1>4. \A k \in Ids : row[k].status \notin {"pending", "retry_wait"} => row'[k] = row[k]
  BY <1>1
<1>5. DatesMatchStatus'
  BY <1>3, <1>4 DEF OInv, DatesMatchStatus, Settled
<1>6. PickedIsFailed'
  BY <1>1, <1>4 DEF OInv, PickedIsFailed, IInv, TypeOK
<1>7. ClaimedIsProcessing'
  <2> SUFFICES ASSUME NEW v \in Workers, pc[v] \in Holding, job[v].token = row'[job[v].id].token
               PROVE  row'[job[v].id].status = "processing"
    BY <1>1 DEF ClaimedIsProcessing
  <2>1. job[v].id \in Ids
    BY DEF IInv, JobsOK, JobOK, Holding
  <2>2. row[job[v].id].token = job[v].token
    BY <1>3, <1>4, <2>1
  <2>3. row[job[v].id].status = "processing"
    BY <2>2 DEF OInv, ClaimedIsProcessing
  <2> QED BY <1>4, <2>1, <2>3
<1> QED BY <1>3, <1>4, <1>5, <1>6, <1>7 DEF OInv

LEMMA CommitResetRows ==
  ASSUME OneAdmin, IInv, OInv, NEW a \in Admins, CommitReset(a)
  PROVE  /\ OInv'
         /\ picked[a] \subseteq Ids
         /\ \A k \in Ids : IF k \in picked[a]
                           THEN row[k].status = "failed" /\ row'[k] = ResetRow(row[k])
                                /\ row'[k].status = "pending"
                           ELSE row'[k] = row[k]
<1>1. /\ row' = [i \in Ids |-> IF i \in picked[a] THEN ResetRow(row[i]) ELSE row[i]]
      /\ pc' = pc /\ job' = job
      /\ picked' = [picked EXCEPT ![a] = {}]
  BY DEF CommitReset
<1>2. \A k \in Ids : row[k] \in Row
  BY DEF IInv, TypeOK
<1>3. picked[a] \subseteq Ids /\ \A k \in picked[a] : row[k].status = "failed"
  BY DEF IInv, TypeOK, OInv, PickedIsFailed
<1>4. \A k \in picked[a] :
        /\ row'[k] = ResetRow(row[k]) /\ row'[k].status = "pending"
        /\ row'[k].completed = FALSE
        /\ row'[k].sent = row[k].sent /\ row'[k].token = row[k].token
  BY <1>1, <1>2, <1>3 DEF ResetRow, Row
<1>5. \A k \in Ids : k \notin picked[a] => row'[k] = row[k]
  BY <1>1
<1>6. DatesMatchStatus'
  BY <1>3, <1>4, <1>5 DEF OInv, DatesMatchStatus, Settled
<1>7. PickedIsFailed'
  BY <1>1 DEF OneAdmin, PickedIsFailed, IInv, TypeOK
<1>8. ClaimedIsProcessing'
  <2> SUFFICES ASSUME NEW v \in Workers, pc[v] \in Holding, job[v].token = row'[job[v].id].token
               PROVE  row'[job[v].id].status = "processing"
    BY <1>1 DEF ClaimedIsProcessing
  <2>1. job[v].id \in Ids
    BY DEF IInv, JobsOK, JobOK, Holding
  <2>2. row[job[v].id].token = job[v].token
    BY <1>4, <1>5, <2>1
  <2>3. row[job[v].id].status = "processing"
    BY <2>2 DEF OInv, ClaimedIsProcessing
  <2> QED BY <1>3, <1>5, <2>1, <2>3
<1> QED BY <1>3, <1>4, <1>5, <1>6, <1>7, <1>8 DEF OInv

-----------------------------------------------------------------------------
\* Every step keeps the second invariant; a settled row changes in one way only.
LEMMA NextRows ==
  ASSUME OneAdmin, IInv, OInv, [Next]_vars
  PROVE  /\ OInv'
         /\ \A k \in Ids : \/ row'[k] = row[k]
                           \/ ~Settled(row[k])
                           \/ row[k].status = "failed" /\ row'[k] = ResetRow(row[k])
<1>1. CASE \E w \in Workers : Sender(w)
  <2> PICK w \in Workers : Sender(w)
    BY <1>1
  <2>1. CASE Claim(w)
    BY <2>1, ClaimRows
  <2>2. CASE Complete(w)
    <3>1. ~Settled(row[job[w].id])
      BY <2>2, CompleteRows DEF Settled
    <3> QED BY <2>2, <3>1, CompleteRows
  <2>3. CASE Unclaimed(w) \/ Superseded(w) \/ Crash(w) \/ \E i \in Ids : Begin(w, i)
    BY <2>3, ReleaseQuiet
  <2>4. CASE Refuse(w) \/ NotSent(w) \/ Send(w) \/ Receive(w) \/ TimeOut(w)
    BY <2>4, WorkQuiet
  <2> QED BY <2>1, <2>2, <2>3, <2>4 DEF Sender
<1>2. CASE Line \/ Tick
  BY <1>2, OutsideQuiet
<1>3. CASE Cancel
  BY <1>3, CancelRows DEF Settled
<1>4. CASE \E a \in Admins : Admin(a)
  <2> PICK a \in Admins : Admin(a)
    BY <1>4
  <2>1. CASE CommitReset(a)
    BY <2>1, CommitResetRows
  <2>2. CASE PickFailed(a) \/ AbortReset(a)
    BY <2>2, OutsideQuiet
  <2> QED BY <2>1, <2>2 DEF Admin
<1>5. CASE UNCHANGED vars
  <2>1. row' = row /\ pc' = pc /\ job' = job /\ picked' = picked
    BY <1>5 DEF vars
  <2>2. \A a \in Admins : picked'[a] \subseteq {i \in Ids : row[i].status = "failed"}
    BY <2>1 DEF OInv, PickedIsFailed, IInv, TypeOK
  <2> QED BY <2>1, <2>2, QuietStep
<1> QED BY <1>1, <1>2, <1>3, <1>4, <1>5 DEF Next

\* A sender whose claim is current finds its row processing, and what one
\* retryFailed has read as failed stays failed until it commits.
THEOREM OneAdminInvariant == ASSUME OneAdmin PROVE Spec => []OInv
<1>1. IInv /\ OInv /\ [Next]_vars => OInv'
  BY NextRows
<1> QED BY <1>1, InitOInv, Invariant, PTL DEF Spec

\* With one retryFailed at a time, completedAt and sentAt agree with the status.
THEOREM DatesAgree == ASSUME OneAdmin PROVE Spec => []DatesMatchStatus
<1>1. OInv => DatesMatchStatus
  BY DEF OInv
<1> QED BY <1>1, OneAdminInvariant, PTL

\* With one retryFailed at a time, what is settled stays as it is; only a failed
\* row is opened again, by the reset.
THEOREM SettledStays == ASSUME OneAdmin PROVE Spec => SettledIsFinal
<1>1. IInv /\ OInv /\ [Next]_vars =>
        [\A i \in Ids : /\ Final(row[i]) => row'[i] = row[i]
                        /\ row[i].status = "failed" => row'[i] \in {row[i], ResetRow(row[i])}]_vars
  BY NextRows DEF Final, Settled
<1> QED BY <1>1, Invariant, OneAdminInvariant, PTL DEF Spec, SettledIsFinal

\* With one retryFailed at a time, the rows it resets are failed when it resets
\* them, however long after it read them: it takes two to reset an accepted one.
THEOREM OneAdminRetriesFailed == ASSUME OneAdmin PROVE Spec => AcceptedIsNotRetried
<1>1. OInv => [\A a \in Admins : CommitReset(a) =>
                 \A i \in picked[a] : row[i].status # "accepted"]_vars
  BY DEF OInv, PickedIsFailed
<1> QED BY <1>1, OneAdminInvariant, PTL DEF AcceptedIsNotRetried

-----------------------------------------------------------------------------
(* The refinement *)

LEMMA RefinementInit == Init => Promise!Init
<1> SUFFICES ASSUME Init PROVE Promise!Init
  OBVIOUS
<1>1. \A i \in Ids : Abstract(row[i]) = "open"
  <2> SUFFICES ASSUME NEW i \in Ids PROVE ~Settled(row[i])
    BY DEF Abstract
  <2>1. row[i] \in {FreshRow(ok) : ok \in BOOLEAN} \cup {LegacyRow(st) : st \in {"sending", "unknown"}}
    BY DEF Init, InitialPairs
  <2>2. CASE \E ok \in BOOLEAN : row[i] = FreshRow(ok)
    BY <2>2 DEF FreshRow, Settled
  <2>3. CASE row[i] = LegacyRow("sending")
    BY <2>3 DEF LegacyRow, FreshRow, Settled
  <2>4. CASE row[i] = LegacyRow("unknown")
    <3>1. row[i].status = "unknown" /\ row[i].nextRetryAt = 0
      BY <2>4 DEF LegacyRow, FreshRow
    <3> QED BY <3>1 DEF Settled, None
  <2> QED BY <2>1, <2>2, <2>3, <2>4
<1>2. \A i \in Ids : platform[i].count \in {0, 1}
  BY InitIInv DEF IInv, PlatformOK, MemoryOK
<1> QED BY <1>1, <1>2 DEF Promise!Init

LEMMA PrimedState == [i \in Ids |-> Abstract(row[i])]' = [i \in Ids |-> Abstract(row'[i])]
BY DEF Abstract, Settled

\* An abstract state is a function of the row: equal rows, equal states.
LEMMA SameRows ==
  ASSUME row' = row
  PROVE  UNCHANGED [i \in Ids |-> Abstract(row[i])]
BY PrimedState

LEMMA SamePlatform ==
  ASSUME platform' = platform
  PROVE  UNCHANGED [i \in Ids |-> platform[i].count]
OBVIOUS

LEMMA SenderRefines ==
  ASSUME IInv, OInv, NEW w \in Workers, Sender(w)
  PROVE  [Promise!Next]_(Promise!vars)
<1>1. platform' = platform
  BY DEF Sender, Begin, Claim, Unclaimed, Refuse, NotSent, Send, Receive, TimeOut,
         Complete, Superseded, Crash
<1>2. UNCHANGED [i \in Ids |-> platform[i].count]
  BY <1>1, SamePlatform
<1>3. CASE Claim(w)
  <2>1. \A k \in Ids : Abstract(row'[k]) = Abstract(row[k])
    BY <1>3, ClaimRows DEF Abstract, Settled
  <2>2. UNCHANGED [i \in Ids |-> Abstract(row[i])]
    BY <2>1, PrimedState
  <2> QED BY <1>2, <2>2 DEF Promise!vars
<1>4. CASE Complete(w)
  <2> DEFINE i == job[w].id
             s == FinalStatus(job[w])
  <2>1. /\ i \in Ids /\ row[i].status = "processing" /\ row'[i].status = s
        /\ \A k \in Ids : k # i => row'[k] = row[k]
        /\ \/ ~Settled(row'[i])
           \/ /\ Settled(row'[i])
              /\ s \in {"accepted", "failed", "unknown"}
              /\ s = "accepted" => platform[i].at # None
    BY <1>4, CompleteRows
  <2>2. \A k \in Ids : k # i => Abstract(row'[k]) = Abstract(row[k])
    BY <2>1 DEF Abstract, Settled
  <2>3. Abstract(row[i]) = "open"
    BY <2>1 DEF Abstract, Settled
  <2>4. CASE ~Settled(row'[i])
    <3>1. Abstract(row'[i]) = "open"
      BY <2>1, <2>4 DEF Abstract, Settled
    <3>2. UNCHANGED [k \in Ids |-> Abstract(row[k])]
      BY <2>1, <2>2, <2>3, <3>1, PrimedState
    <3> QED BY <1>2, <3>2 DEF Promise!vars
  <2>5. CASE Settled(row'[i])
    <3>1. Abstract(row'[i]) = s /\ s \in {"accepted", "failed", "unknown"}
      BY <2>1, <2>5 DEF Abstract, Settled
    <3>2. s = "accepted" => platform[i].count = 1
      BY <2>1, <2>5 DEF IInv, PlatformOK, MemoryOK
    <3>3. [k \in Ids |-> Abstract(row[k])]' = [[k \in Ids |-> Abstract(row[k])] EXCEPT ![i] = s]
      BY <2>1, <2>2, <3>1, PrimedState
    <3>4. Promise!Settle(i, s)
      BY <1>2, <2>1, <2>3, <3>2, <3>3 DEF Promise!Settle
    <3> QED BY <2>1, <3>1, <3>4 DEF Promise!Next
  <2> QED BY <2>1, <2>4, <2>5
<1>5. CASE ~Claim(w) /\ ~Complete(w)
  <2>1. row' = row
    BY <1>5, ReleaseQuiet, WorkQuiet DEF Sender
  <2>2. UNCHANGED [i \in Ids |-> Abstract(row[i])]
    BY <2>1, SameRows
  <2> QED BY <1>2, <2>2 DEF Promise!vars
<1> QED BY <1>3, <1>4, <1>5

LEMMA LineRefines ==
  ASSUME IInv, OInv, Line
  PROVE  [Promise!Next]_(Promise!vars)
<1>1. UNCHANGED [i \in Ids |-> Abstract(row[i])]
  <2>1. row' = row
    BY DEF Line, Accept, Reject, Lose
  <2> QED BY <2>1, SameRows
<1>2. PICK q \in requests : Accept(q) \/ Reject(q) \/ Lose(q)
  BY DEF Line
<1>3. q.id \in Ids /\ platform \in [Ids -> [at : Time, count : Nat]]
      /\ platform[q.id].count \in {0, 1}
      /\ (platform[q.id].count = 0 <=> platform[q.id].at = None)
  BY DEF IInv, TypeOK, Request, PlatformOK, MemoryOK
<1>4. CASE platform' = platform
  BY <1>1, <1>4, SamePlatform DEF Promise!vars
<1>5. CASE platform' # platform
  <2>1. Accept(q) /\ ~Remembered(q.id)
    BY <1>2, <1>5 DEF Accept, Reject, Lose
  <2>2. platform[q.id].at = None
    BY <2>1, KeyIsRemembered DEF Accept
  <2>3. platform[q.id].count = 0
    BY <1>3, <2>2
  <2>4. platform' = [platform EXCEPT ![q.id] = [at |-> now, count |-> 1]]
    <3>1. platform' = [platform EXCEPT ![q.id] = [at |-> now, count |-> @.count + 1]]
      BY <2>1 DEF Accept
    <3> QED BY <1>3, <2>3, <3>1
  <2>5. [i \in Ids |-> platform[i].count]'
          = [[i \in Ids |-> platform[i].count] EXCEPT ![q.id] = 1]
    BY <1>3, <2>4
  <2>6. Promise!Deliver(q.id)
    BY <1>1, <1>3, <2>3, <2>5 DEF Promise!Deliver
  <2> QED BY <1>3, <2>6 DEF Promise!Next
<1> QED BY <1>4, <1>5

LEMMA RowsRefine ==
  ASSUME OneAdmin, IInv, OInv, Cancel \/ \E a \in Admins : Admin(a)
  PROVE  [Promise!Next]_(Promise!vars)
<1>1. UNCHANGED [i \in Ids |-> platform[i].count]
  <2>1. platform' = platform
    BY DEF Cancel, Admin, PickFailed, CommitReset, AbortReset
  <2> QED BY <2>1, SamePlatform
<1>2. CASE Cancel
  <2> DEFINE S == {i \in Ids : row[i].status \in {"pending", "retry_wait"}}
  <2>1. \A i \in Ids : IF i \in S THEN Abstract(row[i]) = "open" /\ Abstract(row'[i]) = "cancelled"
                       ELSE Abstract(row'[i]) = Abstract(row[i])
    BY <1>2, CancelRows DEF Abstract, Settled
  <2>2. Promise!Move(S, "open", "cancelled")
    BY <1>1, <2>1, PrimedState DEF Promise!Move
  <2> QED BY <2>2 DEF Promise!Next
<1>3. CASE \E a \in Admins : CommitReset(a)
  <2>1. PICK a \in Admins : CommitReset(a)
    BY <1>3
  <2>2. picked[a] \subseteq Ids
        /\ \A i \in Ids : IF i \in picked[a]
                          THEN Abstract(row[i]) = "failed" /\ Abstract(row'[i]) = "open"
                          ELSE Abstract(row'[i]) = Abstract(row[i])
    BY <2>1, CommitResetRows DEF Abstract, Settled
  <2>3. Promise!Move(picked[a], "failed", "open")
    BY <1>1, <2>2, PrimedState DEF Promise!Move
  <2> QED BY <2>2, <2>3 DEF Promise!Next
<1>4. CASE \E a \in Admins : PickFailed(a) \/ AbortReset(a)
  <2>1. row' = row
    BY <1>4 DEF PickFailed, AbortReset
  <2> QED BY <1>1, <2>1, SameRows DEF Promise!vars
<1> QED BY <1>2, <1>3, <1>4 DEF Admin

LEMMA RefinementStep ==
  ASSUME OneAdmin, IInv, OInv, [Next]_vars
  PROVE  [Promise!Next]_(Promise!vars)
<1>1. CASE Tick \/ UNCHANGED vars
  <2>1. row' = row /\ platform' = platform
    BY <1>1 DEF Tick, vars
  <2> QED BY <2>1, SameRows, SamePlatform DEF Promise!vars
<1> QED BY <1>1, SenderRefines, LineRefines, RowsRefine DEF Next

\* With one retryFailed at a time, whatever the senders do looks like
\* DurableSend: one delivery, one settlement, accepted only if delivered.
THEOREM Refinement == ASSUME OneAdmin PROVE Spec => ImplementsDurableSend
<1>1. IInv /\ OInv /\ [Next]_vars => [Promise!Next]_(Promise!vars)
  BY RefinementStep
<1> QED BY <1>1, RefinementInit, Invariant, OneAdminInvariant, PTL
        DEF Spec, ImplementsDurableSend, Promise!Spec

-----------------------------------------------------------------------------
(* The life of a recipient, as the weekly push relies on it                *)

\* Only a request made inside the attempt limit is accepted.
AnswersInLimit ==
  \A w \in Workers : pc[w] = "answered" /\ job[w].outcome = "accepted" =>
    job[w].attempt <= MaxAttempts

LEMMA CompletionInLimit ==
  ASSUME IInv, AnswersInLimit, NEW w \in Workers, NEW outcome \in Outcomes,
         pc[w] \in {"claimed", "sending"},
         job' = [job EXCEPT ![w] = Completion(job[w], outcome, now)],
         pc' = [pc EXCEPT ![w] = "answered"],
         outcome = "accepted" => job[w].attempt <= MaxAttempts
  PROVE  AnswersInLimit'
<1> DEFINE c == Completion(job[w], outcome, now)
<1>1. job[w] \in Job /\ now \in Nat BY HeldJob DEF IInv, TypeOK
<1>2. c.attempt = job[w].attempt /\ c.outcome = outcome BY <1>1, CompletionFacts
<1>3. job'[w] = c /\ \A v \in Workers : v # w => pc'[v] = pc[v] /\ job'[v] = job[v]
  BY DEF IInv, TypeOK
<1> HIDE DEF c
<1> QED BY <1>2, <1>3 DEF AnswersInLimit

LEMMA LimitStep == IInv /\ AnswersInLimit /\ [Next]_vars => AnswersInLimit'
<1> SUFFICES ASSUME IInv, AnswersInLimit, [Next]_vars PROVE AnswersInLimit' OBVIOUS
<1>0. pc \in [Workers -> {"idle", "claiming", "claimed", "sending", "answered"}] /\ job \in [Workers -> Job]
  BY DEF IInv, TypeOK
<1>1. CASE UNCHANGED <<pc, job>> BY <1>1 DEF AnswersInLimit
<1>2. CASE Line \/ Cancel \/ Tick \/ (\E a \in Admins : Admin(a)) \/ UNCHANGED vars
  BY <1>1, <1>2 DEF Line, Accept, Reject, Lose, Cancel, Tick, Admin, PickFailed, CommitReset,
                    AbortReset, vars
<1>3. ASSUME NEW w \in Workers, NEW p, NEW j, p # "answered",
             pc' = [pc EXCEPT ![w] = p], job' = [job EXCEPT ![w] = j]
      PROVE  AnswersInLimit'
  BY <1>0, <1>3 DEF AnswersInLimit
<1>4. ASSUME NEW w \in Workers,
             Claim(w) \/ Unclaimed(w) \/ Complete(w) \/ Superseded(w) \/ Crash(w)
               \/ \E i \in Ids : Begin(w, i)
      PROVE  AnswersInLimit'
  BY <1>3, <1>4 DEF Claim, Unclaimed, Complete, Superseded, Crash, Begin
<1>5. ASSUME NEW w \in Workers, Send(w) PROVE AnswersInLimit'
  BY <1>0, <1>5 DEF Send, AnswersInLimit
<1>6. ASSUME NEW w \in Workers, Refuse(w) PROVE AnswersInLimit'
  <2>1. CASE ~row[job[w].id].valid
    <3>1. job' = [job EXCEPT ![w] = Completion(job[w], "rejected", now)]
      BY <1>6, <2>1 DEF Refuse
    <3> QED BY <1>6, <3>1, CompletionInLimit DEF Refuse, Outcomes
  <2>2. CASE row[job[w].id].valid
    <3> DEFINE k == [job[w] EXCEPT !.outcome = "unknown", !.nextRetryAt = None]
    <3>1. job' = [job EXCEPT ![w] = k] BY <1>6, <2>2 DEF Refuse
    <3>2. k.outcome = "unknown" BY <1>0 DEF Job
    <3> HIDE DEF k
    <3> QED BY <1>0, <1>6, <3>1, <3>2 DEF Refuse, AnswersInLimit
  <2> QED BY <2>1, <2>2
<1>7. ASSUME NEW w \in Workers, NotSent(w) PROVE AnswersInLimit'
  <2>1. PICK outcome \in {"rejected", "unknown"} :
          job' = [job EXCEPT ![w] = Completion(job[w], outcome, now)]
    BY <1>7 DEF NotSent
  <2> QED BY <1>7, <2>1, CompletionInLimit DEF NotSent, Outcomes
<1>8. ASSUME NEW w \in Workers, Receive(w) PROVE AnswersInLimit'
  <2>1. PICK q \in requests : /\ q.state \in Outcomes
                              /\ job' = [job EXCEPT ![w] = Completion(job[w], q.state, now)]
    BY <1>8 DEF Receive
  <2>2. job[w].attempt <= MaxAttempts BY <1>8 DEF Receive, IInv, JobsOK, JobOK
  <2> QED BY <1>8, <2>1, <2>2, CompletionInLimit DEF Receive
<1>9. ASSUME NEW w \in Workers, TimeOut(w) PROVE AnswersInLimit'
  BY <1>9, CompletionInLimit DEF TimeOut, Outcomes
<1>10. ASSUME NEW w \in Workers, Sender(w) PROVE AnswersInLimit'
  BY <1>4, <1>5, <1>6, <1>7, <1>8, <1>9, <1>10 DEF Sender
<1> QED BY <1>2, <1>10 DEF Next

\* The row the push sees and its attempts are functions of the row.
LEMMA PrimedLife ==
  /\ [i \in Ids |-> Shown(row[i])]' = [i \in Ids |-> Shown(row'[i])]
  /\ [i \in Ids |-> Tried(row[i])]' = [i \in Ids |-> Tried(row'[i])]
BY DEF Shown, Tried

LEMMA LifeInit == Init => Life!RowInit
<1> SUFFICES ASSUME Init, NEW i \in Ids
             PROVE  /\ Shown(row[i]) \in {"pending", "processing", "unknown_retry"}
                    /\ Tried(row[i]) \in {0, 1}
  BY DEF Life!RowInit
<1>1. row[i] \in {FreshRow(ok) : ok \in BOOLEAN} \cup {LegacyRow(st) : st \in {"sending", "unknown"}}
  BY DEF Init, InitialPairs
<1>2. CASE \E ok \in BOOLEAN : row[i] = FreshRow(ok)
  <2>1. row[i].status = "pending" /\ row[i].attempts = 0 BY <1>2 DEF FreshRow
  <2> QED BY <2>1, ConstantsAssumption DEF Shown, Tried
<1>3. CASE \E st \in {"sending", "unknown"} : row[i] = LegacyRow(st)
  <2>1. PICK st \in {"sending", "unknown"} : row[i] = LegacyRow(st) BY <1>3
  <2>2. /\ row[i].status = st /\ row[i].attempts = 1
        /\ st = "unknown" => row[i].nextRetryAt = 0
    BY <2>1 DEF LegacyRow, FreshRow
  <2> QED BY <2>2, ConstantsAssumption DEF Shown, Tried, None
<1> QED BY <1>1, <1>2, <1>3

\* A claim is an attempt at a row that is still to be delivered.
LEMMA ClaimLives ==
  ASSUME IInv, NEW w \in Workers, Claim(w)
  PROVE  Life!RowNext
<1> DEFINE i == job[w].id
           c == ClaimedRow(row[i], job[w].at, issued + 1)
<1>1. pc[w] = "claiming" /\ Claimable(row[i], job[w].at) /\ row' = [row EXCEPT ![i] = c]
  BY DEF Claim
<1>2. i \in Ids /\ row[i] \in Row /\ row \in [Ids -> Row]
  BY <1>1 DEF IInv, JobsOK, JobOK, TypeOK
<1>3. c.status = "processing" /\ c.attempts = row[i].attempts + 1
  BY <1>2 DEF ClaimedRow, Row
<1>4. Life!Retryable(Shown(row[i])) BY <1>1 DEF Claimable, Shown, Life!Retryable
<1> HIDE DEF c
<1>5. Shown(row'[i]) = "processing" BY <1>1, <1>2, <1>3 DEF Shown
<1>6. Tried(row'[i]) = IF Tried(row[i]) > MaxAttempts THEN Tried(row[i]) ELSE Tried(row[i]) + 1
  <2>1. row'[i].attempts = row[i].attempts + 1 BY <1>1, <1>2, <1>3
  <2>2. row[i].attempts \in Nat BY <1>2 DEF Row
  <2> QED BY <2>1, <2>2, ConstantsAssumption DEF Tried
<1>7. \A k \in Ids : k # i => row'[k] = row[k] BY <1>1, <1>2
<1>8. Life!Attempt(i) BY <1>2, <1>4, <1>5, <1>6, <1>7, PrimedLife DEF Life!Attempt
<1> QED BY <1>2, <1>8 DEF Life!RowNext, Life!Deliver

\* A completion under the current claim settles the row with that attempt's answer.
LEMMA CompleteLives ==
  ASSUME IInv, OInv, AnswersInLimit, NEW w \in Workers, Complete(w)
  PROVE  Life!RowNext
<1> DEFINE j == job[w]
           i == j.id
           s == FinalStatus(j)
           c == CompletedRow(row[i], j)
<1>1. pc[w] = "answered" /\ row[i].token = j.token /\ row' = [row EXCEPT ![i] = c]
  BY DEF Complete
<1>2. /\ i \in Ids /\ row[i].status = "processing"
      /\ \A k \in Ids : k # i => row'[k] = row[k]
  BY CompleteRows
<1>3. row[i] \in Row /\ row \in [Ids -> Row] /\ j \in Job BY <1>2 DEF IInv, TypeOK
<1>4. c.status = s /\ c.nextRetryAt = j.nextRetryAt /\ c.attempts = row[i].attempts
  BY <1>3 DEF CompletedRow, Row
<1>5. j.attempt = row[i].attempts /\ j.attempt \in Nat
  BY <1>1, <1>3 DEF IInv, LatestClaim, Holding, Job
<1>6. /\ j.outcome \in Outcomes
      /\ j.nextRetryAt # None => j.outcome = "unknown" /\ j.attempt < MaxAttempts
      /\ j.outcome = "accepted" => j.attempt <= MaxAttempts
  BY <1>1, <1>3 DEF IInv, JobsOK, JobOK, Job, AnswersInLimit
<1>7. /\ s \in {"accepted", "failed", "unknown", "retry_wait"}
      /\ s = "accepted" => j.outcome = "accepted"
      /\ s = "retry_wait" => j.nextRetryAt # None
      /\ s = "unknown" => j.nextRetryAt = None
  BY <1>6 DEF FinalStatus, Outcomes
<1> HIDE DEF c, s
<1>8. row'[i] = c BY <1>1, <1>2, <1>3
<1>9. Shown(row[i]) = "processing" /\ Shown(row'[i]) = s
  BY <1>2, <1>4, <1>7, <1>8 DEF Shown
<1>10. Tried(row'[i]) = Tried(row[i]) BY <1>4, <1>8 DEF Tried
<1>11. /\ s = "accepted" => Tried(row[i]) <= MaxAttempts
       /\ s = "retry_wait" => Tried(row[i]) < MaxAttempts
  BY <1>5, <1>6, <1>7, ConstantsAssumption DEF Tried
<1>12. /\ [k \in Ids |-> Shown(row[k])]' = [[k \in Ids |-> Shown(row[k])] EXCEPT ![i] = s]
       /\ [k \in Ids |-> Tried(row[k])]' = [k \in Ids |-> Tried(row[k])]
  BY <1>2, <1>9, <1>10, PrimedLife
<1>13. Life!Settle(i, s) BY <1>2, <1>9, <1>11, <1>12 DEF Life!Settle
<1> QED BY <1>2, <1>7, <1>13 DEF Life!RowNext, Life!Deliver

\* The administrator moves waiting rows to cancelled and failed ones to pending.
LEMMA RequestLives ==
  ASSUME OneAdmin, IInv, OInv, Cancel \/ \E a \in Admins : CommitReset(a)
  PROVE  Life!RowNext
<1>0. \A k \in Ids : row[k] \in Row BY DEF IInv, TypeOK
<1>1. CASE Cancel
  <2> DEFINE S == {k \in Ids : row[k].status \in {"pending", "retry_wait"}}
  <2>1. \A k \in Ids : IF k \in S THEN /\ Shown(row[k]) \in {"pending", "retry_wait"}
                                       /\ Shown(row'[k]) = "cancelled"
                       ELSE Shown(row'[k]) = Shown(row[k])
    BY <1>1, CancelRows DEF Shown
  <2>2. \A k \in Ids : Tried(row'[k]) = Tried(row[k])
    <3>1. \A k \in Ids : row'[k].attempts = row[k].attempts BY <1>0, <1>1 DEF Cancel, Row
    <3> QED BY <3>1 DEF Tried
  <2>3. S \in SUBSET Ids OBVIOUS
  <2> HIDE DEF S
  <2>4. Life!Move(S, {"pending", "retry_wait"}, "cancelled")
    BY <2>1, <2>2, <2>3, PrimedLife DEF Life!Move
  <2> QED BY <2>3, <2>4 DEF Life!RowNext, Life!Cancel
<1>2. CASE \E a \in Admins : CommitReset(a)
  <2>1. PICK a \in Admins : CommitReset(a) BY <1>2
  <2>2. picked[a] \in SUBSET Ids
        /\ \A k \in Ids : IF k \in picked[a]
                          THEN Shown(row[k]) = "failed" /\ Shown(row'[k]) = "pending"
                          ELSE Shown(row'[k]) = Shown(row[k])
    BY <2>1, CommitResetRows DEF Shown
  <2>3. \A k \in Ids : Tried(row'[k]) = Tried(row[k])
    <3>1. \A k \in Ids : row'[k].attempts = row[k].attempts
      BY <1>0, <2>1 DEF CommitReset, ResetRow, Row
    <3> QED BY <3>1 DEF Tried
  <2>4. Life!Move(picked[a], {"failed"}, "pending")
    BY <2>2, <2>3, PrimedLife DEF Life!Move
  <2> QED BY <2>2, <2>4 DEF Life!RowNext, Life!Retry
<1> QED BY <1>1, <1>2

LEMMA LifeStep ==
  ASSUME OneAdmin, IInv, OInv, AnswersInLimit, [Next]_vars
  PROVE  [Life!RowNext]_(Life!rowVars)
<1> DEFINE Lives == [Life!RowNext]_(Life!rowVars)
<1> SUFFICES Lives OBVIOUS
<1> HIDE DEF Lives
<1>1. ASSUME row' = row PROVE Lives BY <1>1, PrimedLife DEF Lives, Life!rowVars
<1>2. ASSUME NEW w \in Workers, Sender(w) PROVE Lives
  <2>1. CASE Claim(w) BY <2>1, ClaimLives DEF Lives
  <2>2. CASE Complete(w) BY <2>2, CompleteLives DEF Lives
  <2>3. CASE ~Claim(w) /\ ~Complete(w)
    BY <1>1, <1>2, <2>3, ReleaseQuiet, WorkQuiet DEF Sender
  <2> QED BY <2>1, <2>2, <2>3
<1>3. CASE Line \/ Tick \/ UNCHANGED vars
  BY <1>1, <1>3 DEF Line, Accept, Reject, Lose, Tick, vars
<1>4. CASE Cancel \/ \E a \in Admins : CommitReset(a) BY <1>4, RequestLives DEF Lives
<1>5. CASE \E a \in Admins : PickFailed(a) \/ AbortReset(a)
  BY <1>1, <1>5 DEF PickFailed, AbortReset
<1> QED BY <1>2, <1>3, <1>4, <1>5 DEF Next, Admin

\* With one retryFailed at a time, a delivery is for the weekly push what RecipientLife
\* says: a row is settled by the latest attempt at it, and accepted or tried again only
\* inside the attempt limit.
THEOREM RowsLiveSo == ASSUME OneAdmin PROVE Spec => ImplementsRecipientLife
<1>1. Init => AnswersInLimit BY DEF Init, AnswersInLimit
<1>2. Spec => []AnswersInLimit BY <1>1, Invariant, LimitStep, PTL DEF Spec
<1>3. IInv /\ OInv /\ AnswersInLimit /\ [Next]_vars => [Life!RowNext]_(Life!rowVars)
  BY LifeStep
<1> QED BY <1>2, <1>3, LifeInit, Invariant, OneAdminInvariant, PTL
        DEF Spec, ImplementsRecipientLife, Life!RowSpec
=============================================================================
