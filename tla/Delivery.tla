------------------------------ MODULE Delivery ------------------------------
(***************************************************************************)
(* One saved notification per recipient row, delivered by any number of    *)
(* concurrent senders that may stall or crash between any two awaits.      *)
(*                                                                         *)
(*   core/notifications/delivery.ts            deliverNotification         *)
(*   modules/notification/delivery.repository  claim / complete            *)
(*   modules/notification/lineNotify.adapter   the LINE push request       *)
(*   modules/weeklyPush/weeklyPush.repository  cancelUnsentRecipients      *)
(*   core/weekly-push/use-cases.ts             retryFailed                 *)
(*                                                                         *)
(* The LINE platform is external: it remembers an accepted retry key for   *)
(* KeyMemory and answers a repeated key without delivering it again.       *)
(* Time is one integer clock; each `deps.now()` call reads it, and the     *)
(* value read is the one later steps use, however late they run.           *)
(***************************************************************************)
EXTENDS Integers, FiniteSets

CONSTANTS
  Ids,           \* recipient rows
  Workers,       \* concurrent calls of deliverNotification
  Admins,        \* concurrent retryFailed transactions
  NoId,          \* the row of an idle sender
  MaxAttempts,   \* MAX_DELIVERY_ATTEMPTS
  Lease,         \* DELIVERY_LEASE_MS
  BaseDelay,     \* 60_000, the first retry delay
  Window,        \* RETRY_WINDOW_MS
  Transit,       \* longest time a request travels before it reaches LINE
  KeyMemory,     \* how long LINE remembers an accepted retry key
  MaxTime,       \* bound: last clock value
  MaxResets      \* bound: committed retryFailed transactions

None == -1       \* a NULL column, or an undefined field
NoToken == 0     \* no claimToken yet

VARIABLES
  now,           \* Date.now()
  row,           \* weekly_push_recipients, by id
  pc, job,       \* where each sender is, and its DeliveryRecord
  issued,        \* claim tokens handed out so far (randomUUID is fresh)
  requests,      \* every push request ever sent, with its answer
  platform,      \* LINE: when a row's retry key was accepted, and how often
                 \* its message was delivered
  picked,        \* rows each retryFailed transaction has read as failed
  resets         \* committed retryFailed transactions

vars == <<now, row, pc, job, issued, requests, platform, picked, resets>>

(***************************************************************************)
(* A retry is due 60s * 2^(attempt-1) after the answer.                    *)
(***************************************************************************)
RetryDelay(attempt) == BaseDelay * 2^(IF attempt > 0 THEN attempt - 1 ELSE 0)

ASSUME ConstantsAssumption ==
  /\ MaxAttempts \in Nat \ {0}
  /\ Lease \in Nat \ {0} /\ BaseDelay \in Nat /\ Window \in Nat \ {0}
  /\ Transit \in Nat /\ KeyMemory \in Nat /\ MaxTime \in Nat /\ MaxResets \in Nat
  /\ NoId \notin Ids
ASSUME BackoffAssumption == \A n \in 1 .. MaxAttempts : RetryDelay(n) \in Nat
\* LINE documents a 24 hour memory; a request leaves before the 24 hours end,
\* so the memory must also outlast its flight.
ASSUME MemoryAssumption == KeyMemory >= Window + Transit

Time == Nat \cup {None}
Statuses == {"pending", "processing", "sending", "retry_wait", "unknown",
             "accepted", "failed", "cancelled"}
Outcomes == {"accepted", "rejected", "unknown"}
Row == [status : Statuses, attempts : Nat, nextRetryAt : Time,
        completed : BOOLEAN,  \* completedAt is set
        sent : BOOLEAN,       \* sentAt is set
        first : Time,         \* payload.delivery.firstAttemptAt
        token : Nat,          \* payload.delivery.claimToken
        claimedAt : Time, createdAt : Nat,
        saved : BOOLEAN,      \* payload.fixedDelivery exists
        valid : BOOLEAN]      \* its retry key, `to` and text are usable
Job == [id : Ids \cup {NoId}, at : Time, token : Nat, attempt : Nat,
        first : Time, outcome : Outcomes \cup {"none"}, nextRetryAt : Time]
NoJob == [id |-> NoId, at |-> None, token |-> NoToken, attempt |-> 0,
          first |-> None, outcome |-> "none", nextRetryAt |-> None]
Request == [id : Ids, attempt : Nat, token : Nat, at : Nat,
            state : {"flying", "lost"} \cup Outcomes]

TypeOK ==
  /\ now \in Nat
  /\ row \in [Ids -> Row]
  /\ pc \in [Workers -> {"idle", "claiming", "claimed", "sending", "answered"}]
  /\ job \in [Workers -> Job]
  /\ issued \in Nat
  /\ requests \in SUBSET Request
  /\ platform \in [Ids -> [at : Time, count : Nat]]
  /\ picked \in [Admins -> SUBSET Ids]
  /\ resets \in Nat

-----------------------------------------------------------------------------
(***************************************************************************)
(* Rows as createRunBundle saves them, and rows the earlier sender left:   *)
(* no delivery metadata, one attempt made, LINE may have accepted it.      *)
(***************************************************************************)
FreshRow(ok) ==
  [status |-> "pending", attempts |-> 0, nextRetryAt |-> None,
   completed |-> FALSE, sent |-> FALSE, first |-> None, token |-> NoToken,
   claimedAt |-> None, createdAt |-> 0, saved |-> TRUE, valid |-> ok]
LegacyRow(st) ==
  [FreshRow(TRUE) EXCEPT !.status = st, !.attempts = 1, !.saved = FALSE,
                         !.claimedAt = 0,
                         !.nextRetryAt = IF st = "sending" THEN None ELSE 0]
NeverAccepted == [at |-> None, count |-> 0]
InitialPairs ==
  {<<FreshRow(ok), NeverAccepted>> : ok \in BOOLEAN} \cup
  ({LegacyRow(st) : st \in {"sending", "unknown"}} \X
     {NeverAccepted, [at |-> 0, count |-> 1]})

Init ==
  /\ now = 0
  /\ \E start \in [Ids -> InitialPairs] :
       /\ row = [i \in Ids |-> start[i][1]]
       /\ platform = [i \in Ids |-> start[i][2]]
  /\ pc = [w \in Workers |-> "idle"]
  /\ job = [w \in Workers |-> NoJob]
  /\ issued = 0
  /\ requests = {}
  /\ picked = [a \in Admins |-> {}]
  /\ resets = 0

-----------------------------------------------------------------------------
(***************************************************************************)
(* claim(id, now): one transaction on the locked row. `at` is the clock    *)
(* read before the transaction started.                                    *)
(***************************************************************************)
LeaseHeld(r, at) ==
  r.status \in {"processing", "sending"} /\ at < r.claimedAt + Lease
Claimable(r, at) ==
  /\ r.status \in {"pending", "processing", "sending", "retry_wait", "unknown"}
  /\ ~LeaseHeld(r, at)
  /\ ~(r.status = "unknown" /\ r.nextRetryAt = None)
  /\ ~(r.nextRetryAt # None /\ at < r.nextRetryAt)
\* Mutant: the retry window restarts with every attempt.
LatestAttempt(r, at) == at
FirstAttempt(r, at) ==
  IF r.first # None THEN r.first
  ELSE IF r.saved /\ r.attempts = 0 THEN at ELSE r.createdAt
ClaimedRow(r, at, tok) ==
  [r EXCEPT !.status = "processing", !.attempts = r.attempts + 1,
            !.nextRetryAt = None, !.first = FirstAttempt(r, at),
            !.token = tok, !.claimedAt = at, !.saved = TRUE]

\* deliverNotification starts: the clock is read, the claim is on its way.
Begin(w, i) ==
  /\ pc[w] = "idle"
  /\ pc' = [pc EXCEPT ![w] = "claiming"]
  /\ job' = [job EXCEPT ![w] = [NoJob EXCEPT !.id = i, !.at = now]]
  /\ UNCHANGED <<now, row, issued, requests, platform, picked, resets>>

Claim(w) ==
  LET i == job[w].id  r == row[i]  at == job[w].at IN
  /\ pc[w] = "claiming"
  /\ Claimable(r, at)
  /\ issued' = issued + 1
  /\ row' = [row EXCEPT ![i] = ClaimedRow(r, at, issued + 1)]
  /\ pc' = [pc EXCEPT ![w] = "claimed"]
  /\ job' = [job EXCEPT ![w] = [NoJob EXCEPT !.id = i, !.at = at,
               !.token = issued + 1, !.attempt = r.attempts + 1,
               !.first = FirstAttempt(r, at)]]
  /\ UNCHANGED <<now, requests, platform, picked, resets>>

\* The claim finds nothing to do: deliverNotification returns "unclaimed".
Unclaimed(w) ==
  /\ pc[w] = "claiming"
  /\ ~Claimable(row[job[w].id], job[w].at)
  /\ pc' = [pc EXCEPT ![w] = "idle"]
  /\ job' = [job EXCEPT ![w] = NoJob]
  /\ UNCHANGED <<now, row, issued, requests, platform, picked, resets>>

(***************************************************************************)
(* deliveryCompletion: what the answer becomes. An unknown answer is       *)
(* retried while attempts are left and the retry stays inside the window;  *)
(* RETRY_WINDOW_EXPIRED never is.                                          *)
(***************************************************************************)
\* Mutant: a retry may be due at the very end of the window.
CanRetryAtTheEnd(j, at) ==
  /\ j.attempt < MaxAttempts
  /\ at + RetryDelay(j.attempt) <= j.first + Window
CanRetry(j, at) ==
  /\ j.attempt < MaxAttempts
  /\ at + RetryDelay(j.attempt) < j.first + Window
Completion(j, outcome, at) ==
  [j EXCEPT !.outcome = outcome,
            !.nextRetryAt = IF outcome = "unknown" /\ CanRetry(j, at)
                            THEN at + RetryDelay(j.attempt) ELSE None]
\* Mutants: the window, or the attempt limit, is checked only when scheduling.
WindowUnchecked(j) == FALSE
AttemptsUnchecked(j) == FALSE
WindowExpired(j) == now >= j.first + Window
Exhausted(j) == j.attempt > MaxAttempts

\* The three checks made before anything is sent, in the code's order.
Refuse(w) ==
  LET j == job[w]  ok == row[j.id].valid IN
  /\ pc[w] = "claimed"
  /\ ~ok \/ Exhausted(j) \/ WindowExpired(j)
  /\ pc' = [pc EXCEPT ![w] = "answered"]
  /\ job' = [job EXCEPT ![w] =
               IF ~ok THEN Completion(j, "rejected", now)
               ELSE [j EXCEPT !.outcome = "unknown", !.nextRetryAt = None]]
  /\ UNCHANGED <<now, row, issued, requests, platform, picked, resets>>

\* The adapter stops before the request leaves: no token configured
\* (rejected), or the surrounding operation is out of time (unknown).
NotSent(w) ==
  LET j == job[w] IN
  /\ pc[w] = "claimed"
  /\ row[j.id].valid /\ ~Exhausted(j) /\ ~WindowExpired(j)
  /\ pc' = [pc EXCEPT ![w] = "answered"]
  /\ \E outcome \in {"rejected", "unknown"} :
       job' = [job EXCEPT ![w] = Completion(j, outcome, now)]
  /\ UNCHANGED <<now, row, issued, requests, platform, picked, resets>>

Send(w) ==
  LET j == job[w] IN
  /\ pc[w] = "claimed"
  /\ row[j.id].valid /\ ~Exhausted(j) /\ ~WindowExpired(j)
  /\ pc' = [pc EXCEPT ![w] = "sending"]
  /\ requests' = requests \cup {[id |-> j.id, attempt |-> j.attempt,
                                 token |-> j.token, at |-> now,
                                 state |-> "flying"]}
  /\ UNCHANGED <<now, row, job, issued, platform, picked, resets>>

-----------------------------------------------------------------------------
(***************************************************************************)
(* The LINE platform (external). A key it remembers is answered 409 with   *)
(* the accepted request id, which the adapter reads as accepted; any       *)
(* request may instead be refused (4xx) or fail (5xx, 408, plain 409), and *)
(* a failing one may have been accepted all the same.                      *)
(***************************************************************************)
Remembered(i) == platform[i].at # None /\ now < platform[i].at + KeyMemory
Answered(q, outcome) == (requests \ {q}) \cup {[q EXCEPT !.state = outcome]}

Accept(q) ==
  /\ q.state = "flying" /\ now <= q.at + Transit
  /\ platform' = IF Remembered(q.id) THEN platform
                 ELSE [platform EXCEPT ![q.id] = [at |-> now, count |-> @.count + 1]]
  /\ \E outcome \in {"accepted", "unknown"} : requests' = Answered(q, outcome)
  /\ UNCHANGED <<now, row, pc, job, issued, picked, resets>>

Reject(q) ==
  /\ q.state = "flying" /\ now <= q.at + Transit
  /\ \E outcome \in {"rejected", "unknown"} : requests' = Answered(q, outcome)
  /\ UNCHANGED <<now, row, pc, job, issued, platform, picked, resets>>

Lose(q) ==
  /\ q.state = "flying"
  /\ requests' = Answered(q, "lost")
  /\ UNCHANGED <<now, row, pc, job, issued, platform, picked, resets>>

-----------------------------------------------------------------------------
\* The response arrives and is classified; the completion is computed at once.
Receive(w) ==
  /\ pc[w] = "sending"
  /\ \E q \in requests :
       /\ q.token = job[w].token /\ q.state \in Outcomes
       /\ job' = [job EXCEPT ![w] = Completion(job[w], q.state, now)]
  /\ pc' = [pc EXCEPT ![w] = "answered"]
  /\ UNCHANGED <<now, row, issued, requests, platform, picked, resets>>

\* Timeout, abort or network error: the request itself may still arrive.
TimeOut(w) ==
  /\ pc[w] = "sending"
  /\ job' = [job EXCEPT ![w] = Completion(job[w], "unknown", now)]
  /\ pc' = [pc EXCEPT ![w] = "answered"]
  /\ UNCHANGED <<now, row, issued, requests, platform, picked, resets>>

(***************************************************************************)
(* complete(record, completion, now): one transaction on the locked row;   *)
(* only the claim token decides whether the result is still wanted.        *)
(***************************************************************************)
\* Mutant: the raw outcome is saved in place of the state.
OutcomeAsStatus(j) ==
  IF j.nextRetryAt # None THEN "retry_wait" ELSE j.outcome
FinalStatus(j) ==
  CASE j.outcome = "accepted" -> "accepted"
    [] j.outcome = "rejected" -> "failed"
    [] OTHER -> IF j.nextRetryAt # None THEN "retry_wait" ELSE "unknown"
CompletedRow(r, j) ==
  [r EXCEPT !.status = FinalStatus(j), !.nextRetryAt = j.nextRetryAt,
            !.completed = (j.nextRetryAt = None),
            !.sent = (j.outcome = "accepted")]

\* Mutant: the result is saved whoever holds the claim now.
CompleteUnfenced(w) ==
  LET j == job[w] IN
  /\ pc[w] = "answered"
  /\ row' = [row EXCEPT ![j.id] = CompletedRow(row[j.id], j)]
  /\ pc' = [pc EXCEPT ![w] = "idle"]
  /\ job' = [job EXCEPT ![w] = NoJob]
  /\ UNCHANGED <<now, issued, requests, platform, picked, resets>>

Complete(w) ==
  LET j == job[w] IN
  /\ pc[w] = "answered"
  /\ row[j.id].token = j.token
  /\ row' = [row EXCEPT ![j.id] = CompletedRow(row[j.id], j)]
  /\ pc' = [pc EXCEPT ![w] = "idle"]
  /\ job' = [job EXCEPT ![w] = NoJob]
  /\ UNCHANGED <<now, issued, requests, platform, picked, resets>>

\* "Notification delivery claim was superseded": the result is dropped.
Superseded(w) ==
  /\ pc[w] = "answered"
  /\ row[job[w].id].token # job[w].token
  /\ pc' = [pc EXCEPT ![w] = "idle"]
  /\ job' = [job EXCEPT ![w] = NoJob]
  /\ UNCHANGED <<now, row, issued, requests, platform, picked, resets>>

\* The process stops, or a transaction fails: the caller keeps nothing.
Crash(w) ==
  /\ pc[w] # "idle"
  /\ pc' = [pc EXCEPT ![w] = "idle"]
  /\ job' = [job EXCEPT ![w] = NoJob]
  /\ UNCHANGED <<now, row, issued, requests, platform, picked, resets>>

-----------------------------------------------------------------------------
\* cancelUnsentRecipients: one UPDATE over the rows not being sent.
Cancel ==
  /\ \E i \in Ids : row[i].status \in {"pending", "retry_wait"}
  /\ row' = [i \in Ids |->
       IF row[i].status \in {"pending", "retry_wait"}
       THEN [row[i] EXCEPT !.status = "cancelled", !.completed = TRUE]
       ELSE row[i]]
  /\ UNCHANGED <<now, pc, job, issued, requests, platform, picked, resets>>

\* retryFailed, its first query: the rows that are failed now. None: it throws.
PickFailed(a) ==
  LET failed == {i \in Ids : row[i].status = "failed"} IN
  /\ picked[a] = {} /\ failed # {}
  /\ resets < MaxResets
  /\ picked' = [picked EXCEPT ![a] = failed]
  /\ UNCHANGED <<now, row, pc, job, issued, requests, platform, resets>>

\* retryFailed commits: resetRecipient writes each picked row by id alone.
ResetRow(r) == [r EXCEPT !.status = "pending", !.completed = FALSE,
                         !.nextRetryAt = None]
CommitReset(a) ==
  /\ picked[a] # {}
  /\ resets < MaxResets
  /\ row' = [i \in Ids |-> IF i \in picked[a] THEN ResetRow(row[i]) ELSE row[i]]
  /\ picked' = [picked EXCEPT ![a] = {}]
  /\ resets' = resets + 1
  /\ UNCHANGED <<now, pc, job, issued, requests, platform>>

\* The transaction rolls back, for instance because the queue is unavailable.
AbortReset(a) ==
  /\ picked[a] # {}
  /\ picked' = [picked EXCEPT ![a] = {}]
  /\ UNCHANGED <<now, row, pc, job, issued, requests, platform, resets>>

Tick ==
  /\ now < MaxTime
  /\ now' = now + 1
  /\ UNCHANGED <<row, pc, job, issued, requests, platform, picked, resets>>

-----------------------------------------------------------------------------
Sender(w) ==
  \/ \E i \in Ids : Begin(w, i)
  \/ Claim(w) \/ Unclaimed(w)
  \/ Refuse(w) \/ NotSent(w) \/ Send(w)
  \/ Receive(w) \/ TimeOut(w)
  \/ Complete(w) \/ Superseded(w)
  \/ Crash(w)
Line == \E q \in requests : Accept(q) \/ Reject(q) \/ Lose(q)
Admin(a) == PickFailed(a) \/ CommitReset(a) \/ AbortReset(a)

Next ==
  \/ \E w \in Workers : Sender(w)
  \/ Line
  \/ Cancel
  \/ \E a \in Admins : Admin(a)
  \/ Tick

Spec == Init /\ [][Next]_vars
-----------------------------------------------------------------------------
(***************************************************************************)
(* Properties                                                              *)
(***************************************************************************)
Live(w, i) == pc[w] \in {"claimed", "sending", "answered"} /\ job[w].id = i
Settled(r) ==
  \/ r.status \in {"accepted", "failed", "cancelled"}
  \/ r.status = "unknown" /\ r.nextRetryAt = None

\* LINE delivers a saved notification at most once, whatever crashes, stalls,
\* lease takeovers, late requests and manual retries happen: every attempt
\* reuses the saved retry key, and none leaves after the key may be forgotten.
AtMostOnce == \A i \in Ids : platform[i].count <= 1

\* A row's whole life sends at most MAX_DELIVERY_ATTEMPTS requests: an attempt
\* number is used once, across reclaims after a crash and across retryFailed,
\* which does not clear attemptCount.
AttemptBudget ==
  \A i \in Ids : Cardinality({q \in requests : q.id = i}) <= MaxAttempts

\* No request leaves 24 hours or more after the row's first attempt, even if
\* its sender stalled between the claim and the send or was superseded.
SendsInsideWindow ==
  \A q \in requests : row[q.id].first <= q.at /\ q.at < row[q.id].first + Window

\* `accepted` is only ever saved for a message LINE did accept; a late or
\* superseded sender cannot save somebody else's answer.
AcceptedIsTrue ==
  \A i \in Ids : row[i].status = "accepted" => platform[i].at # None

\* A row left in retry_wait can still be sent when its retry is due: attempts
\* are left and the due time is inside the window of its first attempt.
RetryIsPossible ==
  \A i \in Ids : row[i].status = "retry_wait" =>
    /\ row[i].attempts < MaxAttempts
    /\ row[i].nextRetryAt # None
    /\ row[i].nextRetryAt < row[i].first + Window

\* completedAt is set exactly on settled rows and sentAt exactly on accepted
\* ones: reports and countRecipientStatuses read them as the same fact.
DatesMatchStatus ==
  \A i \in Ids : /\ row[i].completed <=> Settled(row[i])
                 /\ row[i].sent <=> row[i].status = "accepted"


\* retryFailed retries what failed: it never takes a row LINE accepted, in the
\* time between reading the failed rows and resetting them, back to pending.
AcceptedIsNotRetried ==
  [][\A a \in Admins : CommitReset(a) =>
       \A i \in picked[a] : row[i].status # "accepted"]_vars

\* A row that settled as accepted, cancelled or finally unknown never changes
\* again; a failed one changes only through retryFailed, to pending.
Final(r) == Settled(r) /\ r.status # "failed"
SettledIsFinal ==
  [][\A i \in Ids : /\ Final(row[i]) => row'[i] = row[i]
                    /\ row[i].status = "failed" => row'[i] \in {row[i], ResetRow(row[i])}]_vars
=============================================================================
