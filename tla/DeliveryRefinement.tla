------------------------- MODULE DeliveryRefinement -------------------------
(***************************************************************************)
(* While one retryFailed runs at a time, Delivery implements DurableSend   *)
(* and RecipientLife; and the inductive invariant that shows it.           *)
(***************************************************************************)
EXTENDS Delivery

Abstract(r) ==
  IF ~Settled(r) THEN "open" ELSE r.status
Promise == INSTANCE DurableSend WITH
  state <- [i \in Ids |-> Abstract(row[i])],
  delivered <- [i \in Ids |-> platform[i].count]

\* Every step of the delivery code is a step of DurableSend, or none: at most
\* one delivery, one settlement, and accepted only for what LINE accepted.
ImplementsDurableSend == Promise!Spec

\* The row as the weekly push sees it: its status, an unknown one with a retry ahead
\* set apart, and its attempts, not counted beyond the first that is too many.
Shown(r) ==
  IF r.status = "sending" THEN "processing"
  ELSE IF r.status = "unknown" /\ r.nextRetryAt # None THEN "unknown_retry"
  ELSE r.status
Tried(r) == IF r.attempts > MaxAttempts THEN MaxAttempts + 1 ELSE r.attempts
Life == INSTANCE RecipientLife WITH
  Rows <- Ids, MaxTries <- MaxAttempts,
  row <- [i \in Ids |-> Shown(row[i])],
  tries <- [i \in Ids |-> Tried(row[i])]

\* What both executors of a weekly run take for granted of a delivery is what the
\* delivery does: who may settle a row, with which result after how many attempts.
ImplementsRecipientLife == Life!RowSpec

-----------------------------------------------------------------------------
Holding == {"claimed", "sending", "answered"}
Holds(w, i) == pc[w] \in Holding /\ job[w].id = i

\* What a sender knows, by where it is.
JobOK(w) ==
  /\ pc[w] # "idle" => job[w].id \in Ids /\ job[w].at \in 0 .. now
  /\ pc[w] \in Holding =>
       /\ job[w].token \in 1 .. issued
       /\ job[w].attempt \in 1 .. row[job[w].id].attempts
       /\ job[w].first # None /\ job[w].first = row[job[w].id].first
  /\ pc[w] = "sending" => job[w].attempt <= MaxAttempts
  /\ pc[w] = "answered" => job[w].outcome # "none"
  /\ pc[w] = "answered" /\ job[w].nextRetryAt # None =>
       /\ job[w].outcome = "unknown"
       /\ job[w].attempt < MaxAttempts
       /\ job[w].nextRetryAt < job[w].first + Window
  /\ pc[w] = "answered" /\ job[w].outcome = "accepted" =>
       platform[job[w].id].at # None
JobsOK == \A w \in Workers : JobOK(w)

\* A claim is one sender's: no two share a token, or an attempt of one row.
ClaimsDiffer ==
  \A v, w \in Workers :
    v # w /\ pc[v] \in Holding /\ pc[w] \in Holding =>
      /\ job[v].token # job[w].token
      /\ job[v].id = job[w].id => job[v].attempt # job[w].attempt

\* The latest claim carries the row's attempt number.
LatestClaim ==
  /\ \A i \in Ids : row[i].token <= issued
  /\ \A w \in Workers : pc[w] \in Holding /\ job[w].token = row[job[w].id].token =>
       job[w].attempt = row[job[w].id].attempts

\* Requests were made by claims, one each, inside the limits.
RequestOK(q) ==
  /\ q.token \in 1 .. issued
  /\ q.attempt \in 1 .. MaxAttempts
  /\ q.attempt <= row[q.id].attempts
  /\ row[q.id].first # None
  /\ row[q.id].first <= q.at /\ q.at < row[q.id].first + Window
  /\ q.state = "accepted" => platform[q.id].at # None
OnePerAttempt ==
  \A p, q \in requests : p.id = q.id /\ p.attempt = q.attempt => p = q
OwnRequests ==
  \A w \in Workers, q \in requests :
    pc[w] \in Holding =>
      /\ q.token = job[w].token => q.id = job[w].id
      /\ pc[w] = "claimed" /\ q.id = job[w].id => q.attempt # job[w].attempt
RequestsOK == (\A q \in requests : RequestOK(q)) /\ OnePerAttempt /\ OwnRequests

\* LINE's memory starts no earlier than the row's first attempt.
MemoryOK(i) ==
  /\ platform[i].count \in {0, 1}
  /\ platform[i].count = 0 <=> platform[i].at = None
  /\ row[i].createdAt <= now /\ row[i].first <= now
  /\ platform[i].at # None =>
       IF row[i].first # None THEN row[i].first <= platform[i].at
       ELSE /\ row[i].createdAt <= platform[i].at
            /\ ~(row[i].saved /\ row[i].attempts = 0)
PlatformOK == \A i \in Ids : MemoryOK(i)

RowsOK == AcceptedIsTrue /\ RetryIsPossible

IInv == /\ TypeOK /\ JobsOK /\ ClaimsDiffer /\ LatestClaim
        /\ RequestsOK /\ PlatformOK /\ RowsOK

\* With one retryFailed at a time: a sender whose claim is current finds its row
\* still processing, and what a retryFailed has read as failed still is.
OneAdmin == \A a, b \in Admins : a = b
ClaimedIsProcessing ==
  \A w \in Workers : pc[w] \in Holding /\ job[w].token = row[job[w].id].token =>
    row[job[w].id].status = "processing"
PickedIsFailed == \A a \in Admins : \A i \in picked[a] : row[i].status = "failed"
OInv == ClaimedIsProcessing /\ PickedIsFailed /\ DatesMatchStatus
=============================================================================
