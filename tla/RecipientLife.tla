--------------------------- MODULE RecipientLife ---------------------------
(***************************************************************************)
(* What a saved recipient goes through, whoever delivers it: the part of   *)
(* Delivery that the weekly push relies on. WorkerRun and WakeRun keep to  *)
(* it with claims of their own, Delivery with tokens, leases and clocks.   *)
(*                                                                         *)
(* A status and a number of attempts: a row is settled by the attempt that *)
(* took it up, and what is accepted, unknown or cancelled stays so.        *)
(***************************************************************************)
EXTENDS RunLedger

CONSTANT MaxTries    \* MAX_DELIVERY_ATTEMPTS
VARIABLES row, tries
rowVars == <<row, tries>>

\* createRunBundle's rows, and those the earlier sender left.
RowInit ==
  /\ row \in [Rows -> {"pending", "processing", "unknown_retry"}]
  /\ tries \in [Rows -> {0, 1}]

\* A claim, also of a row whose sender has gone.
Attempt(r) ==
  /\ Retryable(row[r])
  /\ row' = [row EXCEPT ![r] = "processing"]
  /\ tries' = [tries EXCEPT ![r] = IF @ > MaxTries THEN @ ELSE @ + 1]

\* The answer of the attempt: the last one is not followed by another, and one too
\* many sends nothing.
Settle(r, s) ==
  /\ row[r] = "processing"
  /\ s = "accepted" => tries[r] <= MaxTries
  /\ s = "retry_wait" => tries[r] < MaxTries
  /\ row' = [row EXCEPT ![r] = s]
  /\ UNCHANGED tries

Deliver == \E r \in Rows : Attempt(r) \/
             \E s \in {"accepted", "failed", "unknown", "retry_wait"} : Settle(r, s)

Move(S, from, to) ==
  /\ \A r \in S : row[r] \in from
  /\ row' = [r \in Rows |-> IF r \in S THEN to ELSE row[r]]
  /\ UNCHANGED tries
\* cancelUnsentRecipients leaves a row that is being sent alone; resetRecipient
\* opens failed rows only, and clears no attempts.
Cancel == \E S \in SUBSET Rows : Move(S, {"pending", "retry_wait"}, "cancelled")
Retry == \E S \in SUBSET Rows : Move(S, {"failed"}, "pending")

RowNext == Deliver \/ Cancel \/ Retry
RowSpec == RowInit /\ [][RowNext]_rowVars
=============================================================================
