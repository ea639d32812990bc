-------------------------- MODULE RunLedgerProofs --------------------------
(***************************************************************************)
(* What the counts of a run's rows, and the outcome derived from them,     *)
(* say about the rows. Used for both executors.                            *)
(***************************************************************************)
EXTENDS RunLedger, TLAPS, FiniteSetTheorems

\* A count of rows is a natural number, at most the number of rows, and zero
\* only if no row is counted.
LEMMA CountOfRows ==
  ASSUME IsFiniteSet(Rows), NEW f, NEW s
  PROVE  /\ HowMany(f, s) \in Count
         /\ HowMany(f, s) = 0 => \A r \in Rows : f[r] \notin s
<1> DEFINE S == {r \in Rows : f[r] \in s}
<1>1. S \subseteq Rows OBVIOUS
<1>2. IsFiniteSet(S) /\ Cardinality(S) <= Cardinality(Rows) BY <1>1, FS_Subset
<1>3. Cardinality(S) \in Nat /\ Cardinality(Rows) \in Nat BY <1>2, FS_CardinalityType
<1>4. Cardinality(S) = 0 => S = {} BY <1>2, FS_EmptySet
<1> QED BY <1>2, <1>3, <1>4 DEF HowMany, Count

\* Where no row has one of the statuses, none is counted.
LEMMA NothingCounted ==
  ASSUME NEW f, NEW s, \A r \in Rows : f[r] \notin s
  PROVE  HowMany(f, s) = 0
<1>1. {r \in Rows : f[r] \in s} = {} OBVIOUS
<1> QED BY <1>1, FS_EmptySet DEF HowMany

\* Counts are well typed; no open count means no open row, and whatever outcome then
\* follows is true of the rows: an accepted row for a partial success, an unconfirmed
\* one for "unknown", all of them accepted for a success.
LEMMA CountsOfRows ==
  ASSUME IsFiniteSet(Rows), NEW f \in [Rows -> RowStatuses]
  PROVE  /\ Counts(f) \in Tally
         /\ ~(Counts(f).open > 0) => \A r \in Rows : ~Retryable(f[r])
         /\ ~(Counts(f).open > 0) /\ Outcome(Counts(f)) = "success" =>
              \A r \in Rows : f[r] = "accepted"
         /\ Outcome(Counts(f)) = "partial_success" => \E r \in Rows : f[r] = "accepted"
         /\ Outcome(Counts(f)) = "unknown" => \E r \in Rows : f[r] \in {"unknown", "cancelled"}
<1> DEFINE Open == {"pending", "processing", "retry_wait", "unknown_retry"}
           c == Counts(f)
<1>1. /\ HowMany(f, Open) \in Count /\ HowMany(f, {"accepted"}) \in Count
      /\ HowMany(f, {"failed"}) \in Count /\ HowMany(f, {"unknown", "cancelled"}) \in Count
  BY CountOfRows
<1>2. Counts(f) \in Tally BY <1>1 DEF Counts, Tally
<1>3. ASSUME ~(c.open > 0) PROVE \A r \in Rows : f[r] \notin Open
  <2>1. HowMany(f, Open) = 0 BY <1>1, <1>3 DEF Counts, Count
  <2> QED BY <2>1, CountOfRows
<1>4. ASSUME ~(c.open > 0) PROVE \A r \in Rows : ~Retryable(f[r])
  BY <1>3, <1>4 DEF Retryable
<1>5. ASSUME ~(c.open > 0), Outcome(c) = "success" PROVE \A r \in Rows : f[r] = "accepted"
  <2>1. HowMany(f, {"failed"}) = 0 /\ HowMany(f, {"unknown", "cancelled"}) = 0
    BY <1>1, <1>5 DEF Counts, Count, Outcome
  <2>2. \A r \in Rows : f[r] \notin {"failed"} /\ f[r] \notin {"unknown", "cancelled"}
    BY <2>1, CountOfRows
  <2> QED BY <1>3, <1>5, <2>2 DEF RowStatuses
<1>6. ASSUME Outcome(c) = "partial_success" PROVE \E r \in Rows : f[r] = "accepted"
  <2>1. c.accepted > 0 BY <1>6 DEF Outcome
  <2>2. HowMany(f, {"accepted"}) # 0 BY <2>1 DEF Counts
  <2> QED BY <2>2, NothingCounted
<1>7. ASSUME Outcome(c) = "unknown" PROVE \E r \in Rows : f[r] \in {"unknown", "cancelled"}
  <2>1. c.unknown > 0 BY <1>7 DEF Outcome
  <2>2. HowMany(f, {"unknown", "cancelled"}) # 0 BY <2>1 DEF Counts
  <2> QED BY <2>2, NothingCounted
<1> QED BY <1>2, <1>4, <1>5, <1>6, <1>7

\* The empty counts are well typed.
LEMMA NoCountsTyped == IsFiniteSet(Rows) => NoCounts \in Tally
<1> SUFFICES ASSUME IsFiniteSet(Rows) PROVE NoCounts \in Tally OBVIOUS
<1>1. Cardinality(Rows) \in Nat BY FS_CardinalityType
<1> QED BY <1>1 DEF NoCounts, Tally, Count

\* An outcome is one of the ended statuses.
LEMMA OutcomeEnds == \A c : Outcome(c) \in Ended
BY DEF Outcome, Ended
=============================================================================
