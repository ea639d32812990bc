----------------------------- MODULE MCWakeDay -----------------------------
(* WakeCoverage, DailyReminder and CoachImport on small instances, side by side: *)
(* they share no state, and no property relates them, so one of them moves in a  *)
(* behaviour.                                                                     *)
EXTENDS WakeCoverage, DailyReminder, CoachImport

CONSTANTS A, B, pool, l1, l2

VARIABLE moves
MCAtFirst == [n \in Names |-> "a"]

\* One coach has an account, without LINE. Ragic's first answer has both coaches with their
\* LINE accounts; the other has them swapped, one of them twice.
MCAtStart == [a \in Ids |-> IF a = 1 THEN [name |-> A, line |-> Null, number |-> FALSE,
                                          status |-> "approved"] ELSE Null]
With(l, e) == <<[line |-> l, number |-> e]>>
Row(n, t) == [name |-> n, teaches |-> t]
MCSheets ==
  {[departments |-> <<pool>>, coaches |-> <<Row(A, TRUE), Row(B, TRUE)>>,
    staff |-> [n \in People |-> IF n = A THEN With(l1, TRUE) ELSE With(l2, FALSE)]],
   [departments |-> <<>>, coaches |-> <<Row(B, TRUE), Row(A, TRUE), Row(A, FALSE)>>,
    staff |-> [n \in People |-> IF n = A THEN With(l2, FALSE) \o With(l1, FALSE) ELSE With(l1, TRUE)]]}

DayInit == /\ Init /\ ReminderInit /\ ImportInit
           /\ moves \in {"coverage", "reminder", "import"} /\ (moves # "import" => wakeMode)
CoverageMoves == moves = "coverage" /\ Next /\ UNCHANGED <<moves, reminderVars, importVars>>
ReminderMoves == moves = "reminder" /\ ReminderNext /\ UNCHANGED <<moves, vars, importVars>>
ImportMoves == moves = "import" /\ ImportNext /\ UNCHANGED <<moves, vars, reminderVars>>
DayNext == CoverageMoves \/ ReminderMoves \/ ImportMoves
DaySpec == DayInit /\ [][DayNext]_<<moves, vars, reminderVars, importVars>> /\ ReminderFairness
=============================================================================
