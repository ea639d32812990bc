--------------------------- MODULE MCAssignDraft ---------------------------
(* AssignDraft on small instances: the two coaches of a row, which holds at   *)
(* first, and after another editor's write, one of a few contents.            *)
EXTENDS AssignDraft

CONSTANTS ann, bob, cid
MCValues == {ann, bob, cid, Empty} \cup BOOLEAN
Holding(coach) ==
  [f \in Fields |-> CASE f = "coachName" -> coach [] f = "coachName2" -> Empty
                      [] f = "coach1IsTeaching" -> TRUE [] OTHER -> FALSE]

\* The editor picks the first coach or clears the place, and picks the second.
MCOffered == [f \in Fields |-> CASE f = "coachName" -> {ann, Empty}
                                  [] f = "coachName2" -> {bob} [] OTHER -> {}]
MCRows == {Holding(Empty), Holding(cid)}

\* A row that has a first coach, and an editor who clears nothing: no one moves up.
PickedOnly == [MCOffered EXCEPT !["coachName"] = {ann}]
WithCoach == {Holding(cid)}
=============================================================================
