---------------------------- MODULE AssignDraft ----------------------------
(***************************************************************************)
(* One row of the coach assignment page: what the editor picked and the    *)
(* server has not acknowledged (the draft), the requests under way, and    *)
(* what the page says of them. Requests and answers overtake one another,  *)
(* and an answer can be lost after the row was written.                    *)
(*                                                                         *)
(* The row itself is its version and its coaches, which other editors      *)
(* write too. What a write of the server does to the row is modelled;      *)
(* whether a change must be confirmed or is refused for another reason     *)
(* than its version and its coaches is decided in Scheduling and is a      *)
(* choice here. A request is told apart by its revision.                   *)
(***************************************************************************)
EXTENDS Naturals, FiniteSets

CONSTANTS
  Values, Empty, \* the values of a field; no coach
  None,          \* nothing picked, nothing written
  Coaches,       \* the values that name a coach: the other names are placeholders
  Offered,       \* field -> the values in its list
  Rows,          \* what the row holds at first and after another editor's write
  MaxRevisions,  \* bound: the changes made on this page
  MaxVersion     \* bound: the writes of the row, by anyone

CoachFields == {"coachName", "coachName2"}
Fields == CoachFields \cup {"coach1IsTeaching", "coach2IsTeaching"}

ASSUME FieldsAssumption ==
  /\ None \notin Values /\ {Empty, FALSE} \subseteq Values /\ Coaches \subseteq Values \ {Empty}
  /\ Offered \in [Fields -> SUBSET Values] /\ Rows \subseteq [Fields -> Values] /\ Rows # {}
  /\ MaxRevisions \in Nat /\ MaxVersion \in Nat \ {0}

VARIABLES
  version,    \* of the row, at the server
  content,    \* of the row, at the server: field -> value
  cached,     \* of the row, as the page has it
  reading,    \* the version in an answer to a reload that is under way, or 0
  draft,      \* field -> the pick that is not acknowledged
  fieldRev,   \* field -> the last change that carried it
  revision,   \* changes so far
  patches,    \* revision -> what it carried
  pending,    \* the revisions without an outcome
  saveState,
  requests,   \* on their way to the server
  answers,    \* on their way back, or shown as a dialog
  wanted,     \* ghost: field -> the editor's last pick, unless discarded
  stored,     \* ghost: field -> what the server last wrote for this page
  first,      \* ghost: the last revision whose write included the first coach, or 0
  lifted,     \* ghost: the last revision whose write moved a second coach up, or 0
  committed   \* ghost: the revisions the server wrote something for
server == <<version, content, stored, first, lifted, committed>>
changes == <<fieldRev, revision, patches, wanted>>
row == <<draft, pending, saveState>>
vars == <<server, cached, reading, changes, row, requests, answers>>

Picks == [Fields -> Values \cup {None}]
Nothing == [f \in Fields |-> None]
Carried(p) == {f \in Fields : p[f] # None}
Revisions == 1 .. MaxRevisions
Versions == 1 .. MaxVersion
Requests == [rev : Revisions, version : Versions, confirmed : BOOLEAN]
Outcomes == {"saved", "conflict", "error", "confirm"}
Answers == [rev : Revisions, version : Versions, outcome : Outcomes]
SaveStates == {"none", "saving", "saved", "dirty", "error", "conflict"}

Init ==
  /\ version = 1 /\ content \in Rows /\ cached = 1 /\ reading = 0
  /\ draft = Nothing /\ fieldRev = [f \in Fields |-> 0] /\ revision = 0
  /\ patches = [r \in Revisions |-> Nothing] /\ pending = {} /\ saveState = "none"
  /\ requests = {} /\ answers = {}
  /\ wanted = Nothing /\ stored = Nothing /\ first = 0 /\ lifted = 0 /\ committed = {}

-----------------------------------------------------------------------------
(* The changes: onMutate, then the request with the version cached by then. *)
Over(p, q) == [f \in Fields |-> IF p[f] # None THEN p[f] ELSE q[f]]

\* Mutant: a field keeps the first change that carried it.
FirstOwners(r, p) ==
  [f \in Fields |-> IF p[f] # None /\ fieldRev[f] = 0 THEN r ELSE fieldRev[f]]
Owners(r, p) == [f \in Fields |-> IF p[f] # None THEN r ELSE fieldRev[f]]

Submit(p) ==
  LET r == revision + 1 IN
  /\ revision < MaxRevisions
  /\ revision' = r /\ patches' = [patches EXCEPT ![r] = p]
  /\ draft' = Over(p, draft) /\ wanted' = Over(p, wanted)
  /\ fieldRev' = Owners(r, p)
  /\ pending' = pending \cup {r} /\ saveState' = "saving"
  /\ requests' = requests \cup {[rev |-> r, version |-> cached, confirmed |-> FALSE]}
  /\ UNCHANGED <<server, cached, reading, answers>>

\* A choice in one of the row's lists. They are disabled while the row saves, but
\* a list that is open by then is not, nor is a clear mark, and the automatic
\* assignment sends both coaches of a row at once.
Pick(f, v) == Submit([Nothing EXCEPT ![f] = v])

Unsaved == saveState \in {"dirty", "error", "conflict"} /\ draft # Nothing
\* Retry: the whole draft in one request.
Retry == Unsaved /\ Submit(draft)
Discard ==
  /\ Unsaved
  /\ draft' = Nothing /\ saveState' = "none"
  /\ wanted' = [f \in Fields |-> IF draft[f] # None THEN None ELSE wanted[f]]
  /\ UNCHANGED <<server, cached, reading, fieldRev, revision, patches, pending,
                 requests, answers>>

-----------------------------------------------------------------------------
(* The server. *)
\* assign-coach takes one field of a request, in this order.
Order(f) == CASE f = "coachName2" -> 1 [] f = "coach1IsTeaching" -> 2
              [] f = "coach2IsTeaching" -> 3 [] OTHER -> 4
Taken(p) == CHOOSE f \in Carried(p) : \A g \in Carried(p) : Order(f) <= Order(g)
\* Clearing the second coach clears the role too.
Requested(p) ==
  [f \in Fields |->
     IF f = Taken(p) THEN p[f]
     ELSE IF f = "coach2IsTeaching" /\ Taken(p) = "coachName2" /\ p["coachName2"] = Empty
     THEN FALSE ELSE None]

\* preparePatch: a second coach without a first moves up, with the role.
Alone(next) == next["coachName"] = Empty /\ next["coachName2"] # Empty
MovedUp(next) ==
  [next EXCEPT !["coachName"] = next["coachName2"], !["coachName2"] = Empty,
               !["coach1IsTeaching"] = next["coach2IsTeaching"], !["coach2IsTeaching"] = FALSE]
Prepared(p, before) == IF Alone(Over(p, before)) THEN MovedUp(Over(p, before)) ELSE p
SameCoach(after) == after["coachName"] = after["coachName2"] /\ after["coachName"] \in Coaches

\* Mutant: the row's version is not compared.
Unchecked(m) == TRUE
Current(m) == m.version = version

\* Nobody waits for the answer to a request that was given up.
Answer(m, outcome, v) ==
  /\ requests' = requests \ {m}
  /\ answers' = answers \cup (IF m.rev \notin pending THEN {}
                  ELSE {[rev |-> m.rev, version |-> v, outcome |-> outcome]})
Refuse(m) ==
  /\ \/ ~Current(m) /\ Answer(m, "conflict", m.version)
     \/ Current(m) /\ Answer(m, "error", m.version)
     \/ Current(m) /\ ~m.confirmed /\ Answer(m, "confirm", m.version)
  /\ UNCHANGED <<server, cached, reading, changes, row>>
Accept(m) ==
  LET asked == Requested(patches[m.rev])
      patch == Prepared(asked, content) IN
  /\ Current(m) /\ version < MaxVersion /\ version' = version + 1
  /\ ~SameCoach(Over(patch, content)) /\ content' = Over(patch, content)
  /\ stored' = Over(patch, stored) /\ committed' = committed \cup {m.rev}
  /\ first' = IF patch["coachName"] # None THEN m.rev ELSE first
  /\ lifted' = IF Alone(Over(asked, content)) THEN m.rev ELSE lifted
  /\ Answer(m, "saved", version + 1)
  /\ UNCHANGED <<cached, reading, changes, row>>

\* Someone else writes the row.
OtherWrite ==
  /\ version < MaxVersion /\ version' = version + 1 /\ content' \in Rows
  /\ UNCHANGED <<stored, first, lifted, committed, cached, reading, changes, row,
                 requests, answers>>

-----------------------------------------------------------------------------
(* The outcomes: onSuccess and onError. *)
\* Mutant: an acknowledged change clears the whole draft.
AllCleared(r) == Nothing
\* remainingDraft, without the fields this revision still owns.
Remaining(r) ==
  [f \in Fields |-> IF patches[r][f] # None /\ fieldRev[f] = r /\ draft[f] = patches[r][f]
                    THEN None ELSE draft[f]]
\* Mutant: the row does not wait for its other requests.
NotWaiting(waiting, otherwise) == otherwise
Waiting(waiting, otherwise) == IF waiting # {} THEN "saving" ELSE otherwise

Succeeded(r) ==
  /\ pending' = pending \ {r} /\ draft' = Remaining(r)
  /\ saveState' = Waiting(pending \ {r}, IF Remaining(r) # Nothing THEN "dirty" ELSE "saved")

\* Mutant: a failed request stays pending.
FailedButPending(r, kind) ==
  saveState' = Waiting(pending, kind) /\ UNCHANGED <<pending, draft>>
Failed(r, kind) ==
  LET owns == \E f \in Carried(patches[r]) : fieldRev[f] = r /\ draft[f] # None IN
  /\ pending' = pending \ {r} /\ UNCHANGED draft
  /\ saveState' = Waiting(pending \ {r}, IF draft = Nothing THEN "saved"
                                         ELSE IF owns THEN kind ELSE "dirty")

\* An answer arrives.
Hear(x) ==
  /\ x.outcome # "confirm" /\ answers' = answers \ {x}
  /\ IF x.outcome = "saved" THEN Succeeded(x.rev) /\ cached' = x.version
     ELSE Failed(x.rev, x.outcome) /\ UNCHANGED cached
  /\ UNCHANGED <<server, reading, changes, requests>>

\* CONFIRM_REQUIRED: the editor refuses, or the same change is sent once more.
Ask(x) ==
  /\ x.outcome = "confirm" /\ answers' = answers \ {x}
  /\ \/ Failed(x.rev, "error") /\ UNCHANGED requests
     \/ /\ requests' = requests \cup {[rev |-> x.rev, version |-> x.version, confirmed |-> TRUE]}
        /\ UNCHANGED row
  /\ UNCHANGED <<server, cached, reading, changes>>

\* The connection breaks; the request may still be handled.
GiveUp(r) ==
  /\ Failed(r, "error") /\ answers' = {x \in answers : x.rev # r}
  /\ UNCHANGED <<server, cached, reading, changes, requests>>

\* A reload, by the editor or after a write of any row, replaces one under way: the
\* version is read at the server and shown later.
Read ==
  /\ reading' = version
  /\ UNCHANGED <<server, cached, changes, row, requests, answers>>
Show ==
  /\ reading # 0 /\ cached' = reading /\ reading' = 0
  /\ UNCHANGED <<server, changes, row, requests, answers>>

Handled == \E m \in requests : Refuse(m) \/ Accept(m)
Heard == \E x \in answers : Hear(x) \/ Ask(x)
Next ==
  \/ \E f \in Fields : \E v \in Offered[f] : Pick(f, v)
  \/ Retry \/ Discard \/ Handled \/ OtherWrite \/ Heard
  \/ \E r \in pending : GiveUp(r)
  \/ Read \/ Show
Spec == Init /\ [][Next]_vars

-----------------------------------------------------------------------------
(* Properties. *)
\* Types; and what the draft holds is what the last change of the field carried,
\* so that its acknowledgement finds it.
TypeOK ==
  /\ version \in Versions /\ cached \in 1 .. version /\ reading \in 0 .. version
  /\ content \in [Fields -> Values]
  /\ draft \in Picks /\ wanted \in Picks /\ stored \in Picks
  /\ revision \in 0 .. MaxRevisions /\ fieldRev \in [Fields -> 0 .. revision]
  /\ patches \in [Revisions -> Picks] /\ saveState \in SaveStates
  /\ pending \subseteq 1 .. revision /\ committed \subseteq 1 .. revision
  /\ first \in 0 .. revision /\ lifted \in 0 .. revision
  /\ requests \subseteq Requests /\ answers \subseteq Answers
  /\ \A f \in Fields : draft[f] # None =>
       fieldRev[f] \in Revisions /\ patches[fieldRev[f]][f] = draft[f]

\* A pick the editor did not discard is still in the draft or was in a change the
\* server wrote: an answer to another or an older change never takes it away.
PickKept ==
  \A f \in Fields : wanted[f] # None => draft[f] = wanted[f] \/ fieldRev[f] \in committed

\* When the row says it is saved, each coach the server took from the editor's last
\* change of a place is what it wrote last for this page in that place, late requests
\* and given-up ones included. The one exception: with that change or a later one the
\* server moved a second coach up. Then the coach is in the first place, or a later
\* change of this page was written over it there: so a second coach who was moved up
\* is lost to the retry of the first pick. (What it did not take is SavedIsStored.)
SavedTakenStored ==
  saveState = "saved" =>
    \A f \in CoachFields :
      wanted[f] \notin {None, Empty} /\ f = Taken(patches[fieldRev[f]])
        => \/ stored[f] = wanted[f]
           \/ /\ lifted >= fieldRev[f]
              /\ stored["coachName"] = wanted[f] \/ first > fieldRev[f]

\* The row says it is saving exactly while one of its requests has no outcome:
\* the answer to one of several does not end it.
SavingMeansWaiting == saveState = "saving" <=> pending # {}

\* A row never waits for nothing: a change without an outcome is in a request on its
\* way or in an answer, a dialog included, however requests and answers overtake one
\* another and whatever is given up, discarded or asked again.
PendingUnderWay == pending \subseteq {m.rev : m \in requests} \cup {x.rev : x \in answers}

\* What the page's comment and tests say of it: when the row says it is saved, every
\* coach who was picked is stored, in one place or the other. A retry of two fields
\* breaks it.
SavedIsStored ==
  saveState = "saved" =>
    \A f \in CoachFields : wanted[f] \notin {None, Empty}
                             => wanted[f] \in {stored[g] : g \in CoachFields}
=============================================================================
