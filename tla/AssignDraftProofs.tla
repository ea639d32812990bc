------------------------- MODULE AssignDraftProofs -------------------------
(***************************************************************************)
(* Proofs about AssignDraft for every set of values, rows and bounds.      *)
(*                                                                         *)
(* A late request cannot undo a later change: a change is written at the   *)
(* version of the row by then, a request carries a version the page had    *)
(* seen when it was sent, so whatever was sent before it conflicts (Late). *)
(* A field's last change is the one its acknowledgement looks for (Last),  *)
(* so what left the draft was written (PickKept). What was written stays   *)
(* until a later change writes the place, or moves a second coach into it  *)
(* (Stored).                                                               *)
(***************************************************************************)
EXTENDS AssignDraft, TLAPS

\* Requests and answers belong to changes made, with versions the row had.
Sent ==
  /\ \A m \in requests : m.rev \in 1 .. revision /\ m.version <= version
  /\ \A x \in answers : x.rev \in pending /\ x.version <= version
\* Nothing sent up to a change that was written can be written any more.
Late ==
  \A c \in committed :
    /\ \A m \in requests : m.rev <= c => m.version < version
    /\ \A x \in answers : x.outcome = "confirm" /\ x.rev <= c => x.version < version
\* A change is on its way in one message at a time.
Once ==
  /\ \A m, n \in requests : m.rev = n.rev => m = n
  /\ \A x, y \in answers : x.rev = y.rev => x = y
  /\ \A m \in requests, x \in answers : m.rev # x.rev
Acknowledged == \A x \in answers : x.outcome = "saved" => x.rev \in committed
\* fieldRev names the last change that carried a field.
Last ==
  \A r \in 1 .. revision :
    /\ Carried(patches[r]) # {}
    /\ \A f \in Fields : patches[r][f] # None => r <= fieldRev[f]
Wanted ==
  \A f \in Fields :
    /\ draft[f] # None => wanted[f] = draft[f]
    /\ wanted[f] # None => fieldRev[f] \in Revisions /\ patches[fieldRev[f]][f] = wanted[f]
SavedIsEmpty == saveState = "saved" => draft = Nothing
\* Where the coach a change carried is: in its place, or moved up by that change or a
\* later one, and then in the first place unless a later change wrote that.
Held(f, coach, r) ==
  \/ stored[f] = coach
  \/ lifted >= r /\ (stored["coachName"] = coach \/ first > r)
Stored ==
  \A f \in CoachFields :
    fieldRev[f] \in committed /\ f = Taken(patches[fieldRev[f]]) /\ patches[fieldRev[f]][f] # Empty
      => Held(f, patches[fieldRev[f]][f], fieldRev[f])

IInv ==
  /\ TypeOK /\ Sent /\ Late /\ Once /\ Acknowledged /\ Last /\ Wanted /\ PickKept
  /\ SavingMeansWaiting /\ SavedIsEmpty /\ Stored

-----------------------------------------------------------------------------
\* The route takes a field the request carries, if it carries one.
LEMMA TakenCarried ==
  ASSUME NEW p \in Picks, Carried(p) # {}
  PROVE  Taken(p) \in Carried(p)
<1>1. Carried(p) \subseteq {"coachName", "coachName2", "coach1IsTeaching", "coach2IsTeaching"}
  BY DEF Carried, Fields, CoachFields
<1>2. /\ Order("coachName2") = 1 /\ Order("coach1IsTeaching") = 2
      /\ Order("coach2IsTeaching") = 3 /\ Order("coachName") = 4
  BY DEF Order
<1>3. \E f \in Carried(p) : \A g \in Carried(p) : Order(f) <= Order(g)
  <2>1. CASE "coachName2" \in Carried(p)  BY <1>1, <1>2, <2>1
  <2>2. CASE "coachName2" \notin Carried(p) /\ "coach1IsTeaching" \in Carried(p)
    BY <1>1, <1>2, <2>2
  <2>3. CASE /\ "coachName2" \notin Carried(p) /\ "coach1IsTeaching" \notin Carried(p)
             /\ "coach2IsTeaching" \in Carried(p)
    BY <1>1, <1>2, <2>3
  <2>4. CASE Carried(p) = {"coachName"}
    BY <1>2, <2>4
  <2> QED BY <1>1, <2>1, <2>2, <2>3, <2>4
<1> QED BY <1>3 DEF Taken

\* Of the coaches, a request asks for the one it is taken for.
LEMMA RequestedTaken ==
  ASSUME NEW p \in Picks, Carried(p) # {}
  PROVE  /\ Requested(p) \in Picks /\ Requested(p)[Taken(p)] = p[Taken(p)]
         /\ \A f \in CoachFields : f # Taken(p) => Requested(p)[f] = None
<1>1. Taken(p) \in Fields
  BY TakenCarried DEF Carried
<1>2. \A f \in Fields : p[f] \in Values \cup {None} /\ FALSE \in Values
  BY FieldsAssumption DEF Picks
<1>3. Requested(p) \in Picks
  BY <1>2 DEF Requested, Picks
<1>4. Requested(p)[Taken(p)] = p[Taken(p)]
  BY <1>1 DEF Requested
<1>5. \A f \in CoachFields : f \in Fields /\ f # "coach2IsTeaching"
  BY DEF CoachFields, Fields
<1> QED BY <1>3, <1>4, <1>5 DEF Requested

\* What is written for a request, and a row after it, are well typed; a request that
\* leaves a second coach alone writes every field, the second coach in the first place.
LEMMA PreparedTypes ==
  ASSUME NEW p \in Picks, NEW before \in [Fields -> Values]
  PROVE  /\ Prepared(p, before) \in Picks
         /\ Over(Prepared(p, before), before) \in [Fields -> Values]
         /\ Alone(Over(p, before)) =>
              /\ Over(p, before)["coachName2"] # Empty /\ Over(p, before)["coachName"] = Empty
              /\ Prepared(p, before)["coachName"] = Over(p, before)["coachName2"]
              /\ Prepared(p, before)["coachName"] # None
         /\ ~Alone(Over(p, before)) => Prepared(p, before) = p
<1> DEFINE next == Over(p, before)
<1>1. /\ {Empty, FALSE} \subseteq Values /\ None \notin Values
      /\ "coachName" \in Fields /\ "coachName2" \in Fields
      /\ "coach1IsTeaching" \in Fields /\ "coach2IsTeaching" \in Fields
  BY FieldsAssumption DEF Fields, CoachFields
<1>2. ASSUME NEW q \in Picks PROVE Over(q, before) \in [Fields -> Values]
  BY <1>1 DEF Over, Picks
<1>3. next \in [Fields -> Values]
  BY <1>2
<1>4. MovedUp(next) \in [Fields -> Values] /\ MovedUp(next)["coachName"] = next["coachName2"]
  <2> HIDE DEF next
  <2> QED BY <1>1, <1>3 DEF MovedUp
<1>5. Prepared(p, before) \in Picks
  BY <1>4 DEF Prepared, Picks
<1>6. next["coachName2"] # None
  BY <1>1, <1>3
<1> QED BY <1>2, <1>4, <1>5, <1>6 DEF Prepared, Alone

LEMMA InitInv == Init => IInv
<1> SUFFICES ASSUME Init PROVE IInv
  OBVIOUS
<1> USE FieldsAssumption
<1>1. Nothing \in Picks /\ \A f \in Fields : Nothing[f] = None
  BY DEF Nothing, Picks
<1>2. TypeOK
  BY <1>1 DEF Init, TypeOK, Versions, Revisions, Requests, Answers, SaveStates
<1>3. Sent /\ Late /\ Once /\ Acknowledged /\ Last
  BY DEF Init, Sent, Late, Once, Acknowledged, Last
<1>4. Wanted /\ PickKept /\ SavingMeansWaiting /\ SavedIsEmpty
  BY <1>1 DEF Init, Wanted, PickKept, SavingMeansWaiting, SavedIsEmpty
<1>5. Stored
  BY DEF Init, Stored
<1> QED BY <1>2, <1>3, <1>4, <1>5 DEF IInv

\* A change that carries something keeps the invariant.
LEMMA SubmitInv ==
  ASSUME IInv, NEW p \in Picks, Carried(p) # {}, Submit(p)
  PROVE  IInv'
<1> USE FieldsAssumption
<1> DEFINE r == revision + 1
           m == [rev |-> r, version |-> cached, confirmed |-> FALSE]
<1>0. TypeOK /\ Sent /\ Late /\ Once /\ Acknowledged /\ Last /\ Wanted /\ PickKept /\ Stored
  BY DEF IInv
<1>1. /\ revision \in Nat /\ revision' = r /\ r \in Revisions /\ r \in Nat
      /\ version \in Versions /\ version' = version /\ cached \in 1 .. version
      /\ committed \subseteq 1 .. revision /\ committed' = committed
      /\ cached' = cached /\ reading' = reading /\ answers' = answers
      /\ UNCHANGED <<content, stored, first, lifted>>
  BY <1>0 DEF Submit, TypeOK, Revisions, server, Versions
<1>2. /\ patches' = [patches EXCEPT ![r] = p] /\ patches \in [Revisions -> Picks]
      /\ patches' \in [Revisions -> Picks] /\ patches'[r] = p
      /\ \A s \in 1 .. revision : s \in Revisions /\ s # r /\ patches'[s] = patches[s]
  BY <1>0, <1>1 DEF Submit, TypeOK, Revisions
<1>3. /\ draft' \in Picks /\ wanted' \in Picks
      /\ \A f \in Fields :
           /\ draft'[f] = IF p[f] # None THEN p[f] ELSE draft[f]
           /\ wanted'[f] = IF p[f] # None THEN p[f] ELSE wanted[f]
  BY <1>0 DEF Submit, TypeOK, Over, Picks
<1>4. /\ fieldRev' \in [Fields -> 0 .. revision'] /\ fieldRev \in [Fields -> 0 .. revision]
      /\ \A f \in Fields : fieldRev'[f] = IF p[f] # None THEN r ELSE fieldRev[f]
  BY <1>0, <1>1 DEF Submit, TypeOK, Owners
<1>5. /\ requests' = requests \cup {m} /\ m \in Requests
      /\ pending' = pending \cup {r} /\ saveState' = "saving"
  BY <1>0, <1>1 DEF Submit, Requests, Versions, TypeOK
<1>6. TypeOK'
  <2>1. \A f \in Fields : draft'[f] # None =>
          fieldRev'[f] \in Revisions /\ patches'[fieldRev'[f]][f] = draft'[f]
    <3> TAKE f \in Fields
    <3>1. CASE p[f] # None  BY <1>1, <1>2, <1>3, <1>4, <3>1
    <3>2. CASE p[f] = None
      BY <1>0, <1>1, <1>2, <1>3, <1>4, <3>2 DEF TypeOK, Revisions
    <3> QED BY <3>1, <3>2
  <2>2. /\ version' \in Versions /\ cached' \in 1 .. version' /\ reading' \in 0 .. version'
        /\ content' \in [Fields -> Values] /\ stored' \in Picks /\ revision' \in 0 .. MaxRevisions
        /\ first' \in 0 .. revision' /\ lifted' \in 0 .. revision'
        /\ pending' \subseteq 1 .. revision' /\ committed' \subseteq 1 .. revision'
    BY <1>0, <1>1, <1>5 DEF TypeOK, Revisions
  <2>3. requests' \subseteq Requests /\ answers' \subseteq Answers /\ saveState' \in SaveStates
    BY <1>0, <1>1, <1>5 DEF TypeOK, SaveStates
  <2> QED BY <1>2, <1>3, <1>4, <2>1, <2>2, <2>3 DEF TypeOK
<1>7. Sent' /\ Acknowledged' /\ Late' /\ Once'
  <2>1. Sent' /\ Acknowledged' /\ Late'
    BY <1>0, <1>1, <1>5 DEF Sent, Acknowledged, Late
  <2>2. /\ \A n \in requests : n.rev # m.rev
        /\ \A x \in answers : x.rev # m.rev
    <3>1. \A n \in requests : n.rev \in 1 .. revision
      BY <1>0 DEF Sent
    <3>2. \A x \in answers : x.rev \in 1 .. revision
      BY <1>0 DEF Sent, TypeOK
    <3> QED BY <1>1, <3>1, <3>2
  <2>3. Once'
    BY <1>0, <1>1, <1>5, <2>2 DEF Once
  <2> QED BY <2>1, <2>3
<1>8. Last'
  BY <1>0, <1>1, <1>2, <1>4 DEF Last, Carried
<1>9. Wanted' /\ PickKept' /\ SavingMeansWaiting' /\ SavedIsEmpty'
  <2>1. Wanted'
    BY <1>0, <1>1, <1>2, <1>3, <1>4 DEF Wanted, Revisions
  <2>2. PickKept'
    BY <1>0, <1>1, <1>3, <1>4 DEF PickKept
  <2> QED BY <1>5, <2>1, <2>2 DEF SavingMeansWaiting, SavedIsEmpty
<1>10. Stored'
  <2> SUFFICES ASSUME NEW f \in CoachFields, fieldRev'[f] \in committed,
                      f = Taken(patches'[fieldRev'[f]]), patches'[fieldRev'[f]][f] # Empty
               PROVE  Held(f, patches'[fieldRev'[f]][f], fieldRev'[f])
    BY <1>1 DEF Stored, Held
  <2>1. p[f] = None /\ fieldRev'[f] = fieldRev[f] /\ fieldRev[f] \in 1 .. revision
    BY <1>1, <1>4 DEF Fields
  <2>2. patches'[fieldRev'[f]] = patches[fieldRev[f]]
    BY <1>2, <2>1
  <2> QED BY <1>0, <2>1, <2>2 DEF Stored
<1> QED BY <1>6, <1>7, <1>8, <1>9, <1>10 DEF IInv

-----------------------------------------------------------------------------
\* What a step at the server keeps.
LEMMA AnswerInv ==
  ASSUME IInv, NEW m \in requests, NEW outcome \in Outcomes \ {"saved"},
         Answer(m, outcome, m.version),
         UNCHANGED <<server, cached, reading, changes, row>>
  PROVE  IInv'
<1> DEFINE x == [rev |-> m.rev, version |-> m.version, outcome |-> outcome]
<1>0. TypeOK /\ Sent /\ Late /\ Once /\ Acknowledged
  BY DEF IInv
<1>1. m \in Requests /\ x \in Answers /\ m.rev \in 1 .. revision /\ m.version <= version
  BY <1>0 DEF TypeOK, Sent, Requests, Answers
<1>2. /\ requests' \subseteq requests
      /\ answers' \subseteq answers \cup {x} /\ (x \notin answers /\ x \in answers' => m.rev \in pending)
  BY DEF Answer
<1>3. /\ UNCHANGED <<version, content, stored, first, lifted, committed>>
      /\ UNCHANGED <<cached, reading, fieldRev, revision, patches,
                  wanted, draft, pending, saveState>>
  BY DEF server, changes, row
<1>4. TypeOK'
  <2>1. requests' \subseteq Requests /\ answers' \subseteq Answers
    BY <1>0, <1>1, <1>2 DEF TypeOK
  <2> QED BY <1>0, <1>3, <2>1 DEF TypeOK
<1>5. Sent' /\ Late' /\ Once' /\ Acknowledged'
  <2>1. Sent' /\ Acknowledged'
    BY <1>0, <1>1, <1>2, <1>3 DEF Sent, Acknowledged
  <2>2. Late'
    BY <1>0, <1>1, <1>2, <1>3 DEF Late, Current
  <2>3. Once'
    BY <1>0, <1>2, <1>3 DEF Once, Answer
  <2> QED BY <2>1, <2>2, <2>3
<1>6. Last' /\ Wanted' /\ PickKept' /\ SavingMeansWaiting' /\ SavedIsEmpty' /\ Stored'
  BY <1>3 DEF IInv, Last, Wanted, PickKept, SavingMeansWaiting, SavedIsEmpty, Stored, Held
<1> QED BY <1>4, <1>5, <1>6 DEF IInv

LEMMA AcceptInv ==
  ASSUME IInv, NEW m \in requests, Accept(m)
  PROVE  IInv'
<1> DEFINE f0 == Taken(patches[m.rev])
           asked == Requested(patches[m.rev])
           patch == Prepared(asked, content)
           x == [rev |-> m.rev, version |-> version + 1, outcome |-> "saved"]
<1>0. TypeOK /\ Sent /\ Late /\ Once /\ Acknowledged /\ Last /\ Wanted /\ PickKept /\ Stored
  BY DEF IInv
<1>1. /\ m \in Requests /\ m.rev \in 1 .. revision /\ m.rev \in Revisions
      /\ m.version = version /\ version \in Nat /\ version' = version + 1 /\ revision \in Nat
      /\ version' \in Versions
  <2>1. /\ m \in Requests /\ m.rev \in 1 .. revision /\ m.rev \in Revisions
        /\ version \in Versions /\ revision \in Nat
    BY <1>0 DEF TypeOK, Sent, Requests
  <2>2. m.version = version /\ version < MaxVersion /\ version' = version + 1
    BY DEF Accept, Current
  <2> QED BY <2>1, <2>2, FieldsAssumption DEF Versions
<1>2. patches[m.rev] \in Picks /\ f0 \in Fields /\ patches[m.rev][f0] # None
  <2>1. patches[m.rev] \in Picks /\ Carried(patches[m.rev]) # {}
    BY <1>0, <1>1 DEF TypeOK, Last
  <2> QED BY <2>1, TakenCarried DEF Carried
<1>3. /\ requests' \subseteq requests /\ answers' \subseteq answers \cup {x}
      /\ x \in Answers /\ (x \in answers' /\ x \notin answers => m.rev \in pending)
  BY <1>1 DEF Accept, Answer, Answers, Outcomes
<1>4. /\ UNCHANGED <<cached, reading, fieldRev, revision, patches, wanted, draft, pending, saveState>>
      /\ committed' = committed \cup {m.rev}
      /\ content' = Over(patch, content) /\ stored' = Over(patch, stored)
      /\ first' = (IF patch["coachName"] # None THEN m.rev ELSE first)
      /\ lifted' = (IF Alone(Over(asked, content)) THEN m.rev ELSE lifted)
  BY DEF Accept, changes, row
<1>5. /\ asked \in Picks /\ asked[f0] = patches[m.rev][f0]
      /\ \A f \in CoachFields : f # f0 => asked[f] = None
  BY <1>0, <1>1, <1>2, RequestedTaken DEF Last
<1>6. /\ patch \in Picks /\ content' \in [Fields -> Values]
      /\ Alone(Over(asked, content)) =>
           /\ Over(asked, content)["coachName2"] # Empty /\ Over(asked, content)["coachName"] = Empty
           /\ patch["coachName"] = Over(asked, content)["coachName2"] /\ patch["coachName"] # None
      /\ ~Alone(Over(asked, content)) => patch = asked
  BY <1>0, <1>4, <1>5, PreparedTypes DEF TypeOK
<1>7. /\ stored' \in Picks
      /\ \A f \in Fields : stored'[f] = IF patch[f] # None THEN patch[f] ELSE stored[f]
  BY <1>0, <1>4, <1>6 DEF TypeOK, Picks, Over
<1> HIDE DEF asked, patch
<1>8. first' \in 0 .. revision' /\ lifted' \in 0 .. revision'
  BY <1>0, <1>1, <1>4 DEF TypeOK
<1>9. TypeOK'
  <2>1. requests' \subseteq Requests /\ answers' \subseteq Answers /\ committed' \subseteq 1 .. revision'
    BY <1>0, <1>1, <1>3, <1>4 DEF TypeOK
  <2>2. version' \in Versions /\ cached' \in 1 .. version' /\ reading' \in 0 .. version'
    BY <1>0, <1>1, <1>4 DEF TypeOK
  <2> QED BY <1>0, <1>4, <1>6, <1>7, <1>8, <2>1, <2>2 DEF TypeOK
<1>10. Sent' /\ Acknowledged' /\ Once'
  <2>1. \A y \in answers' : y.rev \in pending /\ y.version <= version + 1 /\ (y.outcome = "saved" => y.rev \in committed')
    <3> TAKE y \in answers'
    <3>1. CASE y \in answers
      <4>1. y.version \in Nat
        BY <1>0, <3>1 DEF TypeOK, Answers, Versions
      <4> QED BY <1>0, <1>1, <1>4, <3>1, <4>1 DEF Sent, Acknowledged
    <3>2. CASE y = x /\ x \notin answers
      BY <1>1, <1>3, <1>4, <3>2
    <3> QED BY <1>3, <3>1, <3>2
  <2>2. \A n \in requests' : n.rev \in 1 .. revision /\ n.version <= version + 1
    <3> TAKE n \in requests'
    <3>1. n.version \in Nat
      BY <1>0, <1>3 DEF TypeOK, Requests, Versions
    <3> QED BY <1>0, <1>1, <1>3, <3>1 DEF Sent
  <2>3. Once'
    BY <1>0, <1>3 DEF Once, Accept, Answer
  <2> QED BY <1>1, <1>4, <2>1, <2>2, <2>3 DEF Sent, Acknowledged
<1>11. Late'
  <2> SUFFICES ASSUME NEW c \in committed'
               PROVE  /\ \A n \in requests' : n.rev <= c => n.version < version'
                      /\ \A y \in answers' : y.outcome = "confirm" /\ y.rev <= c => y.version < version'
    BY DEF Late
  <2>1. \A n \in requests' : n.version \in Nat /\ n.version <= version
    BY <1>0, <1>3 DEF TypeOK, Sent, Requests, Versions
  <2>2. \A y \in answers' : y.outcome = "confirm" => y.version \in Nat /\ y.version <= version
    BY <1>0, <1>3 DEF TypeOK, Sent, Answers, Versions
  <2> QED BY <1>1, <2>1, <2>2
<1>12. Last' /\ Wanted' /\ SavingMeansWaiting' /\ SavedIsEmpty' /\ PickKept'
  BY <1>0, <1>4 DEF IInv, Last, Wanted, SavingMeansWaiting, SavedIsEmpty, PickKept
<1>13. Stored'
  <2> SUFFICES ASSUME NEW f \in CoachFields, fieldRev[f] \in committed',
                      f = Taken(patches[fieldRev[f]]), patches[fieldRev[f]][f] # Empty
               PROVE  Held(f, patches[fieldRev[f]][f], fieldRev[f])'
    BY <1>4 DEF Stored, Held
  <2> DEFINE r == fieldRev[f]
             coach == patches[r][f]
  <2>0. /\ f \in Fields /\ f \in {"coachName", "coachName2"} /\ "coachName" \in Fields
        /\ r \in Nat /\ lifted \in Nat /\ first \in Nat /\ m.rev \in Nat
    BY <1>0, <1>1 DEF TypeOK, CoachFields, Fields
  <2>1. CASE r = m.rev
    <3>1. f = f0 /\ asked[f] = coach /\ coach # None /\ coach # Empty
      BY <1>2, <1>5, <2>1
    <3>2. CASE Alone(Over(asked, content))
      <4>1. Over(asked, content)[f] = coach
        BY <2>0, <3>1 DEF Over
      <4>2. patch["coachName"] = coach
        BY <1>6, <2>0, <3>1, <3>2, <4>1
      <4> QED BY <1>4, <1>7, <2>0, <2>1, <3>1, <3>2, <4>2 DEF Held
    <3>3. CASE ~Alone(Over(asked, content))
      BY <1>4, <1>6, <1>7, <2>0, <3>1, <3>3 DEF Held
    <3> QED BY <3>2, <3>3
  <2>2. CASE r # m.rev
    <3>1. r \in committed /\ r < m.rev
      <4>1. r \in committed
        BY <1>4, <2>2
      <4>2. ~(m.rev <= r)
        BY <1>0, <1>1, <4>1 DEF Late
      <4> QED BY <2>0, <4>1, <4>2
    <3>2. Held(f, coach, r)
      BY <1>0, <3>1 DEF Stored
    <3>3. f # f0
      BY <1>0, <1>1, <1>2, <2>0, <3>1 DEF Last
    <3>4. CASE Alone(Over(asked, content))
      BY <1>4, <1>6, <2>0, <3>1, <3>4 DEF Held
    <3>5. CASE ~Alone(Over(asked, content))
      <4>1. patch = asked /\ lifted' = lifted /\ patch[f] = None /\ stored'[f] = stored[f]
        BY <1>4, <1>5, <1>6, <1>7, <2>0, <3>3, <3>5
      <4>2. CASE patch["coachName"] # None
        BY <1>4, <2>0, <3>1, <3>2, <4>1, <4>2 DEF Held
      <4>3. CASE patch["coachName"] = None
        BY <1>4, <1>7, <2>0, <3>2, <4>1, <4>3 DEF Held
      <4> QED BY <4>2, <4>3
    <3> QED BY <3>4, <3>5
  <2> QED BY <2>1, <2>2
<1> QED BY <1>9, <1>10, <1>11, <1>12, <1>13 DEF IInv

LEMMA OtherWriteInv == ASSUME IInv, OtherWrite PROVE IInv'
<1>0. TypeOK /\ Sent /\ Late /\ Once /\ Acknowledged
  BY DEF IInv
<1>1. /\ version \in Nat /\ version' = version + 1 /\ version' \in Versions
      /\ content' \in [Fields -> Values]
      /\ UNCHANGED <<stored, first, lifted, committed, cached, reading, fieldRev, revision,
                     patches, wanted, draft, pending, saveState, requests, answers>>
  BY <1>0, FieldsAssumption DEF OtherWrite, TypeOK, Versions, changes, row
<1>2. TypeOK'
  BY <1>0, <1>1 DEF TypeOK
<1>3. Sent' /\ Late' /\ Once' /\ Acknowledged'
  <2>1. \A n \in requests : n.version \in Nat
    BY <1>0 DEF TypeOK, Requests, Versions
  <2>2. \A y \in answers : y.version \in Nat
    BY <1>0 DEF TypeOK, Answers, Versions
  <2> QED BY <1>0, <1>1, <2>1, <2>2 DEF Sent, Late, Once, Acknowledged
<1>4. Last' /\ Wanted' /\ PickKept' /\ SavingMeansWaiting' /\ SavedIsEmpty' /\ Stored'
  BY <1>1 DEF IInv, Last, Wanted, PickKept, SavingMeansWaiting, SavedIsEmpty, Stored, Held
<1> QED BY <1>2, <1>3, <1>4 DEF IInv

-----------------------------------------------------------------------------
\* A change that failed, whose request may still be on its way or asked again.
LEMMA FailedInv ==
  ASSUME IInv, NEW r \in pending, NEW kind \in {"conflict", "error"}, Failed(r, kind),
         answers' \subseteq {x \in answers : x.rev # r},
         UNCHANGED <<server, cached, reading, changes, requests>>
  PROVE  IInv'
<1>0. TypeOK /\ Sent /\ Late /\ Once /\ Acknowledged
  BY DEF IInv
<1>1. /\ UNCHANGED <<version, content, stored, first, lifted, committed>>
      /\ UNCHANGED <<cached, reading, fieldRev, revision, patches,
                     wanted, draft, requests>>
      /\ pending' = pending \ {r} /\ answers' \subseteq answers
  BY DEF Failed, server, changes
<1>2. /\ saveState' \in SaveStates /\ (saveState' = "saving" <=> pending' # {})
      /\ saveState' = "saved" => draft = Nothing
  BY <1>1 DEF Failed, Waiting, SaveStates
<1>3. TypeOK'
  BY <1>0, <1>1, <1>2 DEF TypeOK
<1>4. Sent' /\ Late' /\ Once' /\ Acknowledged'
  BY <1>0, <1>1 DEF Sent, Late, Once, Acknowledged
<1>5. Last' /\ Wanted' /\ PickKept' /\ Stored'
  BY <1>1 DEF IInv, Last, Wanted, PickKept, Stored, Held
<1>6. SavingMeansWaiting' /\ SavedIsEmpty'
  BY <1>1, <1>2 DEF SavingMeansWaiting, SavedIsEmpty
<1> QED BY <1>3, <1>4, <1>5, <1>6 DEF IInv

\* A change that was written: what leaves the draft is what it carried last.
LEMMA SucceededInv ==
  ASSUME IInv, NEW x \in answers, x.outcome = "saved", Succeeded(x.rev), cached' = x.version,
         answers' = answers \ {x},
         UNCHANGED <<server, reading, changes, requests>>
  PROVE  IInv'
<1> DEFINE r == x.rev
<1>0. TypeOK /\ Sent /\ Late /\ Once /\ Acknowledged /\ Wanted /\ PickKept
  BY DEF IInv
<1>1. /\ UNCHANGED <<version, content, stored, first, lifted, committed>>
      /\ UNCHANGED <<reading, fieldRev, revision, patches, wanted,
                     requests>>
      /\ pending' = pending \ {r} /\ draft' = Remaining(r) /\ answers' \subseteq answers
  BY DEF Succeeded, server, changes
<1>2. r \in committed /\ r \in pending /\ r \in Revisions /\ cached' \in 1 .. version
  BY <1>0 DEF Acknowledged, Sent, TypeOK, Answers, Versions
<1>3. /\ saveState' \in SaveStates /\ (saveState' = "saving" <=> pending' # {})
      /\ saveState' = "saved" => draft' = Nothing
  BY <1>1 DEF Succeeded, Waiting, SaveStates
<1>4. /\ draft' \in Picks
      /\ \A f \in Fields :
           draft'[f] = draft[f] \/ (draft'[f] = None /\ fieldRev[f] = r)
  <2>1. draft' = [f \in Fields |-> IF /\ patches[r][f] # None /\ fieldRev[f] = r
                                      /\ draft[f] = patches[r][f]
                                   THEN None ELSE draft[f]]
    BY <1>1 DEF Remaining
  <2>2. \A f \in Fields : draft[f] \in Values \cup {None}
    BY <1>0 DEF TypeOK, Picks
  <2> QED BY <2>1, <2>2 DEF Picks
<1>5. TypeOK'
  BY <1>0, <1>1, <1>2, <1>3, <1>4 DEF TypeOK
<1>6. Sent' /\ Late' /\ Once' /\ Acknowledged'
  <2>1. \A y \in answers' : y.rev # r
    BY <1>0 DEF Once
  <2> QED BY <1>0, <1>1, <2>1 DEF Sent, Late, Once, Acknowledged
<1>7. Wanted' /\ PickKept'
  BY <1>0, <1>1, <1>2, <1>4 DEF Wanted, PickKept
<1>8. Last' /\ Stored'
  BY <1>1 DEF IInv, Last, Stored, Held
<1>9. SavingMeansWaiting' /\ SavedIsEmpty'
  BY <1>3 DEF SavingMeansWaiting, SavedIsEmpty
<1> QED BY <1>5, <1>6, <1>7, <1>8, <1>9 DEF IInv

\* A confirmed change goes out once more, at the version it had.
LEMMA ResendInv ==
  ASSUME IInv, NEW x \in answers, x.outcome = "confirm", answers' = answers \ {x},
         requests' = requests \cup {[rev |-> x.rev, version |-> x.version, confirmed |-> TRUE]},
         UNCHANGED <<server, cached, reading, changes, row>>
  PROVE  IInv'
<1> DEFINE m == [rev |-> x.rev, version |-> x.version, confirmed |-> TRUE]
<1>0. TypeOK /\ Sent /\ Late /\ Once /\ Acknowledged
  BY DEF IInv
<1>1. /\ UNCHANGED <<version, content, stored, first, lifted, committed>>
      /\ UNCHANGED <<cached, reading, fieldRev, revision, patches,
                  wanted, draft, pending, saveState>>
  BY DEF server, changes, row
<1>2. /\ m \in Requests /\ m.rev \in 1 .. revision /\ m.version <= version
      /\ m.rev = x.rev /\ m.version = x.version
  BY <1>0 DEF TypeOK, Sent, Requests, Answers
<1>3. TypeOK'
  <2>1. requests' \subseteq Requests /\ answers' \subseteq Answers
    BY <1>0, <1>2 DEF TypeOK
  <2> QED BY <1>0, <1>1, <2>1 DEF TypeOK
<1>4. Sent' /\ Acknowledged' /\ Late' /\ Once'
  <2>1. Sent' /\ Acknowledged'
    BY <1>0, <1>1, <1>2 DEF Sent, Acknowledged
  <2>2. Late'
    BY <1>0, <1>1, <1>2 DEF Late
  <2>3. /\ \A n \in requests : n.rev # m.rev
        /\ \A y \in answers' : y \in answers /\ y.rev # m.rev
    BY <1>0, <1>2 DEF Once
  <2>4. Once'
    BY <1>0, <1>2, <2>3 DEF Once
  <2> QED BY <2>1, <2>2, <2>4
<1>5. Last' /\ Wanted' /\ PickKept' /\ SavingMeansWaiting' /\ SavedIsEmpty' /\ Stored'
  BY <1>1 DEF IInv, Last, Wanted, PickKept, SavingMeansWaiting, SavedIsEmpty, Stored, Held
<1> QED BY <1>3, <1>4, <1>5 DEF IInv

\* The editor discards the draft.
LEMMA DiscardInv == ASSUME IInv, Discard PROVE IInv'
<1>0. TypeOK /\ Sent /\ Late /\ Once /\ Acknowledged /\ Wanted /\ PickKept /\ SavingMeansWaiting
  BY DEF IInv
<1>1. /\ UNCHANGED <<version, content, stored, first, lifted, committed>>
      /\ UNCHANGED <<cached, reading, fieldRev, revision, patches,
                     pending, requests, answers>>
      /\ saveState \in {"dirty", "error", "conflict"} /\ saveState' = "none"
      /\ draft' = Nothing
      /\ wanted' = [f \in Fields |-> IF draft[f] # None THEN None ELSE wanted[f]]
  BY DEF Discard, Unsaved, server
<1>2. /\ draft' \in Picks /\ wanted' \in Picks
      /\ \A f \in Fields : draft'[f] = None /\ (wanted'[f] # None => wanted'[f] = wanted[f] /\ draft[f] = None)
  BY <1>0, <1>1 DEF TypeOK, Picks, Nothing
<1>3. TypeOK'
  BY <1>0, <1>1, <1>2 DEF TypeOK, SaveStates
<1>4. Sent' /\ Late' /\ Once' /\ Acknowledged' /\ Last' /\ Stored'
  BY <1>1 DEF IInv, Sent, Late, Once, Acknowledged, Last, Stored, Held
<1>5. Wanted' /\ PickKept'
  BY <1>0, <1>1, <1>2 DEF Wanted, PickKept
<1>6. SavingMeansWaiting' /\ SavedIsEmpty'
  BY <1>0, <1>1 DEF SavingMeansWaiting, SavedIsEmpty
<1> QED BY <1>3, <1>4, <1>5, <1>6 DEF IInv

\* Reloading changes only what the page knows of the version.
LEMMA ReloadInv ==
  ASSUME IInv, cached' \in 1 .. version, reading' \in 0 .. version,
         UNCHANGED <<server, changes, row, requests, answers>>
  PROVE  IInv'
<1>1. /\ UNCHANGED <<version, content, stored, first, lifted, committed>>
      /\ UNCHANGED <<fieldRev, revision, patches, wanted, draft,
                  pending, saveState, requests, answers>>
  BY DEF server, changes, row
<1>2. TypeOK'
  BY <1>1 DEF IInv, TypeOK
<1>3. Sent' /\ Late' /\ Once' /\ Acknowledged' /\ Last' /\ Stored'
  BY <1>1 DEF IInv, Sent, Late, Once, Acknowledged, Last, Stored, Held
<1>4. Wanted' /\ PickKept' /\ SavingMeansWaiting' /\ SavedIsEmpty'
  BY <1>1 DEF IInv, Wanted, PickKept, SavingMeansWaiting, SavedIsEmpty
<1> QED BY <1>2, <1>3, <1>4 DEF IInv

LEMMA NextInv == IInv /\ [Next]_vars => IInv'
<1> SUFFICES ASSUME IInv, [Next]_vars PROVE IInv'
  OBVIOUS
<1>0. TypeOK
  BY DEF IInv
<1>1. CASE \E f \in Fields : \E v \in Offered[f] : Pick(f, v)
  <2>1. PICK f \in Fields : \E v \in Offered[f] : Pick(f, v)
    BY <1>1
  <2>2. PICK v \in Offered[f] : Pick(f, v)
    BY <2>1
  <2> DEFINE p == [Nothing EXCEPT ![f] = v]
  <2>3. v \in Values /\ v # None
    BY FieldsAssumption
  <2>4. p \in Picks /\ p[f] = v
    BY <2>3 DEF Nothing, Picks
  <2>5. Carried(p) # {}
    BY <2>3, <2>4 DEF Carried
  <2>6. Submit(p)
    BY <2>2 DEF Pick
  <2> QED BY <2>4, <2>5, <2>6, SubmitInv
<1>2. CASE Retry
  <2>1. draft \in Picks /\ draft # Nothing /\ Submit(draft)
    BY <1>0, <1>2 DEF Retry, Unsaved, TypeOK
  <2>2. Carried(draft) # {}
    BY <2>1 DEF Carried, Picks, Nothing
  <2> QED BY <2>1, <2>2, SubmitInv
<1>3. CASE Discard
  BY <1>3, DiscardInv
<1>4. CASE Handled
  <2>1. PICK m \in requests : Refuse(m) \/ Accept(m)
    BY <1>4 DEF Handled
  <2>2. CASE Refuse(m)
    <3>1. PICK outcome \in Outcomes \ {"saved"} : Answer(m, outcome, m.version)
      BY <2>2 DEF Refuse, Outcomes
    <3> QED BY <2>2, <3>1, AnswerInv DEF Refuse
  <2> QED BY <2>1, <2>2, AcceptInv
<1>5. CASE OtherWrite
  BY <1>5, OtherWriteInv
<1>6. CASE Heard
  <2>1. PICK x \in answers : Hear(x) \/ Ask(x)
    BY <1>6 DEF Heard
  <2>2. x \in Answers /\ x.rev \in pending
    BY <1>0 DEF IInv, Sent, TypeOK
  <2>3. answers \ {x} \subseteq {y \in answers : y.rev # x.rev}
    BY DEF IInv, Once
  <2>4. CASE Hear(x) /\ x.outcome = "saved"
    BY <2>4, SucceededInv DEF Hear
  <2>5. CASE Hear(x) /\ x.outcome # "saved"
    <3>1. x.outcome \in {"conflict", "error"}
      BY <2>2, <2>5 DEF Hear, Answers, Outcomes
    <3>2. /\ Failed(x.rev, x.outcome) /\ answers' \subseteq {y \in answers : y.rev # x.rev}
          /\ UNCHANGED <<server, cached, reading, changes, requests>>
      BY <2>3, <2>5 DEF Hear
    <3> QED BY <2>2, <3>1, <3>2, FailedInv
  <2>6. CASE Ask(x) /\ Failed(x.rev, "error") /\ UNCHANGED requests
    <3>1. /\ answers' \subseteq {y \in answers : y.rev # x.rev}
          /\ UNCHANGED <<server, cached, reading, changes, requests>>
      BY <2>3, <2>6 DEF Ask
    <3> QED BY <2>2, <2>6, <3>1, FailedInv
  <2>7. CASE /\ Ask(x) /\ UNCHANGED row
             /\ requests' = requests \cup {[rev |-> x.rev, version |-> x.version, confirmed |-> TRUE]}
    BY <2>7, ResendInv DEF Ask
  <2> QED BY <2>1, <2>4, <2>5, <2>6, <2>7 DEF Ask
<1>7. CASE \E r \in pending : GiveUp(r)
  BY <1>7, FailedInv DEF GiveUp
<1>8. CASE Read
  BY <1>0, <1>8, ReloadInv DEF Read, TypeOK, Versions
<1>9. CASE Show
  BY <1>0, <1>9, ReloadInv DEF Show, TypeOK, Versions
<1>10. CASE UNCHANGED vars
  <2>1. cached' \in 1 .. version /\ reading' \in 0 .. version
    BY <1>0, <1>10 DEF vars, TypeOK
  <2> QED BY <1>10, <2>1, ReloadInv DEF vars, server, changes, row
<1> QED BY <1>1, <1>2, <1>3, <1>4, <1>5, <1>6, <1>7, <1>8, <1>9, <1>10 DEF Next

-----------------------------------------------------------------------------
\* The inductive invariant holds in every state.
THEOREM SpecInv == Spec => []IInv
BY InitInv, NextInv, PTL DEF Spec

\* Types, and a draft the last change's acknowledgement finds.
THEOREM TypeCorrect == Spec => []TypeOK
<1>1. IInv => TypeOK
  BY DEF IInv
<1> QED BY <1>1, SpecInv, PTL

\* A pick that was not discarded is in the draft or was written.
THEOREM Kept == Spec => []PickKept
<1>1. IInv => PickKept
  BY DEF IInv
<1> QED BY <1>1, SpecInv, PTL

\* The row is saving exactly while it waits.
THEOREM Waits == Spec => []SavingMeansWaiting
<1>1. IInv => SavingMeansWaiting
  BY DEF IInv
<1> QED BY <1>1, SpecInv, PTL

\* A change without an outcome is on its way, there or back.
THEOREM NeverStuck == Spec => []PendingUnderWay
<1>1. Init => PendingUnderWay
  BY DEF Init, PendingUnderWay
<1>2. PendingUnderWay /\ [Next]_vars => PendingUnderWay'
  <2> SUFFICES ASSUME PendingUnderWay, [Next]_vars, NEW r \in pending'
               PROVE  (\E m \in requests' : m.rev = r) \/ \E x \in answers' : x.rev = r
    BY DEF PendingUnderWay
  <2>0. r \in pending => (\E m \in requests : m.rev = r) \/ \E x \in answers : x.rev = r
    BY DEF PendingUnderWay
  <2>1. ASSUME NEW p, Submit(p) PROVE (\E m \in requests' : m.rev = r) \/ \E x \in answers' : x.rev = r
    <3> DEFINE new == [rev |-> revision + 1, version |-> cached, confirmed |-> FALSE]
    <3>1. /\ requests' = requests \cup {new} /\ answers' = answers
          /\ pending' = pending \cup {revision + 1}
      BY <2>1 DEF Submit
    <3>2. new.rev = revision + 1
      OBVIOUS
    <3> HIDE DEF new
    <3> QED BY <2>0, <3>1, <3>2
  <2>2. ASSUME NEW m \in requests, NEW o, NEW v, Answer(m, o, v), pending' = pending
        PROVE  (\E n \in requests' : n.rev = r) \/ \E x \in answers' : x.rev = r
    <3> DEFINE x == [rev |-> m.rev, version |-> v, outcome |-> o]
    <3>1. x.rev = m.rev
      OBVIOUS
    <3>2. /\ requests' = requests \ {m} /\ answers \subseteq answers'
          /\ m.rev \in pending => x \in answers'
      BY <2>2 DEF Answer
    <3> HIDE DEF x
    <3> QED BY <2>0, <2>2, <3>1, <3>2
  <2>3. CASE Handled
    <3>1. PICK m \in requests : Refuse(m) \/ Accept(m)
      BY <2>3 DEF Handled
    <3>2. pending' = pending /\ \E o, v : Answer(m, o, v)
      BY <3>1 DEF Refuse, Accept, row
    <3> QED BY <2>2, <3>2
  <2>4. CASE Heard
    <3>1. PICK x \in answers : Hear(x) \/ Ask(x)
      BY <2>4 DEF Heard
    <3>2. answers' = answers \ {x} /\ requests \subseteq requests'
      BY <3>1 DEF Hear, Ask
    <3>3. \/ pending' = pending \ {x.rev}
          \/ pending' = pending /\ \E m \in requests' : m.rev = x.rev
      <4> DEFINE n == [rev |-> x.rev, version |-> x.version, confirmed |-> TRUE]
      <4>1. n.rev = x.rev
        OBVIOUS
      <4>2. \/ Succeeded(x.rev) \/ Failed(x.rev, x.outcome) \/ Failed(x.rev, "error")
            \/ pending' = pending /\ requests' = requests \cup {n}
        BY <3>1 DEF Hear, Ask, row
      <4>3. ASSUME NEW k, Failed(x.rev, k) PROVE pending' = pending \ {x.rev}
        BY <4>3 DEF Failed
      <4>4. ASSUME Succeeded(x.rev) PROVE pending' = pending \ {x.rev}
        BY <4>4 DEF Succeeded
      <4> HIDE DEF n
      <4> QED BY <4>1, <4>2, <4>3, <4>4
    <3> QED BY <2>0, <3>2, <3>3
  <2>5. CASE \E s \in pending : GiveUp(s)
    BY <2>0, <2>5 DEF GiveUp, Failed
  <2>6. CASE Discard \/ OtherWrite \/ Read \/ Show \/ UNCHANGED vars
    BY <2>0, <2>6 DEF Discard, OtherWrite, Read, Show, vars, row
  <2> QED BY <2>1, <2>3, <2>4, <2>5, <2>6 DEF Next, Pick, Retry
<1> QED BY <1>1, <1>2, PTL DEF Spec

\* What the row says is saved, and the server took, is what it wrote last in its place,
\* or it was moved up.
THEOREM SavedStored == Spec => []SavedTakenStored
<1>1. IInv => SavedTakenStored
  <2> SUFFICES ASSUME IInv, saveState = "saved", NEW f \in CoachFields,
                      wanted[f] \notin {None, Empty}, f = Taken(patches[fieldRev[f]])
               PROVE  Held(f, wanted[f], fieldRev[f])
    BY DEF SavedTakenStored, Held
  <2>0. f \in Fields
    BY DEF Fields
  <2>1. draft[f] = None
    BY <2>0 DEF IInv, SavedIsEmpty, Nothing
  <2>2. fieldRev[f] \in committed
    BY <2>0, <2>1 DEF IInv, PickKept
  <2>3. patches[fieldRev[f]][f] = wanted[f]
    BY <2>0 DEF IInv, Wanted
  <2> QED BY <2>2, <2>3 DEF IInv, Stored
<1> QED BY <1>1, SpecInv, PTL
=============================================================================
