-------------------------- MODULE SchedulingProofs --------------------------
(***************************************************************************)
(* What holds of the schedule rows for any rows, venues, classes, coaches, *)
(* editors and requests, however many writes there are.                    *)
(*                                                                         *)
(* A step writes at most one row for an editor (Stored, Removed) or marks  *)
(* and deletes rows for nobody (Remade). The version of a row names its    *)
(* content (Seen), so a request at the row's version is about that row;    *)
(* and a write with a conflict carries a token that equals the context     *)
(* computed from the rows as they are.                                     *)
(***************************************************************************)
EXTENDS Scheduling, TLAPS

RowKinds == Changes \cup {"delete"}
NewKinds == {"create", "import", "merge"}

\* A request under way is about a row that was there, or brings its own cell.
Framed(r) == r.st # "idle" =>
  /\ r.kind \in Kinds
  /\ r.kind \in RowKinds => r.id \in born /\ r.base \in Row
  /\ r.kind \in NewKinds => r.fields.venue \in Venues /\ r.fields.class \in Classes
  /\ (r.st = "read" /\ r.kind = "delete") => ~r.base.locked

\* The version names the content.
Seen(r) ==
  (r.st # "idle" /\ r.kind \in RowKinds /\ rows[r.id] # Null) =>
    /\ r.base.version <= rows[r.id].version
    /\ r.base.version = rows[r.id].version => r.base = rows[r.id]

Inv ==
  /\ TypeOK
  /\ \A i \in Ids : rows[i] # Null => i \in born
  /\ \A e \in Editors : Framed(req[e]) /\ Seen(req[e])

-----------------------------------------------------------------------------
(* The policies keep types; what they leave alone. *)
LEMMA NullApart ==
  /\ Null \notin Coaches /\ Null # Unstaffed /\ Null # Undefined /\ Null \notin Ids
  /\ Null \notin Row /\ Null \notin Context /\ Undefined \notin Context
  /\ Undefined \notin Names /\ Undefined \notin Venues /\ Undefined \notin Classes
  /\ Undefined # 1 /\ Undefined # 2 /\ NoPatch \in Patch
BY NamesDiffer DEF NoPatch, Patch

LEMMA AppliedFields ==
  ASSUME NEW row \in Row, NEW p \in Patch
  PROVE /\ Applied(row, p) \in Row
        /\ Applied(row, p).venue = Given(p.venue, row.venue)
        /\ Applied(row, p).class = Given(p.class, row.class)
        /\ Applied(row, p).c1 = Given(p.c1, row.c1)
        /\ Applied(row, p).c2 = Given(p.c2, row.c2)
        /\ Applied(row, p).locked = row.locked
        /\ Applied(row, p).version = row.version
<1>1. /\ Given(p.venue, row.venue) \in Venues /\ Given(p.class, row.class) \in Classes
      /\ Given(p.c1, row.c1) \in Names /\ Given(p.c2, row.c2) \in Names
      /\ Given(p.count, row.count) \in {1, 2}
  BY NullApart DEF Given, Row, Patch
<1> QED BY <1>1 DEF Applied, Row

LEMMA PromotedFields ==
  ASSUME NEW row \in Row, NEW p \in Patch
  PROVE /\ Promoted(row, p) \in Patch
        /\ Promoted(row, p).venue = p.venue /\ Promoted(row, p).class = p.class
        /\ Applied(row, Promoted(row, p)).c2 # Null
             => Applied(row, Promoted(row, p)).c1 # Null
<1> DEFINE next == Applied(row, p)
<1>1. next \in Row /\ next.c1 = Given(p.c1, row.c1) /\ next.c2 = Given(p.c2, row.c2)
  BY AppliedFields
<1>2. CASE next.c1 = Null /\ next.c2 # Null
  <2>1. Promoted(row, p) = [p EXCEPT !.c1 = next.c2, !.c2 = Null] BY <1>2 DEF Promoted
  <2>2. next.c2 \in Names BY <1>1 DEF Row
  <2>3. Promoted(row, p) \in Patch /\ Promoted(row, p).c2 = Null
        /\ Promoted(row, p).venue = p.venue /\ Promoted(row, p).class = p.class
    BY <2>1, <2>2 DEF Patch, Names
  <2>4. Applied(row, Promoted(row, p)).c2 = Null
    BY <2>3, AppliedFields, NullApart DEF Given
  <2> QED BY <2>3, <2>4
<1>3. CASE ~(next.c1 = Null /\ next.c2 # Null)
  <2>1. Promoted(row, p) = p BY <1>3 DEF Promoted
  <2> QED BY <2>1, <1>3
<1> QED BY <1>2, <1>3

LEMMA PatchFieldsType ==
  ASSUME NEW row \in Row, NEW p \in Patch
  PROVE PatchFields(row, p) \in Patch
<1> DEFINE candidate == Given(p.c2, row.c2)
           second == IF p.c2 # Undefined THEN p.c2
                     ELSE IF p.count = 1 THEN Null ELSE Undefined
<1>1. candidate \in Names /\ second \in Names \cup {Undefined}
  BY NullApart DEF Given, Row, Patch, Names
<1>2. PatchFields(row, p) = [p EXCEPT !.c1 = candidate, !.c2 = Null]
      \/ PatchFields(row, p) = [p EXCEPT !.c2 = second]
  BY DEF PatchFields
<1> HIDE DEF candidate, second
<1> QED BY <1>1, <1>2 DEF Patch, Names

LEMMA McpFieldsType ==
  ASSUME NEW row \in Row, NEW p \in Patch
  PROVE /\ McpFields(row, p) \in Patch
        /\ McpFields(row, p).venue = p.venue /\ McpFields(row, p).class = p.class
<1> DEFINE first == Given(p.c1, row.c1)
           second == Given(p.c2, row.c2)
           q == IF second # Null THEN [p EXCEPT !.count = 2] ELSE p
<1>1. first \in Names /\ second \in Names BY NullApart DEF Given, Row, Patch, Names
<1>2. q \in Patch /\ q.venue = p.venue /\ q.class = p.class BY DEF Patch
<1>3. \/ McpFields(row, p) = [q EXCEPT !.c1 = first, !.c2 = Null]
      \/ McpFields(row, p) = [q EXCEPT !.c1 = second, !.c2 = Null]
      \/ McpFields(row, p) = q
  BY DEF McpFields
<1> HIDE DEF first, second, q
<1> QED BY <1>1, <1>2, <1>3 DEF Patch, Names

LEMMA ImportFieldsType ==
  ASSUME NEW row \in Row, NEW p \in Patch
  PROVE /\ ImportFields(row, p) \in Patch
        /\ ImportFields(row, p).venue = p.venue /\ ImportFields(row, p).class = p.class
        /\ Applied(row, ImportFields(row, p)).c2 # Null
             => Applied(row, ImportFields(row, p)).c1 # Null
<1> PICK q : /\ ImportFields(row, p) = Promoted(row, q)
             /\ q = [p EXCEPT !.count = 2] \/ q = [p EXCEPT !.c2 = Null] \/ q = p
  BY DEF ImportFields
<1>1. q \in Patch /\ q.venue = p.venue /\ q.class = p.class BY DEF Patch, Names
<1> QED BY <1>1, PromotedFields

LEMMA NewRowFields ==
  ASSUME NEW v \in Venues, NEW k \in Classes
  PROVE /\ NewRow(v, k) \in Row /\ NewRow(v, k).c1 = Null /\ NewRow(v, k).c2 = Null
        /\ NewRow(v, k).venue = v /\ NewRow(v, k).class = k
        /\ NewRow(v, k).version = 0 /\ ~NewRow(v, k).locked
BY DEF NewRow, Row, Names

\* A request of the right shape stays one when its state or its token change.
LEMMA RequestUpdates ==
  ASSUME NEW r \in Request
  PROVE /\ Idle \in Request
        /\ \A s \in {"idle", "sent", "read", "asking"} :
             [r EXCEPT !.st = s] \in Request
             /\ \A t \in Context \cup {Null, Undefined} :
                  [r EXCEPT !.st = s, !.token = t] \in Request
             /\ \A p \in Patch : [r EXCEPT !.st = s, !.patch = p] \in Request
        /\ \A t \in Context \cup {Null, Undefined} : [r EXCEPT !.token = t] \in Request
<1>1. Idle \in Request BY NullApart DEF Idle, Request
<1>2. ASSUME NEW s \in {"idle", "sent", "read", "asking"} PROVE [r EXCEPT !.st = s] \in Request
  BY DEF Request
<1>3. ASSUME NEW q \in Request, NEW t \in Context \cup {Null, Undefined}
      PROVE  [q EXCEPT !.token = t] \in Request
  BY DEF Request
<1>4. ASSUME NEW q \in Request, NEW p \in Patch PROVE [q EXCEPT !.patch = p] \in Request
  BY DEF Request
<1>5. ASSUME NEW s \in {"idle", "sent", "read", "asking"}, NEW t \in Context \cup {Null, Undefined}
      PROVE  [r EXCEPT !.st = s, !.token = t] \in Request
  <2>1. [[r EXCEPT !.st = s] EXCEPT !.token = t] = [r EXCEPT !.st = s, !.token = t]
    BY DEF Request
  <2> QED BY <1>2, <1>3, <2>1
<1>6. ASSUME NEW s \in {"idle", "sent", "read", "asking"}, NEW p \in Patch
      PROVE  [r EXCEPT !.st = s, !.patch = p] \in Request
  <2>1. [[r EXCEPT !.st = s] EXCEPT !.patch = p] = [r EXCEPT !.st = s, !.patch = p]
    BY DEF Request
  <2> QED BY <1>2, <1>4, <2>1
<1> QED BY <1>1, <1>2, <1>3, <1>5, <1>6, Zenon

-----------------------------------------------------------------------------
(* What a step does. *)
\* Only e's request changes.
Quiet(e) ==
  /\ \E r \in Request : Framed(r) /\ Seen(r) /\ req' = [req EXCEPT ![e] = r]
  /\ UNCHANGED <<rows, born, away, acknowledged>>

\* What e was shown, of the conflicts and the absences there are.
Covered(e, i, after, coaches) ==
  /\ \A j \in ConflictRows(i, after, coaches, rows) :
       req[e].token \notin {Null, Undefined} /\ req[e].token.others[j] = rows[j]
  /\ \A c \in coaches \cap away :
       req[e].token \notin {Null, Undefined} /\ c \in req[e].token.away

\* Row i, as it was, may be replaced by after.
Allowed(e, i, before, after) ==
  /\ rows[i] # Null =>
       /\ before = rows[i]
       /\ rows[i] = IF req[e].kind \in {"import", "merge"}
                    THEN req[e].token.others[i] ELSE req[e].base
  /\ rows[i] = Null => /\ i \notin born /\ before.c1 = Null /\ before.c2 = Null
                       /\ ~LockedDay(after.venue, rows)
  /\ before.locked => after.class = before.class
  /\ after.locked = before.locked /\ after.version = before.version
  /\ ~SameCoach(after) /\ (after.c2 # Null => after.c1 # Null)

Replaced(e, i, before, after) ==
  /\ rows' = [rows EXCEPT ![i] = [after EXCEPT !.version = before.version + 1]]
  /\ acknowledged' = (acknowledged
        \cup ShownConflicts(i, after, Placed(before, after), req[e].token))
        \cap Conflicts(rows')
  /\ born' = born \cup {i}
  /\ req' = [req EXCEPT ![e] = Idle]
  /\ UNCHANGED away

Stored(e) ==
  /\ req[e].st # "idle"
  /\ \E i \in Ids, before \in Row, after \in Row :
       /\ Allowed(e, i, before, after)
       /\ Covered(e, i, after, Placed(before, after))
       /\ Replaced(e, i, before, after)

\* Rows in is are gone, and nothing else.
Gone(is) ==
  /\ rows' = [i \in Ids |-> IF i \in is THEN Null ELSE rows[i]]
  /\ acknowledged' = acknowledged \cap Conflicts(rows')
  /\ UNCHANGED <<born, away>>
Removed(e) ==
  /\ req[e].st # "idle" /\ req[e].kind = "delete"
  /\ rows[req[e].id] # Null /\ rows[req[e].id] = req[e].base /\ ~req[e].base.locked
  /\ Gone({req[e].id}) /\ req' = [req EXCEPT ![e] = Idle]

LEMMA FinishIsQuiet ==
  ASSUME Inv, NEW e \in Editors, Finish(e) PROVE Quiet(e)
<1>1. Idle \in Request /\ Framed(Idle) /\ Seen(Idle)
  <2>1. Idle \in Request BY NullApart DEF Idle, Request
  <2> QED BY <2>1 DEF Idle, Framed, Seen
<1> QED BY <1>1 DEF Finish, Settle, Quiet

\* Changing the state or the token of a request leaves its frame as it was.
LEMMA SameFrame ==
  ASSUME Inv, NEW e \in Editors, NEW r \in Request,
         r.kind = req[e].kind, r.id = req[e].id, r.base = req[e].base,
         r.fields = req[e].fields, req[e].st # "idle",
         r.st = "read" => req[e].st = "read" \/ r.kind # "delete" \/ ~r.base.locked
  PROVE Framed(r) /\ Seen(r)
BY DEF Inv, Framed, Seen

LEMMA AskIsQuiet ==
  ASSUME Inv, NEW e \in Editors, req[e].st # "idle", NEW x \in Context, Ask(e, x)
  PROVE Quiet(e)
<1> DEFINE r == [req[e] EXCEPT !.st = "asking", !.token = x]
<1>1. req[e] \in Request BY DEF Inv, TypeOK
<1>2. CASE req[e].token = Null \/ req[e].kind \in {"mcp", "import", "merge"}
  <2>1. req' = [req EXCEPT ![e] = r] BY <1>2 DEF Ask, Settle
  <2>2. r \in Request BY <1>1, RequestUpdates
  <2>3. /\ r.kind = req[e].kind /\ r.id = req[e].id /\ r.base = req[e].base
        /\ r.fields = req[e].fields /\ r.st = "asking"
    BY <1>1 DEF Request
  <2>4. Framed(r) /\ Seen(r) BY <2>2, <2>3, SameFrame
  <2> QED BY <2>1, <2>2, <2>4 DEF Quiet, Ask
<1>3. CASE ~(req[e].token = Null \/ req[e].kind \in {"mcp", "import", "merge"})
  <2>1. Finish(e) BY <1>3 DEF Ask, Settle, Finish
  <2> QED BY <2>1, FinishIsQuiet
<1> QED BY <1>2, <1>3

\* A write that is not refused, asked about or out of its cell is a Stored.
LEMMA DecideSteps ==
  ASSUME Inv, NEW e \in Editors, req[e].st # "idle", NEW ids \in SUBSET Ids,
         NEW before \in Row, NEW after \in Row, NEW x \in Context, NEW warned \in BOOLEAN,
         \A i \in ids : Allowed(e, i, before, after),
         (~warned /\ req[e].token = Null) \/ req[e].token = x =>
           \A i \in ids : Covered(e, i, after, Placed(before, after)),
         Decide(e, ids, before, after, Placed(before, after), x, warned)
  PROVE Quiet(e) \/ Stored(e)
<1>1. CASE (warned \/ req[e].token # Null) /\ req[e].token # x
  BY <1>1, AskIsQuiet DEF Decide
<1>2. CASE ~((warned \/ req[e].token # Null) /\ req[e].token # x)
  <2>1. PICK i \in ids : Write(e, i, before, after, Placed(before, after))
    BY <1>2 DEF Decide
  <2>2. CASE Cell(after.venue, after.class, rows) \ {i} # {}
    BY <2>1, <2>2, FinishIsQuiet DEF Write
  <2>3. CASE ~(Cell(after.venue, after.class, rows) \ {i} # {})
    <3>1. Replaced(e, i, before, after)
      BY <2>1, <2>3 DEF Write, Table, Settle, Replaced
    <3> QED BY <3>1, <1>2 DEF Stored
  <2> QED BY <2>2, <2>3
<1> QED BY <1>1, <1>2

LEMMA PlacedCoaches == \A before, after : Placed(before, after) \subseteq Coaches
BY DEF Placed

LEMMA ContextType ==
  ASSUME Inv, NEW kind \in Kinds, NEW i \in Ids \cup {Null}, NEW before \in Row,
         NEW p \in Patch, NEW after, NEW coaches \in SUBSET Coaches
  PROVE /\ ConfirmationContext(kind, i, before, p, after, coaches) \in Context
        /\ ConfirmationContext(kind, i, before, p, after, coaches).others
             = [j \in Ids |-> IF j \in ConflictRows(i, after, coaches, rows)
                              THEN rows[j] ELSE Null]
        /\ ConfirmationContext(kind, i, before, p, after, coaches).away = coaches \cap away
<1> DEFINE others == [j \in Ids |-> IF j \in ConflictRows(i, after, coaches, rows)
                                    THEN rows[j] ELSE Null]
<1>1. others \in [Ids -> Row \cup {Null}] BY DEF Inv, TypeOK
<1>2. before.version \in Nat BY DEF Row
<1> HIDE DEF others
<1>3. /\ [kind |-> kind, id |-> i, version |-> before.version, patch |-> p,
          others |-> others, away |-> coaches \cap away] \in Context
  BY <1>1, <1>2 DEF Context
<1> QED BY <1>3 DEF ConfirmationContext, others

\* With no warning, or with the context of the rows as they are, all is shown.
LEMMA ContextCovers ==
  ASSUME Inv, NEW e \in Editors, NEW kind \in Kinds, NEW i \in Ids \cup {Null},
         NEW k \in Ids, i = k \/ (i = Null /\ rows[k] = Null),
         NEW before \in Row, NEW p \in Patch, NEW after, NEW coaches \in SUBSET Coaches,
         \/ ~Warned(i, after, coaches)
         \/ req[e].token = ConfirmationContext(kind, i, before, p, after, coaches)
  PROVE Covered(e, k, after, coaches)
<1>1. ConflictRows(k, after, coaches, rows) = ConflictRows(i, after, coaches, rows)
  BY NullApart DEF ConflictRows
<1>2. CASE ~Warned(i, after, coaches) BY <1>1, <1>2 DEF Warned, Covered
<1>3. CASE req[e].token = ConfirmationContext(kind, i, before, p, after, coaches)
  <2> PICK x : x = ConfirmationContext(kind, i, before, p, after, coaches) OBVIOUS
  <2>0. /\ x \in Context /\ x.away = coaches \cap away
        /\ x.others = [j \in Ids |-> IF j \in ConflictRows(i, after, coaches, rows)
                                     THEN rows[j] ELSE Null]
    BY ContextType
  <2>1. req[e].token \notin {Null, Undefined} BY <1>3, <2>0, NullApart
  <2>2. \A j \in ConflictRows(i, after, coaches, rows) : req[e].token.others[j] = rows[j]
    BY <1>3, <2>0 DEF ConflictRows
  <2>3. req[e].token.away = coaches \cap away BY <1>3, <2>0
  <2> QED BY <1>1, <2>1, <2>2, <2>3 DEF Covered
<1> QED BY <1>2, <1>3

LEMMA WarnedBoolean == \A i, after, coaches : Warned(i, after, coaches) \in BOOLEAN
BY DEF Warned

LEMMA MutateSteps ==
  ASSUME Inv, NEW e \in Editors, Mutate(e) PROVE Quiet(e) \/ Stored(e)
<1> DEFINE r == req[e]
           i == r.id
           before == rows[i]
<1> PICK requested : requested = CASE r.kind = "mcp" -> McpFields(before, r.fields)
                                   [] r.kind = "update" -> r.fields
                                   [] OTHER -> r.patch
  OBVIOUS
<1> PICK p : p = Promoted(before, requested) OBVIOUS
<1> PICK after : after = Applied(before, p) OBVIOUS
<1>a. /\ r.kind \in Changes /\ r.st \in {"sent", "read"}
      /\ IF ~AtVersion(r) THEN Finish(e)
         ELSE IF SameCoach(after) \/ RenamesLocked(before, p) THEN Finish(e)
         ELSE Decide(e, {i}, before, after, Placed(before, after),
                     ConfirmationContext(r.kind, i, before, p, after, Placed(before, after)),
                     Warned(i, after, Placed(before, after)))
  BY DEF Mutate
<1>1. CASE ~AtVersion(r) \/ SameCoach(after) \/ RenamesLocked(before, p)
  BY <1>1, <1>a, FinishIsQuiet
<1>2. CASE ~(~AtVersion(r) \/ SameCoach(after) \/ RenamesLocked(before, p))
  <2>1. /\ r \in Request /\ i \in Ids /\ before \in Row /\ before # Null
        /\ r.base = before /\ r.kind \in Kinds /\ r.kind \notin {"import", "merge"}
    BY <1>2, <1>a, NullApart DEF Inv, TypeOK, Framed, Seen, AtVersion, RowKinds, Kinds, Changes
  <2>2. requested \in Patch
    <3>1. r.fields \in Patch /\ r.patch \in Patch BY <2>1 DEF Request
    <3>2. McpFields(before, r.fields) \in Patch BY <3>1, <2>1, McpFieldsType
    <3> QED BY <3>1, <3>2
  <2>3. p \in Patch /\ (after.c2 # Null => after.c1 # Null) BY <2>1, <2>2, PromotedFields
  <2>4. /\ after \in Row /\ after.locked = before.locked /\ after.version = before.version
        /\ after.class = Given(p.class, before.class)
    BY <2>1, <2>3, AppliedFields
  <2>5. before.locked => after.class = before.class
    BY <2>4, <1>2 DEF RenamesLocked, Given
  <2>6. Allowed(e, i, before, after) BY <2>1, <2>3, <2>4, <2>5, <1>2 DEF Allowed
  <2>7. ASSUME (~Warned(i, after, Placed(before, after)) /\ req[e].token = Null)
               \/ req[e].token = ConfirmationContext(r.kind, i, before, p, after, Placed(before, after))
        PROVE Covered(e, i, after, Placed(before, after))
    BY <2>7, <2>1, <2>3, PlacedCoaches, ContextCovers
  <2>8. ConfirmationContext(r.kind, i, before, p, after, Placed(before, after)) \in Context
    BY <2>1, <2>3, PlacedCoaches, ContextType
  <2>9. Decide(e, {i}, before, after, Placed(before, after),
               ConfirmationContext(r.kind, i, before, p, after, Placed(before, after)),
               Warned(i, after, Placed(before, after)))
    BY <1>2, <1>a
  <2>10. r.st # "idle" BY <1>a
  <2> HIDE DEF r, i, before
  <2> QED BY <2>1, <2>4, <2>6, <2>7, <2>8, <2>9, <2>10, WarnedBoolean, DecideSteps DEF r, i
<1> QED BY <1>1, <1>2

LEMMA CreateSteps ==
  ASSUME Inv, NEW e \in Editors, CreateSchedule(e) PROVE Quiet(e) \/ Stored(e)
<1> DEFINE r == req[e]
<1> PICK before : before = NewRow(r.fields.venue, r.fields.class) OBVIOUS
<1> PICK p : p = Promoted(before, r.fields) OBVIOUS
<1> PICK after : after = Applied(before, p) OBVIOUS
<1>a. /\ r.kind = "create" /\ r.st = "sent"
      /\ IF LockedDay(after.venue, rows) \/ SameCoach(after) THEN Finish(e)
         ELSE Decide(e, Ids \ born, before, after, Placed(before, after),
                     ConfirmationContext(r.kind, Null, before, p, after, Placed(before, after)),
                     Warned(Null, after, Placed(before, after)))
  BY DEF CreateSchedule
<1>1. CASE LockedDay(after.venue, rows) \/ SameCoach(after) BY <1>1, <1>a, FinishIsQuiet
<1>2. CASE ~(LockedDay(after.venue, rows) \/ SameCoach(after))
  <2>1. /\ r.fields \in Patch /\ r.fields.venue \in Venues /\ r.fields.class \in Classes
        /\ r.kind \in Kinds
    BY <1>a DEF Inv, TypeOK, Framed, Request, NewKinds, Kinds
  <2>2. /\ before \in Row /\ before.c1 = Null /\ before.c2 = Null /\ ~before.locked
        /\ before.version = 0
    BY <2>1, NewRowFields
  <2>3. p \in Patch /\ (after.c2 # Null => after.c1 # Null) BY <2>1, <2>2, PromotedFields
  <2>4. after \in Row /\ after.locked = before.locked /\ after.version = before.version
    BY <2>2, <2>3, AppliedFields
  <2>5. \A i \in Ids \ born : rows[i] = Null BY DEF Inv
  <2>6. \A i \in Ids \ born : Allowed(e, i, before, after)
    BY <2>2, <2>3, <2>4, <2>5, <1>2 DEF Allowed
  <2>7. ASSUME (~Warned(Null, after, Placed(before, after)) /\ req[e].token = Null)
               \/ req[e].token = ConfirmationContext(r.kind, Null, before, p, after, Placed(before, after))
        PROVE \A i \in Ids \ born : Covered(e, i, after, Placed(before, after))
    <3> TAKE i \in Ids \ born
    <3>1. /\ rows[i] = Null /\ Null \in Ids \cup {Null} /\ i \in Ids
          /\ Placed(before, after) \in SUBSET Coaches
      BY <2>5, PlacedCoaches
    <3>2. \/ ~Warned(Null, after, Placed(before, after))
          \/ req[e].token = ConfirmationContext(r.kind, Null, before, p, after, Placed(before, after))
      BY <2>7
    <3>3. r.kind \in Kinds /\ before \in Row /\ p \in Patch BY <2>1, <2>2, <2>3
    <3> PICK coaches \in SUBSET Coaches : coaches = Placed(before, after) BY <3>1
    <3> PICK kind \in Kinds : kind = r.kind BY <3>3
    <3>4. \/ ~Warned(Null, after, coaches)
          \/ req[e].token = ConfirmationContext(kind, Null, before, p, after, coaches)
      BY <3>2
    <3>5. \A a, cs : /\ cs \in SUBSET Coaches
                     /\ \/ ~Warned(Null, a, cs)
                        \/ req[e].token = ConfirmationContext(kind, Null, before, p, a, cs)
                     => Covered(e, i, a, cs)
      BY <3>1, <3>3, ContextCovers
    <3>6. Covered(e, i, after, coaches) BY <3>4, <3>5
    <3> QED BY <3>6
  <2>8. ConfirmationContext(r.kind, Null, before, p, after, Placed(before, after)) \in Context
    BY <2>1, <2>2, <2>3, PlacedCoaches, ContextType
  <2>9. Decide(e, Ids \ born, before, after, Placed(before, after),
               ConfirmationContext(r.kind, Null, before, p, after, Placed(before, after)),
               Warned(Null, after, Placed(before, after)))
    BY <1>2, <1>a
  <2>10. req[e].st # "idle" /\ Ids \ born \in SUBSET Ids BY <1>a
  <2> PICK x : x = ConfirmationContext(r.kind, Null, before, p, after, Placed(before, after))
    OBVIOUS
  <2> DEFINE w == Warned(Null, after, Placed(before, after))
  <2>11. w \in BOOLEAN BY WarnedBoolean
  <2>12. /\ x \in Context /\ Decide(e, Ids \ born, before, after, Placed(before, after), x, w)
         /\ (~w /\ req[e].token = Null) \/ req[e].token = x =>
              \A i \in Ids \ born : Covered(e, i, after, Placed(before, after))
    BY <2>7, <2>8, <2>9
  <2> PICK ids \in SUBSET Ids : ids = Ids \ born BY <2>10
  <2>13. /\ \A i \in ids : Allowed(e, i, before, after)
         /\ (~w /\ req[e].token = Null) \/ req[e].token = x =>
              \A i \in ids : Covered(e, i, after, Placed(before, after))
         /\ Decide(e, ids, before, after, Placed(before, after), x, w)
    BY <2>6, <2>12
  <2>14. before \in Row /\ after \in Row /\ x \in Context BY <2>2, <2>4, <2>12
  <2>15. \A b, a \in Row, y \in Context, v \in BOOLEAN :
           /\ \A i \in ids : Allowed(e, i, b, a)
           /\ (~v /\ req[e].token = Null) \/ req[e].token = y =>
                \A i \in ids : Covered(e, i, a, Placed(b, a))
           /\ Decide(e, ids, b, a, Placed(b, a), y, v)
           => Quiet(e) \/ Stored(e)
    BY <2>10, DecideSteps
  <2> HIDE DEF w
  <2> QED BY <2>11, <2>13, <2>14, <2>15
<1> QED BY <1>1, <1>2

LEMMA ImportSteps ==
  ASSUME Inv, NEW e \in Editors, Import(e) PROVE Quiet(e) \/ Stored(e)
<1> DEFINE r == req[e]
<1>a. r.kind \in {"import", "merge"} /\ r.st = "sent" BY DEF Import
<1> DEFINE Matched == IF Matching(r.fields) = {} THEN {Null} ELSE Matching(r.fields)
           Picked(m, before, p, after, x) ==
             /\ m \in Matched
             /\ before = (IF m = Null THEN NewRow(r.fields.venue, r.fields.class) ELSE rows[m])
             /\ p = ImportFields(before, r.fields)
             /\ after = Applied(before, p)
             /\ x = [kind |-> r.kind, id |-> m, version |-> before.version, patch |-> p,
                     others |-> rows, away |-> Placed(before, after) \cap away]
             /\ IF ImportError(r.fields, after) \/ (m # Null /\ r.kind = "import") THEN Finish(e)
                ELSE Decide(e, IF m = Null THEN Ids \ born ELSE {m}, before, after,
                            Placed(before, after), x, TRUE)
<1>b. PICK m, before, p, after, x : Picked(m, before, p, after, x)
  BY DEF Import
<1>1. CASE ImportError(r.fields, after) \/ (m # Null /\ r.kind = "import")
  BY <1>1, <1>b, FinishIsQuiet
<1>2. CASE ~(ImportError(r.fields, after) \/ (m # Null /\ r.kind = "import"))
  <2>1. /\ r.fields \in Patch /\ r.fields.venue \in Venues /\ r.fields.class \in Classes
        /\ r.kind \in Kinds
    BY <1>a DEF Inv, TypeOK, Framed, Request, NewKinds, Kinds
  <2>2. /\ before \in Row
        /\ m = Null => before.c1 = Null /\ before.c2 = Null /\ ~before.locked
        /\ m # Null => /\ m \in Ids /\ before = rows[m] /\ rows[m] # Null
                       /\ before.class = r.fields.class /\ before.venue = r.fields.venue
    BY <1>b, <2>1, NewRowFields, NullApart DEF Matching, Cell, Inv, TypeOK
  <2>3. /\ p \in Patch /\ (after.c2 # Null => after.c1 # Null)
        /\ p.class = r.fields.class
    BY <1>b, <2>1, <2>2, ImportFieldsType
  <2>4. /\ after \in Row /\ after.locked = before.locked /\ after.version = before.version
        /\ after.class = Given(p.class, before.class)
    BY <1>b, <2>2, <2>3, AppliedFields
  <2>5. m # Null => after.class = before.class BY <2>2, <2>3, <2>4 DEF Given
  <2>6. \A i \in Ids \ born : rows[i] = Null BY DEF Inv
  <2>7. ~LockedDay(after.venue, rows) /\ ~SameCoach(after) BY <1>2 DEF ImportError
  <2> DEFINE ids == IF m = Null THEN Ids \ born ELSE {m}
  <2>8. ids \in SUBSET Ids BY <2>2
  <2>9. x \in Context
    <3>1. before.version \in Nat BY <2>2 DEF Row
    <3>2. m \in Ids \cup {Null} BY <2>2
    <3> QED BY <1>b, <3>1, <3>2, <2>1, <2>3, PlacedCoaches DEF Context, Inv, TypeOK
  <2>10. x \notin {Null, Undefined} /\ x.others = rows /\ x.away = Placed(before, after) \cap away
    BY <1>b, <2>9, NullApart
  <2>11. ASSUME req[e].token = x
         PROVE \A i \in ids : Covered(e, i, after, Placed(before, after))
                              /\ Allowed(e, i, before, after)
    BY <2>11, <2>10, <2>2, <2>3, <2>4, <2>5, <2>6, <2>7, <1>a DEF Covered, Allowed
  <2>12. Decide(e, ids, before, after, Placed(before, after), x, TRUE) BY <1>b, <1>2
  <2>13. r.st # "idle" BY <1>a
  <2>14. CASE req[e].token # x BY <2>12, <2>14, <2>13, <2>9, AskIsQuiet DEF Decide
  <2>15. CASE req[e].token = x
    <3> HIDE DEF r, ids
    <3> QED BY <2>2, <2>4, <2>8, <2>9, <2>11, <2>12, <2>13, <2>15, DecideSteps DEF r
  <2> QED BY <2>14, <2>15
<1> QED BY <1>1, <1>2

LEMMA DeleteSteps ==
  ASSUME Inv, NEW e \in Editors, DeleteSchedule(e) PROVE Quiet(e) \/ Removed(e)
<1> DEFINE r == req[e]
<1>1. r.kind = "delete" /\ r.st = "read" BY DEF DeleteSchedule
<1>2. CASE AtVersion(r)
  <2>1. rows[r.id] # Null /\ rows[r.id] = r.base /\ ~r.base.locked
    BY <1>1, <1>2 DEF Inv, Framed, Seen, AtVersion, RowKinds
  <2>2. /\ rows' = [rows EXCEPT ![r.id] = Null]
        /\ acknowledged' = (acknowledged \cup {}) \cap Conflicts(rows')
        /\ UNCHANGED <<born, away>> /\ req' = [req EXCEPT ![e] = Idle]
    BY <1>2 DEF DeleteSchedule, Table, Settle
  <2>3. rows' = [i \in Ids |-> IF i \in {r.id} THEN Null ELSE rows[i]]
    BY <2>2 DEF Inv, TypeOK
  <2> QED BY <1>1, <2>1, <2>2, <2>3 DEF Removed, Gone
<1>3. CASE ~AtVersion(r)
  <2>1. Finish(e) BY <1>3 DEF DeleteSchedule, Finish, Settle
  <2> QED BY <2>1, FinishIsQuiet
<1> QED BY <1>2, <1>3

LEMMA LoadSteps ==
  ASSUME Inv, NEW e \in Editors, Load(e) PROVE Quiet(e)
<1>1. PICK x \in Inputs[e] :
        \/ /\ x.kind \in {"create", "import", "merge"}
           /\ Settle(e, [Idle EXCEPT !.st = "sent", !.kind = x.kind, !.fields = x.fields])
        \/ /\ x.kind \in Changes \cup {"delete"}
           /\ \E i \in Ids :
                /\ rows[i] # Null
                /\ Settle(e, [Idle EXCEPT !.st = "sent", !.kind = x.kind, !.id = i,
                                          !.base = rows[i], !.fields = x.fields])
  BY DEF Load
<1>2. x.kind \in Kinds /\ x.fields \in Patch BY InputsAssumption
<1>3. CASE /\ x.kind \in {"create", "import", "merge"}
           /\ Settle(e, [Idle EXCEPT !.st = "sent", !.kind = x.kind, !.fields = x.fields])
  <2> PICK r : r = [Idle EXCEPT !.st = "sent", !.kind = x.kind, !.fields = x.fields] OBVIOUS
  <2>1. r \in Request BY <1>2, NullApart DEF Idle, Request
  <2>2. r.st = "sent" /\ r.kind = x.kind /\ r.fields = x.fields BY DEF Idle
  <2>3. x.fields.venue \in Venues /\ x.fields.class \in Classes
    BY <1>2, <1>3, InputsAssumption DEF Patch
  <2>4. Framed(r) /\ Seen(r)
    BY <1>2, <1>3, <2>2, <2>3 DEF Framed, Seen, RowKinds, Changes, NewKinds
  <2> QED BY <1>3, <2>1, <2>4 DEF Quiet, Load, Settle
<1>4. CASE /\ x.kind \in Changes \cup {"delete"}
           /\ \E i \in Ids :
                /\ rows[i] # Null
                /\ Settle(e, [Idle EXCEPT !.st = "sent", !.kind = x.kind, !.id = i,
                                          !.base = rows[i], !.fields = x.fields])
  <2> PICK i \in Ids :
        /\ rows[i] # Null
        /\ Settle(e, [Idle EXCEPT !.st = "sent", !.kind = x.kind, !.id = i,
                                  !.base = rows[i], !.fields = x.fields])
    BY <1>4
  <2> PICK r : r = [Idle EXCEPT !.st = "sent", !.kind = x.kind, !.id = i,
                                !.base = rows[i], !.fields = x.fields]
    OBVIOUS
  <2>1. rows[i] \in Row /\ i \in born BY DEF Inv, TypeOK
  <2>2. r \in Request BY <1>2, <2>1, NullApart DEF Idle, Request
  <2>3. r.st = "sent" /\ r.kind = x.kind /\ r.id = i /\ r.base = rows[i] BY DEF Idle
  <2>4. rows[i].version \in Nat BY <2>1 DEF Row
  <2>5. Framed(r) /\ Seen(r)
    BY <1>2, <1>4, <2>1, <2>3, <2>4 DEF Framed, Seen, Changes, NewKinds
  <2> QED BY <2>2, <2>5 DEF Quiet, Load, Settle
<1> QED BY <1>1, <1>3, <1>4

LEMMA ReadFirstSteps ==
  ASSUME Inv, NEW e \in Editors, ReadFirst(e) PROVE Quiet(e)
<1> DEFINE r == req[e]
           existing == rows[r.id]
<1>1. /\ r.st = "sent" /\ r.kind \in {"assign", "patch", "delete"}
      /\ UNCHANGED <<rows, born, away, acknowledged>>
      /\ \/ req' = [req EXCEPT ![e] = Idle]
         \/ /\ AtVersion(r) /\ (r.kind = "delete" => ~existing.locked)
            /\ \E p : /\ req' = [req EXCEPT ![e] = [r EXCEPT !.st = "read", !.patch = p]]
                      /\ p = IF r.kind = "patch" THEN PatchFields(existing, r.fields)
                             ELSE r.fields
  BY DEF ReadFirst, Settle
<1>2. CASE req' = [req EXCEPT ![e] = Idle]
  BY <1>1, <1>2, FinishIsQuiet DEF Finish, Settle
<1>3. ASSUME AtVersion(r), r.kind = "delete" => ~existing.locked, NEW p,
             req' = [req EXCEPT ![e] = [r EXCEPT !.st = "read", !.patch = p]],
             p = IF r.kind = "patch" THEN PatchFields(existing, r.fields) ELSE r.fields
      PROVE Quiet(e)
  <2>1. r \in Request /\ r.fields \in Patch BY DEF Inv, TypeOK, Request
  <2>2. /\ existing = r.base /\ existing \in Row
    BY <1>1, <1>3 DEF Inv, Framed, Seen, AtVersion, RowKinds, Changes
  <2>3. p \in Patch BY <1>3, <2>1, <2>2, PatchFieldsType
  <2> PICK q : q = [r EXCEPT !.st = "read", !.patch = p] OBVIOUS
  <2>4. q \in Request BY <2>1, <2>3, RequestUpdates
  <2>5. /\ q.kind = r.kind /\ q.id = r.id /\ q.base = r.base /\ q.fields = r.fields
        /\ q.st = "read"
    BY <2>1 DEF Request
  <2>6. Framed(q) /\ Seen(q) BY <1>1, <1>3, <2>2, <2>4, <2>5, SameFrame
  <2> QED BY <1>1, <1>3, <2>4, <2>6 DEF Quiet
<1> QED BY <1>1, <1>2, <1>3

LEMMA DialogSteps ==
  ASSUME Inv, NEW e \in Editors, Confirm(e) \/ Cancel(e) \/ Expire(e) PROVE Quiet(e)
<1> DEFINE r == req[e]
<1>0. r \in Request BY DEF Inv, TypeOK
<1>1. CASE Cancel(e) BY <1>1, FinishIsQuiet DEF Cancel
<1>2. ASSUME NEW q \in Request, req' = [req EXCEPT ![e] = q], r.st # "idle",
             q.kind = r.kind, q.id = r.id, q.base = r.base, q.fields = r.fields,
             q.st = "sent", UNCHANGED <<rows, born, away, acknowledged>>
      PROVE Quiet(e)
  BY <1>2, SameFrame DEF Quiet
<1>3. CASE Confirm(e)
  <2> PICK q : q = [r EXCEPT !.st = "sent"] OBVIOUS
  <2>1. q \in Request BY <1>0, RequestUpdates
  <2>2. /\ q.kind = r.kind /\ q.id = r.id /\ q.base = r.base /\ q.fields = r.fields
        /\ q.st = "sent"
    BY <1>0 DEF Request
  <2> QED BY <1>2, <1>3, <2>1, <2>2 DEF Confirm, Settle
<1>4. CASE Expire(e)
  <2> PICK q : q = [r EXCEPT !.token = Undefined] OBVIOUS
  <2>1. q \in Request BY <1>0, RequestUpdates
  <2>2. /\ q.kind = r.kind /\ q.id = r.id /\ q.base = r.base /\ q.fields = r.fields
        /\ q.st = r.st
    BY <1>0 DEF Request
  <2> QED BY <1>2, <1>4, <2>1, <2>2 DEF Expire, Settle
<1> QED BY <1>1, <1>3, <1>4

\* What an editor's step does, in all.
LEMMA EditSteps ==
  ASSUME Inv, NEW e \in Editors, Edit(e) PROVE Quiet(e) \/ Stored(e) \/ Removed(e)
BY MutateSteps, CreateSteps, ImportSteps, DeleteSteps, LoadSteps, ReadFirstSteps,
   DialogSteps DEF Edit

-----------------------------------------------------------------------------
(* The invariant. *)
LEMMA ConflictsType == \A rs : Conflicts(rs) \subseteq Ids \X Ids \X Coaches
BY DEF Conflicts

\* The new row i, and the rows beside it.
LEMMA NewContent ==
  ASSUME Inv, NEW e \in Editors, NEW i \in Ids, NEW before \in Row, NEW after \in Row,
         Allowed(e, i, before, after), Replaced(e, i, before, after)
  PROVE /\ rows' \in [Ids -> Row \cup {Null}]
        /\ rows'[i] \in Row /\ rows'[i].version = before.version + 1
        /\ rows'[i].venue = after.venue /\ rows'[i].class = after.class
        /\ rows'[i].c1 = after.c1 /\ rows'[i].c2 = after.c2
        /\ rows'[i].locked = after.locked
        /\ \A j \in Ids \ {i} : rows'[j] = rows[j]
<1>1. before.version + 1 \in Nat BY DEF Row
<1> PICK row : row = [after EXCEPT !.version = before.version + 1] OBVIOUS
<1>2. /\ row \in Row /\ row.version = before.version + 1 /\ row.venue = after.venue
      /\ row.class = after.class /\ row.c1 = after.c1 /\ row.c2 = after.c2
      /\ row.locked = after.locked
  BY <1>1 DEF Row
<1>3. rows' = [rows EXCEPT ![i] = row] BY DEF Replaced
<1>4. rows \in [Ids -> Row \cup {Null}] BY DEF Inv, TypeOK
<1> QED BY <1>2, <1>3, <1>4

LEMMA StoredKeepsInv ==
  ASSUME Inv, NEW e \in Editors, Stored(e) PROVE Inv'
<1> PICK i \in Ids, before \in Row, after \in Row :
      Allowed(e, i, before, after) /\ Replaced(e, i, before, after)
  BY DEF Stored
<1>1. /\ rows' \in [Ids -> Row \cup {Null}] /\ rows'[i] \in Row
      /\ rows'[i].version = before.version + 1 /\ \A j \in Ids \ {i} : rows'[j] = rows[j]
  BY NewContent
<1>2. TypeOK'
  <2>1. Idle \in Request BY NullApart DEF Idle, Request
  <2> QED BY <1>1, <2>1, ConflictsType DEF Replaced, Inv, TypeOK
<1>3. \A j \in Ids : rows'[j] # Null => j \in born' BY <1>1 DEF Inv, Replaced
<1>4. ASSUME NEW d \in Editors PROVE Framed(req[d])' /\ Seen(req[d])'
  <2>1. CASE d = e
    <3>1. req'[d].st = "idle" BY <2>1 DEF Replaced, Inv, TypeOK, Idle
    <3> QED BY <3>1 DEF Framed, Seen
  <2>2. CASE d # e
    <3>1. req'[d] = req[d] /\ Framed(req[d]) /\ Seen(req[d]) /\ req[d] \in Request
      BY <2>2 DEF Replaced, Inv, TypeOK
    <3>2. Framed(req[d])' BY <3>1 DEF Framed, Replaced
    <3>3. Seen(req[d])'
      <4>1. CASE req[d].st = "idle" \/ req[d].kind \notin RowKinds \/ req[d].id # i
        <5>1. (req[d].st # "idle" /\ req[d].kind \in RowKinds) => req[d].id \in Ids
          BY <3>1 DEF Framed, Inv, TypeOK
        <5>2. (req[d].st # "idle" /\ req[d].kind \in RowKinds)
                => rows'[req[d].id] = rows[req[d].id]
          BY <4>1, <5>1, <1>1
        <5> QED BY <3>1, <5>2 DEF Seen
      <4>2. CASE req[d].st # "idle" /\ req[d].kind \in RowKinds /\ req[d].id = i
        <5>1. i \in born /\ req[d].base \in Row BY <3>1, <4>2 DEF Framed
        <5>2. rows[i] # Null /\ rows[i] = before BY <5>1 DEF Allowed
        <5>3. req[d].base.version <= before.version BY <5>2, <4>2, <3>1 DEF Seen
        <5>4. req[d].base.version \in Nat /\ before.version \in Nat BY <5>1 DEF Row
        <5>5. /\ req[d].base.version <= rows'[i].version
              /\ req[d].base.version # rows'[i].version
          BY <5>3, <5>4, <1>1
        <5> QED BY <3>1, <4>2, <5>5 DEF Seen
      <4> QED BY <4>1, <4>2
    <3> QED BY <3>2, <3>3
  <2> QED BY <2>1, <2>2
<1> QED BY <1>2, <1>3, <1>4 DEF Inv

\* Rows that only go away, or get a higher version.
LEMMA OthersKeepSeen ==
  ASSUME Inv, NEW d \in Editors, req'[d] = req[d], born' = born,
         \A j \in Ids : rows'[j] # Null =>
           \/ rows'[j] = rows[j]
           \/ rows[j] # Null /\ rows'[j].version = rows[j].version + 1
  PROVE Framed(req[d])' /\ Seen(req[d])'
<1>1. Framed(req[d]) /\ Seen(req[d]) /\ req[d] \in Request BY DEF Inv, TypeOK
<1>2. Framed(req[d])' BY <1>1 DEF Framed
<1>3. Seen(req[d])'
  <2> SUFFICES ASSUME req[d].st # "idle", req[d].kind \in RowKinds, rows'[req[d].id] # Null
               PROVE /\ req[d].base.version <= rows'[req[d].id].version
                     /\ req[d].base.version = rows'[req[d].id].version
                          => req[d].base = rows'[req[d].id]
    BY DEF Seen
  <2> PICK j : j = req[d].id OBVIOUS
  <2>1. j \in Ids /\ req[d].base \in Row BY <1>1 DEF Framed, Inv, TypeOK
  <2>2. CASE rows'[j] = rows[j] BY <1>1, <2>2 DEF Seen
  <2>3. CASE rows[j] # Null /\ rows'[j].version = rows[j].version + 1
    <3>1. rows[j] \in Row /\ req[d].base.version <= rows[j].version
      BY <1>1, <2>1, <2>3 DEF Seen, Inv, TypeOK
    <3>2. rows[j].version \in Nat /\ req[d].base.version \in Nat BY <2>1, <3>1 DEF Row
    <3> QED BY <2>3, <3>1, <3>2
  <2> QED BY <2>1, <2>2, <2>3
<1> QED BY <1>2, <1>3

LEMMA GoneKeepsInv ==
  ASSUME Inv, NEW is \in SUBSET Ids, Gone(is),
         req' = req \/ \E e \in Editors : req' = [req EXCEPT ![e] = Idle]
  PROVE Inv'
<1>1. TypeOK'
  <2>1. Idle \in Request BY NullApart DEF Idle, Request
  <2> QED BY <2>1, ConflictsType DEF Gone, Inv, TypeOK
<1>2. \A j \in Ids : rows'[j] # Null => rows'[j] = rows[j] /\ j \in born'
  BY DEF Gone, Inv
<1>3. ASSUME NEW d \in Editors PROVE Framed(req[d])' /\ Seen(req[d])'
  <2>1. req'[d] = req[d] \/ req'[d].st = "idle" BY DEF Inv, TypeOK, Idle
  <2>2. CASE req'[d] = req[d] BY <2>2, <1>2, OthersKeepSeen DEF Gone
  <2>3. CASE req'[d].st = "idle" BY <2>3 DEF Framed, Seen
  <2> QED BY <2>1, <2>2, <2>3
<1> QED BY <1>1, <1>2, <1>3 DEF Inv

\* A lock writes a new version of each row of the venue, and of nothing else.
LEMMA MarkedRows ==
  ASSUME Inv, NEW v \in Venues, NEW locked \in BOOLEAN, SetLock(v, locked)
  PROVE /\ rows' \in [Ids -> Row \cup {Null}]
        /\ \A j \in Ids : (rows'[j] = Null <=> rows[j] = Null)
        /\ \A j \in Ids : rows[j] # Null =>
             /\ rows'[j].c1 = rows[j].c1 /\ rows'[j].c2 = rows[j].c2
             /\ rows'[j].venue = rows[j].venue /\ rows'[j].class = rows[j].class
             /\ rows'[j] = rows[j] \/ rows'[j].version = rows[j].version + 1
        /\ acknowledged' = acknowledged \cap Conflicts(rows')
        /\ UNCHANGED <<born, away, req>>
<1>1. rows' = Marked(v, locked) /\ acknowledged' = (acknowledged \cup {}) \cap Conflicts(rows')
      /\ UNCHANGED <<born, away, req>>
  BY DEF SetLock, Table
<1>2. ASSUME NEW row \in Row, NEW new, new = [row EXCEPT !.locked = locked, !.version = @ + 1]
      PROVE /\ new \in Row /\ new.version = row.version + 1 /\ new.c1 = row.c1
            /\ new.c2 = row.c2 /\ new.venue = row.venue /\ new.class = row.class
  <2>1. row.version \in Nat /\ row.version + 1 \in Nat BY DEF Row
  <2>2. new = [[row EXCEPT !.locked = locked] EXCEPT !.version = row.version + 1]
    BY <1>2, <2>1 DEF Row
  <2> QED BY <2>1, <2>2 DEF Row
<1>3. ASSUME NEW j \in Ids
      PROVE \/ rows'[j] = rows[j]
            \/ /\ rows[j] \in Row
               /\ rows'[j] = [rows[j] EXCEPT !.locked = locked, !.version = @ + 1]
  BY <1>1 DEF Marked, Inv, TypeOK
<1>4. DOMAIN rows' = Ids /\ rows' = [j \in Ids |-> rows'[j]] BY <1>1 DEF Marked
<1>5. \A j \in Ids : rows[j] \in Row \cup {Null} BY DEF Inv, TypeOK
<1>6. ASSUME NEW j \in Ids
      PROVE /\ rows'[j] \in Row \cup {Null} /\ (rows'[j] = Null <=> rows[j] = Null)
            /\ rows[j] # Null =>
                 /\ rows'[j].c1 = rows[j].c1 /\ rows'[j].c2 = rows[j].c2
                 /\ rows'[j].venue = rows[j].venue /\ rows'[j].class = rows[j].class
                 /\ rows'[j] = rows[j] \/ rows'[j].version = rows[j].version + 1
  <2>1. CASE rows'[j] = rows[j] BY <2>1, <1>5
  <2>2. CASE /\ rows[j] \in Row
             /\ rows'[j] = [rows[j] EXCEPT !.locked = locked, !.version = @ + 1]
    <3> PICK row, new : row = rows[j] /\ new = rows'[j] /\ row \in Row BY <2>2
    <3>1. new = [row EXCEPT !.locked = locked, !.version = @ + 1] BY <2>2
    <3>2. /\ new \in Row /\ new.version = row.version + 1 /\ new.c1 = row.c1
          /\ new.c2 = row.c2 /\ new.venue = row.venue /\ new.class = row.class
      BY <3>1, <1>2
    <3>3. new # Null /\ row # Null BY <3>2, NullApart
    <3> QED BY <3>2, <3>3
  <2> QED BY <2>1, <2>2, <1>3
<1> QED BY <1>1, <1>4, <1>6

LEMMA SetLockKeepsInv ==
  ASSUME Inv, NEW v \in Venues, NEW locked \in BOOLEAN, SetLock(v, locked)
  PROVE Inv'
<1>1. TypeOK' BY MarkedRows, ConflictsType DEF Inv, TypeOK
<1>2. \A j \in Ids : rows'[j] # Null => j \in born' BY MarkedRows DEF Inv
<1>3. \A d \in Editors : Framed(req[d])' /\ Seen(req[d])' BY MarkedRows, OthersKeepSeen
<1> QED BY <1>1, <1>2, <1>3 DEF Inv

LEMMA QuietKeepsInv == ASSUME Inv, NEW e \in Editors, Quiet(e) PROVE Inv'
<1> PICK r \in Request : Framed(r) /\ Seen(r) /\ req' = [req EXCEPT ![e] = r]
  BY DEF Quiet
<1>1. UNCHANGED <<rows, born, away, acknowledged>> BY DEF Quiet
<1>2. TypeOK' BY <1>1 DEF Inv, TypeOK
<1>3. ASSUME NEW d \in Editors PROVE Framed(req[d])' /\ Seen(req[d])'
  <2>1. (req'[d] = r \/ req'[d] = req[d]) BY DEF Inv, TypeOK
  <2>2. Framed(req'[d]) /\ Seen(req'[d]) BY <2>1 DEF Inv
  <2> QED BY <2>2, <1>1 DEF Framed, Seen
<1> QED BY <1>1, <1>2, <1>3 DEF Inv

\* Every step, by what it does to the rows.
LEMMA NextSteps ==
  ASSUME Inv, Next
  PROVE \/ \E e \in Editors : Quiet(e) \/ Stored(e) \/ Removed(e)
        \/ \E v \in Venues, locked \in BOOLEAN : SetLock(v, locked)
        \/ \E is \in SUBSET Ids, force \in BOOLEAN :
             Gone(is) /\ DeleteSchedules(is, force) /\ UNCHANGED req
        \/ away' \in SUBSET Coaches /\ UNCHANGED <<rows, born, req, acknowledged>>
<1>1. ASSUME NEW is \in SUBSET Ids, NEW force \in BOOLEAN, DeleteSchedules(is, force)
      PROVE Gone(is) /\ UNCHANGED req
  BY <1>1 DEF DeleteSchedules, Table, Gone
<1>2. ASSUME NEW c \in Coaches, SetAvailability(c)
      PROVE away' \in SUBSET Coaches /\ UNCHANGED <<rows, born, req, acknowledged>>
  BY <1>2 DEF SetAvailability, Inv, TypeOK
<1> QED BY <1>1, <1>2, EditSteps DEF Next

LEMMA InitInv == Init => Inv
<1> SUFFICES ASSUME Init PROVE Inv OBVIOUS
<1>1. Idle \in Request BY NullApart DEF Idle, Request
<1>2. TypeOK BY <1>1, ExistingAssumption, ConflictsType DEF Init, TypeOK
<1>3. \A e \in Editors : req[e].st = "idle" BY DEF Init, Idle
<1> QED BY <1>2, <1>3 DEF Inv, Framed, Seen, Init

LEMMA NextInv == Inv /\ [Next]_vars => Inv'
<1> SUFFICES ASSUME Inv, [Next]_vars PROVE Inv' OBVIOUS
<1>1. CASE UNCHANGED vars BY <1>1 DEF vars, Inv, TypeOK, Framed, Seen
<1>2. CASE Next
  <2>1. ASSUME NEW e \in Editors, Removed(e) PROVE Inv'
    <3>1. req[e].id \in Ids BY <2>1 DEF Removed, Inv, Framed, RowKinds, TypeOK
    <3> QED BY <2>1, <3>1, GoneKeepsInv DEF Removed
  <2>2. ASSUME away' \in SUBSET Coaches, UNCHANGED <<rows, born, req, acknowledged>>
        PROVE Inv'
    BY <2>2 DEF Inv, TypeOK, Framed, Seen
  <2> QED BY <1>2, <2>1, <2>2, NextSteps, QuietKeepsInv, StoredKeepsInv, SetLockKeepsInv,
             GoneKeepsInv
<1> QED BY <1>1, <1>2

THEOREM SpecInv == Spec => []Inv
BY InitInv, NextInv, PTL DEF Spec

\* Every variable keeps its type: a row its fields, and a request the form its
\* route gives it.
THEOREM TypeCorrect == Spec => []TypeOK
<1>1. Inv => TypeOK BY DEF Inv
<1> QED BY <1>1, SpecInv, PTL

-----------------------------------------------------------------------------
(* The steps that place nobody. *)
Unplaced ==
  \A j \in Ids : rows'[j] # Null =>
    /\ rows[j] # Null
    /\ rows'[j].c1 = rows[j].c1 /\ rows'[j].c2 = rows[j].c2
    /\ rows'[j].venue = rows[j].venue /\ rows'[j].class = rows[j].class
Trimmed == \/ UNCHANGED <<rows, acknowledged>>
           \/ Unplaced /\ acknowledged' = acknowledged \cap Conflicts(rows')

LEMMA PlainSteps ==
  ASSUME Inv, [Next]_vars
  PROVE (\E e \in Editors : Stored(e)) \/ Trimmed
<1>1. CASE UNCHANGED vars BY <1>1 DEF vars, Trimmed
<1>2. CASE Next
  <2>1. ASSUME NEW e \in Editors, Quiet(e) PROVE Trimmed BY <2>1 DEF Quiet, Trimmed
  <2>2. ASSUME NEW is, Gone(is) PROVE Trimmed BY <2>2 DEF Gone, Trimmed, Unplaced
  <2>3. ASSUME NEW e \in Editors, Removed(e) PROVE Trimmed BY <2>2, <2>3 DEF Removed
  <2>4. ASSUME NEW v \in Venues, NEW locked \in BOOLEAN, SetLock(v, locked) PROVE Trimmed
    BY <2>4, MarkedRows DEF Trimmed, Unplaced
  <2> QED BY <1>2, <2>1, <2>2, <2>3, <2>4, NextSteps DEF Trimmed
<1> QED BY <1>1, <1>2

\* A request ends by its own step only.
LEMMA EndingSteps ==
  ASSUME Inv, [Next]_vars, NEW e \in Editors, Ends(e)
  PROVE Quiet(e) \/ Stored(e) \/ Removed(e)
<1>1. req # req' BY DEF Ends
<1>2. PICK d \in Editors : Quiet(d) \/ Stored(d) \/ Removed(d)
  <2>1. Next BY <1>1 DEF vars
  <2>2. ASSUME NEW v \in Venues, NEW locked \in BOOLEAN, SetLock(v, locked) PROVE FALSE
    BY <1>1, <2>2 DEF SetLock
  <2> QED BY <1>1, <2>1, <2>2, NextSteps
<1>3. \E r : req' = [req EXCEPT ![d] = r]
  BY <1>2 DEF Quiet, Stored, Replaced, Removed
<1>4. d = e BY <1>3 DEF Ends, Inv, TypeOK
<1> QED BY <1>2, <1>4

-----------------------------------------------------------------------------
(* The rows. *)
\* Whatever the routes make of a change, and from whichever row they read, the
\* second slot is empty when the first is, and holds another coach.
THEOREM Slots == Spec => []SlotsInOrder
<1>1. Init => SlotsInOrder BY ExistingAssumption DEF Init, SlotsInOrder, SameCoach
<1>2. Inv /\ SlotsInOrder /\ [Next]_vars => SlotsInOrder'
  <2> SUFFICES ASSUME Inv, SlotsInOrder, [Next]_vars PROVE SlotsInOrder' OBVIOUS
  <2>1. CASE \E e \in Editors : Stored(e)
    <3> PICK e \in Editors : Stored(e) BY <2>1
    <3> PICK i \in Ids, before \in Row, after \in Row :
          Allowed(e, i, before, after) /\ Replaced(e, i, before, after)
      BY DEF Stored
    <3>1. /\ rows'[i].c1 = after.c1 /\ rows'[i].c2 = after.c2
          /\ \A j \in Ids \ {i} : rows'[j] = rows[j]
      BY NewContent
    <3>2. ~SameCoach(after) /\ (after.c2 # Null => after.c1 # Null) BY DEF Allowed
    <3> QED BY <3>1, <3>2 DEF SlotsInOrder, SameCoach
  <2>2. CASE Trimmed BY <2>2 DEF Trimmed, Unplaced, SlotsInOrder, SameCoach
  <2> QED BY <2>1, <2>2, PlainSteps
<1> QED BY <1>1, <1>2, SpecInv, PTL DEF Spec

\* The conflicts of the row an editor writes: there before, or shown.
LEMMA WrittenConflicts ==
  ASSUME Inv, NEW e \in Editors, NEW i \in Ids, NEW before \in Row, NEW after \in Row,
         Allowed(e, i, before, after), Covered(e, i, after, Placed(before, after)),
         NEW j \in Ids \ {i}, NEW c \in Coaches,
         Has(after, c), Has(rows[j], c), after.venue # rows[j].venue,
         NEW t \in Ids \X Ids \X Coaches, t[3] = c, {t[1], t[2]} = {i, j}
  PROVE \/ rows[i] = before /\ Has(before, c) /\ before.venue = after.venue
        \/ t \in ShownConflicts(i, after, Placed(before, after), req[e].token)
<1>1. CASE c \in Placed(before, after)
  <2>1. rows[j] # Null BY DEF Has
  <2>2. j \in ConflictRows(i, after, Placed(before, after), rows)
    BY <1>1, <2>1 DEF ConflictRows
  <2>3. req[e].token \notin {Null, Undefined} /\ req[e].token.others[j] = rows[j]
    BY <2>2 DEF Covered
  <2>4. j \in ConflictRows(i, after, {c}, req[e].token.others)
    BY <2>1, <2>3 DEF ConflictRows
  <2>5. t \in Ids \X Ids \X Placed(before, after) BY <1>1
  <2> QED BY <2>3, <2>4, <2>5 DEF ShownConflicts
<1>2. CASE c \notin Placed(before, after)
  <2>1. Has(before, c) /\ before.venue = after.venue BY <1>2 DEF Placed
  <2>2. rows[i] # Null BY <2>1, NullApart DEF Allowed, Has
  <2> QED BY <2>1, <2>2 DEF Allowed
<1> QED BY <1>1, <1>2

\* A coach stands in two venues at once only where an editor was shown the two rows.
THEOREM Shown == Spec => []ConflictsShown
<1>1. Init => ConflictsShown BY DEF Init, ConflictsShown
<1>2. Inv /\ ConflictsShown /\ [Next]_vars => ConflictsShown'
  <2> SUFFICES ASSUME Inv, ConflictsShown, [Next]_vars PROVE ConflictsShown' OBVIOUS
  <2>1. CASE \E e \in Editors : Stored(e)
    <3> PICK e \in Editors : Stored(e) BY <2>1
    <3> PICK i \in Ids, before \in Row, after \in Row :
          /\ Allowed(e, i, before, after) /\ Covered(e, i, after, Placed(before, after))
          /\ Replaced(e, i, before, after)
      BY DEF Stored
    <3>1. /\ rows'[i] \in Row /\ rows'[i].venue = after.venue
          /\ rows'[i].c1 = after.c1 /\ rows'[i].c2 = after.c2
          /\ \A j \in Ids \ {i} : rows'[j] = rows[j]
      BY NewContent
    <3>2. after # Null /\ rows'[i] # Null BY <3>1, NullApart
    <3>3. \A c : Has(rows'[i], c) => Has(after, c) BY <3>1, <3>2 DEF Has
    <3>4. ASSUME NEW t \in Ids \X Ids \X Coaches, t \in Conflicts(rows')
          PROVE t \in acknowledged
                \/ t \in ShownConflicts(i, after, Placed(before, after), req[e].token)
      <4>1. /\ t[1] # t[2] /\ Has(rows'[t[1]], t[3]) /\ Has(rows'[t[2]], t[3])
            /\ rows'[t[1]].venue # rows'[t[2]].venue
        BY <3>4 DEF Conflicts
      <4>2. t[1] \in Ids /\ t[2] \in Ids /\ t[3] \in Coaches OBVIOUS
      <4>3. t \in Conflicts(rows) => t \in acknowledged BY DEF ConflictsShown
      <4>4. CASE t[1] # i /\ t[2] # i BY <4>1, <4>2, <4>3, <4>4, <3>1 DEF Conflicts
      <4>5. ASSUME NEW j \in Ids \ {i}, {t[1], t[2]} = {i, j}
            PROVE t \in acknowledged
                  \/ t \in ShownConflicts(i, after, Placed(before, after), req[e].token)
        <5>1. /\ Has(after, t[3]) /\ Has(rows[j], t[3]) /\ after.venue # rows[j].venue
          BY <4>1, <4>5, <3>1, <3>3
        <5>2. \/ rows[i] = before /\ Has(before, t[3]) /\ before.venue = after.venue
              \/ t \in ShownConflicts(i, after, Placed(before, after), req[e].token)
          BY <5>1, <4>2, <4>5, WrittenConflicts
        <5>3. CASE rows[i] = before /\ Has(before, t[3]) /\ before.venue = after.venue
          <6>1. Has(rows[i], t[3]) /\ rows[i].venue # rows[j].venue BY <5>1, <5>3
          <6>2. /\ Has(rows[t[1]], t[3]) /\ Has(rows[t[2]], t[3])
                /\ rows[t[1]].venue # rows[t[2]].venue
            BY <6>1, <5>1, <4>5, <4>1
          <6> QED BY <6>2, <4>1, <4>3 DEF Conflicts
        <5> QED BY <5>2, <5>3
      <4> QED BY <4>1, <4>2, <4>4, <4>5
    <3>5. acknowledged' = (acknowledged
             \cup ShownConflicts(i, after, Placed(before, after), req[e].token))
             \cap Conflicts(rows')
      BY DEF Replaced
    <3>6. \A t \in Conflicts(rows') : t \in acknowledged' BY <3>4, <3>5, ConflictsType
    <3> QED BY <3>6 DEF ConflictsShown
  <2>2. CASE Trimmed
    <3>1. CASE UNCHANGED <<rows, acknowledged>> BY <3>1 DEF ConflictsShown
    <3>2. CASE Unplaced /\ acknowledged' = acknowledged \cap Conflicts(rows')
      <4>1. Conflicts(rows') \subseteq Conflicts(rows)
        BY <3>2 DEF Unplaced, Conflicts, Has
      <4> QED BY <4>1, <3>2 DEF ConflictsShown
    <3> QED BY <2>2, <3>1, <3>2 DEF Trimmed
  <2> QED BY <2>1, <2>2, PlainSteps
<1> QED BY <1>1, <1>2, SpecInv, PTL DEF Spec

-----------------------------------------------------------------------------
(* The changes. *)
\* A coach is placed outside their hours only where the dialog said so.
THEOREM AwayAsked == Spec => AwayShown
<1> DEFINE Step == \A e \in Editors, i \in Ids, c \in Coaches :
       Ends(e) /\ c \in away /\ Has(rows'[i], c) /\ (Has(rows[i], c) => Moved(i))
         => req[e].token \notin {Null, Undefined} /\ c \in req[e].token.away
<1>1. ASSUME Inv, [Next]_vars, NEW e \in Editors, NEW i \in Ids, NEW c \in Coaches,
             Ends(e), c \in away, Has(rows'[i], c), Has(rows[i], c) => Moved(i)
      PROVE req[e].token \notin {Null, Undefined} /\ c \in req[e].token.away
  <2>1. rows'[i] # rows[i] BY <1>1 DEF Moved, Has
  <2>2. rows'[i] # Null BY <1>1 DEF Has
  <2>3. ~Quiet(e) BY <2>1 DEF Quiet
  <2>4. ~Removed(e) BY <2>1, <2>2 DEF Removed, Gone
  <2>5. Stored(e) BY <1>1, <2>3, <2>4, EndingSteps
  <2> PICK j \in Ids, before \in Row, after \in Row :
        /\ Allowed(e, j, before, after) /\ Covered(e, j, after, Placed(before, after))
        /\ Replaced(e, j, before, after)
    BY <2>5 DEF Stored
  <2>6. /\ rows'[j].venue = after.venue /\ rows'[j].c1 = after.c1 /\ rows'[j].c2 = after.c2
        /\ \A l \in Ids \ {j} : rows'[l] = rows[l]
    BY <1>1, NewContent
  <2>7. i = j BY <2>1, <2>6
  <2>8. Has(after, c) BY <1>1, <2>6, <2>7, NullApart DEF Has
  <2>9. Has(before, c) => before.venue # after.venue
    <3>1. CASE rows[j] = Null BY <3>1, NullApart DEF Allowed, Has
    <3>2. CASE rows[j] # Null BY <3>2, <1>1, <2>6, <2>7 DEF Allowed, Moved
    <3> QED BY <3>1, <3>2
  <2>10. c \in Placed(before, after) \cap away BY <1>1, <2>8, <2>9 DEF Placed
  <2> QED BY <2>10 DEF Covered
<1>2. Inv /\ [Next]_vars => [Step]_vars BY <1>1
<1> QED BY <1>2, SpecInv, PTL DEF Spec, AwayShown

\* No editor writes over, or deletes, what they had not seen.
THEOREM NothingLost == Spec => NoLostUpdate
<1> DEFINE Step == \A e \in Editors, i \in Ids :
       Ends(e) /\ rows'[i] # rows[i] /\ rows[i] # Null
         => rows[i] = IF req[e].kind \in {"import", "merge"}
                      THEN req[e].token.others[i] ELSE req[e].base
<1>1. ASSUME Inv, [Next]_vars, NEW e \in Editors, NEW i \in Ids,
             Ends(e), rows'[i] # rows[i], rows[i] # Null
      PROVE rows[i] = IF req[e].kind \in {"import", "merge"}
                      THEN req[e].token.others[i] ELSE req[e].base
  <2>1. ~Quiet(e) BY <1>1 DEF Quiet
  <2>2. CASE Stored(e)
    <3> PICK j \in Ids, before \in Row, after \in Row :
          Allowed(e, j, before, after) /\ Replaced(e, j, before, after)
      BY <2>2 DEF Stored
    <3>1. i = j BY <1>1, NewContent
    <3> QED BY <3>1, <1>1 DEF Allowed
  <2>3. CASE Removed(e)
    <3>1. i = req[e].id BY <2>3, <1>1 DEF Removed, Gone
    <3> QED BY <3>1, <2>3 DEF Removed
  <2> QED BY <1>1, <2>1, <2>2, <2>3, EndingSteps
<1>2. Inv /\ [Next]_vars => [Step]_vars BY <1>1
<1> QED BY <1>2, SpecInv, PTL DEF Spec, NoLostUpdate

\* A locked day keeps its classes, and no row is born there.
THEOREM DayKept == Spec => LockedDayKept
<1> DEFINE Step ==
     /\ \A i \in Ids : rows[i] # Null /\ rows[i].locked =>
          \/ rows'[i] # Null /\ rows'[i].class = rows[i].class
          \/ \E is \in SUBSET Ids : DeleteSchedules(is, TRUE)
     /\ \A i \in Ids : rows[i] = Null /\ rows'[i] # Null =>
          ~LockedDay(rows'[i].venue, rows)
<1>1. ASSUME Inv, [Next]_vars PROVE [Step]_vars
  <2>1. CASE UNCHANGED rows BY <2>1
  <2>2. CASE \E e \in Editors : Stored(e)
    <3> PICK e \in Editors, j \in Ids, before \in Row, after \in Row :
          Allowed(e, j, before, after) /\ Replaced(e, j, before, after)
      BY <2>2 DEF Stored
    <3>1. /\ rows'[j] \in Row /\ rows'[j].venue = after.venue /\ rows'[j].class = after.class
          /\ \A l \in Ids \ {j} : rows'[l] = rows[l]
      BY <1>1, NewContent
    <3>2. rows'[j] # Null BY <3>1, NullApart
    <3>3. /\ rows[j] # Null /\ rows[j].locked => after.class = rows[j].class
          /\ rows[j] = Null => ~LockedDay(after.venue, rows)
      BY DEF Allowed
    <3> QED BY <3>1, <3>2, <3>3
  <2>3. CASE \E e \in Editors : Removed(e) BY <2>3 DEF Removed, Gone
  <2>4. CASE \E v \in Venues, locked \in BOOLEAN : SetLock(v, locked)
    BY <1>1, <2>4, MarkedRows
  <2>5. CASE \E is \in SUBSET Ids, force \in BOOLEAN :
               Gone(is) /\ DeleteSchedules(is, force) /\ UNCHANGED req
    <3> PICK is \in SUBSET Ids, force \in BOOLEAN : Gone(is) /\ DeleteSchedules(is, force)
      BY <2>5
    <3>1. DeleteSchedules(is, TRUE) BY DEF DeleteSchedules
    <3> QED BY <3>1 DEF Gone
  <2> QED BY <1>1, <2>1, <2>2, <2>3, <2>4, <2>5, NextSteps DEF vars, Quiet
<1>2. Inv /\ [Next]_vars => [Step]_vars BY <1>1
<1> QED BY <1>2, SpecInv, PTL DEF Spec, LockedDayKept
=============================================================================
