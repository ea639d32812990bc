----------------------------- MODULE Scheduling -----------------------------
(***************************************************************************)
(* The schedule rows of one date and one time slot, and everything that    *)
(* writes them: the admin routes (assign, update, patch, create, delete,   *)
(* import, lock, unlock) and the MCP tools. Every writer takes the         *)
(* "schedule-writes" advisory lock for its transaction, so a transaction   *)
(* is one step; what a handler reads BEFORE its transaction, and what the  *)
(* editor loaded or was shown, is older and is kept in the request.        *)
(*                                                                         *)
(* A confirmation token is a signed digest of a context; here it is the    *)
(* context itself, and it verifies when it equals the one computed under   *)
(* the lock. Names are identities after normalisation. Notes, teaching     *)
(* flags, the vacant mark and empty class names are left out.              *)
(***************************************************************************)
EXTENDS Naturals, FiniteSets

CONSTANTS
  Ids,          \* row ids; an id is never used twice
  Venues, Classes,
  Coaches,      \* real coaches
  Unstaffed,    \* the placeholder name "000": no conflict, no duplicate
  Null,         \* no value
  Undefined,    \* a field the request does not carry; an expired token
  Editors,      \* people with a page open, and MCP callers
  Inputs,       \* what each of them may ask for: kinds with their fields
  Existing,     \* the rows there at the start
  MaxWrites     \* bound: the versions of the rows there are, together

Names == Coaches \cup {Unstaffed, Null}
Row == [venue : Venues, class : Classes, c1 : Names, c2 : Names,
        count : {1, 2}, locked : BOOLEAN, version : Nat]
Patch == [venue : Venues \cup {Undefined}, class : Classes \cup {Undefined},
          c1 : Names \cup {Undefined}, c2 : Names \cup {Undefined},
          count : {1, 2, Undefined}]
Changes == {"assign", "update", "patch", "mcp"}
Kinds == Changes \cup {"create", "import", "merge", "delete"}
Context == [kind : Kinds, id : Ids \cup {Null}, version : Nat, patch : Patch,
            others : [Ids -> Row \cup {Null}], away : SUBSET Coaches]
NoPatch == [venue |-> Undefined, class |-> Undefined, c1 |-> Undefined,
            c2 |-> Undefined, count |-> Undefined]

ASSUME NamesDiffer ==
  /\ Null \notin Coaches \cup {Unstaffed, Undefined} \cup Ids \cup Row \cup Context
  /\ Undefined \notin Names \cup Venues \cup Classes \cup {1, 2} \cup Context
  /\ Unstaffed \notin Coaches
ASSUME InputsAssumption ==
  \A e \in Editors :
  /\ Inputs[e] \subseteq [kind : Kinds, fields : Patch]
  /\ \A x \in Inputs[e] : x.kind \in {"create", "import", "merge"} =>
       x.fields.venue # Undefined /\ x.fields.class # Undefined
ASSUME ExistingAssumption ==
  /\ Existing \in [Ids -> Row \cup {Null}]
  /\ \A i \in Ids : Existing[i] # Null =>
       /\ Existing[i].c2 # Null => Existing[i].c1 # Null
       /\ Existing[i].c1 = Existing[i].c2 => Existing[i].c1 \notin Coaches

VARIABLES
  rows,          \* the schedules table
  born,          \* ids used so far
  away,          \* coaches who filled in the week, but not this slot
  req,           \* each editor's request
  acknowledged   \* ghost: the present conflicts that an editor was shown and confirmed
vars == <<rows, born, away, req, acknowledged>>

Request == [st : {"idle", "sent", "read", "asking"},
            kind : Kinds \cup {Null}, id : Ids \cup {Null},
            base : Row \cup {Null},      \* the row as the page loaded it
            fields : Patch,              \* what the editor asked for
            patch : Patch,               \* what the route made of it
            token : Context \cup {Null, Undefined}]
Idle == [st |-> "idle", kind |-> Null, id |-> Null, base |-> Null,
         fields |-> NoPatch, patch |-> NoPatch, token |-> Null]

-----------------------------------------------------------------------------
(* The policies. *)
\* Mutant: an omitted field is written too.
GivenOrNot(value, old) == value
Given(value, old) == IF value = Undefined THEN old ELSE value
Applied(row, p) ==
  [row EXCEPT !.venue = Given(p.venue, @), !.class = Given(p.class, @),
              !.c1 = Given(p.c1, @), !.c2 = Given(p.c2, @),
              !.count = Given(p.count, @)]

\* preparePatch: a lone second coach becomes the first.
\* Mutant: left to the callers, each of which does it for itself.
LeftToCallers(before, p) == p
Promoted(before, p) ==
  LET next == Applied(before, p)
  IN IF next.c1 = Null /\ next.c2 # Null
     THEN [p EXCEPT !.c1 = next.c2, !.c2 = Null] ELSE p

SameCoach(row) == row.c1 \in Coaches /\ row.c1 = row.c2
Has(row, c) == row # Null /\ c \in {row.c1, row.c2}

\* newlyPlacedCoaches: in a row that moves, all of its coaches.
\* Mutant: a move places nobody.
PlacedByNameOnly(before, after) ==
  {c \in Coaches : Has(after, c) /\ ~Has(before, c)}
Placed(before, after) ==
  {c \in Coaches : Has(after, c) /\ (Has(before, c) => before.venue # after.venue)}

\* conflictRows: rows of other venues in this slot with one of the coaches.
ConflictRows(i, row, coaches, rs) ==
  {j \in Ids \ {i} : rs[j] # Null /\ rs[j].venue # row.venue
                     /\ \E c \in coaches : Has(rs[j], c)}
Cell(v, k, rs) == {j \in Ids : rs[j] # Null /\ rs[j].venue = v /\ rs[j].class = k}
LockedDay(v, rs) == \E j \in Ids : rs[j] # Null /\ rs[j].venue = v /\ rs[j].locked

\* confirmationContext: the rows in conflict as they are, who is away, the change.
ConfirmationContext(kind, i, before, p, after, coaches) ==
  [kind |-> kind, id |-> i, version |-> before.version, patch |-> p,
   others |-> [j \in Ids |-> IF j \in ConflictRows(i, after, coaches, rows)
                             THEN rows[j] ELSE Null],
   away |-> coaches \cap away]
Warned(i, after, coaches) ==
  ConflictRows(i, after, coaches, rows) # {} \/ coaches \cap away # {}

-----------------------------------------------------------------------------
(* What has been shown, for the properties. *)
\* A coach in two venues at once.
Conflicts(rs) ==
  {t \in Ids \X Ids \X Coaches :
     /\ t[1] # t[2] /\ Has(rs[t[1]], t[3]) /\ Has(rs[t[2]], t[3])
     /\ rs[t[1]].venue # rs[t[2]].venue}
\* The conflicts of row i, as it is to be, that a token's rows show.
ShownConflicts(i, after, coaches, token) ==
  IF token \in {Null, Undefined} THEN {}
  ELSE {t \in Ids \X Ids \X coaches :
          \E j \in ConflictRows(i, after, {t[3]}, token.others) :
            {t[1], t[2]} = {i, j}}
Writes(rs) == Cardinality({w \in Ids \X (1 .. MaxWrites + Cardinality(Ids)) :
                             rs[w[1]] # Null /\ w[2] <= rs[w[1]].version})
Table(rs, shown) ==
  /\ Writes(rs) <= MaxWrites
  /\ rows' = rs
  /\ acknowledged' = (acknowledged \cup shown) \cap Conflicts(rs)

-----------------------------------------------------------------------------
(* The requests. *)
Init ==
  /\ rows = Existing
  /\ born = {i \in Ids : Existing[i] # Null}
  /\ away = {}
  /\ req = [e \in Editors |-> Idle]
  /\ acknowledged = Conflicts(Existing)

Settle(e, r) == req' = [req EXCEPT ![e] = r]
Finish(e) == Settle(e, Idle) /\ UNCHANGED <<rows, born, away, acknowledged>>

\* An editor loads a row and, some time later, asks for a change of it.
Load(e) ==
  /\ req[e].st = "idle"
  /\ \E x \in Inputs[e] :
       \/ /\ x.kind \in {"create", "import", "merge"}
          /\ Settle(e, [Idle EXCEPT !.st = "sent", !.kind = x.kind, !.fields = x.fields])
       \/ /\ x.kind \in Changes \cup {"delete"}
          /\ \E i \in Ids :
               /\ rows[i] # Null
               /\ Settle(e, [Idle EXCEPT !.st = "sent", !.kind = x.kind, !.id = i,
                                         !.base = rows[i], !.fields = x.fields])
  /\ UNCHANGED <<rows, born, away, acknowledged>>

AtVersion(r) == rows[r.id] # Null /\ rows[r.id].version = r.base.version

\* PATCH: the candidate for promotion is read before count 1 empties slot 2.
PatchFields(existing, p) ==
  LET second == IF p.c2 # Undefined THEN p.c2
                ELSE IF p.count = 1 THEN Null ELSE Undefined
      candidate == Given(p.c2, existing.c2)
  IN IF Given(p.c1, existing.c1) = Null /\ candidate # Null
     THEN [p EXCEPT !.c1 = candidate, !.c2 = Null] ELSE [p EXCEPT !.c2 = second]

\* What the route does before its transaction, on a row it reads then.
ReadFirst(e) ==
  /\ req[e].st = "sent" /\ req[e].kind \in {"assign", "patch", "delete"}
  /\ LET r == req[e]
         existing == rows[r.id]
         refused == \/ ~AtVersion(r)
                    \/ (r.kind = "delete" /\ existing.locked)
                    \/ /\ r.kind = "assign" /\ existing.count < 2
                       /\ r.fields.c2 \notin {Undefined, Null}
     IN Settle(e, IF refused THEN Idle
                  ELSE [r EXCEPT !.st = "read",
                          !.patch = IF r.kind = "patch" THEN PatchFields(existing, r.fields)
                                    ELSE r.fields])
  /\ UNCHANGED <<rows, born, away, acknowledged>>

\* The MCP tool does the same inside the transaction, and derives the count.
McpFields(existing, p) ==
  LET first == Given(p.c1, existing.c1)
      second == Given(p.c2, existing.c2)
      count == IF second # Null THEN 2 ELSE Given(p.count, existing.count)
      q == IF second # Null THEN [p EXCEPT !.count = 2] ELSE p
  IN IF count = 1 THEN [q EXCEPT !.c1 = first, !.c2 = Null]
     ELSE IF first = Null /\ second # Null
          THEN [q EXCEPT !.c1 = second, !.c2 = Null] ELSE q

\* CONFIRM_REQUIRED: the page asks once; an MCP caller may come again with the
\* new token, and the import dialog shows the new preview.
Ask(e, context) ==
  /\ Settle(e, IF req[e].token = Null \/ req[e].kind \in {"mcp", "import", "merge"}
               THEN [req[e] EXCEPT !.st = "asking", !.token = context] ELSE Idle)
  /\ UNCHANGED <<rows, born, away, acknowledged>>

\* The write of row i; the unique index refuses a second row of the class in the cell.
Write(e, i, before, after, coaches) ==
  IF Cell(after.venue, after.class, rows) \ {i} # {} THEN Finish(e)
  ELSE /\ Table([rows EXCEPT ![i] = [after EXCEPT !.version = before.version + 1]],
                ShownConflicts(i, after, coaches, req[e].token))
       /\ born' = born \cup {i}
       /\ Settle(e, Idle)
       /\ UNCHANGED away

\* The end of a use case: confirmed as it must be, written, or asked about.
\* Mutant: any token will do, not only the one for these warnings.
AnyToken(e, ids, before, after, coaches, context, warned) ==
  IF warned /\ req[e].token = Null THEN Ask(e, context)
  ELSE \E i \in ids : Write(e, i, before, after, coaches)
Decide(e, ids, before, after, coaches, context, warned) ==
  IF (warned \/ req[e].token # Null) /\ req[e].token # context THEN Ask(e, context)
  ELSE \E i \in ids : Write(e, i, before, after, coaches)

RenamesLocked(before, p) ==
  before.locked /\ p.class \notin {Undefined, before.class}

\* mutate: update and assign.
Mutate(e) ==
  LET r == req[e]
      i == r.id
      before == rows[i]
      requested == CASE r.kind = "mcp" -> McpFields(before, r.fields)
                     [] r.kind = "update" -> r.fields
                     [] OTHER -> r.patch
      p == Promoted(before, requested)
      after == Applied(before, p)
      coaches == Placed(before, after)
  IN /\ r.kind \in Changes
     /\ r.st = IF r.kind \in {"update", "mcp"} THEN "sent" ELSE "read"
     /\ IF ~AtVersion(r) THEN Finish(e)
        ELSE IF SameCoach(after) \/ RenamesLocked(before, p) THEN Finish(e)
        ELSE Decide(e, {i}, before, after, coaches,
                    ConfirmationContext(r.kind, i, before, p, after, coaches),
                    Warned(i, after, coaches))

\* createSchedule. A new row starts from these values.
NewRow(v, k) == [venue |-> v, class |-> k, c1 |-> Null, c2 |-> Null,
                 count |-> 1, locked |-> FALSE, version |-> 0]
CreateSchedule(e) ==
  LET r == req[e]
      before == NewRow(r.fields.venue, r.fields.class)
      p == Promoted(before, r.fields)
      after == Applied(before, p)
      coaches == Placed(before, after)
  IN /\ r.kind = "create" /\ r.st = "sent"
     /\ IF LockedDay(after.venue, rows) \/ SameCoach(after) THEN Finish(e)
        ELSE Decide(e, Ids \ born, before, after, coaches,
                    ConfirmationContext(r.kind, Null, before, p, after, coaches),
                    Warned(Null, after, coaches))

\* planImport for one line: its row and what it makes of the fields.
Matching(p) == Cell(p.venue, p.class, rows)
ImportFields(before, p) ==
  LET q == IF p.c2 \notin {Undefined, Null} /\ p.count = Undefined /\ before.count < 2
           THEN [p EXCEPT !.count = 2]
           ELSE IF p.count = 1 /\ p.c2 = Undefined THEN [p EXCEPT !.c2 = Null] ELSE p
  IN Promoted(before, q)
ImportError(p, after) ==
  \/ LockedDay(after.venue, rows)
  \/ SameCoach(after)
  \/ (after.c2 # Null /\ after.count < 2)
  \/ (p.c2 \notin {Undefined, Null} /\ p.count = 1)

\* Preview and commit (insert_only, or merge: update_matching); the token is
\* bound to the whole snapshot, and a commit without it is answered by a preview.
Import(e) ==
  LET r == req[e] IN
  /\ r.kind \in {"import", "merge"} /\ r.st = "sent"
  /\ \E m \in (IF Matching(r.fields) = {} THEN {Null} ELSE Matching(r.fields)) :
       LET before == IF m = Null THEN NewRow(r.fields.venue, r.fields.class) ELSE rows[m]
           p == ImportFields(before, r.fields)
           after == Applied(before, p)
           coaches == Placed(before, after)
           context == [kind |-> r.kind, id |-> m, version |-> before.version,
                       patch |-> p, others |-> rows, away |-> coaches \cap away]
       IN IF ImportError(r.fields, after) \/ (m # Null /\ r.kind = "import")
          THEN Finish(e)
          ELSE Decide(e, IF m = Null THEN Ids \ born ELSE {m}, before, after,
                      coaches, context, TRUE)

\* The DELETE route's transaction: only the version is checked again.
\* Mutant: the row is deleted whatever its version.
DeleteUnchecked(e) ==
  /\ req[e].kind = "delete" /\ req[e].st = "read"
  /\ Table([rows EXCEPT ![req[e].id] = Null], {})
  /\ Settle(e, Idle) /\ UNCHANGED <<born, away>>
DeleteSchedule(e) ==
  /\ req[e].kind = "delete" /\ req[e].st = "read"
  /\ IF AtVersion(req[e]) THEN Table([rows EXCEPT ![req[e].id] = Null], {})
     ELSE UNCHANGED <<rows, acknowledged>>
  /\ Settle(e, Idle) /\ UNCHANGED <<born, away>>

\* The editor answers the dialog; a token lives for five minutes.
Confirm(e) ==
  /\ req[e].st = "asking" /\ Settle(e, [req[e] EXCEPT !.st = "sent"])
  /\ UNCHANGED <<rows, born, away, acknowledged>>
Cancel(e) == req[e].st = "asking" /\ Finish(e)
Expire(e) ==
  /\ req[e].st = "sent" /\ req[e].token \notin {Null, Undefined}
  /\ Settle(e, [req[e] EXCEPT !.token = Undefined])
  /\ UNCHANGED <<rows, born, away, acknowledged>>

-----------------------------------------------------------------------------
(* Writers without a version, and the coaches. *)
\* lockSchedules and unlockSchedules write every row of the venue; an unlock only
\* when one of them is locked.
\* Mutant: a lock leaves the versions as they are.
MarkedOnly(v, locked) ==
  [j \in Ids |-> IF rows[j] # Null /\ rows[j].venue = v
                 THEN [rows[j] EXCEPT !.locked = locked] ELSE rows[j]]
Marked(v, locked) ==
  [j \in Ids |-> IF rows[j] # Null /\ rows[j].venue = v
                 THEN [rows[j] EXCEPT !.locked = locked, !.version = @ + 1]
                 ELSE rows[j]]
SetLock(v, locked) ==
  /\ locked \/ LockedDay(v, rows)
  /\ Table(Marked(v, locked), {})
  /\ UNCHANGED <<born, away, req>>

\* The MCP bulk delete: no version; locked rows only if told so.
DeleteSchedules(is, forceLocked) ==
  /\ is # {} /\ \A i \in is : rows[i] # Null
  /\ forceLocked \/ \A i \in is : ~rows[i].locked
  /\ Table([i \in Ids |-> IF i \in is THEN Null ELSE rows[i]], {})
  /\ UNCHANGED <<born, away, req>>

\* upsertCoachAvailability, by the coach or by MCP: a transaction under the same lock,
\* so no write of a schedule sees half of it or goes on while it is made.
SetAvailability(c) ==
  /\ away' = IF c \in away THEN away \ {c} ELSE away \cup {c}
  /\ UNCHANGED <<rows, born, req, acknowledged>>

Edit(e) ==
  \/ Load(e) \/ ReadFirst(e) \/ Mutate(e) \/ CreateSchedule(e) \/ Import(e)
  \/ DeleteSchedule(e) \/ Confirm(e) \/ Cancel(e) \/ Expire(e)
Next ==
  \/ \E e \in Editors : Edit(e)
  \/ \E v \in Venues, locked \in BOOLEAN : SetLock(v, locked)
  \/ \E is \in SUBSET Ids, force \in BOOLEAN : DeleteSchedules(is, force)
  \/ \E c \in Coaches : SetAvailability(c)
Spec == Init /\ [][Next]_vars

-----------------------------------------------------------------------------
(* Properties. *)
TypeOK ==
  /\ rows \in [Ids -> Row \cup {Null}]
  /\ born \subseteq Ids
  /\ away \subseteq Coaches
  /\ req \in [Editors -> Request]
  /\ acknowledged \subseteq Ids \X Ids \X Coaches

\* The second slot is never filled while the first is empty, and never with the
\* first's coach: the routes compute a promotion from a row they read earlier
\* (PATCH), from the locked row (MCP) or not at all (assign-coach).
SlotsInOrder ==
  \A i \in Ids : rows[i] # Null =>
    /\ rows[i].c2 # Null => rows[i].c1 # Null
    /\ ~SameCoach(rows[i])

\* No coach stands in two venues of one slot unless an editor was shown that very
\* pair of rows and confirmed it: not through a move, a stale dialog, an import
\* or two editors at once.
ConflictsShown == Conflicts(rows) \subseteq acknowledged

Ends(e) == req[e].st # "idle" /\ req'[e].st = "idle"
Moved(i) == rows[i] # Null => rows[i].venue # rows'[i].venue

\* A coach is newly placed outside the hours they filled in only by an editor
\* whose dialog said so: hours may change between the dialog and the confirmed
\* request, but not while that is decided, because they are written under the lock.
AwayShown ==
  [][\A e \in Editors, i \in Ids, c \in Coaches :
       Ends(e) /\ c \in away /\ Has(rows'[i], c) /\ (Has(rows[i], c) => Moved(i))
         => req[e].token \notin {Null, Undefined} /\ c \in req[e].token.away]_vars

\* An editor's change or deletion only ever replaces the row the editor had
\* loaded, or the snapshot the import preview was made of: whatever another
\* editor, an import or a lock did in between.
NoLostUpdate ==
  [][\A e \in Editors, i \in Ids :
       Ends(e) /\ rows'[i] # rows[i] /\ rows[i] # Null
         => rows[i] = IF req[e].kind \in {"import", "merge"}
                      THEN req[e].token.others[i] ELSE req[e].base]_vars

\* Under the lock of a day nothing is deleted, renamed or added: a row born there
\* means the day was not locked. The exceptions are the MCP tools' own: a forced
\* deletion, and an update that moves an existing row in. (An update may also move a
\* locked row out, class and lock with it.)
LockedDayKept ==
  [][/\ \A i \in Ids : rows[i] # Null /\ rows[i].locked =>
          \/ rows'[i] # Null /\ rows'[i].class = rows[i].class
          \/ \E is \in SUBSET Ids : DeleteSchedules(is, TRUE)
     /\ \A i \in Ids : rows[i] = Null /\ rows'[i] # Null =>
          ~LockedDay(rows'[i].venue, rows)]_vars
=============================================================================
