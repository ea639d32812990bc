---------------------------- MODULE CoachImport ----------------------------
(***************************************************************************)
(* The import of coaches and venues from Ragic beside everything else that *)
(* writes accounts: registration and LINE binding by coaches, and the      *)
(* administrator. It comes in two forms. The job of the external wake      *)
(* keeps what Ragic answered and applies one record per transaction,       *)
(* together with its checkpoint. The full synchronisation of an instance   *)
(* reads all accounts once and writes one statement at a time, under a     *)
(* lock that it does without when the lock cannot be asked for.            *)
(*                                                                         *)
(* Every answer of Ragic is any of Sheets, and a synchronisation takes its *)
(* records in any order: the order is not ours. An employee number is      *)
(* given or not; phone numbers, maps and colours are left out.             *)
(***************************************************************************)
EXTENDS Naturals, Sequences, FiniteSets

CONSTANTS
  Ids,         \* account ids, in the order of creation; bound: accounts there can be
  People,      \* names of coaches; an account's name is one of them
  Places,      \* names of venues
  Lines,       \* LINE user ids
  Instances,   \* of the program
  Sheets,      \* what Ragic may answer
  AtStart,     \* the accounts there are at first
  JobTries,    \* attempts of the job
  MaxChanges,  \* bound: changes by coaches and administrators, and runs without the lock
  Null

Statuses == {"approved", "pending", "rejected"}
Account == [name : People, line : Lines \cup {Null}, number : BOOLEAN, status : Statuses]
Accounts == [Ids -> Account \cup {Null}]
Personal == [line : Lines \cup {Null}, number : BOOLEAN]
Coach == [name : People, teaches : BOOLEAN]
Sheet == [departments : Seq(Places), coaches : Seq(Coach), staff : [People -> Seq(Personal)]]

ASSUME ImportAssumption ==
  /\ Ids \subseteq Nat /\ IsFiniteSet(Ids) /\ IsFiniteSet(People)
  /\ Null \notin Account \cup Lines \cup Ids \cup Instances \cup {"wake"}
  /\ "wake" \notin Instances
  /\ Sheets \subseteq Sheet /\ AtStart \in Accounts
  /\ \A a, b \in Ids : AtStart[a] # Null /\ AtStart[b] # Null /\ a # b
       /\ AtStart[a].line = AtStart[b].line => AtStart[a].line = Null
  /\ JobTries \in Nat \ {0} /\ MaxChanges \in Nat

VARIABLES
  accounts,
  venues,     \* name -> how many venues are called so
  task,       \* the wake's job with its checkpoint
  unit,       \* the transaction of the job that is under way
  sync,       \* instance -> its synchronisation
  holder,     \* who has the lock
  form,       \* a new venue, account or LINE binding that has been checked, not written
  wakeMode,   \* whether the wake imports, or the instances
  changes,
  did,        \* ghost: what the job has done
  bound,      \* ghost: importer -> bindings made since it read the accounts
  excused     \* ghost: names that people gave, all of them after a run without the lock
importVars == <<accounts, venues, task, unit, sync, holder, form, wakeMode, changes,
                did, bound, excused>>
people == <<form, changes, excused>>

Importers == Instances \cup {"wake"}
Phases == {"fetch_departments", "fetch_coaches", "fetch_employees",
           "apply_departments", "apply_coaches", "complete"}
Counters == {"venue", "considered", "skipped", "ambiguous", "added", "line", "number"}
NoAccounts == [a \in Ids |-> Null]
NoStaff == [n \in People |-> <<>>]
NewTask == [state |-> "ready", phase |-> "fetch_departments", cursor |-> 0, left |-> JobTries,
            departments |-> <<>>, coaches |-> <<>>, staff |-> NoStaff,
            counts |-> [c \in Counters |-> 0]]
NoUnit == [st |-> "none", seen |-> NoAccounts, place |-> FALSE]
NoSync == [st |-> "off", locked |-> FALSE, venues |-> {}, names |-> {}, name |-> Null,
           staff |-> NoStaff, seen |-> NoAccounts, places |-> {}]
NoForm == [st |-> "none", id |-> Null, name |-> Null, line |-> Null]

-----------------------------------------------------------------------------
(* Accounts. *)
Owners(l, as) == {a \in Ids : as[a] # Null /\ l # Null /\ as[a].line = l}
Named(n, as) == {a \in Ids : as[a] # Null /\ as[a].name = n}
\* coach_users_line_id_key.
Taken(a, l) == Owners(l, accounts) \ {a} # {}
NextId == {a \in Ids : accounts[a] = Null /\ \A b \in Ids : b < a => accounts[b] # Null}

\* compareCoachPriority: by status, then with a LINE account, then the oldest.
Rank == [s \in Statuses |-> IF s = "approved" THEN 0 ELSE IF s = "pending" THEN 1 ELSE 2]
Standing(x) == 2 * Rank[x.status] + (IF x.line = Null THEN 1 ELSE 0)
Ahead(a, b, as) ==
  \/ Standing(as[a]) < Standing(as[b])
  \/ Standing(as[a]) = Standing(as[b]) /\ a < b
\* indexCoachUsersByName: one account stands for a name.
Canonical(n, as) == CHOOSE a \in Named(n, as) : \A b \in Named(n, as) \ {a} : Ahead(a, b, as)

Imported(n, p, owners) ==
  [name |-> n, line |-> IF owners = {} THEN p.line ELSE Null, number |-> p.number,
   status |-> "approved"]

\* What is filled in: a LINE account where there is none, unless another has it.
\* Mutant: the one of Ragic is preferred.
Preferred(a, l, as) == l # Null /\ as[a].line # l /\ Owners(l, as) \ {a} = {}
Fills(a, l, as) == l # Null /\ as[a].line = Null /\ Owners(l, as) \ {a} = {}

\* A binding made now, by x or a person, is missed by the importers that have read the
\* accounts and are still to write.
Looking(x) == IF x = "wake" THEN unit.st = "read" ELSE sync[x].st \in {"line", "number"}
Bind(a, x) == bound' = [y \in Importers |->
  IF y # x /\ Looking(y) THEN bound[y] \cup {a} ELSE IF y = "wake" THEN {} ELSE bound[y]]
Look(x) == bound' = [bound EXCEPT ![x] = {}]

ImportInit ==
  /\ accounts = AtStart /\ venues = [v \in Places |-> 0]
  /\ task = NewTask /\ unit = NoUnit
  /\ sync = [i \in Instances |-> NoSync] /\ holder = Null
  /\ form = NoForm /\ wakeMode \in BOOLEAN /\ changes = 0
  /\ did = {} /\ bound = [x \in Importers |-> {}]
  /\ excused = {n \in People : Cardinality(Named(n, AtStart)) > 1}

Change == changes < MaxChanges /\ changes' = changes + 1

-----------------------------------------------------------------------------
(* The job of the wake: advanceRagicCheckpoint, one record at a time. *)
JobReady == wakeMode /\ task.state = "ready" /\ unit = NoUnit

\* One source is fetched and kept.
FetchSource ==
  /\ JobReady
  /\ \E s \in Sheets :
       \/ /\ task.phase = "fetch_departments"
          /\ task' = [task EXCEPT !.phase = "fetch_coaches", !.departments = s.departments]
       \/ /\ task.phase = "fetch_coaches"
          /\ task' = [task EXCEPT !.phase = "fetch_employees", !.coaches = s.coaches]
       \/ /\ task.phase = "fetch_employees"
          /\ task' = [task EXCEPT !.phase = "apply_departments", !.staff = s.staff]
  /\ UNCHANGED <<accounts, venues, unit, sync, holder, people, wakeMode, did, bound>>

RecordsOf(t) == IF t.phase = "apply_departments" THEN t.departments ELSE t.coaches
Records == RecordsOf(task)
Applying == task.phase \in {"apply_departments", "apply_coaches"}
NextPhase(t) ==
  IF t.cursor < Len(RecordsOf(t)) THEN t
  ELSE IF t.phase = "apply_departments"
  THEN [t EXCEPT !.phase = "apply_coaches", !.cursor = 0]
  ELSE [t EXCEPT !.phase = "complete", !.cursor = 0, !.state = "done"]

\* A step without a record ends its phase.
PassPhase ==
  /\ JobReady /\ Applying /\ task.cursor = Len(Records) /\ task' = NextPhase(task)
  /\ UNCHANGED <<accounts, venues, unit, sync, holder, people, wakeMode, did, bound>>

\* The transaction of a record: what it reads ...
ReadForRecord ==
  /\ JobReady /\ Applying /\ task.cursor < Len(Records)
  /\ unit' = [st |-> "read", seen |-> accounts,
              place |-> task.phase = "apply_departments" /\ venues[Records[task.cursor + 1]] > 0]
  /\ Look("wake")
  /\ UNCHANGED <<accounts, venues, task, sync, holder, people, wakeMode, did>>

\* ... and what it writes, with the checkpoint.
Stepped(t, counted) ==
  NextPhase([t EXCEPT !.cursor = @ + 1,
               !.counts = [c \in Counters |-> @[c] + (IF c \in counted THEN 1 ELSE 0)]])
\* Mutant: the checkpoint is a transaction of its own, and may be lost.
Apart(counted) == task' \in {task, Stepped(task, counted)}
Checkpoint(counted) == task' = Stepped(task, counted)

ApplyDepartment ==
  /\ unit.st = "read" /\ task.phase = "apply_departments"
  /\ LET v == Records[task.cursor + 1] IN
       /\ venues' = IF unit.place THEN venues ELSE [venues EXCEPT ![v] = @ + 1]
       /\ Checkpoint(IF unit.place THEN {} ELSE {"venue"})
       /\ did' = IF unit.place THEN did ELSE did \cup {<<"venue", task.cursor + 1, v>>}
  /\ unit' = NoUnit /\ Look("wake")
  /\ UNCHANGED <<accounts, sync, holder, people, wakeMode>>

Same(n) == {k \in 1 .. Len(task.coaches) : task.coaches[k].name = n}
PersonalOf(s) == IF s = <<>> THEN [line |-> Null, number |-> FALSE] ELSE s[Len(s)]
Ambiguous(n) ==
  Cardinality(Same(n)) # 1 \/ Len(task.staff[n]) > 1 \/ Cardinality(Named(n, unit.seen)) > 1

\* A record that is no coach's, or whose name says too little.
PassCoach ==
  /\ unit.st = "read" /\ task.phase = "apply_coaches"
  /\ LET r == task.coaches[task.cursor + 1] IN
       \/ ~r.teaches /\ Checkpoint({"skipped"})
       \/ r.teaches /\ Ambiguous(r.name) /\ Checkpoint({"considered", "ambiguous"})
  /\ unit' = NoUnit /\ Look("wake")
  /\ UNCHANGED <<accounts, venues, sync, holder, people, wakeMode, did>>

Done(what, a) == {<<w, task.cursor + 1, a>> : w \in what}
CreateCoach ==
  /\ unit.st = "read" /\ task.phase = "apply_coaches"
  /\ LET r == task.coaches[task.cursor + 1]
         p == PersonalOf(task.staff[r.name])
         new == Imported(r.name, p, Owners(p.line, unit.seen))
         what == {"added"} \cup (IF new.line # Null THEN {"line"} ELSE {})
                   \cup (IF new.number THEN {"number"} ELSE {})
     IN /\ r.teaches /\ ~Ambiguous(r.name) /\ Named(r.name, unit.seen) = {}
        /\ \E a \in NextId :
             /\ ~Taken(a, new.line) /\ accounts' = [accounts EXCEPT ![a] = new]
             /\ did' = did \cup Done(what, a)
             /\ Bind(a, "wake")
        /\ Checkpoint({"considered"} \cup what)
  /\ unit' = NoUnit
  /\ UNCHANGED <<venues, sync, holder, people, wakeMode>>

\* Only what the account lacks is filled in; a LINE account stays with its owner.
FillCoach ==
  /\ unit.st = "read" /\ task.phase = "apply_coaches"
  /\ LET r == task.coaches[task.cursor + 1]
         p == PersonalOf(task.staff[r.name])
     IN /\ r.teaches /\ ~Ambiguous(r.name)
        /\ \E a \in Named(r.name, unit.seen) :
             LET old == unit.seen[a]
                 line == Fills(a, p.line, unit.seen)
                 number == p.number /\ ~old.number
                 what == (IF line THEN {"line"} ELSE {}) \cup (IF number THEN {"number"} ELSE {})
             IN /\ ~(line /\ Taken(a, p.line))
                /\ accounts' = [accounts EXCEPT ![a].line = IF line THEN p.line ELSE @,
                                                ![a].number = @ \/ number]
                /\ did' = did \cup Done(what, a)
                /\ IF line THEN Bind(a, "wake") ELSE Look("wake")
                /\ Checkpoint({"considered"} \cup what)
  /\ unit' = NoUnit
  /\ UNCHANGED <<venues, sync, holder, people, wakeMode>>

\* Mutant: the last attempt is tried again too.
TriedOn(t) == [t EXCEPT !.left = @ - 1]
Tried(t) == [t EXCEPT !.left = @ - 1, !.state = IF t.left > 1 THEN "ready" ELSE "failed"]

\* The step throws, as it does on a LINE account taken by now, or its wake is gone: its
\* transaction is undone.
LoseUnit ==
  /\ wakeMode /\ task.state = "ready" /\ task.phase # "complete"
  /\ task' = Tried(task) /\ unit' = NoUnit /\ Look("wake")
  /\ UNCHANGED <<accounts, venues, sync, holder, people, wakeMode, did>>

\* The next day has a job of its own.
NextDay ==
  /\ wakeMode /\ task.state \in {"done", "failed"} /\ task' = NewTask /\ did' = {}
  /\ UNCHANGED <<accounts, venues, unit, sync, holder, people, wakeMode, bound>>

Job == FetchSource \/ PassPhase \/ ReadForRecord \/ ApplyDepartment \/ PassCoach
         \/ CreateCoach \/ FillCoach \/ LoseUnit \/ NextDay

-----------------------------------------------------------------------------
(* The full synchronisation: syncRagicAll. *)
\* The lock is granted, or cannot be asked for. (When another instance has it, nothing
\* happens.)
\* Mutant: it is asked for, and not looked at.
Obtained(i) == holder' = i /\ UNCHANGED <<excused, changes>>
Lock(i) == holder = Null /\ holder' = i /\ UNCHANGED <<excused, changes>>
Unlocked == Change /\ excused' = excused \cup People \cup Places /\ UNCHANGED holder
Listed(s) == {s[k] : k \in 1 .. Len(s)}
SyncStart(i) ==
  /\ ~wakeMode /\ sync[i] = NoSync
  /\ \E locked \in BOOLEAN, s \in Sheets :
       /\ IF locked THEN Lock(i) ELSE Unlocked
       /\ sync' = [sync EXCEPT ![i] = [NoSync EXCEPT !.st = "venues", !.locked = locked,
                                         !.venues = Listed(s.departments),
                                         !.places = {v \in Places : venues[v] > 0}]]
  /\ UNCHANGED <<accounts, venues, task, unit, form, wakeMode, did, bound>>

SyncVenue(i, v) ==
  /\ sync[i].st = "venues" /\ v \in sync[i].venues
  /\ venues' = IF v \in sync[i].places THEN venues ELSE [venues EXCEPT ![v] = @ + 1]
  /\ sync' = [sync EXCEPT ![i].venues = @ \ {v}]
  /\ UNCHANGED <<accounts, task, unit, holder, people, wakeMode, did, bound>>

\* splitDuplicateNames, among the coaches of the answer.
Unique(cs) ==
  {n \in People : Cardinality({k \in 1 .. Len(cs) : cs[k].teaches /\ cs[k].name = n}) = 1}

\* The two answers, then all accounts.
SyncRead(i) ==
  /\ sync[i].st = "venues" /\ sync[i].venues = {}
  /\ \E s, t \in Sheets :
       sync' = [sync EXCEPT ![i].st = "line", ![i].places = {}, ![i].names = Unique(s.coaches),
                            ![i].staff = t.staff, ![i].seen = accounts]
  /\ Look(i)
  /\ UNCHANGED <<accounts, venues, task, unit, holder, people, wakeMode, did>>

Facts(i, n) == PersonalOf(sync[i].staff[n])
Turn(i, n) == sync[i].st = "line" /\ n \in sync[i].names

\* No account had the name. A statement that fails, as it does on a conflict, is
\* reported, and the next one follows.
SyncCreate(i, n) ==
  /\ Turn(i, n) /\ Named(n, sync[i].seen) = {}
  /\ \/ sync' = [sync EXCEPT ![i].names = @ \ {n}] /\ UNCHANGED <<accounts, bound>>
     \/ LET new == Imported(n, Facts(i, n), Owners(Facts(i, n).line, sync[i].seen)) IN
        \E a \in NextId :
          /\ ~Taken(a, new.line) /\ accounts' = [accounts EXCEPT ![a] = new] /\ Bind(a, i)
          /\ sync' = [sync EXCEPT ![i].names = @ \ {n}, ![i].seen[a] = new]
  /\ UNCHANGED <<venues, task, unit, holder, people, wakeMode, did>>

\* The LINE account, if there is none and nobody was seen with it ...
SyncLine(i, n) ==
  /\ Turn(i, n) /\ Named(n, sync[i].seen) # {}
  /\ \/ sync' = [sync EXCEPT ![i].st = "number", ![i].name = n]
        /\ UNCHANGED <<accounts, bound>>
     \/ LET a == Canonical(n, sync[i].seen)  l == Facts(i, n).line IN
        /\ Fills(a, l, sync[i].seen) /\ ~Taken(a, l)
        /\ accounts' = [accounts EXCEPT ![a].line = l] /\ Bind(a, i)
        /\ sync' = [sync EXCEPT ![i].st = "number", ![i].name = n, ![i].seen[a].line = l]
  /\ UNCHANGED <<venues, task, unit, holder, people, wakeMode, did>>

\* ... then the employee number, by the account as it was read.
SyncNumber(i) ==
  /\ sync[i].st = "number"
  /\ LET n == sync[i].name
         a == Canonical(n, sync[i].seen)
         given == Facts(i, n).number /\ ~sync[i].seen[a].number
     IN /\ accounts' \in {accounts, [accounts EXCEPT ![a].number = @ \/ given]}
        /\ sync' = [sync EXCEPT ![i].st = "line", ![i].names = @ \ {n}, ![i].name = Null]
  /\ UNCHANGED <<venues, task, unit, holder, people, wakeMode, did, bound>>

\* Everything is done, a fetch or a venue fails, or the instance stops.
SyncEnd(i) ==
  /\ sync[i] # NoSync
  /\ sync' = [sync EXCEPT ![i] = NoSync] /\ holder' = IF sync[i].locked THEN Null ELSE holder
  /\ Look(i)
  /\ UNCHANGED <<accounts, venues, task, unit, people, wakeMode, did>>

Sync(i) ==
  \/ SyncStart(i) \/ (\E v \in Places : SyncVenue(i, v)) \/ SyncRead(i)
  \/ \E n \in People : SyncCreate(i, n) \/ SyncLine(i, n)
  \/ SyncNumber(i) \/ SyncEnd(i)

-----------------------------------------------------------------------------
(* Coaches and administrators. *)
imports == <<task, unit, sync, holder, wakeMode, did>>
others == <<venues, imports>>

\* register, link-existing, link-by-name and the administrator's binding look for the
\* owner of the LINE account first.
Register(n, l) ==
  /\ form = NoForm /\ Change /\ Owners(l, accounts) = {}
  /\ form' = [st |-> "new", id |-> Null, name |-> n, line |-> l]
  /\ UNCHANGED <<accounts, others, bound, excused>>
Link(a, l) ==
  /\ form = NoForm /\ Change /\ accounts[a] # Null /\ Owners(l, accounts) \subseteq {a}
  /\ form' = [st |-> "link", id |-> a, name |-> Null, line |-> l]
  /\ UNCHANGED <<accounts, others, bound, excused>>

\* The unique index refuses a LINE account that another has by now.
WriteForm ==
  /\ form.st \in {"new", "link"} /\ form' = NoForm
  /\ IF Owners(form.line, accounts) \ {form.id} # {} THEN UNCHANGED <<accounts, bound, excused>>
     ELSE IF form.st = "link"
     THEN /\ accounts' = [accounts EXCEPT ![form.id].line = form.line]
          /\ Bind(form.id, Null) /\ UNCHANGED excused
     ELSE \E a \in NextId :
            /\ accounts' = [accounts EXCEPT ![a] =
                 [name |-> form.name, line |-> form.line, number |-> FALSE, status |-> "pending"]]
            /\ Bind(a, Null) /\ excused' = excused \cup {form.name}
  /\ UNCHANGED <<others, changes>>

Clear(a) ==
  /\ accounts[a] # Null /\ accounts[a].line # Null /\ Change
  /\ accounts' = [accounts EXCEPT ![a].line = Null]
  /\ UNCHANGED <<others, form, bound, excused>>
Rename(a, n) ==
  /\ accounts[a] # Null /\ accounts[a].name # n /\ Change
  /\ accounts' = [accounts EXCEPT ![a].name = n] /\ excused' = excused \cup {n}
  /\ UNCHANGED <<others, form, bound>>
SetStatus(a, s) ==
  /\ accounts[a] # Null /\ accounts[a].status # s /\ Change
  /\ accounts' = [accounts EXCEPT ![a].status = s]
  /\ UNCHANGED <<others, form, bound, excused>>

\* A new venue's name is looked for, then the venue is made.
OpenVenue(v) ==
  /\ form = NoForm /\ Change /\ venues[v] = 0
  /\ form' = [NoForm EXCEPT !.st = "venue", !.name = v]
  /\ UNCHANGED <<accounts, others, bound, excused>>
WriteVenue ==
  /\ form.st = "venue" /\ form' = NoForm
  /\ venues' = [venues EXCEPT ![form.name] = @ + 1] /\ excused' = excused \cup {form.name}
  /\ UNCHANGED <<accounts, imports, changes, bound>>
CloseVenue(v) ==
  /\ venues[v] > 0 /\ Change /\ venues' = [venues EXCEPT ![v] = @ - 1]
  /\ UNCHANGED <<accounts, imports, form, bound, excused>>

Person ==
  \/ \E n \in People, l \in Lines : Register(n, l)
  \/ \E a \in Ids, l \in Lines : Link(a, l)
  \/ WriteForm
  \/ \E a \in Ids : Clear(a)
  \/ \E a \in Ids, n \in People : Rename(a, n)
  \/ \E a \in Ids, s \in {"approved", "rejected"} : SetStatus(a, s)
  \/ \E v \in Places : OpenVenue(v) \/ CloseVenue(v)
  \/ WriteVenue

ImportNext == Job \/ (\E i \in Instances : Sync(i)) \/ Person
ImportSpec == ImportInit /\ [][ImportNext]_importVars

-----------------------------------------------------------------------------
(* Properties. *)
\* Types; two accounts never have one LINE account, and the job has a record in hand
\* only while it applies records.
ImportTypeOK ==
  /\ accounts \in Accounts /\ venues \in [Places -> Nat]
  /\ \A a \in Ids : accounts[a] # Null => Owners(accounts[a].line, accounts) \subseteq {a}
  /\ task.phase \in Phases /\ task.state \in {"ready", "done", "failed"}
  /\ task.left \in 0 .. JobTries /\ (task.left = 0 => task.state = "failed")
  /\ unit.seen \in Accounts /\ (unit.st = "read" => Applying /\ task.cursor < Len(Records))
  /\ \A i \in Instances :
       /\ sync[i].st \in {"off", "venues", "line", "number"} /\ sync[i].seen \in Accounts
       /\ (sync[i].locked <=> holder = i)
       /\ (sync[i].st = "number" => Named(sync[i].name, sync[i].seen) # {})
  /\ excused \subseteq People \cup Places /\ changes \in 0 .. MaxChanges

\* No import makes a second account of a name, or a second venue, whatever steps are
\* repeated or cut short and whichever instances start: only a person who gives a name
\* does, or a synchronisation that goes on without the lock.
NoTwins ==
  /\ \A n \in People \ excused : Cardinality(Named(n, accounts)) <= 1
  /\ \A v \in Places \ excused : venues[v] <= 1

\* What the job reports is what it did: every venue and account it made, every LINE
\* account and number it filled in is counted once, and every record looked at once,
\* over all its lost steps.
CountsTrue ==
  /\ \A w \in {"venue", "added", "line", "number"} :
       task.counts[w] = Cardinality({d \in did : d[1] = w})
  /\ task.phase \in {"apply_coaches", "complete"} =>
       task.counts["considered"] + task.counts["skipped"] =
         IF task.phase = "complete" THEN Len(task.coaches) ELSE task.cursor

Moved(x) == IF x = "wake" THEN unit' # unit ELSE sync'[x] # sync[x]
\* An import gives no account another LINE account than the one it has, and takes none
\* away, except one bound after the import had read the accounts: such a binding
\* is overwritten.
OnlyNewBindingsLost ==
  [][\A a \in Ids :
       accounts[a] # Null /\ accounts[a].line # Null /\ accounts'[a].line # accounts[a].line
         => \/ changes' # changes \/ form' # form
            \/ \E x \in Importers : Moved(x) /\ a \in bound[x]]_importVars
=============================================================================
