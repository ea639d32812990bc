------------------------- MODULE CoachImportProofs -------------------------
(***************************************************************************)
(* Proofs about CoachImport for every set of names, accounts, instances    *)
(* and answers.                                                            *)
(*                                                                         *)
(* An import decides by what it saw, which is older than what it writes.   *)
(* For a name that no person gives meanwhile, whoever had it when an       *)
(* import looked is all who can have it when it writes (NameSeen,          *)
(* PlaceSeen): the job's transaction is alone in its mode, and of the      *)
(* instances all that go on without the lock excuse every name (Alone).    *)
(* A binding an import has not seen is on its list (BindingSeen).          *)
(***************************************************************************)
EXTENDS CoachImport, TLAPS, FiniteSetTheorems, WellFoundedInduction

Counts == [Counters -> Nat]
Task == [state : {"ready", "done", "failed"}, phase : Phases, cursor : Nat, left : 0 .. JobTries,
         departments : Seq(Places), coaches : Seq(Coach), staff : [People -> Seq(Personal)],
         counts : Counts]
Unit == [st : {"none", "read"}, seen : Accounts, place : BOOLEAN]
SyncState == [st : {"off", "venues", "line", "number"}, locked : BOOLEAN,
              venues : SUBSET Places, names : SUBSET People, name : People \cup {Null},
              staff : [People -> Seq(Personal)], seen : Accounts, places : SUBSET Places]
Form == [st : {"none", "new", "link", "venue"}, id : Ids \cup {Null},
         name : People \cup Places \cup {Null}, line : Lines \cup {Null}]

AccountsOK ==
  /\ accounts \in Accounts
  /\ \A a \in Ids : accounts[a] # Null => Owners(accounts[a].line, accounts) \subseteq {a}
\* The cursor is within the records of its phase; a job that is over is not applying.
TaskOK ==
  /\ task \in Task
  /\ (Applying => task.cursor <= Len(Records)) /\ (~Applying => task.cursor = 0)
  /\ task.left = 0 => task.state = "failed"
  /\ task.state = "ready" => task.phase # "complete"
  /\ task.state = "done" => task.phase = "complete"
UnitOK ==
  /\ unit \in Unit /\ (unit.st = "none" => unit = NoUnit)
  /\ unit.st = "read" =>
       /\ Applying /\ task.cursor < Len(Records) /\ task.state = "ready"
       /\ \A a \in Ids : unit.seen[a] # Null => accounts[a] # Null
  /\ wakeMode \in BOOLEAN /\ (unit.st = "read" => wakeMode)
SyncOK ==
  /\ sync \in [Instances -> SyncState]
  /\ \A i \in Instances :
       /\ wakeMode => sync[i] = NoSync
       /\ sync[i].st = "off" => sync[i] = NoSync
       /\ sync[i].locked <=> holder = i
       /\ sync[i].st = "number" => Named(sync[i].name, sync[i].seen) # {}
       /\ \A a \in Ids : sync[i].seen[a] # Null => accounts[a] # Null
FormOK ==
  /\ form \in Form
  /\ form.st = "new" => form.id = Null /\ form.name \in People /\ form.line \in Lines
  /\ form.st = "link" => form.id \in Ids /\ accounts[form.id] # Null /\ form.line \in Lines
  /\ form.st = "venue" => form.name \in Places
\* What is beside the accounts, the job, the synchronisations and the form.
VenuesOK == venues \in [Places -> Nat]
BoundsOK == excused \subseteq People \cup Places /\ changes \in 0 .. MaxChanges
Typed ==
  /\ AccountsOK /\ TaskOK /\ UnitOK /\ SyncOK /\ FormOK
  /\ VenuesOK /\ BoundsOK

-----------------------------------------------------------------------------
\* A set of natural numbers has a least one.
LEMMA Smallest ==
  ASSUME NEW S \in SUBSET Nat, S # {}
  PROVE  \E x \in S : \A y \in S : x <= y
<1> DEFINE R == OpToRel(<, Nat)
<1>1. IsWellFoundedOn(R, Nat)
  BY NatLessThanWellFounded
<1>2. \E x \in S : \A y \in S : ~(<<y, x>> \in R)
  <2> HIDE DEF R
  <2> QED BY <1>1, WFMin
<1>3. \A x, y \in Nat : x < y => <<x, y>> \in R
  BY DEF OpToRel
<1>4. \A x, y \in Nat : ~(y < x) => x <= y
  OBVIOUS
<1> HIDE DEF R
<1> QED BY <1>2, <1>3, <1>4

\* The account that stands for a name is one of the accounts of that name.
LEMMA CanonicalNamed ==
  ASSUME NEW as \in Accounts, NEW n \in People, Named(n, as) # {}
  PROVE  Canonical(n, as) \in Named(n, as)
<1> DEFINE N == Named(n, as)
           K == {Standing(as[a]) : a \in N}
<1>1. N \subseteq Ids /\ N \subseteq Nat /\ \A a \in N : as[a] # Null
  BY ImportAssumption DEF Named
<1>2. ASSUME NEW a \in N PROVE Standing(as[a]) \in Nat
  <2>1. as[a].status \in Statuses
    BY <1>1 DEF Accounts, Account
  <2>2. Rank[as[a].status] \in Nat
    BY <2>1 DEF Rank
  <2> DEFINE r == Rank[as[a].status]
  <2>3. \A k \in Nat : 2 * k \in Nat /\ 2 * k + 1 \in Nat /\ 2 * k + 0 \in Nat
    OBVIOUS
  <2> HIDE DEF r
  <2> QED BY <2>2, <2>3 DEF Standing, r
<1>3. K \subseteq Nat /\ K # {}
  BY <1>2
<1>4. PICK k \in K : \A j \in K : k <= j
  BY <1>3, Smallest
<1> DEFINE T == {a \in N : Standing(as[a]) = k}
<1>5. T \subseteq Nat /\ T # {}
  BY <1>1, <1>4
<1>6. PICK a \in T : \A b \in T : a <= b
  BY <1>5, Smallest
<1>7. \A b \in N \ {a} : Ahead(a, b, as)
  <2> SUFFICES ASSUME NEW b \in N, b # a PROVE Ahead(a, b, as)
    OBVIOUS
  <2> DEFINE s == Standing(as[b])
  <2>1. Standing(as[a]) = k /\ a \in Nat /\ b \in Nat /\ b # a
    BY <1>1, <1>6
  <2>2. k <= s /\ s \in Nat /\ k \in Nat
    BY <1>2, <1>3, <1>4
  <2>3. s = k => a <= b
    BY <1>6
  <2>4. k < s \/ (k = s /\ a < b)
    <3> HIDE DEF N, K, T, s
    <3> QED BY <2>1, <2>2, <2>3
  <2> QED BY <2>1, <2>4 DEF Ahead
<1> QED BY <1>6, <1>7 DEF Canonical

-----------------------------------------------------------------------------
\* Accounts are never removed.
Grows == \A a \in Ids : accounts[a] # Null => accounts'[a] # Null

LEMMA NullIsNothing == Null \notin Account /\ Null \notin Lines /\ Null \notin Ids /\ Null \notin Instances
BY ImportAssumption

LEMMA PersonalTyped ==
  ASSUME NEW s \in Seq(Personal) PROVE PersonalOf(s) \in Personal
<1>1. CASE s = <<>>
  <2>1. [line |-> Null, number |-> FALSE] \in Personal
    BY DEF Personal
  <2> QED BY <1>1, <2>1 DEF PersonalOf
<1>2. CASE s # <<>>
  <2>1. Len(s) \in 1 .. Len(s)
    BY <1>2
  <2>2. s[Len(s)] \in Personal
    BY <2>1
  <2> QED BY <1>2, <2>2 DEF PersonalOf
<1> QED BY <1>1, <1>2

LEMMA ImportedTyped ==
  ASSUME NEW n \in People, NEW p \in Personal, NEW o
  PROVE  /\ Imported(n, p, o) \in Account /\ Imported(n, p, o).name = n
         /\ Imported(n, p, o).line = IF o = {} THEN p.line ELSE Null
<1>1. p.line \in Lines \cup {Null} /\ p.number \in BOOLEAN
  BY DEF Personal
<1>2. Imported(n, p, o) = [name |-> n, line |-> IF o = {} THEN p.line ELSE Null,
                           number |-> p.number, status |-> "approved"]
  BY DEF Imported
<1>3. "approved" \in Statuses
  BY DEF Statuses
<1> HIDE DEF Imported
<1>4. Imported(n, p, o) \in Account
  BY <1>1, <1>2, <1>3 DEF Account
<1> QED BY <1>2, <1>4

\* One account is written: new, or with the LINE account it has, or one nobody else has.
LEMMA AccountSet ==
  ASSUME AccountsOK, NEW a \in Ids, NEW x \in Account, accounts' = [accounts EXCEPT ![a] = x],
         \/ accounts[a] # Null /\ x.line = accounts[a].line
         \/ Owners(x.line, accounts) \ {a} = {}
  PROVE  /\ AccountsOK' /\ Grows /\ accounts'[a] = x
         /\ \A b \in Ids \ {a} : accounts'[b] = accounts[b]
<1>1. accounts \in [Ids -> Account \cup {Null}]
  BY DEF AccountsOK, Accounts
<1>2. accounts'[a] = x /\ \A b \in Ids \ {a} : accounts'[b] = accounts[b]
  BY <1>1
<1>3. accounts' \in Accounts
  BY <1>1 DEF Accounts
<1>4. x # Null
  BY NullIsNothing
<1>5. Grows
  BY <1>2, <1>4 DEF Grows
<1>6. \A b \in Ids \ {a} : accounts[b] # Null /\ x.line # Null => accounts[b].line # x.line
  <2>1. CASE accounts[a] # Null /\ x.line = accounts[a].line
    BY <2>1 DEF AccountsOK, Owners
  <2>2. CASE Owners(x.line, accounts) \ {a} = {}
    BY <2>2 DEF Owners
  <2> QED BY <2>1, <2>2
<1>7. \A b \in Ids : accounts'[b] # Null => Owners(accounts'[b].line, accounts') \subseteq {b}
  <2> SUFFICES ASSUME NEW b \in Ids, NEW c \in Ids, accounts'[b] # Null, accounts'[c] # Null,
                      accounts'[b].line # Null, accounts'[c].line = accounts'[b].line
               PROVE  c = b
    BY DEF Owners
  <2>1. CASE b = a \/ c = a
    BY <1>2, <1>6, <2>1
  <2>2. CASE b # a /\ c # a
    BY <1>2, <2>2 DEF AccountsOK, Owners
  <2> QED BY <2>1, <2>2
<1> QED BY <1>2, <1>3, <1>5, <1>7 DEF AccountsOK

\* The two ways to write an account; x is what it is afterwards.
Writes(a, x) == a \in Ids /\ x \in Account /\ accounts' = [accounts EXCEPT ![a] = x]
Free(a, l) == Owners(l, accounts) \ {a} = {}
Creates(a, x) == Writes(a, x) /\ accounts[a] = Null /\ Free(a, x.line)
Alters(a, x) ==
  /\ Writes(a, x) /\ accounts[a] # Null /\ x.name = accounts[a].name
  /\ x.line = accounts[a].line \/ Free(a, x.line)

LEMMA CreatedAccount ==
  ASSUME AccountsOK, NEW a, NEW x, Creates(a, x)
  PROVE  /\ AccountsOK' /\ Grows /\ accounts'[a] = x
         /\ \A b \in Ids \ {a} : accounts'[b] = accounts[b]
BY AccountSet DEF Creates, Writes, Free

LEMMA AlteredAccount ==
  ASSUME AccountsOK, NEW a, NEW x, Alters(a, x)
  PROVE  /\ AccountsOK' /\ Grows /\ accounts'[a] = x
         /\ \A b \in Ids \ {a} : accounts'[b] = accounts[b]
BY AccountSet DEF Alters, Writes, Free

\* Coaches and administrators.
LEMMA WriteFormEffect ==
  ASSUME Typed, WriteForm
  PROVE  \/ UNCHANGED accounts
         \/ form.st = "link" /\ \E x : Alters(form.id, x) /\ Bind(form.id, Null)
         \/ /\ form.st = "new" /\ excused' = excused \cup {form.name}
            /\ \E a, x : Creates(a, x) /\ x.name = form.name /\ Bind(a, Null)
<1>1. CASE Owners(form.line, accounts) \ {form.id} # {}
  BY <1>1 DEF WriteForm
<1>2. CASE Owners(form.line, accounts) \ {form.id} = {} /\ form.st = "link"
  <2>1. form.id \in Ids /\ accounts[form.id] # Null /\ form.line \in Lines
    BY <1>2 DEF Typed, FormOK
  <2>2. accounts \in [Ids -> Account \cup {Null}] /\ accounts[form.id] \in Account
    BY <2>1 DEF Typed, AccountsOK, Accounts
  <2> DEFINE x == [accounts[form.id] EXCEPT !.line = form.line]
  <2>3. x \in Account /\ x.name = accounts[form.id].name /\ x.line = form.line
    BY <2>1, <2>2 DEF Account
  <2>4. accounts' = [accounts EXCEPT ![form.id] = x] /\ Bind(form.id, Null)
    BY <1>2 DEF WriteForm
  <2> HIDE DEF x
  <2>5. Alters(form.id, x)
    BY <1>2, <2>1, <2>3, <2>4 DEF Alters, Writes, Free
  <2> QED BY <1>2, <2>4, <2>5
<1>3. CASE Owners(form.line, accounts) \ {form.id} = {} /\ form.st = "new"
  <2>1. form.id = Null /\ form.name \in People /\ form.line \in Lines
    BY <1>3 DEF Typed, FormOK
  <2> DEFINE x == [name |-> form.name, line |-> form.line, number |-> FALSE, status |-> "pending"]
  <2>2. x \in Account /\ x.name = form.name /\ x.line = form.line
    BY <2>1 DEF Account, Statuses
  <2>3. PICK a \in NextId : accounts' = [accounts EXCEPT ![a] = x] /\ Bind(a, Null)
    BY <1>3 DEF WriteForm
  <2>4. a \in Ids /\ accounts[a] = Null /\ excused' = excused \cup {form.name}
    BY <1>3 DEF NextId, WriteForm
  <2>5. Owners(form.line, accounts) = {}
    BY <1>3, <2>1, NullIsNothing DEF Owners
  <2> HIDE DEF x
  <2>6. Creates(a, x)
    BY <2>2, <2>3, <2>4, <2>5 DEF Creates, Writes, Free
  <2> QED BY <1>3, <2>2, <2>3, <2>4, <2>6
<1> QED BY <1>1, <1>2, <1>3 DEF WriteForm

LEMMA ClearEffect ==
  ASSUME Typed, NEW a \in Ids, Clear(a)
  PROVE  \E x : Alters(a, x)
<1>1. accounts[a] # Null /\ accounts[a] \in Account
  BY DEF Clear, Typed, AccountsOK, Accounts
<1> DEFINE x == [accounts[a] EXCEPT !.line = Null]
<1>2. x \in Account /\ x.name = accounts[a].name /\ x.line = Null
  BY <1>1 DEF Account
<1>3. accounts' = [accounts EXCEPT ![a] = x]
  BY DEF Clear
<1>4. Free(a, Null)
  BY DEF Free, Owners
<1> HIDE DEF x
<1> QED BY <1>1, <1>2, <1>3, <1>4 DEF Alters, Writes

LEMMA SetStatusEffect ==
  ASSUME Typed, NEW a \in Ids, NEW s \in {"approved", "rejected"}, SetStatus(a, s)
  PROVE  \E x : Alters(a, x) /\ x.line = accounts[a].line
<1>1. accounts[a] # Null /\ accounts[a] \in Account
  BY DEF SetStatus, Typed, AccountsOK, Accounts
<1> DEFINE x == [accounts[a] EXCEPT !.status = s]
<1>2. x \in Account /\ x.name = accounts[a].name /\ x.line = accounts[a].line
  BY <1>1 DEF Account, Statuses
<1>3. accounts' = [accounts EXCEPT ![a] = x]
  BY DEF SetStatus
<1> HIDE DEF x
<1> QED BY <1>1, <1>2, <1>3 DEF Alters, Writes

LEMMA RenameEffect ==
  ASSUME Typed, NEW a \in Ids, NEW n \in People, Rename(a, n)
  PROVE  /\ AccountsOK' /\ Grows /\ excused' = excused \cup {n}
         /\ accounts[a] # Null /\ accounts'[a].name = n /\ accounts'[a].line = accounts[a].line
         /\ \A b \in Ids \ {a} : accounts'[b] = accounts[b]
<1>1. accounts[a] # Null /\ accounts[a] \in Account /\ AccountsOK
  BY DEF Rename, Typed, AccountsOK, Accounts
<1> DEFINE x == [accounts[a] EXCEPT !.name = n]
<1>2. x \in Account /\ x.name = n /\ x.line = accounts[a].line
  BY <1>1 DEF Account
<1>3. accounts' = [accounts EXCEPT ![a] = x] /\ excused' = excused \cup {n}
  BY DEF Rename
<1> HIDE DEF x
<1> QED BY <1>1, <1>2, <1>3, AccountSet

-----------------------------------------------------------------------------
\* The record in hand.
LEMMA CoachInHand ==
  ASSUME Typed, unit.st = "read", task.phase = "apply_coaches"
  PROVE  /\ task.cursor \in Nat /\ task.cursor + 1 \in 1 .. Len(task.coaches)
         /\ task.coaches[task.cursor + 1] \in Coach
         /\ PersonalOf(task.staff[task.coaches[task.cursor + 1].name]) \in Personal
         /\ unit.seen \in Accounts
<1>1. task \in Task /\ unit \in Unit /\ task.cursor < Len(Records) /\ Records = task.coaches
  BY DEF Typed, TaskOK, UnitOK, Records, RecordsOf
<1>2. task.cursor \in Nat /\ task.coaches \in Seq(Coach) /\ task.staff \in [People -> Seq(Personal)]
  BY <1>1 DEF Task
<1>3. task.cursor + 1 \in 1 .. Len(task.coaches)
  BY <1>1, <1>2
<1>4. task.coaches[task.cursor + 1] \in Coach
  BY <1>2, <1>3
<1>5. task.coaches[task.cursor + 1].name \in People
  BY <1>4 DEF Coach
<1>6. unit.seen \in Accounts
  BY <1>1 DEF Unit
<1> QED BY <1>2, <1>3, <1>4, <1>5, <1>6, PersonalTyped

LEMMA CreateCoachEffect ==
  ASSUME Typed, CreateCoach
  PROVE  LET n == task.coaches[task.cursor + 1].name IN
         /\ n \in People /\ Named(n, unit.seen) = {}
         /\ \E a, x : Creates(a, x) /\ x.name = n /\ Bind(a, "wake")
<1> DEFINE r == task.coaches[task.cursor + 1]
           p == PersonalOf(task.staff[r.name])
           new == Imported(r.name, p, Owners(p.line, unit.seen))
<1>1. r \in Coach /\ p \in Personal
  BY CoachInHand DEF CreateCoach
<1>2. r.name \in People /\ Named(r.name, unit.seen) = {}
  BY <1>1 DEF CreateCoach, Coach
<1>3. new \in Account /\ new.name = r.name
  BY <1>1, <1>2, ImportedTyped
<1>4. PICK a \in NextId : ~Taken(a, new.line) /\ accounts' = [accounts EXCEPT ![a] = new] /\ Bind(a, "wake")
  BY DEF CreateCoach
<1>5. a \in Ids /\ accounts[a] = Null /\ Free(a, new.line)
  BY <1>4 DEF NextId, Taken, Free
<1> HIDE DEF new, p
<1>6. Creates(a, new)
  BY <1>3, <1>4, <1>5 DEF Creates, Writes
<1> QED BY <1>2, <1>3, <1>4, <1>6

LEMMA FillCoachEffect ==
  ASSUME Typed, FillCoach
  PROVE  \E a, x :
           /\ Alters(a, x) /\ unit.seen[a] # Null
           /\ x.line # accounts[a].line => unit.seen[a].line = Null /\ Bind(a, "wake")
<1> DEFINE r == task.coaches[task.cursor + 1]
           p == PersonalOf(task.staff[r.name])
           Line(a) == Fills(a, p.line, unit.seen)
           Number(a) == p.number /\ ~unit.seen[a].number
<1>1. r \in Coach /\ p \in Personal /\ unit.seen \in Accounts
  BY CoachInHand DEF FillCoach
<1>2. PICK a : /\ a \in Named(r.name, unit.seen)
               /\ ~(Line(a) /\ Taken(a, p.line))
               /\ accounts' = [accounts EXCEPT ![a].line = IF Line(a) THEN p.line ELSE @,
                                               ![a].number = @ \/ Number(a)]
               /\ IF Line(a) THEN Bind(a, "wake") ELSE Look("wake")
  BY DEF FillCoach
<1>3. a \in Ids /\ unit.seen[a] # Null
  BY <1>2 DEF Named
<1>4. accounts[a] # Null /\ accounts[a] \in Account
  BY <1>3 DEF Typed, UnitOK, AccountsOK, Accounts, FillCoach
<1> DEFINE l == IF Line(a) THEN p.line ELSE accounts[a].line
           m == accounts[a].number \/ Number(a)
           x == [accounts[a] EXCEPT !.line = l, !.number = m]
<1>5. accounts' = [accounts EXCEPT ![a] = x]
  BY <1>2
<1>6. Line(a) => p.line # Null /\ unit.seen[a].line = Null /\ Bind(a, "wake") /\ Free(a, p.line)
  BY <1>2 DEF Fills, Taken, Free
<1>7. m \in BOOLEAN
  OBVIOUS
<1>8. l \in Lines \cup {Null}
  BY <1>1, <1>4 DEF Personal, Account
<1>9. x \in Account /\ x.name = accounts[a].name /\ x.line = l
  <2> HIDE DEF l, m
  <2> QED BY <1>4, <1>7, <1>8 DEF Account
<1>10. l # accounts[a].line => Line(a) /\ l = p.line
  OBVIOUS
<1> HIDE DEF x, l, m, Line, p
<1>11. Alters(a, x)
  BY <1>3, <1>4, <1>5, <1>6, <1>9, <1>10 DEF Alters, Writes
<1> QED BY <1>3, <1>6, <1>9, <1>10, <1>11

-----------------------------------------------------------------------------
\* The synchronisation of an instance. s is what it has after a step.
Becomes(i, s) == s \in SyncState /\ sync' = [sync EXCEPT ![i] = s]

LEMMA SyncTyped ==
  ASSUME Typed, NEW i \in Instances
  PROVE  /\ sync[i] \in SyncState /\ sync[i].seen \in Accounts
         /\ \A n \in People : Facts(i, n) \in Personal
<1>1. sync[i] \in SyncState
  BY DEF Typed, SyncOK
<1>2. sync[i].staff \in [People -> Seq(Personal)] /\ sync[i].seen \in Accounts
  BY <1>1 DEF SyncState
<1> QED BY <1>1, <1>2, PersonalTyped DEF Facts

LEMMA SyncCreateEffect ==
  ASSUME Typed, NEW i \in Instances, NEW n \in People, SyncCreate(i, n)
  PROVE  /\ sync[i].st = "line" /\ Named(n, sync[i].seen) = {}
         /\ \/ /\ UNCHANGED <<accounts, bound>>
               /\ \E s : Becomes(i, s) /\ s = [sync[i] EXCEPT !.names = @ \ {n}]
            \/ \E a, x, s :
                 /\ Creates(a, x) /\ x.name = n /\ Bind(a, i) /\ Becomes(i, s)
                 /\ s = [sync[i] EXCEPT !.names = @ \ {n}, !.seen = [@ EXCEPT ![a] = x]]
<1>0. /\ sync[i].st = "line" /\ Named(n, sync[i].seen) = {} /\ sync \in [Instances -> SyncState]
      /\ sync[i] \in SyncState /\ Facts(i, n) \in Personal
  BY SyncTyped DEF SyncCreate, Turn, Typed, SyncOK
<1>1. CASE sync' = [sync EXCEPT ![i].names = @ \ {n}] /\ UNCHANGED <<accounts, bound>>
  <2> DEFINE s == [sync[i] EXCEPT !.names = @ \ {n}]
  <2>1. s \in SyncState
    BY <1>0 DEF SyncState
  <2>2. sync' = [sync EXCEPT ![i] = s]
    BY <1>1
  <2> QED BY <1>0, <1>1, <2>1, <2>2 DEF Becomes
<1>2. CASE LET new == Imported(n, Facts(i, n), Owners(Facts(i, n).line, sync[i].seen)) IN
           \E a \in NextId :
             /\ ~Taken(a, new.line) /\ accounts' = [accounts EXCEPT ![a] = new] /\ Bind(a, i)
             /\ sync' = [sync EXCEPT ![i].names = @ \ {n}, ![i].seen[a] = new]
  <2> DEFINE new == Imported(n, Facts(i, n), Owners(Facts(i, n).line, sync[i].seen))
  <2>1. new \in Account /\ new.name = n
    BY <1>0, ImportedTyped
  <2>2. PICK a \in NextId :
          /\ ~Taken(a, new.line) /\ accounts' = [accounts EXCEPT ![a] = new] /\ Bind(a, i)
          /\ sync' = [sync EXCEPT ![i].names = @ \ {n}, ![i].seen[a] = new]
    BY <1>2
  <2>3. a \in Ids /\ accounts[a] = Null /\ Free(a, new.line)
    BY <2>2 DEF NextId, Taken, Free
  <2> HIDE DEF new
  <2>4. Creates(a, new)
    BY <2>1, <2>2, <2>3 DEF Creates, Writes
  <2> DEFINE s == [sync[i] EXCEPT !.names = @ \ {n}, !.seen = [@ EXCEPT ![a] = new]]
  <2>5. [sync[i].seen EXCEPT ![a] = new] \in Accounts
    BY <1>0, <2>1, <2>3 DEF SyncState, Accounts
  <2>6. s \in SyncState
    BY <1>0, <2>5 DEF SyncState
  <2>7. sync' = [sync EXCEPT ![i] = s]
    BY <1>0, <2>2
  <2>8. Becomes(i, s) /\ s = [sync[i] EXCEPT !.names = @ \ {n}, !.seen = [@ EXCEPT ![a] = new]]
    BY <2>6, <2>7 DEF Becomes
  <2> HIDE DEF s
  <2> QED BY <1>0, <2>1, <2>2, <2>4, <2>8
<1> QED BY <1>1, <1>2 DEF SyncCreate

LEMMA SyncLineEffect ==
  ASSUME Typed, NEW i \in Instances, NEW n \in People, SyncLine(i, n)
  PROVE  /\ sync[i].st = "line" /\ Named(n, sync[i].seen) # {}
         /\ \/ /\ UNCHANGED <<accounts, bound>>
               /\ \E s : Becomes(i, s) /\ s = [sync[i] EXCEPT !.st = "number", !.name = n]
            \/ \E a, x, s :
                 /\ Alters(a, x) /\ Bind(a, i) /\ Becomes(i, s)
                 /\ sync[i].seen[a] # Null /\ sync[i].seen[a].line = Null
                 /\ s = [sync[i] EXCEPT !.st = "number", !.name = n, !.seen[a].line = x.line]
<1>0. /\ sync[i].st = "line" /\ Named(n, sync[i].seen) # {} /\ sync \in [Instances -> SyncState]
      /\ sync[i] \in SyncState /\ sync[i].seen \in Accounts /\ Facts(i, n) \in Personal
  BY SyncTyped DEF SyncLine, Turn, Typed, SyncOK
<1>1. CASE sync' = [sync EXCEPT ![i].st = "number", ![i].name = n] /\ UNCHANGED <<accounts, bound>>
  <2> DEFINE s == [sync[i] EXCEPT !.st = "number", !.name = n]
  <2>1. s \in SyncState
    BY <1>0 DEF SyncState
  <2>2. sync' = [sync EXCEPT ![i] = s]
    BY <1>1
  <2> QED BY <1>0, <1>1, <2>1, <2>2 DEF Becomes
<1>2. CASE LET a == Canonical(n, sync[i].seen)  l == Facts(i, n).line IN
           /\ Fills(a, l, sync[i].seen) /\ ~Taken(a, l)
           /\ accounts' = [accounts EXCEPT ![a].line = l] /\ Bind(a, i)
           /\ sync' = [sync EXCEPT ![i].st = "number", ![i].name = n, ![i].seen[a].line = l]
  <2> DEFINE a == Canonical(n, sync[i].seen)
             l == Facts(i, n).line
  <2>1. a \in Ids /\ sync[i].seen[a] # Null
    BY <1>0, CanonicalNamed DEF Named
  <2>2. l \in Lines \cup {Null}
    BY <1>0 DEF Personal
  <2>3. /\ Fills(a, l, sync[i].seen) /\ Free(a, l)
        /\ accounts' = [accounts EXCEPT ![a].line = l] /\ Bind(a, i)
        /\ sync' = [sync EXCEPT ![i].st = "number", ![i].name = n, ![i].seen[a].line = l]
    BY <1>2 DEF Taken, Free
  <2> HIDE DEF a, l
  <2>4. sync[i].seen[a].line = Null
    BY <2>3 DEF Fills
  <2>5. accounts[a] # Null /\ accounts[a] \in Account
    BY <2>1 DEF Typed, SyncOK, AccountsOK, Accounts
  <2> DEFINE x == [accounts[a] EXCEPT !.line = l]
  <2>6. x \in Account /\ x.name = accounts[a].name /\ x.line = l
    BY <2>2, <2>5 DEF Account
  <2>7. accounts' = [accounts EXCEPT ![a] = x]
    BY <2>3
  <2> HIDE DEF x
  <2>8. Alters(a, x)
    BY <2>1, <2>3, <2>5, <2>6, <2>7 DEF Alters, Writes
  <2> DEFINE y == [sync[i].seen[a] EXCEPT !.line = l]
             seen == [sync[i].seen EXCEPT ![a] = y]
             s == [sync[i] EXCEPT !.st = "number", !.name = n, !.seen = seen]
  <2>9. y \in Account
    BY <1>0, <2>1, <2>2 DEF Account, Accounts
  <2>10. seen \in Accounts
    BY <1>0, <2>1, <2>9 DEF Accounts
  <2>11. s \in SyncState
    <3> HIDE DEF seen
    <3> QED BY <1>0, <2>10 DEF SyncState
  <2>12. s = [sync[i] EXCEPT !.st = "number", !.name = n, !.seen[a].line = x.line]
    BY <1>0, <2>6
  <2>13. sync' = [sync EXCEPT ![i] = s]
    BY <1>0, <2>3
  <2> HIDE DEF s
  <2>14. Becomes(i, s)
    BY <2>11, <2>13 DEF Becomes
  <2> QED BY <1>0, <2>1, <2>3, <2>4, <2>8, <2>12, <2>14
<1> QED BY <1>1, <1>2 DEF SyncLine

LEMMA SyncNumberEffect ==
  ASSUME Typed, NEW i \in Instances, SyncNumber(i)
  PROVE  \/ UNCHANGED accounts
         \/ \E a, x : Alters(a, x) /\ x.line = accounts[a].line
<1> DEFINE n == sync[i].name
           a == Canonical(n, sync[i].seen)
           given == Facts(i, n).number /\ ~sync[i].seen[a].number
           m == accounts[a].number \/ given
           x == [accounts[a] EXCEPT !.number = m]
<1>1. Named(n, sync[i].seen) # {} /\ sync[i].seen \in Accounts
  BY SyncTyped DEF SyncNumber, Typed, SyncOK
<1>2. n \in People
  BY <1>1 DEF Named, Accounts, Account
<1>3. a \in Ids /\ sync[i].seen[a] # Null
  BY <1>1, <1>2, CanonicalNamed DEF Named
<1>4. accounts[a] # Null /\ accounts[a] \in Account
  BY <1>3 DEF Typed, SyncOK, AccountsOK, Accounts
<1>5. m \in BOOLEAN
  OBVIOUS
<1>6. x \in Account /\ x.name = accounts[a].name /\ x.line = accounts[a].line
  <2> HIDE DEF a, m
  <2> QED BY <1>4, <1>5 DEF Account
<1>7. accounts' = accounts \/ accounts' = [accounts EXCEPT ![a] = x]
  BY DEF SyncNumber
<1> HIDE DEF a, x
<1> QED BY <1>3, <1>4, <1>6, <1>7 DEF Alters, Writes

-----------------------------------------------------------------------------
\* The job's checkpoint after a record, or at the end of a phase.
KeepsRecords(t, u) ==
  /\ u.departments = t.departments /\ u.coaches = t.coaches /\ u.left = t.left
\* u follows t, with k records done.
Follows(t, u, k) ==
  \/ /\ u.phase = t.phase /\ u.cursor = k /\ u.state = t.state /\ k < Len(RecordsOf(t))
  \/ /\ t.phase = "apply_departments" /\ k = Len(t.departments)
     /\ u.phase = "apply_coaches" /\ u.cursor = 0 /\ u.state = t.state
  \/ /\ t.phase = "apply_coaches" /\ k = Len(t.coaches)
     /\ u.phase = "complete" /\ u.cursor = 0 /\ u.state = "done"

LEMMA NextPhaseEffect ==
  ASSUME NEW t \in Task, t.phase \in {"apply_departments", "apply_coaches"},
         t.cursor <= Len(RecordsOf(t))
  PROVE  /\ NextPhase(t) \in Task /\ NextPhase(t).counts = t.counts
         /\ KeepsRecords(t, NextPhase(t)) /\ Follows(t, NextPhase(t), t.cursor)
<1>0. /\ t.cursor \in Nat /\ t.departments \in Seq(Places) /\ t.coaches \in Seq(Coach)
      /\ Len(t.departments) \in Nat /\ Len(t.coaches) \in Nat
  BY DEF Task
<1>1. CASE t.cursor < Len(RecordsOf(t))
  BY <1>1 DEF NextPhase, KeepsRecords, Follows
<1>2. CASE ~(t.cursor < Len(RecordsOf(t))) /\ t.phase = "apply_departments"
  <2> DEFINE u == [t EXCEPT !.phase = "apply_coaches", !.cursor = 0]
  <2>1. NextPhase(t) = u
    BY <1>2 DEF NextPhase
  <2>2. t.cursor = Len(t.departments)
    BY <1>0, <1>2 DEF RecordsOf
  <2>3. u \in Task /\ u.counts = t.counts /\ KeepsRecords(t, u)
    BY DEF Task, Phases, KeepsRecords
  <2>4. u.phase = "apply_coaches" /\ u.cursor = 0 /\ u.state = t.state
    BY DEF Task
  <2> HIDE DEF u
  <2> QED BY <1>2, <2>1, <2>2, <2>3, <2>4 DEF Follows
<1>3. CASE ~(t.cursor < Len(RecordsOf(t))) /\ t.phase = "apply_coaches"
  <2> DEFINE u == [t EXCEPT !.phase = "complete", !.cursor = 0, !.state = "done"]
  <2>1. NextPhase(t) = u
    BY <1>3 DEF NextPhase
  <2>2. t.cursor = Len(t.coaches)
    BY <1>0, <1>3 DEF RecordsOf
  <2>3. u \in Task /\ u.counts = t.counts /\ KeepsRecords(t, u)
    BY DEF Task, Phases, KeepsRecords
  <2>4. u.phase = "complete" /\ u.cursor = 0 /\ u.state = "done"
    BY DEF Task
  <2> HIDE DEF u
  <2> QED BY <1>3, <2>1, <2>2, <2>3, <2>4 DEF Follows
<1> QED BY <1>1, <1>2, <1>3

LEMMA CheckpointEffect ==
  ASSUME TaskOK, Applying, task.cursor < Len(Records), NEW counted, Checkpoint(counted)
  PROVE  /\ task' \in Task /\ KeepsRecords(task, task') /\ Follows(task, task', task.cursor + 1)
         /\ \A c \in Counters :
              task'.counts[c] = task.counts[c] + (IF c \in counted THEN 1 ELSE 0)
<1> DEFINE counts == [c \in Counters |-> task.counts[c] + (IF c \in counted THEN 1 ELSE 0)]
           t == [task EXCEPT !.cursor = task.cursor + 1, !.counts = counts]
<1>0. /\ task \in Task /\ task.cursor \in Nat /\ task.counts \in [Counters -> Nat]
      /\ Len(Records) \in Nat /\ task.phase \in {"apply_departments", "apply_coaches"}
  BY DEF TaskOK, Task, Counts, Applying, Records, RecordsOf
<1>1. task' = NextPhase(t)
  BY DEF Checkpoint, Stepped
<1>2. counts \in Counts
  BY <1>0 DEF Counts
<1>3. task.cursor + 1 \in Nat /\ task.cursor + 1 <= Len(Records)
  BY <1>0
<1>4. t \in Task /\ t.counts = counts /\ t.cursor = task.cursor + 1 /\ t.phase = task.phase
      /\ t.departments = task.departments /\ t.coaches = task.coaches /\ t.left = task.left
      /\ t.state = task.state
  <2> HIDE DEF counts
  <2> QED BY <1>0, <1>2, <1>3 DEF Task
<1>5. RecordsOf(t) = Records
  BY <1>4 DEF RecordsOf, Records
<1> HIDE DEF t
<1>6. /\ NextPhase(t) \in Task /\ NextPhase(t).counts = counts
      /\ KeepsRecords(t, NextPhase(t)) /\ Follows(t, NextPhase(t), task.cursor + 1)
  BY <1>0, <1>3, <1>4, <1>5, NextPhaseEffect
<1>7. KeepsRecords(task, task') /\ Follows(task, task', task.cursor + 1)
  BY <1>1, <1>4, <1>5, <1>6 DEF KeepsRecords, Follows, Records
<1>8. \A c \in Counters : counts[c] = task.counts[c] + (IF c \in counted THEN 1 ELSE 0)
  OBVIOUS
<1> HIDE DEF counts
<1> QED BY <1>1, <1>6, <1>7, <1>8

\* What follows a job that is right is right.
LEMMA FollowsOK ==
  ASSUME TaskOK, Applying, task.state = "ready", NEW k \in Nat, k <= Len(Records),
         task' \in Task, KeepsRecords(task, task'), Follows(task, task', k)
  PROVE  TaskOK'
<1>0. /\ task \in Task /\ task.left = 0 => task.state = "failed"
      /\ Len(task.departments) \in Nat /\ Len(task.coaches) \in Nat
  BY DEF TaskOK, Task
<1>1. CASE task'.phase = task.phase /\ task'.cursor = k /\ task'.state = task.state
  BY <1>0, <1>1 DEF TaskOK, Applying, Records, RecordsOf, KeepsRecords
<1>2. CASE task'.phase = "apply_coaches" /\ task'.cursor = 0 /\ task'.state = task.state
  BY <1>0, <1>2 DEF TaskOK, Applying, Records, RecordsOf, KeepsRecords
<1>3. CASE task'.phase = "complete" /\ task'.cursor = 0 /\ task'.state = "done"
  BY <1>0, <1>3 DEF TaskOK, Applying, Records, RecordsOf, KeepsRecords
<1> QED BY <1>1, <1>2, <1>3 DEF Follows

LEMMA NothingInHand ==
  /\ NoAccounts \in Accounts /\ NoUnit \in Unit /\ NoUnit.st = "none" /\ NoUnit.seen = NoAccounts
  /\ NoSync \in SyncState /\ NoSync.st = "off" /\ ~NoSync.locked /\ NoSync.seen = NoAccounts
  /\ NoForm \in Form /\ NoForm.st = "none"
<1>1. NoAccounts \in Accounts
  BY DEF NoAccounts, Accounts
<1>2. NoStaff \in [People -> Seq(Personal)]
  <2>1. <<>> \in Seq(Personal)
    OBVIOUS
  <2> QED BY <2>1 DEF NoStaff
<1>3. NoUnit \in Unit /\ NoUnit.st = "none" /\ NoUnit.seen = NoAccounts
  BY <1>1 DEF NoUnit, Unit
<1>4. NoSync \in SyncState /\ NoSync.st = "off" /\ ~NoSync.locked /\ NoSync.seen = NoAccounts
  BY <1>1, <1>2 DEF NoSync, SyncState
<1>5. NoForm \in Form /\ NoForm.st = "none"
  BY DEF NoForm, Form
<1> QED BY <1>1, <1>3, <1>4, <1>5

LEMMA NewTaskRight ==
  /\ NewTask \in Task /\ NewTask.phase = "fetch_departments" /\ NewTask.cursor = 0
  /\ NewTask.state = "ready" /\ NewTask.left = JobTries /\ \A c \in Counters : NewTask.counts[c] = 0
<1>1. NoStaff \in [People -> Seq(Personal)]
  <2>1. <<>> \in Seq(Personal)
    OBVIOUS
  <2> QED BY <2>1 DEF NoStaff
<1>2. <<>> \in Seq(Places) /\ <<>> \in Seq(Coach) /\ JobTries \in 0 .. JobTries
  BY ImportAssumption
<1> DEFINE zero == [c \in Counters |-> 0]
<1>3. zero \in Counts /\ \A c \in Counters : zero[c] = 0
  BY DEF Counts
<1>4. NewTask = [state |-> "ready", phase |-> "fetch_departments", cursor |-> 0, left |-> JobTries,
                 departments |-> <<>>, coaches |-> <<>>, staff |-> NoStaff, counts |-> zero]
  BY DEF NewTask
<1> HIDE DEF zero
<1> QED BY <1>1, <1>2, <1>3, <1>4 DEF Task, Phases

\* What a record leaves, whatever it was.
LEMMA RecordDone ==
  ASSUME Typed, unit.st = "read", NEW counted, Checkpoint(counted), unit' = NoUnit, UNCHANGED wakeMode
  PROVE  TaskOK' /\ UnitOK'
<1>1. TaskOK /\ Applying /\ task.cursor < Len(Records) /\ task.state = "ready" /\ wakeMode \in BOOLEAN
  BY DEF Typed, UnitOK
<1>2. task.cursor \in Nat /\ Len(Records) \in Nat
  BY <1>1 DEF TaskOK, Task, Records, RecordsOf
<1>3. TaskOK'
  BY <1>1, <1>2, CheckpointEffect, FollowsOK
<1>4. UnitOK'
  BY <1>1, NothingInHand DEF UnitOK
<1> QED BY <1>3, <1>4

LEMMA FetchOK == ASSUME Typed, FetchSource PROVE TaskOK' /\ UnitOK'
<1>0. TaskOK /\ task \in Task /\ task.state = "ready" /\ unit = NoUnit /\ unit' = unit /\ wakeMode' = wakeMode
  BY DEF Typed, TaskOK, FetchSource, JobReady
<1>1. PICK s \in Sheets :
       \/ /\ task.phase = "fetch_departments"
          /\ task' = [task EXCEPT !.phase = "fetch_coaches", !.departments = s.departments]
       \/ /\ task.phase = "fetch_coaches"
          /\ task' = [task EXCEPT !.phase = "fetch_employees", !.coaches = s.coaches]
       \/ /\ task.phase = "fetch_employees"
          /\ task' = [task EXCEPT !.phase = "apply_departments", !.staff = s.staff]
  BY DEF FetchSource
<1>2. /\ s.departments \in Seq(Places) /\ s.coaches \in Seq(Coach)
      /\ s.staff \in [People -> Seq(Personal)]
  BY ImportAssumption DEF Sheet
<1>3. task' \in Task /\ task'.cursor = task.cursor /\ task'.left = task.left /\ task'.state = task.state
      /\ task'.phase \in {"fetch_coaches", "fetch_employees", "apply_departments"}
      /\ task'.departments \in Seq(Places)
  BY <1>0, <1>1, <1>2 DEF Task, Phases
<1>4. task.cursor = 0 /\ ~Applying
  BY <1>0, <1>1 DEF TaskOK, Applying
<1>5. Len(task'.departments) \in Nat
  BY <1>3
<1>6. TaskOK'
  BY <1>0, <1>3, <1>4, <1>5 DEF TaskOK, Applying, Records, RecordsOf
<1> QED BY <1>0, <1>6, NothingInHand DEF UnitOK, Typed

LEMMA PassPhaseOK == ASSUME Typed, PassPhase PROVE TaskOK' /\ UnitOK'
<1>0. TaskOK /\ Applying /\ task \in Task /\ task.state = "ready" /\ unit = NoUnit /\ unit' = unit
      /\ wakeMode' = wakeMode /\ task.cursor = Len(Records) /\ task' = NextPhase(task)
  BY DEF Typed, TaskOK, PassPhase, JobReady
<1>1. /\ task.phase \in {"apply_departments", "apply_coaches"} /\ task.cursor \in Nat
      /\ task.cursor <= Len(RecordsOf(task))
  BY <1>0 DEF Applying, Records, Task
<1>2. task' \in Task /\ KeepsRecords(task, task') /\ Follows(task, task', task.cursor)
  BY <1>0, <1>1, NextPhaseEffect
<1>3. TaskOK'
  BY <1>0, <1>1, <1>2, FollowsOK DEF Records
<1> QED BY <1>0, <1>3, NothingInHand DEF UnitOK, Typed

LEMMA ReadForRecordOK == ASSUME Typed, ReadForRecord PROVE TaskOK' /\ UnitOK'
<1>0. /\ TaskOK /\ Applying /\ task.state = "ready" /\ task' = task /\ wakeMode' = wakeMode /\ wakeMode
      /\ task.cursor < Len(Records) /\ accounts' = accounts /\ accounts \in Accounts
      /\ unit' = [st |-> "read", seen |-> accounts,
                  place |-> task.phase = "apply_departments" /\ venues[Records[task.cursor + 1]] > 0]
  BY DEF Typed, ReadForRecord, JobReady, AccountsOK
<1> DEFINE p == task.phase = "apply_departments" /\ venues[Records[task.cursor + 1]] > 0
<1>1. p \in BOOLEAN
  OBVIOUS
<1>2. unit' = [st |-> "read", seen |-> accounts, place |-> p]
  BY <1>0
<1> HIDE DEF p
<1>3. unit' \in Unit /\ unit'.st = "read" /\ unit'.seen = accounts
  BY <1>0, <1>1, <1>2 DEF Unit
<1>4. TaskOK' /\ Applying' /\ (task.cursor < Len(Records))'
  BY <1>0 DEF TaskOK, Applying, Records
<1> QED BY <1>0, <1>3, <1>4 DEF UnitOK

LEMMA LoseUnitOK == ASSUME Typed, LoseUnit PROVE TaskOK' /\ UnitOK'
<1>0. TaskOK /\ task \in Task /\ task.state = "ready" /\ task.phase # "complete"
      /\ unit' = NoUnit /\ wakeMode' = wakeMode /\ wakeMode \in BOOLEAN
      /\ task' = [task EXCEPT !.left = @ - 1, !.state = IF task.left > 1 THEN "ready" ELSE "failed"]
  BY DEF Typed, TaskOK, UnitOK, LoseUnit, Tried
<1>1. task.left \in 1 .. JobTries /\ JobTries \in Nat
  BY <1>0, ImportAssumption DEF TaskOK, Task
<1> DEFINE l == task.left - 1
           st == IF task.left > 1 THEN "ready" ELSE "failed"
<1>2. l \in 0 .. JobTries /\ (l = 0 => st = "failed") /\ st \in {"ready", "failed"}
  BY <1>1
<1>3. task' = [task EXCEPT !.left = l, !.state = st]
  BY <1>0
<1> HIDE DEF l, st
<1>4. /\ task' \in Task /\ task'.left = l /\ task'.state = st /\ task'.phase = task.phase
      /\ task'.cursor = task.cursor /\ task'.departments = task.departments
      /\ task'.coaches = task.coaches
  BY <1>0, <1>2, <1>3 DEF Task
<1>5. TaskOK'
  BY <1>0, <1>2, <1>4 DEF TaskOK, Applying, Records, RecordsOf
<1> QED BY <1>0, <1>5, NothingInHand DEF UnitOK

LEMMA NextDayOK == ASSUME Typed, NextDay PROVE TaskOK' /\ UnitOK'
<1>0. /\ task' = NewTask /\ unit' = unit /\ wakeMode' = wakeMode /\ wakeMode \in BOOLEAN
      /\ unit.st = "none" /\ unit = NoUnit
  <2>1. task.state # "ready" /\ UnitOK /\ task' = NewTask /\ unit' = unit /\ wakeMode' = wakeMode
    BY DEF NextDay, Typed
  <2>2. unit.st = "none"
    BY <2>1 DEF UnitOK, Unit
  <2> QED BY <2>1, <2>2 DEF UnitOK
<1>1. TaskOK'
  BY <1>0, NewTaskRight, ImportAssumption DEF TaskOK, Applying
<1> QED BY <1>0, <1>1, NothingInHand DEF UnitOK

-----------------------------------------------------------------------------
\* The synchronisations.
LEMMA SyncSet ==
  ASSUME Typed, NEW i \in Instances, NEW s, Becomes(i, s), Grows, ~wakeMode, UNCHANGED wakeMode,
         s.st = "off" => s = NoSync,
         s.st = "number" => Named(s.name, s.seen) # {},
         \A a \in Ids : s.seen[a] # Null => accounts'[a] # Null,
         s.locked <=> holder' = i,
         \A j \in Instances \ {i} : holder' = j <=> holder = j
  PROVE  SyncOK'
<1>0. SyncOK /\ sync \in [Instances -> SyncState]
  BY DEF Typed, SyncOK
<1>1. /\ sync' \in [Instances -> SyncState] /\ sync'[i] = s
      /\ \A j \in Instances \ {i} : sync'[j] = sync[j]
  BY <1>0 DEF Becomes
<1>2. ASSUME NEW j \in Instances
      PROVE  /\ sync'[j].st = "off" => sync'[j] = NoSync
             /\ sync'[j].locked <=> holder' = j
             /\ sync'[j].st = "number" => Named(sync'[j].name, sync'[j].seen) # {}
             /\ \A a \in Ids : sync'[j].seen[a] # Null => accounts'[a] # Null
  <2>1. CASE j = i
    BY <1>1, <2>1
  <2>2. CASE j # i
    BY <1>0, <1>1, <2>2 DEF SyncOK, Grows
  <2> QED BY <2>1, <2>2
<1> QED BY <1>1, <1>2 DEF SyncOK

LEMMA SyncKept ==
  ASSUME Typed, Grows, UNCHANGED <<sync, holder, wakeMode>>
  PROVE  SyncOK'
BY DEF Typed, SyncOK, Grows

LEMMA SyncStartOK ==
  ASSUME Typed, NEW i \in Instances, SyncStart(i)
  PROVE  SyncOK'
<1>0. ~wakeMode /\ wakeMode' = wakeMode /\ accounts' = accounts /\ sync[i] = NoSync
  BY DEF SyncStart
<1>1. PICK locked \in BOOLEAN, q \in Sheets :
        /\ IF locked THEN Lock(i) ELSE Unlocked
        /\ sync' = [sync EXCEPT ![i] = [NoSync EXCEPT !.st = "venues", !.locked = locked,
                                          !.venues = Listed(q.departments),
                                          !.places = {v \in Places : venues[v] > 0}]]
  BY DEF SyncStart
<1> DEFINE s == [NoSync EXCEPT !.st = "venues", !.locked = locked,
                   !.venues = Listed(q.departments), !.places = {v \in Places : venues[v] > 0}]
<1>2. Listed(q.departments) \in SUBSET Places
  BY ImportAssumption DEF Sheet, Listed
<1>3. /\ s \in SyncState /\ s.st = "venues" /\ s.seen = NoAccounts /\ (s.locked <=> locked)
  BY <1>2, NothingInHand DEF SyncState
<1>4. sync' = [sync EXCEPT ![i] = s]
  BY <1>1
<1> HIDE DEF s
<1>5. Becomes(i, s)
  BY <1>3, <1>4 DEF Becomes
<1>6. holder # i
  BY <1>0, NothingInHand DEF Typed, SyncOK
<1>7. (s.locked <=> holder' = i) /\ \A j \in Instances \ {i} : holder' = j <=> holder = j
  <2>1. CASE locked
    BY <1>1, <1>3, <2>1, NullIsNothing DEF Lock
  <2>2. CASE ~locked
    BY <1>1, <1>3, <1>6, <2>2 DEF Unlocked
  <2> QED BY <2>1, <2>2
<1>8. Grows /\ \A a \in Ids : s.seen[a] # Null => accounts'[a] # Null
  BY <1>0, <1>3 DEF Grows, NoAccounts
<1> QED BY <1>0, <1>3, <1>5, <1>7, <1>8, SyncSet

\* A synchronisation runs only where the wake does not import.
LEMMA Syncing ==
  ASSUME Typed, NEW i \in Instances, sync[i].st # "off"
  PROVE  ~wakeMode
BY NothingInHand DEF Typed, SyncOK

\* A step of a synchronisation under way.
LEMMA SyncStep ==
  ASSUME Typed, NEW i \in Instances, NEW s, Becomes(i, s), sync[i].st # "off", s.st # "off", Grows,
         UNCHANGED <<holder, wakeMode>>, s.locked = sync[i].locked,
         s.st = "number" => Named(s.name, s.seen) # {},
         \A a \in Ids : s.seen[a] # Null => accounts'[a] # Null
  PROVE  SyncOK'
<1>1. ~wakeMode
  BY Syncing
<1>2. s.locked <=> holder' = i
  BY DEF Typed, SyncOK
<1> QED BY <1>1, <1>2, SyncSet

LEMMA SyncVenueOK ==
  ASSUME Typed, NEW i \in Instances, NEW v \in Places, SyncVenue(i, v)
  PROVE  SyncOK'
<1>0. /\ sync[i].st = "venues" /\ UNCHANGED <<holder, wakeMode, accounts>> /\ sync[i] \in SyncState
      /\ \A a \in Ids : sync[i].seen[a] # Null => accounts[a] # Null
  BY DEF SyncVenue, people, Typed, SyncOK
<1> DEFINE s == [sync[i] EXCEPT !.venues = @ \ {v}]
<1>1. sync' = [sync EXCEPT ![i] = s]
  BY DEF SyncVenue
<1>2. s \in SyncState /\ s.st = sync[i].st /\ s.seen = sync[i].seen /\ s.locked = sync[i].locked
  BY <1>0 DEF SyncState
<1> HIDE DEF s
<1>3. Becomes(i, s) /\ Grows
  BY <1>0, <1>1, <1>2 DEF Becomes, Grows
<1> QED BY <1>0, <1>2, <1>3, SyncStep

LEMMA SyncReadOK ==
  ASSUME Typed, NEW i \in Instances, SyncRead(i)
  PROVE  SyncOK'
<1>0. /\ sync[i].st = "venues" /\ UNCHANGED <<holder, wakeMode, accounts>> /\ sync[i] \in SyncState
      /\ accounts \in Accounts
  BY DEF SyncRead, Typed, SyncOK, AccountsOK
<1>1. PICK q \in Sheets, t \in Sheets :
        sync' = [sync EXCEPT ![i].st = "line", ![i].places = {}, ![i].names = Unique(q.coaches),
                             ![i].staff = t.staff, ![i].seen = accounts]
  BY DEF SyncRead
<1> DEFINE s == [sync[i] EXCEPT !.st = "line", !.places = {}, !.names = Unique(q.coaches),
                                !.staff = t.staff, !.seen = accounts]
<1>2. t.staff \in [People -> Seq(Personal)] /\ Unique(q.coaches) \in SUBSET People
  BY ImportAssumption DEF Sheet, Unique
<1>3. s \in SyncState /\ s.st = "line" /\ s.seen = accounts /\ s.locked = sync[i].locked
  BY <1>0, <1>2 DEF SyncState
<1>4. sync' = [sync EXCEPT ![i] = s]
  BY <1>1
<1> HIDE DEF s
<1>5. Becomes(i, s) /\ Grows
  BY <1>0, <1>3, <1>4 DEF Becomes, Grows
<1> QED BY <1>0, <1>3, <1>5, SyncStep

LEMMA SyncCreateOK ==
  ASSUME Typed, NEW i \in Instances, NEW n \in People, SyncCreate(i, n)
  PROVE  AccountsOK' /\ Grows /\ SyncOK'
<1>0. /\ sync[i].st = "line" /\ UNCHANGED <<holder, wakeMode>> /\ sync[i] \in SyncState
      /\ AccountsOK /\ \A a \in Ids : sync[i].seen[a] # Null => accounts[a] # Null
  BY DEF SyncCreate, Turn, Typed, SyncOK
<1>1. CASE /\ UNCHANGED <<accounts, bound>>
           /\ \E s : Becomes(i, s) /\ s = [sync[i] EXCEPT !.names = @ \ {n}]
  <2>1. PICK s : Becomes(i, s) /\ s = [sync[i] EXCEPT !.names = @ \ {n}]
    BY <1>1
  <2>2. s.st = "line" /\ s.seen = sync[i].seen /\ s.locked = sync[i].locked
    BY <1>0, <2>1 DEF SyncState
  <2>3. AccountsOK' /\ Grows
    BY <1>0, <1>1 DEF Grows, AccountsOK
  <2>4. SyncOK'
    <3>1. /\ UNCHANGED <<holder, wakeMode>> /\ sync[i].st # "off" /\ s.st # "off" /\ Becomes(i, s)
          /\ s.locked = sync[i].locked /\ Grows
      BY <1>0, <2>1, <2>2, <2>3
    <3>2. s.st = "number" => Named(s.name, s.seen) # {}
      BY <1>0, <2>2
    <3>3. \A b \in Ids : s.seen[b] # Null => accounts'[b] # Null
      BY <1>0, <2>2, <2>3 DEF Grows
    <3> QED BY <3>1, <3>2, <3>3, SyncStep
  <2> QED BY <2>3, <2>4
<1>2. CASE \E a, x, s :
             /\ Creates(a, x) /\ x.name = n /\ Bind(a, i) /\ Becomes(i, s)
             /\ s = [sync[i] EXCEPT !.names = @ \ {n}, !.seen = [@ EXCEPT ![a] = x]]
  <2>1. PICK a, x, s :
          /\ Creates(a, x) /\ Becomes(i, s)
          /\ s = [sync[i] EXCEPT !.names = @ \ {n}, !.seen = [@ EXCEPT ![a] = x]]
    BY <1>2
  <2>2. /\ s.st = "line" /\ s.seen = [sync[i].seen EXCEPT ![a] = x] /\ s.locked = sync[i].locked
        /\ sync[i].seen \in Accounts
    BY <1>0, <2>1 DEF SyncState
  <2>3. AccountsOK' /\ Grows /\ accounts'[a] = x /\ x \in Account
    BY <1>0, <2>1, CreatedAccount DEF Creates, Writes
  <2>4. \A b \in Ids : s.seen[b] # Null => accounts'[b] # Null
    BY <1>0, <2>2, <2>3, NullIsNothing DEF Grows, Accounts
  <2>5. SyncOK'
    <3>1. /\ UNCHANGED <<holder, wakeMode>> /\ sync[i].st # "off" /\ s.st # "off" /\ Becomes(i, s)
          /\ s.locked = sync[i].locked /\ Grows
      BY <1>0, <2>1, <2>2, <2>3
    <3>2. s.st = "number" => Named(s.name, s.seen) # {}
      BY <2>2
    <3>3. \A b \in Ids : s.seen[b] # Null => accounts'[b] # Null
      BY <2>4
    <3> QED BY <3>1, <3>2, <3>3, SyncStep
  <2> QED BY <2>3, <2>5
<1> QED BY <1>1, <1>2, SyncCreateEffect

LEMMA SyncLineOK ==
  ASSUME Typed, NEW i \in Instances, NEW n \in People, SyncLine(i, n)
  PROVE  AccountsOK' /\ Grows /\ SyncOK'
<1>0. /\ sync[i].st = "line" /\ UNCHANGED <<holder, wakeMode>> /\ sync[i] \in SyncState
      /\ AccountsOK /\ \A a \in Ids : sync[i].seen[a] # Null => accounts[a] # Null
      /\ sync[i].seen \in Accounts /\ Named(n, sync[i].seen) # {}
  BY SyncTyped, SyncLineEffect DEF SyncLine, Turn, Typed, SyncOK
<1>1. CASE /\ UNCHANGED <<accounts, bound>>
           /\ \E s : Becomes(i, s) /\ s = [sync[i] EXCEPT !.st = "number", !.name = n]
  <2>1. PICK s : Becomes(i, s) /\ s = [sync[i] EXCEPT !.st = "number", !.name = n]
    BY <1>1
  <2>2. s.st = "number" /\ s.name = n /\ s.seen = sync[i].seen /\ s.locked = sync[i].locked
    BY <1>0, <2>1 DEF SyncState
  <2>3. AccountsOK' /\ Grows
    BY <1>0, <1>1 DEF Grows, AccountsOK
  <2>4. SyncOK'
    <3>1. /\ UNCHANGED <<holder, wakeMode>> /\ sync[i].st # "off" /\ s.st # "off" /\ Becomes(i, s)
          /\ s.locked = sync[i].locked /\ Grows
      BY <1>0, <2>1, <2>2, <2>3
    <3>2. s.st = "number" => Named(s.name, s.seen) # {}
      BY <1>0, <2>2
    <3>3. \A b \in Ids : s.seen[b] # Null => accounts'[b] # Null
      BY <1>0, <2>2, <2>3 DEF Grows
    <3> QED BY <3>1, <3>2, <3>3, SyncStep
  <2> QED BY <2>3, <2>4
<1>2. CASE \E a, x, s :
             /\ Alters(a, x) /\ Bind(a, i) /\ Becomes(i, s)
             /\ sync[i].seen[a] # Null /\ sync[i].seen[a].line = Null
             /\ s = [sync[i] EXCEPT !.st = "number", !.name = n, !.seen[a].line = x.line]
  <2>1. PICK a, x, s :
          /\ Alters(a, x) /\ Becomes(i, s) /\ sync[i].seen[a] # Null
          /\ s = [sync[i] EXCEPT !.st = "number", !.name = n, !.seen[a].line = x.line]
    BY <1>2
  <2>2. /\ s.st = "number" /\ s.name = n /\ s.seen = [sync[i].seen EXCEPT ![a].line = x.line]
        /\ s.locked = sync[i].locked
    BY <1>0, <2>1 DEF SyncState
  <2>3. AccountsOK' /\ Grows /\ a \in Ids
    BY <1>0, <2>1, AlteredAccount DEF Alters, Writes
  <2>4. /\ \A b \in Ids \ {a} : s.seen[b] = sync[i].seen[b]
        /\ s.seen[a] = [sync[i].seen[a] EXCEPT !.line = x.line]
    BY <1>0, <2>2, <2>3 DEF Accounts
  <2>5. s.seen \in Accounts
    BY <2>1 DEF Becomes, SyncState
  <2>6. s.seen[a] # Null /\ s.seen[a].name = sync[i].seen[a].name
    <3>1. sync[i].seen[a] \in Account /\ x.line \in Lines \cup {Null}
      BY <1>0, <2>1, <2>3 DEF Accounts, Alters, Writes, Account
    <3>2. s.seen[a] \in Account /\ s.seen[a].name = sync[i].seen[a].name
      BY <2>4, <3>1 DEF Account
    <3> QED BY <3>2, NullIsNothing
  <2>7. \A b \in Ids : s.seen[b] # Null => accounts'[b] # Null
    BY <1>0, <2>1, <2>3, <2>4 DEF Grows
  <2>8. Named(n, s.seen) # {}
    BY <1>0, <2>1, <2>4, <2>6 DEF Named
  <2>9. SyncOK'
    <3>1. /\ UNCHANGED <<holder, wakeMode>> /\ sync[i].st # "off" /\ s.st # "off" /\ Becomes(i, s)
          /\ s.locked = sync[i].locked /\ Grows
      BY <1>0, <2>1, <2>2, <2>3
    <3>2. s.st = "number" => Named(s.name, s.seen) # {}
      BY <2>2, <2>8
    <3>3. \A b \in Ids : s.seen[b] # Null => accounts'[b] # Null
      BY <2>7
    <3> QED BY <3>1, <3>2, <3>3, SyncStep
  <2> QED BY <2>3, <2>9
<1> QED BY <1>1, <1>2, SyncLineEffect

LEMMA SyncNumberOK ==
  ASSUME Typed, NEW i \in Instances, SyncNumber(i)
  PROVE  AccountsOK' /\ Grows /\ SyncOK'
<1>0. /\ sync[i].st = "number" /\ UNCHANGED <<holder, wakeMode>> /\ sync[i] \in SyncState
      /\ AccountsOK /\ \A a \in Ids : sync[i].seen[a] # Null => accounts[a] # Null
  BY DEF SyncNumber, Typed, SyncOK
<1>1. AccountsOK' /\ Grows
  <2>1. CASE UNCHANGED accounts
    BY <1>0, <2>1 DEF AccountsOK, Grows
  <2>2. CASE \E a, x : Alters(a, x) /\ x.line = accounts[a].line
    BY <1>0, <2>2, AlteredAccount
  <2> QED BY <2>1, <2>2, SyncNumberEffect
<1> DEFINE s == [sync[i] EXCEPT !.st = "line", !.names = @ \ {sync[i].name}, !.name = Null]
<1>2. s \in SyncState /\ s.st = "line" /\ s.seen = sync[i].seen /\ s.locked = sync[i].locked
  BY <1>0 DEF SyncState
<1>3. sync' = [sync EXCEPT ![i] = s]
  BY DEF SyncNumber
<1> HIDE DEF s
<1>4. Becomes(i, s)
  BY <1>2, <1>3 DEF Becomes
<1>5. \A a \in Ids : s.seen[a] # Null => accounts'[a] # Null
  BY <1>0, <1>1, <1>2 DEF Grows
<1>6. SyncOK'
  <2>1. /\ UNCHANGED <<holder, wakeMode>> /\ sync[i].st # "off" /\ s.st # "off" /\ Becomes(i, s)
        /\ s.locked = sync[i].locked /\ Grows
    BY <1>0, <1>1, <1>2, <1>4
  <2>2. s.st = "number" => Named(s.name, s.seen) # {}
    BY <1>2
  <2>3. \A b \in Ids : s.seen[b] # Null => accounts'[b] # Null
    BY <1>5
  <2> QED BY <2>1, <2>2, <2>3, SyncStep
<1> QED BY <1>1, <1>6

LEMMA SyncEndOK ==
  ASSUME Typed, NEW i \in Instances, SyncEnd(i)
  PROVE  SyncOK'
<1>0. /\ sync[i] # NoSync /\ UNCHANGED <<wakeMode, accounts>> /\ sync' = [sync EXCEPT ![i] = NoSync]
      /\ holder' = IF sync[i].locked THEN Null ELSE holder
  BY DEF SyncEnd
<1>1. ~wakeMode /\ (sync[i].locked <=> holder = i)
  BY <1>0 DEF Typed, SyncOK
<1>2. Becomes(i, NoSync) /\ Grows
  BY <1>0, NothingInHand DEF Becomes, Grows
<1>3. (NoSync.locked <=> holder' = i) /\ \A j \in Instances \ {i} : holder' = j <=> holder = j
  BY <1>0, <1>1, NothingInHand, NullIsNothing
<1>4. \A a \in Ids : NoSync.seen[a] # Null => accounts'[a] # Null
  BY NothingInHand DEF NoAccounts
<1> QED BY <1>0, <1>1, <1>2, <1>3, <1>4, NothingInHand, SyncSet

-----------------------------------------------------------------------------
\* Types hold in every step.
LEMMA FormKept ==
  ASSUME Typed, Grows, form' = form \/ form' = NoForm
  PROVE  FormOK'
<1>1. CASE form' = form
  BY <1>1 DEF Typed, FormOK, Grows
<1>2. CASE form' = NoForm
  BY <1>2, NothingInHand DEF FormOK
<1> QED BY <1>1, <1>2

LEMMA UnitKept ==
  ASSUME Typed, Grows, UNCHANGED <<task, unit, wakeMode>>
  PROVE  TaskOK' /\ UnitOK'
<1>1. TaskOK' /\ (Applying <=> Applying') /\ (task.cursor < Len(Records) <=> (task.cursor < Len(Records))')
  BY DEF Typed, TaskOK, Applying, Records, RecordsOf
<1> QED BY <1>1 DEF Typed, UnitOK, Grows

LEMMA SameAccounts ==
  ASSUME Typed, UNCHANGED accounts
  PROVE  AccountsOK' /\ Grows
BY DEF Typed, AccountsOK, Grows


LEMMA JobTypes ==
  ASSUME Typed, Job
  PROVE  AccountsOK' /\ TaskOK' /\ UnitOK' /\ Grows /\ UNCHANGED <<sync, holder, people, wakeMode>>
<1>1. CASE FetchSource
  <2>1. UNCHANGED <<accounts, sync, holder, people, wakeMode>>
    BY <1>1 DEF FetchSource
  <2> QED BY <1>1, <2>1, FetchOK, SameAccounts
<1>2. CASE PassPhase
  <2>1. UNCHANGED <<accounts, sync, holder, people, wakeMode>>
    BY <1>2 DEF PassPhase
  <2> QED BY <1>2, <2>1, PassPhaseOK, SameAccounts
<1>3. CASE ReadForRecord
  <2>1. UNCHANGED <<accounts, sync, holder, people, wakeMode>>
    BY <1>3 DEF ReadForRecord
  <2> QED BY <1>3, <2>1, ReadForRecordOK, SameAccounts
<1>4. CASE ApplyDepartment
  <2>1. /\ UNCHANGED <<accounts, sync, holder, people, wakeMode>> /\ unit.st = "read" /\ unit' = NoUnit
        /\ \E counted : Checkpoint(counted)
    BY <1>4 DEF ApplyDepartment
  <2> QED BY <2>1, RecordDone, SameAccounts
<1>5. CASE PassCoach
  <2>1. /\ UNCHANGED <<accounts, sync, holder, people, wakeMode>> /\ unit.st = "read" /\ unit' = NoUnit
        /\ \E counted : Checkpoint(counted)
    BY <1>5 DEF PassCoach
  <2> QED BY <2>1, RecordDone, SameAccounts
<1>6. CASE CreateCoach
  <2>1. /\ UNCHANGED <<sync, holder, people, wakeMode>> /\ unit.st = "read" /\ unit' = NoUnit
        /\ \E counted : Checkpoint(counted)
    BY <1>6 DEF CreateCoach
  <2>2. PICK a, x : Creates(a, x)
    BY <1>6, CreateCoachEffect
  <2>3. AccountsOK' /\ Grows
    BY <2>2, CreatedAccount DEF Typed
  <2> QED BY <2>1, <2>3, RecordDone
<1>7. CASE FillCoach
  <2>1. /\ UNCHANGED <<sync, holder, people, wakeMode>> /\ unit.st = "read" /\ unit' = NoUnit
        /\ \E counted : Checkpoint(counted)
    BY <1>7 DEF FillCoach
  <2>2. PICK a, x : Alters(a, x)
    BY <1>7, FillCoachEffect
  <2>3. AccountsOK' /\ Grows
    BY <2>2, AlteredAccount DEF Typed
  <2> QED BY <2>1, <2>3, RecordDone
<1>8. CASE LoseUnit
  <2>1. UNCHANGED <<accounts, sync, holder, people, wakeMode>>
    BY <1>8 DEF LoseUnit
  <2> QED BY <1>8, <2>1, LoseUnitOK, SameAccounts
<1>9. CASE NextDay
  <2>1. UNCHANGED <<accounts, sync, holder, people, wakeMode>>
    BY <1>9 DEF NextDay
  <2> QED BY <1>9, <2>1, NextDayOK, SameAccounts
<1> QED BY <1>1, <1>2, <1>3, <1>4, <1>5, <1>6, <1>7, <1>8, <1>9 DEF Job

LEMMA SyncTypes ==
  ASSUME Typed, NEW i \in Instances, Sync(i)
  PROVE  AccountsOK' /\ Grows /\ SyncOK' /\ UNCHANGED <<task, unit, wakeMode, form, did>>
<1>1. CASE SyncStart(i)
  <2>1. UNCHANGED <<accounts, task, unit, wakeMode, form, did>>
    BY <1>1 DEF SyncStart
  <2> QED BY <1>1, <2>1, SyncStartOK, SameAccounts
<1>2. CASE \E v \in Places : SyncVenue(i, v)
  <2>1. UNCHANGED <<accounts, task, unit, wakeMode, form, did>>
    BY <1>2 DEF SyncVenue, people
  <2> QED BY <1>2, <2>1, SyncVenueOK, SameAccounts
<1>3. CASE SyncRead(i)
  <2>1. UNCHANGED <<accounts, task, unit, wakeMode, form, did>>
    BY <1>3 DEF SyncRead, people
  <2> QED BY <1>3, <2>1, SyncReadOK, SameAccounts
<1>4. CASE \E n \in People : SyncCreate(i, n)
  <2>1. UNCHANGED <<task, unit, wakeMode, form, did>>
    BY <1>4 DEF SyncCreate, people
  <2> QED BY <1>4, <2>1, SyncCreateOK
<1>5. CASE \E n \in People : SyncLine(i, n)
  <2>1. UNCHANGED <<task, unit, wakeMode, form, did>>
    BY <1>5 DEF SyncLine, people
  <2> QED BY <1>5, <2>1, SyncLineOK
<1>6. CASE SyncNumber(i)
  <2>1. UNCHANGED <<task, unit, wakeMode, form, did>>
    BY <1>6 DEF SyncNumber, people
  <2> QED BY <1>6, <2>1, SyncNumberOK
<1>7. CASE SyncEnd(i)
  <2>1. UNCHANGED <<accounts, task, unit, wakeMode, form, did>>
    BY <1>7 DEF SyncEnd, people
  <2> QED BY <1>7, <2>1, SyncEndOK, SameAccounts
<1> QED BY <1>1, <1>2, <1>3, <1>4, <1>5, <1>6, <1>7 DEF Sync

LEMMA PersonTypes ==
  ASSUME Typed, Person
  PROVE  AccountsOK' /\ Grows /\ FormOK' /\ UNCHANGED imports
<1>1. ASSUME NEW n \in People, NEW l \in Lines, Register(n, l)
      PROVE  AccountsOK' /\ Grows /\ FormOK' /\ UNCHANGED imports
  <2> DEFINE f == [st |-> "new", id |-> Null, name |-> n, line |-> l]
  <2>1. form' = f /\ UNCHANGED accounts /\ UNCHANGED imports
    BY <1>1 DEF Register, others
  <2>2. f \in Form
    BY DEF Form
  <2>3. FormOK'
    BY <2>1, <2>2 DEF FormOK
  <2> QED BY <2>1, <2>3, SameAccounts
<1>2. ASSUME NEW a \in Ids, NEW l \in Lines, Link(a, l)
      PROVE  AccountsOK' /\ Grows /\ FormOK' /\ UNCHANGED imports
  <2> DEFINE f == [st |-> "link", id |-> a, name |-> Null, line |-> l]
  <2>1. form' = f /\ UNCHANGED accounts /\ UNCHANGED imports /\ accounts[a] # Null
    BY <1>2 DEF Link, others
  <2>2. f \in Form
    BY DEF Form
  <2>3. FormOK'
    BY <2>1, <2>2 DEF FormOK
  <2> QED BY <2>1, <2>3, SameAccounts
<1>3. CASE WriteForm
  <2>1. form' = NoForm /\ UNCHANGED imports /\ AccountsOK
    BY <1>3 DEF WriteForm, others, Typed
  <2>2. AccountsOK' /\ Grows
    BY <1>3, <2>1, WriteFormEffect, SameAccounts, AlteredAccount, CreatedAccount
  <2> QED BY <2>1, <2>2, FormKept
<1>4. ASSUME NEW a \in Ids, Clear(a) PROVE AccountsOK' /\ Grows /\ FormOK' /\ UNCHANGED imports
  <2>1. form' = form /\ UNCHANGED imports /\ AccountsOK
    BY <1>4 DEF Clear, others, Typed
  <2>2. AccountsOK' /\ Grows
    BY <1>4, <2>1, ClearEffect, AlteredAccount
  <2> QED BY <2>1, <2>2, FormKept
<1>5. ASSUME NEW a \in Ids, NEW n \in People, Rename(a, n)
      PROVE  AccountsOK' /\ Grows /\ FormOK' /\ UNCHANGED imports
  <2>1. form' = form /\ UNCHANGED imports
    BY <1>5 DEF Rename, others
  <2>2. AccountsOK' /\ Grows
    BY <1>5, RenameEffect
  <2> QED BY <2>1, <2>2, FormKept
<1>6. ASSUME NEW a \in Ids, NEW s \in {"approved", "rejected"}, SetStatus(a, s)
      PROVE  AccountsOK' /\ Grows /\ FormOK' /\ UNCHANGED imports
  <2>1. form' = form /\ UNCHANGED imports /\ AccountsOK
    BY <1>6 DEF SetStatus, others, Typed
  <2>2. AccountsOK' /\ Grows
    BY <1>6, <2>1, SetStatusEffect, AlteredAccount
  <2> QED BY <2>1, <2>2, FormKept
<1>7. ASSUME NEW v \in Places, OpenVenue(v) PROVE AccountsOK' /\ Grows /\ FormOK' /\ UNCHANGED imports
  <2>1. /\ form' = [NoForm EXCEPT !.st = "venue", !.name = v] /\ UNCHANGED accounts
        /\ UNCHANGED imports
    BY <1>7 DEF OpenVenue, others
  <2>2. form' \in Form /\ form'.st = "venue" /\ form'.name = v
    BY <2>1, NothingInHand DEF Form
  <2>3. FormOK'
    BY <2>2 DEF FormOK
  <2> QED BY <2>1, <2>3, SameAccounts
<1>8. ASSUME NEW v \in Places, CloseVenue(v) PROVE AccountsOK' /\ Grows /\ FormOK' /\ UNCHANGED imports
  <2>1. form' = form /\ UNCHANGED imports /\ UNCHANGED accounts
    BY <1>8 DEF CloseVenue
  <2> QED BY <2>1, FormKept, SameAccounts
<1>9. CASE WriteVenue
  <2>1. form' = NoForm /\ UNCHANGED imports /\ UNCHANGED accounts
    BY <1>9 DEF WriteVenue
  <2> QED BY <2>1, FormKept, SameAccounts
<1> QED BY <1>1, <1>2, <1>3, <1>4, <1>5, <1>6, <1>7, <1>8, <1>9 DEF Person

\* Of a venue there is one more, one less, or as many as before.
LEMMA VenueCount ==
  ASSUME VenuesOK, NEW v \in Places, NEW k \in Nat, venues' = [venues EXCEPT ![v] = k]
  PROVE  VenuesOK'
BY DEF VenuesOK

LEMMA VenueInHand ==
  ASSUME Typed, unit.st = "read", task.phase = "apply_departments"
  PROVE  /\ task.cursor \in Nat /\ task.cursor + 1 \in 1 .. Len(task.departments)
         /\ Records = task.departments /\ Records[task.cursor + 1] \in Places
<1>1. task \in Task /\ task.cursor < Len(Records) /\ Records = task.departments
  BY DEF Typed, TaskOK, UnitOK, Records, RecordsOf
<1>2. task.cursor \in Nat /\ task.departments \in Seq(Places)
  BY <1>1 DEF Task
<1>3. task.cursor + 1 \in 1 .. Len(task.departments)
  BY <1>1, <1>2
<1> QED BY <1>1, <1>2, <1>3

LEMMA VenuesTyped ==
  ASSUME Typed, ImportNext
  PROVE  VenuesOK'
<1>0. VenuesOK /\ \A v \in Places : venues[v] \in Nat /\ venues[v] + 1 \in Nat
  BY DEF Typed, VenuesOK
<1>1. CASE UNCHANGED venues
  BY <1>0, <1>1 DEF VenuesOK
<1>2. CASE ApplyDepartment
  <2>1. /\ Records[task.cursor + 1] \in Places
        /\ \/ UNCHANGED venues
           \/ venues' = [venues EXCEPT ![Records[task.cursor + 1]] = @ + 1]
    BY <1>2, VenueInHand DEF ApplyDepartment
  <2> QED BY <1>0, <1>1, <2>1, VenueCount
<1>3. ASSUME NEW i \in Instances, NEW v \in Places, SyncVenue(i, v) PROVE VenuesOK'
  BY <1>0, <1>1, <1>3, VenueCount DEF SyncVenue
<1>4. CASE WriteVenue
  <2>1. form.name \in Places /\ venues' = [venues EXCEPT ![form.name] = @ + 1]
    BY <1>4 DEF WriteVenue, Typed, FormOK
  <2> QED BY <1>0, <2>1, VenueCount
<1>5. ASSUME NEW v \in Places, CloseVenue(v) PROVE VenuesOK'
  <2>1. venues[v] - 1 \in Nat /\ venues' = [venues EXCEPT ![v] = @ - 1]
    BY <1>0, <1>5 DEF CloseVenue
  <2> QED BY <1>0, <2>1, VenueCount
<1>6. CASE Job
  BY <1>1, <1>2, <1>6 DEF Job, FetchSource, PassPhase, ReadForRecord, PassCoach, CreateCoach,
                          FillCoach, LoseUnit, NextDay
<1>7. ASSUME NEW i \in Instances, Sync(i) PROVE VenuesOK'
  BY <1>1, <1>3, <1>7 DEF Sync, SyncStart, SyncRead, SyncCreate, SyncLine, SyncNumber, SyncEnd
<1>8. CASE Person
  BY <1>1, <1>4, <1>5, <1>8 DEF Person, Register, Link, WriteForm, Clear, Rename, SetStatus,
                                OpenVenue, others
<1> QED BY <1>6, <1>7, <1>8 DEF ImportNext

LEMMA BoundsTyped ==
  ASSUME Typed, ImportNext
  PROVE  BoundsOK'
<1>0. BoundsOK /\ MaxChanges \in Nat
  BY ImportAssumption DEF Typed
<1>1. CASE UNCHANGED <<excused, changes>>
  BY <1>0, <1>1 DEF BoundsOK
<1>2. ASSUME Change \/ UNCHANGED changes,
             NEW new \in SUBSET (People \cup Places), excused' = excused \cup new
      PROVE  BoundsOK'
  BY <1>0, <1>2 DEF BoundsOK, Change
<1>3. CASE Job
  <2>1. UNCHANGED people
    BY <1>3, JobTypes
  <2> QED BY <1>1, <2>1 DEF people
<1>4. ASSUME NEW i \in Instances, Sync(i) PROVE BoundsOK'
  <2>1. CASE SyncStart(i)
    <3>1. CASE UNCHANGED <<excused, changes>>
      BY <1>1, <3>1
    <3>2. CASE Unlocked
      <4> DEFINE new == People \cup Places
      <4>1. Change /\ excused' = excused \cup new
        BY <3>2 DEF Unlocked
      <4> QED BY <1>2, <4>1
    <3> QED BY <2>1, <3>1, <3>2 DEF SyncStart, Lock
  <2>2. CASE ~SyncStart(i)
    BY <1>1, <1>4, <2>2 DEF Sync, SyncVenue, SyncRead, SyncCreate, SyncLine, SyncNumber, SyncEnd, people
  <2> QED BY <2>1, <2>2
<1>5. CASE Person
  <2>1. CASE WriteForm
    <3>1. form.st = "new" => form.name \in People
      BY DEF Typed, FormOK
    <3> QED BY <1>1, <1>2, <2>1, <3>1 DEF WriteForm
  <2>2. CASE WriteVenue
    <3>1. form.name \in Places
      BY <2>2 DEF WriteVenue, Typed, FormOK
    <3> QED BY <1>2, <2>2, <3>1 DEF WriteVenue
  <2>3. ASSUME NEW a \in Ids, NEW n \in People, Rename(a, n) PROVE BoundsOK'
    BY <1>2, <2>3 DEF Rename
  <2>4. CASE Change /\ UNCHANGED excused
    BY <1>0, <2>4 DEF BoundsOK, Change
  <2> QED BY <1>5, <2>1, <2>2, <2>3, <2>4
        DEF Person, Register, Link, Clear, SetStatus, OpenVenue, CloseVenue
<1> QED BY <1>3, <1>4, <1>5 DEF ImportNext

LEMMA InitTyped == ImportInit => Typed
<1> SUFFICES ASSUME ImportInit PROVE Typed
  OBVIOUS
<1>1. AccountsOK
  <2>1. accounts = AtStart
    BY DEF ImportInit
  <2> QED BY <2>1, ImportAssumption DEF AccountsOK, Owners
<1>2. TaskOK
  <2>1. task = NewTask
    BY DEF ImportInit
  <2> QED BY <2>1, NewTaskRight, ImportAssumption DEF TaskOK, Applying
<1>3. UnitOK
  BY NothingInHand DEF ImportInit, UnitOK
<1>4. SyncOK
  <2>1. sync = [i \in Instances |-> NoSync] /\ holder = Null
    BY DEF ImportInit
  <2>2. \A i \in Instances : sync[i] = NoSync
    BY <2>1
  <2> QED BY <2>1, <2>2, NothingInHand, NullIsNothing DEF SyncOK, NoAccounts
<1>5. FormOK
  BY NothingInHand DEF ImportInit, FormOK
<1>6. VenuesOK /\ BoundsOK
  BY ImportAssumption DEF ImportInit, VenuesOK, BoundsOK
<1> QED BY <1>1, <1>2, <1>3, <1>4, <1>5, <1>6 DEF Typed

LEMMA NextTyped == Typed /\ [ImportNext]_importVars => Typed' /\ Grows
<1> SUFFICES ASSUME Typed, [ImportNext]_importVars PROVE Typed' /\ Grows
  OBVIOUS
<1>1. CASE Job
  <2>1. /\ AccountsOK' /\ TaskOK' /\ UnitOK' /\ Grows /\ UNCHANGED <<sync, holder, people, wakeMode>>
    BY <1>1, JobTypes
  <2>2. SyncOK' /\ FormOK'
    BY <2>1, SyncKept, FormKept DEF people
  <2> QED BY <1>1, <2>1, <2>2, VenuesTyped, BoundsTyped DEF Typed, ImportNext
<1>2. ASSUME NEW i \in Instances, Sync(i) PROVE Typed' /\ Grows
  <2>1. AccountsOK' /\ Grows /\ SyncOK' /\ UNCHANGED <<task, unit, wakeMode, form, did>>
    BY <1>2, SyncTypes
  <2>2. TaskOK' /\ UnitOK' /\ FormOK'
    BY <2>1, UnitKept, FormKept
  <2> QED BY <1>2, <2>1, <2>2, VenuesTyped, BoundsTyped DEF Typed, ImportNext
<1>3. CASE Person
  <2>1. AccountsOK' /\ Grows /\ FormOK' /\ UNCHANGED imports
    BY <1>3, PersonTypes
  <2>2. TaskOK' /\ UnitOK' /\ SyncOK'
    BY <2>1, UnitKept, SyncKept DEF imports
  <2> QED BY <1>3, <2>1, <2>2, VenuesTyped, BoundsTyped DEF Typed, ImportNext
<1>4. CASE UNCHANGED importVars
  <2>1. Grows /\ UNCHANGED <<accounts, task, unit, sync, holder, form, wakeMode>>
    BY <1>4 DEF importVars, Grows
  <2>2. AccountsOK' /\ TaskOK' /\ UnitOK' /\ SyncOK' /\ FormOK'
    BY <2>1, SameAccounts, UnitKept, SyncKept, FormKept
  <2> QED BY <1>4, <2>1, <2>2 DEF Typed, importVars, VenuesOK, BoundsOK
<1> QED BY <1>1, <1>2, <1>3, <1>4 DEF ImportNext

LEMMA AlwaysTyped == ImportSpec => []Typed
<1>1. Typed /\ [ImportNext]_importVars => Typed'
  BY NextTyped
<1> QED BY <1>1, InitTyped, PTL DEF ImportSpec

LEMMA TypedIsTypeOK == Typed => ImportTypeOK
<1> SUFFICES ASSUME Typed PROVE ImportTypeOK
  OBVIOUS
<1>1. /\ accounts \in Accounts /\ venues \in [Places -> Nat]
      /\ \A a \in Ids : accounts[a] # Null => Owners(accounts[a].line, accounts) \subseteq {a}
      /\ excused \subseteq People \cup Places /\ changes \in 0 .. MaxChanges
  BY DEF Typed, AccountsOK, VenuesOK, BoundsOK
<1>2. /\ task.phase \in Phases /\ task.state \in {"ready", "done", "failed"}
      /\ task.left \in 0 .. JobTries /\ (task.left = 0 => task.state = "failed")
  BY DEF Typed, TaskOK, Task
<1>3. unit.seen \in Accounts /\ (unit.st = "read" => Applying /\ task.cursor < Len(Records))
  BY DEF Typed, UnitOK, Unit
<1>4. \A i \in Instances :
        /\ sync[i].st \in {"off", "venues", "line", "number"} /\ sync[i].seen \in Accounts
        /\ (sync[i].locked <=> holder = i)
        /\ (sync[i].st = "number" => Named(sync[i].name, sync[i].seen) # {})
  BY DEF Typed, SyncOK, SyncState
<1> QED BY <1>1, <1>2, <1>3, <1>4 DEF ImportTypeOK

\* Every state has the types of ImportTypeOK: two accounts never have one LINE account,
\* whatever the imports and people write between each other's reads.
THEOREM ImportTypes == ImportSpec => []ImportTypeOK
BY AlwaysTyped, TypedIsTypeOK, PTL

-----------------------------------------------------------------------------
(* No twins. *)
\* Of the synchronisations under way, those without the lock excuse every name.
Everything == People \cup Places \subseteq excused
Alone == \A i \in Instances : sync[i].st # "off" => sync[i].locked \/ Everything
\* Who has a name that no person gave was seen by every import that may still create.
NameSeen ==
  /\ unit.st = "read" =>
       \A n \in People \ excused : Named(n, accounts) \subseteq Named(n, unit.seen)
  /\ \A i \in Instances : sync[i].st \in {"line", "number"} =>
       \A n \in People \ excused : Named(n, accounts) \subseteq Named(n, sync[i].seen)
OneName == \A n \in People \ excused : \A a, b \in Named(n, accounts) : a = b
\* A venue that an import is to make, and that no person named, is not there.
PlaceSeen ==
  /\ unit.st = "read" /\ task.phase = "apply_departments" /\ ~unit.place =>
       Records[task.cursor + 1] \in excused \/ venues[Records[task.cursor + 1]] = 0
  /\ \A i \in Instances : sync[i].st = "venues" =>
       \A v \in sync[i].venues \ (sync[i].places \cup excused) : venues[v] = 0
OnePlace == \A v \in Places \ excused : venues[v] <= 1

\* A step after which no account has a name it had not, but for names people gave.
Quiet ==
  /\ excused \subseteq excused'
  /\ \A n \in People \ excused' : Named(n, accounts') \subseteq Named(n, accounts)

LEMMA AlteredQuiet ==
  ASSUME AccountsOK, NEW a, NEW x, Alters(a, x)
  PROVE  \A n \in People : Named(n, accounts') \subseteq Named(n, accounts)
BY AlteredAccount DEF Alters, Writes, Named

LEMMA CreatedNamed ==
  ASSUME AccountsOK, NEW a, NEW x, Creates(a, x)
  PROVE  \A n \in People :
           Named(n, accounts') \subseteq Named(n, accounts) \cup (IF x.name = n THEN {a} ELSE {})
BY CreatedAccount DEF Creates, Writes, Named

LEMMA QuietName == ASSUME OneName, Quiet PROVE OneName'
BY DEF OneName, Quiet

LEMMA QuietSeen ==
  ASSUME NameSeen, Quiet, UNCHANGED sync,
         unit' = unit \/ unit'.st = "none" \/ (unit'.seen = accounts /\ UNCHANGED accounts)
  PROVE  NameSeen'
BY DEF NameSeen, Quiet

\* Either no other synchronisation is under way, or every name is excused.
LEMMA OthersOff ==
  ASSUME Typed, Alone, NEW i \in Instances, sync[i].st # "off",
         NEW j \in Instances, j # i, sync[j].st # "off"
  PROVE  Everything
BY DEF Typed, SyncOK, Alone

LEMMA AloneKept ==
  ASSUME Typed, Alone, excused \subseteq excused', NEW i \in Instances, NEW s, Becomes(i, s),
         s.st # "off" => s.locked \/ Everything'
  PROVE  Alone'
<1>1. sync'[i] = s /\ \A j \in Instances \ {i} : sync'[j] = sync[j]
  BY DEF Becomes, Typed, SyncOK
<1> QED BY <1>1 DEF Alone, Everything

\* What synchronisation i has seen after its step is seen, and so is what others have.
LEMMA SyncSeen ==
  ASSUME Typed, Alone, NameSeen, excused \subseteq excused', UNCHANGED unit,
         NEW i \in Instances, NEW s, sync[i].st # "off", Becomes(i, s),
         s.st \in {"line", "number"} =>
           \A n \in People \ excused' : Named(n, accounts') \subseteq Named(n, s.seen)
  PROVE  NameSeen'
<1>1. sync'[i] = s /\ \A j \in Instances \ {i} : sync'[j] = sync[j]
  BY DEF Becomes, Typed, SyncOK
<1>2. unit'.st # "read"
  BY Syncing DEF Typed, UnitOK
<1>3. ASSUME NEW j \in Instances, sync'[j].st \in {"line", "number"}, NEW n \in People \ excused'
      PROVE  Named(n, accounts') \subseteq Named(n, sync'[j].seen)
  <2>1. CASE j = i
    BY <1>1, <1>3, <2>1
  <2>2. CASE j # i
    <3>1. sync[j].st # "off"
      BY <1>1, <1>3, <2>2
    <3>2. n \in excused
      BY <2>2, <3>1, OthersOff DEF Everything
    <3> QED BY <1>3, <3>2
  <2> QED BY <2>1, <2>2
<1> QED BY <1>2, <1>3 DEF NameSeen

\* The job creates an account only of a name it saw nobody have, alone in its mode.
LEMMA JobNames ==
  ASSUME Typed, NameSeen, OneName, Job
  PROVE  NameSeen' /\ OneName'
<1>0. UNCHANGED <<sync, excused, wakeMode>> /\ AccountsOK
  BY JobTypes DEF people, Typed
<1>1. CASE UNCHANGED accounts /\ (unit' = unit \/ unit' = NoUnit \/ unit'.seen = accounts)
  <2>1. Quiet
    BY <1>0, <1>1 DEF Quiet
  <2>2. unit' = unit \/ unit'.st = "none" \/ (unit'.seen = accounts /\ UNCHANGED accounts)
    BY <1>1, NothingInHand
  <2> QED BY <1>0, <2>1, <2>2, QuietName, QuietSeen
<1>2. CASE FillCoach
  <2>1. Quiet
    BY <1>0, <1>2, FillCoachEffect, AlteredQuiet DEF Quiet
  <2>2. unit'.st = "none"
    BY <1>2, NothingInHand DEF FillCoach
  <2> QED BY <1>0, <2>1, <2>2, QuietName, QuietSeen
<1>3. CASE CreateCoach
  <2> DEFINE n == task.coaches[task.cursor + 1].name
  <2>1. PICK a, x : Creates(a, x) /\ x.name = n
    BY <1>3, CreateCoachEffect
  <2>2. n \in People /\ Named(n, unit.seen) = {} /\ unit.st = "read" /\ unit'.st = "none"
    BY <1>3, CreateCoachEffect, NothingInHand DEF CreateCoach
  <2>3. n \in excused \/ Named(n, accounts) = {}
    BY <2>2 DEF NameSeen
  <2> HIDE DEF n
  <2>4. OneName'
    BY <1>0, <2>1, <2>3, CreatedNamed DEF OneName
  <2>5. \A i \in Instances : sync'[i].st = "off"
    BY <1>0, <2>2, NothingInHand DEF Typed, UnitOK, SyncOK
  <2> QED BY <2>2, <2>4, <2>5 DEF NameSeen
<1>4. CASE ~FillCoach /\ ~CreateCoach
  <2>1. CASE ReadForRecord
    <3>1. UNCHANGED accounts /\ unit'.seen = accounts
      BY <2>1 DEF ReadForRecord
    <3> QED BY <1>1, <3>1
  <2>2. CASE ~ReadForRecord
    BY <1>1, <1>4, <2>2 DEF Job, FetchSource, PassPhase, ApplyDepartment, PassCoach, LoseUnit, NextDay
  <2> QED BY <2>1, <2>2
<1> QED BY <1>2, <1>3, <1>4

LEMMA PersonQuiet ==
  ASSUME Typed, Person
  PROVE  Quiet /\ UNCHANGED <<sync, unit, task>>
<1>0. UNCHANGED <<sync, unit, task>> /\ AccountsOK
  BY PersonTypes DEF imports, Typed
<1>1. CASE UNCHANGED accounts /\ excused \subseteq excused'
  BY <1>0, <1>1 DEF Quiet
<1>2. CASE WriteForm
  <2>1. excused \subseteq excused'
    BY <1>2 DEF WriteForm
  <2> QED BY <1>0, <1>1, <1>2, <2>1, WriteFormEffect, AlteredQuiet, CreatedNamed DEF Quiet
<1>3. ASSUME NEW a \in Ids, Clear(a) PROVE Quiet
  BY <1>0, <1>3, ClearEffect, AlteredQuiet DEF Quiet, Clear
<1>4. ASSUME NEW a \in Ids, NEW n \in People, Rename(a, n) PROVE Quiet
  <2>1. /\ excused' = excused \cup {n} /\ accounts'[a].name = n
        /\ \A b \in Ids \ {a} : accounts'[b] = accounts[b]
    BY <1>4, RenameEffect
  <2> QED BY <2>1 DEF Quiet, Named
<1>5. ASSUME NEW a \in Ids, NEW s \in {"approved", "rejected"}, SetStatus(a, s) PROVE Quiet
  BY <1>0, <1>5, SetStatusEffect, AlteredQuiet DEF Quiet, SetStatus
<1> QED BY <1>0, <1>1, <1>2, <1>3, <1>4, <1>5
      DEF Person, Register, Link, OpenVenue, CloseVenue, WriteVenue

LEMMA SyncCreateNames ==
  ASSUME Typed, Alone, NameSeen, OneName, NEW i \in Instances, NEW n \in People, SyncCreate(i, n)
  PROVE  NameSeen' /\ OneName' /\ Alone'
<1>0. /\ sync[i].st = "line" /\ Named(n, sync[i].seen) = {} /\ UNCHANGED <<unit, excused>>
      /\ sync[i] \in SyncState /\ AccountsOK /\ sync[i].seen \in Accounts
      /\ sync[i].locked \/ Everything
  BY SyncTyped, SyncCreateEffect DEF SyncCreate, people, Alone, Typed
<1>1. CASE /\ UNCHANGED <<accounts, bound>>
           /\ \E s : Becomes(i, s) /\ s = [sync[i] EXCEPT !.names = @ \ {n}]
  <2>1. PICK s : Becomes(i, s) /\ s = [sync[i] EXCEPT !.names = @ \ {n}]
    BY <1>1
  <2>2. s.st = "line" /\ s.seen = sync[i].seen /\ s.locked = sync[i].locked
    BY <1>0, <2>1 DEF SyncState
  <2>3. s.st \in {"line", "number"} =>
          \A m \in People \ excused' : Named(m, accounts') \subseteq Named(m, s.seen)
    BY <1>0, <1>1, <2>2 DEF NameSeen
  <2>4. excused \subseteq excused' /\ sync[i].st # "off" /\ OneName'
    BY <1>0, <1>1 DEF OneName
  <2>5. s.st # "off" => s.locked \/ Everything'
    BY <1>0, <2>2 DEF Everything
  <2>6. NameSeen'
    BY <1>0, <2>1, <2>3, <2>4, SyncSeen
  <2>7. Alone'
    BY <2>1, <2>4, <2>5, AloneKept
  <2> QED BY <2>4, <2>6, <2>7
<1>2. CASE \E a, x, s :
             /\ Creates(a, x) /\ x.name = n /\ Bind(a, i) /\ Becomes(i, s)
             /\ s = [sync[i] EXCEPT !.names = @ \ {n}, !.seen = [@ EXCEPT ![a] = x]]
  <2>1. PICK a, x, s :
          /\ Creates(a, x) /\ x.name = n /\ Becomes(i, s)
          /\ s = [sync[i] EXCEPT !.names = @ \ {n}, !.seen = [@ EXCEPT ![a] = x]]
    BY <1>2
  <2>2. s.st = "line" /\ s.seen = [sync[i].seen EXCEPT ![a] = x] /\ s.locked = sync[i].locked
    BY <1>0, <2>1 DEF SyncState
  <2>3. a \in Ids /\ x \in Account /\ accounts[a] = Null
    BY <2>1 DEF Creates, Writes
  <2>4. s.seen[a] = x /\ \A b \in Ids \ {a} : s.seen[b] = sync[i].seen[b]
    BY <1>0, <2>2, <2>3 DEF Accounts
  <2>5. sync[i].seen[a] = Null
    BY <1>0, <2>3 DEF Typed, SyncOK
  <2>6. \A m \in People : Named(m, accounts') \subseteq Named(m, accounts) \cup (IF m = n THEN {a} ELSE {})
    BY <1>0, <2>1, CreatedNamed
  <2>7. \A m \in People : Named(m, s.seen) = Named(m, sync[i].seen) \cup (IF m = n THEN {a} ELSE {})
    BY <2>1, <2>3, <2>4, <2>5, NullIsNothing DEF Named
  <2>8. \A m \in People \ excused : Named(m, accounts) \subseteq Named(m, sync[i].seen)
    BY <1>0 DEF NameSeen
  <2>9. s.st \in {"line", "number"} =>
          \A m \in People \ excused' : Named(m, accounts') \subseteq Named(m, s.seen)
    BY <1>0, <2>6, <2>7, <2>8
  <2>10. excused \subseteq excused' /\ sync[i].st # "off"
    BY <1>0
  <2>11. OneName'
    BY <1>0, <2>6, <2>8 DEF OneName
  <2>12. NameSeen'
    BY <1>0, <2>1, <2>9, <2>10, SyncSeen
  <2>13. s.st # "off" => s.locked \/ Everything'
    BY <1>0, <2>2 DEF Everything
  <2>14. Alone'
    BY <2>1, <2>10, <2>13, AloneKept
  <2> QED BY <2>11, <2>12, <2>14
<1> QED BY <1>1, <1>2, SyncCreateEffect

LEMMA SyncLineNames ==
  ASSUME Typed, Alone, NameSeen, OneName, NEW i \in Instances, NEW n \in People, SyncLine(i, n)
  PROVE  NameSeen' /\ OneName' /\ Alone'
<1>0. /\ sync[i].st = "line" /\ UNCHANGED <<unit, excused>>
      /\ sync[i] \in SyncState /\ AccountsOK /\ sync[i].seen \in Accounts
      /\ sync[i].locked \/ Everything
  BY SyncTyped, SyncLineEffect DEF SyncLine, people, Alone, Typed
<1>1. \A m \in People : Named(m, accounts') \subseteq Named(m, accounts)
  BY <1>0, SyncLineEffect, AlteredQuiet
<1>2. OneName'
  BY <1>0, <1>1, QuietName DEF Quiet
<1>3. \E s : /\ Becomes(i, s) /\ s.st = "number" /\ s.locked = sync[i].locked
             /\ \A m \in People : Named(m, sync[i].seen) \subseteq Named(m, s.seen)
  <2>1. CASE /\ UNCHANGED <<accounts, bound>>
             /\ \E s : Becomes(i, s) /\ s = [sync[i] EXCEPT !.st = "number", !.name = n]
    BY <1>0, <2>1 DEF SyncState
  <2>2. CASE \E a, x, s :
               /\ Alters(a, x) /\ Bind(a, i) /\ Becomes(i, s)
               /\ sync[i].seen[a] # Null /\ sync[i].seen[a].line = Null
               /\ s = [sync[i] EXCEPT !.st = "number", !.name = n, !.seen[a].line = x.line]
    <3>1. PICK a, x, s :
            /\ Alters(a, x) /\ Becomes(i, s) /\ sync[i].seen[a] # Null
            /\ s = [sync[i] EXCEPT !.st = "number", !.name = n, !.seen[a].line = x.line]
      BY <2>2
    <3>2. s.st = "number" /\ s.seen = [sync[i].seen EXCEPT ![a].line = x.line] /\ s.locked = sync[i].locked
      BY <1>0, <3>1 DEF SyncState
    <3>3. a \in Ids
      BY <3>1 DEF Alters, Writes
    <3>4. /\ \A b \in Ids \ {a} : s.seen[b] = sync[i].seen[b]
          /\ s.seen[a] = [sync[i].seen[a] EXCEPT !.line = x.line]
      BY <1>0, <3>2, <3>3 DEF Accounts
    <3>5. sync[i].seen[a] \in Account /\ x.line \in Lines \cup {Null}
      BY <1>0, <3>1, <3>3 DEF Accounts, Alters, Writes, Account
    <3>6. s.seen[a] \in Account /\ s.seen[a].name = sync[i].seen[a].name
      BY <3>4, <3>5 DEF Account
    <3>7. \A m \in People : Named(m, sync[i].seen) \subseteq Named(m, s.seen)
      BY <3>4, <3>6, NullIsNothing DEF Named
    <3>8. /\ Becomes(i, s) /\ s.st = "number" /\ s.locked = sync[i].locked
          /\ \A m \in People : Named(m, sync[i].seen) \subseteq Named(m, s.seen)
      BY <3>1, <3>2, <3>7
    <3> QED BY <3>8
  <2> QED BY <2>1, <2>2, SyncLineEffect
<1>4. PICK s : /\ Becomes(i, s) /\ s.st = "number" /\ s.locked = sync[i].locked
               /\ \A m \in People : Named(m, sync[i].seen) \subseteq Named(m, s.seen)
  BY <1>3
<1>5. s.st \in {"line", "number"} =>
        \A m \in People \ excused' : Named(m, accounts') \subseteq Named(m, s.seen)
  BY <1>0, <1>1, <1>4 DEF NameSeen
<1>6. excused \subseteq excused' /\ sync[i].st # "off"
  BY <1>0
<1>7. s.st # "off" => s.locked \/ Everything'
  BY <1>0, <1>4 DEF Everything
<1>8. NameSeen'
  BY <1>0, <1>4, <1>5, <1>6, SyncSeen
<1>9. Alone'
  BY <1>4, <1>6, <1>7, AloneKept
<1> QED BY <1>2, <1>8, <1>9

LEMMA SyncOtherNames ==
  ASSUME Typed, Alone, NameSeen, OneName, NEW i \in Instances,
         SyncStart(i) \/ (\E v \in Places : SyncVenue(i, v)) \/ SyncRead(i) \/ SyncNumber(i) \/ SyncEnd(i)
  PROVE  NameSeen' /\ OneName' /\ Alone'
<1>0. AccountsOK /\ sync[i] \in SyncState /\ sync \in [Instances -> SyncState]
  BY DEF Typed, SyncOK
<1>1. excused \subseteq excused' /\ UNCHANGED unit
  BY DEF SyncStart, SyncVenue, SyncRead, SyncNumber, SyncEnd, people, Lock, Unlocked
<1>2. Quiet /\ OneName'
  <2>1. CASE UNCHANGED accounts
    BY <1>1, <2>1, QuietName DEF Quiet
  <2>2. CASE SyncNumber(i)
    BY <1>0, <1>1, <2>1, <2>2, SyncNumberEffect, AlteredQuiet, QuietName DEF Quiet
  <2> QED BY <2>1, <2>2 DEF SyncStart, SyncVenue, SyncRead, SyncEnd
<1>3. ASSUME NEW s, sync' = [sync EXCEPT ![i] = s], s.st # "off" => s.locked \/ Everything',
             \/ s.st \notin {"line", "number"}
             \/ UNCHANGED accounts /\ s.seen = accounts
             \/ sync[i].st \in {"line", "number"} /\ s.seen = sync[i].seen
      PROVE  NameSeen' /\ Alone'
  <2>1. sync'[i] = s /\ \A j \in Instances \ {i} : sync'[j] = sync[j]
    BY <1>0, <1>3
  <2>2. Alone'
    BY <1>1, <1>3, <2>1 DEF Alone, Everything
  <2>3. ASSUME NEW j \in Instances, sync'[j].st \in {"line", "number"}
        PROVE  \A n \in People \ excused' : Named(n, accounts') \subseteq Named(n, sync'[j].seen)
    <3>1. CASE j # i \/ (sync[i].st \in {"line", "number"} /\ s.seen = sync[i].seen)
      BY <1>2, <2>1, <2>3, <3>1 DEF NameSeen, Quiet
    <3>2. CASE j = i /\ UNCHANGED accounts /\ s.seen = accounts
      BY <2>1, <3>2
    <3> QED BY <1>3, <2>1, <2>3, <3>1, <3>2
  <2>4. unit'.st = "read" =>
          \A n \in People \ excused' : Named(n, accounts') \subseteq Named(n, unit'.seen)
    BY <1>1, <1>2 DEF NameSeen, Quiet
  <2> QED BY <2>2, <2>3, <2>4 DEF NameSeen
<1>4. CASE SyncStart(i)
  <2>1. PICK locked \in BOOLEAN, q \in Sheets :
          /\ IF locked THEN Lock(i) ELSE Unlocked
          /\ sync' = [sync EXCEPT ![i] = [NoSync EXCEPT !.st = "venues", !.locked = locked,
                                            !.venues = Listed(q.departments),
                                            !.places = {v \in Places : venues[v] > 0}]]
    BY <1>4 DEF SyncStart
  <2> DEFINE s == [NoSync EXCEPT !.st = "venues", !.locked = locked,
                     !.venues = Listed(q.departments), !.places = {v \in Places : venues[v] > 0}]
  <2>2. s.st = "venues" /\ s.locked = locked
    BY DEF NoSync
  <2>3. sync' = [sync EXCEPT ![i] = s]
    BY <2>1
  <2>4. ~locked => Everything'
    BY <2>1 DEF Unlocked, Everything
  <2> HIDE DEF s
  <2> QED BY <1>2, <1>3, <2>2, <2>3, <2>4
<1>5. ASSUME NEW v \in Places, SyncVenue(i, v) PROVE NameSeen' /\ Alone'
  <2> DEFINE s == [sync[i] EXCEPT !.venues = @ \ {v}]
  <2>1. sync' = [sync EXCEPT ![i] = s] /\ sync[i].st = "venues"
    BY <1>5 DEF SyncVenue
  <2>2. s.st = "venues" /\ s.locked = sync[i].locked
    BY <1>0, <2>1 DEF SyncState
  <2> HIDE DEF s
  <2>3. s.locked \/ Everything'
    BY <1>1, <2>1, <2>2 DEF Alone, Everything
  <2> QED BY <1>2, <1>3, <2>1, <2>2, <2>3
<1>6. CASE SyncRead(i)
  <2>1. PICK q \in Sheets, t \in Sheets :
          sync' = [sync EXCEPT ![i].st = "line", ![i].places = {}, ![i].names = Unique(q.coaches),
                               ![i].staff = t.staff, ![i].seen = accounts]
    BY <1>6 DEF SyncRead
  <2> DEFINE s == [sync[i] EXCEPT !.st = "line", !.places = {}, !.names = Unique(q.coaches),
                                  !.staff = t.staff, !.seen = accounts]
  <2>2. sync' = [sync EXCEPT ![i] = s]
    BY <2>1
  <2>3. s.locked = sync[i].locked /\ s.seen = accounts
    BY <1>0 DEF SyncState
  <2>4. sync[i].st = "venues" /\ UNCHANGED accounts
    BY <1>6 DEF SyncRead
  <2> HIDE DEF s
  <2>5. s.locked \/ Everything'
    BY <1>1, <2>3, <2>4 DEF Alone, Everything
  <2> QED BY <1>2, <1>3, <2>2, <2>3, <2>4, <2>5
<1>7. CASE SyncNumber(i)
  <2> DEFINE s == [sync[i] EXCEPT !.st = "line", !.names = @ \ {sync[i].name}, !.name = Null]
  <2>1. sync' = [sync EXCEPT ![i] = s] /\ sync[i].st = "number"
    BY <1>7 DEF SyncNumber
  <2>2. s.locked = sync[i].locked /\ s.seen = sync[i].seen
    BY <1>0 DEF SyncState
  <2> HIDE DEF s
  <2>3. s.locked \/ Everything'
    BY <1>1, <2>1, <2>2 DEF Alone, Everything
  <2> QED BY <1>2, <1>3, <2>1, <2>2, <2>3
<1>8. CASE SyncEnd(i)
  <2>1. sync' = [sync EXCEPT ![i] = NoSync]
    BY <1>8 DEF SyncEnd
  <2> QED BY <1>2, <1>3, <2>1, NothingInHand
<1> QED BY <1>2, <1>4, <1>5, <1>6, <1>7, <1>8

LEMMA SyncNames ==
  ASSUME Typed, Alone, NameSeen, OneName, NEW i \in Instances, Sync(i)
  PROVE  NameSeen' /\ OneName' /\ Alone'
BY SyncCreateNames, SyncLineNames, SyncOtherNames DEF Sync

\* Venues, in the same way.
LEMMA FewerPlaces ==
  ASSUME Typed, PlaceSeen, OnePlace, excused \subseteq excused', UNCHANGED sync,
         VenuesOK', \A v \in Places \ excused' : venues'[v] <= venues[v],
         unit'.st # "read" \/ UNCHANGED <<unit, task>>
  PROVE  PlaceSeen' /\ OnePlace'
<1>0. \A v \in Places : venues[v] \in Nat /\ venues'[v] \in Nat
  BY DEF Typed, VenuesOK
<1>1. OnePlace'
  BY <1>0 DEF OnePlace
<1>2. ASSUME NEW i \in Instances, sync'[i].st = "venues",
             NEW v \in sync'[i].venues \ (sync'[i].places \cup excused')
      PROVE  venues'[v] = 0
  <2>1. v \in Places
    BY <1>2 DEF Typed, SyncOK, SyncState
  <2>2. venues[v] = 0
    BY <1>2 DEF PlaceSeen
  <2> QED BY <1>0, <1>2, <2>1, <2>2
<1>3. ASSUME unit'.st = "read", task'.phase = "apply_departments", ~unit'.place
      PROVE  Records'[task'.cursor + 1] \in excused' \/ venues'[Records'[task'.cursor + 1]] = 0
  <2> DEFINE v == Records[task.cursor + 1]
  <2>1. UNCHANGED <<unit, task>> /\ Records' = Records
    BY <1>3 DEF Records
  <2>2. v \in Places /\ (v \in excused \/ venues[v] = 0)
    BY <1>3, <2>1, VenueInHand DEF PlaceSeen
  <2> HIDE DEF v
  <2>3. v \in excused' \/ venues'[v] = 0
    BY <1>0, <2>2
  <2> QED BY <2>1, <2>3 DEF v
<1> QED BY <1>1, <1>2, <1>3 DEF PlaceSeen

LEMMA JobPlaces ==
  ASSUME Typed, PlaceSeen, OnePlace, Job
  PROVE  PlaceSeen' /\ OnePlace'
<1>0. UNCHANGED <<sync, excused>> /\ VenuesOK' /\ \A v \in Places : venues[v] \in Nat
  BY JobTypes, VenuesTyped DEF people, ImportNext, Typed, VenuesOK
<1>1. CASE UNCHANGED venues /\ (unit'.st # "read" \/ UNCHANGED <<unit, task>>)
  BY <1>0, <1>1, FewerPlaces
<1>2. CASE ReadForRecord
  <2> DEFINE p == task.phase = "apply_departments" /\ venues[Records[task.cursor + 1]] > 0
  <2>1. /\ unit' = [st |-> "read", seen |-> accounts, place |-> p]
        /\ UNCHANGED <<venues, task>> /\ Records' = Records
    BY <1>2 DEF ReadForRecord, Records
  <2>2. unit'.place = p /\ unit'.st = "read"
    BY <2>1
  <2>3. OnePlace'
    BY <1>0, <2>1 DEF OnePlace
  <2>4. ASSUME task.phase = "apply_departments", ~p PROVE venues[Records[task.cursor + 1]] = 0
    <3> DEFINE v == Records[task.cursor + 1]
    <3>1. unit'.st = "read" /\ UnitOK' /\ TaskOK' /\ task' = task
      BY <1>2, <2>1, <2>2, ReadForRecordOK
    <3>2. task.cursor < Len(Records) /\ task \in Task /\ Records = task.departments
      BY <2>1, <2>4, <3>1 DEF UnitOK, TaskOK, Records, RecordsOf
    <3>3. task.cursor \in Nat /\ task.departments \in Seq(Places)
      BY <3>2 DEF Task
    <3>4. v \in Places
      BY <3>2, <3>3
    <3>5. ~(venues[v] > 0)
      BY <2>4
    <3> HIDE DEF v
    <3>6. venues[v] = 0
      BY <1>0, <3>4, <3>5
    <3> QED BY <3>6 DEF v
  <2> HIDE DEF p
  <2> QED BY <1>0, <2>1, <2>2, <2>3, <2>4 DEF PlaceSeen
<1>3. CASE ApplyDepartment
  <2> DEFINE v == Records[task.cursor + 1]
  <2>1. /\ unit'.st # "read" /\ unit.st = "read" /\ task.phase = "apply_departments"
        /\ venues' = IF unit.place THEN venues ELSE [venues EXCEPT ![v] = @ + 1]
    BY <1>3, NothingInHand DEF ApplyDepartment
  <2>2. v \in Places /\ (~unit.place => v \in excused \/ venues[v] = 0)
    BY <2>1, VenueInHand DEF PlaceSeen
  <2> HIDE DEF v
  <2>3. OnePlace'
    <3>1. CASE unit.place
      BY <1>0, <2>1, <3>1 DEF OnePlace
    <3>2. CASE ~unit.place
      BY <1>0, <2>1, <2>2, <3>2 DEF OnePlace, Typed, VenuesOK
    <3> QED BY <3>1, <3>2
  <2>4. \A i \in Instances : sync'[i].st = "off"
    BY <1>0, <2>1, NothingInHand DEF Typed, UnitOK, SyncOK
  <2> QED BY <2>1, <2>3, <2>4 DEF PlaceSeen
<1>4. CASE ~ReadForRecord /\ ~ApplyDepartment
  <2>1. UNCHANGED venues
    BY <1>4 DEF Job, FetchSource, PassPhase, PassCoach, CreateCoach, FillCoach, LoseUnit, NextDay
  <2>2. CASE FetchSource \/ PassPhase
    <3>1. unit' = NoUnit
      BY <2>2 DEF FetchSource, PassPhase, JobReady
    <3> QED BY <1>1, <2>1, <3>1, NothingInHand
  <2>3. CASE PassCoach \/ CreateCoach \/ FillCoach \/ LoseUnit
    <3>1. unit' = NoUnit
      BY <2>3 DEF PassCoach, CreateCoach, FillCoach, LoseUnit
    <3> QED BY <1>1, <2>1, <3>1, NothingInHand
  <2>4. CASE NextDay
    <3>1. unit'.st # "read"
      BY <2>4 DEF NextDay, Typed, UnitOK
    <3> QED BY <1>1, <2>1, <3>1
  <2> QED BY <1>4, <2>2, <2>3, <2>4 DEF Job
<1> QED BY <1>2, <1>3, <1>4

LEMMA PersonPlaces ==
  ASSUME Typed, PlaceSeen, OnePlace, Person
  PROVE  PlaceSeen' /\ OnePlace'
<1>0. /\ UNCHANGED <<sync, unit, task>> /\ VenuesOK' /\ excused \subseteq excused'
      /\ \A v \in Places : venues[v] \in Nat
  BY PersonQuiet, VenuesTyped DEF Quiet, ImportNext, Typed, VenuesOK
<1>1. ASSUME NEW v \in Places \ excused' PROVE venues'[v] <= venues[v]
  <2>1. CASE UNCHANGED venues
    BY <1>0, <2>1
  <2>2. CASE WriteVenue
    BY <1>0, <1>1, <2>2 DEF WriteVenue, Typed, VenuesOK
  <2>3. ASSUME NEW w \in Places, CloseVenue(w) PROVE venues'[v] <= venues[v]
    BY <1>0, <2>3 DEF CloseVenue, Typed, VenuesOK
  <2> QED BY <2>1, <2>2, <2>3 DEF Person, Register, Link, WriteForm, Clear, Rename, SetStatus,
                                OpenVenue, others
<1> QED BY <1>0, <1>1, FewerPlaces

\* What synchronisation i is still to make is not there after its step.
LEMMA SyncPlaceSeen ==
  ASSUME Typed, Alone, PlaceSeen, excused \subseteq excused', unit'.st # "read",
         NEW i \in Instances, NEW s, sync' = [sync EXCEPT ![i] = s],
         UNCHANGED venues \/ sync[i].st # "off",
         s.st = "venues" => \A v \in s.venues \ (s.places \cup excused') : venues'[v] = 0
  PROVE  PlaceSeen'
<1>1. sync'[i] = s /\ \A j \in Instances \ {i} : sync'[j] = sync[j]
  BY DEF Typed, SyncOK
<1>2. ASSUME NEW j \in Instances, sync'[j].st = "venues",
             NEW v \in sync'[j].venues \ (sync'[j].places \cup excused')
      PROVE  venues'[v] = 0
  <2>1. CASE j = i
    BY <1>1, <1>2, <2>1
  <2>2. CASE j # i
    <3>1. sync[j].st = "venues" /\ v \in sync[j].venues \ (sync[j].places \cup excused)
      BY <1>1, <1>2, <2>2
    <3>2. venues[v] = 0 /\ v \in Places
      BY <3>1 DEF PlaceSeen, Typed, SyncOK, SyncState
    <3>3. sync[i].st # "off" => Everything
      BY <2>2, <3>1, OthersOff
    <3> QED BY <3>1, <3>2, <3>3 DEF Everything
  <2> QED BY <2>1, <2>2
<1> QED BY <1>2 DEF PlaceSeen

LEMMA SyncPlaces ==
  ASSUME Typed, Alone, PlaceSeen, OnePlace, NEW i \in Instances, Sync(i)
  PROVE  PlaceSeen' /\ OnePlace'
<1>0. /\ unit'.st # "read" /\ sync[i] \in SyncState /\ sync \in [Instances -> SyncState]
      /\ \A v \in Places : venues[v] \in Nat
  <2>1. unit'.st # "read"
    BY SyncTypes, Syncing DEF Sync, SyncStart, SyncVenue, SyncRead, SyncCreate, SyncLine, Turn,
                              SyncNumber, SyncEnd, Typed, SyncOK, UnitOK
  <2> QED BY <2>1 DEF Typed, SyncOK, VenuesOK
<1>1. excused \subseteq excused'
  BY DEF Sync, SyncStart, SyncVenue, SyncRead, SyncCreate, SyncLine, SyncNumber, SyncEnd, people, Lock, Unlocked
<1>2. CASE UNCHANGED venues /\ \E s : Becomes(i, s) /\ s.st # "venues" /\ sync[i].st # "off"
  <2>1. PICK s : Becomes(i, s) /\ s.st # "venues"
    BY <1>2
  <2>2. PlaceSeen'
    BY <1>0, <1>1, <1>2, <2>1, SyncPlaceSeen DEF Becomes
  <2> QED BY <1>0, <1>1, <1>2, <2>2 DEF OnePlace
<1>3. CASE SyncStart(i)
  <2> DEFINE there == {v \in Places : venues[v] > 0}
  <2>1. PICK locked \in BOOLEAN, q \in Sheets :
          sync' = [sync EXCEPT ![i] = [NoSync EXCEPT !.st = "venues", !.locked = locked,
                                            !.venues = Listed(q.departments), !.places = there]]
    BY <1>3 DEF SyncStart
  <2> DEFINE s == [NoSync EXCEPT !.st = "venues", !.locked = locked,
                     !.venues = Listed(q.departments), !.places = there]
  <2>2. s.places = there /\ s.venues \subseteq Places
    <3>1. Listed(q.departments) \in SUBSET Places
      BY ImportAssumption DEF Sheet, Listed
    <3> QED BY <3>1 DEF NoSync
  <2>3. \A v \in Places \ there : venues[v] = 0
    BY <1>0
  <2>4. UNCHANGED venues /\ sync' = [sync EXCEPT ![i] = s]
    BY <1>3, <2>1 DEF SyncStart
  <2> HIDE DEF s, there
  <2>5. s.st = "venues" => \A v \in s.venues \ (s.places \cup excused') : venues'[v] = 0
    BY <2>2, <2>3, <2>4
  <2>6. PlaceSeen'
    BY <1>0, <1>1, <2>4, <2>5, SyncPlaceSeen
  <2> QED BY <1>0, <1>1, <2>4, <2>6 DEF OnePlace
<1>4. ASSUME NEW v \in Places, SyncVenue(i, v) PROVE PlaceSeen' /\ OnePlace'
  <2> DEFINE s == [sync[i] EXCEPT !.venues = @ \ {v}]
  <2>1. /\ sync' = [sync EXCEPT ![i] = s] /\ sync[i].st = "venues" /\ v \in sync[i].venues
        /\ venues' = IF v \in sync[i].places THEN venues ELSE [venues EXCEPT ![v] = @ + 1]
    BY <1>4 DEF SyncVenue
  <2>2. s.venues = sync[i].venues \ {v} /\ s.places = sync[i].places /\ s.venues \subseteq Places
    BY <1>0 DEF SyncState
  <2> HIDE DEF s
  <2>3. \A w \in sync[i].venues \ (sync[i].places \cup excused) : venues[w] = 0
    BY <2>1 DEF PlaceSeen
  <2>4. venues \in [Places -> Nat]
    BY DEF Typed, VenuesOK
  <2>5. \A w \in Places \ {v} : venues'[w] = venues[w]
    BY <2>1, <2>4
  <2>6. v \notin sync[i].places /\ v \notin excused' => venues'[v] = 1
    BY <1>1, <2>1, <2>3, <2>4
  <2>7. s.st = "venues" => \A w \in s.venues \ (s.places \cup excused') : venues'[w] = 0
    BY <1>1, <2>2, <2>3, <2>5
  <2>8. OnePlace'
    <3>1. ASSUME NEW w \in Places \ excused' PROVE venues'[w] <= 1
      <4>1. CASE w # v \/ v \in sync[i].places
        BY <1>1, <2>1, <2>5, <4>1 DEF OnePlace
      <4>2. CASE w = v /\ v \notin sync[i].places
        BY <2>6, <4>2
      <4> QED BY <4>1, <4>2
    <3> QED BY <3>1 DEF OnePlace
  <2>9. PlaceSeen'
    BY <1>0, <1>1, <2>1, <2>7, SyncPlaceSeen
  <2> QED BY <2>8, <2>9
<1>5. CASE SyncRead(i)
  <2>1. PICK q \in Sheets, t \in Sheets :
          sync' = [sync EXCEPT ![i].st = "line", ![i].places = {}, ![i].names = Unique(q.coaches),
                               ![i].staff = t.staff, ![i].seen = accounts]
    BY <1>5 DEF SyncRead
  <2> DEFINE s == [sync[i] EXCEPT !.st = "line", !.places = {}, !.names = Unique(q.coaches),
                                  !.staff = t.staff, !.seen = accounts]
  <2>2. sync' = [sync EXCEPT ![i] = s] /\ UNCHANGED venues
    BY <1>5, <2>1 DEF SyncRead
  <2>3. s.st = "line"
    BY <1>0 DEF SyncState
  <2> HIDE DEF s
  <2>4. PlaceSeen'
    BY <1>0, <1>1, <2>2, <2>3, SyncPlaceSeen
  <2> QED BY <1>0, <1>1, <2>2, <2>4 DEF OnePlace
<1>6. CASE SyncNumber(i)
  <2> DEFINE s == [sync[i] EXCEPT !.st = "line", !.names = @ \ {sync[i].name}, !.name = Null]
  <2>1. sync' = [sync EXCEPT ![i] = s] /\ UNCHANGED venues
    BY <1>6 DEF SyncNumber
  <2>2. s.st = "line"
    BY <1>0 DEF SyncState
  <2> HIDE DEF s
  <2>3. PlaceSeen'
    BY <1>0, <1>1, <2>1, <2>2, SyncPlaceSeen
  <2> QED BY <1>0, <1>1, <2>1, <2>3 DEF OnePlace
<1>7. CASE SyncEnd(i)
  <2>1. sync' = [sync EXCEPT ![i] = NoSync] /\ UNCHANGED venues
    BY <1>7 DEF SyncEnd
  <2>2. PlaceSeen'
    BY <1>0, <1>1, <2>1, NothingInHand, SyncPlaceSeen
  <2> QED BY <1>0, <1>1, <2>1, <2>2 DEF OnePlace
<1>8. ASSUME NEW n \in People, SyncCreate(i, n) PROVE PlaceSeen' /\ OnePlace'
  <2>1. sync[i].st = "line" /\ UNCHANGED venues
    BY <1>8 DEF SyncCreate, Turn
  <2> DEFINE Kept == \E s : Becomes(i, s) /\ s.st = "line"
  <2>2. Kept
    <3>1. CASE /\ UNCHANGED <<accounts, bound>>
               /\ \E s : Becomes(i, s) /\ s = [sync[i] EXCEPT !.names = @ \ {n}]
      <4>1. PICK s : Becomes(i, s) /\ s = [sync[i] EXCEPT !.names = @ \ {n}]
        BY <3>1
      <4>2. s.st = "line"
        BY <1>0, <2>1, <4>1 DEF SyncState
      <4> QED BY <4>1, <4>2
    <3>2. CASE \E a, x, s :
                 /\ Creates(a, x) /\ x.name = n /\ Bind(a, i) /\ Becomes(i, s)
                 /\ s = [sync[i] EXCEPT !.names = @ \ {n}, !.seen = [@ EXCEPT ![a] = x]]
      <4>1. PICK a, x, s :
              /\ Becomes(i, s)
              /\ s = [sync[i] EXCEPT !.names = @ \ {n}, !.seen = [@ EXCEPT ![a] = x]]
        BY <3>2
      <4>2. s.st = "line"
        BY <1>0, <2>1, <4>1 DEF SyncState
      <4> QED BY <4>1, <4>2
    <3> HIDE DEF Kept
    <3> QED BY <1>8, <3>1, <3>2, SyncCreateEffect
  <2> QED BY <1>2, <2>1, <2>2
<1>9. ASSUME NEW n \in People, SyncLine(i, n) PROVE PlaceSeen' /\ OnePlace'
  <2>1. sync[i].st = "line" /\ UNCHANGED venues
    BY <1>9 DEF SyncLine, Turn
  <2> DEFINE Kept == \E s : Becomes(i, s) /\ s.st = "number"
  <2>2. Kept
    <3>1. CASE /\ UNCHANGED <<accounts, bound>>
               /\ \E s : Becomes(i, s) /\ s = [sync[i] EXCEPT !.st = "number", !.name = n]
      <4>1. PICK s : Becomes(i, s) /\ s = [sync[i] EXCEPT !.st = "number", !.name = n]
        BY <3>1
      <4>2. s.st = "number"
        BY <1>0, <4>1 DEF SyncState
      <4> QED BY <4>1, <4>2
    <3>2. CASE \E a, x, s :
                 /\ Alters(a, x) /\ Bind(a, i) /\ Becomes(i, s)
                 /\ sync[i].seen[a] # Null /\ sync[i].seen[a].line = Null
                 /\ s = [sync[i] EXCEPT !.st = "number", !.name = n, !.seen[a].line = x.line]
      <4>1. PICK a, x, s :
              /\ Becomes(i, s)
              /\ s = [sync[i] EXCEPT !.st = "number", !.name = n, !.seen[a].line = x.line]
        BY <3>2
      <4>2. s.st = "number"
        BY <1>0, <4>1 DEF SyncState
      <4> QED BY <4>1, <4>2
    <3> HIDE DEF Kept
    <3> QED BY <1>9, <3>1, <3>2, SyncLineEffect
  <2> QED BY <1>2, <2>1, <2>2
<1> QED BY <1>3, <1>4, <1>5, <1>6, <1>7, <1>8, <1>9 DEF Sync

\* A set has at most one element just when any two of its elements are one.
LEMMA AtMostOne ==
  ASSUME NEW S, IsFiniteSet(S)
  PROVE  Cardinality(S) <= 1 <=> \A a, b \in S : a = b
<1>1. Cardinality(S) \in Nat
  BY FS_CardinalityType
<1>2. (Cardinality(S) = 0 <=> S = {}) /\ (Cardinality(S) = 1 <=> \E x : S = {x})
  BY FS_EmptySet, FS_Singleton
<1>3. Cardinality(S) <= 1 <=> Cardinality(S) = 0 \/ Cardinality(S) = 1
  BY <1>1
<1> QED BY <1>2, <1>3

LEMMA NamedFinite == \A n, as : IsFiniteSet(Named(n, as))
<1>1. \A n, as : Named(n, as) \in SUBSET Ids
  BY DEF Named
<1> QED BY <1>1, ImportAssumption, FS_Subset

Twinless == Alone /\ NameSeen /\ OneName /\ PlaceSeen /\ OnePlace

LEMMA InitTwinless == ImportInit => Twinless
<1> SUFFICES ASSUME ImportInit PROVE Twinless
  OBVIOUS
<1>1. sync = [i \in Instances |-> NoSync] /\ unit = NoUnit /\ venues = [v \in Places |-> 0]
  BY DEF ImportInit
<1>2. Alone /\ NameSeen /\ PlaceSeen /\ OnePlace
  BY <1>1, NothingInHand DEF Alone, NameSeen, PlaceSeen, OnePlace
<1>3. OneName
  <2> SUFFICES ASSUME NEW n \in People \ excused PROVE \A a, b \in Named(n, accounts) : a = b
    BY DEF OneName
  <2>1. ~(Cardinality(Named(n, accounts)) > 1)
    BY DEF ImportInit
  <2>2. Cardinality(Named(n, accounts)) \in Nat
    BY NamedFinite, FS_CardinalityType
  <2>3. Cardinality(Named(n, accounts)) <= 1
    BY <2>1, <2>2
  <2> QED BY <2>3, NamedFinite, AtMostOne
<1> QED BY <1>2, <1>3 DEF Twinless

LEMMA NextTwinless == Typed /\ Twinless /\ [ImportNext]_importVars => Twinless'
<1> SUFFICES ASSUME Typed, Twinless, [ImportNext]_importVars PROVE Twinless'
  OBVIOUS
<1>1. CASE Job
  <2>1. UNCHANGED <<sync, excused>>
    BY <1>1, JobTypes DEF people
  <2> QED BY <1>1, <2>1, JobNames, JobPlaces DEF Twinless, Alone, Everything
<1>2. ASSUME NEW i \in Instances, Sync(i) PROVE Twinless'
  BY <1>2, SyncNames, SyncPlaces DEF Twinless
<1>3. CASE Person
  <2>1. Quiet /\ UNCHANGED <<sync, unit, task>>
    BY <1>3, PersonQuiet
  <2>2. OneName' /\ NameSeen'
    BY <2>1, QuietName, QuietSeen DEF Twinless
  <2>3. Alone'
    BY <2>1 DEF Quiet, Twinless, Alone, Everything
  <2> QED BY <1>3, <2>2, <2>3, PersonPlaces DEF Twinless
<1>4. CASE UNCHANGED importVars
  BY <1>4 DEF importVars, Twinless, Alone, Everything, NameSeen, OneName, PlaceSeen, OnePlace, Records
<1> QED BY <1>1, <1>2, <1>3, <1>4 DEF ImportNext

LEMMA TwinlessNoTwins == Twinless => NoTwins
<1> SUFFICES ASSUME Twinless PROVE NoTwins
  OBVIOUS
<1>1. ASSUME NEW n \in People \ excused PROVE Cardinality(Named(n, accounts)) <= 1
  BY NamedFinite, AtMostOne DEF Twinless, OneName
<1> QED BY <1>1 DEF Twinless, OnePlace, NoTwins

\* No import makes a second account of a name or a second venue: only a person who gives
\* a name does, or a synchronisation that goes on without the lock.
THEOREM NoTwinsAlways == ImportSpec => []NoTwins
<1>1. Typed /\ Twinless /\ [ImportNext]_importVars => Twinless'
  BY NextTwinless
<1> QED BY <1>1, AlwaysTyped, InitTwinless, TwinlessNoTwins, PTL DEF ImportSpec

-----------------------------------------------------------------------------
(* Bindings. *)
SeenOf(x) == IF x = "wake" THEN unit.seen ELSE sync[x].seen
\* An account without a LINE account, as an import saw it, that has one now is on the
\* import's list.
BindingSeen ==
  /\ bound \in [Importers -> SUBSET Ids]
  /\ \A x \in Importers : Looking(x) =>
       \A a \in Ids : SeenOf(x)[a] # Null /\ SeenOf(x)[a].line = Null /\ accounts[a].line # Null
                        => a \in bound[x]

\* The imports as each other see them: what i does changes nothing of another.
LEMMA ImporterKept ==
  ASSUME Typed, NEW i \in Instances, NEW s, sync' = [sync EXCEPT ![i] = s], UNCHANGED unit
  PROVE  /\ (Looking(i)' <=> s.st \in {"line", "number"}) /\ SeenOf(i)' = s.seen
         /\ \A x \in Importers \ {i} : (Looking(x)' <=> Looking(x)) /\ SeenOf(x)' = SeenOf(x)
         /\ i \in Importers /\ i # "wake"
<1>1. sync'[i] = s /\ \A j \in Instances \ {i} : sync'[j] = sync[j]
  BY DEF Typed, SyncOK
<1>2. i \in Importers /\ i # "wake"
  BY ImportAssumption DEF Importers
<1> QED BY <1>1, <1>2 DEF Looking, SeenOf, Importers

LEMMA BindTyped ==
  ASSUME bound \in [Importers -> SUBSET Ids], NEW a \in Ids, NEW x, Bind(a, x)
  PROVE  /\ bound' \in [Importers -> SUBSET Ids]
         /\ \A y \in Importers \ {x} : Looking(y) => bound'[y] = bound[y] \cup {a}
         /\ x \in Importers \ {"wake"} => bound'[x] = bound[x]
BY DEF Bind

LEMMA LookTyped ==
  ASSUME bound \in [Importers -> SUBSET Ids], NEW x \in Importers, Look(x)
  PROVE  /\ bound' \in [Importers -> SUBSET Ids]
         /\ \A y \in Importers \ {x} : bound'[y] = bound[y]
BY DEF Look

\* A step that binds nothing, and changes nobody's view.
LEMMA NothingBound ==
  ASSUME Typed, BindingSeen, UNCHANGED <<unit, sync, bound>>,
         \A a \in Ids : accounts[a] # Null => accounts'[a].line \in {accounts[a].line, Null}
  PROVE  BindingSeen'
<1>1. ASSUME NEW x \in Importers, Looking(x)', NEW a \in Ids, SeenOf(x)'[a] # Null,
             SeenOf(x)'[a].line = Null, accounts'[a].line # Null
      PROVE  a \in bound'[x]
  <2>1. Looking(x) /\ SeenOf(x)' = SeenOf(x)
    BY <1>1 DEF Looking, SeenOf
  <2>2. accounts[a] # Null
    BY <1>1, <2>1 DEF Typed, UnitOK, SyncOK, Looking, SeenOf, Importers
  <2> QED BY <1>1, <2>1, <2>2 DEF BindingSeen
<1> QED BY <1>1 DEF BindingSeen

\* A person binds: every import under way has the account on its list.
LEMMA PersonBinds ==
  ASSUME Typed, BindingSeen, UNCHANGED <<unit, sync>>, NEW a \in Ids, Bind(a, Null),
         \A b \in Ids \ {a} : accounts'[b] = accounts[b]
  PROVE  BindingSeen'
<1>0. Null \notin Importers
  BY ImportAssumption DEF Importers
<1>1. /\ bound' \in [Importers -> SUBSET Ids]
      /\ \A y \in Importers : Looking(y) => bound'[y] = bound[y] \cup {a}
  BY <1>0, BindTyped DEF BindingSeen
<1>2. \A y \in Importers : (Looking(y)' <=> Looking(y)) /\ SeenOf(y)' = SeenOf(y)
  BY DEF Looking, SeenOf
<1>3. ASSUME NEW x \in Importers, Looking(x)', NEW b \in Ids, SeenOf(x)'[b] # Null,
             SeenOf(x)'[b].line = Null, accounts'[b].line # Null
      PROVE  b \in bound'[x]
  BY <1>1, <1>2, <1>3 DEF BindingSeen
<1> QED BY <1>1, <1>3 DEF BindingSeen

LEMMA PersonBindings ==
  ASSUME Typed, BindingSeen, Person
  PROVE  BindingSeen'
<1>0. UNCHANGED <<unit, sync>> /\ AccountsOK
  BY PersonQuiet DEF Typed
<1>1. CASE WriteForm
  <2>1. CASE UNCHANGED accounts
    <3>1. CASE UNCHANGED bound
      BY <1>0, <2>1, <3>1, NothingBound
    <3>2. CASE \E a \in Ids : Bind(a, Null)
      BY <1>0, <2>1, <3>2, PersonBinds
    <3>3. form.st = "link" => form.id \in Ids
      BY DEF Typed, FormOK
    <3> QED BY <1>1, <3>1, <3>2, <3>3 DEF WriteForm, NextId
  <2>2. CASE form.st = "link" /\ \E x : Alters(form.id, x) /\ Bind(form.id, Null)
    <3>1. form.id \in Ids /\ \A b \in Ids \ {form.id} : accounts'[b] = accounts[b]
      BY <1>0, <2>2, AlteredAccount DEF Alters, Writes
    <3> QED BY <1>0, <2>2, <3>1, PersonBinds
  <2>3. CASE \E a, x : Creates(a, x) /\ x.name = form.name /\ Bind(a, Null)
    <3>1. PICK a, x : Creates(a, x) /\ Bind(a, Null)
      BY <2>3
    <3>2. a \in Ids /\ \A b \in Ids \ {a} : accounts'[b] = accounts[b]
      BY <1>0, <3>1, CreatedAccount DEF Creates, Writes
    <3> QED BY <1>0, <3>1, <3>2, PersonBinds
  <2> QED BY <1>1, <2>1, <2>2, <2>3, WriteFormEffect
<1>2. CASE UNCHANGED <<accounts, bound>>
  BY <1>0, <1>2, NothingBound
<1>3. ASSUME NEW a \in Ids, Clear(a) PROVE BindingSeen'
  <2>1. accounts[a] # Null /\ accounts[a] \in Account /\ accounts' = [accounts EXCEPT ![a].line = Null]
    BY <1>3 DEF Clear, Typed, AccountsOK, Accounts
  <2>2. accounts'[a].line = Null /\ \A b \in Ids \ {a} : accounts'[b] = accounts[b]
    BY <2>1 DEF Typed, AccountsOK, Accounts, Account
  <2>3. UNCHANGED bound
    BY <1>3 DEF Clear
  <2> QED BY <1>0, <2>2, <2>3, NothingBound
<1>4. ASSUME NEW a \in Ids, NEW n \in People, Rename(a, n) PROVE BindingSeen'
  <2>1. accounts'[a].line = accounts[a].line /\ \A b \in Ids \ {a} : accounts'[b] = accounts[b]
    BY <1>4, RenameEffect
  <2>2. UNCHANGED bound
    BY <1>4 DEF Rename
  <2> QED BY <1>0, <2>1, <2>2, NothingBound
<1>5. ASSUME NEW a \in Ids, NEW s \in {"approved", "rejected"}, SetStatus(a, s) PROVE BindingSeen'
  <2>1. PICK x : Alters(a, x) /\ x.line = accounts[a].line
    BY <1>5, SetStatusEffect
  <2>2. accounts'[a] = x /\ \A b \in Ids \ {a} : accounts'[b] = accounts[b]
    BY <1>0, <2>1, AlteredAccount
  <2>3. UNCHANGED bound
    BY <1>5 DEF SetStatus
  <2> QED BY <1>0, <2>1, <2>2, <2>3, NothingBound
<1> QED BY <1>1, <1>2, <1>3, <1>4, <1>5
      DEF Person, Register, Link, OpenVenue, CloseVenue, WriteVenue

LEMMA JobBindings ==
  ASSUME Typed, BindingSeen, Job
  PROVE  BindingSeen'
<1>0. /\ UNCHANGED <<sync, wakeMode>> /\ AccountsOK /\ "wake" \in Importers
      /\ bound \in [Importers -> SUBSET Ids]
  BY JobTypes DEF Typed, BindingSeen, Importers
<1>1. unit'.st = "read" => wakeMode
  BY <1>0, JobTypes DEF UnitOK
<1>2. CASE UNCHANGED <<accounts, unit, bound>>
  BY <1>0, <1>2, NothingBound
<1>3. CASE wakeMode /\ unit'.st # "read" /\ bound' \in [Importers -> SUBSET Ids]
  <2>1. \A x \in Importers : ~Looking(x)'
    BY <1>0, <1>3, NothingInHand DEF Looking, Importers, Typed, SyncOK
  <2> QED BY <1>3, <2>1 DEF BindingSeen
<1>4. CASE ReadForRecord
  <2>1. unit'.seen = accounts /\ UNCHANGED accounts /\ wakeMode /\ Look("wake")
    BY <1>4 DEF ReadForRecord, JobReady
  <2>2. bound' \in [Importers -> SUBSET Ids]
    BY <1>0, <2>1, LookTyped
  <2>3. \A x \in Importers : Looking(x)' => x = "wake"
    BY <1>0, <2>1, NothingInHand DEF Looking, Importers, Typed, SyncOK
  <2> QED BY <2>1, <2>2, <2>3 DEF BindingSeen, SeenOf
<1>5. CASE Look("wake") /\ unit' = NoUnit /\ wakeMode
  <2>1. bound' \in [Importers -> SUBSET Ids]
    BY <1>0, <1>5, LookTyped
  <2> QED BY <1>3, <1>5, <2>1, NothingInHand
<1>6. CASE (\E a \in Ids : Bind(a, "wake")) /\ unit' = NoUnit /\ wakeMode
  <2>1. bound' \in [Importers -> SUBSET Ids]
    BY <1>0, <1>6, BindTyped
  <2> QED BY <1>3, <1>6, <2>1, NothingInHand
<1>7. CASE ApplyDepartment \/ PassCoach \/ LoseUnit
  <2>1. Look("wake") /\ unit' = NoUnit /\ wakeMode
    BY <1>7 DEF ApplyDepartment, PassCoach, LoseUnit, Typed, UnitOK
  <2> QED BY <1>5, <2>1
<1>8. CASE CreateCoach
  <2>1. (\E a \in Ids : Bind(a, "wake")) /\ unit' = NoUnit /\ wakeMode
    BY <1>8 DEF CreateCoach, NextId, Typed, UnitOK
  <2> QED BY <1>6, <2>1
<1>9. CASE FillCoach
  <2>1. (Look("wake") \/ \E a \in Ids : Bind(a, "wake")) /\ unit' = NoUnit /\ wakeMode
    BY <1>9 DEF FillCoach, Named, Typed, UnitOK
  <2> QED BY <1>5, <1>6, <2>1
<1>10. CASE FetchSource \/ PassPhase \/ NextDay
  BY <1>2, <1>10 DEF FetchSource, PassPhase, NextDay
<1> QED BY <1>4, <1>7, <1>8, <1>9, <1>10 DEF Job

\* A step of synchronisation i that binds a, or nothing (a is then any account).
LEMMA SyncBinds ==
  ASSUME Typed, BindingSeen, NEW i \in Instances, NEW s, sync' = [sync EXCEPT ![i] = s],
         UNCHANGED unit, NEW a \in Ids, Bind(a, i), sync[i].st \in {"line", "number"},
         \A b \in Ids \ {a} : accounts'[b] = accounts[b] /\ s.seen[b] = sync[i].seen[b],
         s.seen[a].line = accounts'[a].line
  PROVE  BindingSeen'
<1>1. /\ SeenOf(i)' = s.seen /\ i \in Importers /\ i # "wake"
      /\ \A x \in Importers \ {i} : (Looking(x)' <=> Looking(x)) /\ SeenOf(x)' = SeenOf(x)
  BY ImporterKept
<1>2. /\ bound' \in [Importers -> SUBSET Ids] /\ bound'[i] = bound[i]
      /\ \A y \in Importers \ {i} : Looking(y) => bound'[y] = bound[y] \cup {a}
  BY <1>1, BindTyped DEF BindingSeen
<1>3. ASSUME NEW x \in Importers, Looking(x)', NEW b \in Ids, SeenOf(x)'[b] # Null,
             SeenOf(x)'[b].line = Null, accounts'[b].line # Null
      PROVE  b \in bound'[x]
  <2>1. CASE x # i
    BY <1>1, <1>2, <1>3, <2>1 DEF BindingSeen
  <2>2. CASE x = i
    <3>1. b # a
      BY <1>1, <1>3, <2>2
    <3>2. SeenOf(i)[b] # Null /\ SeenOf(i)[b].line = Null /\ accounts[b].line # Null /\ Looking(i)
      BY <1>1, <1>3, <2>2, <3>1 DEF SeenOf, Looking
    <3> QED BY <1>2, <2>2, <3>2 DEF BindingSeen
  <2> QED BY <2>1, <2>2
<1> QED BY <1>2, <1>3 DEF BindingSeen

\* A step of synchronisation i that binds nothing.
LEMMA SyncPasses ==
  ASSUME Typed, BindingSeen, NEW i \in Instances, NEW s, sync' = [sync EXCEPT ![i] = s],
         UNCHANGED unit, bound' \in [Importers -> SUBSET Ids],
         \A x \in Importers \ {i} : bound'[x] = bound[x],
         \A a \in Ids : accounts[a] # Null => accounts'[a].line = accounts[a].line,
         \/ s.st \notin {"line", "number"}
         \/ s.seen = accounts
         \/ sync[i].st \in {"line", "number"} /\ s.seen = sync[i].seen /\ bound'[i] = bound[i]
  PROVE  BindingSeen'
<1>1. /\ (Looking(i)' <=> s.st \in {"line", "number"}) /\ SeenOf(i)' = s.seen
      /\ \A x \in Importers \ {i} : (Looking(x)' <=> Looking(x)) /\ SeenOf(x)' = SeenOf(x)
      /\ i \in Importers /\ i # "wake"
  BY ImporterKept
<1>2. \A x \in Importers, a \in Ids : SeenOf(x)[a] # Null /\ Looking(x) => accounts[a] # Null
  BY DEF Typed, UnitOK, SyncOK, Looking, SeenOf, Importers
<1>3. ASSUME NEW x \in Importers, Looking(x)', NEW a \in Ids, SeenOf(x)'[a] # Null,
             SeenOf(x)'[a].line = Null, accounts'[a].line # Null
      PROVE  a \in bound'[x]
  <2>1. CASE x # i
    BY <1>1, <1>2, <1>3, <2>1 DEF BindingSeen
  <2>2. CASE x = i /\ s.seen = accounts
    BY <1>1, <1>3, <2>2
  <2>3. CASE x = i /\ sync[i].st \in {"line", "number"} /\ s.seen = sync[i].seen /\ bound'[i] = bound[i]
    <3>1. Looking(i) /\ SeenOf(i) = s.seen
      BY <1>1, <2>3 DEF Looking, SeenOf
    <3> QED BY <1>1, <1>2, <1>3, <2>3, <3>1 DEF BindingSeen
  <2> QED BY <1>1, <1>3, <2>1, <2>2, <2>3
<1> QED BY <1>3 DEF BindingSeen

LEMMA SyncCreateBindings ==
  ASSUME Typed, BindingSeen, NEW i \in Instances, NEW n \in People, SyncCreate(i, n)
  PROVE  BindingSeen'
<1>0. /\ sync[i].st = "line" /\ UNCHANGED unit /\ sync[i] \in SyncState /\ AccountsOK
      /\ sync[i].seen \in Accounts
  BY SyncTyped, SyncCreateEffect DEF SyncCreate, Typed
<1>1. CASE /\ UNCHANGED <<accounts, bound>>
           /\ \E s : Becomes(i, s) /\ s = [sync[i] EXCEPT !.names = @ \ {n}]
  <2>1. PICK s : Becomes(i, s) /\ s = [sync[i] EXCEPT !.names = @ \ {n}]
    BY <1>1
  <2>2. s.seen = sync[i].seen
    BY <1>0, <2>1 DEF SyncState
  <2>3. sync' = [sync EXCEPT ![i] = s] /\ bound' \in [Importers -> SUBSET Ids]
    BY <1>1, <2>1 DEF Becomes, BindingSeen
  <2> QED BY <1>0, <1>1, <2>2, <2>3, SyncPasses
<1>2. CASE \E a, x, s :
             /\ Creates(a, x) /\ x.name = n /\ Bind(a, i) /\ Becomes(i, s)
             /\ s = [sync[i] EXCEPT !.names = @ \ {n}, !.seen = [@ EXCEPT ![a] = x]]
  <2>1. PICK a, x, s :
          /\ Creates(a, x) /\ Bind(a, i) /\ Becomes(i, s)
          /\ s = [sync[i] EXCEPT !.names = @ \ {n}, !.seen = [@ EXCEPT ![a] = x]]
    BY <1>2
  <2>2. s.seen = [sync[i].seen EXCEPT ![a] = x] /\ sync' = [sync EXCEPT ![i] = s]
    BY <1>0, <2>1 DEF SyncState, Becomes
  <2>3. a \in Ids /\ accounts'[a] = x /\ \A b \in Ids \ {a} : accounts'[b] = accounts[b]
    BY <1>0, <2>1, CreatedAccount DEF Creates, Writes
  <2>4. s.seen[a] = x /\ \A b \in Ids \ {a} : s.seen[b] = sync[i].seen[b]
    BY <1>0, <2>2, <2>3 DEF Accounts
  <2>5. sync[i].st \in {"line", "number"} /\ s.seen[a].line = accounts'[a].line
    BY <1>0, <2>3, <2>4
  <2>6. Bind(a, i) /\ sync' = [sync EXCEPT ![i] = s] /\ a \in Ids /\ UNCHANGED unit
    BY <1>0, <2>1, <2>2, <2>3
  <2>7. \A b \in Ids \ {a} : accounts'[b] = accounts[b] /\ s.seen[b] = sync[i].seen[b]
    BY <2>3, <2>4
  <2> QED BY <2>5, <2>6, <2>7, SyncBinds
<1> QED BY <1>1, <1>2, SyncCreateEffect

LEMMA SyncLineBindings ==
  ASSUME Typed, BindingSeen, NEW i \in Instances, NEW n \in People, SyncLine(i, n)
  PROVE  BindingSeen'
<1>0. /\ sync[i].st = "line" /\ UNCHANGED unit /\ sync[i] \in SyncState /\ AccountsOK
      /\ sync[i].seen \in Accounts
  BY SyncTyped, SyncLineEffect DEF SyncLine, Typed
<1>1. CASE /\ UNCHANGED <<accounts, bound>>
           /\ \E s : Becomes(i, s) /\ s = [sync[i] EXCEPT !.st = "number", !.name = n]
  <2>1. PICK s : Becomes(i, s) /\ s = [sync[i] EXCEPT !.st = "number", !.name = n]
    BY <1>1
  <2>2. s.seen = sync[i].seen
    BY <1>0, <2>1 DEF SyncState
  <2>3. sync' = [sync EXCEPT ![i] = s] /\ bound' \in [Importers -> SUBSET Ids]
    BY <1>1, <2>1 DEF Becomes, BindingSeen
  <2> QED BY <1>0, <1>1, <2>2, <2>3, SyncPasses
<1>2. CASE \E a, x, s :
             /\ Alters(a, x) /\ Bind(a, i) /\ Becomes(i, s)
             /\ sync[i].seen[a] # Null /\ sync[i].seen[a].line = Null
             /\ s = [sync[i] EXCEPT !.st = "number", !.name = n, !.seen[a].line = x.line]
  <2>1. PICK a, x, s :
          /\ Alters(a, x) /\ Bind(a, i) /\ Becomes(i, s) /\ sync[i].seen[a] # Null
          /\ s = [sync[i] EXCEPT !.st = "number", !.name = n, !.seen[a].line = x.line]
    BY <1>2
  <2>2. s.seen = [sync[i].seen EXCEPT ![a].line = x.line] /\ sync' = [sync EXCEPT ![i] = s]
    BY <1>0, <2>1 DEF SyncState, Becomes
  <2>3. a \in Ids /\ accounts'[a] = x /\ \A b \in Ids \ {a} : accounts'[b] = accounts[b]
    BY <1>0, <2>1, AlteredAccount DEF Alters, Writes
  <2>4. /\ \A b \in Ids \ {a} : s.seen[b] = sync[i].seen[b]
        /\ s.seen[a] = [sync[i].seen[a] EXCEPT !.line = x.line]
    BY <1>0, <2>2, <2>3 DEF Accounts
  <2>5. sync[i].seen[a] \in Account
    BY <1>0, <2>1, <2>3 DEF Accounts
  <2>6. s.seen[a].line = x.line
    BY <2>4, <2>5 DEF Account
  <2>7. sync[i].st \in {"line", "number"} /\ s.seen[a].line = accounts'[a].line
    BY <1>0, <2>3, <2>6
  <2>8. Bind(a, i) /\ sync' = [sync EXCEPT ![i] = s] /\ a \in Ids /\ UNCHANGED unit
    BY <1>0, <2>1, <2>2, <2>3
  <2>9. \A b \in Ids \ {a} : accounts'[b] = accounts[b] /\ s.seen[b] = sync[i].seen[b]
    BY <2>3, <2>4
  <2> QED BY <2>7, <2>8, <2>9, SyncBinds
<1> QED BY <1>1, <1>2, SyncLineEffect

LEMMA SyncBindings ==
  ASSUME Typed, BindingSeen, NEW i \in Instances, Sync(i)
  PROVE  BindingSeen'
<1>0. /\ UNCHANGED unit /\ sync[i] \in SyncState /\ sync \in [Instances -> SyncState] /\ AccountsOK
      /\ bound \in [Importers -> SUBSET Ids] /\ i \in Importers
  BY SyncTypes DEF Typed, SyncOK, BindingSeen, Importers
<1>1. CASE SyncStart(i)
  <2>1. PICK s : sync' = [sync EXCEPT ![i] = s] /\ s.st = "venues"
    <3>1. PICK locked \in BOOLEAN, q \in Sheets :
            sync' = [sync EXCEPT ![i] = [NoSync EXCEPT !.st = "venues", !.locked = locked,
                                              !.venues = Listed(q.departments),
                                              !.places = {v \in Places : venues[v] > 0}]]
      BY <1>1 DEF SyncStart
    <3> DEFINE s == [NoSync EXCEPT !.st = "venues", !.locked = locked,
                       !.venues = Listed(q.departments), !.places = {v \in Places : venues[v] > 0}]
    <3>2. s.st = "venues" /\ sync' = [sync EXCEPT ![i] = s]
      BY <3>1 DEF NoSync
    <3> HIDE DEF s
    <3> QED BY <3>2
  <2>2. UNCHANGED <<accounts, bound>>
    BY <1>1 DEF SyncStart
  <2> QED BY <1>0, <2>1, <2>2, SyncPasses
<1>2. ASSUME NEW v \in Places, SyncVenue(i, v) PROVE BindingSeen'
  <2> DEFINE s == [sync[i] EXCEPT !.venues = @ \ {v}]
  <2>1. sync' = [sync EXCEPT ![i] = s] /\ UNCHANGED <<accounts, bound>> /\ sync[i].st = "venues"
    BY <1>2 DEF SyncVenue
  <2>2. s.st = "venues"
    BY <1>0, <2>1 DEF SyncState
  <2> HIDE DEF s
  <2> QED BY <1>0, <2>1, <2>2, SyncPasses
<1>3. CASE SyncRead(i)
  <2>1. PICK q \in Sheets, t \in Sheets :
          sync' = [sync EXCEPT ![i].st = "line", ![i].places = {}, ![i].names = Unique(q.coaches),
                               ![i].staff = t.staff, ![i].seen = accounts]
    BY <1>3 DEF SyncRead
  <2> DEFINE s == [sync[i] EXCEPT !.st = "line", !.places = {}, !.names = Unique(q.coaches),
                                  !.staff = t.staff, !.seen = accounts]
  <2>2. sync' = [sync EXCEPT ![i] = s] /\ UNCHANGED accounts /\ Look(i)
    BY <1>3, <2>1 DEF SyncRead
  <2>3. s.seen = accounts
    BY <1>0 DEF SyncState
  <2> HIDE DEF s
  <2>4. bound' \in [Importers -> SUBSET Ids] /\ \A x \in Importers \ {i} : bound'[x] = bound[x]
    BY <1>0, <2>2, LookTyped
  <2> QED BY <1>0, <2>2, <2>3, <2>4, SyncPasses
<1>4. CASE SyncNumber(i)
  <2> DEFINE s == [sync[i] EXCEPT !.st = "line", !.names = @ \ {sync[i].name}, !.name = Null]
  <2>1. /\ sync' = [sync EXCEPT ![i] = s] /\ sync[i].st \in {"line", "number"} /\ UNCHANGED bound
        /\ bound' \in [Importers -> SUBSET Ids]
    BY <1>0, <1>4 DEF SyncNumber
  <2>2. s.seen = sync[i].seen
    BY <1>0 DEF SyncState
  <2> HIDE DEF s
  <2>3. \A a \in Ids : accounts[a] # Null => accounts'[a].line = accounts[a].line
    <3>1. CASE UNCHANGED accounts
      BY <3>1
    <3>2. CASE \E a, x : Alters(a, x) /\ x.line = accounts[a].line
      BY <1>0, <3>2, AlteredAccount
    <3> QED BY <1>4, <3>1, <3>2, SyncNumberEffect
  <2> QED BY <1>0, <2>1, <2>2, <2>3, SyncPasses
<1>5. CASE SyncEnd(i)
  <2>1. sync' = [sync EXCEPT ![i] = NoSync] /\ UNCHANGED accounts /\ Look(i)
    BY <1>5 DEF SyncEnd
  <2>2. bound' \in [Importers -> SUBSET Ids] /\ \A x \in Importers \ {i} : bound'[x] = bound[x]
    BY <1>0, <2>1, LookTyped
  <2> QED BY <1>0, <2>1, <2>2, NothingInHand, SyncPasses
<1> QED BY <1>1, <1>2, <1>3, <1>4, <1>5, SyncCreateBindings, SyncLineBindings DEF Sync

LEMMA InitBindings == ImportInit => BindingSeen
BY NothingInHand DEF ImportInit, BindingSeen, Looking, Importers

LEMMA NextBindings == Typed /\ BindingSeen /\ [ImportNext]_importVars => BindingSeen'
<1> SUFFICES ASSUME Typed, BindingSeen, [ImportNext]_importVars PROVE BindingSeen'
  OBVIOUS
<1>1. CASE UNCHANGED importVars
  BY <1>1 DEF importVars, BindingSeen, Looking, SeenOf
<1> QED BY <1>1, JobBindings, SyncBindings, PersonBindings DEF ImportNext

\* What each kind of step does to a LINE account that there is.
LEMMA LinesKept ==
  ASSUME Typed, BindingSeen, ImportNext, NEW a \in Ids,
         accounts[a] # Null, accounts[a].line # Null, accounts'[a].line # accounts[a].line
  PROVE  \/ changes' # changes \/ form' # form
         \/ \E x \in Importers : Moved(x) /\ a \in bound[x]
<1>0. AccountsOK /\ ~UNCHANGED accounts
  BY DEF Typed
<1>1. CASE Job
  <2>1. CASE CreateCoach
    <3>1. PICK b, x : Creates(b, x)
      BY <2>1, CreateCoachEffect
    <3> QED BY <1>0, <3>1, CreatedAccount DEF Creates, Writes
  <2>2. CASE FillCoach
    <3>1. PICK b, x : /\ Alters(b, x) /\ unit.seen[b] # Null
                      /\ x.line # accounts[b].line => unit.seen[b].line = Null
      BY <2>2, FillCoachEffect
    <3>2. accounts'[b] = x /\ \A c \in Ids \ {b} : accounts'[c] = accounts[c]
      BY <1>0, <3>1, AlteredAccount
    <3>3. b = a /\ unit.seen[a] # Null /\ unit.seen[a].line = Null
      BY <3>1, <3>2
    <3>4. unit.st = "read" /\ unit' = NoUnit
      BY <2>2 DEF FillCoach
    <3>5. "wake" \in Importers /\ Looking("wake") /\ SeenOf("wake") = unit.seen /\ Moved("wake")
      BY <3>4, NothingInHand DEF Importers, Looking, SeenOf, Moved
    <3>6. a \in bound["wake"]
      BY <3>3, <3>5 DEF BindingSeen
    <3> QED BY <3>5, <3>6
  <2> QED BY <1>0, <1>1, <2>1, <2>2
        DEF Job, FetchSource, PassPhase, ReadForRecord, ApplyDepartment, PassCoach, LoseUnit, NextDay
<1>2. ASSUME NEW i \in Instances, Sync(i)
      PROVE  \E x \in Importers : Moved(x) /\ a \in bound[x]
  <2>1. ASSUME NEW n \in People, SyncCreate(i, n) PROVE FALSE
    <3>1. PICK b, x : Creates(b, x)
      BY <1>0, <2>1, SyncCreateEffect
    <3> QED BY <1>0, <3>1, CreatedAccount DEF Creates, Writes
  <2>2. ASSUME NEW n \in People, SyncLine(i, n)
        PROVE  \E x \in Importers : Moved(x) /\ a \in bound[x]
    <3>1. PICK b, x, s :
            /\ Alters(b, x) /\ Bind(b, i) /\ Becomes(i, s)
            /\ sync[i].seen[b] # Null /\ sync[i].seen[b].line = Null
            /\ s = [sync[i] EXCEPT !.st = "number", !.name = n, !.seen[b].line = x.line]
      <4>1. ~UNCHANGED <<accounts, bound>>
        BY <1>0
      <4> QED BY <2>2, <4>1, SyncLineEffect
    <3>2. accounts'[b] = x /\ \A c \in Ids \ {b} : accounts'[c] = accounts[c]
      BY <1>0, <3>1, AlteredAccount
    <3>3. b = a /\ sync[i].seen[a] # Null /\ sync[i].seen[a].line = Null
      BY <3>1, <3>2
    <3>4. sync[i].st = "line" /\ s.st = "number"
      <4>1. sync[i].st = "line" /\ sync[i] \in SyncState
        BY <2>2, SyncTyped DEF SyncLine, Turn
      <4> QED BY <3>1, <4>1 DEF SyncState
    <3>5. i \in Importers /\ i # "wake" /\ sync'[i] = s
      BY <3>1, ImportAssumption DEF Importers, Becomes, Typed, SyncOK
    <3>6. Looking(i) /\ SeenOf(i) = sync[i].seen /\ Moved(i)
      BY <3>4, <3>5 DEF Looking, SeenOf, Moved
    <3>7. a \in bound[i]
      BY <3>3, <3>5, <3>6 DEF BindingSeen
    <3> QED BY <3>5, <3>6, <3>7
  <2>3. CASE SyncNumber(i)
    <3>1. PICK b, x : Alters(b, x) /\ x.line = accounts[b].line
      BY <1>0, <2>3, SyncNumberEffect
    <3> QED BY <1>0, <3>1, AlteredAccount
  <2> QED BY <1>0, <1>2, <2>1, <2>2, <2>3 DEF Sync, SyncStart, SyncVenue, SyncRead, SyncEnd
<1>3. CASE Person
  <2>1. changes \in Nat
    BY ImportAssumption DEF Typed, BoundsOK
  <2>2. Change => changes' # changes
    BY <2>1 DEF Change
  <2>3. WriteForm => form' # form
    BY NothingInHand DEF WriteForm
  <2> QED BY <1>0, <1>3, <2>2, <2>3 DEF Person, Register, Link, Clear, Rename, SetStatus,
                                        OpenVenue, CloseVenue, WriteVenue
<1> QED BY <1>1, <1>2, <1>3 DEF ImportNext

\* An import gives no account another LINE account than the one it has, and takes none
\* away, except one bound after it had read the accounts.
THEOREM BindingsKept == ImportSpec => OnlyNewBindingsLost
<1>1. BindingSeen /\ Typed /\ [ImportNext]_importVars => BindingSeen'
  BY NextBindings
<1> DEFINE Kept == \A a \in Ids :
       accounts[a] # Null /\ accounts[a].line # Null /\ accounts'[a].line # accounts[a].line
         => \/ changes' # changes \/ form' # form
            \/ \E x \in Importers : Moved(x) /\ a \in bound[x]
<1>2. Typed /\ BindingSeen /\ [ImportNext]_importVars => [Kept]_importVars
  BY LinesKept
<1>3. ImportSpec => [][Kept]_importVars
  <2> HIDE DEF Kept
  <2> QED BY <1>1, <1>2, AlwaysTyped, InitBindings, PTL DEF ImportSpec
<1> QED BY <1>3 DEF OnlyNewBindingsLost

-----------------------------------------------------------------------------
(* What the job reports. *)
Kinds == {"venue", "added", "line", "number"}
DidOf(w) == {d \in did : d[1] = w}
\* What a record did is known by the record's place, and none but those done did anything.
Located ==
  \A d \in did :
    /\ d[2] \in Nat
    /\ d[1] = "venue" => \/ task.phase = "apply_departments" /\ d[2] <= task.cursor
                         \/ task.phase \in {"apply_coaches", "complete"}
    /\ d[1] # "venue" => \/ task.phase = "apply_coaches" /\ d[2] <= task.cursor
                         \/ task.phase = "complete"
Totals == \A w \in Kinds : IsFiniteSet(DidOf(w)) /\ task.counts[w] = Cardinality(DidOf(w))
Looked == task.counts["considered"] + task.counts["skipped"]
LookedAtAll ==
  Looked = IF task.phase = "apply_coaches" THEN task.cursor
           ELSE IF task.phase = "complete" THEN Len(task.coaches) ELSE 0
Counted == Located /\ Totals /\ LookedAtAll

\* The place of the job after k records of its phase.
LEMMA LocatedAfter ==
  ASSUME TaskOK, Applying, Located, NEW k \in Nat, task.cursor <= k,
         task' \in Task, KeepsRecords(task, task'), Follows(task, task', k),
         \A d \in did' : d \in did \/ (/\ d[2] = k
                                       /\ d[1] = "venue" <=> task.phase = "apply_departments")
  PROVE  Located'
<1>0. task.cursor \in Nat /\ task.phase \in {"apply_departments", "apply_coaches"}
  BY DEF TaskOK, Task, Applying
<1>1. ASSUME NEW d \in did' 
      PROVE  /\ d[2] \in Nat
             /\ d[1] = "venue" => \/ task.phase = "apply_departments" /\ d[2] <= k
                                  \/ task.phase = "apply_coaches"
             /\ d[1] # "venue" => task.phase = "apply_coaches" /\ d[2] <= k
  BY <1>0, <1>1 DEF Located
<1>2. CASE task'.phase = task.phase /\ task'.cursor = k
  BY <1>0, <1>1, <1>2 DEF Located
<1>3. CASE task.phase = "apply_departments" /\ task'.phase = "apply_coaches" /\ task'.cursor = 0
  BY <1>1, <1>3 DEF Located
<1>4. CASE task'.phase = "complete"
  BY <1>1, <1>4 DEF Located
<1> QED BY <1>2, <1>3, <1>4 DEF Follows

LEMMA LookedAfter ==
  ASSUME TaskOK, Applying, NEW k \in Nat, task' \in Task, KeepsRecords(task, task'),
         Follows(task, task', k),
         Looked' = IF task.phase = "apply_coaches" THEN k ELSE 0
  PROVE  LookedAtAll'
<1>0. task.phase \in {"apply_departments", "apply_coaches"}
  BY DEF Applying
<1>1. CASE task'.phase = task.phase /\ task'.cursor = k
  BY <1>0, <1>1 DEF LookedAtAll
<1>2. CASE task.phase = "apply_departments" /\ task'.phase = "apply_coaches" /\ task'.cursor = 0
  BY <1>2 DEF LookedAtAll
<1>3. CASE task.phase = "apply_coaches" /\ k = Len(task.coaches) /\ task'.phase = "complete"
  BY <1>3 DEF LookedAtAll, KeepsRecords
<1> QED BY <1>1, <1>2, <1>3 DEF Follows

\* A record's transaction: what it does is counted, at the record's place.
LEMMA RecordCounted ==
  ASSUME Typed, Counted, unit.st = "read", NEW what \in SUBSET Kinds, NEW counted, NEW a,
         did' = did \cup Done(what, a), Checkpoint(counted),
         \A w \in Kinds : w \in counted <=> w \in what,
         task.phase = "apply_departments" =>
           what \subseteq {"venue"} /\ "considered" \notin counted /\ "skipped" \notin counted,
         task.phase = "apply_coaches" =>
           "venue" \notin what /\ ("considered" \in counted <=> "skipped" \notin counted)
  PROVE  Counted'
<1>0. /\ TaskOK /\ Applying /\ task.cursor < Len(Records) /\ task.cursor \in Nat
      /\ task.phase \in {"apply_departments", "apply_coaches"} /\ task.counts \in [Counters -> Nat]
  BY DEF Typed, UnitOK, TaskOK, Task, Counts, Applying
<1> DEFINE k == task.cursor + 1
<1>1. k \in Nat /\ task.cursor <= k /\ task.cursor < k
  BY <1>0
<1>2. /\ task' \in Task /\ KeepsRecords(task, task') /\ Follows(task, task', k)
      /\ \A c \in Counters : task'.counts[c] = task.counts[c] + (IF c \in counted THEN 1 ELSE 0)
  BY <1>0, CheckpointEffect
<1>3. Located'
  <2>1. \A d \in did' : d \in did \/ (/\ d[2] = k
                                      /\ d[1] = "venue" <=> task.phase = "apply_departments")
    <3>1. ASSUME NEW w \in what
          PROVE  /\ <<w, k, a>>[2] = k
                 /\ <<w, k, a>>[1] = "venue" <=> task.phase = "apply_departments"
      BY <1>0
    <3>2. did' = did \cup {<<w, k, a>> : w \in what}
      BY DEF Done
    <3> HIDE DEF k
    <3> QED BY <3>1, <3>2
  <2> HIDE DEF k
  <2> QED BY <1>0, <1>1, <1>2, <2>1, LocatedAfter DEF Counted
<1>4. Totals'
  <2>1. ASSUME NEW w \in Kinds
        PROVE  IsFiniteSet(DidOf(w)') /\ task'.counts[w] = Cardinality(DidOf(w)')
    <3>1. IsFiniteSet(DidOf(w)) /\ task.counts[w] = Cardinality(DidOf(w)) /\ w \in Counters
      BY DEF Counted, Totals, Kinds, Counters
    <3>2. CASE w \in what
      <4>1. <<w, k, a>> \notin did
        <5>1. w = "venue" <=> task.phase = "apply_departments"
          BY <1>0, <3>2
        <5>2. <<w, k, a>>[1] = w /\ <<w, k, a>>[2] = k
          OBVIOUS
        <5> HIDE DEF k
        <5> QED BY <1>0, <1>1, <5>1, <5>2 DEF Counted, Located
      <4>2. IsFiniteSet(DidOf(w)') /\ Cardinality(DidOf(w)') = Cardinality(DidOf(w)) + 1
        <5>1. DidOf(w)' = DidOf(w) \cup {<<w, k, a>>}
          BY <3>2 DEF DidOf, Done
        <5>2. <<w, k, a>> \notin DidOf(w)
          BY <4>1 DEF DidOf
        <5> QED BY <3>1, <5>1, <5>2, FS_AddElement
      <4>3. w \in counted
        BY <3>2
      <4>4. task'.counts[w] = task.counts[w] + 1
        BY <1>2, <3>1, <4>3
      <4> HIDE DEF k
      <4> QED BY <3>1, <3>2, <4>2, <4>4
    <3>3. CASE w \notin what
      <4>1. DidOf(w)' = DidOf(w)
        BY <3>3 DEF DidOf, Done
      <4>2. task.counts[w] \in Nat
        BY <1>0, <3>1
      <4> QED BY <1>2, <3>1, <3>3, <4>1, <4>2
    <3> QED BY <3>2, <3>3
  <2> QED BY <2>1 DEF Totals
<1>5. LookedAtAll'
  <2>1. "considered" \in Counters /\ "skipped" \in Counters
    BY DEF Counters
  <2>2. task.counts["considered"] \in Nat /\ task.counts["skipped"] \in Nat
    BY <1>0, <2>1
  <2>3. Looked = IF task.phase = "apply_coaches" THEN task.cursor ELSE 0
    BY <1>0 DEF Counted, LookedAtAll
  <2>4. Looked' = IF task.phase = "apply_coaches" THEN k ELSE 0
    <3> DEFINE one(c) == IF c \in counted THEN 1 ELSE 0
    <3>1. Looked' = (task.counts["considered"] + one("considered")) + (task.counts["skipped"] + one("skipped"))
      BY <1>2, <2>1 DEF Looked
    <3>2. one("considered") + one("skipped") = IF task.phase = "apply_coaches" THEN 1 ELSE 0
      BY <1>0
    <3>3. one("considered") \in Nat /\ one("skipped") \in Nat
      OBVIOUS
    <3> HIDE DEF one
    <3>4. Looked' = Looked + (one("considered") + one("skipped"))
      BY <2>2, <3>1, <3>3 DEF Looked
    <3> QED BY <1>0, <2>3, <3>2, <3>4
  <2> HIDE DEF k
  <2> QED BY <1>0, <1>1, <1>2, <2>4, LookedAfter
<1> QED BY <1>3, <1>4, <1>5 DEF Counted

\* A step that does nothing and leaves the counters alone, but may go on to the next phase.
LEMMA PhaseCounted ==
  ASSUME Typed, Counted, UNCHANGED did, task'.counts = task.counts,
         \/ /\ task'.phase = task.phase /\ task'.cursor = task.cursor
            /\ task'.coaches = task.coaches
         \/ /\ task.phase \notin {"apply_departments", "apply_coaches", "complete"}
            /\ task'.phase \notin {"apply_coaches", "complete"}
         \/ /\ Applying /\ task' \in Task /\ KeepsRecords(task, task')
            /\ Follows(task, task', task.cursor)
  PROVE  Counted'
<1>0. TaskOK /\ task.cursor \in Nat /\ Located /\ Totals /\ LookedAtAll
  BY DEF Typed, TaskOK, Task, Counted
<1>1. Totals' /\ Looked' = Looked
  BY <1>0 DEF Totals, DidOf, Looked
<1>2. CASE /\ task'.phase = task.phase /\ task'.cursor = task.cursor
           /\ task'.coaches = task.coaches
  BY <1>0, <1>1, <1>2 DEF Counted, Located, LookedAtAll
<1>3. CASE /\ task.phase \notin {"apply_departments", "apply_coaches", "complete"}
           /\ task'.phase \notin {"apply_coaches", "complete"}
  <2>1. did = {}
    BY <1>0, <1>3 DEF Located
  <2> QED BY <1>0, <1>1, <1>3, <2>1 DEF Counted, Located, LookedAtAll
<1>4. CASE /\ Applying /\ task' \in Task /\ KeepsRecords(task, task')
           /\ Follows(task, task', task.cursor)
  <2>1. Located'
    BY <1>0, <1>4, LocatedAfter
  <2>2. Looked' = IF task.phase = "apply_coaches" THEN task.cursor ELSE 0
    BY <1>0, <1>1, <1>4 DEF LookedAtAll, Applying
  <2> QED BY <1>0, <1>1, <1>4, <2>1, <2>2, LookedAfter DEF Counted
<1> QED BY <1>2, <1>3, <1>4

\* A record of coaches that does what, and is counted as considered.
LEMMA CoachCounted ==
  ASSUME Typed, Counted, unit.st = "read", task.phase = "apply_coaches",
         NEW what \in SUBSET {"added", "line", "number"}, NEW a,
         did' = did \cup Done(what, a), Checkpoint({"considered"} \cup what)
  PROVE  Counted'
<1> DEFINE counted == {"considered"} \cup what
<1>1. what \in SUBSET Kinds /\ "venue" \notin what /\ "skipped" \notin counted
  BY DEF Kinds
<1>2. \A w \in Kinds : w \in counted <=> w \in what
  BY DEF Kinds
<1>3. Checkpoint(counted) /\ "considered" \in counted
  OBVIOUS
<1> HIDE DEF counted
<1>4. task.phase = "apply_departments" =>
        what \subseteq {"venue"} /\ "considered" \notin counted /\ "skipped" \notin counted
  OBVIOUS
<1>5. task.phase = "apply_coaches" =>
        "venue" \notin what /\ ("considered" \in counted <=> "skipped" \notin counted)
  BY <1>1, <1>3
<1> QED BY <1>1, <1>2, <1>3, <1>4, <1>5, RecordCounted

LEMMA JobCounted ==
  ASSUME Typed, Counted, Job
  PROVE  Counted'
<1>0. task \in Task
  BY DEF Typed, TaskOK
<1>1. CASE FetchSource
  <2>1. /\ UNCHANGED did /\ task'.counts = task.counts
        /\ task.phase \notin {"apply_departments", "apply_coaches", "complete"}
        /\ task'.phase \notin {"apply_coaches", "complete"}
    BY <1>0, <1>1 DEF FetchSource, Task
  <2> QED BY <2>1, PhaseCounted
<1>2. CASE PassPhase
  <2>1. /\ UNCHANGED did /\ Applying /\ task' = NextPhase(task) /\ task.cursor = Len(Records)
    BY <1>2 DEF PassPhase
  <2>2. /\ task.phase \in {"apply_departments", "apply_coaches"} /\ task.cursor \in Nat
        /\ task.cursor <= Len(RecordsOf(task))
    BY <1>0, <2>1 DEF Applying, Records, Task
  <2>3. /\ task' \in Task /\ task'.counts = task.counts /\ KeepsRecords(task, task')
        /\ Follows(task, task', task.cursor)
    BY <1>0, <2>1, <2>2, NextPhaseEffect
  <2> QED BY <2>1, <2>3, PhaseCounted
<1>3. CASE ReadForRecord
  <2>1. UNCHANGED <<did, task>>
    BY <1>3 DEF ReadForRecord
  <2> QED BY <2>1, PhaseCounted
<1>4. CASE ApplyDepartment
  <2> DEFINE v == Records[task.cursor + 1]
             what == IF unit.place THEN {} ELSE {"venue"}
  <2>1. /\ unit.st = "read" /\ task.phase = "apply_departments" /\ Checkpoint(what)
        /\ did' = IF unit.place THEN did ELSE did \cup {<<"venue", task.cursor + 1, v>>}
    BY <1>4 DEF ApplyDepartment
  <2>2. did' = did \cup Done(what, v)
    BY <2>1 DEF Done
  <2>3. /\ what \in SUBSET Kinds /\ what \subseteq {"venue"} /\ "considered" \notin what
        /\ "skipped" \notin what
    BY DEF Kinds
  <2> HIDE DEF what, v
  <2>4. task.phase = "apply_departments" =>
          what \subseteq {"venue"} /\ "considered" \notin what /\ "skipped" \notin what
    BY <2>3
  <2>5. task.phase = "apply_coaches" =>
          "venue" \notin what /\ ("considered" \in what <=> "skipped" \notin what)
    BY <2>1
  <2> QED BY <2>1, <2>2, <2>3, <2>4, <2>5, RecordCounted
<1>5. CASE PassCoach
  <2>1. /\ unit.st = "read" /\ task.phase = "apply_coaches" /\ UNCHANGED did
        /\ Checkpoint({"skipped"}) \/ Checkpoint({"considered", "ambiguous"})
    BY <1>5 DEF PassCoach
  <2>2. did' = did \cup Done({}, Null) /\ {} \in SUBSET Kinds
    BY <2>1 DEF Done
  <2>3. ASSUME NEW counted \in {{"skipped"}, {"considered", "ambiguous"}}, Checkpoint(counted)
        PROVE  Counted'
    <3>1. /\ \A w \in Kinds : w \in counted <=> w \in {}
          /\ "considered" \in counted <=> "skipped" \notin counted
      BY <2>3 DEF Kinds
    <3>2. task.phase = "apply_departments" =>
            {} \subseteq {"venue"} /\ "considered" \notin counted /\ "skipped" \notin counted
      BY <2>1
    <3>3. task.phase = "apply_coaches" =>
            "venue" \notin {} /\ ("considered" \in counted <=> "skipped" \notin counted)
      BY <3>1
    <3> QED BY <2>1, <2>2, <2>3, <3>1, <3>2, <3>3, RecordCounted
  <2> QED BY <2>1, <2>3
<1>6. CASE CreateCoach
  <2>1. PICK what \in SUBSET {"added", "line", "number"}, a \in Ids :
          did' = did \cup Done(what, a) /\ Checkpoint({"considered"} \cup what)
    BY <1>6 DEF CreateCoach, NextId
  <2> QED BY <1>6, <2>1, CoachCounted DEF CreateCoach
<1>7. CASE FillCoach
  <2>1. PICK what \in SUBSET {"added", "line", "number"}, a \in Ids :
          did' = did \cup Done(what, a) /\ Checkpoint({"considered"} \cup what)
    BY <1>7 DEF FillCoach, Named
  <2> QED BY <1>7, <2>1, CoachCounted DEF FillCoach
<1>8. CASE LoseUnit
  <2>1. /\ UNCHANGED did /\ task'.counts = task.counts /\ task'.phase = task.phase
        /\ task'.cursor = task.cursor /\ task'.coaches = task.coaches
    BY <1>0, <1>8 DEF LoseUnit, Tried, Task
  <2> QED BY <2>1, PhaseCounted
<1>9. CASE NextDay
  <2>1. did' = {} /\ task' = NewTask
    BY <1>9 DEF NextDay
  <2>2. /\ \A w : DidOf(w)' = {}
        /\ \A w \in Kinds : w \in Counters
        /\ "considered" \in Counters /\ "skipped" \in Counters
    BY <2>1 DEF DidOf, Kinds, Counters
  <2>3. Totals' /\ Looked' = 0
    BY <2>1, <2>2, NewTaskRight, FS_EmptySet DEF Totals, Looked
  <2> QED BY <2>1, <2>3, NewTaskRight DEF Counted, Located, LookedAtAll
<1> QED BY <1>1, <1>2, <1>3, <1>4, <1>5, <1>6, <1>7, <1>8, <1>9 DEF Job

LEMMA InitCounted == ImportInit => Counted
<1> SUFFICES ASSUME ImportInit PROVE Counted
  OBVIOUS
<1>1. did = {} /\ task = NewTask
  BY DEF ImportInit
<1>2. /\ \A w : DidOf(w) = {}
      /\ \A w \in Kinds : w \in Counters
      /\ "considered" \in Counters /\ "skipped" \in Counters
  BY <1>1 DEF DidOf, Kinds, Counters
<1>3. Totals /\ Looked = 0
  BY <1>1, <1>2, NewTaskRight, FS_EmptySet DEF Totals, Looked
<1> QED BY <1>1, <1>3, NewTaskRight DEF Counted, Located, LookedAtAll

LEMMA NextCounted == Typed /\ Counted /\ [ImportNext]_importVars => Counted'
<1> SUFFICES ASSUME Typed, Counted, [ImportNext]_importVars PROVE Counted'
  OBVIOUS
<1>1. CASE UNCHANGED <<task, did>>
  BY <1>1, PhaseCounted
<1>2. ASSUME NEW i \in Instances, Sync(i) PROVE Counted'
  BY <1>1, <1>2, SyncTypes
<1>3. CASE Person
  BY <1>1, <1>3, PersonTypes DEF imports
<1> QED BY <1>1, <1>2, <1>3, JobCounted DEF ImportNext, importVars

LEMMA CountedCountsTrue == Counted => CountsTrue
BY DEF Counted, Totals, DidOf, Kinds, LookedAtAll, Looked, CountsTrue

\* What the job reports is what it did, over all its lost steps: every venue, account,
\* LINE account and number is counted once, and every record looked at once.
THEOREM CountsAlwaysTrue == ImportSpec => []CountsTrue
<1>1. Typed /\ Counted /\ [ImportNext]_importVars => Counted'
  BY NextCounted
<1> QED BY <1>1, AlwaysTyped, InitCounted, CountedCountsTrue, PTL DEF ImportSpec
=============================================================================
