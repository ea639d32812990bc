---------------------------- MODULE DailyReminder ----------------------------
(***************************************************************************)
(* The daily reminders under the external wake. Each date has a slot, due  *)
(* in the evening, that is planned once: as a job with an identity of its  *)
(* own. The job fixes a plan from the data, then saves its messages in     *)
(* chunks, over as many wakes as that takes; midnight, when the reminded   *)
(* day begins, ends it. The weekly slot and the import's are planned in    *)
(* the same way. Sending the saved messages is Delivery's.                 *)
(*                                                                         *)
(* The two reads of a preparation are one, and a wake is what it drains    *)
(* and plans: its receipt is WakeCoverage's.                               *)
(***************************************************************************)
EXTENDS Integers, FiniteSets

CONSTANTS
  Names,       \* coach names, in the order of a plan
  Texts,       \* what a reminder may say
  AtFirst,     \* name -> what the data say of it at first
  Day, Evening,  \* hours of a day; those before the daily slot is due
  Activated,   \* when the wake replaced the earlier sender
  LastDate,    \* bound: the last date with a slot
  LastHour,    \* bound: the last hour
  Chunk,       \* entries saved in one step
  Tries,       \* attempts of a job
  MaxFailures, \* bound: units that fail and wakes that are cut short
  MaxEdits,    \* bound: changes of the data
  None

Entries == Texts \cup {"ambiguous", "no_line_id"}
ASSUME ReminderAssumption ==
  /\ Names \subseteq Nat \ {0} /\ IsFiniteSet(Names)
  /\ Texts \cap {"ambiguous", "no_line_id", "earlier", "off"} = {}
  /\ AtFirst \in [Names -> Entries \cup {"off"}]
  /\ Day \in Nat \ {0} /\ Evening \in 0 .. Day - 1 /\ Activated \in Nat
  /\ LastDate \in Nat /\ LastHour \in Nat /\ Chunk \in Nat \ {0} /\ Tries \in Nat \ {0}
  /\ MaxFailures \in Nat /\ MaxEdits \in Nat /\ None \notin Int

VARIABLES
  hour, source,
  job,        \* date -> the daily job
  saved,      \* date -> name -> with what text and when its message was created
  logged,     \* date -> the names the earlier sender has logged
  intake,     \* the date an administrator is asking for
  drain,      \* the active wake at work; they exclude one another
  failures, edits
data == <<source, edits>>
reminderVars == <<hour, source, job, saved, logged, intake, drain, failures, edits>>

AllDates == 0 .. LastDate
Hours == 0 .. LastHour
Date(t) == t \div Day
Midnight(d) == Day * (d + 1)

Plans == UNION {[S -> Entries] : S \in SUBSET Names}
NoJob == [state |-> "none", planned |-> FALSE, plan |-> [n \in {} |-> "off"], cursor |-> 0,
          unresolved |-> 0, left |-> Tries]
Unsaved == [text |-> "none", at |-> None]
NoWake == [phase |-> "off", ticked |-> FALSE, worked |-> FALSE, date |-> None, work |-> NoJob,
        adds |-> {}, visited |-> 0, slot |-> 0]

ReminderInit ==
  /\ hour = 0 /\ source = AtFirst
  /\ job = [d \in AllDates |-> NoJob]
  /\ saved = [d \in AllDates |-> [n \in Names |-> Unsaved]]
  /\ logged = [d \in AllDates |-> {}]
  /\ intake = None /\ drain = NoWake /\ failures = 0 /\ edits = 0

-----------------------------------------------------------------------------
(* The queue: one identity for each date. *)
\* Mutant: the identity is new each time.
SentAgain(d) == [job EXCEPT ![d] = [NoJob EXCEPT !.state = "ready"]]
SentOnce(d) ==
  IF job[d].state = "none" THEN [job EXCEPT ![d] = [NoJob EXCEPT !.state = "ready"]] ELSE job

\* Mutant: the last attempt is tried again too.
Endless(j, wait) == [j EXCEPT !.state = wait, !.left = @ - 1]
AttemptFailed(j, wait) ==
  [j EXCEPT !.state = IF j.left > 1 THEN wait ELSE "failed", !.left = @ - 1]

\* A wake begins: jobs that wakes before it left active expire. A retry waits longer
\* than a wake lasts.
WakeBegins ==
  /\ drain.phase = "off" /\ hour >= Activated
  /\ drain' = [NoWake EXCEPT !.phase = "drain"]
  /\ job' = [d \in AllDates |->
       CASE job[d].state = "active" -> AttemptFailed(job[d], "ready")
         [] job[d].state = "later" -> [job[d] EXCEPT !.state = "ready"]
         [] OTHER -> job[d]]
  /\ UNCHANGED <<hour, data, saved, logged, intake, failures>>

-----------------------------------------------------------------------------
(* The step of a daily job, in one transaction with its acknowledgement. *)
Between == drain.phase \in {"drain", "redrain"} /\ drain.date = None

\* prepareDailyNotifications: the scheduled names with what can be sent to them.
Prepared == [n \in {m \in Names : source[m] # "off"} |-> source[n]]

Fetch(d) ==
  LET j == job[d] IN
  /\ Between /\ j.state = "ready"
  /\ job' = [job EXCEPT ![d].state = "active"]
  /\ drain' = [drain EXCEPT !.worked = TRUE, !.date = d,
       !.work = IF j.planned THEN j
                ELSE IF hour >= Midnight(d) THEN [j EXCEPT !.state = "done", !.unresolved = 1]
                ELSE [j EXCEPT !.planned = TRUE, !.plan = Prepared]]
  /\ UNCHANGED <<hour, data, saved, logged, intake, failures>>

Rest(j) == {n \in DOMAIN j.plan : n > j.cursor}
Nearest(S) == CHOOSE n \in S : \A m \in S : n <= m

\* Mutant: only the preparation looks at the clock.
NotLogged(d, n) == n \notin logged[d]
Creates(d, n) == hour < Midnight(d) /\ n \notin logged[d]

\* enqueueDailyNotifications: an entry is blocked, saved before, uncertain, or saved.
Visit ==
  LET d == drain.date  w == drain.work  n == Nearest(Rest(w)) IN
  /\ d # None /\ w.state # "done" /\ Rest(w) # {} /\ drain.visited < Chunk
  /\ LET new == w.plan[n] \in Texts /\ saved[d][n] = Unsaved
         uncertain == w.plan[n] = "ambiguous" \/ (new /\ ~Creates(d, n))
     IN drain' = [drain EXCEPT
          !.visited = @ + 1, !.work.cursor = n,
          !.work.unresolved = @ + (IF uncertain THEN 1 ELSE 0),
          !.adds = @ \cup (IF new /\ Creates(d, n) THEN {[name |-> n, at |-> hour]} ELSE {})]
  /\ UNCHANGED <<hour, data, job, saved, logged, intake, failures>>

\* Mutants: a step that is not the last starts over; a step counts its own.
FromTheStart(w) ==
  [w EXCEPT !.state = IF Rest(w) = {} THEN "done" ELSE "ready",
            !.cursor = IF Rest(w) = {} THEN @ ELSE job[drain.date].cursor]
CountedAnew(w) ==
  [w EXCEPT !.state = IF Rest(w) = {} THEN "done" ELSE "ready",
            !.unresolved = @ - job[drain.date].unresolved]
Continued(w) == [w EXCEPT !.state = IF Rest(w) = {} THEN "done" ELSE "ready"]

BetweenAgain == [drain EXCEPT !.date = None, !.work = NoJob, !.adds = {}, !.visited = 0]

\* The step ends with its chunk or with the plan; a deadline may end it early, after the
\* preparation or after an entry.
Commit ==
  LET d == drain.date  w == drain.work IN
  /\ d # None
  /\ w.state = "done" \/ Rest(w) = {} \/ drain.visited > 0 \/ ~job[d].planned
  /\ job' = [job EXCEPT ![d] = IF w.state = "done" THEN w ELSE Continued(w)]
  /\ saved' = [saved EXCEPT ![d] = [n \in Names |->
       IF \E a \in drain.adds : a.name = n
       THEN [text |-> w.plan[n], at |-> (CHOOSE a \in drain.adds : a.name = n).at] ELSE @[n]]]
  /\ drain' = BetweenAgain
  /\ UNCHANGED <<hour, data, logged, intake, failures>>

\* The step throws: its transaction is rolled back, and it waits for another attempt.
UnitFails ==
  /\ drain.date # None /\ failures < MaxFailures /\ failures' = failures + 1
  /\ job' = [job EXCEPT ![drain.date] = AttemptFailed(@, "later")]
  /\ drain' = BetweenAgain
  /\ UNCHANGED <<hour, data, saved, logged, intake>>

\* Nothing is left to do; or time is up, and the wake plans nothing.
DrainOver ==
  /\ Between /\ \A d \in AllDates : job[d].state # "ready"
  /\ drain' = IF drain.phase = "drain" THEN [drain EXCEPT !.phase = "plan"] ELSE NoWake
  /\ UNCHANGED <<hour, data, job, saved, logged, intake, failures>>
TimeUp ==
  /\ Between /\ drain.worked /\ drain' = NoWake
  /\ UNCHANGED <<hour, data, job, saved, logged, intake, failures>>

-----------------------------------------------------------------------------
(* The planning, and the administrator's request for today's job. *)
\* dueWakeSlots: today's, once it is due, unless that was before the activation.
Due(t) == t % Day >= Evening /\ Day * Date(t) + Evening >= Activated /\ Date(t) \in AllDates

PlanCheck ==
  /\ drain.phase = "plan"
  /\ drain' = IF Due(hour) /\ job[Date(hour)].state = "none"
              THEN [drain EXCEPT !.phase = "send", !.slot = Date(hour)]
              ELSE [drain EXCEPT !.phase = "redrain"]
  /\ UNCHANGED <<hour, data, job, saved, logged, intake, failures>>

\* A send that finds the identity taken by then is an error that ends the wake.
PlanSend ==
  LET d == drain.slot IN
  /\ drain.phase = "send" /\ job' = SentOnce(d)
  /\ drain' = IF job[d].state = "none" THEN [drain EXCEPT !.phase = "redrain", !.slot = 0] ELSE NoWake
  /\ UNCHANGED <<hour, data, saved, logged, intake, failures>>

\* enqueueExternalDateJob, under an active wake: the date is fixed before the send.
IntakeCheck ==
  /\ intake = None /\ hour >= Activated /\ Date(hour) \in AllDates
  /\ job[Date(hour)].state = "none" /\ intake' = Date(hour)
  /\ UNCHANGED <<hour, data, job, saved, logged, drain, failures>>
IntakeSend ==
  /\ intake # None /\ job' = SentOnce(intake) /\ intake' = None
  /\ UNCHANGED <<hour, data, saved, logged, drain, failures>>

-----------------------------------------------------------------------------
\* The connection or the process is lost; a transaction under way is undone.
WakeCut ==
  /\ drain.phase # "off" /\ failures < MaxFailures /\ failures' = failures + 1 /\ drain' = NoWake
  /\ UNCHANGED <<hour, data, job, saved, logged, intake>>

\* A wake is over long before a second hour ends.
HourEnds ==
  /\ hour < LastHour /\ hour' = hour + 1 /\ ~drain.ticked
  /\ drain' = IF drain.phase = "off" THEN drain ELSE [drain EXCEPT !.ticked = TRUE]
  /\ UNCHANGED <<data, job, saved, logged, intake, failures>>

\* Until the activation the earlier senders work: the first one only logged a name, the
\* one after it saved its message under the same identity.
EarlierSent(n) ==
  LET d == Date(hour) IN
  /\ hour < Activated /\ d \in AllDates
  /\ \/ logged' = [logged EXCEPT ![d] = @ \cup {n}] /\ UNCHANGED saved
     \/ saved' = [saved EXCEPT ![d][n] = [text |-> "earlier", at |-> hour]] /\ UNCHANGED logged
  /\ UNCHANGED <<hour, data, job, intake, drain, failures>>

\* Coaches, their accounts and the schedule change.
Edit(n, s) ==
  /\ edits < MaxEdits /\ edits' = edits + 1
  /\ source[n] # s /\ source' = [source EXCEPT ![n] = s]
  /\ UNCHANGED <<hour, job, saved, logged, intake, drain, failures>>

Working ==
  WakeBegins \/ (\E d \in AllDates : Fetch(d)) \/ Visit \/ Commit \/ DrainOver \/ PlanCheck \/ PlanSend
ReminderNext ==
  \/ Working \/ TimeUp \/ UnitFails \/ WakeCut \/ IntakeCheck \/ IntakeSend \/ HourEnds
  \/ \E n \in Names : EarlierSent(n)
  \/ \E n \in Names, s \in Entries \cup {"off"} : Edit(n, s)
ReminderSpec == ReminderInit /\ [][ReminderNext]_reminderVars

\* Wakes keep being called, and go on with what they have begun; the clock goes on.
ReminderFairness == WF_reminderVars(Working) /\ WF_reminderVars(HourEnds)

-----------------------------------------------------------------------------
(* Properties. *)
\* Types; a job that was never sent is empty, and one without attempts left has failed.
ReminderTypeOK ==
  /\ hour \in Hours /\ source \in [Names -> Entries \cup {"off"}]
  /\ \A d \in AllDates :
       /\ job[d].state \in {"none", "ready", "later", "active", "done", "failed"}
       /\ job[d].plan \in Plans /\ job[d].cursor \in {0} \cup DOMAIN job[d].plan
       /\ job[d].left \in 0 .. Tries /\ (job[d].left = 0 => job[d].state = "failed")
       /\ job[d].state = "none" => job[d] = NoJob
       /\ logged[d] \subseteq Names
       /\ \A n \in Names : saved[d][n] \in [text : Texts \cup {"none", "earlier"}, at : Hours \cup {None}]
  /\ intake \in AllDates \cup {None}
  /\ drain.phase \in {"off", "drain", "plan", "send", "redrain"}
  /\ drain.date # None => drain.phase \in {"drain", "redrain"} /\ job[drain.date].state = "active"

\* A reminder is created on the date of its job and says what the job's plan says, also
\* when midnight, another preparation or a cut wake lies between two of its steps.
CreatedAsPlanned ==
  \A d \in AllDates, n \in Names :
    saved[d][n] # Unsaved /\ saved[d][n].text # "earlier" =>
      /\ Date(saved[d][n].at) = d
      /\ n \in DOMAIN job[d].plan /\ saved[d][n].text = job[d].plan[n]

\* When a job is done, every entry of its plan is saved, has no LINE account, or is counted
\* among the unresolved, exactly once, however its steps were cut short; a job that was
\* too late for a plan counts as one.
AllAccounted ==
  \A d \in AllDates : job[d].state = "done" =>
    job[d].unresolved = IF ~job[d].planned THEN 1
      ELSE Cardinality({n \in DOMAIN job[d].plan : \/ job[d].plan[n] = "ambiguous"
                          \/ (job[d].plan[n] \in Texts /\ saved[d][n] = Unsaved)})

\* A plan is kept: once saved it does not change, and no date is planned again.
PlanKept ==
  [][\A d \in AllDates : job[d].planned => job'[d].planned /\ job'[d].plan = job[d].plan]_reminderVars

\* A planned job is done or has used up its attempts in the end, whichever chunks and
\* wakes that takes.
JobEnds ==
  \A d \in AllDates : job[d].state = "ready" ~> job[d].state \in {"done", "failed"}
=============================================================================
