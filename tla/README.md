# TLA+ verification of Co-teaching

This directory models the parts of the Co-teaching server whose correctness
depends on what happens *between* steps: concurrent workers, crashes, late
answers, retries, administrators acting in the middle of background work. The
models are TLA+ modules, checked by TLC on small instances; the most important
properties are also proved with TLAPS for every value of the constants.

## 1. Inventory of the system

The program is one Node/Express server (`server/`) over PostgreSQL, a React
client (`client/`), and a queue (pg-boss) whose jobs are run either by an
always-on process or, in *wake mode*, by a request that an external scheduler
sends every few minutes.

### Notification delivery
`server/core/notifications/delivery.ts`,
`server/modules/notification/{delivery.repository,delivery.service,lineNotify.adapter}.ts`

- *State*: one `weekly_push_recipients` row per message: `status`,
  `attemptCount`, `nextRetryAt`, `completedAt`, `sentAt`, `payload.fixedDelivery`
  (recipient, text and LINE retry key, saved before the first request) and
  `payload.delivery` (`firstAttemptAt`, `claimToken`, `claimedAt`).
- *Operations*: claim (one transaction, 30 s lease), the three checks before a
  request, the request with `X-Line-Retry-Key`, classification of the answer
  (accepted, rejected, unknown), completion fenced by the claim token,
  cancellation of unsent rows, `retryFailed`.
- *Hard*: the process can stop between any two awaits, a sender can stall past
  its lease, a request can arrive after its timeout, its answer can be lost, two
  administrators can retry at once.
- *Correct when*: LINE delivers each saved message at most once; at most five
  requests and none 24 hours or more after the first attempt; `accepted` is only
  saved when LINE accepted; settled rows do not change again; a scheduled retry
  can be made.

### Weekly push runs
`server/modules/weeklyPush/*`, `server/core/weekly-push/use-cases.ts`,
`server/adapters/repositories/weekly-push.repository.ts`

- *State*: one `weekly_push_runs` row (`status`, `reportStatus`,
  `summaryStatus`, `completedAt`, totals) and its recipients.
- *Operations*: three workers (the run's own job, a job per recipient, the
  reconciliation every five minutes), all of which may finalise the run: mark it
  as preparing, store the report, send the summary, write the final status. The
  administrator may cancel or `retryFailed`.
- *Hard*: the final status is written from counts taken several transactions
  earlier; each of the four steps may fail and a job retry repeats them; cancel
  is three transactions; the report may be stored and the summary refused.
- *Correct when*: `success` means that every recipient was accepted; a finished
  run has its report; cancelled recipients are never messaged; every run
  ends.

### External wake runtime
`server/modules/notificationWake/*`, `server/core/notifications/wake-{plan,coverage}.ts`

- *State*: the session's advisory lock, the pg-boss job table (state, priority,
  `started_on`, once-only identities that include the archive), the receipts of
  earlier wakes.
- *Operations*: acquire the lock, expire stale jobs, plan due slots, drain up to
  a hundred units under a deadline (each: fetch, step, acknowledge fenced by
  `started_on`, perhaps a continuation with a cursor), heartbeat, unlock;
  administrators' recovery of saved runs beside it.
- *Hard*: steps commit before their acknowledgement; an expired job is fetched
  again while its step still runs; a parent and the recipients it fans out to
  share the budget; the lock belongs to a session that may hang.
- *Correct when*: no completed job is repeated; every due slot is planned once; no
  recipient of a saved run is forgotten, and the run is finished by some wake.

### Ragic synchronisation
`server/ragic.ts`, `server/ragic.logic.ts`, `server/modules/notificationWake/ragic-checkpoint.ts`

- *State*: in each instance the `isSyncing` flag and what it read of Ragic and of
  the accounts; the advisory lock; the wake's job with its checkpoint (phase,
  snapshots, cursor, counts); the accounts and the venues, whose names are not
  unique in the database (LINE accounts are).
- *Operations*: the full synchronisation (venues, then coaches, one statement at a
  time, from accounts read once); the wake's job (three fetches, then one record
  per transaction together with its checkpoint).
- *Hard*: coaches register and bind their LINE account beside it; a step is
  interrupted between a record and its checkpoint; the lock is done without when
  it cannot be asked for; Ragic may answer differently each time.
- *Correct when*: no name gets a second account and no venue is made twice; a LINE
  account stays with its owner; what is reported is what was done.

### Scheduling mutations and batches
`server/core/scheduling/*`, `server/adapters/repositories/schedule-*.repository.ts`,
`server/modules/schedule.routes.ts`, `server/infrastructure/scheduling/*`

- *State*: schedules with a version, locked days, the hours coaches filled in, one
  advisory lock ("schedule-writes") that orders all writing transactions, stateless
  confirmation tokens (signed over the conflict context), the audit rows.
- *Operations*: create, update, patch, assign, lock, unlock, delete; preview and
  commit of an import; the same through MCP.
- *Hard*: a request reads the row before the transaction and acts on it inside;
  a token confirms warnings computed earlier; batches are committed against a
  preview; coaches change their hours between a dialog and its confirmation, under the
  same lock.
- *Correct when*: no update is lost; no coach is placed twice in a slot without
  a confirmation of exactly that conflict; a locked day keeps its rows.

### Coach assignment page
`client/src/pages/coach-assignment.tsx`, `client/src/lib/*`

- *State*: per row the draft (what was picked and not acknowledged), the revision
  that carried each field, the requests without an outcome, the label shown.
- *Hard*: several requests of one row are under way, answers overtake one another or
  are lost after the row was written, dialogs wait, reloads bring older versions,
  a retry carries everything unsaved.
- *Correct when*: a pick is never dropped by the answer to another one, "saved" means
  stored, and saving ends.

### Daily reminders
`server/modules/notificationWake/daily-plan.ts`, `server/line-notify.ts`

- *State*: one job per date with its plan, cursor and counts; the messages saved
  under the identities of the earlier sender.
- *Hard*: a plan is prepared once and saved in chunks, later and by several wakes,
  perhaps after midnight; the data change meanwhile; the administrator and the
  planning ask for the same date; the earlier sender has sent part of it.
- *Correct when*: each message is saved once, as planned and on its day, and every
  planned one is saved or counted as unresolved.

### Queue and application lifecycle
`server/infra/queue/*`, `server/notification-app.ts` — one process starting and
stopping its queue, calls awaited one by one, with a rollback of the start.
*Correct when* a stop leaves no running instance.

### Scheduling MCP and OAuth
`server/mcp/*` — the tools write schedules like the routes. Authorization codes and
refresh tokens are exchanged by one conditional UPDATE, which decides who uses
them. *Correct when* a code or a refresh token is exchanged once.

### Parts without behaviour between steps
Accounts and sessions, schools and settings, audit and health, report storage, wake
identity, queue preflight, HTTP wiring, object storage, the other pages of the web
client and the migrations: single statements, stateless verification, I/O or
configuration. They appear in `PROJECT.json` as `not_modelled`, each with its
reason.

### How the parts interact
A *run* is created with its recipient rows and its jobs in one transaction
(outbox). The run's job and the recipient jobs call *delivery* for each row; the
only state the two parts share is the recipient row. Finalisation reads the rows'
statuses. The *wake runtime* executes the same steps as the always-on workers,
but one at a time, under its lock and with its own acknowledgement; it also
executes steps of the *daily reminders* (whose saved messages *delivery* then sends)
and of the *Ragic* import, which writes the accounts that coaches and administrators
write too. The *assignment page* calls the routes of *scheduling*: whether a change is
refused, confirmed or written is decided there, and a choice in the page's model.

## 2. Plan

In order of importance, and in this order:

| # | Modules | Question | State |
|---|---------|----------|-------|
| 1 | `Delivery`, `DurableSend` and `RecipientLife` (abstract), `DeliveryRefinement`, proofs | is a saved message sent at most once, and truthfully reported? | done |
| 2 | `RunLedger` (finalisation, shared), `SavedRun` (abstract), `WorkerRun`, proofs | does a run end, and with the right status? | done |
| 3 | `WakeRun` over `RunLedger` and `SavedRun`, proofs | the same run under the wake runtime: one lock holder, once-only jobs, expiry, recovery; is nobody forgotten, does the run end? | done |
| 4 | `Scheduling`, proofs | no lost update, no conflict nobody was shown, locked days kept | done |
| 5 | `AssignDraft`, proofs | does the page keep every pick, and say "saved" truthfully? | done |
| 6 | `WakeCoverage`, proofs | is a silence of the wakes reported, whatever is cut short? | done |
| 7 | `DailyReminder`, proofs | a plan prepared once and saved in chunks: everything once, on its day, accounted for | done |
| 8 | `CoachImport`, proofs | the import with interruptions, several instances and people beside it | done |
| 9 | import and copied-week batches in full, the weekly slot | previews against later edits | left |

The lifecycle of the queue and the exchange of OAuth tokens, planned at first, are
not worth a module: the first is a fixed order of awaited calls, the second one
conditional statement (section 7).

Abstract specifications: `DurableSend` and `RecipientLife` for (1), `SavedRun` for (2)
and (3). Theorems: type correctness, the safety invariants and the action properties of
(1) to (8), and the four refinements; done.

Modules 1 to 3 compose by refinement. `RecipientLife` is what the weekly push takes for
granted of a saved row: `Delivery` implements it, with tokens, leases, clocks and the
platform, and `SavedRun`, which both `WorkerRun` and `WakeRun` implement, extends it with
the run's record. So the claims, answers and attempts that the two executors' models
allow are those that the delivery's model can give.

## 3. Modules and their correspondence to the code

`PROJECT.json` maps every definition to its lines. In outline:

### `Delivery.tla`
Any number of senders, administrators and rows.

| Action | Code |
|--------|------|
| `Begin` | `deliverNotification` reads the clock and calls `claim` |
| `Claim`, `Unclaimed` | `claim`, one transaction over the locked row |
| `Refuse`, `NotSent`, `Send` | identity, attempt and window checks, the adapter's early returns, the request |
| `Accept`, `Reject`, `Lose` | the LINE platform (external) |
| `Receive`, `TimeOut` | classification of the answer, and `deliveryCompletion` |
| `Complete`, `Superseded` | `complete`, fenced by the claim token |
| `Crash` | the process stops, or a transaction fails |
| `Cancel` | `cancelUnsentRecipients` |
| `PickFailed`, `CommitReset`, `AbortReset` | the transaction of `retryFailed`: its read, its updates by id, its rollback |
| `Tick` | time |

The clock value a step uses is the one the code read, however late the step is:
`job.at` is read before the claim's transaction, and the lease starts from it.
The requests are kept forever, with their answers, so a late one can still arrive
after its sender timed out and the row was claimed by somebody else. Rows start
either as `createRunBundle` saves them (usable or not) or as the earlier sender
left them (`sending` or `unknown`, one attempt made, LINE may have accepted).

Abstractions: the retry key is the row (it is saved once and never changes); the
recipient and the text are not represented beyond being usable; all clocks are
one clock (clock skew between servers is ignored); `Cancel` may happen at any
time, which includes every time the cancel route allows.

### `DurableSend.tla`, `RecipientLife.tla`, `DeliveryRefinement.tla`
Two abstract views of one row. `DurableSend` is what the component promises to the
recipient: the row is `open`, then `accepted`, `failed`, `unknown` or `cancelled`, only
a failed one is opened again, LINE delivers at most once, and `accepted` follows a
delivery. A row of a crashed sender is still `open`: nobody can tell.

`RecipientLife` is what it promises to the weekly push: `Attempt` takes a row up (also
the row of a sender that has gone) and counts, up to one too many; `Settle` gives the
row the answer of that attempt, `accepted` only within the limit and `retry_wait` only
below it; `Cancel` leaves rows alone that are being sent, and `Retry` opens failed rows
without clearing their attempts. A row with too many attempts may still end as `failed`,
as `deliverNotification` looks for an incomplete row before it looks at the number
(`delivery.ts:38`), or as `unknown`.

`DeliveryRefinement` maps the detailed row to the two (`Abstract`; `Shown` and `Tried`)
and states `ImplementsDurableSend` and `ImplementsRecipientLife`.

### `RunLedger.tla`
The run record and what finalisation writes into it: the counts, the
outcome they give, `Preparing`, `Reported`, `Finished`, `NotFinished`. Shared by
the always-on runtime and the wake runtime; `RunLedgerProofs` has the lemmas about
counts and outcomes that both proofs use.

### `SavedRun.tla`
What a run promises to those who look at it, whoever carries it out: the rows of
`RecipientLife` and the run's record. An end is only written when the report is stored,
and it is true of the rows as they are at that moment (`Truthful`), although it was
derived from counts several transactions old and nothing is locked in between:
`success` means all accepted, `partial_success` that one is, `unknown` that one is
unknown or cancelled. `WorkerRun` and `WakeRun` each state `ImplementsSavedRun`.

### `WorkerRun.tla`
One run in the always-on runtime, with three workers: `main` (the run's job),
`rcpt` (a job of a recipient) and `recon` (the reconciliation).

| Action | Code |
|--------|------|
| `MainStart`, `MainCount` | `handleWeeklyPushJob` before and after its deliveries |
| `RcptStart`, `RcptCount` | `handleRecipientJob` |
| `Claim`, `Unclaimed`, `Complete`, `Superseded` | `deliverSavedRecipient` |
| `Prepare`, `StoreReport`, `Finish`, `Catch` | the four awaits of `finalizeWeeklyPushRun` and its catch |
| `ReconPick`, `ReconStart`, `ReconCount` | the schedule's list of runs, then `reconcileWeeklyPushRun` |
| `CancelCheck`, `CancelRows`, `CancelRun` | the cancel route, three transactions |
| `RetryFailed` | `retryFailed`, one transaction |
| `BecomesDue` | the clock: a lease or a retry delay is over |
| `Crash` | a worker stops anywhere, its job expires |

Counts are taken in one step and used by the later ones, as in the code. A worker
may hold its counts arbitrarily long. `Legacy` rows start as the earlier
sender's `unknown` with a retry date.

Abstractions: the queue is external (pg-boss): a job that throws is retried up to
its limit, and several waiting jobs of one row count as the one with most
attempts left; the run's totals are left out, only the status that follows from
them is kept; there is one reconciler; marking the run `sending` is merged with
the preceding read of fields that never change; the reconciliation reads the rows
and enqueues their jobs in one step; `retryFailed` is atomic here (its two halves
are separate in `Delivery`). Left out: dry runs (rows created `skipped`), the
creation of a run and its outbox, the separate report job, the report cleanup
after 90 days.

### `WakeRun.tla`
One run in wake mode: the same record and rows, but nobody polls. At most one wake
is at work; it handles the jobs of the run one after the other.

| Action | Code |
|--------|------|
| `WakeStart`, `WakeEnd` | the session lock is taken and stale jobs expire; the lock is given up |
| `Fetch` | the drain takes a ready job, in any order |
| `FanOut` | `fanoutWeeklyRun` and its acknowledgement, one transaction |
| `ReadRow`, `Claim`, `Unclaimed`, `Complete` | `handleBoundedRecipient` with the delivery it calls |
| `ReportCheck`, `ReportCount` | the report job up to its counts |
| `Prepare`, `StoreReport`, `Finish`, `Catch` | the four awaits of `finalizeWeeklyPushRun` and its catch |
| `Acknowledge` | completion, continuation or failure of the job in hand |
| `DrainEnds`, `PlanResume`, `PlanReport` | `nextUnfinishedRun` and the two once-only jobs it sends |
| `OutOfTime`, `Throw`, `Crash` | the deadline, a step that throws, a wake that is gone |
| `CancelCheck`, `CancelRows`, `CancelRun`, `RetryFailed` | the administrator, as in `WorkerRun` |
| `RecoverCheck`, `Recover` | `enqueueSavedRunRecovery`: the check before the transaction, then the transaction |
| `JobClock`, `BecomesDue` | the clocks of jobs and of rows |

A job is a row of pg-boss: its state, the attempts it has left and the cursor of
its fan-out. `later` and `retry` are both pg-boss' waiting states with a start date in
the future; `later` was set by the wake at work, which cannot see it again because
the delays are longer than a wake. `overdue` is an active job past its
`expireInSeconds`. The jobs that are sent once only are never created again, even
when they are archived.

Abstractions: a second wake that finds the lock taken does nothing and is left
out; the budget of a hundred units is left out, as the deadline (`OutOfTime`)
already ends a wake between any two steps; a failed job that has been archived,
for which recovery is refused, is not told apart from a failed one; one
manual job per row, since `MaxRetries` is at most 1. Left out: dry runs; the daily
and Ragic jobs and the coverage receipt have modules of their own (they are `DailyReminder`, `CoachImport` and `WakeCoverage`).

### `Scheduling.tla`
The rows of one date and one time slot, with everything that writes them. A
transaction is one step, because every writer takes the `schedule-writes` lock;
what a handler read before it, and what the page loaded or was shown, is older and
kept in the request.

| Action | Code |
|--------|------|
| `Load` | the page, or the MCP caller, reads a row and asks for a change |
| `ReadFirst` | the read of a route before its transaction, and the fields it computes from it |
| `Mutate` | `mutateSchedule` under assign, update, patch and the MCP tool: version, lock, conflicts, token |
| `CreateSchedule` | `createSchedule`: the cell, the locked day, the conflicts |
| `Import` | the commit of an import or a merge against its preview |
| `DeleteSchedule`, `DeleteSchedules` | the route; the MCP tool, forced or not |
| `Confirm`, `Cancel`, `Expire` | the dialog, or a token that is too old |
| `SetLock` | lock and unlock of a venue's day |
| `SetAvailability` | a coach fills in hours, under the same lock |

A token is the context it was signed over, and verifies when that context is the
one computed under the lock. `acknowledged` (ghost) holds the conflicts that stand
and were confirmed by somebody who was shown them.

### `AssignDraft.tla`
One row of the assignment page and the requests it makes.

| Action | Code |
|--------|------|
| `Pick`, `Retry`, `Discard` | what the editor does to the row |
| `Refuse`, `Accept`, `OtherWrite` | the server: a wrong version, a question or an error; a write of the row (`content`); somebody else's write |
| `Hear`, `Ask` | the handlers of an answer; a dialog that is confirmed |
| `GiveUp` | the request fails for the page, whether or not the server writes it |
| `Read`, `Show` | a reload of the rows, which may arrive late |

The server takes one field of a change (`Taken`), as assign-coach does; clearing the second
coach clears the role too (`Requested`). What it writes depends on the row it finds: a second
coach left without a first is moved up, with the role (`Prepared`, which is `preparePatch`), and
one coach in both places is refused. `stored`, `first` and `lifted` (ghosts) say what it last
wrote for this page in each field, and which change last wrote the first coach and last moved one
up. Answers to requests that were given up are dropped; a reload may put an older version back.

### `WakeCoverage.tla`
The receipt of a wake is a heartbeat job that is created (`Beat`) and then completed
(`Mark`); a drain completes jobs left behind (`Drain`). `WakeStart` reads the latest
receipt and computes `WakeGap` and `LastActive`. `Cut` ends a wake anywhere. Modes
(active, canary) are chosen per wake.

### `DailyReminder.tla`
The job of each date: `PlanCheck`, `PlanSend` (the slot) and `IntakeCheck`,
`IntakeSend` (the administrator) create it once; `Fetch` prepares the plan, `Visit`
handles an entry, `Commit` saves the chunk with the acknowledgement; `UnitFails`,
`WakeCut`, `TimeUp` and `HourEnds` come between; `EarlierSent` is the sender before
the activation and `Edit` a change of the data. The two reads of the preparation are
one step; an account's notification that several people share is any entry.

### `CoachImport.tla`
Accounts and venues, the import in its two forms, and the people beside it. `wakeMode` says
which form this deployment uses: the route asks (`externalWakeConfigured`), and only the
always-on deployment schedules synchronisations.

| Action | Code |
|--------|------|
| `FetchSource`, `PassPhase` | `advanceRagicCheckpoint`: a source is kept, a phase ends |
| `ReadForRecord`, then `ApplyDepartment`, `PassCoach`, `CreateCoach` or `FillCoach` | one record: what its transaction reads, and what it writes together with the checkpoint |
| `LoseUnit` | the step throws or its wake is gone: everything of it is undone, an attempt is used |
| `NextDay` | the next slot has a job of its own |
| `SyncStart`, `SyncVenue` | `syncRagicAll` with or without the lock; `syncVenues` |
| `SyncRead`, `SyncCreate`, `SyncLine`, `SyncNumber` | `syncCoaches`: the accounts as read once, then one statement at a time, each of which may fail |
| `SyncEnd` | the end, an exception, or an instance that stops |
| `Register`, `Link`, then `WriteForm` | a LINE account is looked for, then written: the unique index decides |
| `Clear`, `Rename`, `SetStatus`, `OpenVenue` then `WriteVenue`, `CloseVenue` | the administrator |

Every answer of Ragic is any of `Sheets`, also within one synchronisation. `bound`
(ghost) holds the bindings that an importer's reading missed, `did` what the job
did, `excused` the names that people gave.

### `MCWakeDay.tla`
`WakeCoverage`, `DailyReminder` and `CoachImport` on small instances in one run.
They share no state: `moves` says which of them moves in a behaviour, so the state
space is the sum of theirs and each is explored in full.

## 4. Runs

| Run | Question | Result |
|-----|----------|--------|
| `delivery` | invariants and action properties of `Delivery` and its refinements of `DurableSend` and `RecipientLife`, two senders, one administrator | holds, 1.25 million states |
| `two_retries` | does `retryFailed` with two administrators only take failed rows? | violated (finding 1) |
| `worker_run` | safety of a run with two recipients | holds, 0.87 million states |
| `worker_live` | every run ends, and the executor does what `SavedRun` promises | holds, 0.35 million states |
| `cancelled_run` | does a cancelled run stay cancelled? | violated (finding 2) |
| `wake_run` | safety under the wake, two recipients in chunks of one, every run ends, and `SavedRun` again | holds, 0.62 million states |
| `retried_wake` | does a run retried by hand stop sending under the wake? | violated (finding 3) |
| `scheduling` | two editors, imports, locks and hours on one slot | holds, 0.9 million states |
| `assign_draft` | a row of the page with overtaking answers | holds, 2.93 million states |
| `retried_draft` | does "saved" mean stored, as the page's tests say? | violated (finding 4) |
| `wake_day` | receipts, daily reminders and the import | holds, 0.9 million states |
| `erased_gap` | is a gap kept by every later receipt? | violated (finding 5) |

### What the properties say
`delivery`: `AtMostOnce`, `AttemptBudget`, `SendsInsideWindow`, `RetryIsPossible`
(invariants), `SettledIsFinal` (what no step may do), `ImplementsDurableSend`,
`ImplementsRecipientLife`. `worker_run`: `SuccessMeansAccepted`,
`OverlooksOnlyRetried`. `worker_live`: `EventuallyFinished`, `ImplementsSavedRun`.
`wake_run`: `NoRecipientForgotten`, `CompletedJobsStay`, `EventuallyFinished`,
`ImplementsSavedRun`. What the refinements imply has no run of its own and is proved:
`AcceptedIsTrue` of `Delivery`, `FinishedHasReport` of both executors,
`CancelledRowsStay` of the workers and `SuccessMeansAccepted` of the wake.
`scheduling`: `SlotsInOrder` and `ConflictsShown` (invariants), `AwayShown`,
`NoLostUpdate`, `LockedDayKept` (what no step may do). `assign_draft`: `PickKept`,
`SavedTakenStored`, `SavingMeansWaiting`, `PendingUnderWay`.
`wake_day`: `GapIsFirstSilence`; `CreatedAsPlanned`, `AllAccounted`, `PlanKept`,
`JobEnds` (liveness); `NoTwins`, `CountsTrue`, `OnlyNewBindingsLost`. Each
has a mutant in `PROJECT.json`: a plausible bug of a
mapped definition under which TLC finds the property violated.

### Bounds
- `Delivery`: one row, because rows share nothing but the administrators' and the
  cancellation's set-wise updates, which treat each row by itself. Two senders
  are enough for a takeover; a third would take over from the second in the
  same way. A unit of time stands for the lease (`Lease = 1`), `MaxAttempts = 2`
  (one retry and the limit), and the window closes within `MaxTime`, so that
  requests before, at and after its end occur. `MaxResets = 1`
  (a second reset finds the attempts used up). `KeyMemory = Window + Transit`:
  the smallest value the assumption allows.
- `WorkerRun`: two rows are needed for a run that is partly accepted, and for
  counts that change between them; `MaxTries = 1` and `JobAttempts = 1` in the
  safety run, because every retry, of a row or of a job, starts from a state the
  run reaches by `RetryFailed` and by the reconciliation's jobs anyway.
  `MaxUpsets` bounds together the crashes, failed reports or summaries, cancellations
  and administrator's retries. One is enough for the safety run, whose question is what
  happens between a finaliser's count and its final write (a retry, a cancellation,
  another finaliser that fails); two at once, a retry during a finalisation that itself
  fails, occur with the one row of `worker_live`. With two rows and two upsets the run
  holds as well, in 3.5 million states, and the theorems set no bound. The rows are
  symmetric in the safety run, not in the liveness run (symmetry is unsound there).
- `worker_live` has one row, which starts as a legacy row and has three
  attempts, so that it waits for its retries and survives crashes. `ImplementsSavedRun` is
  checked on it and, with two rows and so with runs that are partly accepted, under the
  wake; that it holds of the workers for any number of rows is proved.
- `wake_run` has two rows in chunks of one, so that a fan-out continues from its
  cursor, and one attempt per row. Any two of an upset, a cancellation, a retry
  and a recovery occur in any order (`MaxAll`); one upset is one less than a wake's job has
  attempts: a job that uses them up stays failed until an administrator recovers it. `MaxRetries <= 1` is part of the module's
  assumption: a second retry would need jobs of a third identity.
- `EventuallyFinished` of `wake_run` is checked on the same instance; that the wake survives
  a second attempt of a job follows the same steps as in `worker_live`, which has three.
- `retried_wake` has one row, no upset and one retry: nothing fails in the
  counterexample.
- `scheduling`: two venues and one coach make a conflict; one row exists and one may be
  born, so that a row is created, moved, deleted and conflicted; two editors (a page and an
  MCP caller), each with the kinds of change it may ask for (`MCInputs`), and three writes in all:
  enough for a read, a foreign write and the write that should be refused, twice.
- `assign_draft`: the two coaches of a row, one offered for each place and the first one's place
  cleared as well; three changes (two picks and a retry that carries both) and three versions of
  the row, so that another editor and two own writes meet. The row is blank or has a third person
  first (`MCRows`), at the start and after another editor's write, so that a second coach is moved up by
  the change that picked them, by a later one that clears the first place, and not at all; and a
  coach who was moved up is refused as their own second. `retried_draft` has no blank row and
  clears nothing, so that what it shows is the retry and no promotion.
- `wake_day`, receipts: a gap is more than two of five windows, so that one is known, told on and
  told of again; two wakes are cut short, which is what `erased_gap` needs. Reminders:
  days of three hours, one slot, two names saved one at a time, two attempts, two failures,
  one edit. Import: two names, two LINE accounts, three accounts (one there at first), one
  venue, two instances, two answers of Ragic (one with a name twice and the LINE accounts
  swapped), two attempts of the job, and one disturbance, which is a person's change (of
  several steps where it has them) or a synchronisation that goes on without the lock. Two
  disturbances were looked at in part only (5 million states, no violation).

### Fairness
`FairSpec` assumes weak fairness of each worker's next step (workers poll their
queues, every await settles or times out, the reconciliation is scheduled every
five minutes), of the rest of a cancellation once begun, and of the clock. It
does not assume that anyone cancels, retries or fails, nor that a given answer
is ever given: an answer may be `retry_wait` until the attempts run out. `Crash`
and `Catch` are bounded by `MaxUpsets`; with unboundedly many failures no run
need ever end. `EventuallyFinished` accepts open rows under `partial_success` and
`cancelled`: `retryFailed` during a finalisation leaves the reopened row to its
own jobs, and the reconciliation does not look at those two states.

For the wake, `FairSpec` assumes weak fairness of the wake's steps taken together: the
scheduler keeps calling, and a wake goes on until it ends, is out of time or is
gone, the last two bounded by `MaxUpsets`. The order of the jobs is not
assumed fair: every job that a wake may take twice waits for the next wake. The
clocks and the rest of a cancellation are fair as above.

The assignment page needs no fairness: `PendingUnderWay` says that whatever a row waits for is on
its way, so that `saving` ends as soon as requests are handled and dialogs are answered.

For the daily reminders, `ReminderFairness` assumes weak fairness of the wake's work
and of the clock: the scheduled workflow calls the wake every five minutes in the evening
(`.github/workflows/notification-wake.yml`). Failing units and cut wakes are bounded.

## 5. Proofs

`DeliveryProofs`, `RunLedgerProofs`, `WorkerRunProofs`, `WakeRunProofs`, `SchedulingProofs`,
`AssignDraftProofs`, `WakeDayProofs` and `CoachImportProofs` are checked to the last leaf; the
theorems are listed in `PROJECT.json`.

**Delivery.** Assumptions: those of the module on its constants, above all
`MemoryAssumption` (`KeyMemory >= Window + Transit`). The code's
`RETRY_WINDOW_MS` is the full 24 hours LINE remembers a key, so for a request with
any time of flight the assumption says that LINE's memory is in fact a little
longer than documented; with `KeyMemory = Window` the proof, and the model, only
cover `Transit = 0`. None of the invariants is inductive alone. The inductive
invariant `IInv` adds: every live sender's claim token was issued to it alone and
is at most the row's (so the holder of the row's token is unique); attempt
numbers of requests and senders are at most the row's and belong to their tokens
(so a number is used once: `AttemptBudget`); the first attempt's date is fixed
once set, and not after the first acceptance (so any later request inside the
window is inside the memory of the key: `AtMostOnce`); an `accepted` outcome in a
sender's hand has an acceptance at LINE behind it (`AcceptedIsTrue`).
`DatesMatchStatus`, `SettledIsFinal` and the two refinements hold only if `retryFailed`
is not run by two administrators at once. They are proved from the named
hypothesis `OneAdmin`, with `OInv`, which adds that a picked row
is still failed while the administrator holds it; finding 1 is what happens
without it, and `OneAdminRetriesFailed` proves that it takes two. `RowsLiveSo`, the
refinement of `RecipientLife`, needs besides that an `accepted` outcome belongs to an
attempt inside the limit (`AnswersInLimit`, as a row reset with its attempts used up is
claimed once more, but not sent).

**WorkerRun.** `IInv` conjoins the type invariant with: the main worker is only
busy while its job has attempts left; at most the holder of a row completes it,
and a row that is being sent has its holder; counts in a finaliser's hand that say
"all accepted" are about rows that are all accepted now, since `accepted` is
final; past `StoreReport` the report is stored, and no step removes it. From it:
`TypeCorrect`, `SuccessIsReal`, `ReportIsThere`, `CancelledStay`.
`OnlyRetriedOverlooked` compares cardinalities over a history of steps: the invariant
`Foreseen` says that a finaliser counted as failed at least the rows that may still be
delivered (open, or failed and so open to a retry), and no step adds to these rows, as
what is accepted, unknown or cancelled is never delivered again.
`KeepsPromise`, the refinement of `SavedRun`, rests on `Verdict`: the outcome of the counts
in a finaliser's hand is true of the rows as they are now. It is inductive because each
outcome rests on rows that are final (`TruthStays`), and because counts without an open row
give such an outcome when they are taken (`CountsOfRows`). A `failed` row is not final (it may be
retried), which is why `failed` promises nothing.

**WakeRun.** `Typed` is inductive by itself: the job a wake has in hand is active
and of the kind its step works on, so nobody else completes it, and a completed
job is never sent again (`CompletedJobsStay`). `IInv` adds: a row whose once-only
job is completed is settled, or was reopened and has a job of its own; the counts
in the report job's hand, as in `WorkerRun`; the report once stored. From it:
`TypeCorrect`, `SuccessIsReal`, `ReportIsThere`, `NothingRepeats`.
`NobodyForgotten` follows with `IInv` by induction on itself: a row that was open
when the first job passed it got its job then, or had one already; and when that
is completed, the row is settled or was reopened with another job (`UsedUp`).
`KeepsPromise` follows by the same argument as for the workers, from the counts in the report
job's hand.

**Scheduling.** The type invariant carries what a request in flight remembers: its token is
a context of its own kind and row, its base the row as loaded. `SlotsInOrder` is
inductive with the shape of the patches each route computes. `ConflictsShown` needs, for each write,
that every conflict it makes is with a row in the context's `others`, so that a token that verifies
has shown exactly these; conflicts that end are forgotten, and confirmed ones can be
left by another writer but not replaced. `NoLostUpdate`, `AwayShown` and `LockedDayKept` are
proved action by action from it.

**AssignDraft.** The invariant says which change owns each field of the draft, that a revision is
in at most one of the requests or answers, and that a committed revision is either still answered or
given up. A request
that is written is later than every change written before (`Late`): so what a change stored stays
in its place until a later change moves a second coach up, and then in the first place until a
later change writes that (`Stored`). From these: `PickKept`, `SavedTakenStored`, `SavingMeansWaiting`;
`PendingUnderWay` is inductive by itself.

**Receipts and reminders** (`WakeDayProofs`). `CInv`: types and the order of times; everything in
`actives` and on receipts is past (`Past`); the latest receipt (`ReceiptTells`) and the wake at work
(`WakeTells`) know the first silence, unless a wake was misled by a heartbeat left behind. `RInv`: per date
the job's plan, cursor and saved messages agree (`DateOK`), the step in hand continues the
job it fetched (`WorkOK`, `Pending`, `Idle`), and the unresolved of a plan up to its cursor are
counted once (`Counts`). From them: `ReceiptsTyped`, `FirstSilenceIsTold`, `RemindersTyped`,
`PlannedIsCreated`, `PlansKept`, `EverythingAccounted`.

**Import** (`CoachImportProofs`). Four invariants, one on top of the other. `Typed`, with the
shape of the checkpoint, of a step's reading and of each synchronisation, gives
`ImportTypes`. `Twinless` gives `NoTwinsAlways`: a synchronisation without the lock excuses
every name, so two importers never work beside each other (`Alone`), and an import
that may still create has seen everybody whose name no person gave (`NameSeen`,
`PlaceSeen`): people only add names that they then excuse. `BindingSeen` gives
`BindingsKept`: an account that was without a LINE account when an import read it, and has
one now, is on that import's list `bound`. `Counted` gives `CountsAlwaysTrue`: what the
job did is filed under the place of its record, only places before the cursor did anything,
and so each record counts once however often its step was undone.

**Only model-checked.** `EventuallyFinished` of both runtimes and `JobEnds`: liveness under
fairness. The violated properties have counterexamples. The external platform and queue are
assumptions of the models, not results.

## 6. Findings

1. **`two_retries`: `retryFailed` can reset a row that was accepted meanwhile.**
   Its transaction reads the failed rows and then resets them by id alone, without
   a lock or a condition on the status. Of two administrators who both read a row
   as failed, the first commits, the row is sent and accepted, and the second
   resets it to `pending`. LINE's memory of the retry key still prevents a second
   delivery (`AtMostOnce` holds), but the row's history is lost.
2. **`cancelled_run`: a cancelled run is taken up again.**
   `handleWeeklyPushJob` marks the run `sending` whatever its status is; a run
   cancelled before its job came to run (or whose job is retried) becomes
   `sending` again and is then finalised as if nobody had cancelled it. Its
   cancelled recipients are not messaged (`CancelledRowsStay`, proved as `CancelledStay`).
3. **`retried_wake`: under the wake a retried run is `sending` for ever.**
   `markSending` passes `completedAt: undefined`, which leaves the column as it is.
   The recipients' new jobs deliver, but no job finalises the run: the once-only
   report job is used up, and planning and recovery pass over runs that have
   `completedAt`. The always-on workers do finalise such a run.

4. **`retried_draft`: a retry of two fields stores one of them, and the row says "saved".**
   A retry carries every unsaved field of the row, but assign-coach takes one of them per
   request; the answer clears both from the draft.
5. **`erased_gap`: two interrupted wakes erase a known gap.** A wake that stops between creating
   its heartbeat and completing it leaves a job that says nothing of the gap. A later wake's drain
   completes it as it is, which makes it the latest receipt; if that wake stops before its own
   receipt, the next one no longer knows of the gap.

Observed while modelling, without a run of its own: an import overwrites a LINE binding made after
it had read the accounts, because `updateCoachUserLineId` writes by id alone
(`coach.repository.ts:52`); `OnlyNewBindingsLost` says that no other binding is lost, and its
exception is the case which "never rebind an existing LINE owner"
(`ragic-checkpoint.test.ts:82`) does not cover. A synchronisation that goes on without
the lock makes twins (excluded in `NoTwins`).
The automatic assignment sends both coaches of a blank row at once: when the second is written
first it is moved up to first coach (`preparePatch`), the request of the first conflicts, and its retry
is written over the coach who was moved up. The row says "saved" and holds one coach, although both
changes were acknowledged in the end; `SavedTakenStored` names this as its exception.
A `PATCH` of `coachName2` without `coachCount` gives a second coach with a count of 1. An MCP update may
move a row into a locked day, or a locked row out of its day. A plan of the legacy sender treats accounts without LINE as
unambiguous where the wake's plan treats them as ambiguous.

## 7. Not modelled

The parts without behaviour between steps of section 1: single statements, stateless
verification, I/O, configuration. Message texts, rosters, phone numbers, colours and reports'
contents are data the properties do not distinguish. Beyond these:

- *Scheduling*: notes, teaching flags, the vacant mark, empty class names, the message an unlock
  sends, the lock flag in a POST body, copying a week, and the deletion of a venue, which deletes its
  schedules with it, under the lock (`venue.routes.ts:50`). The import's preview is the token it gives.
- *Assignment page*: other rows of the page (each has its own draft), the filters, hidden autofill; the
  number of coaches a row takes (a second one too many is refused, like any error).
- *Wake*: the limit of a hundred units, the weekly slot (planned like the daily one), torn reads within one
  preparation, the freshness of the executor. A slot can be missed without a gap when every
  wake of an evening spends its time on the first drain: planning comes after it.
- *Ragic*: venue maps, phone and e-mail, labour aliases and excluded names (they only skip records),
  retried fetches, run records, retries after start-up. A session that loses its connection loses the
  lock while the synchronisation goes on: like one that started without it. Jobs of two days at a
  time: each reads and writes in its own transactions, like a job after a lost step.
- *Queue lifecycle*: start, stop and rollback of one process, calls in a fixed order. A
  signal during the start is listed as a hazard.
- *OAuth*: one conditional UPDATE decides who uses a code or a token. A failure between it and the
  new token ends the grant; the client must ask again.

Hazards without a property have a note in `PROJECT.json`.
