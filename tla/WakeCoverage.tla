---------------------------- MODULE WakeCoverage ----------------------------
(***************************************************************************)
(* The receipts of the external wakes. Each wake leaves one, and the next  *)
(* reads from it how long no active wake was there: a gap, once known, is  *)
(* to be reported until an operator has looked. A receipt is a heartbeat   *)
(* job that is created and then completed; a wake cut short in between     *)
(* leaves the job behind, and a later drain takes it.                      *)
(*                                                                         *)
(* Time counts windows: one window has one heartbeat identity.             *)
(***************************************************************************)
EXTENDS Integers

CONSTANTS
  NotBefore,   \* when the wake was activated
  Limit,       \* windows without a wake that make a gap
  Horizon,     \* bound: the last window
  MaxUpsets,   \* bound: wakes that end without a receipt
  Never

ASSUME CoverageAssumption ==
  /\ NotBefore \in Nat /\ Limit \in Nat /\ Horizon \in Nat /\ MaxUpsets \in Nat
  /\ Never \notin Int

VARIABLES
  now,
  wake,       \* the wake at work; they exclude one another
  latest,     \* the heartbeat completed last
  orphans,    \* heartbeats created and not completed
  written,    \* the last window whose heartbeat is completed
  upsets,
  actives,    \* ghost: when each active wake with a full receipt began
  misled      \* ghost: some wake read a heartbeat that was not a full receipt
vars == <<now, wake, latest, orphans, written, upsets, actives, misled>>

Modes == {"active", "canary"}
Windows == 0 .. Horizon
Times == Windows \cup {Never}
Wakes == [phase : {"off", "drain", "beat", "mark"}, mode : Modes, at : Windows, gap : Times,
          lastActive : Times, ticked : BOOLEAN, window : Windows]
Receipts == [mode : Modes, at : Times, gap : Times, lastActive : Times, full : BOOLEAN]
Heartbeats == [window : Windows, mode : Modes]

Off == [phase |-> "off", mode |-> "canary", at |-> 0, gap |-> Never, lastActive |-> Never,
        ticked |-> FALSE, window |-> 0]
NoReceipt == [mode |-> "canary", at |-> Never, gap |-> Never, lastActive |-> Never, full |-> FALSE]

Init ==
  /\ now = 0 /\ wake = Off /\ latest = NoReceipt /\ orphans = {} /\ written = Never
  /\ upsets = 0 /\ actives = {} /\ misled = FALSE

-----------------------------------------------------------------------------
\* wakeCoverageGap: since when nobody was there, for an active wake at time t.
Start(last) == IF last = Never \/ last < NotBefore THEN NotBefore ELSE last

\* Mutants: a gap lasts until the next wake; it is told from when it was noticed.
NoticedGap(t, last, gap) == IF gap # Never THEN gap ELSE IF t - Start(last) > Limit THEN t ELSE Never
FreshGap(t, last, gap) == IF t - Start(last) > Limit THEN Start(last) ELSE Never
WakeGap(t, last, gap) ==
  IF gap # Never THEN gap ELSE IF t - Start(last) > Limit THEN Start(last) ELSE Never

\* wakeCoverageReceipt: the last active wake, and the gap, as a receipt tells them.
LastActive(p) ==
  IF p.lastActive # Never THEN p.lastActive ELSE IF p.mode = "active" THEN p.at ELSE Never
Gap(mode, t, p) == IF mode = "active" THEN WakeGap(t, LastActive(p), p.gap) ELSE p.gap

\* A wake begins, in the mode of its configuration, and reads the latest receipt.
WakeStart(mode) ==
  /\ wake.phase = "off"
  /\ wake' = [Off EXCEPT
       !.phase = IF mode = "active" THEN "drain" ELSE "beat", !.mode = mode, !.at = now,
       !.gap = Gap(mode, now, latest),
       !.lastActive = IF mode = "active" THEN now ELSE LastActive(latest)]
  /\ misled' = (misled \/ (latest # NoReceipt /\ ~latest.full))
  /\ UNCHANGED <<now, latest, orphans, written, upsets, actives>>

\* The drain of an active wake completes a heartbeat that was left behind, as it is.
Drain ==
  /\ wake.phase = "drain"
  /\ \E o \in orphans :
       /\ orphans' = orphans \ {o}
       /\ latest' = [NoReceipt EXCEPT !.mode = o.mode, !.at = now]
       /\ written' = IF o.window = now THEN now ELSE written
  /\ UNCHANGED <<now, wake, upsets, actives, misled>>

\* A drain may end early: a wake has a deadline.
DrainEnds ==
  /\ wake.phase = "drain" /\ wake' = [wake EXCEPT !.phase = "beat"]
  /\ UNCHANGED <<now, latest, orphans, written, upsets, actives, misled>>

\* The heartbeat is created, unless this window has one ...
Beat ==
  /\ wake.phase = "beat"
  /\ wake' = [wake EXCEPT !.phase = "mark", !.window = now]
  /\ orphans' = IF written = now \/ (\E o \in orphans : o.window = now) THEN orphans
                ELSE orphans \cup {[window |-> now, mode |-> wake.mode]}
  /\ UNCHANGED <<now, latest, written, upsets, actives, misled>>

\* ... and completed, or written again.
Mark ==
  /\ wake.phase = "mark"
  /\ latest' = [mode |-> wake.mode, at |-> now, gap |-> wake.gap,
                lastActive |-> wake.lastActive, full |-> TRUE]
  /\ orphans' = {o \in orphans : o.window # wake.window} /\ written' = wake.window
  /\ actives' = IF wake.mode = "active" THEN actives \cup {wake.at} ELSE actives
  /\ wake' = Off
  /\ UNCHANGED <<now, upsets, misled>>

\* An error, a lost connection or a stopped process.
Cut ==
  /\ wake.phase # "off" /\ upsets < MaxUpsets /\ upsets' = upsets + 1 /\ wake' = Off
  /\ UNCHANGED <<now, latest, orphans, written, actives, misled>>

\* A wake is over long before a second window ends.
Tick ==
  /\ now < Horizon /\ now' = now + 1 /\ ~wake.ticked
  /\ wake' = IF wake.phase = "off" THEN wake ELSE [wake EXCEPT !.ticked = TRUE]
  /\ UNCHANGED <<latest, orphans, written, upsets, actives, misled>>

Next ==
  \/ \E mode \in Modes : WakeStart(mode)
  \/ Drain \/ DrainEnds \/ Beat \/ Mark \/ Cut \/ Tick
Spec == Init /\ [][Next]_vars

-----------------------------------------------------------------------------
(* Properties. *)
\* Types; a gap a wake or a receipt tells of began before it.
TypeOK ==
  /\ now \in Windows /\ wake \in Wakes /\ latest \in Receipts /\ orphans \subseteq Heartbeats
  /\ written \in Times /\ upsets \in 0 .. MaxUpsets /\ actives \subseteq 0 .. now
  /\ misled \in BOOLEAN
  /\ (wake.gap # Never => wake.gap < wake.at) /\ (latest.gap # Never => latest.gap < latest.at)

\* The silences active wakes at the times of seen could tell of: from the activation or
\* an active wake, no active wake for longer than Limit.
Starts == {NotBefore} \cup {a \in actives : a > NotBefore}
Silences(seen) ==
  {s \in Starts : (\E t \in seen : t - s > Limit) /\ \A a \in actives : ~(a > s /\ a - s <= Limit)}
Seen == IF wake.mode = "active" THEN actives \cup {wake.at} ELSE actives

\* Whatever modes and interruptions lie between, a wake reports the first silence there
\* was, and nothing if there was none; unless some wake took for its receipt a
\* heartbeat that was left behind.
GapIsFirstSilence ==
  wake.phase # "off" /\ ~misled =>
    \/ wake.gap = Never /\ Silences(Seen) = {}
    \/ wake.gap \in Silences(Seen) /\ \A s \in Silences(Seen) : wake.gap <= s

\* What the comment on wakeCoverageGap says: once an active wake has seen a silence,
\* every later one reports a gap.
GapNotErased == wake.phase # "off" /\ Silences(actives) # {} => wake.gap # Never
=============================================================================
