--------------------------- MODULE WakeDayProofs ---------------------------
(***************************************************************************)
(* What holds of WakeCoverage and of DailyReminder for every value of      *)
(* their constants.                                                        *)
(***************************************************************************)
EXTENDS WakeCoverage, DailyReminder, TLAPS, FiniteSetTheorems, WellFoundedInduction

-----------------------------------------------------------------------------
(* Receipts. *)
\* Types, and the order of the times a wake and a receipt tell of.
CoverageTyped ==
  /\ now \in Windows /\ wake \in Wakes /\ latest \in Receipts /\ orphans \subseteq Heartbeats
  /\ written \in Times /\ upsets \in 0 .. MaxUpsets /\ actives \subseteq 0 .. now
  /\ misled \in BOOLEAN
Ordered ==
  /\ wake.at <= now /\ wake.window <= now
  /\ wake.gap # Never => wake.gap < wake.at
  /\ latest.at # Never => latest.at <= now
  /\ latest.gap # Never => latest.at # Never /\ latest.gap < latest.at

\* The gap of a wake at time t is a time, and before t.
LEMMA WakeGapIsBefore ==
  ASSUME NEW t \in Windows, NEW last \in Times, NEW gap \in Times, gap # Never => gap < t
  PROVE /\ WakeGap(t, last, gap) \in Times
        /\ WakeGap(t, last, gap) # Never => WakeGap(t, last, gap) < t
<1> USE CoverageAssumption
<1>1. Start(last) \in Nat BY DEF Start, Times, Windows
<1>2. t - Start(last) > Limit => Start(last) \in Windows /\ Start(last) < t BY <1>1 DEF Windows
<1> QED BY <1>2 DEF WakeGap, Times

\* A wake takes from the latest receipt times, a gap before it began.
LEMMA GapIsBefore ==
  ASSUME CoverageTyped, Ordered, NEW mode \in Modes
  PROVE /\ Gap(mode, now, latest) \in Times /\ LastActive(latest) \in Times
        /\ Gap(mode, now, latest) # Never => Gap(mode, now, latest) < now
<1> USE CoverageAssumption
<1>1. /\ latest.mode \in Modes /\ latest.at \in Times /\ latest.gap \in Times
      /\ latest.lastActive \in Times
  BY DEF CoverageTyped, Receipts
<1>2. latest.gap # Never => latest.gap < now BY <1>1 DEF Ordered, CoverageTyped, Times, Windows
<1>3. LastActive(latest) \in Times BY <1>1 DEF LastActive, Times
<1>4. now \in Windows BY DEF CoverageTyped
<1>5. /\ WakeGap(now, LastActive(latest), latest.gap) \in Times
      /\ WakeGap(now, LastActive(latest), latest.gap) # Never => WakeGap(now, LastActive(latest), latest.gap) < now
  BY <1>1, <1>2, <1>3, <1>4, WakeGapIsBefore
<1> QED BY <1>1, <1>2, <1>3, <1>5 DEF Gap

CInv1 == CoverageTyped /\ Ordered

LEMMA CoverageTypedInit == Init => CInv1
<1> SUFFICES ASSUME Init PROVE CInv1 OBVIOUS
<1> USE CoverageAssumption
<1>1. 0 \in Windows /\ Never \in Times BY DEF Times, Windows
<1>2. Off \in Wakes BY <1>1 DEF Off, Wakes, Modes
<1>3. NoReceipt \in Receipts BY <1>1 DEF NoReceipt, Receipts, Modes
<1>a. misled \in BOOLEAN BY DEF Init
<1>b. upsets \in 0 .. MaxUpsets /\ actives \subseteq 0 .. now BY DEF Init
<1>4. CoverageTyped BY <1>1, <1>2, <1>3, <1>a, <1>b DEF Init, CoverageTyped
<1>5. /\ wake.at = 0 /\ wake.window = 0 /\ wake.gap = Never
      /\ latest.at = Never /\ latest.gap = Never /\ now = 0
  BY DEF Init, Off, NoReceipt
<1>6. Ordered BY <1>5 DEF Ordered
<1> QED BY <1>4, <1>6 DEF CInv1

LEMMA CoverageTypedStep == CInv1 /\ [Next]_vars => CInv1'
<1> USE CoverageAssumption
<1> SUFFICES ASSUME CInv1, [Next]_vars PROVE CInv1' OBVIOUS
<1>0. /\ now \in Windows /\ wake \in Wakes /\ latest \in Receipts /\ orphans \subseteq Heartbeats
      /\ written \in Times /\ upsets \in 0 .. MaxUpsets /\ actives \subseteq 0 .. now
      /\ misled \in BOOLEAN /\ Ordered
  BY DEF CInv1, CoverageTyped
<1>a. /\ wake.at \in Windows /\ wake.gap \in Times /\ wake.lastActive \in Times /\ wake.window \in Windows
      /\ wake.mode \in Modes
  BY <1>0 DEF Wakes
<1>b. latest.gap \in Times /\ latest.at \in Times BY <1>0 DEF Receipts
<1>c. Off \in Wakes /\ Off.at = 0 /\ Off.window = 0 /\ Off.gap = Never
  BY DEF Off, Wakes, Modes, Times, Windows
<1>1. ASSUME NEW mode \in Modes, WakeStart(mode) PROVE CInv1'
  <2>1. /\ Gap(mode, now, latest) \in Times /\ LastActive(latest) \in Times
        /\ Gap(mode, now, latest) # Never => Gap(mode, now, latest) < now
    BY <1>0, GapIsBefore DEF CoverageTyped
  <2>2. now \in Times BY <1>0 DEF Times
  <2>g. PICK gap \in Times : gap = Gap(mode, now, latest) BY <2>1
  <2>h. PICK last \in Times : last = IF mode = "active" THEN now ELSE LastActive(latest) BY <2>1, <2>2
  <2>k. wake' = [phase |-> IF mode = "active" THEN "drain" ELSE "beat", mode |-> mode, at |-> now,
                 gap |-> gap, lastActive |-> last, ticked |-> FALSE, window |-> 0]
    BY <1>1, <2>g, <2>h DEF WakeStart, Off
  <2>3. wake' \in Wakes BY <2>k, <1>0 DEF Wakes, Windows
  <2>4. wake'.at = now /\ wake'.window = 0 /\ wake'.gap = Gap(mode, now, latest) BY <1>1 DEF WakeStart, Off
  <2>5. Ordered' BY <1>1, <2>1, <2>4, <1>0 DEF WakeStart, Ordered, Windows
  <2>6. misled' \in BOOLEAN BY <1>1, <1>0 DEF WakeStart
  <2> QED BY <1>1, <1>0, <2>3, <2>5, <2>6 DEF WakeStart, CInv1, CoverageTyped
<1>2. CASE Drain
  <2>1. PICK o \in orphans : /\ orphans' = orphans \ {o}
                             /\ latest' = [NoReceipt EXCEPT !.mode = o.mode, !.at = now]
                             /\ written' = IF o.window = now THEN now ELSE written
    BY <1>2 DEF Drain
  <2>2. o.mode \in Modes BY <1>0 DEF Heartbeats
  <2>3. latest' \in Receipts /\ latest'.at = now /\ latest'.gap = Never
    BY <2>1, <2>2, <1>0 DEF NoReceipt, Receipts, Times
  <2>4. written' \in Times BY <2>1, <1>0 DEF Times
  <2>5. Ordered' BY <1>2, <2>3, <1>0 DEF Drain, Ordered, Windows
  <2> QED BY <1>2, <1>0, <2>1, <2>3, <2>4, <2>5 DEF Drain, CInv1, CoverageTyped
<1>3. CASE DrainEnds
  <2>1. wake' \in Wakes BY <1>0, <1>3 DEF DrainEnds, Wakes
  <2>2. wake'.at = wake.at /\ wake'.window = wake.window /\ wake'.gap = wake.gap
    BY <1>0, <1>3 DEF DrainEnds, Wakes
  <2> QED BY <1>0, <1>3, <2>1, <2>2 DEF DrainEnds, CInv1, CoverageTyped, Ordered
<1>4. CASE Beat
  <2>1. wake' \in Wakes BY <1>0, <1>4 DEF Beat, Wakes
  <2>2. wake'.at = wake.at /\ wake'.window = now /\ wake'.gap = wake.gap
    BY <1>0, <1>4 DEF Beat, Wakes
  <2>3. [window |-> now, mode |-> wake.mode] \in Heartbeats BY <1>0, <1>a DEF Heartbeats
  <2>4. orphans' \subseteq Heartbeats BY <1>0, <1>4, <2>3 DEF Beat
  <2> QED BY <1>0, <1>4, <2>1, <2>2, <2>4 DEF Beat, CInv1, CoverageTyped, Ordered, Windows
<1>5. CASE Mark
  <2>1. latest' \in Receipts /\ latest'.at = now /\ latest'.gap = wake.gap
    BY <1>5, <1>0, <1>a DEF Mark, Receipts, Times
  <2>2. wake' = Off /\ now' = now BY <1>5 DEF Mark
  <2>3. wake.gap # Never => wake.gap < now BY <1>0, <1>a DEF Ordered, Times, Windows
  <2>4. Ordered' BY <2>1, <2>2, <2>3, <1>0, <1>c DEF Ordered, Windows
  <2>5. written' \in Times /\ orphans' \subseteq Heartbeats BY <1>5, <1>0, <1>a DEF Mark, Times
  <2>6. wake.at \in 0 .. now BY <1>0, <1>a DEF Ordered, Windows
  <2>7. actives' \subseteq 0 .. now BY <1>5, <1>0, <2>6 DEF Mark
  <2> QED BY <1>5, <1>0, <1>c, <2>1, <2>2, <2>4, <2>5, <2>7 DEF Mark, CInv1, CoverageTyped
<1>6. CASE Cut
  BY <1>6, <1>0, <1>c DEF Cut, CInv1, CoverageTyped, Ordered, Windows
<1>7. CASE Tick
  <2>1. now' \in Windows /\ now' = now + 1 BY <1>7, <1>0 DEF Tick, Windows
  <2>2. wake' \in Wakes BY <1>7, <1>0 DEF Tick, Wakes
  <2>3. wake'.at = wake.at /\ wake'.window = wake.window /\ wake'.gap = wake.gap
    BY <1>7, <1>0 DEF Tick, Wakes
  <2>4. Ordered'
    BY <1>7, <1>0, <1>a, <1>b, <2>1, <2>3 DEF Tick, Ordered, Windows, Times
  <2>5. 0 .. now \subseteq 0 .. now' BY <2>1, <1>0 DEF Windows
  <2> QED BY <1>7, <1>0, <2>1, <2>2, <2>4, <2>5 DEF Tick, CInv1, CoverageTyped
<1>8. CASE UNCHANGED vars BY <1>8 DEF vars, CInv1, CoverageTyped, Ordered
<1> QED BY <1>1, <1>2, <1>3, <1>4, <1>5, <1>6, <1>7, <1>8 DEF Next

\* The times the receipts and the wakes carry are times, and a gap began before them.
THEOREM ReceiptsTyped == Spec => []TypeOK
<1>1. CInv1 => TypeOK BY DEF CInv1, CoverageTyped, Ordered, TypeOK
<1> QED BY <1>1, CoverageTypedInit, CoverageTypedStep, PTL DEF Spec

-----------------------------------------------------------------------------
(* The first silence. *)
\* s is a silence that the wakes at the times of seen could tell of, after the active
\* wakes acts; the first of them; and the last of some times.
Silent(s, seen, acts) ==
  /\ s \in {NotBefore} \cup {a \in acts : a > NotBefore}
  /\ \E u \in seen : u - s > Limit
  /\ \A a \in acts : ~(a > s /\ a - s <= Limit)
FirstSilent(gap, seen, acts) ==
  \/ gap = Never /\ \A s \in Int : ~Silent(s, seen, acts)
  \/ gap \in Int /\ Silent(gap, seen, acts) /\ \A s \in Int : Silent(s, seen, acts) => gap <= s
LastOf(last, seen) ==
  IF seen = {} THEN last = Never ELSE last \in seen /\ \A a \in seen : a <= last

\* A gap that is known stays the first silence when one more wake looks.
LEMMA KnownGap ==
  ASSUME NEW t \in Nat, NEW acts, acts \subseteq 0 .. t, NEW gap \in Int, FirstSilent(gap, acts, acts)
  PROVE FirstSilent(gap, acts \cup {t}, acts)
<1> USE CoverageAssumption
<1>1. Silent(gap, acts, acts) /\ \A s \in Int : Silent(s, acts, acts) => gap <= s BY DEF FirstSilent
<1>2. Silent(gap, acts \cup {t}, acts) BY <1>1 DEF Silent
<1>3. ASSUME NEW s \in Int, Silent(s, acts \cup {t}, acts), s < gap PROVE FALSE
  <2>1. s >= NotBefore BY <1>3 DEF Silent
  <2>2. gap \in acts BY <1>1, <1>3, <2>1 DEF Silent
  <2>3. gap - s > Limit BY <1>3, <2>2 DEF Silent
  <2>4. Silent(s, acts, acts) BY <1>3, <2>2, <2>3 DEF Silent
  <2> QED BY <1>1, <1>3, <2>4
<1> QED BY <1>2, <1>3 DEF FirstSilent

\* Without one, the only silence a wake can notice is the one since the last active wake.
LEMMA NewGap ==
  ASSUME NEW t \in Nat, NEW acts, acts \subseteq 0 .. t, NEW last, LastOf(last, acts),
         FirstSilent(Never, acts, acts)
  PROVE FirstSilent(WakeGap(t, last, Never), acts \cup {t}, acts)
<1> USE CoverageAssumption
<1> DEFINE st == Start(last)
<1>1. \A s \in Int : ~Silent(s, acts, acts) BY DEF FirstSilent
<1>a. acts = {} => st = NotBefore BY DEF Start, LastOf
<1>b. ASSUME acts # {}
      PROVE /\ last \in acts /\ last \in Int /\ \A a \in acts : a \in Int /\ a <= last
            /\ st = IF last < NotBefore THEN NotBefore ELSE last
  <2>1. last \in acts /\ \A a \in acts : a <= last BY <1>b DEF LastOf
  <2>2. last \in Int /\ last # Never BY <2>1
  <2> QED BY <2>1, <2>2 DEF Start
<1>2. st \in Int BY <1>a, <1>b
<1>3. st \in {NotBefore} \cup {a \in acts : a > NotBefore}
  <2>1. CASE acts = {} BY <2>1, <1>a
  <2>2. CASE acts # {}
    <3>1. CASE last <= NotBefore BY <3>1, <2>2, <1>b
    <3>2. CASE last > NotBefore BY <3>2, <2>2, <1>b
    <3> QED BY <3>1, <3>2, <2>2, <1>b
  <2> QED BY <2>1, <2>2
<1>4. \A a \in acts : a <= st
  <2>1. CASE acts = {} BY <2>1
  <2>2. CASE acts # {} BY <2>2, <1>b
  <2> QED BY <2>1, <2>2
<1>5. ASSUME t - st > Limit PROVE Silent(st, acts \cup {t}, acts) BY <1>2, <1>3, <1>4, <1>5 DEF Silent
<1>6. ASSUME NEW s \in Int, Silent(s, acts \cup {t}, acts) PROVE s = st /\ t - st > Limit
  <2>1. \A a \in acts : ~(a - s > Limit) BY <1>1, <1>6 DEF Silent
  <2>2. t - s > Limit BY <1>6, <2>1 DEF Silent
  <2>3. \A a \in acts : a <= s BY <1>6, <2>1 DEF Silent
  <2>4. s \in {NotBefore} \cup {a \in acts : a > NotBefore} BY <1>6 DEF Silent
  <2>5. s = st
    <3>1. CASE acts = {} BY <3>1, <2>4, <1>a
    <3>2. CASE acts # {}
      <4>1. last <= s BY <3>2, <2>3, <1>b
      <4>2. CASE s = NotBefore BY <3>2, <4>1, <4>2, <1>b
      <4>3. CASE s # NotBefore
        <5>1. s \in acts /\ s > NotBefore BY <4>3, <2>4
        <5>2. s = last BY <3>2, <4>1, <5>1, <1>b
        <5> QED BY <3>2, <5>1, <5>2, <1>b
      <4> QED BY <4>2, <4>3
    <3> QED BY <3>1, <3>2
  <2> QED BY <2>2, <2>5
<1>7. CASE t - st > Limit
  <2>1. WakeGap(t, last, Never) = st BY <1>7 DEF WakeGap
  <2> QED BY <1>2, <1>5, <1>6, <1>7, <2>1 DEF FirstSilent
<1>8. CASE ~(t - st > Limit)
  <2>1. WakeGap(t, last, Never) = Never BY <1>8 DEF WakeGap
  <2> QED BY <1>6, <1>8, <2>1 DEF FirstSilent
<1> QED BY <1>7, <1>8

\* An active wake that leaves its receipt ends no silence that it could have told of.
LEMMA OneMoreActive ==
  ASSUME NEW t \in Nat, NEW acts, acts \subseteq 0 .. t, NEW gap, FirstSilent(gap, acts \cup {t}, acts)
  PROVE FirstSilent(gap, acts \cup {t}, acts \cup {t})
<1> USE CoverageAssumption
<1>1. ASSUME NEW s \in Int
      PROVE Silent(s, acts \cup {t}, acts) <=> Silent(s, acts \cup {t}, acts \cup {t})
  <2>1. ASSUME Silent(s, acts \cup {t}, acts) PROVE Silent(s, acts \cup {t}, acts \cup {t})
    <3>1. t - s > Limit BY <2>1 DEF Silent
    <3> QED BY <2>1, <3>1 DEF Silent
  <2>2. ASSUME Silent(s, acts \cup {t}, acts \cup {t}) PROVE Silent(s, acts \cup {t}, acts)
    <3>1. s # t BY <2>2 DEF Silent
    <3>2. s \in {NotBefore} \cup {a \in acts : a > NotBefore} BY <2>2, <3>1 DEF Silent
    <3> QED BY <2>2, <3>2 DEF Silent
  <2> QED BY <2>1, <2>2
<1> QED BY <1>1 DEF FirstSilent

\* What a full receipt tells, and what a wake that read one is going to tell.
Past == wake.phase # "off" => \A a \in actives : a <= wake.at
ReceiptTells ==
  ~misled /\ (latest.full \/ latest = NoReceipt) =>
    /\ LastOf(latest.lastActive, actives) /\ FirstSilent(latest.gap, actives, actives)
    /\ latest.lastActive = Never => latest.mode = "canary"
WakeTells ==
  ~misled /\ wake.phase # "off" =>
    LastOf(wake.lastActive, Seen) /\ FirstSilent(wake.gap, Seen, actives)
CInv == CInv1 /\ Past /\ ReceiptTells /\ WakeTells

LEMMA CoverageInit == Init => CInv
<1> SUFFICES ASSUME Init PROVE CInv OBVIOUS
<1>1. CInv1 BY CoverageTypedInit
<1>2. /\ wake.phase = "off" /\ actives = {} /\ latest.lastActive = Never /\ latest.gap = Never
      /\ latest.mode = "canary"
  BY DEF Init, Off, NoReceipt
<1>3. LastOf(Never, {}) /\ FirstSilent(Never, {}, {}) BY DEF LastOf, FirstSilent, Silent
<1> QED BY <1>1, <1>2, <1>3 DEF CInv, Past, ReceiptTells, WakeTells

LEMMA CoverageStep == CInv /\ [Next]_vars => CInv'
<1> USE CoverageAssumption
<1> SUFFICES ASSUME CInv, [Next]_vars PROVE CInv' OBVIOUS
<1>0. /\ now \in Windows /\ wake \in Wakes /\ latest \in Receipts /\ actives \subseteq 0 .. now
      /\ Ordered
  BY DEF CInv, CInv1, CoverageTyped
<1>a. CInv1' BY CoverageTypedStep DEF CInv
<1>b. /\ wake.at \in Windows /\ wake.mode \in Modes /\ latest.gap \in Times /\ latest.mode \in Modes
      /\ wake.gap \in Times
  BY <1>0 DEF Wakes, Receipts
<1>c. Past /\ ReceiptTells /\ WakeTells BY DEF CInv
<1>1. ASSUME NEW mode \in Modes, WakeStart(mode) PROVE CInv'
  <2>1. /\ wake'.at = now /\ wake'.mode = mode /\ wake'.gap = Gap(mode, now, latest)
        /\ wake'.lastActive = IF mode = "active" THEN now ELSE LastActive(latest)
        /\ latest' = latest /\ actives' = actives
    BY <1>1 DEF WakeStart, Off
  <2>2. Past' BY <1>0, <2>1 DEF Past, Windows
  <2>3. ReceiptTells' BY <1>c, <1>1, <2>1 DEF ReceiptTells, WakeStart
  <2>4. ASSUME ~misled'
        PROVE LastOf(wake'.lastActive, Seen') /\ FirstSilent(wake'.gap, Seen', actives)
    <3>1. ~misled /\ (latest.full \/ latest = NoReceipt) BY <2>4, <1>1 DEF WakeStart
    <3>2. /\ LastOf(latest.lastActive, actives) /\ FirstSilent(latest.gap, actives, actives)
          /\ latest.lastActive = Never => latest.mode = "canary"
      BY <3>1, <1>c DEF ReceiptTells
    <3>3. LastActive(latest) = latest.lastActive BY <3>2 DEF LastActive
    <3>4. CASE mode = "active"
      <4>1. Seen' = actives \cup {now} BY <2>1, <3>4 DEF Seen
      <4>2. wake'.gap = WakeGap(now, latest.lastActive, latest.gap) BY <2>1, <3>3, <3>4 DEF Gap
      <4>3. now \in Nat /\ actives \subseteq 0 .. now BY <1>0 DEF Windows
      <4>4. ASSUME latest.gap = Never PROVE FirstSilent(wake'.gap, Seen', actives)
        <5>1. FirstSilent(Never, actives, actives) /\ LastOf(latest.lastActive, actives) BY <4>4, <3>2
        <5>2. FirstSilent(WakeGap(now, latest.lastActive, Never), actives \cup {now}, actives)
          BY <4>3, <5>1, NewGap
        <5> QED BY <4>1, <4>2, <4>4, <5>2
      <4>5. ASSUME latest.gap # Never PROVE FirstSilent(wake'.gap, Seen', actives)
        <5>1. latest.gap \in Int BY <4>5, <1>b DEF Times, Windows
        <5>2. wake'.gap = latest.gap BY <4>2, <4>5 DEF WakeGap
        <5>3. FirstSilent(latest.gap, actives, actives) BY <3>2
        <5>4. FirstSilent(latest.gap, actives \cup {now}, actives) BY <4>3, <5>1, <5>3, KnownGap
        <5> QED BY <4>1, <5>2, <5>4
      <4>6. FirstSilent(wake'.gap, Seen', actives) BY <4>4, <4>5
      <4>7. LastOf(wake'.lastActive, Seen') BY <2>1, <3>4, <4>1, <1>0 DEF LastOf, Windows
      <4> QED BY <4>6, <4>7
    <3>5. CASE mode # "active"
      <4>1. Seen' = actives BY <2>1, <3>5 DEF Seen
      <4>2. wake'.gap = latest.gap /\ wake'.lastActive = latest.lastActive BY <2>1, <3>3, <3>5 DEF Gap
      <4> QED BY <4>1, <4>2, <3>2
    <3> QED BY <3>4, <3>5
  <2>5. WakeTells' BY <2>1, <2>4 DEF WakeTells
  <2> QED BY <1>a, <2>2, <2>3, <2>5 DEF CInv
<1>2. CASE Drain
  <2>1. PICK o \in orphans : latest' = [NoReceipt EXCEPT !.mode = o.mode, !.at = now] BY <1>2 DEF Drain
  <2>2. latest'.full = FALSE /\ latest'.at = now /\ NoReceipt.at = Never BY <2>1 DEF NoReceipt
  <2>3. latest' # NoReceipt BY <2>2, <1>0 DEF Windows
  <2>4. ReceiptTells' BY <2>2, <2>3 DEF ReceiptTells
  <2> QED BY <1>a, <1>c, <1>2, <2>4 DEF Drain, CInv, Past, WakeTells, Seen
<1>3. CASE DrainEnds
  <2>1. /\ wake'.at = wake.at /\ wake'.mode = wake.mode /\ wake'.gap = wake.gap
        /\ wake'.lastActive = wake.lastActive /\ wake.phase # "off"
    BY <1>0, <1>3 DEF DrainEnds, Wakes
  <2> QED BY <1>a, <1>c, <1>3, <2>1 DEF DrainEnds, CInv, Past, ReceiptTells, WakeTells, Seen
<1>4. CASE Beat
  <2>1. /\ wake'.at = wake.at /\ wake'.mode = wake.mode /\ wake'.gap = wake.gap
        /\ wake'.lastActive = wake.lastActive /\ wake.phase # "off"
    BY <1>0, <1>4 DEF Beat, Wakes
  <2> QED BY <1>a, <1>c, <1>4, <2>1 DEF Beat, CInv, Past, ReceiptTells, WakeTells, Seen
<1>5. CASE Mark
  <2>1. /\ latest'.mode = wake.mode /\ latest'.gap = wake.gap /\ latest'.lastActive = wake.lastActive
        /\ wake'.phase = "off" /\ misled' = misled /\ wake.phase # "off" /\ actives' = Seen
    BY <1>5 DEF Mark, Off, Seen
  <2>2. ASSUME ~misled PROVE /\ LastOf(latest'.lastActive, actives')
                             /\ FirstSilent(latest'.gap, actives', actives')
                             /\ latest'.lastActive = Never => latest'.mode = "canary"
    <3>1. LastOf(wake.lastActive, Seen) /\ FirstSilent(wake.gap, Seen, actives)
      BY <1>c, <2>1, <2>2 DEF WakeTells
    <3>2. CASE wake.mode = "active"
      <4>1. Seen = actives \cup {wake.at} BY <3>2 DEF Seen
      <4>2. wake.at \in Nat /\ actives \subseteq 0 .. wake.at
        BY <1>0, <1>b, <1>c, <2>1 DEF Past, Windows
      <4>3. FirstSilent(wake.gap, Seen, Seen) BY <3>1, <4>1, <4>2, OneMoreActive
      <4>4. wake.lastActive \in Seen BY <3>1, <4>1 DEF LastOf
      <4>5. \A a \in Seen : a \in Int BY <4>1, <4>2
      <4>6. wake.lastActive # Never BY <4>4, <4>5
      <4> QED BY <2>1, <3>1, <4>3, <4>6
    <3>3. CASE wake.mode # "active"
      <4>1. Seen = actives /\ wake.mode = "canary" BY <3>3, <1>b DEF Seen, Modes
      <4> QED BY <2>1, <3>1, <4>1
    <3> QED BY <3>2, <3>3
  <2>3. ReceiptTells' BY <2>1, <2>2 DEF ReceiptTells
  <2> QED BY <1>a, <2>1, <2>3 DEF CInv, Past, WakeTells
<1>6. CASE Cut
  <2>1. wake'.phase = "off" BY <1>6 DEF Cut, Off
  <2> QED BY <1>a, <1>c, <1>6, <2>1 DEF Cut, CInv, Past, ReceiptTells, WakeTells
<1>7. CASE Tick
  <2>1. /\ wake'.at = wake.at /\ wake'.mode = wake.mode /\ wake'.gap = wake.gap
        /\ wake'.lastActive = wake.lastActive /\ wake'.phase = wake.phase
    BY <1>0, <1>7 DEF Tick, Wakes
  <2> QED BY <1>a, <1>c, <1>7, <2>1 DEF Tick, CInv, Past, ReceiptTells, WakeTells, Seen
<1>8. CASE UNCHANGED vars BY <1>a, <1>c, <1>8 DEF vars, CInv, Past, ReceiptTells, WakeTells, Seen
<1> QED BY <1>1, <1>2, <1>3, <1>4, <1>5, <1>6, <1>7, <1>8 DEF Next

\* Unless some wake was misled by a heartbeat left behind, a wake reports the first silence
\* there was, and nothing if there was none.
THEOREM FirstSilenceIsTold == Spec => []GapIsFirstSilence
<1>1. CInv => GapIsFirstSilence
  <2> USE CoverageAssumption
  <2> SUFFICES ASSUME CInv, wake.phase # "off", ~misled
               PROVE \/ wake.gap = Never /\ Silences(Seen) = {}
                     \/ wake.gap \in Silences(Seen) /\ \A s \in Silences(Seen) : wake.gap <= s
    BY DEF GapIsFirstSilence
  <2>1. FirstSilent(wake.gap, Seen, actives) BY DEF CInv, WakeTells
  <2>2. actives \subseteq Int BY DEF CInv, CInv1, CoverageTyped
  <2>3. \A s : s \in Silences(Seen) <=> Silent(s, Seen, actives) BY DEF Silences, Starts, Silent
  <2>4. \A s \in Silences(Seen) : s \in Int BY <2>2 DEF Silences, Starts
  <2> QED BY <2>1, <2>3, <2>4 DEF FirstSilent
<1> QED BY <1>1, CoverageInit, CoverageStep, PTL DEF Spec

-----------------------------------------------------------------------------
(* Reminders: dates, the order of a plan, and the types. *)
LEMMA DateIs ==
  ASSUME NEW t \in Nat, NEW d \in Nat PROVE Date(t) = d <=> Day * d <= t /\ t < Midnight(d)
<1> USE ReminderAssumption DEF Date, Midnight
<1>1. Date(t) \in Nat /\ Day * Date(t) <= t /\ t < Day * (Date(t) + 1) OBVIOUS
<1>2. Day * d <= t /\ t < Day * (d + 1) => Date(t) = d OBVIOUS
<1> QED BY <1>1, <1>2

\* The next entry of a plan is in it, and there is none before it.
LEMMA NearestIs ==
  ASSUME NEW S, S # {}, S \subseteq Nat PROVE Nearest(S) \in S /\ \A m \in S : Nearest(S) <= m
<1>1. IsWellFoundedOn(OpToRel(<, Nat), Nat) BY NatLessThanWellFounded
<1>2. PICK n \in S : \A m \in S : ~(<<m, n>> \in OpToRel(<, Nat)) BY <1>1, WFMin
<1>3. ASSUME NEW m \in S PROVE n <= m
  <2>1. ~(<<m, n>> \in {ss \in Nat \X Nat : ss[1] < ss[2]}) BY <1>2 DEF OpToRel
  <2>2. <<m, n>> \in Nat \X Nat /\ <<m, n>>[1] = m /\ <<m, n>>[2] = n OBVIOUS
  <2> QED BY <2>1, <2>2
<1> QED BY <1>3 DEF Nearest

States == {"none", "ready", "later", "active", "done", "failed"}
Jobs == [state : States, planned : BOOLEAN, plan : Plans, cursor : Nat, unresolved : Int, left : 0 .. Tries]
Messages == [text : Texts \cup {"none", "earlier"}, at : Hours \cup {None}]
Drains == [phase : {"off", "drain", "plan", "send", "redrain"}, ticked : BOOLEAN, worked : BOOLEAN,
           date : AllDates \cup {None}, work : Jobs, adds : SUBSET [name : Names, at : Hours],
           visited : Nat, slot : AllDates]
ReminderTyped ==
  /\ hour \in Hours /\ source \in [Names -> Entries \cup {"off"}]
  /\ job \in [AllDates -> Jobs] /\ saved \in [AllDates -> [Names -> Messages]]
  /\ logged \in [AllDates -> SUBSET Names] /\ intake \in AllDates \cup {None}
  /\ drain \in Drains /\ failures \in Nat /\ edits \in Nat

LEMMA NoJobTyped == NoJob \in Jobs /\ NoWake \in Drains
<1> USE ReminderAssumption
<1>1. [n \in {} |-> "off"] \in [{} -> Entries] /\ {} \in SUBSET Names OBVIOUS
<1>2. [n \in {} |-> "off"] \in Plans BY <1>1 DEF Plans
<1>3. Tries \in 0 .. Tries /\ 0 \in AllDates BY DEF AllDates
<1>4. NoJob \in Jobs BY <1>2, <1>3 DEF NoJob, Jobs, States
<1>5. NoWake \in Drains BY <1>3, <1>4 DEF NoWake, Drains
<1> QED BY <1>4, <1>5

LEMMA AttemptFailedTyped ==
  ASSUME NEW j \in Jobs, j.left # 0, NEW wait \in {"ready", "later"}
  PROVE /\ AttemptFailed(j, wait) \in Jobs
        /\ AttemptFailed(j, wait) = [j EXCEPT !.state = IF j.left > 1 THEN wait ELSE "failed", !.left = j.left - 1]
<1> USE ReminderAssumption
<1>1. j.left \in 0 .. Tries BY DEF Jobs
<1>2. j.left - 1 \in 0 .. Tries BY <1>1
<1>3. AttemptFailed(j, wait) = [j EXCEPT !.state = IF j.left > 1 THEN wait ELSE "failed", !.left = j.left - 1]
  BY DEF AttemptFailed
<1>4. (IF j.left > 1 THEN wait ELSE "failed") \in States BY DEF States
<1> QED BY <1>2, <1>3, <1>4 DEF Jobs

LEMMA PreparedTyped == source \in [Names -> Entries \cup {"off"}] => Prepared \in Plans
<1> SUFFICES ASSUME source \in [Names -> Entries \cup {"off"}] PROVE Prepared \in Plans OBVIOUS
<1>1. {m \in Names : source[m] # "off"} \in SUBSET Names OBVIOUS
<1>2. Prepared \in [{m \in Names : source[m] # "off"} -> Entries] BY DEF Prepared
<1> QED BY <1>1, <1>2 DEF Plans

LEMMA PlanIs == ASSUME NEW f \in Plans
  PROVE DOMAIN f \subseteq Names /\ DOMAIN f \subseteq Nat /\ IsFiniteSet(DOMAIN f) /\ f \in [DOMAIN f -> Entries]
<1> USE ReminderAssumption
<1>1. PICK S \in SUBSET Names : f \in [S -> Entries] BY DEF Plans
<1>2. DOMAIN f = S BY <1>1
<1>3. IsFiniteSet(S) BY <1>1, FS_Subset
<1> QED BY <1>1, <1>2, <1>3

-----------------------------------------------------------------------------
(* What is known of a job, of the messages saved for its date, and of the work in hand. *)
\* The entries up to c of a plan that are not resolved, with messages sv and those that
\* are being added.
Unresolved(plan, sv, c, names) ==
  {n \in DOMAIN plan : n <= c /\ \/ plan[n] = "ambiguous"
                                 \/ (plan[n] \in Texts /\ sv[n] = Unsaved /\ n \notin names)}
Adding(adds) == {a.name : a \in adds}

JobOK(j) ==
  /\ j.cursor \in {0} \cup DOMAIN j.plan
  /\ j.left = 0 => j.state = "failed"
  /\ j.state = "none" => j = NoJob
  /\ ~j.planned => j.plan = NoJob.plan /\ j.cursor = 0
  /\ j.state = "done" => (j.planned /\ Rest(j) = {}) \/ (~j.planned /\ j.unresolved = 1)
Begun(d) == Day * d <= hour /\ Activated <= hour
SavedOK(d, j, sv) ==
  \A n \in Names : sv[n] # Unsaved /\ sv[n].text # "earlier" =>
    /\ sv[n].at \in Hours /\ Day * d <= sv[n].at /\ sv[n].at < Midnight(d)
    /\ n \in DOMAIN j.plan /\ sv[n].text = j.plan[n]
Counted(j, sv) ==
  IF j.planned THEN j.unresolved = Cardinality(Unresolved(j.plan, sv, j.cursor, {}))
  ELSE j.state # "done" => j.unresolved = 0
DateOK(d) ==
  JobOK(job[d]) /\ (job[d].state # "none" => Begun(d)) /\ SavedOK(d, job[d], saved[d])
DateCounted(d) == Counted(job[d], saved[d])

InHand(d, w) ==
  /\ drain.phase \in {"drain", "redrain"} /\ d \in AllDates
  /\ job[d].state = "active" /\ w.left = job[d].left
  /\ w.state \in {"ready", "done"}
  /\ w.cursor \in {0} \cup DOMAIN w.plan
  /\ w.state = "ready" => w.planned
  /\ w.state = "done" => ~job[d].planned /\ ~w.planned /\ w.unresolved = 1 /\ drain.adds = {}
                         /\ w.plan = NoJob.plan /\ w.cursor = 0
  /\ job[d].planned => w.plan = job[d].plan
AddsOK(d, w) ==
  \A a \in drain.adds :
    /\ Day * d <= a.at /\ a.at < Midnight(d)
    /\ a.name \in DOMAIN w.plan /\ w.plan[a.name] \in Texts /\ a.name <= w.cursor
WorkOK == drain.date # None => InHand(drain.date, drain.work) /\ AddsOK(drain.date, drain.work)
WorkCounted ==
  drain.date # None /\ drain.work.planned =>
    drain.work.unresolved = Cardinality(Unresolved(drain.work.plan, saved[drain.date], drain.work.cursor,
                                                   Adding(drain.adds)))
Pending ==
  /\ drain.phase = "send" => Begun(drain.slot)
  /\ intake # None => Begun(intake)
  /\ drain.phase # "off" => Activated <= hour
Idle == drain.date = None => drain.work = NoJob /\ drain.adds = {} /\ drain.visited = 0

RInv1 == ReminderTyped /\ (\A d \in AllDates : DateOK(d)) /\ WorkOK /\ Pending /\ Idle

-----------------------------------------------------------------------------
(* What a step leaves alone. *)
LEMMA DateKept ==
  ASSUME NEW d \in AllDates, ReminderTyped, DateOK(d), hour' \in Int, hour' >= hour,
         job'[d] = job[d], saved'[d] = saved[d]
  PROVE DateOK(d)'
<1> USE ReminderAssumption
<1>1. hour \in Int /\ Day * d \in Int /\ Activated \in Int BY DEF ReminderTyped, Hours, AllDates
<1>2. Begun(d) => Begun(d)' BY <1>1 DEF Begun
<1> QED BY <1>2 DEF DateOK

LEMMA PendingKept ==
  ASSUME ReminderTyped, Pending, hour' \in Int, hour' >= hour, intake' \in {intake, None},
         drain'.phase = "off" \/ (drain.phase # "off" /\
           (drain'.phase # "send" \/ (drain.phase = "send" /\ drain'.slot = drain.slot)))
  PROVE Pending'
<1> USE ReminderAssumption
<1>1. hour \in Int /\ Activated \in Int /\ \A d \in AllDates : Day * d \in Int
  BY DEF ReminderTyped, Hours, AllDates
<1>2. drain.slot \in AllDates /\ intake \in AllDates \cup {None} BY DEF ReminderTyped, Drains
<1>3. \A d \in AllDates : Begun(d) => Begun(d)' BY <1>1 DEF Begun
<1> QED BY <1>1, <1>2, <1>3 DEF Pending

\* The work in hand is not touched, whatever else happens.
LEMMA WorkKept ==
  ASSUME WorkOK, drain'.phase = drain.phase, drain'.date = drain.date, drain'.work = drain.work,
         drain'.adds = drain.adds, drain.date # None => job'[drain.date] = job[drain.date]
  PROVE WorkOK'
BY DEF WorkOK, InHand, AddsOK

LEMMA NoWakeIs == NoWake.phase = "off" /\ NoWake.date = None /\ NoWake.work = NoJob /\ NoWake.adds = {}
                  /\ NoWake.visited = 0
BY DEF NoWake

\* No work is in hand between two steps of a wake.
LEMMA WakeFree ==
  ASSUME drain' = NoWake \/ drain' = BetweenAgain, ReminderTyped
  PROVE WorkOK' /\ Idle'
<1>0. drain \in Drains BY DEF ReminderTyped
<1>a. CASE drain' = NoWake BY <1>a, NoWakeIs DEF WorkOK, Idle
<1>b. CASE drain' = BetweenAgain
  <2>1. drain'.date = None /\ drain'.work = NoJob /\ drain'.adds = {} /\ drain'.visited = 0
    BY <1>0, <1>b DEF BetweenAgain, Drains
  <2> QED BY <2>1 DEF WorkOK, Idle
<1> QED BY <1>a, <1>b

\* A job is not sent twice; a new one is empty.
LEMMA SentOnceKeeps ==
  ASSUME RInv1, NEW d \in AllDates, Begun(d), job' = SentOnce(d), hour' = hour, saved' = saved
  PROVE job' \in [AllDates -> Jobs] /\ (\A e \in AllDates : DateOK(e)')
        /\ \A e \in AllDates : job[e].state # "none" => job'[e] = job[e]
<1> USE ReminderAssumption
<1> DEFINE new == [NoJob EXCEPT !.state = "ready"]
<1>0. ReminderTyped /\ job \in [AllDates -> Jobs] /\ hour \in Int
  BY DEF RInv1, ReminderTyped, Hours
<1>1. job' = IF job[d].state = "none" THEN [job EXCEPT ![d] = new] ELSE job BY DEF SentOnce
<1>2. new \in Jobs BY NoJobTyped DEF Jobs, States
<1>3. job' \in [AllDates -> Jobs] BY <1>0, <1>1, <1>2
<1>4. /\ new.state = "ready" /\ new.cursor = 0 /\ new.plan = NoJob.plan /\ new.left = Tries
      /\ new.planned = FALSE
  BY DEF NoJob
<1>5. JobOK(new) BY <1>4 DEF JobOK
<1>6. ASSUME NEW e \in AllDates PROVE DateOK(e)'
  <2>1. DateOK(e) BY DEF RInv1
  <2>2. CASE job'[e] = job[e] BY <2>1, <2>2, <1>0, DateKept
  <2>3. CASE job'[e] # job[e]
    <3>1. e = d /\ job[d].state = "none" /\ job'[d] = new BY <2>3, <1>0, <1>1
    <3>2. job[d] = NoJob BY <2>1, <3>1 DEF DateOK, JobOK
    <3>3. SavedOK(d, new, saved[d]) BY <2>1, <3>1, <3>2, <1>4 DEF DateOK, SavedOK
    <3> QED BY <3>1, <3>3, <1>5 DEF DateOK, Begun
  <2> QED BY <2>2, <2>3
<1>7. \A e \in AllDates : job[e].state # "none" => job'[e] = job[e] BY <1>0, <1>1
<1> QED BY <1>3, <1>6, <1>7

-----------------------------------------------------------------------------
(* The steps of the queue and of the planning. *)
Kept == \A d \in AllDates : job[d].planned => job'[d].planned /\ job'[d].plan = job[d].plan

\* A job that only changes its state, and perhaps loses an attempt.
LEMMA Restated ==
  ASSUME RInv1, NEW d \in AllDates, job[d].state # "none", NEW s \in {"ready", "later", "active", "failed"},
         NEW l \in 0 .. Tries, l = 0 => s = "failed", hour' = hour, saved' = saved,
         job'[d] = [job[d] EXCEPT !.state = s, !.left = l]
  PROVE DateOK(d)' /\ job'[d].planned = job[d].planned /\ job'[d].plan = job[d].plan
        /\ job'[d].state = s /\ job'[d].left = l
<1>0. job[d] \in Jobs /\ DateOK(d) BY DEF RInv1, ReminderTyped
<1>1. /\ job'[d].state = s /\ job'[d].left = l /\ job'[d].planned = job[d].planned
      /\ job'[d].plan = job[d].plan /\ job'[d].cursor = job[d].cursor
  BY <1>0 DEF Jobs
<1>2. JobOK(job'[d]) BY <1>0, <1>1 DEF JobOK, DateOK
<1>3. SavedOK(d, job'[d], saved'[d]) BY <1>0, <1>1 DEF SavedOK, DateOK
<1>4. Begun(d)' BY <1>0 DEF DateOK, Begun
<1> QED BY <1>1, <1>2, <1>3, <1>4 DEF DateOK

LEMMA WakeBeginsKeeps ==
  ASSUME RInv1, WakeBegins PROVE RInv1' /\ Kept
<1> USE ReminderAssumption
<1>0. ReminderTyped /\ job \in [AllDates -> Jobs] /\ hour \in Int
  BY DEF RInv1, ReminderTyped, Hours
<1>1. hour' = hour /\ saved' = saved /\ intake' = intake /\ source' = source /\ edits' = edits
      /\ logged' = logged /\ failures' = failures
  BY DEF WakeBegins, data
<1>2. drain' = [NoWake EXCEPT !.phase = "drain"] BY DEF WakeBegins
<1>3. ASSUME NEW d \in AllDates
      PROVE job'[d] \in Jobs /\ DateOK(d)' /\ job'[d].planned = job[d].planned /\ job'[d].plan = job[d].plan
  <2>0. job[d] \in Jobs /\ DateOK(d) BY <1>0 DEF RInv1
  <2>1. job'[d] = CASE job[d].state = "active" -> AttemptFailed(job[d], "ready")
                    [] job[d].state = "later" -> [job[d] EXCEPT !.state = "ready"]
                    [] OTHER -> job[d]
    BY DEF WakeBegins
  <2>2. CASE job[d].state = "active"
    <3>1. job'[d] = AttemptFailed(job[d], "ready") BY <2>1, <2>2
    <3>2. job[d].left # 0 /\ job[d].left \in 0 .. Tries BY <2>0, <2>2 DEF DateOK, JobOK, Jobs
    <3>3. /\ job'[d] \in Jobs
          /\ job'[d] = [job[d] EXCEPT !.state = IF job[d].left > 1 THEN "ready" ELSE "failed",
                                      !.left = job[d].left - 1]
      BY <2>0, <3>1, <3>2, AttemptFailedTyped
    <3>4. job[d].left - 1 \in 0 .. Tries /\ (job[d].left - 1 = 0 => ~(job[d].left > 1)) BY <3>2
    <3>5. PICK s \in {"ready", "failed"} : s = IF job[d].left > 1 THEN "ready" ELSE "failed" OBVIOUS
    <3>6. job'[d] = [job[d] EXCEPT !.state = s, !.left = job[d].left - 1] BY <3>3, <3>5
    <3>7. PICK l \in 0 .. Tries : l = job[d].left - 1 BY <3>4
    <3>8. job'[d] = [job[d] EXCEPT !.state = s, !.left = l] /\ (l = 0 => s = "failed")
      BY <3>4, <3>5, <3>6, <3>7
    <3>9. job[d].state # "none" /\ hour' = hour /\ saved' = saved BY <1>1, <2>2
    <3> QED BY <3>3, <3>8, <3>9, Restated
  <2>3. CASE job[d].state = "later"
    <3>1. job'[d] = [job[d] EXCEPT !.state = "ready"] BY <2>1, <2>3
    <3>2. job[d].left # 0 /\ job[d].left \in 0 .. Tries BY <2>0, <2>3 DEF DateOK, JobOK, Jobs
    <3>3. job'[d] = [job[d] EXCEPT !.state = "ready", !.left = job[d].left] BY <2>0, <3>1 DEF Jobs
    <3>4. job'[d] \in Jobs BY <2>0, <3>1 DEF Jobs, States
    <3> QED BY <1>1, <2>3, <3>2, <3>3, <3>4, Restated
  <2>4. CASE job[d].state # "active" /\ job[d].state # "later"
    <3>1. job'[d] = job[d] BY <2>1, <2>4
    <3> QED BY <1>0, <1>1, <2>0, <3>1, DateKept
  <2> QED BY <2>2, <2>3, <2>4
<1>4. job' \in [AllDates -> Jobs]
  <2>1. DOMAIN job' = AllDates /\ job' = [d \in AllDates |-> job'[d]] BY DEF WakeBegins
  <2> QED BY <1>3, <2>1
<1>5. /\ drain' \in Drains /\ drain'.phase = "drain" /\ drain'.date = None /\ drain'.work = NoJob
      /\ drain'.adds = {} /\ drain'.visited = 0
  BY <1>2, NoJobTyped DEF NoWake, Drains
<1>6. ReminderTyped' BY <1>0, <1>1, <1>4, <1>5 DEF ReminderTyped
<1>7. WorkOK' /\ Idle' BY <1>5 DEF WorkOK, Idle
<1>8. Pending' BY <1>1, <1>5 DEF RInv1, Pending, WakeBegins, Begun
<1> QED BY <1>3, <1>6, <1>7, <1>8 DEF RInv1, Kept

LEMMA UnitFailsKeeps ==
  ASSUME RInv1, UnitFails PROVE RInv1' /\ Kept
<1> USE ReminderAssumption
<1>0. ReminderTyped /\ job \in [AllDates -> Jobs] /\ hour \in Int /\ WorkOK /\ drain \in Drains
  BY DEF RInv1, ReminderTyped, Hours
<1>1. hour' = hour /\ saved' = saved /\ intake' = intake /\ source' = source /\ edits' = edits
      /\ logged' = logged /\ failures' = failures + 1 /\ drain' = BetweenAgain
  BY DEF UnitFails, data
<1>a. drain.date \in AllDates BY <1>0 DEF UnitFails, WorkOK, InHand
<1>b. PICK d \in AllDates : d = drain.date BY <1>a
<1>2. InHand(d, drain.work) BY <1>0, <1>b DEF UnitFails, WorkOK
<1>3. d \in AllDates /\ job[d].state = "active" BY <1>2 DEF InHand
<1>4. job[d] \in Jobs /\ DateOK(d) BY <1>0, <1>3 DEF RInv1
<1>5. job[d].left # 0 /\ job[d].left \in 0 .. Tries BY <1>3, <1>4 DEF DateOK, JobOK, Jobs
<1>6. job' = [job EXCEPT ![d] = AttemptFailed(job[d], "later")] BY <1>b DEF UnitFails
<1>7. /\ AttemptFailed(job[d], "later") \in Jobs
      /\ AttemptFailed(job[d], "later")
           = [job[d] EXCEPT !.state = IF job[d].left > 1 THEN "later" ELSE "failed", !.left = job[d].left - 1]
  BY <1>4, <1>5, AttemptFailedTyped
<1>8. PICK s \in {"later", "failed"} : s = IF job[d].left > 1 THEN "later" ELSE "failed" OBVIOUS
<1>9. job'[d] = [job[d] EXCEPT !.state = s, !.left = job[d].left - 1] BY <1>0, <1>3, <1>6, <1>7, <1>8
<1>10. job[d].left - 1 \in 0 .. Tries /\ (job[d].left - 1 = 0 => s = "failed") BY <1>5, <1>8
<1>e. PICK l \in 0 .. Tries : l = job[d].left - 1 BY <1>10
<1>f. job'[d] = [job[d] EXCEPT !.state = s, !.left = l] /\ (l = 0 => s = "failed") BY <1>9, <1>10, <1>e
<1>g. job[d].state # "none" /\ hour' = hour /\ saved' = saved BY <1>1, <1>3
<1>11. DateOK(d)' /\ job'[d].planned = job[d].planned /\ job'[d].plan = job[d].plan
  BY <1>f, <1>g, Restated
<1>12. ASSUME NEW e \in AllDates
       PROVE DateOK(e)' /\ job'[e].planned = job[e].planned /\ job'[e].plan = job[e].plan
  <2>1. CASE e = d BY <2>1, <1>11
  <2>2. CASE e # d
    <3>1. job'[e] = job[e] /\ DateOK(e) BY <2>2, <1>0, <1>6 DEF RInv1
    <3> QED BY <3>1, <1>0, <1>1, DateKept
  <2> QED BY <2>1, <2>2
<1>13. drain' \in Drains /\ drain'.phase = drain.phase
  BY <1>0, <1>1, NoJobTyped DEF BetweenAgain, Drains
<1>c. job' \in [AllDates -> Jobs] BY <1>0, <1>6, <1>7
<1>d. failures' \in Nat BY <1>0, <1>1 DEF ReminderTyped
<1>14. ReminderTyped' BY <1>0, <1>1, <1>c, <1>d, <1>13 DEF ReminderTyped
<1>15. WorkOK' /\ Idle' BY <1>0, <1>1, WakeFree
<1>16. drain.phase # "send" /\ drain.phase # "off" BY <1>2 DEF InHand
<1>17. Pending' BY <1>0, <1>1, <1>13, <1>16, PendingKept DEF RInv1
<1> QED BY <1>12, <1>14, <1>15, <1>17 DEF RInv1, Kept

-----------------------------------------------------------------------------
(* The step of a daily job. *)
\* What a step takes in hand: the job as it is, its plan made, or its being too late.
Taken(d, w) ==
  \/ w = job[d] /\ job[d].planned
  \/ w = [job[d] EXCEPT !.state = "done", !.unresolved = 1] /\ ~job[d].planned
  \/ w = [job[d] EXCEPT !.planned = TRUE, !.plan = Prepared] /\ ~job[d].planned

LEMMA TakenIs ==
  ASSUME RInv1, NEW d \in AllDates, job[d].state = "ready", NEW w, Taken(d, w)
  PROVE /\ w \in Jobs /\ w.left = job[d].left /\ w.state \in {"ready", "done"}
        /\ w.cursor \in {0} \cup DOMAIN w.plan /\ (w.state = "ready" => w.planned)
        /\ w.state = "done" => ~job[d].planned /\ ~w.planned /\ w.unresolved = 1
                               /\ w.plan = NoJob.plan /\ w.cursor = 0
        /\ job[d].planned => w.plan = job[d].plan
<1>0. job[d] \in Jobs /\ DateOK(d) BY DEF RInv1, ReminderTyped
<1>1. CASE w = job[d] /\ job[d].planned
  <2>1. w.state = "ready" /\ w.planned /\ w.left = job[d].left /\ w.plan = job[d].plan BY <1>1
  <2>2. w.cursor \in {0} \cup DOMAIN w.plan BY <1>0, <1>1 DEF DateOK, JobOK
  <2> QED BY <1>0, <1>1, <2>1, <2>2
<1>2. CASE w = [job[d] EXCEPT !.state = "done", !.unresolved = 1] /\ ~job[d].planned
  <2>1. /\ w.state = "done" /\ w.unresolved = 1 /\ w.left = job[d].left /\ w.cursor = job[d].cursor
        /\ w.plan = job[d].plan /\ w.planned = job[d].planned
    BY <1>0, <1>2 DEF Jobs
  <2>a. w = [job[d] EXCEPT !.state = "done", !.unresolved = 1] BY <1>2
  <2>b. "done" \in States /\ 1 \in Int BY DEF States
  <2>2. w \in Jobs BY <1>0, <2>a, <2>b DEF Jobs
  <2> QED BY <1>0, <1>2, <2>1, <2>2 DEF DateOK, JobOK
<1>3. CASE w = [job[d] EXCEPT !.planned = TRUE, !.plan = Prepared] /\ ~job[d].planned
  <2>1. Prepared \in Plans BY PreparedTyped DEF RInv1, ReminderTyped
  <2>2. w \in Jobs BY <1>0, <1>3, <2>1 DEF Jobs
  <2>3. /\ w.state = job[d].state /\ w.left = job[d].left /\ w.cursor = job[d].cursor
        /\ w.planned = TRUE
    BY <1>0, <1>3 DEF Jobs
  <2>4. job[d].cursor = 0 BY <1>0, <1>3 DEF DateOK, JobOK
  <2> QED BY <1>3, <2>2, <2>3, <2>4
<1> QED BY <1>1, <1>2, <1>3 DEF Taken

LEMMA FetchKeeps ==
  ASSUME RInv1, NEW d \in AllDates, Fetch(d) PROVE RInv1' /\ Kept
<1> USE ReminderAssumption
<1>0. ReminderTyped /\ job \in [AllDates -> Jobs] /\ hour \in Int /\ drain \in Drains
  BY DEF RInv1, ReminderTyped, Hours
<1>1. hour' = hour /\ saved' = saved /\ intake' = intake /\ source' = source /\ edits' = edits
      /\ logged' = logged /\ failures' = failures
  BY DEF Fetch, data
<1>2. Between /\ job[d].state = "ready" BY DEF Fetch
<1>3. job[d] \in Jobs /\ DateOK(d) BY <1>0 DEF RInv1
<1>4. job[d].left # 0 /\ job[d].left \in 0 .. Tries BY <1>2, <1>3 DEF DateOK, JobOK, Jobs
<1>5. job' = [job EXCEPT ![d] = [job[d] EXCEPT !.state = "active", !.left = job[d].left]]
  BY <1>0, <1>3 DEF Fetch, Jobs
<1>6. job'[d] = [job[d] EXCEPT !.state = "active", !.left = job[d].left] BY <1>0, <1>5
<1>7. [job[d] EXCEPT !.state = "active", !.left = job[d].left] \in Jobs BY <1>3, <1>4 DEF Jobs, States
<1>8. /\ DateOK(d)' /\ job'[d].planned = job[d].planned /\ job'[d].plan = job[d].plan
      /\ job'[d].state = "active" /\ job'[d].left = job[d].left
  BY <1>1, <1>2, <1>4, <1>6, Restated
<1>9. ASSUME NEW e \in AllDates
      PROVE DateOK(e)' /\ job'[e].planned = job[e].planned /\ job'[e].plan = job[e].plan
  <2>1. CASE e = d BY <2>1, <1>8
  <2>2. CASE e # d
    <3>1. job'[e] = job[e] /\ DateOK(e) BY <2>2, <1>0, <1>5 DEF RInv1
    <3> QED BY <3>1, <1>0, <1>1, DateKept
  <2> QED BY <2>1, <2>2
<1>10. PICK w : drain' = [drain EXCEPT !.worked = TRUE, !.date = d, !.work = w] /\ Taken(d, w)
  BY DEF Fetch, Taken
<1>11. /\ w \in Jobs /\ w.left = job[d].left /\ w.state \in {"ready", "done"}
       /\ w.cursor \in {0} \cup DOMAIN w.plan /\ (w.state = "ready" => w.planned)
       /\ w.state = "done" => ~job[d].planned /\ ~w.planned /\ w.unresolved = 1
                              /\ w.plan = NoJob.plan /\ w.cursor = 0
       /\ job[d].planned => w.plan = job[d].plan
  BY <1>2, <1>10, TakenIs
<1>12. /\ drain' \in Drains /\ drain'.phase = drain.phase /\ drain'.date = d /\ drain'.work = w
       /\ drain'.adds = drain.adds
  BY <1>0, <1>10, <1>11 DEF Drains
<1>13. drain.phase \in {"drain", "redrain"} /\ drain.date = None BY <1>2 DEF Between
<1>14. drain.adds = {} BY <1>13 DEF RInv1, Idle
<1>15. WorkOK'
  <2>1. InHand(d, w)' BY <1>8, <1>11, <1>12, <1>13, <1>14 DEF InHand
  <2>2. AddsOK(d, w)' BY <1>12, <1>14 DEF AddsOK
  <2> QED BY <2>1, <2>2, <1>12 DEF WorkOK
<1>16. d # None BY DEF AllDates
<1>17. Idle' BY <1>12, <1>16 DEF Idle
<1>18. Pending' BY <1>0, <1>1, <1>12, <1>13, PendingKept DEF RInv1
<1>19. job' \in [AllDates -> Jobs] BY <1>0, <1>5, <1>7
<1>20. ReminderTyped' BY <1>0, <1>1, <1>12, <1>19 DEF ReminderTyped
<1> QED BY <1>9, <1>15, <1>17, <1>18, <1>20 DEF RInv1, Kept

\* What a step does to one entry.
New(d, w, n) == w.plan[n] \in Texts /\ saved[d][n] = Unsaved
Uncertain(d, w, n) == w.plan[n] = "ambiguous" \/ (New(d, w, n) /\ ~Creates(d, n))
Visited(d, n, w, u, adds) ==
  /\ d = drain.date /\ w = drain.work /\ n = Nearest(Rest(w)) /\ w.state # "done"
  /\ n \in DOMAIN w.plan /\ n > w.cursor /\ n \in Names
  /\ \A m \in DOMAIN w.plan : m > w.cursor => n <= m
  /\ u = w.unresolved + (IF Uncertain(d, w, n) THEN 1 ELSE 0)
  /\ adds = drain.adds \cup (IF New(d, w, n) /\ Creates(d, n) THEN {[name |-> n, at |-> hour]} ELSE {})
  /\ drain' = [drain EXCEPT !.visited = @ + 1, !.work = [w EXCEPT !.cursor = n, !.unresolved = u],
                            !.adds = adds]

LEMMA VisitIs ==
  ASSUME RInv1, Visit
  PROVE \E d \in AllDates, n \in Nat, w \in Jobs, u \in Int, adds \in SUBSET [name : Names, at : Hours] :
          Visited(d, n, w, u, adds)
<1>0. drain \in Drains /\ drain.work \in Jobs /\ hour \in Hours BY DEF RInv1, ReminderTyped, Drains
<1>1. drain.date # None /\ drain.work.state # "done" /\ Rest(drain.work) # {} BY DEF Visit
<1>2. drain.date \in AllDates BY <1>1 DEF RInv1, WorkOK, InHand
<1>3. PICK d \in AllDates, w \in Jobs : d = drain.date /\ w = drain.work BY <1>0, <1>2
<1>4. DOMAIN w.plan \subseteq Names /\ DOMAIN w.plan \subseteq Nat BY PlanIs DEF Jobs
<1>5. Rest(w) \subseteq Nat /\ Rest(w) # {} BY <1>1, <1>3, <1>4 DEF Rest
<1>6. PICK n \in Nat : n = Nearest(Rest(w)) /\ n \in Rest(w) /\ \A m \in Rest(w) : n <= m
  BY <1>5, NearestIs
<1>7. /\ n \in DOMAIN w.plan /\ n > w.cursor /\ n \in Names
      /\ \A m \in DOMAIN w.plan : m > w.cursor => n <= m
  BY <1>4, <1>6 DEF Rest
<1>8. PICK u \in Int : u = w.unresolved + (IF Uncertain(d, w, n) THEN 1 ELSE 0)
  <2>1. w.unresolved \in Int BY DEF Jobs
  <2> QED BY <2>1
<1>9. PICK adds \in SUBSET [name : Names, at : Hours] :
        adds = drain.adds \cup (IF New(d, w, n) /\ Creates(d, n) THEN {[name |-> n, at |-> hour]} ELSE {})
  <2>1. drain.adds \in SUBSET [name : Names, at : Hours] BY <1>0 DEF Drains
  <2>2. [name |-> n, at |-> hour] \in [name : Names, at : Hours] BY <1>0, <1>7
  <2> QED BY <2>1, <2>2
<1>10. drain' = [drain EXCEPT
         !.visited = @ + 1, !.work.cursor = n,
         !.work.unresolved = @ + (IF Uncertain(d, w, n) THEN 1 ELSE 0),
         !.adds = @ \cup (IF New(d, w, n) /\ Creates(d, n) THEN {[name |-> n, at |-> hour]} ELSE {})]
  BY <1>3, <1>6 DEF Visit, New, Uncertain
<1>11. drain' = [drain EXCEPT !.visited = @ + 1, !.work = [w EXCEPT !.cursor = n, !.unresolved = u],
                              !.adds = adds]
  BY <1>0, <1>3, <1>8, <1>9, <1>10 DEF Drains, Jobs
<1>12. w.state # "done" BY <1>1, <1>3
<1>13. Visited(d, n, w, u, adds) BY <1>3, <1>6, <1>7, <1>8, <1>9, <1>11, <1>12 DEF Visited
<1> QED BY <1>13

LEMMA VisitKeeps ==
  ASSUME RInv1, Visit PROVE RInv1' /\ Kept
<1> USE ReminderAssumption
<1>0. ReminderTyped /\ job \in [AllDates -> Jobs] /\ hour \in Hours /\ hour \in Int /\ drain \in Drains /\ WorkOK
  BY DEF RInv1, ReminderTyped, Hours
<1>1. hour' = hour /\ saved' = saved /\ intake' = intake /\ source' = source /\ edits' = edits
      /\ logged' = logged /\ failures' = failures /\ job' = job
  BY DEF Visit, data
<1>2. PICK d \in AllDates, n \in Nat, w \in Jobs, u \in Int, adds \in SUBSET [name : Names, at : Hours] :
        Visited(d, n, w, u, adds)
  BY VisitIs
<1> DEFINE v == [w EXCEPT !.cursor = n, !.unresolved = u]
<1>3. /\ v \in Jobs /\ v.cursor = n /\ v.unresolved = u /\ v.state = w.state /\ v.plan = w.plan
      /\ v.planned = w.planned /\ v.left = w.left
  BY DEF Jobs
<1>a. drain.visited \in Nat BY <1>0 DEF Drains
<1>b. PICK k \in Nat : k = drain.visited + 1 BY <1>a
<1>4. drain' = [drain EXCEPT !.visited = k, !.work = v, !.adds = adds] BY <1>2, <1>b DEF Visited
<1> HIDE DEF v
<1>5. /\ drain' \in Drains /\ drain'.phase = drain.phase /\ drain'.date = drain.date /\ drain'.work = v
      /\ drain'.adds = adds /\ drain'.slot = drain.slot
  BY <1>0, <1>3, <1>4 DEF Drains
<1>6. d # None BY DEF AllDates
<1>7. /\ d = drain.date /\ w = drain.work /\ w.state # "done" /\ n \in DOMAIN w.plan /\ n > w.cursor
      /\ adds = drain.adds \cup (IF New(d, w, n) /\ Creates(d, n) THEN {[name |-> n, at |-> hour]} ELSE {})
  BY <1>2 DEF Visited
<1>8. InHand(d, w) /\ AddsOK(d, w) BY <1>0, <1>6, <1>7 DEF WorkOK
<1>9. InHand(d, v)' BY <1>1, <1>3, <1>5, <1>7, <1>8 DEF InHand
<1>10. AddsOK(d, v)'
  <2> SUFFICES ASSUME NEW a \in adds
               PROVE /\ Day * d <= a.at /\ a.at < Midnight(d)
                     /\ a.name \in DOMAIN v.plan /\ v.plan[a.name] \in Texts /\ a.name <= v.cursor
    BY <1>5 DEF AddsOK
  <2>1. CASE a \in drain.adds
    <3>1. a.name <= w.cursor BY <1>8, <2>1 DEF AddsOK
    <3>2. a.name \in Names /\ a.name \in Nat /\ w.cursor \in Nat BY DEF Jobs
    <3>3. a.name <= v.cursor BY <1>3, <1>7, <3>1, <3>2
    <3> QED BY <1>3, <1>8, <2>1, <3>3 DEF AddsOK
  <2>2. CASE a \notin drain.adds
    <3>1. a = [name |-> n, at |-> hour] /\ New(d, w, n) /\ Creates(d, n) BY <1>7, <2>2
    <3>2. a.name = n /\ a.at = hour BY <3>1
    <3>3. hour < Midnight(d) BY <3>1 DEF Creates
    <3>4. Day * d <= hour
      <4>1. job[d].state # "none" BY <1>8 DEF InHand
      <4> QED BY <4>1 DEF RInv1, DateOK, Begun
    <3>5. n \in DOMAIN v.plan /\ v.plan[n] \in Texts BY <1>3, <1>7, <3>1 DEF New
    <3> QED BY <1>3, <3>2, <3>3, <3>4, <3>5
  <2> QED BY <2>1, <2>2
<1>11. WorkOK' BY <1>5, <1>7, <1>9, <1>10 DEF WorkOK
<1>12. Idle' BY <1>5, <1>6, <1>7 DEF Idle
<1>13. Pending' BY <1>0, <1>1, <1>5, PendingKept DEF RInv1, Pending
<1>14. ReminderTyped' BY <1>0, <1>1, <1>5 DEF ReminderTyped
<1>15. \A e \in AllDates : DateOK(e)'
  <2> SUFFICES ASSUME NEW e \in AllDates PROVE DateOK(e)' OBVIOUS
  <2>1. DateOK(e) BY DEF RInv1
  <2> QED BY <2>1, <1>0, <1>1, DateKept
<1> QED BY <1>1, <1>11, <1>12, <1>13, <1>14, <1>15 DEF RInv1, Kept

\* The message a step has for a name, once it is committed.
Written(sv, w, adds) ==
  [n \in Names |-> IF \E a \in adds : a.name = n
                   THEN [text |-> w.plan[n], at |-> (CHOOSE a \in adds : a.name = n).at] ELSE sv[n]]

LEMMA WrittenIs ==
  ASSUME RInv1, NEW d \in AllDates, NEW w \in Jobs, d = drain.date, w = drain.work
  PROVE LET sv == Written(saved[d], w, drain.adds) IN
        /\ sv \in [Names -> Messages]
        /\ \A n \in Names :
             IF n \in Adding(drain.adds)
             THEN /\ sv[n] # Unsaved /\ sv[n].text # "earlier" /\ sv[n].at \in Hours
                  /\ Day * d <= sv[n].at /\ sv[n].at < Midnight(d)
                  /\ n \in DOMAIN w.plan /\ w.plan[n] \in Texts /\ sv[n].text = w.plan[n]
             ELSE sv[n] = saved[d][n]
<1> USE ReminderAssumption
<1>0. drain \in Drains /\ saved[d] \in [Names -> Messages] /\ WorkOK BY DEF RInv1, ReminderTyped
<1>1. d # None BY DEF AllDates
<1>2. AddsOK(d, w) BY <1>0, <1>1 DEF WorkOK
<1> DEFINE sv == Written(saved[d], w, drain.adds)
<1>3. ASSUME NEW n \in Names, n \in Adding(drain.adds)
      PROVE /\ sv[n] \in Messages
            /\ sv[n] # Unsaved /\ sv[n].text # "earlier" /\ sv[n].at \in Hours
            /\ Day * d <= sv[n].at /\ sv[n].at < Midnight(d)
            /\ n \in DOMAIN w.plan /\ w.plan[n] \in Texts /\ sv[n].text = w.plan[n]
  <2>1. \E a \in drain.adds : a.name = n BY <1>3 DEF Adding
  <2>2. PICK a \in drain.adds : a = CHOOSE b \in drain.adds : b.name = n BY <2>1
  <2>3. a.name = n BY <2>1, <2>2
  <2>4. sv[n] = [text |-> w.plan[n], at |-> a.at] BY <2>1, <2>2 DEF Written
  <2>5. a.at \in Hours BY <1>0 DEF Drains
  <2>6. /\ Day * d <= a.at /\ a.at < Midnight(d) /\ n \in DOMAIN w.plan /\ w.plan[n] \in Texts
    BY <1>2, <2>3 DEF AddsOK
  <2>7. sv[n].text = w.plan[n] /\ sv[n].at = a.at BY <2>4
  <2>8. sv[n] \in Messages BY <2>4, <2>5, <2>6 DEF Messages
  <2>9. a.at # None BY <2>5 DEF Hours
  <2>10. sv[n] # Unsaved BY <2>7, <2>9 DEF Unsaved
  <2>11. w.plan[n] # "earlier" BY <2>6
  <2> QED BY <2>5, <2>6, <2>7, <2>8, <2>10, <2>11
<1>4. ASSUME NEW n \in Names, n \notin Adding(drain.adds) PROVE sv[n] = saved[d][n] /\ sv[n] \in Messages
  <2>1. ~\E a \in drain.adds : a.name = n BY <1>4 DEF Adding
  <2>2. sv[n] = saved[d][n] BY <2>1 DEF Written
  <2> QED BY <1>0, <2>2
<1>5. sv = [n \in Names |-> sv[n]] BY DEF Written
<1>6. sv \in [Names -> Messages]
  <2>1. \A n \in Names : sv[n] \in Messages BY <1>3, <1>4
  <2> HIDE DEF sv
  <2> QED BY <1>5, <2>1
<1> HIDE DEF sv
<1>7. \A n \in Names :
        IF n \in Adding(drain.adds)
        THEN /\ sv[n] # Unsaved /\ sv[n].text # "earlier" /\ sv[n].at \in Hours
             /\ Day * d <= sv[n].at /\ sv[n].at < Midnight(d)
             /\ n \in DOMAIN w.plan /\ w.plan[n] \in Texts /\ sv[n].text = w.plan[n]
        ELSE sv[n] = saved[d][n]
  BY <1>3, <1>4
<1> USE DEF sv
<1> QED BY <1>6, <1>7

\* The job and the messages a committed step leaves.
LEMMA CommitIs ==
  ASSUME RInv1, Commit
  PROVE \E d \in AllDates, w \in Jobs, j \in Jobs :
          /\ d = drain.date /\ w = drain.work /\ InHand(d, w)
          /\ j.planned = w.planned /\ j.plan = w.plan /\ j.cursor = w.cursor
          /\ j.unresolved = w.unresolved /\ j.left = w.left
          /\ j.state \in {"ready", "done"} /\ JobOK(j)
          /\ job' = [job EXCEPT ![d] = j]
          /\ saved' = [saved EXCEPT ![d] = Written(saved[d], w, drain.adds)]
<1> USE ReminderAssumption
<1>0. ReminderTyped /\ job \in [AllDates -> Jobs] /\ saved \in [AllDates -> [Names -> Messages]] /\ WorkOK
  BY DEF RInv1, ReminderTyped
<1>1. InHand(drain.date, drain.work) BY <1>0 DEF Commit, WorkOK
<1>2. drain.date \in AllDates /\ drain.work \in Jobs BY <1>0, <1>1 DEF InHand, ReminderTyped, Drains
<1>3. PICK d \in AllDates, w \in Jobs : d = drain.date /\ w = drain.work BY <1>2
<1>4. InHand(d, w) BY <1>1, <1>3
<1>5. PICK j : j = IF w.state = "done" THEN w ELSE Continued(w) OBVIOUS
<1>6. w.left # 0
  <2>1. JobOK(job[d]) /\ job[d].state = "active" /\ w.left = job[d].left
    BY <1>4 DEF RInv1, DateOK, InHand
  <2> QED BY <2>1 DEF JobOK
<1>7. /\ j \in Jobs /\ j.planned = w.planned /\ j.plan = w.plan /\ j.cursor = w.cursor
      /\ j.unresolved = w.unresolved /\ j.left = w.left
      /\ j.state = IF w.state = "done" \/ Rest(w) = {} THEN "done" ELSE "ready"
  <2>1. CASE w.state = "done" BY <2>1, <1>5
  <2>2. CASE w.state # "done"
    <3>1. PICK s \in {"ready", "done"} : s = IF Rest(w) = {} THEN "done" ELSE "ready" OBVIOUS
    <3>2. j = [w EXCEPT !.state = s] BY <2>2, <3>1, <1>5 DEF Continued
    <3>3. s \in States BY DEF States
    <3> QED BY <2>2, <3>1, <3>2, <3>3 DEF Jobs
  <2> QED BY <2>1, <2>2
<1>8. Rest(j) = Rest(w) BY <1>7 DEF Rest
<1>9. JobOK(j)
  <2>1. j.cursor \in {0} \cup DOMAIN j.plan /\ j.left # 0 /\ j.state # "none"
    BY <1>4, <1>6, <1>7 DEF InHand
  <2>2. CASE w.state = "done"
    <3>1. ~j.planned /\ j.plan = NoJob.plan /\ j.cursor = 0 /\ j.unresolved = 1
      BY <2>2, <1>4, <1>7 DEF InHand
    <3> QED BY <2>1, <3>1 DEF JobOK
  <2>3. CASE w.state # "done"
    <3>1. j.planned BY <2>3, <1>4, <1>7 DEF InHand
    <3>2. j.state = "done" => Rest(j) = {} BY <2>3, <1>7, <1>8
    <3> QED BY <2>1, <3>1, <3>2 DEF JobOK
  <2> QED BY <2>2, <2>3
<1>10. job' = [job EXCEPT ![d] = j] BY <1>3, <1>5 DEF Commit
<1>11. saved' = [saved EXCEPT ![d] = Written(saved[d], w, drain.adds)]
  BY <1>0, <1>3 DEF Commit, Written
<1>12. j.state \in {"ready", "done"} BY <1>7
<1> QED BY <1>3, <1>4, <1>7, <1>9, <1>10, <1>11, <1>12

LEMMA CommitKeeps ==
  ASSUME RInv1, Commit PROVE RInv1' /\ Kept
<1> USE ReminderAssumption
<1>0. ReminderTyped /\ job \in [AllDates -> Jobs] /\ saved \in [AllDates -> [Names -> Messages]]
      /\ hour \in Int /\ drain \in Drains
  BY DEF RInv1, ReminderTyped, Hours
<1>1. hour' = hour /\ intake' = intake /\ source' = source /\ edits' = edits
      /\ logged' = logged /\ failures' = failures /\ drain' = BetweenAgain
  BY DEF Commit, data
<1>2. PICK d \in AllDates, w \in Jobs, j \in Jobs :
          /\ d = drain.date /\ w = drain.work /\ InHand(d, w)
          /\ j.planned = w.planned /\ j.plan = w.plan /\ j.cursor = w.cursor
          /\ j.unresolved = w.unresolved /\ j.left = w.left
          /\ j.state \in {"ready", "done"} /\ JobOK(j)
          /\ job' = [job EXCEPT ![d] = j]
          /\ saved' = [saved EXCEPT ![d] = Written(saved[d], w, drain.adds)]
  BY CommitIs
<1>3. PICK sv : sv = Written(saved[d], w, drain.adds) OBVIOUS
<1>4. /\ sv \in [Names -> Messages]
      /\ \A n \in Names :
           IF n \in Adding(drain.adds)
           THEN /\ sv[n] # Unsaved /\ sv[n].text # "earlier" /\ sv[n].at \in Hours
                /\ Day * d <= sv[n].at /\ sv[n].at < Midnight(d)
                /\ n \in DOMAIN w.plan /\ w.plan[n] \in Texts /\ sv[n].text = w.plan[n]
           ELSE sv[n] = saved[d][n]
  BY <1>2, <1>3, WrittenIs
<1>5. job' \in [AllDates -> Jobs] /\ saved' \in [AllDates -> [Names -> Messages]]
  BY <1>0, <1>2, <1>3, <1>4
<1>6. job'[d] = j /\ saved'[d] = sv BY <1>0, <1>2, <1>3
<1>7. DateOK(d) BY DEF RInv1
<1>8. job[d].planned => j.plan = job[d].plan /\ j.planned
  <2>1. job[d].planned => w.plan = job[d].plan /\ w.state # "done" BY <1>2 DEF InHand
  <2>2. w.state # "done" => w.planned BY <1>2 DEF InHand
  <2> QED BY <1>2, <2>1, <2>2
<1>9. SavedOK(d, j, sv)
  <2> SUFFICES ASSUME NEW n \in Names, sv[n] # Unsaved, sv[n].text # "earlier"
               PROVE /\ sv[n].at \in Hours /\ Day * d <= sv[n].at /\ sv[n].at < Midnight(d)
                     /\ n \in DOMAIN j.plan /\ sv[n].text = j.plan[n]
    BY DEF SavedOK
  <2>1. CASE n \in Adding(drain.adds) BY <2>1, <1>2, <1>4
  <2>2. CASE n \notin Adding(drain.adds)
    <3>1. sv[n] = saved[d][n] BY <2>2, <1>4
    <3>2. /\ sv[n].at \in Hours /\ Day * d <= sv[n].at /\ sv[n].at < Midnight(d)
          /\ n \in DOMAIN job[d].plan /\ sv[n].text = job[d].plan[n]
      BY <3>1, <1>7 DEF DateOK, SavedOK
    <3>3. job[d].planned BY <3>2, <1>7 DEF DateOK, JobOK, NoJob
    <3> QED BY <3>2, <3>3, <1>8
  <2> QED BY <2>1, <2>2
<1>10. Begun(d)'
  <2>1. Begun(d) BY <1>2, <1>7 DEF InHand, DateOK
  <2> QED BY <2>1, <1>1 DEF Begun
<1>11. DateOK(d)' BY <1>2, <1>6, <1>9, <1>10 DEF DateOK
<1>12. ASSUME NEW e \in AllDates
       PROVE DateOK(e)' /\ (job[e].planned => job'[e].planned /\ job'[e].plan = job[e].plan)
  <2>1. CASE e = d BY <2>1, <1>6, <1>8, <1>11
  <2>2. CASE e # d
    <3>1. job'[e] = job[e] /\ saved'[e] = saved[e] /\ DateOK(e) BY <2>2, <1>0, <1>2 DEF RInv1
    <3> QED BY <3>1, <1>0, <1>1, DateKept
  <2> QED BY <2>1, <2>2
<1>13. drain' \in Drains /\ drain'.phase = drain.phase
  BY <1>0, <1>1, NoJobTyped DEF BetweenAgain, Drains
<1>14. ReminderTyped' BY <1>0, <1>1, <1>5, <1>13 DEF ReminderTyped
<1>15. WorkOK' /\ Idle' BY <1>0, <1>1, WakeFree
<1>16. drain.phase # "send" /\ drain.phase # "off" BY <1>2 DEF InHand
<1>17. Pending' BY <1>0, <1>1, <1>13, <1>16, PendingKept DEF RInv1
<1> QED BY <1>12, <1>14, <1>15, <1>17 DEF RInv1, Kept

-----------------------------------------------------------------------------
(* The other steps. *)
LEMMA WakeEndsKeeps ==
  ASSUME RInv1, DrainOver \/ TimeUp \/ WakeCut PROVE RInv1' /\ Kept
<1> USE ReminderAssumption
<1>0. ReminderTyped /\ hour \in Int /\ drain \in Drains BY DEF RInv1, ReminderTyped, Hours
<1>1. hour' = hour /\ saved' = saved /\ intake' = intake /\ source' = source /\ edits' = edits
      /\ logged' = logged /\ job' = job
  BY DEF DrainOver, TimeUp, WakeCut, data
<1>2. failures' \in Nat BY <1>0 DEF DrainOver, TimeUp, WakeCut, ReminderTyped
<1>3. drain' = NoWake \/ (drain' = [drain EXCEPT !.phase = "plan"] /\ drain.date = None /\ drain.phase # "off")
  BY DEF DrainOver, TimeUp, WakeCut, Between
<1>4. drain' \in Drains BY <1>0, <1>3, NoJobTyped DEF Drains
<1>5. ReminderTyped' BY <1>0, <1>1, <1>2, <1>4 DEF ReminderTyped
<1>6. \A d \in AllDates : DateOK(d)'
  <2> SUFFICES ASSUME NEW d \in AllDates PROVE DateOK(d)' OBVIOUS
  <2>1. DateOK(d) BY DEF RInv1
  <2> QED BY <2>1, <1>0, <1>1, DateKept
<1>7. CASE drain' = NoWake
  <2>1. WorkOK' /\ Idle' BY <1>0, <1>7, WakeFree
  <2>2. Pending' BY <1>0, <1>1, <1>7, NoWakeIs, PendingKept DEF RInv1
  <2> QED BY <1>1, <1>5, <1>6, <2>1, <2>2 DEF RInv1, Kept
<1>8. CASE drain' = [drain EXCEPT !.phase = "plan"] /\ drain.date = None /\ drain.phase # "off"
  <2>1. /\ drain'.phase = "plan" /\ drain'.date = None /\ drain'.work = drain.work
        /\ drain'.adds = drain.adds /\ drain'.visited = drain.visited
    BY <1>0, <1>8 DEF Drains
  <2>2. WorkOK' /\ Idle' BY <1>8, <2>1 DEF WorkOK, Idle, RInv1
  <2>3. Pending' BY <1>0, <1>1, <1>8, <2>1, PendingKept DEF RInv1
  <2> QED BY <1>1, <1>5, <1>6, <2>2, <2>3 DEF RInv1, Kept
<1> QED BY <1>3, <1>7, <1>8

LEMMA DateHasBegun == ASSUME NEW t \in Nat PROVE Day * Date(t) <= t /\ Date(t) \in Nat
<1> USE ReminderAssumption
<1> QED BY DEF Date

LEMMA PlanKeeps ==
  ASSUME RInv1, PlanCheck \/ PlanSend PROVE RInv1' /\ Kept
<1> USE ReminderAssumption
<1>0. ReminderTyped /\ hour \in Nat /\ drain \in Drains /\ drain.slot \in AllDates
  BY DEF RInv1, ReminderTyped, Hours, Drains
<1>1. hour' = hour /\ saved' = saved /\ intake' = intake /\ source' = source /\ edits' = edits
      /\ logged' = logged /\ failures' = failures
  BY DEF PlanCheck, PlanSend, data
<1>2. drain.date = None /\ drain.phase # "off" BY DEF RInv1, WorkOK, InHand, PlanCheck, PlanSend
<1>3. CASE PlanCheck
  <2>1. job' = job BY <1>3 DEF PlanCheck
  <2>2. \A d \in AllDates : DateOK(d)'
    <3> SUFFICES ASSUME NEW d \in AllDates PROVE DateOK(d)' OBVIOUS
    <3>1. DateOK(d) BY DEF RInv1
    <3> QED BY <3>1, <2>1, <1>0, <1>1, DateKept
  <2>3. /\ drain' \in Drains /\ drain'.date = None /\ drain'.work = drain.work /\ drain'.phase # "off"
        /\ drain'.adds = drain.adds /\ drain'.visited = drain.visited
        /\ drain'.phase = "send" => Due(hour) /\ drain'.slot = Date(hour)
    <3>1. CASE drain' = [drain EXCEPT !.phase = "send", !.slot = Date(hour)] /\ Due(hour)
      <4>1. Date(hour) \in AllDates BY <3>1 DEF Due
      <4> QED BY <1>0, <1>2, <3>1, <4>1 DEF Drains
    <3>2. CASE drain' = [drain EXCEPT !.phase = "redrain"] BY <1>0, <1>2, <3>2 DEF Drains
    <3> QED BY <1>3, <3>1, <3>2 DEF PlanCheck
  <2>4. Pending'
    <3>1. Activated <= hour /\ (intake # None => Begun(intake)) BY <1>2 DEF RInv1, Pending
    <3>2. drain'.phase = "send" => Begun(drain'.slot) BY <3>1, <2>3, <1>0, DateHasBegun DEF Begun
    <3> QED BY <3>1, <3>2, <1>1 DEF Pending, Begun
  <2>5. ReminderTyped' BY <1>0, <1>1, <2>1, <2>3 DEF ReminderTyped
  <2>6. WorkOK' /\ Idle' BY <1>2, <2>3 DEF WorkOK, Idle, RInv1
  <2> QED BY <2>1, <2>2, <2>4, <2>5, <2>6 DEF RInv1, Kept
<1>4. CASE PlanSend
  <2>1. PICK d \in AllDates : d = drain.slot BY <1>0
  <2>2. Begun(d) BY <2>1, <1>4 DEF RInv1, Pending, PlanSend
  <2>3. job' = SentOnce(d) BY <2>1, <1>4 DEF PlanSend
  <2>4. /\ job' \in [AllDates -> Jobs] /\ \A e \in AllDates : DateOK(e)'
        /\ \A e \in AllDates : job[e].state # "none" => job'[e] = job[e]
    BY <2>2, <2>3, <1>1, SentOnceKeeps
  <2>5. drain' = NoWake \/ drain' = [drain EXCEPT !.phase = "redrain", !.slot = 0] BY <1>4 DEF PlanSend
  <2>6. /\ drain' \in Drains /\ drain'.date = None
        /\ drain'.work = NoJob /\ drain'.adds = {} /\ drain'.visited = 0
        /\ drain'.phase = "off" \/ drain'.phase = "redrain"
    <3>1. CASE drain' = NoWake BY <3>1, NoWakeIs, NoJobTyped
    <3>2. CASE drain' = [drain EXCEPT !.phase = "redrain", !.slot = 0]
      <4>1. 0 \in AllDates BY DEF AllDates
      <4>2. drain.work = NoJob /\ drain.adds = {} /\ drain.visited = 0 BY <1>2 DEF RInv1, Idle
      <4> QED BY <1>0, <1>2, <3>2, <4>1, <4>2 DEF Drains
    <3> QED BY <2>5, <3>1, <3>2
  <2>7. Pending' BY <1>0, <1>1, <1>2, <2>6, PendingKept DEF RInv1
  <2>8. ReminderTyped' BY <1>0, <1>1, <2>4, <2>6 DEF ReminderTyped
  <2>9. WorkOK' /\ Idle' BY <2>6 DEF WorkOK, Idle
  <2>10. Kept
    <3> SUFFICES ASSUME NEW e \in AllDates, job[e].planned PROVE job'[e] = job[e] BY DEF Kept
    <3>1. job[e].state # "none" BY DEF RInv1, DateOK, JobOK, NoJob
    <3> QED BY <2>4, <3>1
  <2> QED BY <2>4, <2>7, <2>8, <2>9, <2>10 DEF RInv1
<1> QED BY <1>3, <1>4

LEMMA IntakeKeeps ==
  ASSUME RInv1, IntakeCheck \/ IntakeSend PROVE RInv1' /\ Kept
<1> USE ReminderAssumption
<1>0. ReminderTyped /\ hour \in Nat /\ drain \in Drains /\ intake \in AllDates \cup {None}
  BY DEF RInv1, ReminderTyped, Hours
<1>1. hour' = hour /\ saved' = saved /\ source' = source /\ edits' = edits
      /\ logged' = logged /\ failures' = failures /\ drain' = drain
  BY DEF IntakeCheck, IntakeSend, data
<1>2. Idle' BY <1>1 DEF RInv1, Idle
<1>3. CASE IntakeCheck
  <2>1. job' = job /\ intake' = Date(hour) /\ hour >= Activated /\ intake' \in AllDates
    BY <1>3 DEF IntakeCheck
  <2>2. \A d \in AllDates : DateOK(d)'
    <3> SUFFICES ASSUME NEW d \in AllDates PROVE DateOK(d)' OBVIOUS
    <3>1. DateOK(d) BY DEF RInv1
    <3> QED BY <3>1, <2>1, <1>0, <1>1, DateKept
  <2>3. Begun(intake') BY <2>1, <1>0, DateHasBegun DEF Begun
  <2>4. Pending' BY <1>1, <2>3 DEF RInv1, Pending, Begun
  <2>5. WorkOK' BY <1>1, <2>1, WorkKept DEF RInv1
  <2>6. ReminderTyped' BY <1>0, <1>1, <2>1 DEF ReminderTyped
  <2> QED BY <1>2, <2>1, <2>2, <2>4, <2>5, <2>6 DEF RInv1, Kept
<1>4. CASE IntakeSend
  <2>1. PICK d \in AllDates : d = intake BY <1>0, <1>4 DEF IntakeSend
  <2>2. Begun(d) BY <2>1, <1>4 DEF RInv1, Pending, IntakeSend
  <2>3. job' = SentOnce(d) /\ intake' = None BY <2>1, <1>4 DEF IntakeSend
  <2>4. /\ job' \in [AllDates -> Jobs] /\ \A e \in AllDates : DateOK(e)'
        /\ \A e \in AllDates : job[e].state # "none" => job'[e] = job[e]
    BY <2>2, <2>3, <1>1, SentOnceKeeps
  <2>5. Pending' BY <1>1, <2>3 DEF RInv1, Pending, Begun
  <2>6. drain.date # None => job'[drain.date] = job[drain.date] BY <2>4 DEF RInv1, WorkOK, InHand
  <2>7. WorkOK' BY <1>1, <2>6, WorkKept DEF RInv1
  <2>8. ReminderTyped' BY <1>0, <1>1, <2>3, <2>4 DEF ReminderTyped
  <2>9. Kept
    <3> SUFFICES ASSUME NEW e \in AllDates, job[e].planned PROVE job'[e] = job[e] BY DEF Kept
    <3>1. job[e].state # "none" BY DEF RInv1, DateOK, JobOK, NoJob
    <3> QED BY <2>4, <3>1
  <2> QED BY <1>2, <2>4, <2>5, <2>7, <2>8, <2>9 DEF RInv1
<1> QED BY <1>3, <1>4

LEMMA WorldKeeps ==
  ASSUME RInv1, HourEnds \/ (\E n \in Names, s \in Entries \cup {"off"} : Edit(n, s))
  PROVE RInv1' /\ Kept
<1> USE ReminderAssumption
<1>0. ReminderTyped /\ hour \in Nat /\ drain \in Drains BY DEF RInv1, ReminderTyped, Hours
<1>1. job' = job /\ saved' = saved /\ logged' = logged /\ intake' = intake /\ failures' = failures
  BY DEF HourEnds, Edit
<1>2. hour' \in Hours /\ hour' \in Int /\ hour' >= hour BY <1>0 DEF HourEnds, Edit, Hours, ReminderTyped
<1>3. source' \in [Names -> Entries \cup {"off"}] /\ edits' \in Nat
  BY <1>0 DEF HourEnds, Edit, data, ReminderTyped
<1>4. /\ drain' \in Drains /\ drain'.phase = drain.phase /\ drain'.date = drain.date
      /\ drain'.work = drain.work /\ drain'.adds = drain.adds /\ drain'.visited = drain.visited
      /\ drain'.slot = drain.slot
  <2>1. drain' = drain \/ drain' = [drain EXCEPT !.ticked = TRUE] BY DEF HourEnds, Edit
  <2> QED BY <1>0, <2>1 DEF Drains
<1>5. ReminderTyped' BY <1>0, <1>1, <1>2, <1>3, <1>4 DEF ReminderTyped
<1>6. \A d \in AllDates : DateOK(d)'
  <2> SUFFICES ASSUME NEW d \in AllDates PROVE DateOK(d)' OBVIOUS
  <2>1. DateOK(d) BY DEF RInv1
  <2> QED BY <2>1, <1>0, <1>1, <1>2, DateKept
<1>7. WorkOK' /\ Idle' BY <1>1, <1>4, WorkKept DEF RInv1, Idle
<1>8. Pending' BY <1>0, <1>1, <1>2, <1>4, PendingKept DEF RInv1
<1> QED BY <1>1, <1>5, <1>6, <1>7, <1>8 DEF RInv1, Kept

LEMMA EarlierKeeps ==
  ASSUME RInv1, NEW n \in Names, EarlierSent(n)
  PROVE RInv1' /\ Kept /\ \A d \in AllDates : saved'[d] # saved[d] => job[d].state = "none"
<1> USE ReminderAssumption
<1>0. ReminderTyped /\ hour \in Nat /\ hour \in Hours /\ saved \in [AllDates -> [Names -> Messages]]
      /\ logged \in [AllDates -> SUBSET Names]
  BY DEF RInv1, ReminderTyped, Hours
<1>1. hour' = hour /\ source' = source /\ edits' = edits /\ job' = job /\ intake' = intake
      /\ drain' = drain /\ failures' = failures
  BY DEF EarlierSent, data
<1>2. PICK d \in AllDates : d = Date(hour) BY DEF EarlierSent
<1>3. hour < Activated BY DEF EarlierSent
<1>4. job[d].state = "none"
  <2>1. ~Begun(d) BY <1>0, <1>3 DEF Begun
  <2> QED BY <2>1 DEF RInv1, DateOK
<1> DEFINE m == [text |-> "earlier", at |-> hour]
<1>5. m \in Messages /\ m.text = "earlier" BY <1>0 DEF Messages
<1>6. saved' = saved \/ saved' = [saved EXCEPT ![d][n] = m] BY <1>2 DEF EarlierSent
<1>7. logged' = logged \/ logged' = [logged EXCEPT ![d] = @ \cup {n}] BY <1>2 DEF EarlierSent
<1> HIDE DEF m
<1>8. saved' \in [AllDates -> [Names -> Messages]] BY <1>0, <1>5, <1>6
<1>9. logged' \in [AllDates -> SUBSET Names] BY <1>0, <1>7
<1>10. ReminderTyped' BY <1>0, <1>1, <1>8, <1>9 DEF ReminderTyped
<1>11. \A e \in AllDates : saved'[e] # saved[e] => e = d BY <1>0, <1>6
<1>12. ASSUME NEW e \in AllDates PROVE DateOK(e)'
  <2>1. DateOK(e) BY DEF RInv1
  <2>2. CASE saved'[e] = saved[e] BY <2>1, <2>2, <1>0, <1>1, DateKept
  <2>3. CASE saved'[e] # saved[e]
    <3>1. e = d /\ saved'[d] = [saved[d] EXCEPT ![n] = m] BY <2>3, <1>0, <1>6, <1>11
    <3>2. \A k \in Names : k # n => saved'[d][k] = saved[d][k] BY <3>1, <1>0
    <3>3. saved'[d][n].text = "earlier" BY <3>1, <1>0, <1>5
    <3>4. SavedOK(d, job[d], saved'[d]) BY <2>1, <3>1, <3>2, <3>3 DEF DateOK, SavedOK
    <3> QED BY <2>1, <3>1, <3>4, <1>1 DEF DateOK, Begun
  <2> QED BY <2>2, <2>3
<1>13. WorkOK' /\ Idle' /\ Pending' BY <1>1 DEF RInv1, WorkOK, InHand, AddsOK, Idle, Pending, Begun
<1>14. Kept BY <1>1 DEF Kept
<1>15. \A e \in AllDates : saved'[e] # saved[e] => job[e].state = "none" BY <1>4, <1>11
<1> QED BY <1>10, <1>12, <1>13, <1>14, <1>15 DEF RInv1

-----------------------------------------------------------------------------
(* The invariant, and what follows from it. *)
LEMMA ReminderStep == RInv1 /\ [ReminderNext]_reminderVars => RInv1' /\ Kept
<1> SUFFICES ASSUME RInv1, [ReminderNext]_reminderVars PROVE RInv1' /\ Kept OBVIOUS
<1>1. CASE WakeBegins BY <1>1, WakeBeginsKeeps
<1>2. CASE \E d \in AllDates : Fetch(d) BY <1>2, FetchKeeps
<1>3. CASE Visit BY <1>3, VisitKeeps
<1>4. CASE Commit BY <1>4, CommitKeeps
<1>5. CASE DrainOver \/ TimeUp \/ WakeCut BY <1>5, WakeEndsKeeps
<1>6. CASE PlanCheck \/ PlanSend BY <1>6, PlanKeeps
<1>7. CASE UnitFails BY <1>7, UnitFailsKeeps
<1>8. CASE IntakeCheck \/ IntakeSend BY <1>8, IntakeKeeps
<1>9. CASE HourEnds \/ (\E n \in Names, s \in Entries \cup {"off"} : Edit(n, s)) BY <1>9, WorldKeeps
<1>10. CASE \E n \in Names : EarlierSent(n)
  <2>1. PICK n \in Names : EarlierSent(n) BY <1>10
  <2> QED BY <2>1, EarlierKeeps
<1>11. CASE UNCHANGED reminderVars
  BY <1>11 DEF reminderVars, data, RInv1, Kept, ReminderTyped, DateOK, Begun, WorkOK, InHand, AddsOK, Pending, Idle
<1> QED BY <1>1, <1>2, <1>3, <1>4, <1>5, <1>6, <1>7, <1>8, <1>9, <1>10, <1>11 DEF ReminderNext, Working

LEMMA ReminderStart == ReminderInit => RInv1
<1> USE ReminderAssumption
<1> SUFFICES ASSUME ReminderInit PROVE RInv1 OBVIOUS
<1>1. /\ hour = 0 /\ source = AtFirst /\ intake = None /\ drain = NoWake /\ failures = 0 /\ edits = 0
      /\ job = [d \in AllDates |-> NoJob] /\ saved = [d \in AllDates |-> [n \in Names |-> Unsaved]]
      /\ logged = [d \in AllDates |-> {}]
  BY DEF ReminderInit
<1>2. Unsaved \in Messages BY DEF Unsaved, Messages
<1>3. [n \in Names |-> Unsaved] \in [Names -> Messages] BY <1>2
<1>4. saved \in [AllDates -> [Names -> Messages]] BY <1>1, <1>3
<1>5. job \in [AllDates -> Jobs] BY <1>1, NoJobTyped
<1>6. ReminderTyped BY <1>1, <1>4, <1>5, NoJobTyped DEF ReminderTyped, Hours
<1>7. JobOK(NoJob)
  <2>1. NoJob.state = "none" /\ NoJob.cursor = 0 /\ NoJob.left = Tries BY DEF NoJob
  <2> QED BY <2>1 DEF JobOK
<1>8. ASSUME NEW d \in AllDates PROVE DateOK(d)
  <2>1. job[d] = NoJob /\ NoJob.state = "none" /\ \A n \in Names : saved[d][n] = Unsaved
    BY <1>1 DEF NoJob
  <2> QED BY <2>1, <1>7 DEF DateOK, SavedOK
<1>9. WorkOK /\ Idle /\ Pending BY <1>1, NoWakeIs DEF WorkOK, Idle, Pending
<1> QED BY <1>6, <1>8, <1>9 DEF RInv1

\* The types of the reminders' state.
THEOREM RemindersTyped == ReminderSpec => []ReminderTypeOK
<1>1. RInv1 => ReminderTypeOK
  <2> SUFFICES ASSUME RInv1 PROVE ReminderTypeOK OBVIOUS
  <2>0. ReminderTyped BY DEF RInv1
  <2>1. ASSUME NEW d \in AllDates
        PROVE /\ job[d].state \in {"none", "ready", "later", "active", "done", "failed"}
              /\ job[d].plan \in Plans /\ job[d].cursor \in {0} \cup DOMAIN job[d].plan
              /\ job[d].left \in 0 .. Tries /\ (job[d].left = 0 => job[d].state = "failed")
              /\ job[d].state = "none" => job[d] = NoJob
              /\ logged[d] \subseteq Names
              /\ \A n \in Names : saved[d][n] \in [text : Texts \cup {"none", "earlier"}, at : Hours \cup {None}]
    <3>1. job[d] \in Jobs /\ JobOK(job[d]) BY <2>0 DEF RInv1, DateOK, ReminderTyped
    <3>2. /\ job[d].state \in {"none", "ready", "later", "active", "done", "failed"}
          /\ job[d].plan \in Plans /\ job[d].left \in 0 .. Tries
      BY <3>1 DEF Jobs, States
    <3>3. logged[d] \subseteq Names /\ saved[d] \in [Names -> Messages] BY <2>0 DEF ReminderTyped
    <3> QED BY <3>1, <3>2, <3>3 DEF JobOK, Messages
  <2>2. drain.phase \in {"off", "drain", "plan", "send", "redrain"} BY <2>0 DEF ReminderTyped, Drains
  <2>3. drain.date # None => drain.phase \in {"drain", "redrain"} /\ job[drain.date].state = "active"
    BY DEF RInv1, WorkOK, InHand
  <2> QED BY <2>0, <2>1, <2>2, <2>3 DEF ReminderTypeOK, ReminderTyped
<1> QED BY <1>1, ReminderStart, ReminderStep, PTL DEF ReminderSpec

\* A reminder is created on the date of its job and says what the job's plan says.
THEOREM PlannedIsCreated == ReminderSpec => []CreatedAsPlanned
<1>1. RInv1 => CreatedAsPlanned
  <2> SUFFICES ASSUME RInv1, NEW d \in AllDates, NEW n \in Names,
                      saved[d][n] # Unsaved, saved[d][n].text # "earlier"
               PROVE /\ Date(saved[d][n].at) = d
                     /\ n \in DOMAIN job[d].plan /\ saved[d][n].text = job[d].plan[n]
    BY DEF CreatedAsPlanned
  <2>1. /\ saved[d][n].at \in Hours /\ Day * d <= saved[d][n].at /\ saved[d][n].at < Midnight(d)
        /\ n \in DOMAIN job[d].plan /\ saved[d][n].text = job[d].plan[n]
    BY DEF RInv1, DateOK, SavedOK
  <2>2. saved[d][n].at \in Nat /\ d \in Nat BY <2>1, ReminderAssumption DEF Hours, AllDates
  <2> QED BY <2>1, <2>2, DateIs
<1> QED BY <1>1, ReminderStart, ReminderStep, PTL DEF ReminderSpec

\* A plan is kept: once saved it does not change, and no date is planned again.
THEOREM PlansKept == ReminderSpec => PlanKept
<1>1. Kept => \A d \in AllDates : job[d].planned => job'[d].planned /\ job'[d].plan = job[d].plan
  BY DEF Kept
<1> QED BY <1>1, ReminderStart, ReminderStep, PTL DEF ReminderSpec, PlanKept

-----------------------------------------------------------------------------
(* The accounts of a job. *)
Counts == (\A d \in AllDates : DateCounted(d)) /\ WorkCounted

LEMMA UnresolvedFinite ==
  ASSUME NEW plan \in Plans, NEW sv, NEW c, NEW names
  PROVE IsFiniteSet(Unresolved(plan, sv, c, names))
<1>1. IsFiniteSet(DOMAIN plan) BY PlanIs
<1>2. Unresolved(plan, sv, c, names) \subseteq DOMAIN plan BY DEF Unresolved
<1> QED BY <1>1, <1>2, FS_Subset

LEMMA QueueCounts ==
  ASSUME RInv1, Counts, WakeBegins \/ UnitFails PROVE Counts'
<1> USE ReminderAssumption
<1>0. job \in [AllDates -> Jobs] /\ saved' = saved BY DEF RInv1, ReminderTyped, WakeBegins, UnitFails
<1>1. drain'.date = None
  <2>1. drain \in Drains BY DEF RInv1, ReminderTyped
  <2> QED BY <2>1 DEF WakeBegins, UnitFails, NoWake, BetweenAgain, Drains
<1>2. WorkCounted' BY <1>1 DEF WorkCounted
<1>3. ASSUME NEW d \in AllDates PROVE DateCounted(d)'
  <2>0. job[d] \in Jobs /\ DateCounted(d) /\ DateOK(d) BY <1>0 DEF Counts, RInv1
  <2>1. \/ job'[d] = AttemptFailed(job[d], "ready") /\ job[d].state = "active"
        \/ job'[d] = AttemptFailed(job[d], "later") /\ job[d].state = "active"
        \/ job'[d] = [job[d] EXCEPT !.state = "ready"] /\ job[d].state = "later"
        \/ job'[d] = job[d]
    <3>1. CASE WakeBegins BY <3>1 DEF WakeBegins
    <3>2. CASE UnitFails
      <4>1. drain.date \in AllDates /\ job[drain.date].state = "active"
        BY <3>2 DEF UnitFails, RInv1, WorkOK, InHand
      <4> QED BY <3>2, <4>1, <1>0 DEF UnitFails
    <3> QED BY <3>1, <3>2
  <2>2. job[d].state = "active" => job[d].left # 0 BY <2>0 DEF DateOK, JobOK
  <2>3. ASSUME NEW s, NEW l, job'[d] = [job[d] EXCEPT !.state = s, !.left = l], job[d].state # "done"
        PROVE DateCounted(d)'
    <3>1. /\ job'[d].planned = job[d].planned /\ job'[d].plan = job[d].plan
          /\ job'[d].cursor = job[d].cursor /\ job'[d].unresolved = job[d].unresolved
      BY <2>0, <2>3 DEF Jobs
    <3> QED BY <3>1, <2>0, <2>3, <1>0 DEF DateCounted, Counted
  <2>4. ASSUME NEW wait \in {"ready", "later"}, job'[d] = AttemptFailed(job[d], wait), job[d].state = "active"
        PROVE DateCounted(d)'
    <3>1. AttemptFailed(job[d], wait)
            = [job[d] EXCEPT !.state = IF job[d].left > 1 THEN wait ELSE "failed", !.left = job[d].left - 1]
      BY <2>0, <2>2, <2>4, AttemptFailedTyped
    <3>2. job[d].state # "done" BY <2>4
    <3> QED BY <2>3, <2>4, <3>1, <3>2
  <2>5. ASSUME job'[d] = [job[d] EXCEPT !.state = "ready"], job[d].state = "later" PROVE DateCounted(d)'
    <3>1. job'[d] = [job[d] EXCEPT !.state = "ready", !.left = job[d].left] BY <2>0, <2>5 DEF Jobs
    <3> QED BY <2>3, <2>5, <3>1
  <2>6. ASSUME job'[d] = job[d] PROVE DateCounted(d)' BY <2>0, <2>6, <1>0 DEF DateCounted
  <2> QED BY <2>1, <2>4, <2>5, <2>6
<1> QED BY <1>2, <1>3 DEF Counts

LEMMA FetchCounts ==
  ASSUME RInv1, Counts, NEW d \in AllDates, Fetch(d) PROVE Counts'
<1> USE ReminderAssumption
<1>0. job \in [AllDates -> Jobs] /\ saved' = saved /\ drain \in Drains BY DEF RInv1, ReminderTyped, Fetch
<1>1. Between /\ job[d].state = "ready" BY DEF Fetch
<1>2. job[d] \in Jobs /\ DateCounted(d) /\ DateOK(d) BY <1>0 DEF Counts, RInv1
<1>3. job' = [job EXCEPT ![d].state = "active"] BY DEF Fetch
<1>4. ASSUME NEW e \in AllDates PROVE DateCounted(e)'
  <2>1. DateCounted(e) BY DEF Counts
  <2>2. CASE e # d
    <3>1. job'[e] = job[e] BY <2>2, <1>0, <1>3
    <3> QED BY <2>1, <3>1, <1>0 DEF DateCounted
  <2>3. CASE e = d
    <3>1. /\ job'[d].planned = job[d].planned /\ job'[d].plan = job[d].plan
          /\ job'[d].cursor = job[d].cursor /\ job'[d].unresolved = job[d].unresolved
      BY <1>0, <1>2, <1>3 DEF Jobs
    <3> QED BY <2>3, <3>1, <1>0, <1>1, <1>2 DEF DateCounted, Counted
  <2> QED BY <2>2, <2>3
<1>5. PICK w : drain' = [drain EXCEPT !.worked = TRUE, !.date = d, !.work = w] /\ Taken(d, w)
  BY DEF Fetch, Taken
<1>6. drain'.date = d /\ drain'.work = w /\ drain'.adds = drain.adds BY <1>0, <1>5 DEF Drains
<1>7. drain.adds = {} BY <1>1 DEF RInv1, Idle, Between
<1>8. Adding({}) = {} BY DEF Adding
<1>9. ASSUME w.planned
      PROVE w.unresolved = Cardinality(Unresolved(w.plan, saved[d], w.cursor, {}))
  <2>1. CASE w = job[d] /\ job[d].planned BY <2>1, <1>2 DEF DateCounted, Counted
  <2>2. CASE w = [job[d] EXCEPT !.state = "done", !.unresolved = 1] /\ ~job[d].planned
    <3>1. ~w.planned BY <2>2, <1>2 DEF Jobs
    <3> QED BY <3>1, <1>9
  <2>3. CASE w = [job[d] EXCEPT !.planned = TRUE, !.plan = Prepared] /\ ~job[d].planned
    <3>1. w.plan = Prepared /\ w.cursor = job[d].cursor /\ w.unresolved = job[d].unresolved
      BY <2>3, <1>2 DEF Jobs
    <3>2. job[d].cursor = 0 /\ job[d].unresolved = 0
      BY <2>3, <1>1, <1>2 DEF DateOK, JobOK, DateCounted, Counted
    <3>3. DOMAIN Prepared \subseteq Names BY DEF Prepared
    <3>a. \A n \in DOMAIN Prepared : ~(n <= 0)
      <4> TAKE n \in DOMAIN Prepared
      <4>1. n \in Names BY <3>3
      <4>2. n \in Nat /\ n # 0 BY <4>1
      <4> QED BY <4>2
    <3>4. Unresolved(w.plan, saved[d], 0, {}) = {} BY <3>1, <3>a DEF Unresolved
    <3>5. Cardinality({}) = 0 BY FS_EmptySet
    <3> QED BY <3>1, <3>2, <3>4, <3>5
  <2> QED BY <2>1, <2>2, <2>3, <1>5 DEF Taken
<1>10. WorkCounted' BY <1>0, <1>6, <1>7, <1>8, <1>9 DEF WorkCounted
<1> QED BY <1>4, <1>10 DEF Counts

LEMMA VisitCounts ==
  ASSUME RInv1, Counts, Visit PROVE Counts'
<1> USE ReminderAssumption
<1>0. ReminderTyped /\ drain \in Drains /\ job' = job /\ saved' = saved BY DEF RInv1, ReminderTyped, Visit
<1>1. \A e \in AllDates : DateCounted(e)' BY <1>0 DEF Counts, DateCounted
<1>2. PICK d \in AllDates, n \in Nat, w \in Jobs, u \in Int, adds \in SUBSET [name : Names, at : Hours] :
        Visited(d, n, w, u, adds)
  BY VisitIs
<1>3. /\ d = drain.date /\ w = drain.work /\ w.state # "done" /\ n \in DOMAIN w.plan /\ n > w.cursor
      /\ \A m \in DOMAIN w.plan : m > w.cursor => n <= m
      /\ u = w.unresolved + (IF Uncertain(d, w, n) THEN 1 ELSE 0)
      /\ adds = drain.adds \cup (IF New(d, w, n) /\ Creates(d, n) THEN {[name |-> n, at |-> hour]} ELSE {})
  BY <1>2 DEF Visited
<1>4. drain'.date = d /\ drain'.adds = adds /\ drain'.work = [w EXCEPT !.cursor = n, !.unresolved = u]
  BY <1>0, <1>2, <1>3 DEF Visited, Drains
<1>5. drain'.work.plan = w.plan /\ drain'.work.cursor = n /\ drain'.work.unresolved = u
  BY <1>4 DEF Jobs
<1>6. d # None /\ InHand(d, w) /\ AddsOK(d, w) /\ w.planned
  <2>1. d # None BY DEF AllDates
  <2>2. InHand(d, w) /\ AddsOK(d, w) BY <1>3, <2>1 DEF RInv1, WorkOK
  <2> QED BY <1>3, <2>1, <2>2 DEF InHand
<1> DEFINE Before == Unresolved(w.plan, saved[d], w.cursor, Adding(drain.adds))
           After == Unresolved(w.plan, saved[d], n, Adding(adds))
<1>7. w.unresolved = Cardinality(Before) BY <1>3, <1>6 DEF Counts, WorkCounted
<1>8. w.plan \in Plans /\ w.cursor \in Nat /\ DOMAIN w.plan \subseteq Nat BY PlanIs DEF Jobs
<1>9. IsFiniteSet(Before) BY <1>8, UnresolvedFinite
<1>10. n \notin Adding(drain.adds)
  <2>1. \A a \in drain.adds : a.name <= w.cursor BY <1>6 DEF AddsOK
  <2> QED BY <2>1, <1>3, <1>8 DEF Adding
<1>11. Adding(adds) = Adding(drain.adds) \cup (IF New(d, w, n) /\ Creates(d, n) THEN {n} ELSE {})
  <2>1. CASE New(d, w, n) /\ Creates(d, n)
    <3>1. adds = drain.adds \cup {[name |-> n, at |-> hour]} BY <2>1, <1>3
    <3>2. [name |-> n, at |-> hour].name = n OBVIOUS
    <3> QED BY <2>1, <3>1, <3>2 DEF Adding
  <2>2. CASE ~(New(d, w, n) /\ Creates(d, n))
    <3>1. adds = drain.adds BY <2>2, <1>3
    <3> QED BY <2>2, <3>1
  <2> QED BY <2>1, <2>2
<1>12. n \notin Before BY <1>3, <1>8 DEF Unresolved
<1>13. After = Before \cup (IF Uncertain(d, w, n) THEN {n} ELSE {})
  <2>1. ASSUME NEW m \in DOMAIN w.plan, m # n PROVE m \in After <=> m \in Before
    <3>1. m <= n <=> m <= w.cursor BY <1>3, <1>8, <2>1
    <3>2. m \in Adding(adds) <=> m \in Adding(drain.adds) BY <1>11, <2>1
    <3> QED BY <3>1, <3>2 DEF Unresolved
  <2>2. n \in After <=> Uncertain(d, w, n)
    <3>1. n \in Adding(adds) <=> New(d, w, n) /\ Creates(d, n) BY <1>10, <1>11
    <3>2. n \in After <=> \/ w.plan[n] = "ambiguous"
                          \/ w.plan[n] \in Texts /\ saved[d][n] = Unsaved /\ n \notin Adding(adds)
      BY <1>3, <1>8 DEF Unresolved
    <3> QED BY <3>1, <3>2 DEF Uncertain, New
  <2>3. After \subseteq DOMAIN w.plan /\ Before \subseteq DOMAIN w.plan BY DEF Unresolved
  <2> HIDE DEF After, Before
  <2> QED BY <1>3, <1>12, <2>1, <2>2, <2>3
<1>14. u = Cardinality(After)
  <2> HIDE DEF After, Before
  <2>1. CASE Uncertain(d, w, n)
    <3>1. After = Before \cup {n} BY <1>13, <2>1
    <3>2. Cardinality(After) = Cardinality(Before) + 1 BY <3>1, <1>9, <1>12, FS_AddElement
    <3> QED BY <1>3, <1>7, <2>1, <3>2
  <2>2. CASE ~Uncertain(d, w, n)
    <3>1. After = Before BY <1>13, <2>2
    <3>2. w.unresolved \in Int BY DEF Jobs
    <3> QED BY <1>3, <1>7, <2>2, <3>1, <3>2
  <2> QED BY <2>1, <2>2
<1>15. WorkCounted' BY <1>0, <1>4, <1>5, <1>14 DEF WorkCounted
<1> QED BY <1>1, <1>15 DEF Counts

LEMMA CommitCounts ==
  ASSUME RInv1, Counts, Commit PROVE Counts'
<1> USE ReminderAssumption
<1>0. ReminderTyped /\ job \in [AllDates -> Jobs] /\ saved \in [AllDates -> [Names -> Messages]]
      /\ drain \in Drains
  BY DEF RInv1, ReminderTyped
<1>1. PICK d \in AllDates, w \in Jobs, j \in Jobs :
          /\ d = drain.date /\ w = drain.work /\ InHand(d, w)
          /\ j.planned = w.planned /\ j.plan = w.plan /\ j.cursor = w.cursor
          /\ j.unresolved = w.unresolved /\ j.left = w.left
          /\ j.state \in {"ready", "done"} /\ JobOK(j)
          /\ job' = [job EXCEPT ![d] = j]
          /\ saved' = [saved EXCEPT ![d] = Written(saved[d], w, drain.adds)]
  BY CommitIs
<1>2. PICK sv : sv = Written(saved[d], w, drain.adds) OBVIOUS
<1>3. \A n \in Names : IF n \in Adding(drain.adds) THEN sv[n] # Unsaved ELSE sv[n] = saved[d][n]
  BY <1>1, <1>2, WrittenIs
<1>4. job'[d] = j /\ saved'[d] = sv BY <1>0, <1>1, <1>2
<1>5. DOMAIN w.plan \subseteq Names BY PlanIs DEF Jobs
<1>6. Unresolved(w.plan, sv, w.cursor, {}) = Unresolved(w.plan, saved[d], w.cursor, Adding(drain.adds))
  BY <1>3, <1>5 DEF Unresolved
<1>7. Counted(j, sv)
  <2>1. CASE j.planned
    <3>1. d # None BY DEF AllDates
    <3>2. w.unresolved = Cardinality(Unresolved(w.plan, saved[d], w.cursor, Adding(drain.adds)))
      BY <2>1, <3>1, <1>1 DEF Counts, WorkCounted
    <3> QED BY <2>1, <3>2, <1>1, <1>6 DEF Counted
  <2>2. CASE ~j.planned
    <3>1. w.state = "done" /\ w.unresolved = 1 BY <2>2, <1>1 DEF InHand
    <3>2. w.cursor = 0 /\ w.plan = NoJob.plan BY <3>1, <1>1 DEF InHand
    <3>3. DOMAIN w.plan = {} BY <3>2 DEF NoJob
    <3>4. j = w BY <2>2, <3>1, <1>0, <1>1, <1>4 DEF Commit
    <3> QED BY <2>2, <3>1, <3>4 DEF Counted
  <2> QED BY <2>1, <2>2
<1>8. ASSUME NEW e \in AllDates PROVE DateCounted(e)'
  <2>1. CASE e = d BY <2>1, <1>4, <1>7 DEF DateCounted
  <2>2. CASE e # d
    <3>1. job'[e] = job[e] /\ saved'[e] = saved[e] BY <2>2, <1>0, <1>1
    <3> QED BY <3>1 DEF Counts, DateCounted
  <2> QED BY <2>1, <2>2
<1>9. drain'.date = None BY <1>0 DEF Commit, BetweenAgain, Drains
<1>10. WorkCounted' BY <1>9 DEF WorkCounted
<1> QED BY <1>8, <1>10 DEF Counts

LEMMA SendCounts ==
  ASSUME RInv1, Counts, PlanSend \/ IntakeSend PROVE Counts'
<1> USE ReminderAssumption
<1>0. job \in [AllDates -> Jobs] /\ saved' = saved /\ drain \in Drains /\ drain.slot \in AllDates
      /\ intake \in AllDates \cup {None}
  BY DEF RInv1, ReminderTyped, Drains, PlanSend, IntakeSend
<1>1. PICK d \in AllDates : job' = SentOnce(d) BY <1>0 DEF PlanSend, IntakeSend
<1>2. ASSUME NEW e \in AllDates PROVE DateCounted(e)'
  <2>1. CASE job'[e] = job[e] BY <2>1, <1>0 DEF Counts, DateCounted
  <2>2. CASE job'[e] # job[e]
    <3>1. job'[e] = [NoJob EXCEPT !.state = "ready"] BY <2>2, <1>0, <1>1 DEF SentOnce
    <3>2. ~job'[e].planned /\ job'[e].unresolved = 0 BY <3>1 DEF NoJob
    <3> QED BY <3>2 DEF DateCounted, Counted
  <2> QED BY <2>1, <2>2
<1>3. WorkCounted'
  <2>1. CASE PlanSend
    <3>1. drain.date = None BY <2>1 DEF RInv1, WorkOK, InHand, PlanSend
    <3>2. drain'.date = None BY <2>1, <3>1, <1>0, NoWakeIs DEF PlanSend, Drains
    <3> QED BY <3>2 DEF WorkCounted
  <2>2. CASE IntakeSend BY <2>2 DEF IntakeSend, Counts, WorkCounted
  <2> QED BY <2>1, <2>2
<1> QED BY <1>2, <1>3 DEF Counts

LEMMA OtherCounts ==
  ASSUME RInv1, Counts, job' = job,
         \A d \in AllDates : saved'[d] # saved[d] => job[d].state = "none",
         drain'.date = None \/ (drain'.date = drain.date /\ drain'.work = drain.work /\ drain'.adds = drain.adds)
  PROVE Counts'
<1>1. ASSUME NEW d \in AllDates PROVE DateCounted(d)'
  <2>1. DateCounted(d) /\ JobOK(job[d]) BY DEF Counts, RInv1, DateOK
  <2>2. CASE saved'[d] = saved[d] BY <2>1, <2>2 DEF DateCounted
  <2>3. CASE saved'[d] # saved[d]
    <3>1. job[d] = NoJob BY <2>1, <2>3 DEF JobOK
    <3>2. ~job'[d].planned /\ job'[d].unresolved = 0 BY <3>1 DEF NoJob
    <3> QED BY <3>2 DEF DateCounted, Counted
  <2> QED BY <2>2, <2>3
<1>2. WorkCounted'
  <2>1. CASE drain'.date = None BY <2>1 DEF WorkCounted
  <2>2. CASE drain'.date # None
    <3>1. saved'[drain.date] = saved[drain.date] BY <2>2 DEF RInv1, WorkOK, InHand
    <3> QED BY <2>2, <3>1 DEF Counts, WorkCounted
  <2> QED BY <2>1, <2>2
<1> QED BY <1>1, <1>2 DEF Counts

RInv == RInv1 /\ Counts

LEMMA AccountsStart == ReminderInit => RInv
<1> USE ReminderAssumption
<1> SUFFICES ASSUME ReminderInit PROVE RInv OBVIOUS
<1>1. RInv1 BY ReminderStart
<1>2. \A d \in AllDates : job[d] = NoJob BY DEF ReminderInit
<1>3. ~NoJob.planned /\ NoJob.unresolved = 0 BY DEF NoJob
<1>4. drain.date = None BY NoWakeIs DEF ReminderInit
<1> QED BY <1>1, <1>2, <1>3, <1>4 DEF RInv, Counts, DateCounted, Counted, WorkCounted

LEMMA AccountsStep == RInv /\ [ReminderNext]_reminderVars => RInv'
<1> USE ReminderAssumption
<1> SUFFICES ASSUME RInv, [ReminderNext]_reminderVars PROVE RInv' OBVIOUS
<1>0. RInv1 /\ Counts /\ RInv1' BY ReminderStep DEF RInv
<1> SUFFICES Counts' BY <1>0 DEF RInv
<1>a. drain \in Drains BY <1>0 DEF RInv1, ReminderTyped
<1>1. CASE WakeBegins \/ UnitFails BY <1>0, <1>1, QueueCounts
<1>2. CASE \E d \in AllDates : Fetch(d) BY <1>0, <1>2, FetchCounts
<1>3. CASE Visit BY <1>0, <1>3, VisitCounts
<1>4. CASE Commit BY <1>0, <1>4, CommitCounts
<1>5. CASE DrainOver \/ TimeUp \/ WakeCut
  <2>1. job' = job /\ saved' = saved BY <1>5 DEF DrainOver, TimeUp, WakeCut
  <2>2. drain' = NoWake \/ drain' = [drain EXCEPT !.phase = "plan"]
    BY <1>5 DEF DrainOver, TimeUp, WakeCut
  <2>3. drain'.date = None \/ (drain'.date = drain.date /\ drain'.work = drain.work /\ drain'.adds = drain.adds)
    BY <1>a, <2>2, NoWakeIs DEF Drains
  <2> QED BY <1>0, <2>1, <2>3, OtherCounts
<1>6. CASE PlanSend \/ IntakeSend BY <1>0, <1>6, SendCounts
<1>7. CASE PlanCheck
  <2>1. job' = job /\ saved' = saved BY <1>7 DEF PlanCheck
  <2>2. \/ drain' = [drain EXCEPT !.phase = "send", !.slot = Date(hour)]
        \/ drain' = [drain EXCEPT !.phase = "redrain"]
    BY <1>7 DEF PlanCheck
  <2>3. drain'.date = drain.date /\ drain'.work = drain.work /\ drain'.adds = drain.adds
    BY <1>a, <2>2 DEF Drains
  <2> QED BY <1>0, <2>1, <2>3, OtherCounts
<1>8. CASE HourEnds \/ (\E n \in Names, s \in Entries \cup {"off"} : Edit(n, s)) \/ IntakeCheck
  <2>1. job' = job /\ saved' = saved BY <1>8 DEF HourEnds, Edit, IntakeCheck
  <2>2. drain' = drain \/ drain' = [drain EXCEPT !.ticked = TRUE] BY <1>8 DEF HourEnds, Edit, IntakeCheck
  <2>3. drain'.date = drain.date /\ drain'.work = drain.work /\ drain'.adds = drain.adds
    BY <1>a, <2>2 DEF Drains
  <2> QED BY <1>0, <2>1, <2>3, OtherCounts
<1>9. CASE \E n \in Names : EarlierSent(n)
  <2>1. PICK n \in Names : EarlierSent(n) BY <1>9
  <2>2. job' = job /\ drain' = drain BY <2>1 DEF EarlierSent
  <2>3. \A d \in AllDates : saved'[d] # saved[d] => job[d].state = "none" BY <1>0, <2>1, EarlierKeeps
  <2> QED BY <1>0, <2>2, <2>3, OtherCounts
<1>10. CASE UNCHANGED reminderVars
  BY <1>0, <1>10 DEF reminderVars, data, Counts, DateCounted, WorkCounted
<1> QED BY <1>1, <1>2, <1>3, <1>4, <1>5, <1>6, <1>7, <1>8, <1>9, <1>10 DEF ReminderNext, Working

\* When a job is done, every entry of its plan is saved, has no LINE account, or is counted
\* among the unresolved, exactly once, however its steps were cut short.
THEOREM EverythingAccounted == ReminderSpec => []AllAccounted
<1>1. RInv => AllAccounted
  <2> USE ReminderAssumption
  <2> SUFFICES ASSUME RInv, NEW d \in AllDates, job[d].state = "done"
               PROVE job[d].unresolved =
                       IF ~job[d].planned THEN 1
                       ELSE Cardinality({n \in DOMAIN job[d].plan : \/ job[d].plan[n] = "ambiguous"
                              \/ (job[d].plan[n] \in Texts /\ saved[d][n] = Unsaved)})
    BY DEF AllAccounted
  <2>1. job[d] \in Jobs /\ JobOK(job[d]) /\ Counted(job[d], saved[d])
    BY DEF RInv, RInv1, DateOK, Counts, DateCounted, ReminderTyped
  <2>2. CASE ~job[d].planned BY <2>1, <2>2 DEF JobOK
  <2>3. CASE job[d].planned
    <3>1. Rest(job[d]) = {} BY <2>1, <2>3 DEF JobOK
    <3>2. job[d].cursor \in Nat /\ DOMAIN job[d].plan \subseteq Nat BY <2>1, PlanIs DEF Jobs
    <3>3. \A n \in DOMAIN job[d].plan : n <= job[d].cursor BY <3>1, <3>2 DEF Rest
    <3>4. Unresolved(job[d].plan, saved[d], job[d].cursor, {})
            = {n \in DOMAIN job[d].plan : \/ job[d].plan[n] = "ambiguous"
                 \/ (job[d].plan[n] \in Texts /\ saved[d][n] = Unsaved)}
      BY <3>3 DEF Unresolved
    <3> QED BY <2>1, <2>3, <3>4 DEF Counted
  <2> QED BY <2>2, <2>3
<1> QED BY <1>1, AccountsStart, AccountsStep, PTL DEF ReminderSpec
=============================================================================
