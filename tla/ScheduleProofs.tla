--------------------------- MODULE ScheduleProofs ---------------------------
(***************************************************************************)
(* What Schedule guarantees for any lengths of days, delays, limits and    *)
(* intervals that its assumptions allow, and any number of runs, outages   *)
(* and failures.                                                           *)
(***************************************************************************)
EXTENDS Schedule, TLAPS

-----------------------------------------------------------------------------
(* Who runs when.                                                          *)

\* Nobody is late, and a run that is slow is known to be; the next slot is at
\* most a day away; the dates are past.
OnTime ==
    /\ now <= slot + Jitter
    /\ power = "on" =>
        /\ missed => now <= wake + Jitter
        /\ Running /\ ~hung => now <= Begun + Duration
    /\ slot <= now + LongestDay
    /\ wake <= now /\ report <= now /\ pruned.at <= now /\ run.since <= now

\* A completion that was recorded was one; a run to which uv was not due
\* started later than the last, and not by the interval.
Honest ==
    /\ ~NeverPruned => cleaned = pruned.at
    /\ NeverPruned => cleaned = 0
    /\ ~MayPrune => /\ Running /\ ~NeverPruned
                    /\ run.since < pruned.at + Interval

BaseInv == TypeOK /\ OnTime /\ Honest

LEMMA BaseInit == Init => BaseInv
<1> SUFFICES ASSUME Init PROVE BaseInv
    OBVIOUS
<1>1. run \in [by : Starter \cup {"nobody"}, since : Nat,
               uv : {"unasked", "due", "not-due"}]
    BY DEF Init, NoRun
<1>2. missed \in BOOLEAN /\ startup \in BOOLEAN /\ unpruned \in BOOLEAN
        /\ hung \in BOOLEAN /\ skipped \in BOOLEAN
    BY DEF Init
<1>3. slot \in Nat /\ slot <= LongestDay
    BY SizeAssumption DEF Init
<1>4. kind \in {"systemd", "task", "launchd"}
    BY KindsAssumption DEF Init
<1>5. TypeOK
    BY <1>1, <1>2, <1>3, <1>4 DEF Init, TypeOK, Never
<1>6. OnTime /\ Honest
    BY SizeAssumption, <1>3
       DEF Init, OnTime, Honest, NoRun, Never, Running, MayPrune, NeverPruned
<1>. QED
    BY <1>5, <1>6 DEF BaseInv

\* What a launch does, whoever asks for it.
LEMMA LaunchFacts ==
    ASSUME NEW by \in Starter, BaseInv, Launch(by)
    PROVE  /\ run' \in [by : Starter \cup {"nobody"}, since : Nat,
                         uv : {"unasked", "due", "not-due"}]
           /\ lost' \in 0..2
           /\ Running => run' = run
           /\ ~Running => run' = [by |-> by, since |-> now, uv |-> "unasked"]
<1>. USE DEF BaseInv, TypeOK
<1>1. [by |-> by, since |-> now, uv |-> "unasked"]
        \in [by : Starter \cup {"nobody"}, since : Nat,
             uv : {"unasked", "due", "not-due"}]
    OBVIOUS
<1>. QED
    BY <1>1 DEF Launch, OneMore, Running

\* A slot that moves ahead is not overdue.
LEMMA StillNear ==
    ASSUME NEW n \in Nat, NEW s \in Nat, NEW t \in Nat,
           n <= s + Jitter, s <= t, t <= n + LongestDay
    PROVE  n <= t + Jitter
    BY SizeAssumption

\* A trigger that fires, or a user, leaves times and dates in order.
LEMMA StartFacts ==
    ASSUME BaseInv,
           UNCHANGED <<now, power, pruned, report, wake, hung, cleaned>>,
           missed' => missed,
           slot' \in Nat, slot <= slot', slot' <= now + LongestDay,
           run' = run \/ (run'.since = now /\ run'.uv = "unasked")
    PROVE  OnTime' /\ Honest'
<1>. USE SizeAssumption DEF BaseInv
<1>1. (power' = "on" => power = "on") /\ (~hung' => ~hung)
    OBVIOUS
<1>2. power' = "on" /\ missed' => now' <= wake' + Jitter
    BY <1>1 DEF OnTime
<1>3. now' <= slot' + Jitter /\ slot' <= now' + LongestDay
  <2>1. now' = now
    OBVIOUS
  <2>2. now \in Nat /\ slot \in Nat /\ now <= slot + Jitter
    BY DEF TypeOK, OnTime
  <2>3. now <= slot' + Jitter
    BY <2>2, StillNear, Zenon
  <2>. QED
    BY <2>1, <2>3, Zenon
<1>4. wake' <= now' /\ report' <= now' /\ pruned'.at <= now'
    BY Zenon DEF OnTime
<1>5. run'.since <= now'
    BY DEF TypeOK, OnTime
<1>6. power' = "on" /\ Running' /\ ~hung' => now' <= Begun' + Duration
  <2>1. CASE run' = run
    <3>1. Running' = Running /\ Begun' = Begun
        BY <2>1 DEF Running, Begun, Later
    <3>. QED
        BY <1>1, <3>1 DEF OnTime
  <2>2. CASE run'.since = now
    <3>1. Begun' = now
        BY <2>2 DEF TypeOK, OnTime, Begun, Later
    <3>. QED
        BY <3>1 DEF TypeOK
  <2>. QED
    BY <2>1, <2>2
<1>7. OnTime'
    BY <1>2, <1>3, <1>4, <1>5, <1>6, Zenon DEF OnTime
<1>8. ~MayPrune' => ~MayPrune /\ run' = run
    BY DEF MayPrune
<1>9. Honest'
    BY <1>8 DEF TypeOK, Honest, Running, NeverPruned
<1>. QED
    BY <1>7, <1>9

LEMMA BaseNext == BaseInv /\ [Next]_vars => BaseInv'
<1> SUFFICES ASSUME BaseInv, [Next]_vars PROVE BaseInv'
    OBVIOUS
<1>. USE SizeAssumption, DaysAssumption, BoundsAssumption
<1>. USE DEF BaseInv, counters, scheduler, cleaner, history, Starter, Trigger
<1>1. ASSUME SlotFires PROVE BaseInv'
    <2>1. Launch("slot") /\ "slot" \in Starter
        BY <1>1 DEF SlotFires
    <2>2. TypeOK'
      <3>1. /\ run' \in [by : Starter \cup {"nobody"}, since : Nat,
                          uv : {"unasked", "due", "not-due"}]
            /\ lost' \in 0..2
        BY <2>1, LaunchFacts
      <3>. QED
        BY <1>1, <3>1 DEF SlotFires, TypeOK, NextSlot
    <2>3. UNCHANGED <<now, power, pruned, report, wake, hung, cleaned>>
             /\ (missed' => missed) /\ slot' \in Nat
             /\ slot <= slot' /\ slot' <= now + LongestDay
        BY <1>1 DEF SlotFires, TypeOK, OnTime, NextSlot
    <2>4. run' = run \/ (run'.since = now /\ run'.uv = "unasked")
        BY <2>1, LaunchFacts
    <2>5. OnTime' /\ Honest'
        BY <2>3, <2>4, StartFacts
    <2>. QED
        BY <2>2, <2>5
<1>2. ASSUME CatchUpFires PROVE BaseInv'
    <2>1. Launch("catch-up") /\ "catch-up" \in Starter
        BY <1>2 DEF CatchUpFires
    <2>2. TypeOK'
      <3>1. /\ run' \in [by : Starter \cup {"nobody"}, since : Nat,
                          uv : {"unasked", "due", "not-due"}]
            /\ lost' \in 0..2
        BY <2>1, LaunchFacts
      <3>. QED
        BY <1>2, <3>1 DEF CatchUpFires, TypeOK
    <2>3. UNCHANGED <<now, power, pruned, report, wake, hung, cleaned>>
             /\ (missed' => missed) /\ slot' \in Nat
             /\ slot <= slot' /\ slot' <= now + LongestDay
        BY <1>2 DEF CatchUpFires, TypeOK, OnTime
    <2>4. run' = run \/ (run'.since = now /\ run'.uv = "unasked")
        BY <2>1, LaunchFacts
    <2>5. OnTime' /\ Honest'
        BY <2>3, <2>4, StartFacts
    <2>. QED
        BY <2>2, <2>5
<1>3. ASSUME StartupFires PROVE BaseInv'
    <2>1. Launch("startup") /\ "startup" \in Starter
        BY <1>3 DEF StartupFires
    <2>2. TypeOK'
      <3>1. /\ run' \in [by : Starter \cup {"nobody"}, since : Nat,
                          uv : {"unasked", "due", "not-due"}]
            /\ lost' \in 0..2
        BY <2>1, LaunchFacts
      <3>. QED
        BY <1>3, <3>1 DEF StartupFires, TypeOK
    <2>3. UNCHANGED <<now, power, pruned, report, wake, hung, cleaned>>
             /\ (missed' => missed) /\ slot' \in Nat
             /\ slot <= slot' /\ slot' <= now + LongestDay
        BY <1>3 DEF StartupFires, TypeOK, OnTime
    <2>4. run' = run \/ (run'.since = now /\ run'.uv = "unasked")
        BY <2>1, LaunchFacts
    <2>5. OnTime' /\ Honest'
        BY <2>3, <2>4, StartFacts
    <2>. QED
        BY <2>2, <2>5
<1>4. ASSUME UserRuns PROVE BaseInv'
    <2>1. Launch("user") /\ "user" \in Starter
        BY <1>4 DEF UserRuns
    <2>2. TypeOK'
        BY <1>4, <2>1, LaunchFacts DEF UserRuns, TypeOK
    <2>3. UNCHANGED <<now, power, pruned, report, wake, hung, cleaned>>
             /\ (missed' => missed) /\ slot' \in Nat
             /\ slot <= slot' /\ slot' <= now + LongestDay
        BY <1>4 DEF UserRuns, TypeOK, OnTime
    <2>4. run' = run \/ (run'.since = now /\ run'.uv = "unasked")
        BY <2>1, LaunchFacts
    <2>5. OnTime' /\ Honest'
        BY <2>3, <2>4, StartFacts
    <2>. QED
        BY <2>2, <2>5
<1>5. ASSUME Decide PROVE BaseInv'
    <2>1. /\ missed' \in BOOLEAN /\ startup' \in BOOLEAN /\ unpruned' \in BOOLEAN
          /\ hung' \in BOOLEAN /\ skipped' \in BOOLEAN
        BY <1>5 DEF Decide, TypeOK
    <2>2. TypeOK'
        BY <1>5, <2>1 DEF Decide, TypeOK, NoRun, Running, OneMore
    <2>3. OnTime' /\ Honest'
        BY <1>5, <2>2
           DEF Decide, TypeOK, OnTime, Honest, NoRun, Running, MayPrune,
               NeverPruned, Begun, Later, Due
    <2>. QED
        BY <2>2, <2>3
<1>6. ASSUME Complete PROVE BaseInv'
    <2>1. /\ missed' \in BOOLEAN /\ startup' \in BOOLEAN /\ unpruned' \in BOOLEAN
          /\ hung' \in BOOLEAN /\ skipped' \in BOOLEAN
        BY <1>6 DEF Complete, Records, Completer, StillHung, TypeOK
    <2>2. TypeOK'
        BY <1>6, <2>1 DEF Complete, Records, Completer, StillHung, TypeOK, NoRun, Running, OneMore
    <2>3. OnTime' /\ Honest'
        BY <1>6, <2>2
           DEF Complete, Records, Completer, StillHung, TypeOK, OnTime, Honest, NoRun, Running, MayPrune,
               NeverPruned, Begun, Later, Due
    <2>. QED
        BY <2>2, <2>3
<1>7. ASSUME FailUv PROVE BaseInv'
    <2>1. /\ missed' \in BOOLEAN /\ startup' \in BOOLEAN /\ unpruned' \in BOOLEAN
          /\ hung' \in BOOLEAN /\ skipped' \in BOOLEAN
        BY <1>7 DEF FailUv, Reported, StillHung, TypeOK
    <2>2. TypeOK'
        BY <1>7, <2>1 DEF FailUv, Reported, StillHung, TypeOK, NoRun, Running, OneMore
    <2>3. OnTime' /\ Honest'
        BY <1>7, <2>2
           DEF FailUv, Reported, StillHung, TypeOK, OnTime, Honest, NoRun, Running, MayPrune,
               NeverPruned, Begun, Later, Due
    <2>. QED
        BY <2>2, <2>3
<1>8. ASSUME Die PROVE BaseInv'
    <2>1. /\ missed' \in BOOLEAN /\ startup' \in BOOLEAN /\ unpruned' \in BOOLEAN
          /\ hung' \in BOOLEAN /\ skipped' \in BOOLEAN
        BY <1>8 DEF Die, TypeOK
    <2>2. TypeOK'
        BY <1>8, <2>1 DEF Die, TypeOK, NoRun, Running, OneMore
    <2>3. OnTime' /\ Honest'
        BY <1>8, <2>2
           DEF Die, TypeOK, OnTime, Honest, NoRun, Running, MayPrune,
               NeverPruned, Begun, Later, Due
    <2>. QED
        BY <2>2, <2>3
<1>9. ASSUME Tick PROVE BaseInv'
    <2>1. /\ missed' \in BOOLEAN /\ startup' \in BOOLEAN /\ unpruned' \in BOOLEAN
          /\ hung' \in BOOLEAN /\ skipped' \in BOOLEAN
        BY <1>9 DEF Tick, Punctual, TypeOK
    <2>2. TypeOK'
        BY <1>9, <2>1 DEF Tick, Punctual, TypeOK, NoRun, Running, OneMore
    <2>3. /\ now' = now + 1 /\ Punctual
          /\ UNCHANGED <<power, slot, missed, run, pruned, report, wake, cleaned>>
        BY <1>9 DEF Tick
    <2>4. Begun' = Begun /\ Running' = Running
        BY <2>3 DEF Begun, Later, Running
    <2>5. power = "on" /\ Running /\ ~hung' => now' <= Begun + Duration
      <3>1. hung' <=> (hung \/ (power = "on" /\ Running /\ now' > Begun + Duration))
        BY <1>9, Zenon DEF Tick
      <3>2. Begun \in Nat /\ now' \in Nat
        BY <2>3 DEF Begun, Later, TypeOK
      <3>. QED
        BY <3>1, <3>2
    <2>6. OnTime'
        BY <2>3, <2>4, <2>5 DEF Punctual, TypeOK, OnTime
    <2>7. Honest'
        BY <2>3 DEF Honest, Running, MayPrune, NeverPruned
    <2>. QED
        BY <2>2, <2>6, <2>7
<1>10. ASSUME PowerLost PROVE BaseInv'
    <2>1. /\ missed' \in BOOLEAN /\ startup' \in BOOLEAN /\ unpruned' \in BOOLEAN
          /\ hung' \in BOOLEAN /\ skipped' \in BOOLEAN
        BY <1>10 DEF PowerLost, TypeOK
    <2>2. TypeOK'
        BY <1>10, <2>1 DEF PowerLost, TypeOK, NoRun, Running, OneMore
    <2>3. OnTime' /\ Honest'
        BY <1>10, <2>2
           DEF PowerLost, TypeOK, OnTime, Honest, NoRun, Running, MayPrune,
               NeverPruned, Begun, Later, Due
    <2>. QED
        BY <2>2, <2>3
<1>11. ASSUME SlotMissed PROVE BaseInv'
    <2>1. /\ missed' \in BOOLEAN /\ startup' \in BOOLEAN /\ unpruned' \in BOOLEAN
          /\ hung' \in BOOLEAN /\ skipped' \in BOOLEAN
        BY <1>11 DEF SlotMissed, NextSlot, CatchesUp, Persistent, TypeOK
    <2>2. TypeOK'
        BY <1>11, <2>1 DEF SlotMissed, NextSlot, CatchesUp, Persistent, TypeOK, NoRun, Running, OneMore
    <2>3. OnTime' /\ Honest'
        BY <1>11, <2>2
           DEF SlotMissed, NextSlot, CatchesUp, Persistent, TypeOK, OnTime, Honest, NoRun, Running, MayPrune,
               NeverPruned, Begun, Later, Due
    <2>. QED
        BY <2>2, <2>3
<1>12. ASSUME PowerBack PROVE BaseInv'
    <2>1. /\ missed' \in BOOLEAN /\ startup' \in BOOLEAN /\ unpruned' \in BOOLEAN
          /\ hung' \in BOOLEAN /\ skipped' \in BOOLEAN
        BY <1>12 DEF PowerBack, StartsAtBoot, TypeOK
    <2>2. TypeOK'
        BY <1>12, <2>1 DEF PowerBack, StartsAtBoot, TypeOK, NoRun, Running, OneMore
    <2>3. OnTime' /\ Honest'
        BY <1>12, <2>2
           DEF PowerBack, StartsAtBoot, TypeOK, OnTime, Honest, NoRun, Running, MayPrune,
               NeverPruned, Begun, Later, Due
    <2>. QED
        BY <2>2, <2>3
<1>13. ASSUME Over PROVE BaseInv'
    <2>1. /\ missed' \in BOOLEAN /\ startup' \in BOOLEAN /\ unpruned' \in BOOLEAN
          /\ hung' \in BOOLEAN /\ skipped' \in BOOLEAN
        BY <1>13 DEF Over, vars, TypeOK
    <2>2. TypeOK'
        BY <1>13, <2>1 DEF Over, vars, TypeOK, NoRun, Running, OneMore
    <2>3. OnTime' /\ Honest'
        BY <1>13, <2>2
           DEF Over, vars, TypeOK, OnTime, Honest, NoRun, Running, MayPrune,
               NeverPruned, Begun, Later, Due
    <2>. QED
        BY <2>2, <2>3
<1>14. ASSUME UNCHANGED vars PROVE BaseInv'
    BY <1>14 DEF vars, TypeOK, OnTime, Honest, Running, MayPrune, NeverPruned,
           Begun, Later
<1>. QED
    BY <1>1, <1>2, <1>3, <1>4, <1>5, <1>6, <1>7, <1>8, <1>9, <1>10, <1>11,
       <1>12, <1>13, <1>14 DEF Next

\* Every variable of Schedule keeps its type.
THEOREM TypeCorrect == Spec => []TypeOK
<1>1. BaseInv => TypeOK
    BY DEF BaseInv
<1>. QED
    BY BaseInit, BaseNext, <1>1, PTL DEF Spec

-----------------------------------------------------------------------------
(* Daily slots do not skip days.                                           *)

\* From a slot's run, in progress or completed in time, the next slot is at
\* least the interval away: days are not shorter than it and the delays.
Apart ==
    /\ run.by = "slot" => run.since + Duration + Interval <= slot
    /\ pruned.by = "slot" =>
        /\ pruned.at + Interval <= slot
        /\ run.by = "slot" => pruned.at + Interval <= run.since

SlotInv == Apart /\ SlotIsDue

LEMMA SlotInit == Init => SlotInv
    BY DEF Init, SlotInv, Apart, SlotIsDue, NoRun, Never

LEMMA SlotNext == BaseInv /\ SlotInv /\ [Next]_vars => SlotInv'
<1> SUFFICES ASSUME BaseInv /\ SlotInv, [Next]_vars PROVE SlotInv'
    OBVIOUS
<1>. USE SizeAssumption, DaysAssumption, BoundsAssumption
<1>. USE DEF BaseInv, TypeOK, OnTime, Honest, SlotInv, Apart, SlotIsDue,
           counters, scheduler, cleaner, history, Running, MayPrune,
           NeverPruned, Begun, Later, Trigger, Starter, NoRun, Never, OneMore,
           Due, vars
<1>1. ASSUME SlotFires PROVE SlotInv'
    BY <1>1 DEF SlotFires, Launch, NextSlot
<1>2. ASSUME CatchUpFires PROVE SlotInv'
    BY <1>2 DEF CatchUpFires, Launch
<1>3. ASSUME StartupFires PROVE SlotInv'
    BY <1>3 DEF StartupFires, Launch
<1>4. ASSUME UserRuns PROVE SlotInv'
    BY <1>4 DEF UserRuns, Launch
<1>5. ASSUME Decide PROVE SlotInv'
    BY <1>5 DEF Decide
<1>6. ASSUME Complete PROVE SlotInv'
    BY <1>6 DEF Complete, Records, Completer, StillHung
<1>7. ASSUME FailUv PROVE SlotInv'
    BY <1>7 DEF FailUv, Reported, StillHung
<1>8. ASSUME Die PROVE SlotInv'
    BY <1>8 DEF Die
<1>9. ASSUME Tick PROVE SlotInv'
    BY <1>9 DEF Tick, Punctual
<1>10. ASSUME PowerLost PROVE SlotInv'
    BY <1>10 DEF PowerLost
<1>11. ASSUME SlotMissed PROVE SlotInv'
    BY <1>11 DEF SlotMissed, NextSlot, CatchesUp, Persistent
<1>12. ASSUME PowerBack PROVE SlotInv'
    BY <1>12 DEF PowerBack, StartsAtBoot
<1>13. ASSUME Over PROVE SlotInv'
    BY <1>13 DEF Over, vars
<1>14. ASSUME UNCHANGED vars PROVE SlotInv'
    BY <1>14
<1>. QED
    BY <1>1, <1>2, <1>3, <1>4, <1>5, <1>6, <1>7, <1>8, <1>9, <1>10, <1>11,
       <1>12, <1>13, <1>14 DEF Next

\* Jitter alone never makes a day without a prune.
THEOREM NoAlternateDays == Spec => []SlotIsDue
<1>1. SlotInv => SlotIsDue
    BY DEF SlotInv
<1>. QED
    BY BaseInit, BaseNext, SlotInit, SlotNext, <1>1, PTL DEF Spec

-----------------------------------------------------------------------------
(* The gap between two prunes.                                             *)

\* When uv is due again.
Ready == Later(wake, IF NeverPruned THEN 0 ELSE pruned.at + Interval)

\* Until somebody runs to whom it is due, the next slot is near.
SlotAhead ==
    power = "on" /\ ~unpruned /\ ~hung =>
        IF Running /\ MayPrune
        THEN Begun <= Ready + LongestDay + Duration + Jitter
        ELSE slot <= Ready + LongestDay + Duration

LEMMA GapInit == Init => SlotAhead
    BY SizeAssumption, DaysAssumption
       DEF Init, SlotAhead, Ready, Begun, Later, NoRun, Never, Running,
           MayPrune, NeverPruned

LEMMA GapNext == BaseInv /\ SlotAhead /\ [Next]_vars => SlotAhead'
<1> SUFFICES ASSUME BaseInv /\ SlotAhead, [Next]_vars PROVE SlotAhead'
    OBVIOUS
<1>. USE SizeAssumption, DaysAssumption, BoundsAssumption
<1>. USE DEF BaseInv, TypeOK, OnTime, Honest, SlotAhead, Ready,
           counters, scheduler, cleaner, history, Running, MayPrune,
           NeverPruned, Begun, Later, Trigger, Starter, NoRun, Never, OneMore,
           Due, vars
<1>1. ASSUME SlotFires PROVE SlotAhead'
    BY <1>1 DEF SlotFires, Launch, NextSlot
<1>2. ASSUME CatchUpFires PROVE SlotAhead'
    BY <1>2 DEF CatchUpFires, Launch
<1>3. ASSUME StartupFires PROVE SlotAhead'
    BY <1>3 DEF StartupFires, Launch
<1>4. ASSUME UserRuns PROVE SlotAhead'
    BY <1>4 DEF UserRuns, Launch
<1>5. ASSUME Decide PROVE SlotAhead'
    BY <1>5 DEF Decide
<1>6. ASSUME Complete PROVE SlotAhead'
    BY <1>6 DEF Complete, Records, Completer, StillHung
<1>7. ASSUME FailUv PROVE SlotAhead'
    BY <1>7 DEF FailUv, Reported, StillHung
<1>8. ASSUME Die PROVE SlotAhead'
    BY <1>8 DEF Die
<1>9. ASSUME Tick PROVE SlotAhead'
    BY <1>9 DEF Tick, Punctual
<1>10. ASSUME PowerLost PROVE SlotAhead'
    BY <1>10 DEF PowerLost
<1>11. ASSUME SlotMissed PROVE SlotAhead'
    BY <1>11 DEF SlotMissed, NextSlot, CatchesUp, Persistent
<1>12. ASSUME PowerBack PROVE SlotAhead'
    BY <1>12 DEF PowerBack, StartsAtBoot
<1>13. ASSUME Over PROVE SlotAhead'
    BY <1>13 DEF Over, vars
<1>14. ASSUME UNCHANGED vars PROVE SlotAhead'
    BY <1>14
<1>. QED
    BY <1>1, <1>2, <1>3, <1>4, <1>5, <1>6, <1>7, <1>8, <1>9, <1>10, <1>11,
       <1>12, <1>13, <1>14 DEF Next

\* The gap between two prunes is bounded.
THEOREM PrunedDaily == Spec => []GapBounded
<1>1. BaseInv /\ SlotAhead => GapBounded
    BY SizeAssumption
       DEF BaseInv, TypeOK, OnTime, Honest, SlotAhead, GapBounded, Ready,
           Begun, Later, Running, MayPrune, NeverPruned
<1>. QED
    BY BaseInit, BaseNext, GapInit, GapNext, <1>1, PTL DEF Spec

-----------------------------------------------------------------------------
(* What is missed is caught up.                                            *)

\* A slot passed while the machine was away, and will be caught up.
Owed == away = "asleep" \/ (away = "off" /\ kind # "launchd")

\* The run in progress may prune, or it looked at the interval after the wake.
CaughtUp ==
    /\ power # "on" =>
        /\ away \in {"no", power}
        /\ Owed => missed /\ MayPrune
    /\ power = "on" /\ Owed =>
        /\ ~MayPrune => pruned.at + Interval > wake
        /\ ~unpruned =>
            \/ missed
            \/ Running /\ MayPrune /\ Begun <= wake + Jitter
            \/ ~NeverPruned /\ pruned.at + Interval > wake

LEMMA CatchUpInit == Init => CaughtUp
    BY DEF Init, CaughtUp, Owed

LEMMA CatchUpNext == BaseInv /\ CaughtUp /\ [Next]_vars => CaughtUp'
<1> SUFFICES ASSUME BaseInv /\ CaughtUp, [Next]_vars PROVE CaughtUp'
    OBVIOUS
<1>. USE SizeAssumption, DaysAssumption, BoundsAssumption
<1>. USE DEF BaseInv, TypeOK, OnTime, Honest, CaughtUp, Owed,
           counters, scheduler, cleaner, history, Running, MayPrune,
           NeverPruned, Begun, Later, Trigger, Starter, NoRun, Never, OneMore,
           Due, vars
<1>1. ASSUME SlotFires PROVE CaughtUp'
    BY <1>1 DEF SlotFires, Launch, NextSlot
<1>2. ASSUME CatchUpFires PROVE CaughtUp'
    BY <1>2 DEF CatchUpFires, Launch
<1>3. ASSUME StartupFires PROVE CaughtUp'
    BY <1>3 DEF StartupFires, Launch
<1>4. ASSUME UserRuns PROVE CaughtUp'
    BY <1>4 DEF UserRuns, Launch
<1>5. ASSUME Decide PROVE CaughtUp'
    BY <1>5 DEF Decide
<1>6. ASSUME Complete PROVE CaughtUp'
    BY <1>6 DEF Complete, Records, Completer, StillHung
<1>7. ASSUME FailUv PROVE CaughtUp'
    BY <1>7 DEF FailUv, Reported, StillHung
<1>8. ASSUME Die PROVE CaughtUp'
    BY <1>8 DEF Die
<1>9. ASSUME Tick PROVE CaughtUp'
    BY <1>9 DEF Tick, Punctual
<1>10. ASSUME PowerLost PROVE CaughtUp'
    BY <1>10 DEF PowerLost
<1>11. ASSUME SlotMissed PROVE CaughtUp'
    <2>1. power # "on" /\ UNCHANGED <<power, kind, run>>
        BY <1>11 DEF SlotMissed
    <2>2. away' = IF Running /\ ~MayPrune THEN away ELSE power
        BY <1>11 DEF SlotMissed
    <2>3. missed' <=> (missed \/ CatchesUp)
        BY <1>11, Zenon DEF SlotMissed
    <2>4. ~MayPrune => Running
        OBVIOUS
    <2>5. CASE ~MayPrune
        BY <2>1, <2>2, <2>3, <2>4, <2>5
    <2>6. CASE MayPrune
      <3>1. Owed' => CatchesUp
        BY <2>1, <2>2, <2>6 DEF CatchesUp, Persistent
      <3>. QED
        BY <2>1, <2>2, <2>3, <2>6, <3>1
    <2>. QED
        BY <2>5, <2>6
<1>12. ASSUME PowerBack PROVE CaughtUp'
    BY <1>12 DEF PowerBack, StartsAtBoot
<1>13. ASSUME Over PROVE CaughtUp'
    BY <1>13 DEF Over, vars
<1>14. ASSUME UNCHANGED vars PROVE CaughtUp'
    BY <1>14
<1>. QED
    BY <1>1, <1>2, <1>3, <1>4, <1>5, <1>6, <1>7, <1>8, <1>9, <1>10, <1>11,
       <1>12, <1>13, <1>14 DEF Next

\* A machine that was away at its slot is cleaned when it is back.
THEOREM MissedIsCaughtUp == Spec => []CatchUpPrunes
<1>1. BaseInv /\ CaughtUp => CatchUpPrunes
    BY SizeAssumption
       DEF BaseInv, TypeOK, OnTime, Honest, CaughtUp, CatchUpPrunes, Owed,
           Running, MayPrune, NeverPruned, Begun, Later
<1>. QED
    BY BaseInit, BaseNext, CatchUpInit, CatchUpNext, <1>1, PTL DEF Spec

-----------------------------------------------------------------------------
(* An old report.                                                          *)

Fresh == Later(report, wake)
Day1 == Fresh + LongestDay + Duration
Day2 == Day1 + LongestDay

\* As long as nothing hangs and not two scheduled runs are lost the slots are
\* counted: none, or the one whose run is in progress, has passed since the
\* last report.
Scheduled == Running /\ run.by # "user"

SlotsCounted ==
    power = "on" /\ ~hung =>
        /\ lost = 0 =>
            \/ slot <= Day1 /\ (Scheduled => Begun <= Day1 + Jitter)
            \/ /\ Scheduled /\ Begun <= Day1 + Jitter
               /\ slot <= Day2 /\ Begun + Duration < slot
        /\ lost = 1 =>
            IF Scheduled THEN Begun <= Day2 + Jitter ELSE slot <= Day2

LEMMA StaleInit == Init => SlotsCounted
    BY SizeAssumption, DaysAssumption
       DEF Init, SlotsCounted, Day1, Day2, Fresh, Begun, Later, NoRun,
           Running, Scheduled

LEMMA StaleNext == BaseInv /\ SlotsCounted /\ [Next]_vars => SlotsCounted'
<1> SUFFICES ASSUME BaseInv /\ SlotsCounted, [Next]_vars PROVE SlotsCounted'
    OBVIOUS
<1>. USE SizeAssumption, DaysAssumption, BoundsAssumption
<1>. USE DEF BaseInv, TypeOK, OnTime, Honest, SlotsCounted, Day1, Day2,
           Fresh, Scheduled,
           counters, scheduler, cleaner, history, Running, MayPrune,
           NeverPruned, Begun, Later, Trigger, Starter, NoRun, Never, OneMore,
           Due, vars
<1>1. ASSUME SlotFires PROVE SlotsCounted'
    BY <1>1 DEF SlotFires, Launch, NextSlot
<1>2. ASSUME CatchUpFires PROVE SlotsCounted'
    BY <1>2 DEF CatchUpFires, Launch
<1>3. ASSUME StartupFires PROVE SlotsCounted'
    BY <1>3 DEF StartupFires, Launch
<1>4. ASSUME UserRuns PROVE SlotsCounted'
    BY <1>4 DEF UserRuns, Launch
<1>5. ASSUME Decide PROVE SlotsCounted'
    BY <1>5 DEF Decide
<1>6. ASSUME Complete PROVE SlotsCounted'
    BY <1>6 DEF Complete, Records, Completer, StillHung
<1>7. ASSUME FailUv PROVE SlotsCounted'
    BY <1>7 DEF FailUv, Reported, StillHung
<1>8. ASSUME Die PROVE SlotsCounted'
    BY <1>8 DEF Die
<1>9. ASSUME Tick PROVE SlotsCounted'
    BY <1>9 DEF Tick, Punctual
<1>10. ASSUME PowerLost PROVE SlotsCounted'
    BY <1>10 DEF PowerLost
<1>11. ASSUME SlotMissed PROVE SlotsCounted'
    BY <1>11 DEF SlotMissed, NextSlot, CatchesUp, Persistent
<1>12. ASSUME PowerBack PROVE SlotsCounted'
    BY <1>12 DEF PowerBack, StartsAtBoot
<1>13. ASSUME Over PROVE SlotsCounted'
    BY <1>13 DEF Over, vars
<1>14. ASSUME UNCHANGED vars PROVE SlotsCounted'
    BY <1>14
<1>. QED
    BY <1>1, <1>2, <1>3, <1>4, <1>5, <1>6, <1>7, <1>8, <1>9, <1>10, <1>11,
       <1>12, <1>13, <1>14 DEF Next

\* doctor does not call a report stale on account of one lost run.
THEOREM StaleIsEarned == Spec => []StaleMeansLost
<1>1. BaseInv /\ SlotsCounted => StaleMeansLost
    BY SizeAssumption, DaysAssumption
       DEF BaseInv, TypeOK, OnTime, SlotsCounted, StaleMeansLost, Day1, Day2,
           Fresh, Begun, Later, Running, Scheduled
<1>. QED
    BY BaseInit, BaseNext, StaleInit, StaleNext, <1>1, PTL DEF Spec

=============================================================================
