------------------------------ MODULE Schedule ------------------------------
(***************************************************************************)
(* The daily job through days and nights: what systemd, the Task Scheduler *)
(* or launchd start by the units the installers write, the run lock that   *)
(* refuses a second run, the interval below which uv is not due, and what  *)
(* the dates in ledger and report say afterwards.  A run here is its       *)
(* begin, the moment it looks at the interval, and its end; CleanerRuns    *)
(* has the rest.  It may sleep with the machine in between, and hang,      *)
(* unless a scheduler limits it.  The wall clock is not set back.          *)
(***************************************************************************)
EXTENDS Naturals

CONSTANTS
    Kinds,          \* schedulers: some of "systemd", "task", "launchd"
    DayLengths,     \* from one slot to the next: 23, 24 or 25 hours
    LongestDay,     \* the longest of them
    Jitter,         \* how late the scheduler may be
    Startup,        \* OnStartupSec
    Duration,       \* the time limit of the service or task, which launchd
                    \* and a run by hand have not
    Interval,       \* [native_gc].interval_hours
    StaleAge,       \* 72 hours
    MaxTime,        \* bound: the last hour
    MaxManual,      \* bound: runs by hand
    MaxOutages,     \* bound: times without power
    MaxFailures     \* bound: runs that do not do all of their work

ASSUME KindsAssumption == Kinds \subseteq {"systemd", "task", "launchd"}
ASSUME SizeAssumption ==
    /\ Jitter \in Nat /\ Startup \in Nat /\ Duration \in Nat
    /\ Interval \in Nat \ {0} /\ StaleAge \in Nat
    /\ LongestDay \in Nat
    /\ DayLengths \subseteq 1..LongestDay
\* Interval: the 20 hours fit into the shortest day.  StaleAge: 72 hours are
\* two of the longest, and what late and slow runs add.
ASSUME DaysAssumption ==
    /\ \A d \in DayLengths : Interval + Jitter + Duration <= d
    /\ 2 * LongestDay + Jitter + 2 * Duration <= StaleAge
ASSUME BoundsAssumption ==
    /\ MaxTime \in Nat /\ MaxManual \in Nat
    /\ MaxOutages \in Nat /\ MaxFailures \in Nat

VARIABLES
    now, manual, outages, failures,
    \* The scheduler.
    kind,           \* which one it is
    power,          \* "on", "asleep" or "off"
    slot,           \* when the next daily slot is
    missed,         \* a slot that was missed has to be caught up
    startup,        \* the trigger after the start of the user manager is pending
    \* The cleaner.
    run,            \* the run in progress: who started it, when, and if uv is due
    pruned,         \* the completion in the ledger, and if it was a slot's
    report,         \* started_unix of the last report
    \* History, read by the properties only.
    wake,           \* when the machine was last switched on
    away,           \* what it was when a slot passed before that
    unpruned,       \* since then a run recorded nothing, and uv may have been due
    hung,           \* since then, or a report in time, a run exceeded Duration
    lost,           \* scheduled runs killed or refused since wake or report
    skipped,        \* a slot found uv not due on account of a slot
    cleaned         \* when uv last completed a prune

scheduler == <<kind, power, slot, missed, startup>>
cleaner   == <<run, pruned, report>>
counters  == <<manual, outages, failures>>
history   == <<wake, away, unpruned, hung, lost, skipped, cleaned>>
vars == <<now, counters, scheduler, cleaner, history>>

Trigger == {"slot", "catch-up", "startup"}
Starter == Trigger \cup {"user"}

NoRun == [by |-> "nobody", since |-> 0, uv |-> "unasked"]
Never == [by |-> "nobody", at |-> 0]

Running == run.by # "nobody"
MayPrune == run.uv # "not-due"
NeverPruned == pruned.by = "nobody"

Later(a, b) == IF a < b THEN b ELSE a

\* Since when the run in progress has not slept.
Begun == Later(run.since, wake)

\* Two losses are as many as any.
OneMore(n) == IF n < 2 THEN n + 1 ELSE n

-----------------------------------------------------------------------------
(* What the units say, and the ledger.                                     *)

\* Persistent=true, StartWhenAvailable.
NotPersistent == FALSE                  \* mutant: neither of the two
Persistent == kind \in {"systemd", "task"}

\* launchd, too, starts what it slept through.
CatchesUp == power = "asleep" \/ Persistent

\* OnStartupSec; launchd's RunAtLoad is false.
StartsAtBoot == kind = "systemd"

\* Ledger::due.
MoreThanInterval ==                     \* mutant: > for >=
    NeverPruned \/ now - pruned.at > Interval
Due == NeverPruned \/ now - pruned.at >= Interval

Init ==
    /\ now = 0 /\ manual = 0 /\ outages = 0 /\ failures = 0
    /\ kind \in Kinds
    /\ power = "on"
    /\ slot \in DayLengths
    /\ missed = FALSE
    /\ startup = FALSE
    /\ run = NoRun
    /\ pruned = Never
    /\ report = 0
    /\ wake = 0
    /\ away = "no"
    /\ unpruned = FALSE
    /\ hung = FALSE
    /\ lost = 0
    /\ skipped = FALSE
    /\ cleaned = 0

-----------------------------------------------------------------------------
(* Starting and ending a run.                                              *)

\* A second start of the same unit is none (IgnoreNew); a run by hand holds
\* the lock, and the scheduled one ends without a report.
Launch(by) ==
    \/ /\ ~Running
       /\ run' = [by |-> by, since |-> now, uv |-> "unasked"]
       /\ UNCHANGED lost
    \/ /\ Running /\ run.by # "user"
       /\ UNCHANGED <<run, lost>>
    \/ /\ run.by = "user" /\ by # "user"
       /\ lost' = OneMore(lost)
       /\ UNCHANGED run

\* The next slot is a day later, and not before the scheduler is done with
\* this one.
NextSlot == \E d \in DayLengths : slot' = slot + d

SlotFires ==
    /\ power = "on" /\ slot <= now
    /\ Launch("slot")
    /\ NextSlot
    /\ UNCHANGED <<now, counters, kind, power, missed, startup, pruned, report,
                   wake, away, unpruned, hung, skipped, cleaned>>

CatchUpFires ==
    /\ power = "on" /\ missed
    /\ Launch("catch-up")
    /\ missed' = FALSE
    /\ UNCHANGED <<now, counters, kind, power, slot, startup, pruned, report,
                   wake, away, unpruned, hung, skipped, cleaned>>

StartupFires ==
    /\ power = "on" /\ startup /\ wake + Startup <= now
    /\ Launch("startup")
    /\ startup' = FALSE
    /\ UNCHANGED <<now, counters, kind, power, slot, missed, pruned, report,
                   wake, away, unpruned, hung, skipped, cleaned>>

UserRuns ==
    /\ power = "on" /\ ~Running
    /\ manual < MaxManual /\ manual' = manual + 1
    /\ Launch("user")
    /\ UNCHANGED <<now, outages, failures, scheduler, pruned, report, wake,
                   away,
                   unpruned, hung, skipped, cleaned>>

\* After the project inventory the run looks at the interval.
Decide ==
    /\ power = "on" /\ Running /\ run.uv = "unasked"
    /\ run' = [run EXCEPT !.uv = IF Due THEN "due" ELSE "not-due"]
    /\ skipped' = (skipped \/ (run.by = "slot" /\ ~Due /\ pruned.by = "slot"))
    /\ UNCHANGED <<now, counters, scheduler, pruned, report, wake, away,
                   unpruned, hung, lost, cleaned>>

\* The run does what it has to do.  A prune is recorded, and nothing else is;
\* a report is saved, due or not.
EveryRun == TRUE                        \* mutant: not-due is taken for success
Records == run.uv = "due"

\* A slot's run that slept or hung is not one that was done at its slot.
Completer ==
    IF run.by = "slot" /\ now <= run.since + Duration THEN "slot" ELSE "other"

\* A report within the limit says that nothing hangs.
StillHung == hung /\ now > Begun + Duration

Complete ==
    /\ power = "on" /\ Running /\ run.uv # "unasked"
    /\ run' = NoRun
    /\ pruned' = IF Records THEN [by |-> Completer, at |-> now] ELSE pruned
    /\ cleaned' = IF run.uv = "due" THEN now ELSE cleaned
    /\ unpruned' = (unpruned /\ run.uv # "due")
    /\ report' = run.since
    /\ hung' = StillHung
    /\ lost' = 0
    /\ UNCHANGED <<now, counters, scheduler, wake, away, skipped>>

\* uv fails, asked for its cache or pruning it, and the report says so ...
NoReport == report                      \* mutant: an error before the save
Reported == run.since

FailUv ==
    /\ power = "on" /\ Running /\ MayPrune
    /\ failures < MaxFailures /\ failures' = failures + 1
    /\ run' = NoRun
    /\ unpruned' = TRUE
    /\ report' = Reported
    /\ hung' = StillHung
    /\ lost' = 0
    /\ UNCHANGED <<now, manual, outages, scheduler, pruned, wake, away, skipped,
                   cleaned>>

\* ... or the run is killed, or cannot save.
Die ==
    /\ power = "on" /\ Running
    /\ failures < MaxFailures /\ failures' = failures + 1
    /\ run' = NoRun
    /\ unpruned' = (unpruned \/ MayPrune)
    /\ lost' = IF run.by = "user" THEN lost ELSE OneMore(lost)
    /\ UNCHANGED <<now, manual, outages, scheduler, pruned, report, wake, away,
                   hung, skipped, cleaned>>

-----------------------------------------------------------------------------
(* Time and power.                                                         *)

\* TimeoutStartSec, ExecutionTimeLimit: what these two schedulers start ends.
\* The plist has no limit, a run by hand none, and neither has the git that
\* the inventory waits for (scan.rs 160-166).
Limited == kind \in {"systemd", "task"} /\ run.by # "user"

\* Nobody is later than he may be.
Punctual ==
    /\ power = "on" =>
        /\ now < slot + Jitter
        /\ missed => now < wake + Jitter
        /\ startup => now < wake + Startup + Jitter
        /\ Running /\ Limited => now < Begun + Duration
    /\ power # "on" => now < slot

Tick ==
    /\ now < MaxTime
    /\ Punctual
    /\ now' = now + 1
    /\ hung' = (hung \/ (power = "on" /\ Running /\ now' > Begun + Duration))
    /\ UNCHANGED <<counters, scheduler, cleaner, wake, away, unpruned, lost,
                   skipped, cleaned>>

\* Nothing keeps the machine awake: a run in progress sleeps with it, and ends
\* when it is switched off.
PowerLost ==
    /\ power = "on"
    /\ outages < MaxOutages /\ outages' = outages + 1
    /\ \/ power' = "asleep" /\ UNCHANGED <<startup, missed, run>>
       \/ /\ power' = "off" /\ startup' = FALSE
          /\ missed' = (missed /\ Persistent)
          /\ run' = NoRun
    /\ away' = "no"
    /\ UNCHANGED <<now, manual, failures, kind, slot, pruned, report, wake,
                   unpruned, hung, lost, skipped, cleaned>>

\* A catch-up that meets the sleeping run is none: a run that found uv not due
\* before it fell asleep is not counted as being away.
SlotMissed ==
    /\ power # "on" /\ slot <= now
    /\ NextSlot
    /\ missed' = (missed \/ CatchesUp)
    /\ away' = IF Running /\ ~MayPrune THEN away ELSE power
    /\ UNCHANGED <<now, counters, kind, power, startup, cleaner, wake, unpruned,
                   hung, lost, skipped, cleaned>>

PowerBack ==
    /\ power # "on" /\ now < slot
    /\ power' = "on"
    /\ startup' = (startup \/ (power = "off" /\ StartsAtBoot))
    /\ wake' = now
    /\ unpruned' = FALSE
    /\ hung' = FALSE
    /\ lost' = 0
    /\ UNCHANGED <<now, counters, kind, slot, missed, cleaner, away, skipped,
                   cleaned>>

\* The model's time is over.
Over == now = MaxTime /\ UNCHANGED vars

Next ==
    \/ SlotFires \/ CatchUpFires \/ StartupFires \/ UserRuns
    \/ Decide \/ Complete \/ FailUv \/ Die
    \/ Tick \/ PowerLost \/ SlotMissed \/ PowerBack
    \/ Over

Spec == Init /\ [][Next]_vars

-----------------------------------------------------------------------------
(* Properties.                                                             *)

TypeOK ==
    /\ now \in Nat /\ manual \in Nat /\ outages \in Nat /\ failures \in Nat
    /\ kind \in {"systemd", "task", "launchd"}
    /\ power \in {"on", "asleep", "off"}
    /\ slot \in Nat
    /\ missed \in BOOLEAN
    /\ startup \in BOOLEAN
    /\ run \in [by : Starter \cup {"nobody"}, since : Nat,
                uv : {"unasked", "due", "not-due"}]
    /\ pruned \in [by : {"nobody", "slot", "other"}, at : Nat]
    /\ report \in Nat
    /\ wake \in Nat
    /\ away \in {"no", "asleep", "off"}
    /\ unpruned \in BOOLEAN
    /\ hung \in BOOLEAN
    /\ lost \in 0..2
    /\ skipped \in BOOLEAN
    /\ cleaned \in Nat

\* docs/quality.md 102, "The 20-hour default avoids alternate-day skips caused
\* by daily scheduler jitter": a slot finds uv not due only because somebody
\* else than a slot pruned last, or a slot whose run slept or hung before it
\* completed.  Late starts and slow runs within the limit are never the cause.
SlotIsDue == ~skipped

\* README.md 27-31: while the machine is on, no prune fails and no run without
\* a limit hangs, one is completed within a day, and what late and slow runs
\* add, from when it was due.  Skipped slots, runs that slept, runs by hand and
\* refused runs do not add up.
GapBounded ==
    power = "on" /\ ~unpruned /\ ~hung =>
        now <= Later(wake, IF NeverPruned THEN 0 ELSE cleaned + Interval)
                 + LongestDay + Jitter + 2 * Duration

\* README.md 118-119, "persistent catch-up", "missed-run catch-up": a machine
\* that was off or asleep at its slot is cleaned soon after it is back, unless
\* it was not due then, or the run that catches up, or one by hand that keeps
\* it from starting, hangs.
CatchUpPrunes ==
    (/\ power = "on" /\ ~unpruned /\ ~hung
     /\ away = "asleep" \/ (away = "off" /\ kind # "launchd")
     /\ now > wake + Jitter + Duration)
        => ~NeverPruned /\ cleaned + Interval > wake

\* doctor.rs 132-136, "last actual run is older than 72 hours": on a machine
\* that was on all the time it means that more than one scheduled run was
\* killed or refused, or that one hung that nothing limits; failures, skips
\* and days of 25 hours do not make it.
StaleMeansLost ==
    power = "on" /\ now > Later(report, wake) + StaleAge => lost = 2 \/ hung

=============================================================================
