------------------------------- MODULE Doctor -------------------------------
(***************************************************************************)
(* doctor::inspect beside the runs it diagnoses.  It takes the time, asks  *)
(* the platform's scheduler about the job, reads the ledger and the last   *)
(* report, and asks APT, one after the other and without the run lock, so  *)
(* a run may begin, save or end between any two of them.  A run here is    *)
(* what doctor can see of one; CleanerRuns has the rest.                   *)
(***************************************************************************)
EXTENDS Naturals

CONSTANTS
    Kinds,          \* schedulers: some of "systemd", "task", "launchd"
    MaxAge,         \* 72 hours, in ticks of the clock
    MaxAptAge,      \* the APT interval and two days
    MaxClock,       \* bound: last reading of the wall clock
    MaxRuns,        \* bound: runs
    MaxUpsets       \* bound: the clock is set back, somebody else edits, or
                    \* the session ends

ASSUME KindsAssumption == Kinds \subseteq {"systemd", "task", "launchd"}
ASSUME AgeAssumption == MaxAge \in Nat /\ MaxAptAge \in Nat
ASSUME BoundsAssumption ==
    /\ MaxClock \in Nat
    /\ MaxRuns \in Nat
    /\ MaxUpsets \in Nat

VARIABLES
    clock, rollbacks, edits, restarts, runs,
    kind,           \* which scheduler it is
    timer,          \* what it says of the timer, trigger or agent
    service,        \* and of the job
    apt,            \* the APT policy
    stamp,          \* when autoclean last succeeded
    ledger,         \* maintenance.json: "sound" or "bad"
    report,         \* last-run.json
    run,            \* the run in progress: where it is, who started it, when
    \* doctor
    pc, now, looked, checks,
    \* History, read by the properties only.
    told,           \* what each report that was saved told
    cleaned,        \* when autoclean succeeded
    last,           \* how the last run ended
    calm            \* no run was there, and nothing was edited, since doctor began

state == <<ledger, report>>
doctor == <<pc, now, looked, checks>>
upsets == <<rollbacks, edits, restarts>>
scheduler == <<kind, timer, service>>
native == <<apt, stamp>>
vars == <<clock, upsets, runs, scheduler, native, state, run, doctor, told,
          cleaned, last, calm>>

\* "good": enabled, for the installed cleaner, with a next run; "wrong": not so;
\* "unset": an agent of launchd's that is only without a calendar trigger.
Timer == {"good", "wrong", "unset"}
Timers(k) == IF k = "launchd" THEN Timer ELSE {"good", "wrong"}

\* "missing": or not loaded; "idle": no exit recorded.
Service == {"missing", "idle", "activating", "success", "failure"}

\* "wanting": off, unreadable, or not known to keep the archives of installed
\* packages.
Apt == {"none", "wanting", "configured"}

NoStamp == MaxClock + 1

NoReport == [kind |-> "absent", started |-> 0, failed |-> FALSE]

\* "preview" can only be somebody else's work, as "bad" is.
Report == [kind : {"absent", "actual", "preview", "bad"},
           started : 0..MaxClock, failed : BOOLEAN]

NoRun == [at |-> "none", scheduled |-> FALSE, started |-> 0]

Verdict == {"ok", "warning", "error", "info", "future", "unasked"}

Check == {"schedule", "calendar", "job", "ledger", "last-run", "apt", "stamp"}

-----------------------------------------------------------------------------
(* The classifications.                                                    *)

\* A running job says nothing of its result.
LoadedIsEnough ==                       \* mutant: the result is not asked
    [schedule |-> IF timer = "good" THEN "ok" ELSE "error",
     job |-> CASE service = "missing" -> "error"
               [] service = "activating" -> "info"
               [] OTHER -> "ok"]
SystemdSnapshot ==
    [schedule |-> IF timer = "good" THEN "ok" ELSE "error",
     job |-> CASE service \in {"missing", "failure"} -> "error"
               [] service = "activating" -> "info"
               [] service = "idle" -> "warning"
               [] OTHER -> "ok"]

TaskSnapshot ==
    [schedule |-> IF timer = "good" THEN "ok" ELSE "error",
     job |-> CASE service = "activating" -> "info"
               [] service = "idle" -> "warning"
               [] service = "success" -> "ok"
               [] OTHER -> "error"]

\* What launchd prints has no next run, but has the triggers.
LaunchdSnapshot ==
    [schedule |-> IF timer = "wrong" THEN "error" ELSE "ok",
     calendar |-> IF timer = "unset" THEN "warning" ELSE "ok",
     job |-> CASE service = "activating" -> "info"
               [] service = "success" -> "ok"
               [] service = "idle" -> "warning"
               [] OTHER -> "error"]

Snapshot ==
    CASE kind = "systemd" -> SystemdSnapshot
      [] kind = "task" -> TaskSnapshot
      [] kind = "launchd" -> LaunchdSnapshot

LedgerCheck == IF ledger = "sound" THEN "ok" ELSE "error"

\* apt_policy.
AptCheck ==
    CASE apt = "none" -> "unasked"
      [] apt = "configured" -> "ok"
      [] OTHER -> "warning"

\* autoclean_stamp: the age counts only if the interval is known.
StampCheck(known) ==
    IF stamp = NoStamp THEN "info"
    ELSE IF stamp > clock \/ (known /\ clock - stamp > MaxAptAge) THEN "warning"
    ELSE "ok"

\* last_run, and read_status before it.
AgeOnly ==                              \* mutant: a recent report is a good one
    IF report.kind = "absent" THEN "warning"
    ELSE IF report.kind # "actual" THEN "error"
    ELSE IF now < report.started THEN "future"
    ELSE IF now - report.started > MaxAge THEN "warning"
    ELSE "ok"
LastRunCheck ==
    IF report.kind = "absent" THEN "warning"
    ELSE IF report.kind # "actual" \/ report.failed THEN "error"
    ELSE IF now < report.started THEN "future"
    ELSE IF now - report.started > MaxAge THEN "warning"
    ELSE "ok"

-----------------------------------------------------------------------------
Init ==
    /\ clock = 0
    /\ rollbacks = 0 /\ edits = 0 /\ restarts = 0
    /\ runs = 0
    /\ kind \in Kinds
    /\ timer \in Timers(kind)
    /\ service \in {"missing", "idle"}
    /\ apt \in IF kind = "systemd" THEN Apt ELSE {"none"}
    /\ stamp = NoStamp
    /\ ledger = "sound"
    /\ report = NoReport
    /\ run = NoRun
    /\ pc = "asleep"
    /\ now = 0
    /\ looked = 0
    /\ checks = [c \in Check |-> "unasked"]
    /\ told = {}
    /\ cleaned = {}
    /\ last = "none"
    /\ calm = TRUE

-----------------------------------------------------------------------------
(* doctor::inspect.                                                        *)

Ask(c, verdict) == checks' = [checks EXCEPT ![c] = verdict]

Goto(l) == pc' = l

Beside == UNCHANGED <<clock, upsets, runs, scheduler, native, state, run, told,
                      cleaned, last>>

Begin ==
    /\ pc = "asleep"
    /\ now' = clock
    /\ Goto("scheduler")
    /\ calm' = (run = NoRun)
    /\ UNCHANGED <<looked, checks>>
    /\ Beside

\* launchctl and Get-ScheduledTask fail for a job that is not registered.
Answers == kind = "systemd" \/ service # "missing"

\* The scheduler answers, or does not: one warning instead of its checks.
AskScheduler ==
    /\ pc = "scheduler"
    /\ \/ /\ Answers
          /\ checks' = [c \in Check |-> IF c \in DOMAIN Snapshot THEN Snapshot[c]
                                        ELSE checks[c]]
       \/ Ask("schedule", "warning")
    /\ Goto("ledger")
    /\ UNCHANGED <<now, looked, calm>> /\ Beside

AskLedger ==
    /\ pc = "ledger"
    /\ Ask("ledger", LedgerCheck)
    /\ Goto("report")
    /\ UNCHANGED <<now, looked, calm>> /\ Beside

AskReport ==
    /\ pc = "report"
    /\ Ask("last-run", LastRunCheck)
    /\ Goto(IF apt = "none" THEN "told" ELSE "apt")
    /\ UNCHANGED <<now, looked, calm>> /\ Beside

\* apt-config answers, or does not ...
AskApt ==
    /\ pc = "apt"
    /\ \E verdict \in {AptCheck, "warning"} : Ask("apt", verdict)
    /\ Goto("stamp")
    /\ UNCHANGED <<now, looked, calm>> /\ Beside

\* ... and the stamp is looked at later, at a time of its own.
IntervalKnown == checks["apt"] = "ok"

AskStamp ==
    /\ pc = "stamp"
    /\ Ask("stamp", StampCheck(IntervalKnown))
    /\ looked' = clock
    /\ Goto("told")
    /\ UNCHANGED <<now, calm>> /\ Beside

\* The report is printed, and some day doctor is called again.
Tell ==
    /\ pc = "told"
    /\ Goto("asleep")
    /\ now' = 0 /\ looked' = 0
    /\ checks' = [c \in Check |-> "unasked"]
    /\ calm' = TRUE
    /\ Beside

-----------------------------------------------------------------------------
(* A run, as doctor can see it.                                            *)

\* Started by the scheduler, or by hand.
StartRun ==
    /\ run = NoRun
    /\ runs < MaxRuns
    /\ runs' = runs + 1
    /\ \E scheduled \in BOOLEAN :
        /\ scheduled => service # "missing"
        /\ run' = [at |-> "work", scheduled |-> scheduled, started |-> clock]
        /\ service' = IF scheduled THEN "activating" ELSE service
    /\ calm' = FALSE
    /\ UNCHANGED <<clock, upsets, kind, timer, native, state, doctor, told,
                   cleaned, last>>

\* The service is started beside a manual run, and refused the lock.
RefuseRun ==
    /\ run # NoRun /\ ~run.scheduled
    /\ service # "missing"
    /\ runs < MaxRuns
    /\ runs' = runs + 1
    /\ service' = "failure"
    /\ calm' = FALSE
    /\ UNCHANGED <<clock, upsets, kind, timer, native, state, run, doctor, told,
                   cleaned, last>>

\* The report is replaced: it says whether anything failed.  Until then the
\* old one is there.
TornFirst == "bad"                      \* mutant: written in place
UntilSaved == report.kind

SaveReport ==
    /\ run.at = "work"
    /\ run' = [run EXCEPT !.at = "writing"]
    /\ report' = [report EXCEPT !.kind = UntilSaved]
    /\ calm' = FALSE
    /\ UNCHANGED <<clock, upsets, runs, scheduler, native, ledger, doctor, told,
                   cleaned, last>>

PublishReport ==
    /\ run.at = "writing"
    /\ \E failed \in BOOLEAN :
        /\ report' = [kind |-> "actual", started |-> run.started, failed |-> failed]
        /\ run' = [run EXCEPT !.at = IF failed THEN "failed" ELSE "saved"]
        /\ told' = told \cup {[started |-> run.started, failed |-> failed]}
    /\ calm' = FALSE
    /\ UNCHANGED <<clock, upsets, runs, scheduler, native, ledger, doctor,
                   cleaned, last>>

\* What a bad end leaves behind: a failed report, the scheduler's result, or
\* no trace.
BadEnd(forgotten) ==
    IF run.at = "failed" THEN "reported"
    ELSE IF run.scheduled /\ ~forgotten THEN "service"
    ELSE "unseen"

\* The exit status: 0 only if the report was saved, has no failure, and could
\* be printed.  A run that ends before it saved leaves an earlier report; one
\* that is killed has no exit code in what launchd prints.
EndRun ==
    /\ run # NoRun
    /\ \/ /\ run.at = "saved"
          /\ last' = "good"
          /\ service' = IF run.scheduled THEN "success" ELSE service
       \/ /\ last' = BadEnd(FALSE)
          /\ service' = IF run.scheduled THEN "failure" ELSE service
       \/ /\ kind = "launchd" /\ run.scheduled
          /\ last' = BadEnd(TRUE)
          /\ service' = "idle"
    /\ run' = NoRun
    /\ calm' = FALSE
    /\ UNCHANGED <<clock, upsets, runs, kind, timer, native, state, doctor,
                   told,
                   cleaned>>

\* apt.systemd.daily autocleans, and touches the stamp.
Autoclean ==
    /\ apt = "configured"
    /\ runs < MaxRuns
    /\ runs' = runs + 1
    /\ stamp' = clock
    /\ cleaned' = cleaned \cup {clock}
    /\ UNCHANGED <<clock, upsets, scheduler, apt, state, run, doctor, told,
                   last,
                   calm>>

-----------------------------------------------------------------------------
(* The environment.                                                        *)

Tick ==
    /\ clock < MaxClock
    /\ clock' = clock + 1
    /\ UNCHANGED <<upsets, runs, scheduler, native, state, run, doctor, told,
                   cleaned, last, calm>>

Upset == rollbacks + edits + restarts < MaxUpsets

SetClockBack ==
    /\ Upset
    /\ rollbacks' = rollbacks + 1
    /\ \E t \in 0..MaxClock : t < clock /\ clock' = t
    /\ UNCHANGED <<edits, restarts, runs, scheduler, native, state, run, doctor,
                   told, cleaned, last, calm>>

\* The session ends in order, a run and doctor with it.  systemd and launchd
\* forget how the job ended; to the Task Scheduler one that was cut short has
\* not succeeded.
Restart ==
    /\ Upset
    /\ restarts' = restarts + 1
    /\ service' = CASE kind # "task" /\ service # "missing" -> "idle"
                     [] kind = "task" /\ service = "activating" -> "failure"
                     [] OTHER -> service
    /\ last' = IF run # NoRun THEN BadEnd(kind # "task")
               ELSE IF last = "service" /\ kind # "task" THEN "unseen"
               ELSE last
    /\ run' = NoRun
    /\ pc' = "asleep" /\ now' = 0 /\ looked' = 0
    /\ checks' = [c \in Check |-> "unasked"]
    /\ calm' = TRUE
    /\ UNCHANGED <<clock, rollbacks, edits, runs, kind, timer, native, state,
                   told, cleaned>>

\* Somebody else damages or removes a state file.
Edit ==
    /\ Upset
    /\ edits' = edits + 1
    /\ \/ ledger' = "bad" /\ UNCHANGED report
       \/ /\ \E k \in {"absent", "bad", "preview"} : report' = [report EXCEPT !.kind = k]
          /\ UNCHANGED ledger
    /\ calm' = FALSE
    /\ UNCHANGED <<clock, rollbacks, restarts, runs, scheduler, native, run,
                   doctor, told, cleaned, last>>

\* Another timer or none, another APT policy.
Reconfigure ==
    /\ Upset
    /\ edits' = edits + 1
    /\ run = NoRun
    /\ timer' \in Timers(kind)
    /\ service' \in {"missing", "idle"}
    /\ apt' \in IF kind = "systemd" THEN Apt ELSE {"none"}
    /\ calm' = FALSE
    /\ UNCHANGED <<clock, rollbacks, restarts, runs, kind, stamp, state, run,
                   doctor, told, cleaned, last>>

Next ==
    \/ Begin \/ AskScheduler \/ AskLedger \/ AskReport \/ AskApt \/ AskStamp \/ Tell
    \/ StartRun \/ RefuseRun \/ SaveReport \/ PublishReport \/ EndRun \/ Autoclean
    \/ Tick \/ SetClockBack \/ Restart \/ Edit \/ Reconfigure

Spec == Init /\ [][Next]_vars

-----------------------------------------------------------------------------
(* Properties.                                                             *)

\* Every variable has its type; a check has a verdict only after it was made,
\* and no run leaves a report that cannot be read.
TypeOK ==
    /\ clock \in 0..MaxClock /\ runs \in 0..MaxRuns
    /\ {rollbacks, edits, restarts} \subseteq 0..MaxUpsets
    /\ kind \in Kinds /\ timer \in Timer /\ service \in Service
    /\ apt \in Apt /\ stamp \in 0..NoStamp
    /\ ledger \in {"sound", "bad"} /\ report \in Report
    /\ report.kind \in {"bad", "preview"} => edits > 0
    /\ run \in [at : {"none", "work", "writing", "saved", "failed"},
                scheduled : BOOLEAN, started : 0..MaxClock]
    /\ pc \in {"asleep", "scheduler", "ledger", "report", "apt", "stamp", "told"}
    /\ now \in 0..MaxClock /\ looked \in 0..MaxClock
    /\ checks \in [Check -> Verdict]
    /\ pc \in {"asleep", "scheduler"} => \A c \in Check : checks[c] = "unasked"
    /\ told \subseteq [started : 0..MaxClock, failed : BOOLEAN]
    /\ cleaned \subseteq 0..MaxClock
    /\ last \in {"none", "good", "reported", "service", "unseen"}
    /\ calm \in BOOLEAN

\* `doctor` exits 0.
NoErrors == \A c \in Check : checks[c] # "error"

\* doctor.rs 109-145, "failed, stale, future and preview reports do not become
\* healthy", and linux_policy.rs 206, "configuration, not evidence that cleanup
\* ran": an ok of the last run rests on an actual run without failures that
\* started at most MaxAge before doctor took the time, one of APT's policy and
\* stamp together on an autoclean that recent.
OkIsEvidence ==
    /\ checks["last-run"] = "ok" =>
        \E t \in told : ~t.failed /\ t.started <= now /\ now - t.started <= MaxAge
    /\ checks["apt"] = "ok" /\ checks["stamp"] = "ok" =>
        \E t \in cleaned : t <= looked /\ looked - t <= MaxAptAge

\* README.md 138-146: the last run failed, and no run was there while doctor
\* looked: it says so, if the run got as far as its report or was the
\* scheduler's, and that answers for it and still knows.  (An aborted manual
\* run leaves no trace.)
FailureIsSeen ==
    (pc = "told" /\ calm /\ edits = 0) =>
        /\ last = "reported" => ~NoErrors
        /\ last = "service" /\ checks["job"] # "unasked" => ~NoErrors

\* report.rs replace_private, doctor.rs 70-93, 130: reading beside a run gives
\* no false alarm.  Without edits an error about ledger or report is a failure
\* that a run reported, and a report from the future means that the clock was
\* set back, or a run began after doctor took the time.
NoFalseAlarm ==
    /\ edits = 0 =>
        /\ checks["ledger"] # "error"
        /\ checks["last-run"] = "error" => \E t \in told : t.failed
    /\ checks["last-run"] = "future" /\ calm => rollbacks > 0

=============================================================================
