--------------------------- MODULE ObserverProofs ---------------------------
(***************************************************************************)
(* The two parts of the cleaner that only look: the doctor and the project *)
(* inventory.  What they tell is so.                                       *)
(*                                                                         *)
(* The first half is about Doctor, for any ages, any number of runs, and   *)
(* any number of edits, restarts and changes of the clock; the second half *)
(* about ProjectScan, for any finite tree, any roots in it and any ages.   *)
(***************************************************************************)
EXTENDS Doctor, ProjectScan, FiniteSetTheorems, TLAPS

-----------------------------------------------------------------------------
(* Doctor.                                                                 *)

Schedulers == {"systemd", "task", "launchd"}

\* What the schedulers' snapshots may say.
LEMMA SnapshotFacts ==
    ASSUME kind \in Schedulers, service \in Service
    PROVE  /\ DOMAIN Snapshot \subseteq {"schedule", "calendar", "job"}
           /\ \A c \in DOMAIN Snapshot : Snapshot[c] \in Verdict
           /\ service = "failure" => Snapshot["job"] = "error"
           /\ "job" \in DOMAIN Snapshot
<1>. USE DEF Service, Verdict, Schedulers
<1>1. CASE kind = "systemd"
  <2>1. Snapshot = SystemdSnapshot
    BY <1>1 DEF Snapshot
  <2>. QED
    BY <2>1 DEF SystemdSnapshot
<1>2. CASE kind = "task"
  <2>1. Snapshot = TaskSnapshot
    BY <1>2 DEF Snapshot
  <2>. QED
    BY <2>1 DEF TaskSnapshot
<1>3. CASE kind = "launchd"
  <2>1. Snapshot = LaunchdSnapshot
    BY <1>3 DEF Snapshot
  <2>. QED
    BY <2>1 DEF LaunchdSnapshot
<1>. QED
    BY <1>1, <1>2, <1>3

\* What AskScheduler writes down.
LEMMA SchedulerAsked ==
    ASSUME TypeOK, AskScheduler
    PROVE  /\ checks' \in [Check -> Verdict]
           /\ \A c \in {"ledger", "last-run", "apt", "stamp"} : checks'[c] = "unasked"
           /\ checks'["job"] = "unasked" \/ (service = "failure" => checks'["job"] = "error")
<1>. USE DEF TypeOK, Check
<1>1. kind \in Schedulers
    BY KindsAssumption DEF Schedulers
<1>2. \A c \in Check : checks[c] = "unasked"
    BY DEF AskScheduler
<1>3. CASE checks' = [c \in Check |-> IF c \in DOMAIN Snapshot THEN Snapshot[c] ELSE checks[c]]
  <2>1. \A c \in Check : (IF c \in DOMAIN Snapshot THEN Snapshot[c] ELSE checks[c]) \in Verdict
    BY <1>1, SnapshotFacts
  <2>2. checks' \in [Check -> Verdict]
    BY <1>3, <2>1
  <2>3. \A c \in {"ledger", "last-run", "apt", "stamp"} : checks'[c] = "unasked"
    BY <1>1, <1>2, <1>3, SnapshotFacts
  <2>4. service = "failure" => checks'["job"] = "error"
    BY <1>1, <1>3, SnapshotFacts
  <2>. QED
    BY <2>2, <2>3, <2>4
<1>4. CASE Ask("schedule", "warning")
    BY <1>2, <1>4 DEF Ask, Verdict
<1>. QED
    BY <1>3, <1>4 DEF AskScheduler

\* The verdicts are verdicts.
LEMMA VerdictsTyped ==
    /\ LedgerCheck \in Verdict /\ LastRunCheck \in Verdict /\ AptCheck \in Verdict
    /\ \A known \in BOOLEAN : StampCheck(known) \in Verdict
    BY DEF LedgerCheck, LastRunCheck, AptCheck, StampCheck, Verdict

-----------------------------------------------------------------------------
(* Types, and what has not been asked yet.                                 *)

Pending ==
    /\ pc \in {"ledger", "report"} =>
        \A c \in {"last-run", "apt", "stamp"} : checks[c] = "unasked"
    /\ pc \in {"apt", "stamp"} => checks["stamp"] = "unasked"

BaseInv == TypeOK /\ Pending

LEMMA BaseInit == Init => BaseInv
<1> SUFFICES ASSUME Init PROVE BaseInv
    OBVIOUS
<1>1. apt \in Apt /\ timer \in Timer
    BY DEF Init, Apt, Timers, Timer
<1>2. checks \in [Check -> Verdict] /\ \A c \in Check : checks[c] = "unasked"
    BY DEF Init, Verdict
<1>3. report \in Report /\ report.kind = "absent"
    BY BoundsAssumption DEF Init, NoReport, Report
<1>4. run \in [at : {"none", "work", "writing", "saved", "failed"},
               scheduled : BOOLEAN, started : 0..MaxClock]
    BY BoundsAssumption DEF Init, NoRun
<1>. QED
    BY <1>1, <1>2, <1>3, <1>4, BoundsAssumption
       DEF Init, BaseInv, TypeOK, Pending, Service, NoStamp

LEMMA BaseNext == BaseInv /\ [Next]_vars => BaseInv'
<1> SUFFICES ASSUME BaseInv, [Next]_vars PROVE BaseInv'
    OBVIOUS
<1>. USE KindsAssumption, AgeAssumption, BoundsAssumption
<1>. DEFINE RunRecord == [at : {"none", "work", "writing", "saved", "failed"},
                          scheduled : BOOLEAN, started : 0..MaxClock]
<1>. USE DEF BaseInv, TypeOK, Pending, Goto, Ask, Beside, upsets, scheduler,
           native,
           state, doctor
<1>1. ASSUME Begin PROVE BaseInv'
    BY <1>1 DEF Begin
<1>2. ASSUME AskScheduler PROVE BaseInv'
    BY <1>2, SchedulerAsked DEF AskScheduler, Check
<1>3. ASSUME AskLedger PROVE BaseInv'
    BY <1>3, VerdictsTyped DEF AskLedger, Check
<1>4. ASSUME AskReport PROVE BaseInv'
    BY <1>4, VerdictsTyped DEF AskReport, Check
<1>5. ASSUME AskApt PROVE BaseInv'
    BY <1>5, VerdictsTyped DEF AskApt, Check, Verdict
<1>6. ASSUME AskStamp PROVE BaseInv'
  <2>1. /\ pc' = "told" /\ looked' = clock
        /\ \E known \in BOOLEAN :
              checks' = [checks EXCEPT !["stamp"] = StampCheck(known)]
        /\ UNCHANGED <<clock, rollbacks, edits, restarts, runs, kind, timer,
                       service, apt, stamp, ledger, report, run, now, told,
                       cleaned, last, calm>>
    BY <1>6 DEF AskStamp, IntervalKnown
  <2>2. checks' \in [Check -> Verdict]
    BY <2>1, VerdictsTyped DEF Check
  <2>. QED
    BY <2>1, <2>2
<1>7. ASSUME Tell PROVE BaseInv'
    BY <1>7 DEF Tell, Verdict
<1>8. ASSUME StartRun PROVE BaseInv'
  <2>1. PICK scheduled \in BOOLEAN :
          /\ run' = [at |-> "work", scheduled |-> scheduled, started |-> clock]
          /\ service' = IF scheduled THEN "activating" ELSE service
    BY <1>8 DEF StartRun
  <2>2. service' \in Service
    BY <2>1 DEF Service
  <2>3. run' \in RunRecord
    BY <2>1
  <2>4. runs' \in 0..MaxRuns
    BY <1>8 DEF StartRun
  <2>5. /\ UNCHANGED <<clock, rollbacks, edits, restarts, kind, timer, apt, stamp,
                       ledger, report, pc, now, looked, checks, told, cleaned,
                       last>>
        /\ calm' \in BOOLEAN
    BY <1>8 DEF StartRun
  <2>. QED
    BY <2>2, <2>3, <2>4, <2>5
<1>9. ASSUME RefuseRun PROVE BaseInv'
  <2>1. service' \in Service /\ runs' \in 0..MaxRuns
    BY <1>9 DEF RefuseRun, Service
  <2>2. /\ UNCHANGED <<clock, rollbacks, edits, restarts, kind, timer, apt, stamp,
                       ledger, report, run, pc, now, looked, checks, told,
                       cleaned, last>>
        /\ calm' \in BOOLEAN
    BY <1>9 DEF RefuseRun
  <2>. QED
    BY <2>1, <2>2
<1>10. ASSUME SaveReport PROVE BaseInv'
  <2>1. report' = report
    BY <1>10 DEF SaveReport, UntilSaved, Report
  <2>2. run' \in RunRecord
    BY <1>10 DEF SaveReport
  <2>3. /\ UNCHANGED <<clock, rollbacks, edits, restarts, runs, kind, timer,
                       service, apt, stamp, ledger, pc, now, looked, checks,
                       told, cleaned, last>>
        /\ calm' \in BOOLEAN
    BY <1>10 DEF SaveReport
  <2>. QED
    BY <2>1, <2>2, <2>3
<1>11. ASSUME PublishReport PROVE BaseInv'
  <2>1. PICK failed \in BOOLEAN :
          /\ report' = [kind |-> "actual", started |-> run.started, failed |-> failed]
          /\ run' = [run EXCEPT !.at = IF failed THEN "failed" ELSE "saved"]
          /\ told' = told \cup {[started |-> run.started, failed |-> failed]}
    BY <1>11 DEF PublishReport
  <2>2. report' \in Report /\ report'.kind = "actual"
    BY <2>1 DEF Report
  <2>3. run' \in RunRecord
    BY <2>1
  <2>4. told' \subseteq [started : 0..MaxClock, failed : BOOLEAN]
    BY <2>1
  <2>. QED
    BY <1>11, <2>2, <2>3, <2>4 DEF PublishReport
<1>12. ASSUME EndRun PROVE BaseInv'
  <2>1. service' \in Service
    BY <1>12 DEF EndRun, Service
  <2>2. last' \in {"none", "good", "reported", "service", "unseen"}
    BY <1>12 DEF EndRun, BadEnd
  <2>3. run' \in RunRecord
    BY <1>12 DEF EndRun, NoRun
  <2>. QED
    BY <1>12, <2>1, <2>2, <2>3 DEF EndRun
<1>13. ASSUME Autoclean PROVE BaseInv'
    BY <1>13 DEF Autoclean, NoStamp
<1>14. ASSUME Tick PROVE BaseInv'
    BY <1>14 DEF Tick
<1>15. ASSUME SetClockBack PROVE BaseInv'
    BY <1>15 DEF SetClockBack, Upset
<1>16. ASSUME Restart PROVE BaseInv'
  <2>1. service' \in Service
    BY <1>16 DEF Restart, Service
  <2>2. last' \in {"none", "good", "reported", "service", "unseen"}
    BY <1>16 DEF Restart, BadEnd
  <2>3. run' \in RunRecord
    BY <1>16 DEF Restart, NoRun
  <2>4. {rollbacks', edits', restarts'} \subseteq 0..MaxUpsets
    BY <1>16 DEF Restart, Upset
  <2>. QED
    BY <1>16, <2>1, <2>2, <2>3, <2>4 DEF Restart, Verdict
<1>17. ASSUME Edit PROVE BaseInv'
  <2>1. {rollbacks', edits', restarts'} \subseteq 0..MaxUpsets /\ edits' > 0
    BY <1>17 DEF Edit, Upset
  <2>2. report' \in Report /\ ledger' \in {"sound", "bad"}
    BY <1>17 DEF Edit, Report
  <2>3. /\ UNCHANGED <<clock, rollbacks, restarts, runs, kind, timer, service, apt,
                       stamp, run, pc, now, looked, checks, told, cleaned, last>>
        /\ calm' \in BOOLEAN
    BY <1>17 DEF Edit
  <2>. QED
    BY <2>1, <2>2, <2>3
<1>18. ASSUME Reconfigure PROVE BaseInv'
  <2>1. {rollbacks', edits', restarts'} \subseteq 0..MaxUpsets /\ edits' > 0
    BY <1>18 DEF Reconfigure, Upset
  <2>2. timer' \in Timer /\ service' \in Service
    BY <1>18 DEF Reconfigure, Timers, Timer, Service
  <2>3. apt' \in Apt
    BY <1>18 DEF Reconfigure, Apt
  <2>4. /\ UNCHANGED <<clock, rollbacks, restarts, runs, kind, stamp, ledger, report,
                       run, pc, now, looked, checks, told, cleaned, last>>
        /\ calm' \in BOOLEAN
    BY <1>18 DEF Reconfigure
  <2>. QED
    BY <2>1, <2>2, <2>3, <2>4
<1>19. ASSUME UNCHANGED vars PROVE BaseInv'
    BY <1>19 DEF vars
<1>. QED
    BY <1>1, <1>2, <1>3, <1>4, <1>5, <1>6, <1>7, <1>8, <1>9, <1>10, <1>11,
       <1>12, <1>13, <1>14, <1>15, <1>16, <1>17, <1>18, <1>19 DEF Next

\* Every variable of Doctor has its type, and a check has no verdict before it
\* was made.
THEOREM TypeCorrect == Spec => []TypeOK
<1>1. BaseInv => TypeOK
    BY DEF BaseInv
<1>. QED
    BY <1>1, BaseInit, BaseNext, PTL DEF Spec

-----------------------------------------------------------------------------
(* What an ok rests on.                                                    *)

Backed ==
    /\ report.kind = "actual" =>
          [started |-> report.started, failed |-> report.failed] \in told
    /\ stamp # NoStamp => stamp \in cleaned

EvidenceInv == Backed /\ OkIsEvidence

LEMMA EvidenceInit == Init => EvidenceInv
    BY DEF Init, EvidenceInv, Backed, OkIsEvidence, NoReport, Check

LEMMA EvidenceNext == BaseInv /\ EvidenceInv /\ [Next]_vars => EvidenceInv'
<1> SUFFICES ASSUME BaseInv, EvidenceInv, [Next]_vars PROVE EvidenceInv'
    OBVIOUS
<1>. USE AgeAssumption, BoundsAssumption
<1>. USE DEF BaseInv, TypeOK, Pending, EvidenceInv, Backed, OkIsEvidence,
           Check, Goto, Ask, Beside, upsets, scheduler, native, state, doctor
<1>1. ASSUME Begin PROVE EvidenceInv'
    BY <1>1 DEF Begin
<1>2. ASSUME AskScheduler PROVE EvidenceInv'
    BY <1>2, SchedulerAsked DEF AskScheduler
<1>3. ASSUME AskLedger PROVE EvidenceInv'
    BY <1>3 DEF AskLedger, LedgerCheck
<1>4. ASSUME AskReport PROVE EvidenceInv'
    BY <1>4 DEF AskReport, LastRunCheck, Report
<1>5. ASSUME AskApt PROVE EvidenceInv'
    BY <1>5 DEF AskApt
<1>6. ASSUME AskStamp PROVE EvidenceInv'
    BY <1>6 DEF AskStamp, StampCheck, IntervalKnown, NoStamp
<1>7. ASSUME Tell PROVE EvidenceInv'
    BY <1>7 DEF Tell
<1>8. ASSUME StartRun PROVE EvidenceInv'
    BY <1>8 DEF StartRun
<1>9. ASSUME RefuseRun PROVE EvidenceInv'
    BY <1>9 DEF RefuseRun
<1>10. ASSUME SaveReport PROVE EvidenceInv'
    BY <1>10 DEF SaveReport, UntilSaved
<1>11. ASSUME PublishReport PROVE EvidenceInv'
    BY <1>11 DEF PublishReport
<1>12. ASSUME EndRun PROVE EvidenceInv'
    BY <1>12 DEF EndRun
<1>13. ASSUME Autoclean PROVE EvidenceInv'
    BY <1>13 DEF Autoclean, NoStamp
<1>14. ASSUME Tick PROVE EvidenceInv'
    BY <1>14 DEF Tick
<1>15. ASSUME SetClockBack PROVE EvidenceInv'
    BY <1>15 DEF SetClockBack, Upset
<1>16. ASSUME Restart PROVE EvidenceInv'
    BY <1>16 DEF Restart, Upset
<1>17. ASSUME Edit PROVE EvidenceInv'
  <2>1. report' = report \/ report'.kind # "actual"
    BY <1>17 DEF Edit, Report
  <2>2. UNCHANGED <<stamp, told, cleaned, checks, now, looked>>
    BY <1>17 DEF Edit
  <2>. QED
    BY <2>1, <2>2
<1>18. ASSUME Reconfigure PROVE EvidenceInv'
    BY <1>18 DEF Reconfigure, Upset
<1>19. ASSUME UNCHANGED vars PROVE EvidenceInv'
    BY <1>19 DEF vars
<1>. QED
    BY <1>1, <1>2, <1>3, <1>4, <1>5, <1>6, <1>7, <1>8, <1>9, <1>10, <1>11,
       <1>12, <1>13, <1>14, <1>15, <1>16, <1>17, <1>18, <1>19 DEF Next

\* An ok about the last run rests on an actual, recent and successful one, and
\* an ok of APT's policy and stamp on a recent autoclean.
THEOREM OkRestsOnEvidence == Spec => []OkIsEvidence
<1>1. EvidenceInv => OkIsEvidence
    BY DEF EvidenceInv
<1>. QED
    BY <1>1, BaseInit, BaseNext, EvidenceInit, EvidenceNext, PTL DEF Spec

-----------------------------------------------------------------------------
(* Times, and what only an edit can do.                                    *)

Dates == rollbacks = 0 =>
            report.started <= clock /\ run.started <= clock /\ now <= clock

Alone == calm /\ pc # "asleep" => run = NoRun

AloneDates == rollbacks = 0 /\ calm /\ pc \in {"scheduler", "ledger", "report"}
                => report.started <= now

QuietInv ==
    /\ edits = 0 => ledger = "sound"
    /\ Dates
    /\ Alone
    /\ AloneDates
    /\ NoFalseAlarm

LEMMA QuietInit == Init => QuietInv
    BY DEF Init, QuietInv, Dates, Alone, AloneDates, NoFalseAlarm, NoReport,
           NoRun, Check

LEMMA QuietNext == BaseInv /\ EvidenceInv /\ QuietInv /\ [Next]_vars => QuietInv'
<1> SUFFICES ASSUME BaseInv, EvidenceInv, QuietInv, [Next]_vars PROVE QuietInv'
    OBVIOUS
<1>. USE AgeAssumption, BoundsAssumption
<1>. USE DEF BaseInv, TypeOK, Pending, EvidenceInv, Backed, QuietInv, Dates,
           Alone,
           AloneDates, NoFalseAlarm, Check, Goto, Ask, Beside, upsets,
           scheduler, native, state, doctor
<1>1. ASSUME Begin PROVE QuietInv'
  <2>1. /\ now' = clock /\ pc' = "scheduler" /\ calm' = (run = NoRun)
        /\ UNCHANGED <<clock, rollbacks, edits, ledger, report, run, checks, told>>
    BY <1>1 DEF Begin
  <2>2. \A c \in Check : checks[c] = "unasked"
    BY <1>1 DEF Begin
  <2>3. calm' => run' = NoRun
    BY <2>1, Zenon
  <2>4. Dates' /\ AloneDates'
    BY <2>1
  <2>. QED
    BY <2>1, <2>2, <2>3, <2>4
<1>2. ASSUME AskScheduler PROVE QuietInv'
    BY <1>2, SchedulerAsked DEF AskScheduler
<1>3. ASSUME AskLedger PROVE QuietInv'
    BY <1>3 DEF AskLedger, LedgerCheck
<1>4. ASSUME AskReport PROVE QuietInv'
  <2>1. /\ pc = "report" /\ pc' \in {"apt", "told"}
        /\ checks' = [checks EXCEPT !["last-run"] = LastRunCheck]
        /\ UNCHANGED <<now, calm, clock, rollbacks, edits, ledger, report, run, told>>
    BY <1>4 DEF AskReport
  <2>2. edits = 0 /\ LastRunCheck = "error" => \E t \in told : t.failed
    BY DEF LastRunCheck, Report
  <2>3. LastRunCheck = "future" => now < report.started
    BY DEF LastRunCheck
  <2>4. Dates' /\ Alone' /\ AloneDates'
    BY <2>1
  <2>5. NoFalseAlarm'
    BY <2>1, <2>2, <2>3 DEF Report
  <2>. QED
    BY <2>1, <2>4, <2>5
<1>5. ASSUME AskApt PROVE QuietInv'
    BY <1>5 DEF AskApt
<1>6. ASSUME AskStamp PROVE QuietInv'
    BY <1>6 DEF AskStamp
<1>7. ASSUME Tell PROVE QuietInv'
    BY <1>7 DEF Tell
<1>8. ASSUME StartRun PROVE QuietInv'
    BY <1>8 DEF StartRun, NoRun
<1>9. ASSUME RefuseRun PROVE QuietInv'
    BY <1>9 DEF RefuseRun
<1>10. ASSUME SaveReport PROVE QuietInv'
    BY <1>10 DEF SaveReport, NoRun, UntilSaved
<1>11. ASSUME PublishReport PROVE QuietInv'
    BY <1>11 DEF PublishReport, NoRun
<1>12. ASSUME EndRun PROVE QuietInv'
    BY <1>12 DEF EndRun, NoRun
<1>13. ASSUME Autoclean PROVE QuietInv'
    BY <1>13 DEF Autoclean
<1>14. ASSUME Tick PROVE QuietInv'
  <2>1. clock' = clock + 1
        /\ UNCHANGED <<pc, now, calm, rollbacks, edits, ledger, report, run, checks, told>>
    BY <1>14 DEF Tick
  <2>2. Dates'
    BY <2>1 DEF Report
  <2>. QED
    BY <2>1, <2>2
<1>15. ASSUME SetClockBack PROVE QuietInv'
    BY <1>15 DEF SetClockBack, Upset
<1>16. ASSUME Restart PROVE QuietInv'
    BY <1>16 DEF Restart, Upset, NoRun
<1>17. ASSUME Edit PROVE QuietInv'
  <2>1. /\ edits' > 0 /\ ~calm' /\ report'.started = report.started
        /\ UNCHANGED <<clock, rollbacks, run, now, checks, told>>
    BY <1>17 DEF Edit, Report
  <2>. QED
    BY <2>1
<1>18. ASSUME Reconfigure PROVE QuietInv'
    BY <1>18 DEF Reconfigure, Upset
<1>19. ASSUME UNCHANGED vars PROVE QuietInv'
    BY <1>19 DEF vars
<1>. QED
    BY <1>1, <1>2, <1>3, <1>4, <1>5, <1>6, <1>7, <1>8, <1>9, <1>10, <1>11,
       <1>12, <1>13, <1>14, <1>15, <1>16, <1>17, <1>18, <1>19 DEF Next

\* Without edits an error about ledger or report is a failure that a run
\* reported; a report from the future means a clock set back, or a run.
THEOREM AlarmsAreTrue == Spec => []NoFalseAlarm
<1>1. QuietInv => NoFalseAlarm
    BY DEF QuietInv
<1>. QED
    BY <1>1, BaseInit, BaseNext, EvidenceInit, EvidenceNext, QuietInit,
       QuietNext, PTL DEF Spec

-----------------------------------------------------------------------------
(* What a bad end leaves behind, and who has it.                           *)

RunInv == (run.at = "none" <=> run = NoRun)
            /\ (run.scheduled => service = "activating")

Reported == report.kind = "actual" /\ report.failed

\* Nobody has edited: the end of the last run is where it was left.
Left == edits = 0 =>
    /\ run.at = "failed" => Reported
    /\ run = NoRun /\ last = "reported" => Reported
    /\ run = NoRun /\ last = "service" => service = "failure"

Seen == calm /\ edits = 0 =>
    /\ pc \in {"ledger", "report", "apt", "stamp", "told"} /\ last = "service"
          => checks["job"] \in {"unasked", "error"}
    /\ pc \in {"apt", "stamp", "told"} /\ last = "reported"
          => checks["last-run"] = "error"

SeenInv == RunInv /\ Left /\ Seen

LEMMA SeenInit == Init => SeenInv
    BY DEF Init, SeenInv, RunInv, Left, Seen, NoRun

LEMMA SeenNext == BaseInv /\ QuietInv /\ SeenInv /\ [Next]_vars => SeenInv'
<1> SUFFICES ASSUME BaseInv, QuietInv, SeenInv, [Next]_vars PROVE SeenInv'
    OBVIOUS
<1>. USE AgeAssumption, BoundsAssumption
<1>. USE DEF BaseInv, TypeOK, QuietInv, Alone, SeenInv, RunInv, Left,
           Reported, Seen,
           Check, Goto, Ask, Beside, upsets, scheduler, native, state, doctor
<1>1. ASSUME Begin PROVE SeenInv'
    BY <1>1 DEF Begin
<1>2. ASSUME AskScheduler PROVE SeenInv'
    BY <1>2, SchedulerAsked DEF AskScheduler
<1>3. ASSUME AskLedger PROVE SeenInv'
    BY <1>3 DEF AskLedger, LedgerCheck
<1>4. ASSUME AskReport PROVE SeenInv'
  <2>1. /\ pc = "report" /\ pc' \in {"apt", "told"}
        /\ checks' = [checks EXCEPT !["last-run"] = LastRunCheck]
        /\ UNCHANGED <<calm, edits, report, run, last, service>>
    BY <1>4 DEF AskReport
  <2>2. Reported => LastRunCheck = "error"
    BY DEF LastRunCheck
  <2>3. RunInv' /\ Left'
    BY <2>1
  <2>4. checks'["job"] = checks["job"]
    BY <2>1
  <2>5. Seen'
    BY <2>1, <2>2, <2>4
  <2>. QED
    BY <2>3, <2>5
<1>5. ASSUME AskApt PROVE SeenInv'
    BY <1>5 DEF AskApt
<1>6. ASSUME AskStamp PROVE SeenInv'
    BY <1>6 DEF AskStamp
<1>7. ASSUME Tell PROVE SeenInv'
    BY <1>7 DEF Tell
<1>8. ASSUME StartRun PROVE SeenInv'
    BY <1>8 DEF StartRun, NoRun
<1>9. ASSUME RefuseRun PROVE SeenInv'
    BY <1>9 DEF RefuseRun
<1>10. ASSUME SaveReport PROVE SeenInv'
    BY <1>10 DEF SaveReport, NoRun, UntilSaved
<1>11. ASSUME PublishReport PROVE SeenInv'
    BY <1>11 DEF PublishReport, NoRun
<1>12. ASSUME EndRun PROVE SeenInv'
    BY <1>12 DEF EndRun, NoRun, BadEnd
<1>13. ASSUME Autoclean PROVE SeenInv'
    BY <1>13 DEF Autoclean
<1>14. ASSUME Tick PROVE SeenInv'
    BY <1>14 DEF Tick
<1>15. ASSUME SetClockBack PROVE SeenInv'
    BY <1>15 DEF SetClockBack, Upset
<1>16. ASSUME Restart PROVE SeenInv'
    BY <1>16 DEF Restart, Upset, NoRun, BadEnd
<1>17. ASSUME Edit PROVE SeenInv'
    BY <1>17 DEF Edit, Upset
<1>18. ASSUME Reconfigure PROVE SeenInv'
  <2>1. /\ edits' > 0 /\ ~calm' /\ run = NoRun
        /\ UNCHANGED run
    BY <1>18 DEF Reconfigure
  <2>2. RunInv'
    BY <2>1 DEF NoRun
  <2>. QED
    BY <2>1, <2>2
<1>19. ASSUME UNCHANGED vars PROVE SeenInv'
    BY <1>19 DEF vars
<1>. QED
    BY <1>1, <1>2, <1>3, <1>4, <1>5, <1>6, <1>7, <1>8, <1>9, <1>10, <1>11,
       <1>12, <1>13, <1>14, <1>15, <1>16, <1>17, <1>18, <1>19 DEF Next

\* A run that failed is seen, by its report or by the scheduler.
THEOREM FailuresAreSeen == Spec => []FailureIsSeen
<1>1. BaseInv /\ SeenInv => FailureIsSeen
    BY DEF BaseInv, TypeOK, SeenInv, Seen, FailureIsSeen, NoErrors, Check
<1>. QED
    BY <1>1, BaseInit, BaseNext, EvidenceInit, EvidenceNext, QuietInit,
       QuietNext, SeenInit, SeenNext, PTL DEF Spec

-----------------------------------------------------------------------------
(* The project inventory: the tree.                                        *)

\* What is above a directory: what the definition says, without the sets.
LEMMA AboveFacts ==
    ASSUME NEW d \in Dir
    PROVE  /\ Above[d] \in SUBSET Dir
           /\ d \in Above[d]
           /\ Closed(Above[d])
           /\ \A S \in SUBSET Dir : d \in S /\ Closed(S) => Above[d] \subseteq S
<1>1. Above[d] = {e \in Dir : \A S \in SUBSET Dir : d \in S /\ Closed(S) => e \in S}
  BY DEF Above
<1>2. \A S \in SUBSET Dir : d \in S /\ Closed(S) => Above[d] \subseteq S
  BY <1>1
<1>3. Closed(Above[d])
  <2>. SUFFICES ASSUME NEW x \in Above[d], Parent[x] # NoDir
               PROVE  Parent[x] \in Above[d]
    BY DEF Closed
  <2>1. Parent[x] \in Dir
    BY <1>1, ParentAssumption
  <2>2. ASSUME NEW S \in SUBSET Dir, d \in S, Closed(S)
        PROVE  Parent[x] \in S
    BY <1>1, <2>2 DEF Closed
  <2>. QED
    BY <1>1, <2>1, <2>2
<1>. QED
  BY <1>1, <1>2, <1>3

\* What is above something above d is above d.
LEMMA AboveIsTransitive ==
    ASSUME NEW d \in Dir, NEW e \in Above[d]
    PROVE  e \in Dir /\ Above[e] \subseteq Above[d]
<1>1. /\ e \in Dir
      /\ Above[d] \in SUBSET Dir
      /\ Closed(Above[d])
  BY AboveFacts
<1>. QED
  BY <1>1, AboveFacts

\* The recursion that Above stands for.
LEMMA AboveSteps ==
    ASSUME NEW d \in Dir
    PROVE  Above[d] = {d} \cup (IF Parent[d] = NoDir THEN {} ELSE Above[Parent[d]])
<1>1. CASE Parent[d] = NoDir
  <2>1. Closed({d})
    BY <1>1 DEF Closed
  <2>. QED
    BY <1>1, <2>1, AboveFacts
<1>2. CASE Parent[d] # NoDir
  <2>1. Parent[d] \in Dir
    BY <1>2, ParentAssumption
  <2>2. Parent[d] \in Above[d]
    BY <1>2, AboveFacts DEF Closed
  <2>3. Above[Parent[d]] \subseteq Above[d]
    BY <2>2, AboveIsTransitive
  <2>. DEFINE S == {d} \cup Above[Parent[d]]
  <2>4. S \in SUBSET Dir /\ d \in S
    BY <2>1, AboveFacts
  <2>5. Closed(S)
    BY <2>1, AboveFacts DEF Closed
  <2>6. Above[d] \subseteq S
    BY <2>4, <2>5, AboveFacts
  <2>. QED
    BY <1>2, <2>3, <2>6, AboveFacts
<1>. QED
  BY <1>1, <1>2

\* No two directories are above each other.
LEMMA AboveIsOneWay ==
    ASSUME NEW a \in Dir, NEW b \in Dir, a \in Above[b], b \in Above[a]
    PROVE  a = b
<1>. SUFFICES ASSUME a # b
             PROVE  FALSE
  OBVIOUS
<1>1. Parent[b] # NoDir /\ a \in Above[Parent[b]]
  BY AboveSteps
<1>2. Parent[b] \in Dir
  BY <1>1, ParentAssumption
<1>3. b \in Above[Parent[b]]
  BY <1>1, <1>2, AboveIsTransitive
<1>. QED
  BY <1>1, <1>3, TreeAssumption

\* Of two directories above a third one, one is above the other.
LEMMA AboveIsAChain ==
    ASSUME NEW e \in Dir, NEW a \in Above[e], NEW b \in Above[e]
    PROVE  a \in Above[b] \/ b \in Above[a]
<1>. DEFINE S == {x \in Dir : a \in Above[x] \/ x \in Above[a]}
<1>1. a \in Dir
  BY AboveIsTransitive
<1>2. Closed(S)
  <2>. SUFFICES ASSUME NEW x \in S, Parent[x] # NoDir
               PROVE  Parent[x] \in S
    BY DEF Closed
  <2>1. Parent[x] \in Dir
    BY ParentAssumption
  <2>2. CASE x \in Above[a]
    BY <1>1, <2>1, <2>2, AboveFacts DEF Closed
  <2>3. CASE a \in Above[x]
    <3>1. a = x \/ a \in Above[Parent[x]]
      BY <2>3, AboveSteps
    <3>. QED
      BY <1>1, <2>1, <3>1, AboveFacts DEF Closed
  <2>. QED
    BY <2>2, <2>3
<1>3. Above[e] \subseteq S
  BY <1>2, AboveFacts
<1>. QED
  BY <1>3

\* The way down from r to d leads through a child of r.
LEMMA WayDown ==
    ASSUME NEW d \in Dir, NEW r \in Above[d], r # d
    PROVE  \E c \in Children(r) : c \in Above[d]
<1>. SUFFICES ASSUME \A c \in Children(r) : c \notin Above[d]
             PROVE  FALSE
  OBVIOUS
<1>. DEFINE S == Above[d] \ {r}
<1>1. S \in SUBSET Dir /\ d \in S
  BY AboveFacts
<1>2. Closed(S)
  BY AboveFacts DEF Closed, Children
<1>. QED
  BY <1>1, <1>2, AboveFacts

\* Nothing is its own child, and what is above a child is the child or above
\* its parent.
LEMMA ChildFacts ==
    ASSUME NEW d \in Dir, NEW c \in Children(d)
    PROVE  /\ c \in Dir
           /\ c # d
           /\ d \in Above[c]
           /\ c \notin Above[d]
           /\ Above[c] = {c} \cup Above[d]
<1>1. c \in Dir /\ Parent[c] = d /\ d # NoDir
  BY ParentAssumption DEF Children
<1>2. Above[c] = {c} \cup Above[d]
  BY <1>1, AboveSteps
<1>3. c \notin Above[d]
  BY <1>1, TreeAssumption
<1>4. d \in Above[d]
  BY AboveFacts
<1>. QED
  BY <1>1, <1>2, <1>3, <1>4

-----------------------------------------------------------------------------
(* The walk.                                                               *)

\* Below r nothing hides d, so the walk comes to it.
Comes(r, d) ==
    /\ r \in Above[d] \ {d}
    /\ tree.via[r] # "link"
    /\ \A m \in Above[d] \ (Above[r] \cup {d}) : ~Hides(m)

\* The path of a candidate, and the type of both.
At(c) == Path(c.by, c.dir)

Paths == [by : Dir \cup {NoDir}, dir : Dir]

Candidates == [by : Dir \cup {NoDir}, dir : Dir, kind : Look, root : Root, bytes : Nat]

Listed(r, p) == \E c \in stale : c.root = r /\ At(c) = p

\* Where the walk is: at directories it comes to, none of them below another,
\* and its warm targets were artifacts.
PlaceInv ==
    /\ root = NoDir => open = {} /\ warmTargets = {}
    /\ root \notin todo
    /\ \A d \in open : Comes(root, d)
    /\ \A a, b \in open : a \in Above[b] => a = b
    /\ \A d \in warmTargets : Taken(root, d) /\ ~OldEnough(d)

\* What is listed was expected, and is behind the walk.
ListedInv ==
    \A c \in stale :
        /\ c.root \notin todo
        /\ At(c) \in Expected(c.root)
        /\ c.kind = tree.look[c.dir] /\ c.bytes = Measure(c.dir)
        /\ c.root = root => /\ tree.look[c.dir] # "incremental"
                            /\ \A d \in open : d \notin Above[c.dir]

\* The walk has dealt with the artifact d, but for its incremental caches.
Settled(d) ==
    IF OldEnough(d) THEN Big(d) => Listed(root, PathOf(d))
    ELSE /\ \A f \in FlutterBuilds(d) : Listed(root, f)
         /\ tree.look[d] = "rust" => d \in warmTargets

\* What is expected is listed, or still ahead.
AheadInv ==
    /\ \A r \in Root \ (todo \cup {root}) : \A e \in Expected(r) : Listed(r, e)
    /\ \A d \in Dir : Taken(root, d) => Settled(d) \/ \E o \in open : o \in Above[d]

Counted == UNION {{c} \X Contents(c.dir) : c \in stale}

CountInv == IsFiniteSet(Counted) /\ bytesSeen = Cardinality(Counted)

ScanInv == ScanTypeOK /\ PlaceInv /\ ListedInv /\ AheadInv /\ CountInv
-----------------------------------------------------------------------------
(* What the walk should find.                                              *)

\* Paths are what they are made of.
LEMMA PathFacts ==
    /\ \A n, d : Path(n, d).by = n /\ Path(n, d).dir = d
    /\ \A n \in Dir \cup {NoDir}, d \in Dir : Path(n, d) \in Paths
    /\ \A p \in Paths : p.by \in Dir \cup {NoDir} /\ p.dir \in Dir /\ p = Path(p.by, p.dir)
    /\ \A d \in Dir : PathOf(d) \in Paths /\ PathOf(d).by = Parent[d] /\ PathOf(d).dir = d
    /\ IsFiniteSet(Paths)
<1>1. /\ \A n, d : Path(n, d).by = n /\ Path(n, d).dir = d
      /\ \A n \in Dir \cup {NoDir}, d \in Dir : Path(n, d) \in Paths
      /\ \A p \in Paths : p.by \in Dir \cup {NoDir} /\ p.dir \in Dir /\ p = Path(p.by, p.dir)
    BY DEF Path, Paths
<1>2. \A d \in Dir : PathOf(d) \in Paths /\ PathOf(d).by = Parent[d] /\ PathOf(d).dir = d
    BY <1>1, ParentAssumption DEF PathOf
<1>3. IsFiniteSet(Paths)
  <2>. DEFINE S == (Dir \cup {NoDir}) \X Dir
              f == [x \in S |-> Path(x[1], x[2])]
  <2>1. IsFiniteSet(S)
    BY DirAssumption, FS_AddElement, FS_Product
  <2>2. f \in [S -> Paths]
    BY <1>1
  <2>3. ASSUME NEW p \in Paths
        PROVE  \E x \in S : f[x] = p
    <3>1. <<p.by, p.dir>> \in S /\ p = Path(p.by, p.dir)
      BY <1>1
    <3>. QED
      BY <3>1
  <2>4. f \in Surjection(S, Paths)
    BY <2>2, <2>3, Zenon DEF Surjection
  <2>. HIDE DEF f, S
  <2>. QED
    BY <2>1, <2>4, FS_Surjection
<1>. QED
    BY <1>1, <1>2, <1>3

\* Weights are numbers.
LEMMA ContentsFinite ==
    /\ \A d \in Dir : /\ Contents(d) \subseteq Dir
                      /\ IsFiniteSet(Contents(d))
                      /\ Measure(d) \in Nat
    /\ \A ps \in SUBSET Paths : /\ IsFiniteSet(UNION {{p} \X Contents(p.dir) : p \in ps})
                                /\ SumOf(ps) \in Nat
<1>1. ASSUME NEW d \in Dir
      PROVE  /\ Contents(d) \subseteq Dir
             /\ IsFiniteSet(Contents(d))
             /\ Measure(d) \in Nat
  <2>1. Contents(d) \in SUBSET Dir
    BY DEF Contents
  <2>2. IsFiniteSet(Contents(d))
    BY <2>1, DirAssumption, FS_Subset
  <2>. QED
    BY <2>1, <2>2, FS_CardinalityType DEF Measure
<1>2. ASSUME NEW ps \in SUBSET Paths
      PROVE  /\ IsFiniteSet(UNION {{p} \X Contents(p.dir) : p \in ps})
             /\ SumOf(ps) \in Nat
  <2>. DEFINE P == UNION {{p} \X Contents(p.dir) : p \in ps}
  <2>1. P \in SUBSET (Paths \X Dir)
    BY <1>1, PathFacts
  <2>2. IsFiniteSet(Paths \X Dir)
    BY DirAssumption, PathFacts, FS_Product
  <2>3. IsFiniteSet(P)
    BY <2>1, <2>2, FS_Subset
  <2>4. Cardinality(P) \in Nat
    BY <2>3, FS_CardinalityType
  <2>. QED
    BY <2>3, <2>4 DEF SumOf
<1>. QED
  BY <1>1, <1>2

\* Directories that are not above one another have nothing in common.
LEMMA ContentsApart ==
    ASSUME NEW a \in Dir, NEW b \in Dir, a \notin Above[b], b \notin Above[a]
    PROVE  Contents(a) \cap Contents(b) = {}
<1>. SUFFICES ASSUME NEW e \in Dir, e \in Contents(a), e \in Contents(b)
             PROVE  FALSE
  BY DEF Contents
<1>1. a \in Above[e] /\ b \in Above[e]
  BY DEF Contents
<1>. QED
  BY <1>1, AboveIsAChain

\* What the guards of the walk's branches say of a directory.
LEMMA Branches ==
    ASSUME IsTree(tree), NEW d \in Dir
    PROVE  /\ (~IsDirectory(d) \/ Excluded(d) \/ tree.look[d] \in SkipDirs)
                => Hides(d) /\ \A r : ~Taken(r, d)
           /\ (IsDirectory(d) /\ ~Excluded(d) /\ tree.look[d] \notin SkipDirs /\ ~IsArtifact(d))
                => ~Hides(d) /\ \A r : ~Taken(r, d)
           /\ (IsDirectory(d) /\ ~Excluded(d) /\ IsArtifact(d))
                => Hides(d) /\ \A r : Comes(r, d) => Taken(r, d)
           /\ \A r : Taken(r, d) => Comes(r, d) /\ Hides(d)
           /\ PassesGate(d) <=> OldEnough(d)
<1>. USE DEF IsTree, IsDirectory, Excluded, IsArtifact, Generated, Artifact, SkipDirs, Hides, Taken, Comes
<1>1. (~IsDirectory(d) \/ Excluded(d) \/ tree.look[d] \in SkipDirs)
        => Hides(d) /\ \A r : ~Taken(r, d)
  OBVIOUS
<1>2. (IsDirectory(d) /\ ~Excluded(d) /\ tree.look[d] \notin SkipDirs /\ ~IsArtifact(d))
        => ~Hides(d) /\ \A r : ~Taken(r, d)
  BY DEF Via
<1>3. (IsDirectory(d) /\ ~Excluded(d) /\ IsArtifact(d))
        => Hides(d) /\ \A r : Comes(r, d) => Taken(r, d)
  BY DEF Via
<1>4. \A r : Taken(r, d) => Comes(r, d) /\ Hides(d)
  OBVIOUS
<1>5. PassesGate(d) <=> OldEnough(d)
  <2>1. /\ \A e \in Contents(d) : tree.age[e] \in Nat
        /\ Contents(d) \subseteq Dir
    BY DEF Contents
  <2>. QED
    BY <2>1, PolicyAssumption DEF PassesGate, DepsCold, OldEnough, Newer
<1>. QED
  BY <1>1, <1>2, <1>3, <1>4, <1>5

\* What hides an artifact is that artifact.
LEMMA HiddenBelow ==
    ASSUME NEW r, NEW d \in Dir, NEW x \in Dir,
           Comes(r, d), Hides(d), Taken(r, x), d \in Above[x]
    PROVE  x = d
<1>. SUFFICES ASSUME x # d
             PROVE  FALSE
  OBVIOUS
<1>1. r \in Dir /\ r \in Above[d] /\ r # d
  BY AboveIsTransitive DEF Comes
<1>2. d \notin Above[r]
  BY <1>1, AboveIsOneWay
<1>. QED
  BY <1>2 DEF Taken

\* The walk goes on below what does not hide it.
LEMMA ComesDown ==
    ASSUME NEW r, NEW d \in Dir, Comes(r, d), ~Hides(d), NEW c \in Children(d)
    PROVE  Comes(r, c)
<1>1. c \in Dir /\ Above[c] = {c} \cup Above[d] /\ c \notin Above[d]
  BY ChildFacts
<1>. QED
  BY <1>1 DEF Comes

\* And it begins with what is in a root.
LEMMA ComesFirst ==
    ASSUME NEW r \in Dir, tree.via[r] # "link", NEW c \in Children(r)
    PROVE  Comes(r, c)
<1>1. c \in Dir /\ c # r /\ r \in Above[c] /\ Above[c] = {c} \cup Above[r]
  BY ChildFacts
<1>. QED
  BY <1>1 DEF Comes

\* Whatever is expected is an artifact, or a part of one that is warm.
Owns(r, d, p) ==
    /\ Taken(r, d)
    /\ \/ OldEnough(d) /\ p = PathOf(d) /\ Big(d)
       \/ ~OldEnough(d) /\ p \in FlutterBuilds(d)
       \/ ~OldEnough(d) /\ tree.look[d] = "rust" /\ p \in Incrementals(d)

\* What the parts of a warm artifact look like.
LEMMA PartFacts ==
    ASSUME IsTree(tree), NEW d \in Dir
    PROVE  /\ FlutterBuilds(d) \subseteq Paths
           /\ \A p \in FlutterBuilds(d) :
                /\ p.dir \in Children(d) /\ p = PathOf(p.dir)
                /\ tree.look[p.dir] = "flutter" /\ tree.look[d] = "dart"
           /\ Incrementals(d) \subseteq Paths
           /\ \A p \in Incrementals(d) :
                /\ p.by \in Children(d) /\ p.dir \in Children(tree.to[p.by])
                /\ tree.look[p.dir] = "incremental"
                /\ p.by # Parent[p.dir] => tree.via[p.by] = "link"
<1>1. ASSUME NEW p \in FlutterBuilds(d)
      PROVE  /\ p \in Paths /\ p.dir \in Children(d) /\ p = PathOf(p.dir)
             /\ tree.look[p.dir] = "flutter" /\ tree.look[d] = "dart"
  <2>1. PICK f \in Children(d) : /\ p = PathOf(f) /\ tree.look[f] = "flutter"
                                /\ tree.look[d] = "dart"
    BY DEF FlutterBuilds
  <2>2. f \in Dir
    BY DEF Children
  <2>. QED
    BY <2>1, <2>2, PathFacts
<1>2. ASSUME NEW p \in Incrementals(d)
      PROVE  /\ p \in Paths
             /\ p.by \in Children(d) /\ p.dir \in Children(tree.to[p.by])
             /\ tree.look[p.dir] = "incremental"
             /\ p.by # Parent[p.dir] => tree.via[p.by] = "link"
  <2>1. PICK n \in Children(d) :
            p \in {Path(n, i) : i \in {x \in Children(tree.to[n]) : Stale(x)}}
    BY DEF Incrementals
  <2>2. PICK i \in Children(tree.to[n]) : p = Path(n, i) /\ Stale(i)
    BY <2>1
  <2>3. n \in Dir /\ i \in Dir /\ Parent[i] = tree.to[n]
    BY DEF Children
  <2>4. p \in Paths /\ p.by = n /\ p.dir = i
    BY <2>2, <2>3, PathFacts
  <2>5. tree.to[n] # n => tree.via[n] = "link"
    BY <2>3 DEF IsTree
  <2>. QED
    BY <2>2, <2>3, <2>4, <2>5 DEF Stale
<1>. QED
  BY <1>1, <1>2

LEMMA ExpectedIsOwned ==
    ASSUME IsTree(tree), NEW r
    PROVE  /\ \A p : p \in Expected(r) <=> \E d \in Dir : Owns(r, d, p)
           /\ Expected(r) \subseteq Paths
<1>1. \A p : p \in Expected(r) <=> \E d \in Dir : Owns(r, d, p)
  BY DEF Expected, Owns
<1>2. \A d, p : Owns(r, d, p) /\ d \in Dir => p \in Paths
  BY PartFacts, PathFacts DEF Owns
<1>. QED
  BY <1>1, <1>2

\* A path through no link leads to what is there.
Direct(p) == p.by = Parent[p.dir]

\* An owner is above what it owns, and what it owns is side by side.
LEMMA OwnedFacts ==
    ASSUME IsTree(tree), NEW r, NEW d \in Dir, NEW p, Owns(r, d, p), Direct(p)
    PROVE  /\ p \in Paths
           /\ d \in Above[p.dir]
           /\ \A o : Owns(r, d, o) /\ Direct(o) /\ o.dir \in Above[p.dir] => o = p
<1>1. CASE OldEnough(d) /\ p = PathOf(d)
  BY <1>1, AboveFacts, PathFacts DEF Owns
<1>2. CASE ~OldEnough(d) /\ p \in FlutterBuilds(d)
  <2>1. /\ p \in Paths /\ p.dir \in Children(d) /\ p = PathOf(p.dir)
        /\ tree.look[d] = "dart"
    BY <1>2, PartFacts
  <2>2. \A o : Owns(r, d, o) => o.dir \in Children(d) /\ o = PathOf(o.dir)
    BY <1>2, <2>1, PartFacts DEF Owns
  <2>3. ASSUME NEW o, Owns(r, d, o), o.dir \in Above[p.dir]
        PROVE  o.dir = p.dir
    BY <2>1, <2>2, <2>3, ChildFacts
  <2>. QED
    BY <2>1, <2>2, <2>3, ChildFacts
<1>3. CASE ~OldEnough(d) /\ tree.look[d] = "rust" /\ p \in Incrementals(d)
  <2>1. \A o : Owns(r, d, o) => o \in Incrementals(d)
    BY <1>3, PartFacts DEF Owns
  <2>. DEFINE a == p.dir
  <2>2. p \in Paths /\ a \in Dir /\ p.by = Parent[a] /\ Parent[a] \in Children(d)
    BY <1>3, PartFacts, PathFacts DEF Direct
  <2>3. Parent[a] \in Dir /\ a \in Children(Parent[a])
    BY <2>2 DEF Children
  <2>4. Above[a] = {a, Parent[a]} \cup Above[d] /\ d \in Above[a]
    BY <2>2, <2>3, ChildFacts
  <2>5. ASSUME NEW o, Owns(r, d, o), Direct(o), o.dir \in Above[a]
        PROVE  o = p
    <3>. DEFINE b == o.dir
    <3>1. /\ o \in Paths /\ b \in Dir /\ o.by = Parent[b]
          /\ Parent[b] \in Children(d) /\ Parent[b] \in Dir
      BY <2>1, <2>5, PartFacts, PathFacts DEF Direct, Children
    <3>2. b \in Children(Parent[b])
      BY <3>1 DEF Children
    <3>3. d \in Above[Parent[b]] /\ Parent[b] \notin Above[d]
      BY <3>1, ChildFacts
    <3>4. Above[b] = {b} \cup Above[Parent[b]] /\ b \notin Above[Parent[b]]
      BY <3>1, <3>2, ChildFacts
    <3>5. b \notin Above[d]
      BY <3>3, <3>4, <3>1, AboveIsTransitive
    <3>6. b # Parent[a]
      <4>. SUFFICES ASSUME b = Parent[a]
                   PROVE  FALSE
        OBVIOUS
      <4>1. Parent[b] = d
        BY <2>2 DEF Children
      <4>. QED
        BY <4>1, <3>1, AboveFacts, <3>3
    <3>7. b = a
      BY <2>4, <2>5, <3>5, <3>6
    <3>. QED
      BY <2>2, <3>1, <3>7, PathFacts
  <2>. QED
    BY <2>2, <2>4, <2>5
<1>. QED
  BY <1>1, <1>2, <1>3 DEF Owns

\* What is expected below one root is apart, but for what lies behind a link.
LEMMA ExpectedApart ==
    ASSUME IsTree(tree), NEW r, NEW a \in Expected(r), NEW b \in Expected(r),
           Direct(a), Direct(b), a # b
    PROVE  Contents(a.dir) \cap Contents(b.dir) = {}
<1>1. ASSUME NEW x \in Expected(r), NEW y \in Expected(r), Direct(x), Direct(y),
             x.dir \in Above[y.dir]
      PROVE  x = y
  <2>1. PICK d \in Dir : Owns(r, d, x)
    BY ExpectedIsOwned
  <2>2. PICK e \in Dir : Owns(r, e, y)
    BY ExpectedIsOwned
  <2>3. /\ x.dir \in Dir /\ y.dir \in Dir
        /\ d \in Above[x.dir] /\ e \in Above[y.dir]
    BY <1>1, <2>1, <2>2, OwnedFacts, PathFacts
  <2>4. d \in Above[y.dir]
    BY <1>1, <2>3, AboveIsTransitive
  <2>5. Taken(r, d) /\ Taken(r, e)
    BY <2>1, <2>2 DEF Owns
  <2>6. /\ Comes(r, d) /\ Hides(d)
        /\ Comes(r, e) /\ Hides(e)
    BY <2>5, Branches
  <2>7. d = e
    BY <2>3, <2>4, <2>5, <2>6, AboveIsAChain, HiddenBelow
  <2>. QED
    BY <1>1, <2>1, <2>2, <2>7, OwnedFacts
<1>2. a.dir \in Dir /\ b.dir \in Dir
  BY ExpectedIsOwned, PathFacts
<1>. QED
  BY <1>1, <1>2, ContentsApart

\* The tree stays, and with it everything that is said of it alone.
LEMMA SameTree ==
    ASSUME tree' = tree
    PROVE  /\ \A d : /\ Contents(d)' = Contents(d)
                     /\ Measure(d)' = Measure(d)
                     /\ Big(d)' <=> Big(d)
                     /\ OldEnough(d)' <=> OldEnough(d)
                     /\ FlutterBuilds(d)' = FlutterBuilds(d)
           /\ \A r, d : /\ Comes(r, d)' <=> Comes(r, d)
                        /\ Taken(r, d)' <=> Taken(r, d)
           /\ \A r : Expected(r)' = Expected(r)
<1>1. \A d : Contents(d)' = Contents(d)
  BY DEF Contents
<1>2. \A d : Measure(d)' = Measure(d)
  BY DEF Contents, Measure
<1>3. \A d : Big(d)' <=> Big(d)
  BY DEF Contents, Measure, Big
<1>4. \A d : OldEnough(d)' <=> OldEnough(d)
  BY DEF Contents, OldEnough, Active
<1>5. \A d : FlutterBuilds(d)' = FlutterBuilds(d)
  BY DEF FlutterBuilds, Newer, Big, Measure, Contents
<1>6. \A r, d : Comes(r, d)' <=> Comes(r, d)
  BY DEF Comes, Hides
<1>7. \A r, d : Taken(r, d)' <=> Taken(r, d)
  BY DEF Taken, Hides
<1>8. \A r : Expected(r)' = Expected(r)
  BY DEF Expected, Taken, Hides, OldEnough, Active, FlutterBuilds, Incrementals,
         Stale, Newer, Big, Measure, Contents
<1>. QED
  BY <1>1, <1>2, <1>3, <1>4, <1>5, <1>6, <1>7, <1>8

-----------------------------------------------------------------------------
(* The walk's steps.                                                       *)

\* The candidate that a path becomes, and what a listing adds.
CandidateOf(p, look, c) ==
    /\ At(c) = p /\ c.by = p.by /\ c.dir = p.dir
    /\ c.kind = look /\ c.root = root /\ c.bytes = Measure(p.dir)

LEMMA ListingAdds ==
    ASSUME ScanTypeOK, root \in Root, NEW ps \in SUBSET Paths, NEW look \in Look,
           Listing(ps, look)
    PROVE  /\ stale \subseteq stale'
           /\ stale' \subseteq Candidates
           /\ bytesSeen' \in Nat
           /\ \A p \in ps : Candidate(p, look) \in stale'
           /\ \A c \in stale' : c \in stale \/ \E p \in ps : c = Candidate(p, look)
           /\ \A p \in ps : CandidateOf(p, look, Candidate(p, look))
<1>1. \A p \in ps : p.by \in Dir \cup {NoDir} /\ p.dir \in Dir /\ Measure(p.dir) \in Nat
  BY ContentsFinite, PathFacts
<1>2. \A p \in ps : Candidate(p, look) \in Candidates
  BY <1>1 DEF Candidates, Candidate
<1>3. bytesSeen' \in Nat
  <2>1. SumOf(ps) \in Nat
    BY ContentsFinite
  <2>2. bytesSeen \in Nat
    BY DEF ScanTypeOK
  <2>. QED
    BY <2>1, <2>2 DEF Listing
<1>4. \A p \in ps : CandidateOf(p, look, Candidate(p, look))
  BY PathFacts DEF Candidate, CandidateOf, At
<1>. QED
  BY <1>2, <1>3, <1>4 DEF Listing, ScanTypeOK, Candidates

\* The two branches that list something, and the end of a root.
LEMMA KeepFreshFacts ==
    ASSUME ScanTypeOK, PlaceInv, NEW d \in Dir, KeepFresh(d)
    PROVE  /\ root \in Root /\ d \in open /\ Comes(root, d)
           /\ Hides(d) /\ Taken(root, d) /\ ~OldEnough(d)
           /\ open' = open \ {d}
           /\ warmTargets \subseteq warmTargets'
           /\ \A t \in warmTargets' : t \in warmTargets \/ t = d
           /\ tree.look[d] = "rust" => d \in warmTargets'
           /\ \A t \in warmTargets' : tree.look[t] = "rust"
           /\ FlutterBuilds(d) \in SUBSET Paths
           /\ FlutterBuilds(d) \subseteq Expected(root)
           /\ "flutter" \in Look
           /\ Listing(FlutterBuilds(d), "flutter")
<1>1. root \in Root /\ d \in open /\ Comes(root, d)
  BY DEF KeepFresh, Walking, ScanTypeOK, PlaceInv
<1>2. Hides(d) /\ Taken(root, d) /\ ~OldEnough(d)
  BY <1>1, Branches DEF KeepFresh, ScanTypeOK
<1>3. open' = open \ {d}
  BY DEF KeepFresh, Skipped
<1>4. /\ warmTargets \subseteq warmTargets'
      /\ \A t \in warmTargets' : t \in warmTargets \/ t = d
      /\ tree.look[d] = "rust" => d \in warmTargets'
      /\ \A t \in warmTargets' : tree.look[t] = "rust"
  BY DEF KeepFresh, WarmWith, ScanTypeOK
<1>5. FlutterBuilds(d) \in SUBSET Paths
  BY PartFacts DEF ScanTypeOK
<1>6. FlutterBuilds(d) \subseteq Expected(root)
  BY <1>2, ExpectedIsOwned DEF Owns, ScanTypeOK
<1>. QED
  BY <1>1, <1>2, <1>3, <1>4, <1>5, <1>6 DEF KeepFresh, Look

LEMMA ListStaleFacts ==
    ASSUME ScanTypeOK, PlaceInv, NEW d \in Dir, ListStale(d)
    PROVE  \E ps \in SUBSET {PathOf(d)} :
             /\ root \in Root /\ d \in open /\ Comes(root, d)
             /\ Hides(d) /\ Taken(root, d) /\ OldEnough(d)
             /\ open' = open \ {d}
             /\ ps \subseteq Paths
             /\ ps \subseteq Expected(root)
             /\ Big(d) => PathOf(d) \in ps
             /\ tree.look[d] \in Look \ {"incremental"}
             /\ Listing(ps, tree.look[d])
<1>. DEFINE ps == IF Big(d) THEN {PathOf(d)} ELSE {}
<1>1. root \in Root /\ d \in open /\ Comes(root, d)
  BY DEF ListStale, Walking, ScanTypeOK, PlaceInv
<1>2. Hides(d) /\ Taken(root, d) /\ OldEnough(d)
  BY <1>1, Branches DEF ListStale, ScanTypeOK
<1>3. open' = open \ {d}
  BY DEF ListStale, Skipped
<1>4. ps \subseteq Expected(root) /\ ps \subseteq Paths
  BY <1>2, ExpectedIsOwned, PathFacts DEF Owns, ScanTypeOK
<1>5. tree.look[d] \in Look \ {"incremental"}
  BY <1>2 DEF Taken, Artifact, Look
<1>6. Listing(ps, tree.look[d])
  BY DEF ListStale
<1>. QED
  BY <1>1, <1>2, <1>3, <1>4, <1>5, <1>6

LEMMA LeaveRootFacts ==
    ASSUME ScanTypeOK, PlaceInv, LeaveRoot
    PROVE  \E ps \in SUBSET Paths :
             /\ root \in Root /\ open = {} /\ open' = {}
             /\ root' = NoDir /\ warmTargets' = {}
             /\ ps \subseteq Expected(root)
             /\ \A t \in warmTargets : Incrementals(t) \subseteq ps
             /\ \A p \in ps : tree.look[p.dir] = "incremental"
             /\ "incremental" \in Look
             /\ Listing(ps, "incremental")
<1>. DEFINE ps == UNION {Incrementals(t) : t \in warmTargets}
<1>1. ps \in SUBSET Paths /\ \A p \in ps : tree.look[p.dir] = "incremental"
  <2>. SUFFICES ASSUME NEW t \in warmTargets, NEW p \in Incrementals(t)
               PROVE  p \in Paths /\ tree.look[p.dir] = "incremental"
    OBVIOUS
  <2>1. t \in Dir /\ IsTree(tree)
    BY DEF ScanTypeOK
  <2>. QED
    BY <2>1, PartFacts
<1>2. ps \subseteq Expected(root)
  <2>. SUFFICES ASSUME NEW t \in warmTargets, NEW i \in Incrementals(t)
               PROVE  i \in Expected(root)
    OBVIOUS
  <2>1. t \in Dir /\ Owns(root, t, i)
    BY DEF PlaceInv, ScanTypeOK, Owns
  <2>. QED
    BY <2>1, ExpectedIsOwned DEF ScanTypeOK
<1>3. root \in Root /\ open = {} /\ open' = {} /\ root' = NoDir /\ warmTargets' = {}
  BY DEF LeaveRoot, ScanTypeOK
<1>4. Listing(ps, "incremental")
  BY DEF LeaveRoot
<1>. QED
  BY <1>1, <1>2, <1>3, <1>4 DEF Look

\* What is the same in the steps that list nothing.
LEMMA DescendFacts ==
    ASSUME ScanTypeOK, PlaceInv, NEW d \in Dir, Descend(d)
    PROVE  /\ root \in Root /\ d \in open /\ Comes(root, d)
           /\ ~Hides(d) /\ ~Taken(root, d)
           /\ open' = (open \ {d}) \cup Children(d)
<1>1. root \in Root /\ d \in open /\ Comes(root, d)
  BY DEF Descend, Walking, ScanTypeOK, PlaceInv
<1>. QED
  BY <1>1, Branches DEF Descend, ScanTypeOK

LEMMA SkipFacts ==
    ASSUME ScanTypeOK, PlaceInv, NEW d \in Dir, SkipEntry(d)
    PROVE  /\ root \in Root /\ d \in open /\ Comes(root, d)
           /\ Hides(d) /\ ~Taken(root, d)
           /\ open' = open \ {d}
<1>1. root \in Root /\ d \in open /\ Comes(root, d)
  BY DEF SkipEntry, Walking, ScanTypeOK, PlaceInv
<1>. QED
  BY <1>1, Branches DEF SkipEntry, ScanTypeOK

-----------------------------------------------------------------------------
(* The parts of the invariant, each kept by every step.                    *)

\* The four actions that handle a directory, and what they leave alone.
LEMMA StepKinds ==
    ASSUME ScanTypeOK, [ScanNext]_scanVars
    PROVE  \/ \E r \in Root : EnterRoot(r)
           \/ \E d \in Dir : SkipEntry(d)
           \/ \E d \in Dir : Descend(d)
           \/ \E d \in Dir : KeepFresh(d)
           \/ \E d \in Dir : ListStale(d)
           \/ LeaveRoot
           \/ UNCHANGED scanVars
BY DEF ScanNext

LEMMA TreeStays ==
    ASSUME ScanTypeOK, [ScanNext]_scanVars
    PROVE  tree' = tree
BY StepKinds DEF EnterRoot, SkipEntry, Descend, KeepFresh, ListStale, LeaveRoot, scanVars

LEMMA ScanTypeInit ==
    ASSUME ScanInit
    PROVE  ScanTypeOK
BY TreesAssumption DEF ScanInit, ScanTypeOK

LEMMA ScanTypeNext ==
    ASSUME ScanTypeOK, PlaceInv, [ScanNext]_scanVars
    PROVE  ScanTypeOK'
<1>1. tree' = tree /\ IsTree(tree)'
  BY TreeStays DEF ScanTypeOK, IsTree
<1>2. CASE \E r \in Root : EnterRoot(r)
  <2>1. PICK r \in Root : EnterRoot(r)
    BY <1>2
  <2>2. r \in Dir
    BY RootAssumption
  <2>3. \A c \in Children(r) : c \in Dir /\ r \in Above[c] \ {c}
    BY <2>2, ChildFacts
  <2>. QED
    BY <1>1, <2>1, <2>3 DEF EnterRoot, ScanTypeOK
<1>3. CASE \E d \in Dir : SkipEntry(d)
  <2>1. PICK d \in Dir : SkipEntry(d)
    BY <1>3
  <2>. QED
    BY <1>1, <2>1 DEF SkipEntry, ScanTypeOK
<1>4. CASE \E d \in Dir : Descend(d)
  <2>1. PICK d \in Dir : Descend(d)
    BY <1>4
  <2>2. \A c \in Children(d) : Comes(root, c)
    BY <2>1, DescendFacts, ComesDown
  <2>3. \A c \in Children(d) : c \in Dir /\ root \in Above[c] \ {c}
    BY <2>2 DEF Comes, Children
  <2>. QED
    BY <1>1, <2>1, <2>3 DEF Descend, ScanTypeOK
<1>5. CASE \E d \in Dir : KeepFresh(d)
  <2>1. PICK d \in Dir : KeepFresh(d)
    BY <1>5
  <2>2. /\ root \in Root /\ open' \subseteq open /\ FlutterBuilds(d) \in SUBSET Paths
        /\ \A t \in warmTargets' : t \in warmTargets \/ t = d
        /\ \A t \in warmTargets' : tree.look[t] = "rust"
        /\ "flutter" \in Look
        /\ Listing(FlutterBuilds(d), "flutter")
    BY <2>1, KeepFreshFacts
  <2>3. stale' \subseteq Candidates /\ bytesSeen' \in Nat
    BY <2>2, ListingAdds
  <2>4. UNCHANGED <<todo, root>> /\ freshCount' = freshCount + 1
    BY <2>1 DEF KeepFresh
  <2>. QED
    BY <1>1, <2>2, <2>3, <2>4 DEF ScanTypeOK, Candidates
<1>6. CASE \E d \in Dir : ListStale(d)
  <2>1. PICK d \in Dir : ListStale(d)
    BY <1>6
  <2>2. PICK ps \in SUBSET {PathOf(d)} :
          /\ root \in Root /\ open' = open \ {d} /\ ps \subseteq Paths
          /\ tree.look[d] \in Look /\ Listing(ps, tree.look[d])
    BY <2>1, ListStaleFacts
  <2>3. stale' \subseteq Candidates /\ bytesSeen' \in Nat
    BY <2>2, ListingAdds
  <2>4. UNCHANGED <<todo, root, warmTargets, freshCount>>
    BY <2>1 DEF ListStale
  <2>. QED
    BY <1>1, <2>2, <2>3, <2>4 DEF ScanTypeOK, Candidates
<1>7. CASE LeaveRoot
  <2>1. PICK ps \in SUBSET Paths :
          /\ root \in Root /\ open' = {} /\ root' = NoDir /\ warmTargets' = {}
          /\ "incremental" \in Look /\ Listing(ps, "incremental")
    BY <1>7, LeaveRootFacts
  <2>2. stale' \subseteq Candidates /\ bytesSeen' \in Nat
    BY <2>1, ListingAdds
  <2>3. UNCHANGED <<todo, freshCount>>
    BY <1>7 DEF LeaveRoot
  <2>. QED
    BY <1>1, <2>1, <2>2, <2>3 DEF ScanTypeOK, Candidates
<1>8. CASE UNCHANGED scanVars
  BY <1>8 DEF scanVars, ScanTypeOK
<1>. QED
  BY <1>2, <1>3, <1>4, <1>5, <1>6, <1>7, <1>8, StepKinds

LEMMA PlaceInit ==
    ASSUME ScanInit
    PROVE  PlaceInv
BY RootAssumption, ParentAssumption DEF ScanInit, PlaceInv

\* Below a directory that is open, nothing else is; its children may follow it.
LEMMA OpenStaysApart ==
    ASSUME ScanTypeOK, PlaceInv, NEW d \in open, d \in Dir,
           NEW a \in (open \ {d}) \cup Children(d),
           NEW b \in (open \ {d}) \cup Children(d),
           a \in Above[b]
    PROVE  a = b
<1>1. open \subseteq Dir /\ \A x, y \in open : x \in Above[y] => x = y
  BY DEF ScanTypeOK, PlaceInv
<1>2. CASE a \in open \ {d} /\ b \in open \ {d}
  BY <1>1, <1>2
<1>3. CASE a \in open \ {d} /\ b \in Children(d)
  BY <1>1, <1>3, ChildFacts
<1>4. CASE a \in Children(d) /\ b \in open \ {d}
  <2>1. d \in Above[a] /\ b \in Dir
    BY <1>1, <1>4, ChildFacts
  <2>2. d \in Above[b]
    BY <2>1, AboveIsTransitive
  <2>. QED
    BY <1>1, <1>4, <2>2
<1>5. CASE a \in Children(d) /\ b \in Children(d)
  BY <1>5, ChildFacts
<1>. QED
  BY <1>2, <1>3, <1>4, <1>5

LEMMA PlaceNext ==
    ASSUME ScanTypeOK, PlaceInv, [ScanNext]_scanVars
    PROVE  PlaceInv'
<1>1. /\ \A r, d : Comes(r, d)' <=> Comes(r, d)
      /\ \A r, d : Taken(r, d)' <=> Taken(r, d)
      /\ \A d : OldEnough(d)' <=> OldEnough(d)
  BY TreeStays, SameTree
<1>2. NoDir \notin todo /\ todo \subseteq Root /\ Root \subseteq Dir
  BY RootAssumption, ParentAssumption DEF ScanTypeOK
<1>3. CASE \E r \in Root : EnterRoot(r)
  <2>1. PICK r \in Root : EnterRoot(r)
    BY <1>3
  <2>2. root = NoDir /\ open = {} /\ warmTargets = {} /\ warmTargets' = {}
    BY <2>1 DEF EnterRoot, PlaceInv
  <2>3. CASE tree.via[r] = "link"
    BY <2>1, <2>2, <2>3, <1>2 DEF EnterRoot, PlaceInv
  <2>4. CASE tree.via[r] # "link"
    <3>1. root' = r /\ open' = Children(r) /\ root' # NoDir /\ root' \notin todo'
      BY <2>1, <2>4, <1>2, ParentAssumption DEF EnterRoot
    <3>2. \A c \in Children(r) : Comes(r, c)
      BY <2>4, <1>2, ComesFirst
    <3>3. \A a, b \in Children(r) : a \in Above[b] => a = b
      BY <1>2, ChildFacts
    <3>. QED
      BY <2>2, <3>1, <3>2, <3>3, <1>1 DEF PlaceInv
  <2>. QED
    BY <2>3, <2>4
<1>4. CASE \E d \in Dir : SkipEntry(d)
  BY <1>1, <1>4 DEF SkipEntry, PlaceInv
<1>5. CASE \E d \in Dir : Descend(d)
  <2>1. PICK d \in Dir : Descend(d)
    BY <1>5
  <2>2. /\ d \in open /\ open' = (open \ {d}) \cup Children(d)
        /\ root # NoDir /\ UNCHANGED <<todo, root, warmTargets>>
    BY <2>1 DEF Descend, Walking
  <2>3. \A c \in Children(d) : Comes(root, c)
    BY <2>1, DescendFacts, ComesDown
  <2>4. \A a, b \in open' : a \in Above[b] => a = b
    BY <2>2, OpenStaysApart
  <2>. QED
    BY <1>1, <2>2, <2>3, <2>4 DEF PlaceInv
<1>6. CASE \E d \in Dir : KeepFresh(d)
  <2>1. PICK d \in Dir : KeepFresh(d)
    BY <1>6
  <2>2. /\ Taken(root, d) /\ ~OldEnough(d) /\ open' = open \ {d}
        /\ \A t \in warmTargets' : t \in warmTargets \/ t = d
    BY <2>1, KeepFreshFacts
  <2>3. root # NoDir /\ UNCHANGED <<todo, root>>
    BY <2>1 DEF KeepFresh, Walking
  <2>. QED
    BY <1>1, <2>2, <2>3 DEF PlaceInv
<1>7. CASE \E d \in Dir : ListStale(d)
  <2>1. PICK d \in Dir : ListStale(d)
    BY <1>7
  <2>2. open' = open \ {d} /\ root # NoDir /\ UNCHANGED <<todo, root, warmTargets>>
    BY <2>1 DEF ListStale, Walking, Skipped
  <2>. QED
    BY <1>1, <2>2 DEF PlaceInv
<1>8. CASE LeaveRoot
  BY <1>2, <1>8 DEF LeaveRoot, PlaceInv
<1>9. CASE UNCHANGED scanVars
  BY <1>1, <1>9 DEF scanVars, PlaceInv
<1>. QED
  BY <1>3, <1>4, <1>5, <1>6, <1>7, <1>8, <1>9, StepKinds

LEMMA ListedInit ==
    ASSUME ScanInit
    PROVE  ListedInv
BY DEF ScanInit, ListedInv

\* What a step leaves of the list, seen from where it leaves the walk.
LEMMA ListedStays ==
    ASSUME ScanTypeOK, ListedInv, tree' = tree, NEW c \in stale,
           todo' \subseteq todo,
           c.root = root' =>
                root' = root /\ \A d \in open' : d \in open \/ \E o \in open : o \in Above[d]
    PROVE  /\ c.root \notin todo'
           /\ At(c) \in Expected(c.root)'
           /\ c.kind = tree.look[c.dir]' /\ c.bytes = Measure(c.dir)'
           /\ c.root = root' => /\ tree.look[c.dir]' # "incremental"
                                /\ \A d \in open' : d \notin Above[c.dir]
<1>1. /\ c.root \notin todo /\ At(c) \in Expected(c.root) /\ c.dir \in Dir
      /\ c.kind = tree.look[c.dir] /\ c.bytes = Measure(c.dir)
      /\ c.root = root => /\ tree.look[c.dir] # "incremental"
                          /\ \A d \in open : d \notin Above[c.dir]
  BY DEF ListedInv, ScanTypeOK
<1>2. At(c) \in Expected(c.root)' /\ Measure(c.dir)' = Measure(c.dir)
  BY <1>1, SameTree
<1>3. ASSUME c.root = root', NEW d \in open', d \in Above[c.dir]
      PROVE  FALSE
  <2>1. d \in open \/ \E o \in open : o \in Above[d]
    BY <1>3
  <2>2. Above[d] \subseteq Above[c.dir]
    BY <1>1, <1>3, AboveIsTransitive
  <2>. QED
    BY <1>1, <1>3, <2>1, <2>2
<1>. QED
  BY <1>1, <1>2, <1>3

LEMMA ListedNext ==
    ASSUME ScanTypeOK, PlaceInv, ListedInv, [ScanNext]_scanVars
    PROVE  ListedInv'
<1>1. tree' = tree
  BY TreeStays
<1>. DEFINE Good(c) == /\ c.root \notin todo'
                       /\ At(c) \in Expected(c.root)'
                       /\ c.kind = tree.look[c.dir]' /\ c.bytes = Measure(c.dir)'
                       /\ c.root = root' => /\ tree.look[c.dir]' # "incremental"
                                            /\ \A d \in open' : d \notin Above[c.dir]
<1>2. SUFFICES \A c \in stale' : Good(c)
  BY DEF ListedInv
<1>. HIDE DEF Good
<1>3. /\ \A r : Expected(r)' = Expected(r)
      /\ \A d : Measure(d)' = Measure(d)
  BY <1>1, SameTree
<1>4. /\ root \in Root => root \notin todo /\ root # NoDir
      /\ \A c \in stale : c.root \in Root /\ c.root # NoDir
      /\ open \subseteq Dir
  BY RootAssumption, ParentAssumption DEF PlaceInv, ScanTypeOK
<1>5. CASE \E r \in Root : EnterRoot(r)
  <2>1. PICK r \in Root : EnterRoot(r)
    BY <1>5
  <2>2. /\ stale' = stale /\ todo' \subseteq todo /\ r \in todo
        /\ root = NoDir /\ (root' = root \/ root' = r)
    BY <2>1 DEF EnterRoot
  <2>3. \A c \in stale : c.root # root'
    BY <1>4, <2>2 DEF ListedInv
  <2>. QED
    BY <1>1, <2>2, <2>3, ListedStays DEF Good
<1>6. CASE \E d \in Dir : SkipEntry(d)
  <2>1. PICK d \in Dir : SkipEntry(d)
    BY <1>6
  <2>2. UNCHANGED <<stale, todo, root>> /\ open' \subseteq open
    BY <2>1 DEF SkipEntry
  <2>. QED
    BY <1>1, <2>2, ListedStays DEF Good
<1>7. CASE \E d \in Dir : Descend(d)
  <2>1. PICK d \in Dir : Descend(d)
    BY <1>7
  <2>2. /\ UNCHANGED <<stale, todo, root>> /\ d \in open
        /\ open' = (open \ {d}) \cup Children(d)
    BY <2>1 DEF Descend, Walking
  <2>3. \A x \in open' : x \in open \/ \E o \in open : o \in Above[x]
    BY <2>2, ChildFacts
  <2>. QED
    BY <1>1, <2>2, <2>3, ListedStays DEF Good
<1>8. CASE \E d \in Dir : KeepFresh(d)
  <2>1. PICK d \in Dir : KeepFresh(d)
    BY <1>8
  <2>2. /\ root \in Root /\ d \in open /\ open' = open \ {d}
        /\ FlutterBuilds(d) \in SUBSET Paths /\ FlutterBuilds(d) \subseteq Expected(root)
        /\ "flutter" \in Look
        /\ Listing(FlutterBuilds(d), "flutter")
    BY <2>1, KeepFreshFacts
  <2>3. UNCHANGED <<todo, root>>
    BY <2>1 DEF KeepFresh
  <2>4. \A c \in stale : Good(c)
    BY <1>1, <2>2, <2>3, ListedStays DEF Good
  <2>5. ASSUME NEW p \in FlutterBuilds(d), NEW c, c = Candidate(p, "flutter")
        PROVE  Good(c)
    <3>. DEFINE f == p.dir
    <3>1. f \in Children(d) /\ tree.look[f] = "flutter"
      BY PartFacts DEF ScanTypeOK
    <3>2. Above[f] = {f} \cup Above[d] /\ d \in Above[f]
      BY <3>1, ChildFacts
    <3>3. \A o \in open' : o \notin Above[f]
      BY <2>2, <3>2 DEF PlaceInv
    <3>4. /\ At(c) = p /\ c.dir = f /\ c.kind = "flutter" /\ c.root = root
          /\ c.bytes = Measure(f)
      <4>1. CandidateOf(p, "flutter", c)
        BY <2>2, <2>5, ListingAdds
      <4>. QED
        BY <4>1 DEF CandidateOf
    <3>. QED
      BY <1>1, <1>3, <1>4, <2>2, <2>3, <3>1, <3>3, <3>4 DEF Good
  <2>6. \A c \in stale' : c \in stale \/ \E p \in FlutterBuilds(d) : c = Candidate(p, "flutter")
    BY <2>2, ListingAdds
  <2>. QED
    BY <2>4, <2>5, <2>6
<1>9. CASE \E d \in Dir : ListStale(d)
  <2>1. PICK d \in Dir : ListStale(d)
    BY <1>9
  <2>2. PICK ps \in SUBSET {PathOf(d)} :
          /\ root \in Root /\ d \in open /\ open' = open \ {d}
          /\ ps \subseteq Paths /\ ps \subseteq Expected(root)
          /\ tree.look[d] \in Look \ {"incremental"}
          /\ Listing(ps, tree.look[d])
    BY <2>1, ListStaleFacts
  <2>3. UNCHANGED <<todo, root>>
    BY <2>1 DEF ListStale
  <2>4. \A c \in stale : Good(c)
    BY <1>1, <2>2, <2>3, ListedStays DEF Good
  <2>5. ASSUME NEW p \in ps, NEW c, c = Candidate(p, tree.look[d])
        PROVE  Good(c)
    <3>3. p = PathOf(d) /\ p.dir = d
      BY PathFacts
    <3>1. \A o \in open' : o \notin Above[d]
      BY <2>2 DEF PlaceInv
    <3>2. /\ At(c) = p /\ c.dir = d /\ c.kind = tree.look[d] /\ c.root = root
          /\ c.bytes = Measure(d)
      BY <2>2, <2>5, <3>3, ListingAdds DEF CandidateOf
    <3>. QED
      BY <1>1, <1>3, <1>4, <2>2, <2>3, <2>5, <3>1, <3>2 DEF Good
  <2>6. \A c \in stale' : c \in stale \/ \E x \in ps : c = Candidate(x, tree.look[d])
    BY <2>2, ListingAdds
  <2>. QED
    BY <2>2, <2>4, <2>5, <2>6
<1>10. CASE LeaveRoot
  <2>1. PICK ps \in SUBSET Paths :
          /\ root \in Root /\ open' = {} /\ root' = NoDir
          /\ ps \subseteq Expected(root)
          /\ \A p \in ps : tree.look[p.dir] = "incremental"
          /\ "incremental" \in Look
          /\ Listing(ps, "incremental")
    BY <1>10, LeaveRootFacts
  <2>2. todo' = todo
    BY <1>10 DEF LeaveRoot
  <2>3. \A c \in stale : Good(c)
    BY <1>1, <1>4, <2>1, <2>2, ListedStays DEF Good
  <2>4. ASSUME NEW p \in ps, NEW c, c = Candidate(p, "incremental")
        PROVE  Good(c)
    <3>2. root \in Root /\ "incremental" \in Look /\ Listing(ps, "incremental")
      BY <2>1
    <3>3. CandidateOf(p, "incremental", c)
      BY <2>4, <3>2, ListingAdds
    <3>1. /\ At(c) = p /\ c.dir = p.dir /\ c.kind = "incremental" /\ c.root = root
          /\ c.bytes = Measure(p.dir)
      BY <3>3 DEF CandidateOf
    <3>. QED
      BY <1>1, <1>3, <1>4, <2>1, <2>2, <3>1 DEF Good
  <2>5. \A c \in stale' : c \in stale \/ \E p \in ps : c = Candidate(p, "incremental")
    <3>1. root \in Root /\ "incremental" \in Look /\ Listing(ps, "incremental")
      BY <2>1
    <3>. QED
      BY <3>1, ListingAdds
  <2>. QED
    BY <2>3, <2>4, <2>5
<1>11. CASE UNCHANGED scanVars
  BY <1>1, <1>11, ListedStays DEF Good, scanVars
<1>. QED
  BY <1>5, <1>6, <1>7, <1>8, <1>9, <1>10, <1>11, StepKinds

LEMMA AheadInit ==
    ASSUME ScanInit
    PROVE  AheadInv
<1>1. \A d \in Dir : ~Taken(root, d)
  BY AboveFacts, ParentAssumption DEF ScanInit, Taken
<1>. QED
  BY <1>1 DEF ScanInit, AheadInv

\* A step below one root, at the open directory d, which may go on below d or
\* settle what is there.
LEMMA AheadOneStep ==
    ASSUME ScanTypeOK, PlaceInv, AheadInv, tree' = tree,
           todo' = todo, root' = root, stale \subseteq stale',
           warmTargets \subseteq warmTargets',
           NEW d \in Dir, open \ {d} \subseteq open',
           Comes(root, d),
           Taken(root, d) => Settled(d)',
           Hides(d) \/ Children(d) \subseteq open'
    PROVE  AheadInv'
<1>1. /\ \A r, x : Taken(r, x)' <=> Taken(r, x)
      /\ \A r : Expected(r)' = Expected(r)
      /\ \A x : OldEnough(x)' <=> OldEnough(x)
      /\ \A x : Big(x)' <=> Big(x)
      /\ \A x : FlutterBuilds(x)' = FlutterBuilds(x)
  BY SameTree
<1>2. \A r, x : Listed(r, x) => Listed(r, x)'
  BY DEF Listed
<1>3. \A x : Settled(x) => Settled(x)'
  BY <1>1, <1>2 DEF Settled
<1>4. ASSUME NEW x \in Dir, Taken(root, x), ~Settled(x)'
      PROVE  \E o \in open' : o \in Above[x]
  <2>1. PICK o \in open : o \in Above[x]
    BY <1>3, <1>4 DEF AheadInv
  <2>2. CASE o # d
    BY <2>1, <2>2
  <2>3. CASE o = d
    <3>1. x # d
      BY <1>4
    <3>2. ~Hides(d)
      BY <1>4, <2>1, <2>3, <3>1, HiddenBelow
    <3>3. \E c \in Children(d) : c \in Above[x]
      BY <2>1, <2>3, <3>1, WayDown
    <3>. QED
      BY <3>2, <3>3
  <2>. QED
    BY <2>2, <2>3
<1>. QED
  BY <1>1, <1>2, <1>4 DEF AheadInv

LEMMA AheadNext ==
    ASSUME ScanTypeOK, PlaceInv, AheadInv, [ScanNext]_scanVars
    PROVE  AheadInv'
<1>1. tree' = tree
  BY TreeStays
<1>2. /\ \A r, x : Taken(r, x)' <=> Taken(r, x)
      /\ \A r : Expected(r)' = Expected(r)
      /\ \A x : OldEnough(x)' <=> OldEnough(x)
      /\ \A x : Big(x)' <=> Big(x)
      /\ \A x : FlutterBuilds(x)' = FlutterBuilds(x)
  BY <1>1, SameTree
<1>3. \A d \in Dir : ~Taken(NoDir, d)
  BY AboveFacts, ParentAssumption DEF Taken
<1>4. CASE \E r \in Root : EnterRoot(r)
  <2>1. PICK r \in Root : EnterRoot(r)
    BY <1>4
  <2>2. /\ r \in Dir /\ r # NoDir
        /\ root = NoDir /\ todo' = todo \ {r} /\ UNCHANGED stale
    BY <2>1, RootAssumption, ParentAssumption DEF EnterRoot
  <2>3. \A s, e : Listed(s, e)' <=> Listed(s, e)
    BY <2>2 DEF Listed
  <2>4. CASE tree.via[r] = "link"
    <3>1. root' = NoDir
      BY <2>1, <2>2, <2>4 DEF EnterRoot
    <3>2. Expected(r) = {}
      BY <2>4, ExpectedIsOwned DEF Owns, Taken, ScanTypeOK
    <3>. QED
      BY <1>2, <1>3, <2>2, <2>3, <3>1, <3>2 DEF AheadInv
  <2>5. CASE tree.via[r] # "link"
    <3>1. root' = r /\ open' = Children(r)
      BY <2>1, <2>5 DEF EnterRoot
    <3>2. ASSUME NEW d \in Dir, Taken(r, d)
          PROVE  \E o \in open' : o \in Above[d]
      <4>1. r \in Above[d] /\ r # d
        BY <3>2 DEF Taken
      <4>. QED
        BY <3>1, <4>1, WayDown
    <3>3. ASSUME NEW s \in Root \ (todo' \cup {root'}), NEW e \in Expected(s)
          PROVE  Listed(s, e)
      <4>1. s \in Root \ (todo \cup {root})
        BY <2>2, <3>1, RootAssumption, ParentAssumption
      <4>. QED
        BY <4>1 DEF AheadInv
    <3>4. \A s \in Root \ (todo' \cup {root'}) : \A e \in Expected(s)' : Listed(s, e)'
      BY <1>2, <2>3, <3>3
    <3>5. \A d \in Dir : Taken(root, d)' => \E o \in open' : o \in Above[d]
      BY <1>2, <3>1, <3>2
    <3>. QED
      BY <3>4, <3>5 DEF AheadInv
  <2>. QED
    BY <2>4, <2>5
<1>5. CASE \E d \in Dir : SkipEntry(d)
  <2>1. PICK d \in Dir : SkipEntry(d)
    BY <1>5
  <2>2. Comes(root, d) /\ Hides(d) /\ ~Taken(root, d) /\ open' = open \ {d}
    BY <2>1, SkipFacts
  <2>3. UNCHANGED <<todo, root, stale, warmTargets>>
    BY <2>1 DEF SkipEntry
  <2>. QED
    BY <1>1, <2>2, <2>3, AheadOneStep
<1>6. CASE \E d \in Dir : Descend(d)
  <2>1. PICK d \in Dir : Descend(d)
    BY <1>6
  <2>2. /\ Comes(root, d) /\ ~Taken(root, d)
        /\ open' = (open \ {d}) \cup Children(d)
    BY <2>1, DescendFacts
  <2>3. UNCHANGED <<todo, root, stale, warmTargets>>
    BY <2>1 DEF Descend
  <2>. QED
    BY <1>1, <2>2, <2>3, AheadOneStep
<1>7. CASE \E d \in Dir : KeepFresh(d)
  <2>1. PICK d \in Dir : KeepFresh(d)
    BY <1>7
  <2>2. /\ root \in Root /\ Comes(root, d) /\ Hides(d) /\ ~OldEnough(d)
        /\ open' = open \ {d} /\ warmTargets \subseteq warmTargets'
        /\ tree.look[d] = "rust" => d \in warmTargets'
        /\ FlutterBuilds(d) \in SUBSET Paths /\ "flutter" \in Look
        /\ Listing(FlutterBuilds(d), "flutter")
    BY <2>1, KeepFreshFacts
  <2>3. UNCHANGED <<todo, root>>
    BY <2>1 DEF KeepFresh
  <2>4. /\ stale \subseteq stale'
        /\ \A p \in FlutterBuilds(d) :
             /\ Candidate(p, "flutter") \in stale'
             /\ At(Candidate(p, "flutter")) = p
             /\ Candidate(p, "flutter").root = root
    <3>1. /\ stale \subseteq stale'
          /\ \A p \in FlutterBuilds(d) :
               /\ Candidate(p, "flutter") \in stale'
               /\ CandidateOf(p, "flutter", Candidate(p, "flutter"))
      BY <2>2, ListingAdds
    <3>. QED
      BY <3>1 DEF CandidateOf
  <2>5. \A p \in FlutterBuilds(d) : Listed(root, p)'
    BY <2>3, <2>4 DEF Listed
  <2>6. Settled(d)'
    BY <1>1, <1>2, <2>2, <2>3, <2>5 DEF Settled
  <2>. QED
    BY <1>1, <2>2, <2>3, <2>4, <2>6, AheadOneStep
<1>8. CASE \E d \in Dir : ListStale(d)
  <2>1. PICK d \in Dir : ListStale(d)
    BY <1>8
  <2>2. PICK ps \in SUBSET {PathOf(d)} :
          /\ root \in Root /\ Comes(root, d) /\ Hides(d) /\ OldEnough(d)
          /\ open' = open \ {d}
          /\ ps \subseteq Paths
          /\ Big(d) => PathOf(d) \in ps
          /\ tree.look[d] \in Look
          /\ Listing(ps, tree.look[d])
    BY <2>1, ListStaleFacts
  <2>3. UNCHANGED <<todo, root, warmTargets>>
    BY <2>1 DEF ListStale
  <2>4. /\ stale \subseteq stale'
        /\ \A x \in ps :
             /\ Candidate(x, tree.look[d]) \in stale'
             /\ At(Candidate(x, tree.look[d])) = x
             /\ Candidate(x, tree.look[d]).root = root
    <3>. DEFINE l == tree.look[d]
    <3>1. /\ l \in Look /\ ps \in SUBSET Paths /\ root \in Root /\ Listing(ps, l)
      BY <2>2
    <3>. HIDE DEF l
    <3>2. /\ stale \subseteq stale'
          /\ \A x \in ps :
               /\ Candidate(x, l) \in stale'
               /\ CandidateOf(x, l, Candidate(x, l))
      BY <3>1, ListingAdds
    <3>3. \A x \in ps : /\ At(Candidate(x, l)) = x
                        /\ Candidate(x, l).root = root
      BY <3>2 DEF CandidateOf
    <3>. QED
      BY <3>2, <3>3 DEF l
  <2>5. Big(d) => Listed(root, PathOf(d))'
    BY <2>2, <2>3, <2>4 DEF Listed
  <2>6. Settled(d)'
    BY <1>2, <2>2, <2>3, <2>5 DEF Settled
  <2>. QED
    BY <1>1, <2>2, <2>3, <2>4, <2>6, AheadOneStep
<1>9. CASE LeaveRoot
  <2>1. PICK ps \in SUBSET Paths :
          /\ root \in Root /\ open = {} /\ root' = NoDir
          /\ \A t \in warmTargets : Incrementals(t) \subseteq ps
          /\ "incremental" \in Look
          /\ Listing(ps, "incremental")
    BY <1>9, LeaveRootFacts
  <2>2. todo' = todo
    BY <1>9 DEF LeaveRoot
  <2>3. /\ stale \subseteq stale'
        /\ \A p \in ps :
             /\ Candidate(p, "incremental") \in stale'
             /\ At(Candidate(p, "incremental")) = p
             /\ Candidate(p, "incremental").root = root
    BY <2>1, ListingAdds DEF CandidateOf
  <2>4. \A r, x : Listed(r, x) => Listed(r, x)'
    BY <2>3 DEF Listed
  <2>5. \A p \in ps : \E c \in stale' : c.root = root /\ At(c) = p
    BY <2>3
  <2>6. ASSUME NEW e \in Expected(root)
        PROVE  \E c \in stale' : c.root = root /\ At(c) = e
    <3>1. PICK d \in Dir : Owns(root, d, e)
      BY ExpectedIsOwned DEF ScanTypeOK
    <3>2. Settled(d)
      BY <2>1, <3>1 DEF AheadInv, Owns
    <3>. QED
      BY <2>1, <2>3, <2>5, <3>1, <3>2 DEF Owns, Settled, Listed
  <2>7. ASSUME NEW r \in Root, r \notin todo, NEW e \in Expected(r)
        PROVE  Listed(r, e)'
    <3>1. CASE r = root
      BY <2>6, <2>7, <3>1 DEF Listed
    <3>2. CASE r # root
      BY <2>4, <2>7, <3>2 DEF AheadInv
    <3>. QED
      BY <3>1, <3>2
  <2>. QED
    BY <1>2, <1>3, <2>1, <2>2, <2>7 DEF AheadInv
<1>10. CASE UNCHANGED scanVars
  <2>1. \A r, x : Listed(r, x)' <=> Listed(r, x)
    BY <1>10 DEF Listed, scanVars
  <2>2. \A x : Settled(x)' <=> Settled(x)
    BY <1>2, <1>10, <2>1 DEF Settled, scanVars
  <2>. QED
    BY <1>2, <1>10, <2>1, <2>2 DEF AheadInv, scanVars
<1>. QED
  BY <1>4, <1>5, <1>6, <1>7, <1>8, <1>9, <1>10, StepKinds

LEMMA CountInit ==
    ASSUME ScanInit
    PROVE  CountInv
<1>1. Counted = {} /\ bytesSeen = 0
  BY DEF ScanInit, Counted
<1>. QED
  BY <1>1, FS_EmptySet DEF CountInv

\* What a listing adds up is what it adds to the pairs of a candidate and
\* something in it.
LEMMA ListingCounts ==
    ASSUME ScanTypeOK, CountInv, tree' = tree, root \in Root,
           NEW ps \in SUBSET Paths, NEW look \in Look, Listing(ps, look),
           \A p \in ps : ~Listed(root, p)
    PROVE  CountInv'
<1>. DEFINE Pairs == UNION {{p} \X Contents(p.dir) : p \in ps}
            New == UNION {{Candidate(p, look)} \X Contents(p.dir) : p \in ps}
            f == [x \in Pairs |-> <<Candidate(x[1], look), x[2]>>]
<1>1. \A d : Contents(d)' = Contents(d)
  BY SameTree
<1>2. /\ stale \subseteq stale'
      /\ \A p \in ps : Candidate(p, look) \in stale'
      /\ \A c \in stale' : c \in stale \/ \E p \in ps : c = Candidate(p, look)
      /\ \A p \in ps : /\ At(Candidate(p, look)) = p
                       /\ Candidate(p, look).dir = p.dir
                       /\ Candidate(p, look).root = root
  BY ListingAdds DEF CandidateOf
<1>3. IsFiniteSet(Pairs)
  BY ContentsFinite
<1>4. f \in Bijection(Pairs, New)
  <2>1. ASSUME NEW x \in Pairs
        PROVE  f[x] \in New
    <3>1. PICK p \in ps : x \in {p} \X Contents(p.dir)
      OBVIOUS
    <3>2. f[x] \in {Candidate(p, look)} \X Contents(p.dir)
      BY <3>1
    <3>. QED
      BY <3>2
  <2>2. ASSUME NEW x \in Pairs, NEW y \in Pairs, f[x] = f[y]
        PROVE  x = y
    <3>1. PICK p \in ps : x \in {p} \X Contents(p.dir)
      OBVIOUS
    <3>2. PICK o \in ps : y \in {o} \X Contents(o.dir)
      OBVIOUS
    <3>3. /\ Candidate(p, look) = Candidate(o, look) /\ x[2] = y[2]
          /\ x = <<p, x[2]>> /\ y = <<o, y[2]>>
      BY <2>2, <3>1, <3>2
    <3>4. p = o
      BY <1>2, <3>3
    <3>. QED
      BY <3>3, <3>4
  <2>3. ASSUME NEW n \in New
        PROVE  \E x \in Pairs : f[x] = n
    <3>1. PICK p \in ps : n \in {Candidate(p, look)} \X Contents(p.dir)
      OBVIOUS
    <3>2. <<p, n[2]>> \in Pairs /\ n = <<Candidate(p, look), n[2]>>
      BY <3>1
    <3>. QED
      BY <3>2
  <2>4. f \in [Pairs -> New]
    BY <2>1
  <2>. QED
    BY <2>2, <2>3, <2>4, Zenon DEF Bijection, Injection, Surjection, IsInjective
<1>5. IsFiniteSet(New) /\ Cardinality(New) = SumOf(ps)
  BY <1>3, <1>4, FS_Bijection DEF SumOf, ExistsBijection
<1>6. IsFiniteSet(Counted)
  BY DEF CountInv
<1>7. Counted \cap New = {}
  <2>. SUFFICES ASSUME NEW n \in Counted, n \in New
               PROVE  FALSE
    OBVIOUS
  <2>1. PICK c \in stale : n \in {c} \X Contents(c.dir)
    BY DEF Counted
  <2>2. PICK p \in ps : n \in {Candidate(p, look)} \X Contents(p.dir)
    OBVIOUS
  <2>3. c = Candidate(p, look)
    BY <2>1, <2>2
  <2>. QED
    BY <1>2, <2>3 DEF Listed
<1>8. Counted' = Counted \cup New
  <2>2. Counted' = UNION {{c} \X Contents(c.dir) : c \in stale'}
    BY <1>1 DEF Counted
  <2>3. ASSUME NEW n, n \in Counted'
        PROVE  n \in Counted \cup New
    <3>1. PICK c \in stale' : n \in {c} \X Contents(c.dir)
      BY <2>2, <2>3
    <3>2. CASE c \in stale
      BY <3>1, <3>2 DEF Counted
    <3>3. CASE \E p \in ps : c = Candidate(p, look)
      <4>1. PICK p \in ps : c = Candidate(p, look)
        BY <3>3
      <4>2. n \in {Candidate(p, look)} \X Contents(p.dir)
        BY <1>2, <3>1, <4>1
      <4>. QED
        BY <4>2
    <3>. QED
      BY <1>2, <3>2, <3>3
  <2>4. ASSUME NEW n \in Counted
        PROVE  n \in Counted'
    <3>1. PICK c \in stale : n \in {c} \X Contents(c.dir)
      BY DEF Counted
    <3>. QED
      BY <1>2, <2>2, <3>1
  <2>5. ASSUME NEW n \in New
        PROVE  n \in Counted'
    <3>1. PICK p \in ps : n \in {Candidate(p, look)} \X Contents(p.dir)
      OBVIOUS
    <3>2. /\ Candidate(p, look) \in stale'
          /\ n \in {Candidate(p, look)} \X Contents(Candidate(p, look).dir)
      BY <1>2, <3>1
    <3>. QED
      BY <2>2, <3>2
  <2>. QED
    BY <2>3, <2>4, <2>5
<1>9. Cardinality(Counted \cup New) = Cardinality(Counted) + Cardinality(New)
  <2>1. Cardinality(Counted \cap New) = 0
    BY <1>7, FS_EmptySet
  <2>2. Cardinality(Counted) \in Nat /\ Cardinality(New) \in Nat
    BY <1>5, <1>6, FS_CardinalityType
  <2>3. Cardinality(Counted \cup New)
          = Cardinality(Counted) + Cardinality(New) - Cardinality(Counted \cap New)
    BY <1>5, <1>6, FS_Union
  <2>. QED
    BY <2>1, <2>2, <2>3
<1>10. IsFiniteSet(Counted \cup New)
  BY <1>5, <1>6, FS_Union
<1>. QED
  BY <1>5, <1>8, <1>9, <1>10 DEF CountInv, Listing

LEMMA CountNext ==
    ASSUME ScanTypeOK, PlaceInv, ListedInv, CountInv, [ScanNext]_scanVars
    PROVE  CountInv'
<1>1. tree' = tree
  BY TreeStays
<1>2. ASSUME UNCHANGED <<stale, bytesSeen>>
      PROVE  CountInv'
  <2>1. \A d : Contents(d)' = Contents(d)
    BY <1>1, SameTree
  <2>2. Counted' = Counted
    BY <1>2, <2>1 DEF Counted
  <2>. QED
    BY <1>2, <2>2 DEF CountInv
<1>3. CASE \E d \in Dir : KeepFresh(d)
  <2>1. PICK d \in Dir : KeepFresh(d)
    BY <1>3
  <2>2. /\ root \in Root /\ d \in open
        /\ FlutterBuilds(d) \in SUBSET Paths
        /\ "flutter" \in Look
        /\ Listing(FlutterBuilds(d), "flutter")
    BY <2>1, KeepFreshFacts
  <2>3. \A p \in FlutterBuilds(d) : d \in Above[p.dir]
    BY PartFacts, ChildFacts DEF ScanTypeOK
  <2>4. \A p \in FlutterBuilds(d) : ~Listed(root, p)
    BY <2>2, <2>3, PathFacts DEF ListedInv, Listed, At
  <2>. QED
    BY <1>1, <2>2, <2>4, ListingCounts
<1>4. CASE \E d \in Dir : ListStale(d)
  <2>1. PICK d \in Dir : ListStale(d)
    BY <1>4
  <2>2. PICK ps \in SUBSET {PathOf(d)} :
          /\ root \in Root /\ d \in open
          /\ ps \subseteq Paths
          /\ tree.look[d] \in Look
          /\ Listing(ps, tree.look[d])
    BY <2>1, ListStaleFacts
  <2>3. \A x \in ps : ~Listed(root, x)
    BY <2>2, AboveFacts, PathFacts DEF ListedInv, Listed, At
  <2>. QED
    BY <1>1, <2>2, <2>3, ListingCounts
<1>5. CASE LeaveRoot
  <2>1. PICK ps \in SUBSET Paths :
          /\ root \in Root
          /\ \A p \in ps : tree.look[p.dir] = "incremental"
          /\ "incremental" \in Look
          /\ Listing(ps, "incremental")
    BY <1>5, LeaveRootFacts
  <2>2. \A p \in ps : ~Listed(root, p)
    BY <2>1, PathFacts DEF ListedInv, Listed, At
  <2>. QED
    BY <1>1, <2>1, <2>2, ListingCounts
<1>6. CASE (\E r \in Root : EnterRoot(r)) \/ (\E d \in Dir : SkipEntry(d) \/ Descend(d))
  BY <1>2, <1>6 DEF EnterRoot, SkipEntry, Descend
<1>7. CASE UNCHANGED scanVars
  BY <1>2, <1>7 DEF scanVars
<1>. QED
  BY <1>3, <1>4, <1>5, <1>6, <1>7, StepKinds

-----------------------------------------------------------------------------
(* The theorems.                                                           *)

LEMMA ScanInvariant == ScanSpec => []ScanInv
<1>1. ScanInit => ScanInv
  BY ScanTypeInit, PlaceInit, ListedInit, AheadInit, CountInit DEF ScanInv
<1>2. ScanInv /\ [ScanNext]_scanVars => ScanInv'
  BY ScanTypeNext, PlaceNext, ListedNext, AheadNext, CountNext DEF ScanInv
<1>. QED
  BY <1>1, <1>2, PTL DEF ScanSpec

\* The walk's variables keep their types, whatever the tree.
THEOREM ScanTypeCorrect == ScanSpec => []ScanTypeOK
<1>1. ScanInv => ScanTypeOK
  BY DEF ScanInv
<1>. QED
  BY <1>1, ScanInvariant, PTL

\* In any tree, links among its directories included, below any roots and in
\* any order the walk takes, it lists exactly the paths that the rules describe
\* (scan.rs 221-338).
THEOREM ScanFindsExactly == ScanSpec => []ScanIsExact
<1>1. ScanInv => ScanIsExact
  <2>. SUFFICES ASSUME ScanInv, Over
               PROVE  {<<c.root, Path(c.by, c.dir)>> : c \in stale}
                        = UNION {{r} \X Expected(r) : r \in Root}
    BY DEF ScanIsExact
  <2>1. \A c \in stale : c.root \in Root /\ At(c) \in Expected(c.root)
    BY DEF ScanInv, ScanTypeOK, ListedInv
  <2>2. root \notin Root /\ todo = {}
    BY RootAssumption, ParentAssumption DEF Over
  <2>3. \A r \in Root : \A e \in Expected(r) : \E c \in stale : c.root = r /\ At(c) = e
    BY <2>2 DEF ScanInv, AheadInv, Listed
  <2>. QED
    BY <2>1, <2>3 DEF At
<1>. QED
  BY <1>1, ScanInvariant, PTL

\* Below one root no candidate contains another, unless one was found through
\* a linked profile; and what the walk adds up is what the candidates hold, each
\* path measured exactly once (scan.rs 282, 196-203).
THEOREM ScanCountsOnce == ScanSpec => []CountedOnce
<1>1. ScanInv => CountedOnce
  <2>. SUFFICES ASSUME ScanInv
               PROVE  CountedOnce
    OBVIOUS
  <2>1. IsTree(tree) /\ stale \subseteq Candidates
    BY DEF ScanInv, ScanTypeOK, Candidates
  <2>2. ASSUME NEW c \in stale, Aliased(c)
        PROVE  c.kind = "incremental" /\ tree.via[c.by] = "link"
    <3>1. /\ At(c) \in Expected(c.root) /\ c.kind = tree.look[c.dir]
          /\ At(c).by = c.by /\ At(c).dir = c.dir
      BY PathFacts DEF ScanInv, ListedInv, At
    <3>2. PICK d \in Dir : Owns(c.root, d, At(c))
      BY <2>1, <3>1, ExpectedIsOwned
    <3>3. CASE At(c) = PathOf(d)
      BY <2>2, <3>1, <3>3, PathFacts DEF Aliased
    <3>4. CASE At(c) \in FlutterBuilds(d)
      <4>1. At(c) = PathOf(c.dir) /\ c.dir \in Dir
        BY <2>1, <3>1, <3>4, PartFacts DEF Candidates
      <4>. QED
        BY <2>2, <3>1, <4>1, PathFacts DEF Aliased
    <3>5. CASE At(c) \in Incrementals(d)
      BY <2>1, <2>2, <3>1, <3>5, PartFacts DEF Aliased
    <3>. QED
      BY <3>2, <3>3, <3>4, <3>5 DEF Owns
  <2>3. ASSUME NEW b \in stale, NEW c \in stale, b.root = c.root, b # c,
               ~Aliased(b), ~Aliased(c)
        PROVE  Contents(b.dir) \cap Contents(c.dir) = {}
    <3>1. /\ At(b) \in Expected(c.root) /\ At(c) \in Expected(c.root)
          /\ b.kind = tree.look[b.dir] /\ b.bytes = Measure(b.dir)
          /\ c.kind = tree.look[c.dir] /\ c.bytes = Measure(c.dir)
      BY <2>3 DEF ScanInv, ListedInv
    <3>2. /\ At(b).by = b.by /\ At(b).dir = b.dir
          /\ At(c).by = c.by /\ At(c).dir = c.dir
      BY PathFacts DEF At
    <3>3. At(b) # At(c)
      BY <2>1, <2>3, <3>1, <3>2 DEF Candidates
    <3>4. Direct(At(b)) /\ Direct(At(c))
      BY <2>3, <3>2 DEF Direct, Aliased
    <3>. QED
      BY <2>1, <3>1, <3>2, <3>3, <3>4, ExpectedApart
  <2>. QED
    BY <2>2, <2>3 DEF ScanInv, CountInv, Counted, CountedOnce
<1>. QED
  BY <1>1, ScanInvariant, PTL

\* The walk comes to an end: a step takes a root, takes a directory and never
\* comes back to it below this root, or leaves the root.  There are finitely
\* many of each.  (No link is followed: scan.rs 241-244.)
Ahead == {d \in Dir : \E o \in open : o \in Above[d]}

Advances ==
    \/ todo' \subseteq todo /\ todo' # todo
    \/ UNCHANGED <<todo, root>> /\ Ahead' \subseteq Ahead /\ Ahead' # Ahead
    \/ UNCHANGED todo /\ root # NoDir /\ root' = NoDir

WalkAdvances == [][Advances]_scanVars

\* No directory is come to twice below a root, so a walk of a finite tree ends.
THEOREM NoDirectoryTwice == ScanSpec => WalkAdvances
<1>1. ASSUME ScanTypeOK, PlaceInv, NEW d \in Dir, d \in open,
             UNCHANGED <<todo, root>>,
             open' \subseteq (open \ {d}) \cup Children(d)
      PROVE  Advances
  <2>1. Ahead' = {x \in Dir : \E o \in open' : o \in Above[x]}
    BY DEF Ahead
  <2>2. \A x \in Dir : \A c \in Children(d) : c \in Above[x] => d \in Above[x]
    BY ChildFacts, AboveIsTransitive
  <2>3. Ahead' \subseteq Ahead
    BY <1>1, <2>1, <2>2 DEF Ahead
  <2>4. d \in Ahead
    BY <1>1, AboveFacts DEF Ahead
  <2>5. d \notin Ahead'
    <3>1. \A o \in open \ {d} : o \notin Above[d]
      BY <1>1 DEF PlaceInv
    <3>2. \A c \in Children(d) : c \notin Above[d]
      BY ChildFacts
    <3>. QED
      BY <1>1, <2>1, <3>1, <3>2
  <2>. QED
    BY <1>1, <2>3, <2>4, <2>5 DEF Advances
<1>2. ASSUME ScanInv, [ScanNext]_scanVars
      PROVE  [Advances]_scanVars
  <2>1. CASE \E r \in Root : EnterRoot(r)
    BY <2>1 DEF EnterRoot, Advances
  <2>2. CASE \E d \in Dir : SkipEntry(d)
    BY <1>1, <1>2, <2>2 DEF SkipEntry, Walking, ScanInv
  <2>3. CASE \E d \in Dir : Descend(d)
    BY <1>1, <1>2, <2>3 DEF Descend, Walking, ScanInv
  <2>4. CASE \E d \in Dir : KeepFresh(d)
    BY <1>1, <1>2, <2>4 DEF KeepFresh, Walking, Skipped, ScanInv
  <2>5. CASE \E d \in Dir : ListStale(d)
    BY <1>1, <1>2, <2>5 DEF ListStale, Walking, Skipped, ScanInv
  <2>6. CASE LeaveRoot
    BY <2>6 DEF LeaveRoot, Advances
  <2>7. CASE UNCHANGED scanVars
    BY <2>7
  <2>. QED
    BY <1>2, <2>1, <2>2, <2>3, <2>4, <2>5, <2>6, <2>7, StepKinds DEF ScanInv
<1>3. ScanInv /\ [ScanNext]_scanVars => [Advances]_scanVars
  BY <1>2
<1>. QED
  BY <1>3, ScanInvariant, PTL DEF ScanSpec, WalkAdvances

\* README.md 213-214 and tests/integration.rs 164, as far as they hold: an
\* artifact that is listed lies below its root by plain directories, and nothing
\* on the way, nor the artifact, is protected.  (The parts of a warm artifact
\* may lie behind a link or a mount: StaysInside.)
ArtifactsInside ==
    \A c \in stale : c.kind \in Artifact =>
        \A m \in Above[c.dir] \ Above[c.root] :
            tree.via[m] = "plain" /\ m \notin tree.guarded

\* Listed artifacts are inside their root, in any tree.
THEOREM ArtifactsStayInside == ScanSpec => []ArtifactsInside
<1>1. ScanInv => ArtifactsInside
  <2>. SUFFICES ASSUME ScanInv, NEW c \in stale, c.kind \in Artifact,
                       NEW m \in Above[c.dir] \ Above[c.root]
               PROVE  tree.via[m] = "plain" /\ m \notin tree.guarded
    BY DEF ArtifactsInside
  <2>1. /\ At(c) \in Expected(c.root) /\ tree.look[c.dir] \in Artifact
        /\ IsTree(tree) /\ At(c).dir = c.dir
    BY PathFacts DEF ScanInv, ScanTypeOK, ListedInv, At
  <2>2. PICK d \in Dir : Owns(c.root, d, At(c))
    BY <2>1, ExpectedIsOwned
  <2>3. c.dir = d
    BY <2>1, <2>2, PartFacts, PathFacts DEF Owns, Artifact
  <2>. QED
    BY <2>2, <2>3 DEF Owns, Taken, Hides
<1>. QED
  BY <1>1, ScanInvariant, PTL

=============================================================================
