------------------------- MODULE CleanerRunsProofs -------------------------
(***************************************************************************)
(* What CleanerRuns guarantees for every number of invocations, process    *)
(* ids and caches, every interval and every value of the bounds.           *)
(***************************************************************************)
EXTENDS CleanerRuns, TLAPS

\* The last conjunct of TypeOK that is not about one variable: an invocation
\* that is at work has a process id.
HasPid == \A r \in Run : Live(r) => pid[r] \in Pid

\* A completion is only made once a cache is selected.
HasCache ==
    \A r \in Run : pc[r] \in {"gc", "kill"} \/ uv[r] # "none"
        => target[r] \in Cache

\* The ledger in memory has at most one entry, as the file has.
OneEntry == \A r \in Run : \A e, f \in snap[r] : e = f

TypeInv == TypeOK /\ HasPid /\ HasCache /\ OneEntry

LEMMA TypeInit == Init => TypeInv
<1> SUFFICES ASSUME Init PROVE TypeInv
    OBVIOUS
<1>. USE BoundsAssumption
<1>1. TypeOK
    BY DEF Init, TypeOK, FileState, Location, Result, UvPhase, Critical, Ended
<1>2. HasPid /\ HasCache /\ OneEntry
    BY DEF Init, HasPid, HasCache, OneEntry, Live, Ended
<1>. QED
    BY <1>1, <1>2 DEF TypeInv

\* A staging file has a name the model has.
LEMMA TempType ==
    ASSUME TypeInv, NEW r \in Run, Live(r), NEW w \in BOOLEAN
    PROVE  TempOf(r, w) \in Temp
<1>1. pid[r] \in Pid
    BY DEF TypeInv, HasPid
<1>2. Sequence(r) \in {0, 1}
    BY DEF Sequence
<1>. QED
    BY <1>1, <1>2 DEF TempOf, Temp

\* The two outcomes of creating a staging file.
LEMMA CreateTempCases ==
    ASSUME NEW r \in Run, CreateTemp(r)
    PROVE  /\ pc[r] = "create"
           /\ \/ /\ temps' = temps \cup {TempOf(r, FALSE)}
                 /\ pc' = [pc EXCEPT ![r] = "write"]
                 /\ lock' = lock
              \/ /\ temps' = temps
                 /\ Abort(r)
           /\ UNCHANGED <<environment, ledger, ledgerFile, reportBy,
                          reportFile, dry, pid, snap, target, result, saving,
                          uv, history>>
    BY DEF CreateTemp, Goto

\* Every action leaves every variable in its type: one step per action.
LEMMA TypeNext == TypeInv /\ [Next]_vars => TypeInv'
<1> SUFFICES ASSUME TypeInv, [Next]_vars PROVE TypeInv'
    OBVIOUS
<1>. USE NoRunAssumption, BoundsAssumption
<1>. USE DEF TypeInv, TypeOK, HasPid, HasCache, OneEntry, Live, Ended, Abort,
           Goto
<1>1. ASSUME NEW r \in Run, Start(r) PROVE TypeInv'
    BY <1>1 DEF Start, environment, files, memory, history, vars,
       Location, Critical, Result, FileState, UvPhase
<1>2. ASSUME NEW r \in Run, AcquireLock(r) PROVE TypeInv'
    BY <1>2 DEF AcquireLock, environment, files, memory, history, vars,
       Location, Critical, Result, FileState, UvPhase, TakeLock, LockHeld
<1>3. ASSUME NEW r \in Run, LoadLedger(r) PROVE TypeInv'
    BY <1>3 DEF LoadLedger, environment, files, memory, history, vars,
       Location, Critical, Result, FileState, UvPhase
<1>4. ASSUME NEW r \in Run, CheckReport(r) \/ Inventory(r) PROVE TypeInv'
    BY <1>4 DEF CheckReport, Inventory, environment, files, memory, history,
       vars,
       Location, Critical, Result, FileState, UvPhase
<1>5. ASSUME NEW r \in Run, Decline(r) PROVE TypeInv'
    BY <1>5 DEF Decline, environment, files, memory, history, vars,
       Location, Critical, Result, FileState, UvPhase
<1>6. ASSUME NEW r \in Run, Decide(r) PROVE TypeInv'
    BY <1>6 DEF Decide, environment, files, memory, history, vars,
       Location, Critical, Result, FileState, UvPhase, Spawns, Due
<1>7. ASSUME NEW r \in Run, FinishGc(r) PROVE TypeInv'
    BY <1>7 DEF FinishGc, environment, files, memory, history, vars,
       Location, Critical, Result, FileState, UvPhase, Recorded, GcSucceeded,
       SaveOrder, Completion, UvPhase
<1>8. ASSUME NEW r \in Run, TimeoutGc(r) PROVE TypeInv'
    BY <1>8 DEF TimeoutGc, environment, files, memory, history, vars,
       Location, Critical, Result, FileState, UvPhase, DeadlinePasses,
       UvRunning
<1>9. ASSUME NEW r \in Run, KillGc(r) PROVE TypeInv'
    BY <1>9 DEF KillGc, environment, files, memory, history, vars,
       Location, Critical, Result, FileState, UvPhase, TerminateTree, UvRunning
<1>10. ASSUME NEW r \in Run, CheckDestination(r) PROVE TypeInv'
    BY <1>10 DEF CheckDestination, environment, files, memory, history, vars,
       Location, Critical, Result, FileState, UvPhase
<1>11. ASSUME NEW r \in Run, CreateTemp(r) PROVE TypeInv'
  <2>1. TempOf(r, FALSE) \in Temp
    BY <1>11, TempType DEF CreateTemp
  <2>2. CASE temps' = temps /\ Abort(r)
    BY <1>11, <2>2, CreateTempCases DEF environment, history, Location,
       Critical
  <2>3. CASE /\ temps' = temps \cup {TempOf(r, FALSE)}
             /\ pc' = [pc EXCEPT ![r] = "write"]
             /\ lock' = lock
    <3>1. temps' \in SUBSET Temp
        BY <2>1, <2>3, Zenon
    <3>. QED
        BY <1>11, <2>3, <3>1, CreateTempCases
        DEF environment, history, Location, Critical
  <2>. QED
    BY <1>11, <2>2, <2>3, CreateTempCases, Zenon
<1>12. ASSUME NEW r \in Run, WriteTemp(r) PROVE TypeInv'
  <2>1. temps' \in SUBSET Temp
    <3>1. Written(r) \in Temp
        BY <1>12, TempType DEF WriteTemp, Written
    <3>. QED
        BY <1>12, <3>1 DEF WriteTemp, Unstaged
  <2>. QED
    BY <1>12, <2>1 DEF WriteTemp, environment, history, Location, Critical
<1>13. ASSUME NEW r \in Run, RenameRefused(r) PROVE TypeInv'
    BY <1>13 DEF RenameRefused, environment, files, memory, history, vars,
       Location, Critical, Result, FileState, UvPhase, Unstaged
<1>14. ASSUME NEW r \in Run, RenameLedger(r) PROVE TypeInv'
  <2>1. /\ ledger' \in SUBSET Completion
        /\ ledgerFile' \in FileState
        /\ temps' \in SUBSET Temp
    BY <1>14 DEF RenameLedger, Unstaged, FileState
  <2>2. /\ pc' \in [Run -> Location]
        /\ saving' \in [Run -> {"ledger", "report"}]
        /\ HasPid' /\ HasCache'
    BY <1>14 DEF RenameLedger, AfterReplacement, SaveOrder, Location, Critical
  <2>. QED
    BY <1>14, <2>1, <2>2 DEF RenameLedger, environment, history
<1>15. ASSUME NEW r \in Run, RenameReport(r) PROVE TypeInv'
  <2>1. /\ reportBy' \in Run \cup {NoRun}
        /\ reportFile' \in FileState
        /\ temps' \in SUBSET Temp
    BY <1>15 DEF RenameReport, Unstaged, FileState
  <2>2. /\ pc' \in [Run -> Location]
        /\ saving' \in [Run -> {"ledger", "report"}]
        /\ HasPid' /\ HasCache'
    BY <1>15 DEF RenameReport, AfterReplacement, SaveOrder, Location, Critical
  <2>. QED
    BY <1>15, <2>1, <2>2 DEF RenameReport, environment, history
<1>16. ASSUME NEW r \in Run, Return(r) PROVE TypeInv'
    BY <1>16 DEF Return, environment, files, memory, history, vars,
       Location, Critical, Result, FileState, UvPhase
<1>17. ASSUME NEW r \in Run, StorageFault(r) PROVE TypeInv'
    BY <1>17 DEF StorageFault, environment, files, memory, history, vars,
       Location, Critical, Result, FileState, UvPhase
<1>18. ASSUME NEW r \in Run, Crash(r) PROVE TypeInv'
    BY <1>18 DEF Crash, environment, files, memory, history, vars,
       Location, Critical, Result, FileState, UvPhase, UvRunning
<1>19. ASSUME NEW r \in Run, UvLock(r) PROVE TypeInv'
    BY <1>19 DEF UvLock, environment, files, memory, history, vars,
       Location, Critical, Result, FileState, UvPhase
<1>20. ASSUME NEW r \in Run, UvFail(r) PROVE TypeInv'
    BY <1>20 DEF UvFail, environment, files, memory, history, vars,
       Location, Critical, Result, FileState, UvPhase, UvRunning
<1>21. ASSUME NEW r \in Run, UvComplete(r) PROVE TypeInv'
    BY <1>21 DEF UvComplete, environment, files, memory, history, vars,
       Location, Critical, Result, FileState, UvPhase, Completion
<1>22. CASE Tick
    BY <1>22 DEF Tick, environment, files, memory, history, vars, FileState
<1>23. CASE SetClockBack
    BY <1>23 DEF SetClockBack, environment, files, memory, history, vars,
       FileState
<1>24. CASE EditLedger
    BY <1>24 DEF EditLedger, environment, files, memory, history, vars,
       FileState
<1>25. CASE EditReport
    BY <1>25 DEF EditReport, environment, files, memory, history, vars,
       FileState
<1>26. CASE UNCHANGED vars
    BY <1>26 DEF environment, files, memory, history, vars
<1>. QED
    BY <1>1, <1>2, <1>3, <1>4, <1>5, <1>6, <1>7, <1>8, <1>9, <1>10, <1>11,
       <1>12, <1>13, <1>14, <1>15, <1>16, <1>17, <1>18, <1>19, <1>20, <1>21,
       <1>22, <1>23, <1>24, <1>25, <1>26 DEF Next, RunStep, AllEnded

-----------------------------------------------------------------------------
(* Who holds the lock.                                                     *)

\* The lock is held exactly by the run that is in its section, and a preview
\* never leaves the steps that only read.
LockInv ==
    /\ \A r \in Run : InSection(r) <=> lock = r
    /\ \A r \in Run : dry[r] => pc[r] \in {"load", "dest", "scan", "probe"} \cup Ended

LEMMA LockInit == Init => LockInv
    BY NoRunAssumption DEF Init, LockInv, InSection, Critical

LEMMA LockNext == TypeInv /\ LockInv /\ [Next]_vars => LockInv'
<1> SUFFICES ASSUME TypeInv, LockInv, [Next]_vars PROVE LockInv'
    OBVIOUS
<1>. USE NoRunAssumption
<1>. USE DEF TypeInv, TypeOK, LockInv, InSection, Critical, Ended, Abort, Goto
<1>1. ASSUME NEW r \in Run, Start(r) PROVE LockInv'
    BY <1>1 DEF Start, Live, FreePid, environment, files, memory, history
<1>2. ASSUME NEW r \in Run, AcquireLock(r) PROVE LockInv'
    BY <1>2 DEF AcquireLock, TakeLock, LockHeld, environment, files, memory,
       history
<1>3. ASSUME NEW r \in Run, LoadLedger(r) PROVE LockInv'
    BY <1>3 DEF LoadLedger, environment, files, memory, history
<1>4. ASSUME NEW r \in Run, CheckReport(r) \/ Inventory(r) PROVE LockInv'
    BY <1>4 DEF CheckReport, Inventory, environment, files, memory, history
<1>5. ASSUME NEW r \in Run, Decline(r) PROVE LockInv'
    BY <1>5 DEF Decline, environment, files, memory, history
<1>6. ASSUME NEW r \in Run, Decide(r) PROVE LockInv'
    BY <1>6 DEF Decide, Spawns, Due, environment, files, memory, history
<1>7. ASSUME NEW r \in Run, FinishGc(r) PROVE LockInv'
    BY <1>7 DEF FinishGc, Recorded, GcSucceeded, SaveOrder, environment,
       files, memory, history
<1>8. ASSUME NEW r \in Run, TimeoutGc(r) PROVE LockInv'
    BY <1>8 DEF TimeoutGc, DeadlinePasses, environment, files, memory, history
<1>9. ASSUME NEW r \in Run, KillGc(r) PROVE LockInv'
    BY <1>9 DEF KillGc, TerminateTree, environment, files, memory, history
<1>10. ASSUME NEW r \in Run, CheckDestination(r) PROVE LockInv'
    BY <1>10 DEF CheckDestination, environment, files, memory, history
<1>11. ASSUME NEW r \in Run, CreateTemp(r) PROVE LockInv'
  <2>1. \/ pc' = [pc EXCEPT ![r] = "write"] /\ lock' = lock
        \/ Abort(r)
    BY <1>11 DEF CreateTemp
  <2>2. pc[r] = "create" /\ UNCHANGED <<dry>>
    BY <1>11 DEF CreateTemp, environment, history
  <2>. QED
    BY <2>1, <2>2
<1>12. ASSUME NEW r \in Run, WriteTemp(r) PROVE LockInv'
    BY <1>12 DEF WriteTemp, Unstaged, Written, environment, files, memory,
       history
<1>13. ASSUME NEW r \in Run, RenameRefused(r) PROVE LockInv'
    BY <1>13 DEF RenameRefused, Unstaged, environment, files, memory, history
<1>14. ASSUME NEW r \in Run, RenameLedger(r) PROVE LockInv'
    BY <1>14 DEF RenameLedger, Unstaged, AfterReplacement, environment,
       files, memory, history
<1>15. ASSUME NEW r \in Run, RenameReport(r) PROVE LockInv'
    BY <1>15 DEF RenameReport, Unstaged, AfterReplacement, environment,
       files, memory, history
<1>16. ASSUME NEW r \in Run, Return(r) PROVE LockInv'
    BY <1>16 DEF Return, environment, files, memory, history
<1>17. ASSUME NEW r \in Run, StorageFault(r) PROVE LockInv'
    BY <1>17 DEF StorageFault, environment, files, memory, history
<1>18. ASSUME NEW r \in Run, Crash(r) PROVE LockInv'
    BY <1>18 DEF Crash, Live, environment, files, memory, history
<1>19. ASSUME NEW r \in Run, UvLock(r) PROVE LockInv'
    BY <1>19 DEF UvLock, environment, files, memory, history
<1>20. ASSUME NEW r \in Run, UvFail(r) PROVE LockInv'
    BY <1>20 DEF UvFail, environment, files, memory, history
<1>21. ASSUME NEW r \in Run, UvComplete(r) PROVE LockInv'
    BY <1>21 DEF UvComplete, environment, files, memory, history
<1>22. CASE Tick
    BY <1>22 DEF Tick, environment, files, memory, history
<1>23. CASE SetClockBack
    BY <1>23 DEF SetClockBack, environment, files, memory, history
<1>24. CASE EditLedger
    BY <1>24 DEF EditLedger, environment, files, memory, history
<1>25. CASE EditReport
    BY <1>25 DEF EditReport, environment, files, memory, history
<1>26. CASE UNCHANGED vars
    BY <1>26 DEF vars, environment, files, memory, history
<1>. QED
    BY <1>1, <1>2, <1>3, <1>4, <1>5, <1>6, <1>7, <1>8, <1>9, <1>10, <1>11,
       <1>12, <1>13, <1>14, <1>15, <1>16, <1>17, <1>18, <1>19, <1>20, <1>21,
       <1>22, <1>23, <1>24, <1>25, <1>26 DEF Next, RunStep, AllEnded

-----------------------------------------------------------------------------
(* Whose uv process runs.                                                  *)

\* A uv process runs while its run waits for it or is about to kill it; one
\* whose run was killed only where the OS lets it.
GcInv ==
    \A r \in Run :
        /\ pc[r] = "crashed" => crashes > 0
        /\ uv[r] \in UvRunning => \/ pc[r] \in {"gc", "kill"}
                                  \/ pc[r] = "crashed" /\ ~KillOnClose

LEMMA GcInit == Init => GcInv
    BY DEF Init, GcInv, UvRunning

LEMMA GcNext == TypeInv /\ GcInv /\ [Next]_vars => GcInv'
<1> SUFFICES ASSUME TypeInv, GcInv, [Next]_vars PROVE GcInv'
    OBVIOUS
<1>. USE BoundsAssumption
<1>. USE DEF TypeInv, TypeOK, GcInv, UvRunning, Ended, Abort, Goto
<1>1. ASSUME NEW r \in Run, Start(r) PROVE GcInv'
    BY <1>1 DEF Start, Live, FreePid, environment, files, memory, history
<1>2. ASSUME NEW r \in Run, AcquireLock(r) PROVE GcInv'
    BY <1>2 DEF AcquireLock, TakeLock, LockHeld, environment, files, memory,
       history
<1>3. ASSUME NEW r \in Run, LoadLedger(r) PROVE GcInv'
    BY <1>3 DEF LoadLedger, environment, files, memory, history
<1>4. ASSUME NEW r \in Run, CheckReport(r) \/ Inventory(r) PROVE GcInv'
    BY <1>4 DEF CheckReport, Inventory, environment, files, memory, history
<1>5. ASSUME NEW r \in Run, Decline(r) PROVE GcInv'
    BY <1>5 DEF Decline, environment, files, memory, history
<1>6. ASSUME NEW r \in Run, Decide(r) PROVE GcInv'
    BY <1>6 DEF Decide, Spawns, Due, environment, files, memory, history
<1>7. ASSUME NEW r \in Run, FinishGc(r) PROVE GcInv'
    BY <1>7 DEF FinishGc, Recorded, GcSucceeded, SaveOrder, environment,
       files, memory, history
<1>8. ASSUME NEW r \in Run, TimeoutGc(r) PROVE GcInv'
    BY <1>8 DEF TimeoutGc, DeadlinePasses, environment, files, memory, history
<1>9. ASSUME NEW r \in Run, KillGc(r) PROVE GcInv'
    BY <1>9 DEF KillGc, TerminateTree, environment, files, memory, history
<1>10. ASSUME NEW r \in Run, CheckDestination(r) PROVE GcInv'
    BY <1>10 DEF CheckDestination, environment, files, memory, history
<1>11. ASSUME NEW r \in Run, CreateTemp(r) PROVE GcInv'
    BY <1>11 DEF CreateTemp, environment, files, memory, history
<1>12. ASSUME NEW r \in Run, WriteTemp(r) PROVE GcInv'
    BY <1>12 DEF WriteTemp, Unstaged, Written, environment, files, memory,
       history
<1>13. ASSUME NEW r \in Run, RenameRefused(r) PROVE GcInv'
    BY <1>13 DEF RenameRefused, Unstaged, environment, files, memory, history
<1>14. ASSUME NEW r \in Run, RenameLedger(r) PROVE GcInv'
    BY <1>14 DEF RenameLedger, Unstaged, AfterReplacement, environment,
       files, memory, history
<1>15. ASSUME NEW r \in Run, RenameReport(r) PROVE GcInv'
    BY <1>15 DEF RenameReport, Unstaged, AfterReplacement, environment,
       files, memory, history
<1>16. ASSUME NEW r \in Run, Return(r) PROVE GcInv'
    BY <1>16 DEF Return, environment, files, memory, history
<1>17. ASSUME NEW r \in Run, StorageFault(r) PROVE GcInv'
    BY <1>17 DEF StorageFault, environment, files, memory, history
<1>18. ASSUME NEW r \in Run, Crash(r) PROVE GcInv'
    BY <1>18 DEF Crash, Live, environment, files, memory, history
<1>19. ASSUME NEW r \in Run, UvLock(r) PROVE GcInv'
    BY <1>19 DEF UvLock, environment, files, memory, history
<1>20. ASSUME NEW r \in Run, UvFail(r) PROVE GcInv'
    BY <1>20 DEF UvFail, environment, files, memory, history
<1>21. ASSUME NEW r \in Run, UvComplete(r) PROVE GcInv'
    BY <1>21 DEF UvComplete, environment, files, memory, history
<1>22. CASE Tick
    BY <1>22 DEF Tick, environment, files, memory, history
<1>23. CASE SetClockBack
    BY <1>23 DEF SetClockBack, environment, files, memory, history
<1>24. CASE EditLedger
    BY <1>24 DEF EditLedger, environment, files, memory, history
<1>25. CASE EditReport
    BY <1>25 DEF EditReport, environment, files, memory, history
<1>26. CASE UNCHANGED vars
    BY <1>26 DEF vars, environment, files, memory, history
<1>. QED
    BY <1>1, <1>2, <1>3, <1>4, <1>5, <1>6, <1>7, <1>8, <1>9, <1>10, <1>11,
       <1>12, <1>13, <1>14, <1>15, <1>16, <1>17, <1>18, <1>19, <1>20, <1>21,
       <1>22, <1>23, <1>24, <1>25, <1>26 DEF Next, RunStep, AllEnded

-----------------------------------------------------------------------------
(* What a decision reads.                                                  *)

\* Until it decides, a run that holds the lock has in memory what the ledger
\* file holds, and the report can be replaced - or somebody edited a file.
FreshInv ==
    \A r \in Run :
        /\ seen[r] <= edits
        /\ lock = r /\ seen[r] = edits /\ pc[r] \in {"dest", "scan", "probe"} =>
              /\ ledger = snap[r]
              /\ ledgerFile = "sound"
              /\ pc[r] \in {"scan", "probe"} => reportFile # "directory"

LEMMA FreshInit == Init => FreshInv
    BY NoRunAssumption DEF Init, FreshInv

LEMMA FreshNext == TypeInv /\ LockInv /\ FreshInv /\ [Next]_vars => FreshInv'
<1> SUFFICES ASSUME TypeInv, LockInv, FreshInv, [Next]_vars PROVE FreshInv'
    OBVIOUS
<1>. USE NoRunAssumption, BoundsAssumption
<1>. USE DEF TypeInv, TypeOK, LockInv, InSection, Critical, FreshInv, Ended,
           Abort, Goto
<1>1. ASSUME NEW r \in Run, Start(r) PROVE FreshInv'
    BY <1>1 DEF Start, Live, FreePid, environment, files, memory, history
<1>2. ASSUME NEW r \in Run, AcquireLock(r) PROVE FreshInv'
    BY <1>2 DEF AcquireLock, TakeLock, LockHeld, environment, files, memory,
       history
<1>3. ASSUME NEW r \in Run, LoadLedger(r) PROVE FreshInv'
    BY <1>3 DEF LoadLedger, environment, files, memory, history
<1>4. ASSUME NEW r \in Run, CheckReport(r) \/ Inventory(r) PROVE FreshInv'
    BY <1>4 DEF CheckReport, Inventory, environment, files, memory, history
<1>5. ASSUME NEW r \in Run, Decline(r) PROVE FreshInv'
    BY <1>5 DEF Decline, environment, files, memory, history
<1>6. ASSUME NEW r \in Run, Decide(r) PROVE FreshInv'
    BY <1>6 DEF Decide, Spawns, Due, environment, files, memory, history
<1>7. ASSUME NEW r \in Run, FinishGc(r) PROVE FreshInv'
    BY <1>7 DEF FinishGc, Recorded, GcSucceeded, SaveOrder, environment,
       files, memory, history
<1>8. ASSUME NEW r \in Run, TimeoutGc(r) PROVE FreshInv'
    BY <1>8 DEF TimeoutGc, DeadlinePasses, environment, files, memory, history
<1>9. ASSUME NEW r \in Run, KillGc(r) PROVE FreshInv'
    BY <1>9 DEF KillGc, TerminateTree, environment, files, memory, history
<1>10. ASSUME NEW r \in Run, CheckDestination(r) PROVE FreshInv'
    BY <1>10 DEF CheckDestination, environment, files, memory, history
<1>11. ASSUME NEW r \in Run, CreateTemp(r) PROVE FreshInv'
  <2>1. \/ pc' = [pc EXCEPT ![r] = "write"] /\ lock' = lock
        \/ Abort(r)
    BY <1>11, CreateTempCases
  <2>2. pc[r] = "create" /\ UNCHANGED <<edits, ledger, ledgerFile, reportFile, snap, seen, dry>>
    BY <1>11 DEF CreateTemp, environment, history
  <2>. QED
    BY <2>1, <2>2
<1>12. ASSUME NEW r \in Run, WriteTemp(r) PROVE FreshInv'
    BY <1>12 DEF WriteTemp, Unstaged, Written, environment, files, memory,
       history
<1>13. ASSUME NEW r \in Run, RenameRefused(r) PROVE FreshInv'
    BY <1>13 DEF RenameRefused, Unstaged, environment, files, memory, history
<1>14. ASSUME NEW r \in Run, RenameLedger(r) PROVE FreshInv'
  <2>1. /\ pc[r] = "rename" /\ lock = r
        /\ UNCHANGED <<lock, edits, reportFile, snap, seen>>
    BY <1>14 DEF RenameLedger, environment, history
  <2>2. \A s \in Run \ {r} : pc'[s] = pc[s]
    BY <1>14 DEF RenameLedger, AfterReplacement
  <2>3. pc'[r] \in {"check", "unlock"}
    BY <1>14 DEF RenameLedger, AfterReplacement
  <2>. QED
    BY <2>1, <2>2, <2>3
<1>15. ASSUME NEW r \in Run, RenameReport(r) PROVE FreshInv'
    BY <1>15 DEF RenameReport, Unstaged, AfterReplacement, environment,
       files, memory, history
<1>16. ASSUME NEW r \in Run, Return(r) PROVE FreshInv'
    BY <1>16 DEF Return, environment, files, memory, history
<1>17. ASSUME NEW r \in Run, StorageFault(r) PROVE FreshInv'
    BY <1>17 DEF StorageFault, environment, files, memory, history
<1>18. ASSUME NEW r \in Run, Crash(r) PROVE FreshInv'
    BY <1>18 DEF Crash, Live, environment, files, memory, history
<1>19. ASSUME NEW r \in Run, UvLock(r) PROVE FreshInv'
    BY <1>19 DEF UvLock, environment, files, memory, history
<1>20. ASSUME NEW r \in Run, UvFail(r) PROVE FreshInv'
    BY <1>20 DEF UvFail, environment, files, memory, history
<1>21. ASSUME NEW r \in Run, UvComplete(r) PROVE FreshInv'
    BY <1>21 DEF UvComplete, environment, files, memory, history
<1>22. CASE Tick
    BY <1>22 DEF Tick, environment, files, memory, history
<1>23. CASE SetClockBack
    BY <1>23 DEF SetClockBack, environment, files, memory, history
<1>24. CASE EditLedger
    BY <1>24 DEF EditLedger, environment, files, memory, history
<1>25. CASE EditReport
    BY <1>25 DEF EditReport, environment, files, memory, history
<1>26. CASE UNCHANGED vars
    BY <1>26 DEF vars, environment, files, memory, history
<1>. QED
    BY <1>1, <1>2, <1>3, <1>4, <1>5, <1>6, <1>7, <1>8, <1>9, <1>10, <1>11,
       <1>12, <1>13, <1>14, <1>15, <1>16, <1>17, <1>18, <1>19, <1>20, <1>21,
       <1>22, <1>23, <1>24, <1>25, <1>26 DEF Next, RunStep, AllEnded

-----------------------------------------------------------------------------
(* What the ledger may say.                                                *)

\* The completion e was made by an invocation that saw its uv succeed.
Backed(e) ==
    /\ result[e.by] = "pruned"
    /\ \E s \in successes : s.by = e.by /\ s.cache = e.cache

\* A result is only "pruned" once uv has completed on the selected cache, and
\* neither result nor cache changes afterwards; every completion in memory and
\* on disk is backed.
HistoryInv ==
    /\ \A r \in Run :
        /\ pc[r] \in {"idle", "lock", "load", "dest", "scan", "probe"} =>
              uv[r] = "none" /\ result[r] = "none"
        /\ pc[r] \in {"gc", "kill"} => result[r] = "none"
        /\ uv[r] = "pruned" =>
              \E s \in successes : s.by = r /\ s.cache = target[r]
        /\ \A e \in snap[r] : Backed(e)
    /\ \A e \in ledger : Backed(e)

LEMMA HistoryInit == Init => HistoryInv
    BY DEF Init, HistoryInv

LEMMA HistoryNext == TypeInv /\ HistoryInv /\ [Next]_vars => HistoryInv'
<1> SUFFICES ASSUME TypeInv, HistoryInv, [Next]_vars PROVE HistoryInv'
    OBVIOUS
<1>. USE DEF TypeInv, TypeOK, HasCache, HistoryInv, Backed, Completion,
           Ended, Abort, Goto
<1>1. ASSUME NEW r \in Run, Start(r) PROVE HistoryInv'
    BY <1>1 DEF Start, Live, FreePid, environment, files, memory, history
<1>2. ASSUME NEW r \in Run, AcquireLock(r) PROVE HistoryInv'
    BY <1>2 DEF AcquireLock, TakeLock, LockHeld, environment, files, memory,
       history
<1>3. ASSUME NEW r \in Run, LoadLedger(r) PROVE HistoryInv'
    BY <1>3 DEF LoadLedger, environment, files, memory, history
<1>4. ASSUME NEW r \in Run, CheckReport(r) \/ Inventory(r) PROVE HistoryInv'
    BY <1>4 DEF CheckReport, Inventory, environment, files, memory, history
<1>5. ASSUME NEW r \in Run, Decline(r) PROVE HistoryInv'
    BY <1>5 DEF Decline, environment, files, memory, history
<1>6. ASSUME NEW r \in Run, Decide(r) PROVE HistoryInv'
    BY <1>6 DEF Decide, Spawns, Due, environment, files, memory, history
<1>7. ASSUME NEW r \in Run, FinishGc(r) PROVE HistoryInv'
    BY <1>7 DEF FinishGc, Recorded, GcSucceeded, SaveOrder, environment,
       files, memory, history
<1>8. ASSUME NEW r \in Run, TimeoutGc(r) PROVE HistoryInv'
    BY <1>8 DEF TimeoutGc, DeadlinePasses, environment, files, memory, history
<1>9. ASSUME NEW r \in Run, KillGc(r) PROVE HistoryInv'
    BY <1>9 DEF KillGc, TerminateTree, environment, files, memory, history
<1>10. ASSUME NEW r \in Run, CheckDestination(r) PROVE HistoryInv'
    BY <1>10 DEF CheckDestination, environment, files, memory, history
<1>11. ASSUME NEW r \in Run, CreateTemp(r) PROVE HistoryInv'
  <2>1. \/ pc' = [pc EXCEPT ![r] = "write"] /\ lock' = lock
        \/ Abort(r)
    BY <1>11 DEF CreateTemp
  <2>2. pc[r] = "create" /\ UNCHANGED <<ledger, snap, target, result, uv, successes>>
    BY <1>11 DEF CreateTemp, environment, history
  <2>. QED
    BY <2>1, <2>2
<1>12. ASSUME NEW r \in Run, WriteTemp(r) PROVE HistoryInv'
    BY <1>12 DEF WriteTemp, Unstaged, Written, environment, files, memory,
       history
<1>13. ASSUME NEW r \in Run, RenameRefused(r) PROVE HistoryInv'
    BY <1>13 DEF RenameRefused, Unstaged, environment, files, memory, history
<1>14. ASSUME NEW r \in Run, RenameLedger(r) PROVE HistoryInv'
  <2>1. UNCHANGED <<snap, result, target, uv, successes>>
    BY <1>14 DEF RenameLedger, history
  <2>2. ledger' \in {snap[r], {}}
    BY <1>14 DEF RenameLedger
  <2>3. \A e \in ledger' : Backed(e)'
    BY <2>1, <2>2
  <2>4. \A s \in Run : \A e \in snap'[s] : Backed(e)'
    BY <2>1
  <2>5. \A s \in Run : pc'[s] # pc[s] => pc[s] = "rename"
                                         /\ pc'[s] \in {"check", "unlock"}
    BY <1>14 DEF RenameLedger, AfterReplacement
  <2>. QED
    BY <2>1, <2>3, <2>4, <2>5
<1>15. ASSUME NEW r \in Run, RenameReport(r) PROVE HistoryInv'
    BY <1>15 DEF RenameReport, Unstaged, AfterReplacement, environment,
       files, memory, history
<1>16. ASSUME NEW r \in Run, Return(r) PROVE HistoryInv'
    BY <1>16 DEF Return, environment, files, memory, history
<1>17. ASSUME NEW r \in Run, StorageFault(r) PROVE HistoryInv'
    BY <1>17 DEF StorageFault, environment, files, memory, history
<1>18. ASSUME NEW r \in Run, Crash(r) PROVE HistoryInv'
    BY <1>18 DEF Crash, Live, environment, files, memory, history
<1>19. ASSUME NEW r \in Run, UvLock(r) PROVE HistoryInv'
    BY <1>19 DEF UvLock, environment, files, memory, history
<1>20. ASSUME NEW r \in Run, UvFail(r) PROVE HistoryInv'
    BY <1>20 DEF UvFail, environment, files, memory, history, UvRunning
<1>21. ASSUME NEW r \in Run, UvComplete(r) PROVE HistoryInv'
  <2>. DEFINE c == [cache |-> target[r], at |-> clock, by |-> r]
  <2>1. /\ UNCHANGED <<ledger, snap, result, target, pc>>
        /\ successes' = successes \cup {c}
        /\ uv[r] = "pruning"
        /\ uv' = [uv EXCEPT ![r] = "pruned"]
    BY <1>21 DEF UvComplete, files, memory
  <2>2. \A e : Backed(e) => Backed(e)'
    BY <2>1
  <2>3. \A s \in Run : uv'[s] = "pruned" =>
            \E d \in successes' : d.by = s /\ d.cache = target'[s]
    <3>1. c \in successes' /\ c.by = r /\ c.cache = target'[r]
        BY <2>1
    <3>2. ASSUME NEW s \in Run, s # r, uv'[s] = "pruned"
          PROVE  \E d \in successes' : d.by = s /\ d.cache = target'[s]
      <4>1. uv[s] = "pruned"
        BY <2>1, <3>2
      <4>2. \E d \in successes : d.by = s /\ d.cache = target[s]
        BY <4>1
      <4>. QED
        BY <2>1, <4>2
    <3>. QED
        BY <3>1, <3>2
  <2>. QED
    BY <2>1, <2>2, <2>3
<1>22. CASE Tick
    BY <1>22 DEF Tick, environment, files, memory, history
<1>23. CASE SetClockBack
    BY <1>23 DEF SetClockBack, environment, files, memory, history
<1>24. CASE EditLedger
    BY <1>24 DEF EditLedger, environment, files, memory, history
<1>25. CASE EditReport
    BY <1>25 DEF EditReport, environment, files, memory, history
<1>26. CASE UNCHANGED vars
    BY <1>26 DEF vars, environment, files, memory, history
<1>. QED
    BY <1>1, <1>2, <1>3, <1>4, <1>5, <1>6, <1>7, <1>8, <1>9, <1>10, <1>11,
       <1>12, <1>13, <1>14, <1>15, <1>16, <1>17, <1>18, <1>19, <1>20, <1>21,
       <1>22, <1>23, <1>24, <1>25, <1>26 DEF Next, RunStep, AllEnded

-----------------------------------------------------------------------------
(* What a replacement leaves.                                              *)

\* A staging file that is about to be renamed is complete; the files are
\* damaged by edits only.
WholeInv ==
    /\ \A r \in Run : pc[r] = "rename" => TempOf(r, TRUE) \in temps
    /\ NeverTorn

LEMMA WholeInit == Init => WholeInv
    BY DEF Init, WholeInv, NeverTorn

LEMMA WholeNext == TypeInv /\ LockInv /\ WholeInv /\ [Next]_vars => WholeInv'
<1> SUFFICES ASSUME TypeInv, LockInv, WholeInv, [Next]_vars PROVE WholeInv'
    OBVIOUS
<1>. USE NoRunAssumption, BoundsAssumption
<1>. USE DEF TypeInv, TypeOK, LockInv, InSection, Critical, WholeInv,
           NeverTorn, TempOf, Sequence, MoreToSave, Ended, Abort, Goto
<1>1. ASSUME NEW r \in Run, Start(r) PROVE WholeInv'
    BY <1>1 DEF Start, Live, FreePid, environment, files, memory, history
<1>2. ASSUME NEW r \in Run, AcquireLock(r) PROVE WholeInv'
    BY <1>2 DEF AcquireLock, TakeLock, LockHeld, environment, files, memory,
       history
<1>3. ASSUME NEW r \in Run, LoadLedger(r) PROVE WholeInv'
    BY <1>3 DEF LoadLedger, environment, files, memory, history
<1>4. ASSUME NEW r \in Run, CheckReport(r) \/ Inventory(r) PROVE WholeInv'
    BY <1>4 DEF CheckReport, Inventory, environment, files, memory, history
<1>5. ASSUME NEW r \in Run, Decline(r) PROVE WholeInv'
    BY <1>5 DEF Decline, environment, files, memory, history
<1>6. ASSUME NEW r \in Run, Decide(r) PROVE WholeInv'
    BY <1>6 DEF Decide, Spawns, Due, environment, files, memory, history
<1>7. ASSUME NEW r \in Run, FinishGc(r) PROVE WholeInv'
    BY <1>7 DEF FinishGc, Recorded, GcSucceeded, SaveOrder, environment,
       files, memory, history
<1>8. ASSUME NEW r \in Run, TimeoutGc(r) PROVE WholeInv'
    BY <1>8 DEF TimeoutGc, DeadlinePasses, environment, files, memory, history
<1>9. ASSUME NEW r \in Run, KillGc(r) PROVE WholeInv'
    BY <1>9 DEF KillGc, TerminateTree, environment, files, memory, history
<1>10. ASSUME NEW r \in Run, CheckDestination(r) PROVE WholeInv'
    BY <1>10 DEF CheckDestination, environment, files, memory, history
<1>11. ASSUME NEW r \in Run, CreateTemp(r) PROVE WholeInv'
  <2>1. /\ \/ pc' = [pc EXCEPT ![r] = "write"]
           \/ pc' = [pc EXCEPT ![r] = "aborted"]
        /\ temps \subseteq temps'
        /\ UNCHANGED <<pid, ledgerFile, reportFile, saving, result>>
    BY <1>11, CreateTempCases DEF Abort
  <2>2. \A s \in Run : pc'[s] = "rename" => pc[s] = "rename"
    BY <2>1
  <2>3. \A s \in Run : pc'[s] = "rename" => TempOf(s, TRUE)' \in temps'
    BY <2>1, <2>2
  <2>4. NeverTorn'
    BY <1>11, <2>1, CreateTempCases, Zenon DEF environment
  <2>. QED
    BY <2>3, <2>4
<1>12. ASSUME NEW r \in Run, WriteTemp(r) PROVE WholeInv'
  <2>1. /\ TempOf(r, TRUE) \in temps'
        /\ pc[r] = "write" /\ pc' = [pc EXCEPT ![r] = "rename"]
        /\ UNCHANGED <<edits, ledgerFile, reportFile, pid, saving, result>>
    BY <1>12 DEF WriteTemp, Written, environment
  <2>2. \A s \in Run : pc'[s] = "rename" => s = r
    <3>1. \A s \in Run : pc[s] \in {"write", "rename"} => lock = s
      OBVIOUS
    <3>. QED
      BY <2>1, <3>1
  <2>3. TempOf(r, TRUE)' \in temps'
    BY <2>1
  <2>4. \A s \in Run : pc'[s] = "rename" => TempOf(s, TRUE)' \in temps'
    BY <2>2, <2>3, Zenon
  <2>5. NeverTorn'
    BY <2>1
  <2>. QED
    BY <2>4, <2>5
<1>13. ASSUME NEW r \in Run, RenameRefused(r) PROVE WholeInv'
    BY <1>13 DEF RenameRefused, Unstaged, environment, files, memory, history
<1>14. ASSUME NEW r \in Run, RenameLedger(r) PROVE WholeInv'
    BY <1>14 DEF RenameLedger, Unstaged, AfterReplacement, environment,
       files, memory, history
<1>15. ASSUME NEW r \in Run, RenameReport(r) PROVE WholeInv'
    BY <1>15 DEF RenameReport, Unstaged, AfterReplacement, environment,
       files, memory, history
<1>16. ASSUME NEW r \in Run, Return(r) PROVE WholeInv'
    BY <1>16 DEF Return, environment, files, memory, history
<1>17. ASSUME NEW r \in Run, StorageFault(r) PROVE WholeInv'
    BY <1>17 DEF StorageFault, environment, files, memory, history
<1>18. ASSUME NEW r \in Run, Crash(r) PROVE WholeInv'
    BY <1>18 DEF Crash, Live, environment, files, memory, history
<1>19. ASSUME NEW r \in Run, UvLock(r) PROVE WholeInv'
    BY <1>19 DEF UvLock, environment, files, memory, history
<1>20. ASSUME NEW r \in Run, UvFail(r) PROVE WholeInv'
    BY <1>20 DEF UvFail, environment, files, memory, history
<1>21. ASSUME NEW r \in Run, UvComplete(r) PROVE WholeInv'
    BY <1>21 DEF UvComplete, environment, files, memory, history
<1>22. CASE Tick
    BY <1>22 DEF Tick, environment, files, memory, history
<1>23. CASE SetClockBack
    BY <1>23 DEF SetClockBack, environment, files, memory, history
<1>24. CASE EditLedger
    BY <1>24 DEF EditLedger, environment, files, memory, history
<1>25. CASE EditReport
    BY <1>25 DEF EditReport, environment, files, memory, history
<1>26. CASE UNCHANGED vars
    BY <1>26 DEF vars, environment, files, memory, history
<1>. QED
    BY <1>1, <1>2, <1>3, <1>4, <1>5, <1>6, <1>7, <1>8, <1>9, <1>10, <1>11,
       <1>12, <1>13, <1>14, <1>15, <1>16, <1>17, <1>18, <1>19, <1>20, <1>21,
       <1>22, <1>23, <1>24, <1>25, <1>26 DEF Next, RunStep, AllEnded

-----------------------------------------------------------------------------
(* What a run has saved.                                                   *)

\* A run that saw uv complete has that one prune in memory, and saves its
\* ledger first.  From then on, and until it lets the lock go, the ledger on
\* disk is the one in its memory; and before it lets the lock go the report on
\* disk is its own - or somebody edited a file.
SaveInv ==
    \A r \in Run :
        /\ saving[r] = "ledger" => result[r] = "pruned"
        /\ result[r] = "pruned" =>
             /\ snap[r] # {}
             /\ \A e \in snap[r] : e.by = r /\ e.cache = target[r]
        /\ pc[r] = "unlock" => saving[r] = "report"
        /\ lock = r /\ seen[r] = edits =>
             /\ result[r] = "pruned" /\ saving[r] = "report" => ledger = snap[r]
             /\ pc[r] = "unlock" => reportBy = r

\* What the two renames do when the staging file is whole.
LEMMA LedgerReplaced ==
    ASSUME TypeInv, LockInv, WholeInv, SaveInv, NEW r \in Run, RenameLedger(r)
    PROVE  /\ pc[r] = "rename" /\ saving[r] = "ledger"
           /\ result[r] = "pruned" /\ lock = r
           /\ ledger' = snap[r]
           /\ pc' = [pc EXCEPT ![r] = "check"]
           /\ saving' = [saving EXCEPT ![r] = "report"]
           /\ UNCHANGED <<environment, lock, reportBy, dry, snap, target,
                          result, uv, history>>
<1>1. /\ pc[r] = "rename" /\ saving[r] = "ledger"
      /\ result[r] = "pruned" /\ lock = r
    BY DEF RenameLedger, TypeInv, TypeOK, LockInv, InSection, Critical, Ended,
       SaveInv
<1>. QED
    BY <1>1 DEF RenameLedger, TypeInv, TypeOK, WholeInv, AfterReplacement,
       MoreToSave, SaveOrder, Goto

LEMMA ReportReplaced ==
    ASSUME TypeInv, LockInv, WholeInv, NEW r \in Run, RenameReport(r)
    PROVE  /\ pc[r] = "rename" /\ saving[r] = "report" /\ lock = r
           /\ reportBy' = r
           /\ pc' = [pc EXCEPT ![r] = "unlock"]
           /\ UNCHANGED <<environment, lock, ledger, dry, snap, target, result,
                          saving, uv, history>>
<1>1. pc[r] = "rename" /\ saving[r] = "report" /\ lock = r
    BY DEF RenameReport, TypeInv, TypeOK, LockInv, InSection, Critical, Ended
<1>. QED
    BY <1>1 DEF RenameReport, TypeInv, TypeOK, WholeInv, AfterReplacement,
       MoreToSave, SaveOrder, Goto

LEMMA SaveInit == Init => SaveInv
    BY NoRunAssumption DEF Init, SaveInv

LEMMA SaveNext ==
    TypeInv /\ LockInv /\ FreshInv /\ HistoryInv /\ WholeInv
    /\ SaveInv /\ [Next]_vars => SaveInv'
<1> SUFFICES ASSUME TypeInv, LockInv, FreshInv, HistoryInv, WholeInv,
                    SaveInv, [Next]_vars
             PROVE  SaveInv'
    OBVIOUS
<1>. USE NoRunAssumption, BoundsAssumption
<1>. USE DEF TypeInv, TypeOK, LockInv, InSection, Critical, SaveInv,
         Ended, Abort, Goto, environment, files, memory, history
<1>1. ASSUME NEW r \in Run, Start(r) PROVE SaveInv'
    BY <1>1 DEF Start, Live, FreePid
<1>2. ASSUME NEW r \in Run, AcquireLock(r) PROVE SaveInv'
    BY <1>2 DEF AcquireLock, TakeLock, LockHeld, HistoryInv
<1>3. ASSUME NEW r \in Run, LoadLedger(r) PROVE SaveInv'
    BY <1>3 DEF LoadLedger, HistoryInv
<1>4. ASSUME NEW r \in Run, CheckReport(r) \/ Inventory(r) PROVE SaveInv'
    BY <1>4 DEF CheckReport, Inventory
<1>5. ASSUME NEW r \in Run, Decline(r) PROVE SaveInv'
    BY <1>5 DEF Decline, HistoryInv
<1>6. ASSUME NEW r \in Run, Decide(r) PROVE SaveInv'
    BY <1>6 DEF Decide, HistoryInv
<1>7. ASSUME NEW r \in Run, FinishGc(r) PROVE SaveInv'
  <2>. DEFINE c == [cache |-> target[r], at |-> clock, by |-> r]
  <2>1. /\ pc[r] = "gc" /\ result[r] = "none" /\ saving[r] = "report"
        /\ pc' = [pc EXCEPT ![r] = "check"]
        /\ UNCHANGED <<lock, ledger, reportBy, target, edits, seen>>
    BY <1>7 DEF FinishGc, HistoryInv
  <2>2. CASE /\ result' = [result EXCEPT ![r] = "pruned"]
             /\ snap' = [snap EXCEPT ![r] = {c}]
             /\ saving' = [saving EXCEPT ![r] = "ledger"]
    <3>1. c.by = r /\ c.cache = target[r]
      OBVIOUS
    <3>. HIDE DEF c
    <3>. QED
      BY <2>1, <2>2, <3>1
  <2>3. CASE /\ result' = [result EXCEPT ![r] = "failed"]
             /\ UNCHANGED <<snap, saving>>
    BY <2>1, <2>3
  <2>. QED
    BY <1>7, <2>2, <2>3 DEF FinishGc, Recorded, SaveOrder
<1>8. ASSUME NEW r \in Run, TimeoutGc(r) PROVE SaveInv'
    BY <1>8 DEF TimeoutGc, DeadlinePasses
<1>9. ASSUME NEW r \in Run, KillGc(r) PROVE SaveInv'
    BY <1>9 DEF KillGc, TerminateTree, HistoryInv
<1>10. ASSUME NEW r \in Run, CheckDestination(r) PROVE SaveInv'
    BY <1>10 DEF CheckDestination
<1>11. ASSUME NEW r \in Run, CreateTemp(r) PROVE SaveInv'
  <2>1. pc' = [pc EXCEPT ![r] = "write"] \/ Abort(r)
    BY <1>11, CreateTempCases
  <2>2. /\ lock' \in {lock, NoRun}
        /\ UNCHANGED <<edits, ledger, reportBy, snap, target, result,
                       saving, seen>>
    BY <1>11, CreateTempCases
  <2>. QED
    BY <2>1, <2>2
<1>12. ASSUME NEW r \in Run, WriteTemp(r) PROVE SaveInv'
    BY <1>12 DEF WriteTemp
<1>13. ASSUME NEW r \in Run, RenameRefused(r) PROVE SaveInv'
    BY <1>13 DEF RenameRefused
<1>14. ASSUME NEW r \in Run, RenameLedger(r) PROVE SaveInv'
    BY <1>14, LedgerReplaced
<1>15. ASSUME NEW r \in Run, RenameReport(r) PROVE SaveInv'
    BY <1>15, ReportReplaced
<1>16. ASSUME NEW r \in Run, Return(r) PROVE SaveInv'
    BY <1>16 DEF Return
<1>17. ASSUME NEW r \in Run, StorageFault(r) PROVE SaveInv'
    BY <1>17 DEF StorageFault
<1>18. ASSUME NEW r \in Run, Crash(r) PROVE SaveInv'
    BY <1>18 DEF Crash, Live
<1>19. ASSUME NEW r \in Run, UvLock(r) PROVE SaveInv'
    BY <1>19 DEF UvLock
<1>20. ASSUME NEW r \in Run, UvFail(r) PROVE SaveInv'
    BY <1>20 DEF UvFail
<1>21. ASSUME NEW r \in Run, UvComplete(r) PROVE SaveInv'
    BY <1>21 DEF UvComplete
<1>22. CASE Tick
    BY <1>22 DEF Tick
<1>23. CASE SetClockBack
    BY <1>23 DEF SetClockBack
<1>24. CASE EditLedger
    BY <1>24 DEF EditLedger, FreshInv
<1>25. CASE EditReport
    BY <1>25 DEF EditReport, FreshInv
<1>26. CASE UNCHANGED vars
    BY <1>26 DEF vars
<1>. QED
    BY <1>1, <1>2, <1>3, <1>4, <1>5, <1>6, <1>7, <1>8, <1>9, <1>10, <1>11,
       <1>12, <1>13, <1>14, <1>15, <1>16, <1>17, <1>18, <1>19, <1>20, <1>21,
       <1>22, <1>23, <1>24, <1>25, <1>26 DEF Next, RunStep, AllEnded

-----------------------------------------------------------------------------
(* Whose files are replaced.                                               *)

\* Whoever wrote what is on the disk is over, or has no more to do with that
\* file.
AuthorInv ==
    /\ \A e \in ledger :
         pc[e.by] \in Ended \/ (lock = e.by /\ saving[e.by] = "report")
    /\ reportBy # NoRun => pc[reportBy] \in Ended \cup {"unlock"}

LEMMA AuthorInit == Init => AuthorInv
    BY DEF Init, AuthorInv

LEMMA AuthorNext ==
    TypeInv /\ LockInv /\ HistoryInv /\ WholeInv /\ SaveInv
    /\ AuthorInv /\ [Next]_vars => AuthorInv'
<1> SUFFICES ASSUME TypeInv, LockInv, HistoryInv, WholeInv, SaveInv,
                    AuthorInv, [Next]_vars
             PROVE  AuthorInv'
    OBVIOUS
<1>. USE NoRunAssumption, BoundsAssumption
<1>. USE DEF TypeInv, TypeOK, LockInv, InSection, Critical, AuthorInv,
         Completion, Ended, Abort, Goto, environment, files, memory, history
<1>1. ASSUME NEW r \in Run, Start(r) PROVE AuthorInv'
    BY <1>1 DEF Start, Live, FreePid
<1>2. ASSUME NEW r \in Run, AcquireLock(r) PROVE AuthorInv'
    BY <1>2 DEF AcquireLock, TakeLock, LockHeld
<1>3. ASSUME NEW r \in Run, LoadLedger(r) PROVE AuthorInv'
    BY <1>3 DEF LoadLedger
<1>4. ASSUME NEW r \in Run, CheckReport(r) \/ Inventory(r) PROVE AuthorInv'
    BY <1>4 DEF CheckReport, Inventory
<1>5. ASSUME NEW r \in Run, Decline(r) PROVE AuthorInv'
    BY <1>5 DEF Decline
<1>6. ASSUME NEW r \in Run, Decide(r) PROVE AuthorInv'
    BY <1>6 DEF Decide, Spawns, Due
<1>7. ASSUME NEW r \in Run, FinishGc(r) PROVE AuthorInv'
  <2>1. /\ UNCHANGED <<lock, ledger, reportBy>>
        /\ pc[r] = "gc" /\ result[r] = "none"
        /\ pc' = [pc EXCEPT ![r] = "check"]
        /\ \/ UNCHANGED saving
           \/ saving' = [saving EXCEPT ![r] = "ledger"]
    BY <1>7 DEF FinishGc, HistoryInv, SaveOrder
  <2>2. \A e \in ledger : e.by # r
    BY <2>1 DEF HistoryInv, Backed
  <2>. QED
    BY <2>1, <2>2
<1>8. ASSUME NEW r \in Run, TimeoutGc(r) PROVE AuthorInv'
    BY <1>8 DEF TimeoutGc, DeadlinePasses
<1>9. ASSUME NEW r \in Run, KillGc(r) PROVE AuthorInv'
    BY <1>9 DEF KillGc, TerminateTree
<1>10. ASSUME NEW r \in Run, CheckDestination(r) PROVE AuthorInv'
    BY <1>10 DEF CheckDestination
<1>11. ASSUME NEW r \in Run, CreateTemp(r) PROVE AuthorInv'
  <2>1. /\ pc[r] = "create"
        /\ \/ pc' = [pc EXCEPT ![r] = "write"] /\ lock' = lock
           \/ Abort(r)
        /\ UNCHANGED <<ledger, reportBy, saving>>
    BY <1>11, CreateTempCases
  <2>. QED
    BY <2>1
<1>12. ASSUME NEW r \in Run, WriteTemp(r) PROVE AuthorInv'
    BY <1>12 DEF WriteTemp
<1>13. ASSUME NEW r \in Run, RenameRefused(r) PROVE AuthorInv'
    BY <1>13 DEF RenameRefused
<1>14. ASSUME NEW r \in Run, RenameLedger(r) PROVE AuthorInv'
  <2>1. \A e \in ledger' : lock' = e.by /\ saving'[e.by] = "report"
    BY <1>14, LedgerReplaced DEF SaveInv
  <2>2. reportBy # NoRun =>
            reportBy \in Run \ {r} /\ pc'[reportBy] = pc[reportBy]
    BY <1>14, LedgerReplaced
  <2>. QED
    BY <1>14, <2>1, <2>2, LedgerReplaced
<1>15. ASSUME NEW r \in Run, RenameReport(r) PROVE AuthorInv'
    BY <1>15, ReportReplaced
<1>16. ASSUME NEW r \in Run, Return(r) PROVE AuthorInv'
    BY <1>16 DEF Return
<1>17. ASSUME NEW r \in Run, StorageFault(r) PROVE AuthorInv'
    BY <1>17 DEF StorageFault
<1>18. ASSUME NEW r \in Run, Crash(r) PROVE AuthorInv'
    BY <1>18 DEF Crash, Live
<1>19. ASSUME NEW r \in Run, UvLock(r) PROVE AuthorInv'
    BY <1>19 DEF UvLock
<1>20. ASSUME NEW r \in Run, UvFail(r) PROVE AuthorInv'
    BY <1>20 DEF UvFail
<1>21. ASSUME NEW r \in Run, UvComplete(r) PROVE AuthorInv'
    BY <1>21 DEF UvComplete
<1>22. CASE Tick
    BY <1>22 DEF Tick
<1>23. CASE SetClockBack
    BY <1>23 DEF SetClockBack
<1>24. CASE EditLedger
    BY <1>24 DEF EditLedger
<1>25. CASE EditReport
    BY <1>25 DEF EditReport
<1>26. CASE UNCHANGED vars
    BY <1>26 DEF vars
<1>. QED
    BY <1>1, <1>2, <1>3, <1>4, <1>5, <1>6, <1>7, <1>8, <1>9, <1>10, <1>11,
       <1>12, <1>13, <1>14, <1>15, <1>16, <1>17, <1>18, <1>19, <1>20, <1>21,
       <1>22, <1>23, <1>24, <1>25, <1>26 DEF Next, RunStep, AllEnded

-----------------------------------------------------------------------------
(* What becomes of a completed prune.                                      *)

\* Its run was killed, could not save, or reports a failure.
Excused(s) ==
    pc[s.by] \in {"crashed", "aborted"} \/ result[s.by] = "failed"

\* Its run has the lock and has still to record it, or to save the ledger.
Unsaved(s) ==
    lock = s.by /\ (pc[s.by] \in {"gc", "kill"} \/ saving[s.by] = "ledger")

\* The ledger has it, or a later one, or is about another cache.
Remembered(s) == \E e \in ledger : e.cache = s.cache => e.at >= s.at

\* Where neither files nor clock are tampered with, every completed prune is
\* in one of these three states, and a ledger that is about to be saved is
\* later than all those that are not excused.
MemoryInv ==
    edits = 0 /\ rollbacks = 0 =>
        \A s \in successes :
            /\ s.at <= clock
            /\ Excused(s) \/ Unsaved(s) \/ Remembered(s)
            /\ \A r \in Run : lock = r /\ saving[r] = "ledger" =>
                   Excused(s) \/ \A e \in snap[r] : e.at >= s.at

LEMMA MemoryInit == Init => MemoryInv
    BY DEF Init, MemoryInv

LEMMA MemoryNext ==
    TypeInv /\ LockInv /\ GcInv /\ HistoryInv /\ WholeInv /\ SaveInv
    /\ MemoryInv /\ [Next]_vars => MemoryInv'
<1> SUFFICES ASSUME TypeInv, LockInv, GcInv, HistoryInv, WholeInv, SaveInv,
                    MemoryInv, [Next]_vars
             PROVE  MemoryInv'
    OBVIOUS
<1>. USE NoRunAssumption, BoundsAssumption
<1>. USE DEF TypeInv, TypeOK, LockInv, InSection, Critical, MemoryInv,
         Excused, Unsaved, Remembered,
         Completion, Ended, Abort, Goto, environment, files, memory, history
<1>1. ASSUME NEW r \in Run, Start(r) PROVE MemoryInv'
    BY <1>1 DEF Start, HistoryInv, SaveInv, Live, FreePid
<1>2. ASSUME NEW r \in Run, AcquireLock(r) PROVE MemoryInv'
    BY <1>2 DEF AcquireLock, HistoryInv, SaveInv, TakeLock, LockHeld
<1>3. ASSUME NEW r \in Run, LoadLedger(r) PROVE MemoryInv'
    BY <1>3 DEF LoadLedger, HistoryInv, SaveInv
<1>4. ASSUME NEW r \in Run, CheckReport(r) \/ Inventory(r) PROVE MemoryInv'
    BY <1>4 DEF CheckReport, Inventory
<1>5. ASSUME NEW r \in Run, Decline(r) PROVE MemoryInv'
    BY <1>5 DEF Decline, HistoryInv, SaveInv
<1>6. ASSUME NEW r \in Run, Decide(r) PROVE MemoryInv'
    BY <1>6 DEF Decide, HistoryInv, Spawns, Due
<1>7. ASSUME NEW r \in Run, FinishGc(r) PROVE MemoryInv'
    BY <1>7 DEF FinishGc, Recorded, GcSucceeded, SaveOrder
<1>8. ASSUME NEW r \in Run, TimeoutGc(r) PROVE MemoryInv'
    BY <1>8 DEF TimeoutGc, DeadlinePasses
<1>9. ASSUME NEW r \in Run, KillGc(r) PROVE MemoryInv'
    BY <1>9 DEF KillGc, HistoryInv, SaveInv, TerminateTree
<1>10. ASSUME NEW r \in Run, CheckDestination(r) PROVE MemoryInv'
    BY <1>10 DEF CheckDestination
<1>11. ASSUME NEW r \in Run, CreateTemp(r) PROVE MemoryInv'
  <2>1. /\ pc[r] = "create"
        /\ \/ pc' = [pc EXCEPT ![r] = "write"] /\ lock' = lock
           \/ Abort(r)
        /\ UNCHANGED <<clock, rollbacks, edits, ledger, snap, result, saving,
                       successes>>
    BY <1>11, CreateTempCases
  <2>. QED
    BY <2>1
<1>12. ASSUME NEW r \in Run, WriteTemp(r) PROVE MemoryInv'
    BY <1>12 DEF WriteTemp
<1>13. ASSUME NEW r \in Run, RenameRefused(r) PROVE MemoryInv'
    BY <1>13 DEF RenameRefused
<1>14. ASSUME NEW r \in Run, RenameLedger(r) PROVE MemoryInv'
    BY <1>14, LedgerReplaced DEF SaveInv
<1>15. ASSUME NEW r \in Run, RenameReport(r) PROVE MemoryInv'
    BY <1>15, ReportReplaced
<1>16. ASSUME NEW r \in Run, Return(r) PROVE MemoryInv'
    BY <1>16 DEF Return, SaveInv
<1>17. ASSUME NEW r \in Run, StorageFault(r) PROVE MemoryInv'
    BY <1>17 DEF StorageFault
<1>18. ASSUME NEW r \in Run, Crash(r) PROVE MemoryInv'
    BY <1>18 DEF Crash, Live
<1>19. ASSUME NEW r \in Run, UvLock(r) PROVE MemoryInv'
    BY <1>19 DEF UvLock
<1>20. ASSUME NEW r \in Run, UvFail(r) PROVE MemoryInv'
    BY <1>20 DEF UvFail
<1>21. ASSUME NEW r \in Run, UvComplete(r) PROVE MemoryInv'
    BY <1>21 DEF UvComplete, GcInv, UvRunning, HistoryInv, SaveInv
<1>22. CASE Tick
    BY <1>22 DEF Tick
<1>23. CASE SetClockBack
    BY <1>23 DEF SetClockBack
<1>24. CASE EditLedger
    BY <1>24 DEF EditLedger
<1>25. CASE EditReport
    BY <1>25 DEF EditReport
<1>26. CASE UNCHANGED vars
    BY <1>26 DEF vars
<1>. QED
    BY <1>1, <1>2, <1>3, <1>4, <1>5, <1>6, <1>7, <1>8, <1>9, <1>10, <1>11,
       <1>12, <1>13, <1>14, <1>15, <1>16, <1>17, <1>18, <1>19, <1>20, <1>21,
       <1>22, <1>23, <1>24, <1>25, <1>26 DEF Next, RunStep, AllEnded

-----------------------------------------------------------------------------
(* The theorems.                                                           *)

Inv ==
    /\ TypeInv /\ LockInv /\ GcInv /\ FreshInv /\ HistoryInv /\ WholeInv
    /\ SaveInv /\ AuthorInv /\ MemoryInv

LEMMA InvInit == Init => Inv
    BY TypeInit, LockInit, GcInit, FreshInit, HistoryInit, WholeInit, SaveInit,
       AuthorInit, MemoryInit DEF Inv

LEMMA InvNext == Inv /\ [Next]_vars => Inv'
    BY TypeNext, LockNext, GcNext, FreshNext, HistoryNext, WholeNext, SaveNext,
       AuthorNext, MemoryNext DEF Inv

LEMMA InvHolds == Spec => []Inv
    BY InvInit, InvNext, PTL DEF Spec

\* Every variable keeps its type, in every instance of the model.
THEOREM TypeCorrect == Spec => []TypeOK
<1>1. Inv => TypeOK
    BY DEF Inv, TypeInv
<1>. QED
    BY <1>1, InvHolds, PTL

\* clean.rs: the lock serializes any number of runs, from the reading of the
\* ledger to the replacement of the report.
THEOREM MutualExclusion == Spec => []OneRunInSection
<1>1. Inv => OneRunInSection
    BY DEF Inv, LockInv, OneRunInSection
<1>. QED
    BY <1>1, InvHolds, PTL

\* process.rs: as long as no invocation was killed, or where the OS kills uv
\* with it, no two prunes run at the same time.
THEOREM GcDoesNotOverlap == Spec => []NoOverlappingGc
<1>1. ASSUME Inv PROVE NoOverlappingGc
  <2>1. SUFFICES ASSUME crashes = 0 \/ KillOnClose,
                        NEW r \in Run, uv[r] \in UvRunning
                 PROVE  lock = r
    BY NoRunAssumption DEF NoOverlappingGc
  <2>2. pc[r] \in {"gc", "kill"}
    BY <1>1, <2>1, BoundsAssumption DEF Inv, GcInv, TypeInv, TypeOK
  <2>. QED
    BY <1>1, <2>2 DEF Inv, LockInv, InSection, Critical, Ended
<1>. QED
    BY <1>1, InvHolds, PTL

\* maintenance.rs: whatever crashes, fails or is edited, an entry of the ledger
\* is a prune that completed on that cache and that its run saw complete.
THEOREM LedgerIsTrue == Spec => []LedgerTruth
<1>1. Inv => LedgerTruth
    BY DEF Inv, HistoryInv, Backed, LedgerTruth
<1>. QED
    BY <1>1, InvHolds, PTL

\* report.rs: no crash and no failing operation damages a state file.
THEOREM FilesStayWhole == Spec => []NeverTorn
<1>1. Inv => NeverTorn
    BY DEF Inv, WholeInv
<1>. QED
    BY <1>1, InvHolds, PTL

\* Only a decision starts a prune.
LEMMA OnlyDecideStarts ==
    ASSUME TypeInv, [Next]_vars, NEW r \in Run, StartsGc(r)
    PROVE  Decide(r)
<1>. USE DEF TypeInv, TypeOK, StartsGc
<1>1. ~UNCHANGED uv
    OBVIOUS
<1>2. ASSUME NEW s \in Run,
             \/ Start(s) \/ AcquireLock(s) \/ LoadLedger(s) \/ CheckReport(s)
             \/ Inventory(s)
             \/ Decline(s) \/ FinishGc(s) \/ TimeoutGc(s)
             \/ CheckDestination(s) \/ CreateTemp(s) \/ WriteTemp(s)
             \/ RenameRefused(s) \/ RenameLedger(s) \/ RenameReport(s)
             \/ Return(s) \/ StorageFault(s)
      PROVE  UNCHANGED uv
    BY <1>2 DEF Start, AcquireLock, LoadLedger, CheckReport, Inventory, Decline,
       FinishGc,
       TimeoutGc, CheckDestination, CreateTemp, WriteTemp, RenameRefused,
       RenameLedger, RenameReport, Return, StorageFault
<1>3. ASSUME Tick \/ SetClockBack \/ EditLedger \/ EditReport \/ UNCHANGED vars
      PROVE  UNCHANGED uv
    BY <1>3 DEF Tick, SetClockBack, EditLedger, EditReport, vars
<1>4. ASSUME NEW s \in Run,
             KillGc(s) \/ Crash(s) \/ UvLock(s) \/ UvFail(s) \/ UvComplete(s)
      PROVE  FALSE
    BY <1>4 DEF KillGc, TerminateTree, Crash, UvLock, UvFail, UvComplete,
       UvRunning
<1>5. ASSUME NEW s \in Run, Decide(s) PROVE s = r
    BY <1>5 DEF Decide
<1>. QED
    BY <1>1, <1>2, <1>3, <1>4, <1>5 DEF Next, RunStep, AllEnded

\* runner.rs: the files on disk justify every prune at the moment it starts.
THEOREM PrunesAreJustified == Spec => PruneJustified
<1>1. ASSUME Inv, [Next]_vars, NEW r \in Run, StartsGc(r)
      PROVE  /\ lock = r
             /\ seen[r] = edits =>
                  /\ ledgerFile = "sound"
                  /\ reportFile # "directory"
                  /\ \A e \in ledger :
                       e.cache = target'[r] => e.at + Interval <= clock
  <2>1. Decide(r)
    BY <1>1, OnlyDecideStarts DEF Inv
  <2>2. PICK c \in Cache : target' = [target EXCEPT ![r] = c] /\ Spawns(r, c)
    BY <1>1, <2>1 DEF Decide, StartsGc
  <2>3. target'[r] = c /\ pc[r] = "probe" /\ ~dry[r]
    BY <1>1, <2>1, <2>2 DEF Decide, Spawns, Inv, TypeInv, TypeOK
  <2>4. lock = r
    BY <1>1, <2>3 DEF Inv, LockInv, InSection, Critical
  <2>5. ASSUME seen[r] = edits
        PROVE  /\ ledger = snap[r]
               /\ ledgerFile = "sound"
               /\ reportFile # "directory"
    BY <1>1, <2>3, <2>4, <2>5 DEF Inv, FreshInv
  <2>6. ASSUME NEW e \in snap[r], e.cache = c PROVE e.at + Interval <= clock
    <3>1. clock >= e.at /\ clock - e.at >= Interval
      BY <2>2, <2>6 DEF Spawns, Due, DueAt
    <3>2. e.at \in Nat /\ clock \in Nat /\ Interval \in Nat
      BY <1>1, IntervalAssumption, BoundsAssumption
         DEF Inv, TypeInv, TypeOK, Completion
    <3>. QED
      BY <3>1, <3>2
  <2>. QED
    BY <2>3, <2>4, <2>5, <2>6
<1>2. ASSUME Inv, [Next]_vars
      PROVE  \A r \in Run : StartsGc(r) =>
               /\ lock = r
               /\ seen[r] = edits =>
                    /\ ledgerFile = "sound"
                    /\ reportFile # "directory"
                    /\ \A e \in ledger :
                         e.cache = target'[r] => e.at + Interval <= clock
    BY <1>1, <1>2
<1>. QED
    BY <1>2, InvHolds, PTL DEF Spec, PruneJustified

\* runner.rs, report.rs: a run that comes to its Ok has its own report on disk,
\* and the ledger holds the prune it did, unless the files were edited.
THEOREM OkRunsAreDurable == Spec => []OkIsDurable
<1>1. ASSUME Inv PROVE OkIsDurable
  <2>1. SUFFICES ASSUME NEW r \in Run, pc[r] = "unlock", seen[r] = edits
                 PROVE  /\ reportBy = r
                        /\ result[r] = "pruned" =>
                             \E e \in ledger : e.by = r /\ e.cache = target[r]
    BY DEF OkIsDurable
  <2>2. lock = r
    BY <1>1, <2>1 DEF Inv, LockInv, InSection, Critical, Ended
  <2>. QED
    BY <1>1, <2>1, <2>2 DEF Inv, SaveInv
<1>. QED
    BY <1>1, InvHolds, PTL

\* Only a replacement puts a report there.
LEMMA OnlyRenameReports ==
    ASSUME TypeInv, [Next]_vars, reportBy' # reportBy,
           edits' = edits \/ reportBy' # NoRun
    PROVE  \E r \in Run : RenameReport(r)
<1>1. ASSUME NEW s \in Run,
             \/ Start(s) \/ AcquireLock(s) \/ LoadLedger(s) \/ CheckReport(s)
             \/ Inventory(s)
             \/ Decline(s) \/ Decide(s) \/ FinishGc(s) \/ TimeoutGc(s)
             \/ KillGc(s) \/ CheckDestination(s) \/ CreateTemp(s)
             \/ WriteTemp(s) \/ RenameRefused(s) \/ RenameLedger(s)
             \/ Return(s) \/ StorageFault(s) \/ Crash(s)
             \/ UvLock(s) \/ UvFail(s) \/ UvComplete(s)
      PROVE  UNCHANGED reportBy
    BY <1>1 DEF Start, AcquireLock, LoadLedger, CheckReport, Inventory, Decline,
       Decide,
       FinishGc, TimeoutGc, KillGc, CheckDestination, CreateTemp, WriteTemp,
       RenameRefused, RenameLedger, Return, StorageFault, Crash, UvLock,
       UvFail, UvComplete, files
<1>2. ASSUME Tick \/ SetClockBack \/ EditLedger \/ UNCHANGED vars
      PROVE  UNCHANGED reportBy
    BY <1>2 DEF Tick, SetClockBack, EditLedger, files, vars
<1>3. ASSUME EditReport PROVE edits' # edits /\ reportBy' = NoRun
    BY <1>3, BoundsAssumption DEF EditReport, TypeInv, TypeOK
<1>. QED
    BY <1>1, <1>2, <1>3 DEF Next, RunStep, AllEnded

LEMMA OnlyRenameRecords ==
    ASSUME TypeInv, [Next]_vars, ledger' # ledger, edits' = edits
    PROVE  \E r \in Run : RenameLedger(r)
<1>1. ASSUME NEW s \in Run,
             \/ Start(s) \/ AcquireLock(s) \/ LoadLedger(s) \/ CheckReport(s)
             \/ Inventory(s)
             \/ Decline(s) \/ Decide(s) \/ FinishGc(s) \/ TimeoutGc(s)
             \/ KillGc(s) \/ CheckDestination(s) \/ CreateTemp(s)
             \/ WriteTemp(s) \/ RenameRefused(s) \/ RenameReport(s)
             \/ Return(s) \/ StorageFault(s) \/ Crash(s)
             \/ UvLock(s) \/ UvFail(s) \/ UvComplete(s)
      PROVE  UNCHANGED ledger
    BY <1>1 DEF Start, AcquireLock, LoadLedger, CheckReport, Inventory, Decline,
       Decide,
       FinishGc, TimeoutGc, KillGc, CheckDestination, CreateTemp, WriteTemp,
       RenameRefused, RenameReport, Return, StorageFault, Crash, UvLock,
       UvFail, UvComplete, files
<1>2. ASSUME Tick \/ SetClockBack \/ EditReport \/ UNCHANGED vars
      PROVE  UNCHANGED ledger
    BY <1>2 DEF Tick, SetClockBack, EditReport, files, vars
<1>3. ASSUME EditLedger PROVE edits' # edits
    BY <1>3, BoundsAssumption DEF EditLedger, TypeInv, TypeOK
<1>. QED
    BY <1>1, <1>2, <1>3 DEF Next, RunStep, AllEnded

\* runner.rs saves the ledger first: at the moment a report tells of a prune,
\* the ledger holds it.
THEOREM ReportsAreBacked == Spec => ReportImpliesLedger
<1> DEFINE Backing ==
        reportBy' # reportBy /\ reportBy' # NoRun
            /\ result[reportBy'] = "pruned" /\ seen[reportBy'] = edits
          => \E e \in ledger : e.by = reportBy'
<1>1. Inv /\ [Next]_vars => Backing
  <2> SUFFICES ASSUME Inv, [Next]_vars, reportBy' # reportBy,
                      reportBy' # NoRun, result[reportBy'] = "pruned",
                      seen[reportBy'] = edits
               PROVE  \E e \in ledger : e.by = reportBy'
      OBVIOUS
  <2>1. PICK r \in Run : RenameReport(r)
      BY OnlyRenameReports DEF Inv
  <2>2. reportBy' = r /\ lock = r /\ saving[r] = "report"
      BY <2>1, ReportReplaced DEF Inv
  <2>. QED
      BY <2>2 DEF Inv, SaveInv
<1>. QED
    BY <1>1, InvHolds, PTL DEF Spec, ReportImpliesLedger

\* clean.rs, report.rs: nothing of an invocation that is still at work is ever
\* replaced, so never a later run's file by an earlier one's.
THEOREM ReplacementsAreOrdered == Spec => ReplacedInOrder
<1> DEFINE Ordered ==
        /\ (ledger' # ledger /\ edits' = edits) =>
              \A e \in ledger : pc[e.by] \in Ended
        /\ (reportBy' # reportBy /\ edits' = edits /\ reportBy # NoRun) =>
              pc[reportBy] \in Ended
<1>1. Inv /\ [Next]_vars => Ordered
  <2> SUFFICES ASSUME Inv, [Next]_vars PROVE Ordered
      OBVIOUS
  <2>1. ASSUME ledger' # ledger, edits' = edits, NEW e \in ledger
        PROVE  pc[e.by] \in Ended
    <3>1. PICK r \in Run : RenameLedger(r)
        BY <2>1, OnlyRenameRecords DEF Inv
    <3>2. lock = r /\ saving[r] = "ledger"
        BY <3>1, LedgerReplaced DEF Inv
    <3>. QED
        BY <3>2 DEF Inv, AuthorInv
  <2>2. ASSUME reportBy' # reportBy, edits' = edits, reportBy # NoRun
        PROVE  pc[reportBy] \in Ended
    <3>1. PICK r \in Run : RenameReport(r)
        BY <2>2, OnlyRenameReports DEF Inv
    <3>2. lock = r /\ pc[r] = "rename"
        BY <3>1, ReportReplaced DEF Inv
    <3>3. reportBy \in Run /\ pc[reportBy] \in Ended \cup {"unlock"}
        BY <2>2 DEF Inv, AuthorInv, TypeInv, TypeOK
    <3>4. pc[reportBy] # "unlock"
        BY <3>2, <3>3 DEF Inv, LockInv, InSection, Critical, Ended
    <3>. QED
        BY <3>3, <3>4
  <2>. QED
      BY <2>1, <2>2
<1>. QED
    BY <1>1, InvHolds, PTL DEF Spec, ReplacedInOrder

\* README.md 27-28: no cache is pruned again before its interval is over,
\* unless the ledger forgot the prune in one of the ways Forgotten lists.
THEOREM EarlyPrunesAreExplained == Spec => EarlyOnlyIfForgotten
<1> DEFINE Explained ==
        \A r \in Run, s \in successes : StartsEarly(r, s) => Forgotten(s)
<1>1. Inv /\ [Next]_vars => Explained
  <2> SUFFICES ASSUME Inv, [Next]_vars, NEW r \in Run, NEW s \in successes,
                      StartsEarly(r, s), ~Forgotten(s)
               PROVE  FALSE
      OBVIOUS
  <2>1. Decide(r) /\ target'[r] = s.cache /\ clock < s.at + Interval
      BY OnlyDecideStarts DEF Inv, StartsEarly
  <2>2. PICK c \in Cache : target' = [target EXCEPT ![r] = c] /\ Spawns(r, c)
      BY <2>1 DEF Inv, TypeInv, TypeOK, Decide, StartsEarly, StartsGc
  <2>3. pc[r] = "probe" /\ lock = r /\ c = s.cache
      BY <2>1, <2>2 DEF Inv, TypeInv, TypeOK, LockInv, InSection,
         Critical, Decide, Spawns
  <2>4. edits = 0 /\ rollbacks = 0 /\ seen[r] = edits
    <3>1. edits = 0 /\ rollbacks = 0
        BY BoundsAssumption DEF Forgotten, Inv, Inv, TypeInv, TypeOK
    <3>2. seen[r] \in Nat /\ seen[r] <= edits
        BY DEF Inv, TypeInv, TypeOK, FreshInv
    <3>. QED
        BY <3>1, <3>2
  <2>5. ledger = snap[r]
      BY <2>3, <2>4 DEF Inv, FreshInv
  <2>6. ~Excused(s) /\ ~Unsaved(s)
    <3>1. ~Excused(s)
        BY DEF Forgotten, Excused
    <3>2. saving[r] # "ledger"
        BY <2>3 DEF Inv, SaveInv, HistoryInv
    <3>. QED
        BY <2>3, <3>1, <3>2 DEF Unsaved
  <2>7. PICK e \in ledger : e.cache = s.cache => e.at >= s.at
      BY <2>4, <2>6 DEF Inv, MemoryInv, Remembered
  <2>8. e.cache = s.cache
      BY DEF Forgotten
  <2>9. clock >= e.at /\ clock - e.at >= Interval
      BY <2>2, <2>3, <2>5, <2>8 DEF Spawns, Due, DueAt
  <2>10. clock \in Nat /\ e.at \in Nat /\ s.at \in Nat /\ Interval \in Nat
      BY BoundsAssumption, IntervalAssumption
         DEF Inv, TypeInv, TypeOK, Completion
  <2>. QED
      BY <2>1, <2>7, <2>8, <2>9, <2>10
<1>. QED
    BY <1>1, InvHolds, PTL DEF Spec, EarlyOnlyIfForgotten

-----------------------------------------------------------------------------
(* Each invocation's uv is a NativeCommand.                                *)

LEMMA CommandInit == Init => \A r \in Run : Native(r)!Init
    BY DEF Init, Native!Init, UvState, UvAnswer, UvRunning

LEMMA CommandStep ==
    ASSUME TypeInv, HistoryInv, [Next]_vars, NEW r \in Run
    PROVE  [Native(r)!Next]_<<UvState(r), UvAnswer(r)>>
<1> DEFINE Kept == Native(r)!Next \/ UNCHANGED <<UvState(r), UvAnswer(r)>>
<1>stutter. ASSUME uv'[r] = uv[r], result'[r] = result[r] PROVE Kept
    BY <1>stutter DEF UvState, UvAnswer
<1>1. ASSUME NEW s \in Run,
             \/ Start(s) \/ AcquireLock(s) \/ LoadLedger(s) \/ CheckReport(s)
             \/ Inventory(s)
             \/ TimeoutGc(s) \/ CheckDestination(s) \/ CreateTemp(s)
             \/ WriteTemp(s) \/ RenameRefused(s) \/ RenameLedger(s)
             \/ RenameReport(s) \/ Return(s) \/ StorageFault(s)
      PROVE  UNCHANGED <<uv, result>>
    BY <1>1 DEF Start, AcquireLock, LoadLedger, CheckReport, Inventory,
       TimeoutGc,
       CheckDestination, CreateTemp, WriteTemp, RenameRefused, RenameLedger,
       RenameReport, Return, StorageFault
<1>2. ASSUME Tick \/ SetClockBack \/ EditLedger \/ EditReport \/ UNCHANGED vars
      PROVE  UNCHANGED <<uv, result>>
    BY <1>2 DEF Tick, SetClockBack, EditLedger, EditReport, memory, vars
<1>3. ASSUME NEW s \in Run, s # r,
             \/ Decline(s) \/ Decide(s) \/ FinishGc(s) \/ KillGc(s) \/ Crash(s)
             \/ UvLock(s) \/ UvFail(s) \/ UvComplete(s)
      PROVE  uv'[r] = uv[r] /\ result'[r] = result[r]
    BY <1>3 DEF Decline, Decide, FinishGc, KillGc, TerminateTree, Crash,
       UvLock,
       UvFail, UvComplete, memory, TypeInv, TypeOK
<1>4. ASSUME Decline(r) PROVE Kept
    <2>1. uv[r] = "none" /\ result[r] = "none"
      BY <1>4 DEF Decline, HistoryInv
    <2>2. uv'[r] = "none" /\ result'[r] \in {"kept", "failed"}
      BY <1>4, <2>1 DEF Decline, TypeInv, TypeOK
    <2>. QED
      BY <2>1, <2>2 DEF UvState, UvAnswer, UvRunning
<1>5. ASSUME Decide(r) PROVE Kept
    <2>1. uv[r] = "none" /\ result[r] = "none"
      BY <1>5 DEF Decide, HistoryInv
    <2>2. /\ result'[r] \in {"none", "not-due", "would-prune"}
          /\ uv'[r] \in {"none", "waiting"}
      BY <1>5, <2>1 DEF Decide, TypeInv, TypeOK
    <2>. QED
      BY <2>1, <2>2 DEF UvState, UvAnswer, UvRunning, Native!Next,
         Native!Launch
<1>6. ASSUME FinishGc(r) PROVE Kept
    <2>1. result[r] = "none" /\ uv[r] \in {"pruned", "failed"} /\ uv'[r] = uv[r]
      BY <1>6 DEF FinishGc, HistoryInv
    <2>2. result'[r] \in {"pruned", "failed"} /\ (result'[r] = "pruned" => uv[r] = "pruned")
      BY <1>6, <2>1 DEF FinishGc, GcSucceeded, TypeInv, TypeOK
    <2>. QED
      BY <2>1, <2>2 DEF UvState, UvAnswer, UvRunning, Native!Next, Native!Hear
<1>7. ASSUME KillGc(r) PROVE Kept
    <2>1. result[r] = "none" /\ result'[r] = "failed"
      BY <1>7 DEF KillGc, HistoryInv, TypeInv, TypeOK
    <2>2. uv'[r] = IF uv[r] \in UvRunning THEN "killed" ELSE uv[r]
      BY <1>7 DEF KillGc, TerminateTree, TypeInv, TypeOK
    <2>. QED
      BY <2>1, <2>2 DEF UvState, UvAnswer, UvRunning, UvPhase, TypeInv, TypeOK,
         Native!Next, Native!Hear, Native!Stop
<1>8. ASSUME Crash(r) \/ UvLock(r) \/ UvFail(r) \/ UvComplete(r) PROVE Kept
    <2>1. UNCHANGED result
      BY <1>8 DEF Crash, UvLock, UvFail, UvComplete, memory
    <2>2. \/ uv'[r] = uv[r]
          \/ uv[r] \in UvRunning /\ uv'[r] \in {"pruning", "pruned", "failed", "killed"}
      BY <1>8 DEF Crash, UvLock, UvFail, UvComplete, UvRunning, TypeInv, TypeOK
    <2>. QED
      BY <2>1, <2>2 DEF UvState, UvAnswer, UvRunning, Native!Next, Native!End
<1>. QED
    BY <1>stutter, <1>1, <1>2, <1>3, <1>4, <1>5, <1>6, <1>7, <1>8
       DEF Next, RunStep, AllEnded

\* homecache/uv.rs: to each invocation uv is a native command.
THEOREM UvKeepsCommand == Spec => UvIsACommand
<1>1. Inv /\ [Next]_vars =>
        [\A r \in Run : [Native(r)!Next]_<<UvState(r), UvAnswer(r)>>]_vars
    BY CommandStep DEF Inv
<1>. QED
    BY <1>1, CommandInit, InvHolds, PTL DEF Spec, UvIsACommand

-----------------------------------------------------------------------------
(* The invocations take turns: CleanerRuns implements Maintenance.         *)

LEMMA SerialInit == Init => Serial!Init
    BY DEF Init, Serial!Init, Turn, TurnStage, TurnCache, TurnMemory, Told,
       Started, Finished, EndedWell

\* What the report tells stays true of the invocation it names.
LEMMA ToldStays ==
    ASSUME AuthorInv, TypeInv, UNCHANGED reportBy,
           \A s \in Run : pc[s] \in Ended \cup {"unlock"} =>
                              result'[s] = result[s]
    PROVE  UNCHANGED Told
<1>1. CASE reportBy = NoRun
    BY <1>1 DEF Told
<1>2. CASE reportBy # NoRun
    <2>1. reportBy \in Run /\ result'[reportBy] = result[reportBy]
      BY <1>2 DEF AuthorInv, TypeInv, TypeOK
    <2>. QED
      BY <1>2, <2>1 DEF Told
<1>. QED
    BY <1>1, <1>2

\* The history of the prunes and of the good ends is that of the phases.
LEMMA PhasesStay ==
    ASSUME TypeInv, UNCHANGED <<uv, dry>>,
           \A s \in Run : pc'[s] = "done" <=> pc[s] = "done"
    PROVE  UNCHANGED <<Started, Finished, EndedWell>>
    BY DEF Started, Finished, EndedWell

\* What the turn of r consists of.
LEMMA TurnOf ==
    ASSUME TypeInv, NEW r \in Run, lock = r, pc[r] # "load"
    PROVE  /\ Turn = r
           /\ TurnStage = Stage(r)
           /\ TurnCache = IF Stage(r) = "pruning" THEN target[r] ELSE NoCache
           /\ TurnMemory = snap[r]
    BY NoRunAssumption DEF Turn, TurnStage, TurnCache, TurnMemory

\* A step that ends r early stops its turn, if it has one.
LEMMA EndedEarly ==
    ASSUME Inv, NEW r \in Run, pc[r] \notin Ended,
           NEW l \in {"aborted", "crashed"},
           pc' = [pc EXCEPT ![r] = l],
           lock' = (IF lock = r THEN NoRun ELSE lock),
           UNCHANGED <<clock, ledger, reportBy, dry, snap, target, result,
                       saving, Started, Finished>>
    PROVE  [Serial!Next]_(Serial!vars)
<1>. USE NoRunAssumption DEF Inv, TypeInv, TypeOK
<1>1. UNCHANGED Told
    BY ToldStays
<1>2. UNCHANGED EndedWell
    BY DEF EndedWell, Ended
<1>3. CASE lock = r /\ pc[r] # "load"
    <2>1. Turn = r /\ Turn' = NoRun
      BY <1>3 DEF Turn
    <2>2. TurnStage' = "idle" /\ TurnCache' = NoCache /\ TurnMemory' = {}
      BY <2>1 DEF TurnStage, TurnCache, TurnMemory
    <2>. QED
      BY <1>1, <1>2, <2>1, <2>2 DEF Serial!Next, Serial!Stop, Serial!Leave
<1>4. CASE lock = r /\ pc[r] = "load"
    <2>1. Turn = NoRun /\ Turn' = NoRun
      BY <1>4 DEF Turn
    <2>. QED
      BY <1>1, <1>2, <2>1 DEF Serial!vars, TurnStage, TurnCache, TurnMemory
<1>5. CASE lock # r
    <2>1. lock' = lock /\ (lock # NoRun => pc'[lock] = pc[lock])
      BY <1>5
    <2>2. UNCHANGED Turn
      BY <2>1 DEF Turn
    <2>3. Turn # NoRun => Turn = lock /\ Stage(Turn)' = Stage(Turn)
      BY <2>1, <2>2 DEF Turn, Stage
    <2>. QED
      BY <1>1, <1>2, <2>2, <2>3 DEF Serial!vars, TurnStage, TurnCache, TurnMemory
<1>. QED
    BY <1>3, <1>4, <1>5

\* A step that leaves the turn as it is, and what is on disk.
LEMMA TurnStays ==
    ASSUME Inv, UNCHANGED <<clock, lock, ledger, reportBy, Started, Finished,
                            EndedWell>>,
           \A s \in Run : pc[s] \in Ended \cup {"unlock"} =>
                              result'[s] = result[s],
           lock # NoRun =>
             /\ pc'[lock] = "load" <=> pc[lock] = "load"
             /\ pc[lock] # "load" =>
                  /\ Stage(lock)' = Stage(lock)
                  /\ target'[lock] = target[lock]
                  /\ snap'[lock] = snap[lock]
    PROVE  UNCHANGED Serial!vars
<1>1. UNCHANGED Told
    BY ToldStays DEF Inv
<1>2. UNCHANGED Turn
    BY DEF Turn
<1>3. CASE Turn = NoRun
    BY <1>1, <1>2, <1>3 DEF Serial!vars, TurnStage, TurnCache, TurnMemory
<1>4. CASE Turn # NoRun
    <2>1. Turn = lock /\ lock # NoRun /\ pc[lock] # "load"
      BY <1>4 DEF Turn
    <2>2. UNCHANGED <<TurnStage, TurnMemory>>
      BY <1>2, <1>4, <2>1 DEF TurnStage, TurnMemory
    <2>3. UNCHANGED TurnCache
      BY <1>2, <2>1, <2>2 DEF TurnCache
    <2>. QED
      BY <1>1, <1>2, <2>2, <2>3 DEF Serial!vars
<1>. QED
    BY <1>3, <1>4

-----------------------------------------------------------------------------
(* One lemma per operation that moves a turn.                              *)

\* Loading the ledger begins the turn of a run, and means nothing of a preview.
LEMMA LoadBegins ==
    ASSUME Inv, NEW r \in Run, LoadLedger(r)
    PROVE  [Serial!Next]_(Serial!vars)
<1>. USE NoRunAssumption DEF Inv, TypeInv, TypeOK, LoadLedger
<1>1. /\ pc[r] = "load"
      /\ UNCHANGED <<clock, ledger, reportBy, dry, target, result, saving, uv>>
    BY DEF environment, files
<1>2. CASE ledgerFile # "sound"
    <2>1. UNCHANGED <<snap, Started, Finished>>
      BY <1>1, <1>2 DEF Started, Finished
    <2>. QED
      BY <1>1, <1>2, <2>1, EndedEarly DEF Abort, Ended
<1>3. CASE ledgerFile = "sound"
    <2>1. /\ pc' = [pc EXCEPT ![r] = "dest"]
          /\ snap' = [snap EXCEPT ![r] = ledger]
          /\ lock' = lock
      BY <1>3 DEF Goto
    <2>2. UNCHANGED <<Told, Started, Finished, EndedWell>>
      <3>1. \A s \in Run : pc'[s] = "done" <=> pc[s] = "done"
        BY <1>1, <2>1
      <3>. QED
        BY <1>1, <3>1, PhasesStay, ToldStays
    <2>3. CASE lock = r
      <3>1. Turn = NoRun /\ TurnCache = NoCache
        BY <1>1, <2>3 DEF Turn, TurnStage, TurnCache
      <3>2. Turn' = r /\ TurnStage' = "deciding"
        BY <1>1, <2>1, <2>3 DEF Turn, TurnStage, Stage
      <3>3. TurnMemory' = ledger /\ TurnCache' = NoCache
        BY <2>1, <3>2 DEF TurnMemory, TurnCache
      <3>. QED
        BY <1>1, <2>2, <3>1, <3>2, <3>3 DEF Serial!Next, Serial!Begin
    <2>4. CASE lock # r
      <3>1. lock # NoRun => /\ pc'[lock] = pc[lock]
                            /\ Stage(lock)' = Stage(lock)
                            /\ snap'[lock] = snap[lock]
        BY <1>1, <2>1, <2>4 DEF Stage
      <3>. QED
        BY <1>1, <2>1, <2>2, <3>1, TurnStays
    <2>. QED
      BY <2>3, <2>4
<1>. QED
    BY <1>2, <1>3

\* The decision of a run against GC is a miss.
LEMMA DeclineMisses ==
    ASSUME Inv, NEW r \in Run, Decline(r)
    PROVE  [Serial!Next]_(Serial!vars)
<1>. USE NoRunAssumption DEF Inv, TypeInv, TypeOK
<1>1. /\ pc[r] = "probe"
      /\ UNCHANGED <<clock, lock, ledger, reportBy, dry, snap, target, saving,
                     uv>>
    BY DEF Decline, environment, files
<1>2. PICK a \in {"kept", "failed"} : result' = [result EXCEPT ![r] = a]
    BY DEF Decline
<1>3. pc' = [pc EXCEPT ![r] = IF dry[r] THEN "done" ELSE "check"]
    BY DEF Decline, Goto
<1>4. UNCHANGED <<Told, Started, Finished, EndedWell>>
    <2>1. \A s \in Run : pc[s] \in Ended \cup {"unlock"} =>
                             result'[s] = result[s]
      BY <1>1, <1>2 DEF Ended
    <2>2. UNCHANGED EndedWell
      BY <1>1, <1>3 DEF EndedWell
    <2>. QED
      BY <1>1, <2>1, <2>2, ToldStays DEF Started, Finished
<1>5. CASE ~dry[r]
    <2>1. lock = r /\ result'[r] # "pruned" /\ pc'[r] = "check"
      BY <1>1, <1>2, <1>3, <1>5 DEF LockInv, InSection, Critical
    <2>2. Turn = r /\ TurnStage = "deciding" /\ TurnMemory = snap[r]
      BY <1>1, <2>1, TurnOf DEF Stage
    <2>3. Turn' = r /\ TurnStage' = "unpruned"
      BY <1>1, <2>1 DEF Turn, TurnStage, Stage
    <2>4. TurnCache' = NoCache /\ TurnMemory' = snap[r]
      BY <1>1, <2>3 DEF TurnCache, TurnMemory
    <2>. QED
      BY <1>1, <1>4, <2>2, <2>3, <2>4 DEF Serial!Next, Serial!Miss
<1>6. CASE dry[r]
    <2>1. lock # r
      BY <1>6 DEF LockInv, InSection
    <2>2. lock # NoRun => pc'[lock] = pc[lock] /\ result'[lock] = result[lock]
      BY <1>2, <1>3, <2>1
    <2>3. \A s \in Run : pc[s] \in Ended \cup {"unlock"} =>
                             result'[s] = result[s]
      BY <1>1, <1>2 DEF Ended
    <2>. QED
      BY <1>1, <1>4, <2>2, <2>3, TurnStays DEF Stage
<1>. QED
    BY <1>5, <1>6

\* A run that finds its cache due prunes it; one that does not, misses.
LEMMA DecidePrunesOrMisses ==
    ASSUME Inv, NEW r \in Run, Decide(r)
    PROVE  [Serial!Next]_(Serial!vars)
<1>. USE NoRunAssumption DEF Inv, TypeInv, TypeOK
<1>1. /\ pc[r] = "probe" /\ uv[r] = "none" /\ result[r] = "none"
      /\ UNCHANGED <<clock, lock, ledger, reportBy, dry, snap, saving>>
    BY DEF Decide, environment, files, HistoryInv
<1>2. PICK c \in Cache :
        /\ target' = [target EXCEPT ![r] = c]
        /\ result' = [result EXCEPT ![r] =
             IF ~Due(r, c) THEN "not-due"
             ELSE IF dry[r] THEN "would-prune" ELSE "none"]
        /\ uv' = IF Spawns(r, c) THEN [uv EXCEPT ![r] = "waiting"] ELSE uv
        /\ Goto(r, IF dry[r] THEN "done"
                   ELSE IF Due(r, c) THEN "gc" ELSE "check")
    BY DEF Decide
<1>3. UNCHANGED <<Told, Finished, EndedWell>>
    <2>1. \A s \in Run : pc[s] \in Ended \cup {"unlock"} =>
                             result'[s] = result[s]
      BY <1>1, <1>2 DEF Ended
    <2>2. UNCHANGED EndedWell
      BY <1>1, <1>2 DEF EndedWell, Goto
    <2>3. UNCHANGED Finished
      BY <1>1, <1>2 DEF Finished
    <2>. QED
      BY <1>1, <2>1, <2>2, <2>3, ToldStays
<1>4. ASSUME ~dry[r]
      PROVE  /\ lock = r
             /\ Turn = r /\ TurnStage = "deciding"
             /\ TurnCache = NoCache /\ TurnMemory = snap[r]
    <2>1. lock = r
      BY <1>1, <1>4 DEF LockInv, InSection, Critical
    <2>. QED
      BY <1>1, <2>1, TurnOf DEF Stage
<1>5. CASE ~dry[r] /\ Due(r, c)
    <2>1. /\ pc'[r] = "gc" /\ target'[r] = c
          /\ uv' = [uv EXCEPT ![r] = "waiting"]
      BY <1>2, <1>5 DEF Goto, Spawns
    <2>2. Turn' = r /\ TurnStage' = "pruning" /\ TurnMemory' = snap[r]
      BY <1>1, <1>4, <1>5, <2>1 DEF Turn, TurnStage, TurnMemory, Stage
    <2>3. TurnCache' = c
      BY <2>1, <2>2 DEF TurnCache
    <2>4. r \notin Started /\ Started' = Started \cup {r}
      BY <1>1, <2>1 DEF Started
    <2>5. Serial!Due(c)
      BY <1>4, <1>5 DEF Due, DueAt, Serial!Due
    <2>. QED
      BY <1>1, <1>3, <1>4, <1>5, <2>2, <2>3, <2>4, <2>5
         DEF Serial!Next, Serial!Prune
<1>6. CASE ~dry[r] /\ ~Due(r, c)
    <2>1. pc'[r] = "check" /\ result'[r] = "not-due" /\ uv' = uv
      BY <1>2, <1>6 DEF Goto, Spawns
    <2>2. Turn' = r /\ TurnStage' = "unpruned" /\ TurnMemory' = snap[r]
      BY <1>1, <1>4, <1>6, <2>1 DEF Turn, TurnStage, TurnMemory, Stage
    <2>3. TurnCache' = NoCache
      BY <2>2 DEF TurnCache
    <2>4. UNCHANGED Started
      BY <2>1 DEF Started
    <2>. QED
      BY <1>1, <1>3, <1>4, <1>6, <2>2, <2>3, <2>4 DEF Serial!Next, Serial!Miss
<1>7. CASE dry[r]
    <2>1. lock # r /\ uv' = uv
      BY <1>2, <1>7 DEF LockInv, InSection, Spawns
    <2>2. lock # NoRun => /\ pc'[lock] = pc[lock]
                          /\ result'[lock] = result[lock]
                          /\ target'[lock] = target[lock]
      BY <1>2, <2>1 DEF Goto
    <2>3. \A s \in Run : pc[s] \in Ended \cup {"unlock"} =>
                             result'[s] = result[s]
      BY <1>1, <1>2 DEF Ended
    <2>4. UNCHANGED Started
      BY <2>1 DEF Started
    <2>. QED
      BY <1>1, <1>3, <2>2, <2>3, <2>4, TurnStays DEF Stage
<1>. QED
    BY <1>5, <1>6, <1>7

\* A prune seen to complete succeeds; any other end of the wait is a miss.
LEMMA FinishSucceedsOrMisses ==
    ASSUME Inv, NEW r \in Run, FinishGc(r)
    PROVE  [Serial!Next]_(Serial!vars)
<1>. USE NoRunAssumption DEF Inv, TypeInv, TypeOK
<1>1. /\ pc[r] = "gc"
      /\ UNCHANGED <<clock, lock, ledger, reportBy, dry, target, uv>>
      /\ pc' = [pc EXCEPT ![r] = "check"]
    BY DEF FinishGc, environment, files, Goto
<1>2. lock = r
    BY <1>1 DEF LockInv, InSection, Critical, Ended
<1>3. /\ Turn = r /\ TurnStage = "pruning" /\ Turn' = r
      /\ TurnCache = target[r] /\ TurnMemory = snap[r]
    BY <1>1, <1>2, TurnOf DEF Stage, Turn
<1>4. PICK drained \in BOOLEAN :
        IF GcSucceeded(r, drained)
        THEN /\ result' = [result EXCEPT ![r] = "pruned"]
             /\ snap' = [snap EXCEPT ![r] = Recorded(snap[r],
                            [cache |-> target[r], at |-> clock, by |-> r])]
             /\ saving' = [saving EXCEPT ![r] = SaveOrder.first]
        ELSE /\ result' = [result EXCEPT ![r] = "failed"]
             /\ UNCHANGED <<snap, saving>>
    BY DEF FinishGc
<1>5. UNCHANGED <<Told, Started, Finished, EndedWell>>
    <2>1. \A s \in Run : pc[s] \in Ended \cup {"unlock"} =>
                             result'[s] = result[s]
      BY <1>1, <1>4 DEF Ended
    <2>2. \A s \in Run : pc'[s] = "done" <=> pc[s] = "done"
      BY <1>1
    <2>. QED
      BY <1>1, <2>1, <2>2, ToldStays, PhasesStay
<1>6. CASE GcSucceeded(r, drained)
    <2>1. /\ result'[r] = "pruned" /\ saving'[r] = "ledger"
          /\ snap'[r] = {[cache |-> target[r], at |-> clock, by |-> r]}
      BY <1>4, <1>6 DEF Recorded, SaveOrder
    <2>2. TurnStage' = "pruned"
      BY <1>1, <1>3, <2>1 DEF TurnStage, Stage
    <2>3. TurnCache' = NoCache /\ TurnMemory' = snap'[r]
      BY <1>3, <2>2 DEF TurnCache, TurnMemory
    <2>4. r \in Finished
      BY <1>6 DEF GcSucceeded, Finished
    <2>. QED
      BY <1>1, <1>3, <1>5, <2>1, <2>2, <2>3, <2>4
         DEF Serial!Next, Serial!Succeed
<1>7. CASE ~GcSucceeded(r, drained)
    <2>1. result'[r] = "failed" /\ UNCHANGED snap
      BY <1>4, <1>7
    <2>2. TurnStage' = "unpruned"
      BY <1>1, <1>3, <2>1 DEF TurnStage, Stage
    <2>3. TurnCache' = NoCache /\ TurnMemory' = snap[r]
      BY <1>3, <2>1, <2>2 DEF TurnCache, TurnMemory
    <2>. QED
      BY <1>1, <1>3, <1>5, <2>1, <2>2, <2>3 DEF Serial!Next, Serial!Miss
<1>. QED
    BY <1>6, <1>7

\* A prune that was killed is a miss, even if uv completed just before.
LEMMA KillMisses ==
    ASSUME Inv, NEW r \in Run, KillGc(r)
    PROVE  [Serial!Next]_(Serial!vars)
<1>. USE NoRunAssumption DEF Inv, TypeInv, TypeOK
<1>1. /\ pc[r] = "kill"
      /\ UNCHANGED <<clock, lock, ledger, reportBy, dry, snap, target, saving>>
      /\ pc' = [pc EXCEPT ![r] = "check"]
      /\ result' = [result EXCEPT ![r] = "failed"]
    BY DEF KillGc, environment, files, Goto
<1>2. lock = r
    BY <1>1 DEF LockInv, InSection, Critical, Ended
<1>3. /\ Turn = r /\ TurnStage = "pruning" /\ Turn' = r
      /\ TurnMemory = snap[r]
    BY <1>1, <1>2, TurnOf DEF Stage, Turn
<1>4. UNCHANGED <<Started, Finished>>
    BY DEF KillGc, TerminateTree, UvRunning, Started, Finished
<1>5. UNCHANGED <<Told, EndedWell>>
    <2>1. \A s \in Run : pc[s] \in Ended \cup {"unlock"} =>
                             result'[s] = result[s]
      BY <1>1 DEF Ended
    <2>2. UNCHANGED EndedWell
      BY <1>1 DEF EndedWell
    <2>. QED
      BY <1>1, <2>1, <2>2, ToldStays
<1>6. TurnStage' = "unpruned"
    BY <1>1, <1>3 DEF TurnStage, Stage
<1>7. TurnCache' = NoCache /\ TurnMemory' = snap[r]
    BY <1>1, <1>3, <1>6 DEF TurnCache, TurnMemory
<1>. QED
    BY <1>1, <1>3, <1>4, <1>5, <1>6, <1>7 DEF Serial!Next, Serial!Miss

\* The ledger is replaced by the memory of the turn that pruned.
LEMMA RenameRecords ==
    ASSUME Inv, NEW r \in Run, RenameLedger(r)
    PROVE  [Serial!Next]_(Serial!vars)
<1>. USE NoRunAssumption DEF Inv, TypeInv, TypeOK
<1>1. /\ pc[r] = "rename" /\ saving[r] = "ledger"
      /\ result[r] = "pruned" /\ lock = r
      /\ ledger' = snap[r]
      /\ pc' = [pc EXCEPT ![r] = "check"]
      /\ saving' = [saving EXCEPT ![r] = "report"]
      /\ UNCHANGED <<clock, lock, reportBy, dry, snap, target, result, uv>>
    BY LedgerReplaced DEF environment
<1>2. /\ Turn = r /\ TurnStage = "pruned"
      /\ TurnCache = NoCache /\ TurnMemory = snap[r]
    BY <1>1, TurnOf DEF Stage
<1>3. Turn' = r /\ TurnStage' = "recorded"
    BY <1>1 DEF Turn, TurnStage, Stage
<1>4. TurnCache' = NoCache /\ TurnMemory' = snap[r]
    BY <1>1, <1>3 DEF TurnCache, TurnMemory
<1>5. UNCHANGED <<Told, Started, Finished, EndedWell>>
    <2>1. \A s \in Run : pc'[s] = "done" <=> pc[s] = "done"
      BY <1>1
    <2>. QED
      BY <1>1, <2>1, ToldStays, PhasesStay
<1>. QED
    BY <1>1, <1>2, <1>3, <1>4, <1>5 DEF Serial!Next, Serial!Record

\* The report tells of a prune exactly when the turn has recorded one.
LEMMA RenameTells ==
    ASSUME Inv, NEW r \in Run, RenameReport(r)
    PROVE  [Serial!Next]_(Serial!vars)
<1>. USE NoRunAssumption DEF Inv, TypeInv, TypeOK
<1>1. /\ pc[r] = "rename" /\ saving[r] = "report" /\ lock = r
      /\ reportBy' = r
      /\ pc' = [pc EXCEPT ![r] = "unlock"]
      /\ UNCHANGED <<clock, lock, ledger, dry, snap, target, result, saving,
                     uv>>
    BY ReportReplaced DEF environment
<1>2. /\ Turn = r
      /\ TurnStage = IF result[r] = "pruned" THEN "recorded" ELSE "unpruned"
      /\ TurnCache = NoCache /\ TurnMemory = snap[r]
    BY <1>1, TurnOf DEF Stage
<1>3. Turn' = r /\ TurnStage' = "told"
    BY <1>1 DEF Turn, TurnStage, Stage
<1>4. TurnCache' = NoCache /\ TurnMemory' = snap[r]
    BY <1>1, <1>3 DEF TurnCache, TurnMemory
<1>5. UNCHANGED <<Started, Finished, EndedWell>>
    <2>1. \A s \in Run : pc'[s] = "done" <=> pc[s] = "done"
      BY <1>1
    <2>. QED
      BY <1>1, <2>1, PhasesStay
<1>6. Told' = {[by |-> r, pruned |-> TurnStage = "recorded"]}
    <2>1. Told' = {[by |-> r, pruned |-> result[r] = "pruned"]}
      BY <1>1 DEF Told
    <2>2. (result[r] = "pruned") = (TurnStage = "recorded")
      BY <1>2
    <2>. QED
      BY <2>1, <2>2, Zenon
<1>. QED
    BY <1>1, <1>2, <1>3, <1>4, <1>5, <1>6 DEF Serial!Next, Serial!Tell

\* A run that returns ends its turn well.
LEMMA ReturnEnds ==
    ASSUME Inv, NEW r \in Run, Return(r)
    PROVE  [Serial!Next]_(Serial!vars)
<1>. USE NoRunAssumption DEF Inv, TypeInv, TypeOK
<1>1. /\ pc[r] = "unlock" /\ lock' = NoRun
      /\ pc' = [pc EXCEPT ![r] = "done"]
      /\ UNCHANGED <<clock, ledger, reportBy, dry, snap, target, result, saving,
                     uv>>
    BY DEF Return, environment, files, Goto
<1>2. lock = r /\ ~dry[r]
    BY <1>1 DEF LockInv, InSection, Critical, Ended
<1>3. Turn = r /\ TurnStage = "told" /\ Turn' = NoRun
    BY <1>1, <1>2, TurnOf DEF Stage, Turn
<1>4. TurnStage' = "idle" /\ TurnCache' = NoCache /\ TurnMemory' = {}
    BY <1>3 DEF TurnStage, TurnCache, TurnMemory
<1>5. UNCHANGED <<Told, Started, Finished>>
    BY <1>1, ToldStays DEF Started, Finished
<1>6. EndedWell' = EndedWell \cup {r}
    BY <1>1, <1>2 DEF EndedWell
<1>. QED
    BY <1>1, <1>3, <1>4, <1>5, <1>6 DEF Serial!Next, Serial!End, Serial!Leave

\* uv completes, in the turn that started it or after it.
LEMMA UvFinishes ==
    ASSUME Inv, NEW r \in Run, UvComplete(r)
    PROVE  [Serial!Next]_(Serial!vars)
<1>. USE NoRunAssumption DEF Inv, TypeInv, TypeOK
<1>1. /\ uv[r] = "pruning" /\ uv' = [uv EXCEPT ![r] = "pruned"]
      /\ UNCHANGED <<clock, lock, ledger, reportBy, pc, dry, snap, target,
                     result, saving>>
    BY DEF UvComplete, environment, files, memory
<1>2. UNCHANGED <<Turn, TurnStage, TurnCache, TurnMemory, Told, EndedWell>>
    BY <1>1 DEF Turn, TurnStage, TurnCache, TurnMemory, Told, EndedWell, Stage
<1>3. /\ r \in Started \ Finished
      /\ Started' = Started
      /\ Finished' = Finished \cup {r}
    BY <1>1 DEF Started, Finished
<1>. QED
    BY <1>1, <1>2, <1>3 DEF Serial!Next, Serial!Finish

\* The environment touches the two files and the clock, and no turn.
LEMMA EnvironmentTampers ==
    ASSUME Inv, Tick \/ SetClockBack \/ EditLedger \/ EditReport
    PROVE  [Serial!Next]_(Serial!vars)
<1>. USE NoRunAssumption, BoundsAssumption DEF Inv, TypeInv, TypeOK
<1>1. UNCHANGED <<lock, pc, dry, snap, target, result, saving, uv>>
    BY DEF Tick, SetClockBack, EditLedger, EditReport, memory
<1>2. UNCHANGED <<Turn, TurnStage, TurnCache, TurnMemory, Started, Finished,
                  EndedWell>>
    BY <1>1 DEF Turn, TurnStage, TurnCache, TurnMemory, Started, Finished,
       EndedWell, Stage
<1>3. CASE Tick \/ SetClockBack
    <2>1. clock' \in Nat /\ UNCHANGED <<ledger, reportBy>>
      BY <1>3 DEF Tick, SetClockBack, files
    <2>2. UNCHANGED Told
      BY <1>1, <2>1 DEF Told
    <2>. QED
      BY <1>2, <2>1, <2>2 DEF Serial!Next, Serial!PassTime
<1>4. CASE EditLedger
    <2>1. ledger' = {} /\ UNCHANGED <<clock, reportBy>>
      BY <1>4 DEF EditLedger
    <2>2. UNCHANGED Told
      BY <1>1, <2>1 DEF Told
    <2>. QED
      BY <1>2, <2>1, <2>2 DEF Serial!Next, Serial!Tamper
<1>5. CASE EditReport
    <2>1. Told' = {} /\ UNCHANGED <<clock, ledger>>
      BY <1>5 DEF EditReport, Told
    <2>. QED
      BY <1>2, <2>1 DEF Serial!Next, Serial!Tamper
<1>. QED
    BY <1>3, <1>4, <1>5

\* The steps between those are nobody's business but the invocation's own.
LEMMA OwnSteps ==
    ASSUME Inv, NEW r \in Run,
           \/ Start(r) \/ AcquireLock(r) \/ CheckReport(r)
           \/ Inventory(r) \/ TimeoutGc(r)
           \/ CheckDestination(r) \/ CreateTemp(r) \/ WriteTemp(r)
           \/ UvLock(r) \/ UvFail(r)
    PROVE  [Serial!Next]_(Serial!vars)
<1>. USE NoRunAssumption DEF Inv, TypeInv, TypeOK
<1>1. UNCHANGED <<clock, ledger, reportBy, snap, target, result, saving>>
    BY DEF Start, AcquireLock, CheckReport, Inventory, TimeoutGc,
       CheckDestination,
       CreateTemp, WriteTemp, UvLock, UvFail, environment, files, memory
<1>2. UNCHANGED <<Started, Finished>>
    BY DEF Start, AcquireLock, CheckReport, Inventory, TimeoutGc,
       CheckDestination,
       CreateTemp, WriteTemp, UvLock, UvFail, Started, Finished, UvRunning
<1>3. CASE Start(r)
    <2>1. PICK d \in BOOLEAN :
            /\ pc[r] = "idle"
            /\ pc' = [pc EXCEPT ![r] = IF d THEN "load" ELSE "lock"]
            /\ dry' = [dry EXCEPT ![r] = d]
            /\ UNCHANGED lock
      BY <1>3 DEF Start, Goto
    <2>2. lock # r
      BY <2>1 DEF LockInv, InSection, Critical
    <2>3. lock # NoRun => pc'[lock] = pc[lock]
      BY <2>1, <2>2
    <2>4. UNCHANGED EndedWell
      BY <2>1 DEF EndedWell
    <2>. QED
      BY <1>1, <1>2, <2>1, <2>3, <2>4, TurnStays DEF Stage
<1>4. CASE AcquireLock(r)
    <2>1. pc[r] = "lock" /\ UNCHANGED dry
      BY <1>4 DEF AcquireLock
    <2>2. CASE Abort(r)
      BY <1>1, <1>2, <2>1, <2>2, EndedEarly DEF Abort, Ended
    <2>3. CASE lock = NoRun
      <3>1. lock' = r /\ pc' = [pc EXCEPT ![r] = "load"]
        BY <1>4, <2>3 DEF AcquireLock, TakeLock, Goto
      <3>2. Turn = NoRun /\ Turn' = NoRun
        BY <2>3, <3>1 DEF Turn
      <3>3. UNCHANGED EndedWell
        BY <2>1, <3>1 DEF EndedWell
      <3>4. UNCHANGED Told
        BY <1>1 DEF Told
      <3>. QED
        BY <1>1, <1>2, <3>2, <3>3, <3>4
           DEF Serial!vars, TurnStage, TurnCache, TurnMemory
    <2>. QED
      BY <1>4, <2>2, <2>3 DEF AcquireLock, LockHeld
<1>5. CASE \/ CheckReport(r)
           \/ Inventory(r) \/ TimeoutGc(r) \/ CheckDestination(r)
           \/ CreateTemp(r) \/ WriteTemp(r)
    <2>1. /\ UNCHANGED dry
          /\ \/ pc[r] \in {"dest", "check", "create"} /\ Abort(r)
             \/ /\ UNCHANGED lock
                /\ \E l \in {"scan", "probe", "kill", "create", "write", "rename"} :
                    /\ pc' = [pc EXCEPT ![r] = l]
                    /\ pc[r] \in CASE l = "scan"   -> {"dest"}
                                   [] l = "probe"  -> {"dest", "scan"}
                                   [] l = "kill"   -> {"gc"}
                                   [] l = "create" -> {"check"}
                                   [] l = "write"  -> {"create"}
                                   [] l = "rename" -> {"write"}
      BY <1>5 DEF CheckReport, Inventory, TimeoutGc, CheckDestination,
         CreateTemp,
         WriteTemp, Goto
    <2>2. CASE pc[r] \in {"dest", "check", "create"} /\ Abort(r)
      BY <1>1, <1>2, <2>1, <2>2, EndedEarly DEF Abort, Ended
    <2>3. ASSUME UNCHANGED lock,
                 NEW l \in {"scan", "probe", "kill", "create", "write", "rename"},
                 pc' = [pc EXCEPT ![r] = l],
                 pc[r] \in CASE l = "scan"   -> {"dest"}
                             [] l = "probe"  -> {"dest", "scan"}
                             [] l = "kill"   -> {"gc"}
                             [] l = "create" -> {"check"}
                             [] l = "write"  -> {"create"}
                             [] l = "rename" -> {"write"}
          PROVE  UNCHANGED Serial!vars
      <3>1. lock # NoRun => /\ pc'[lock] = "load" <=> pc[lock] = "load"
                            /\ Stage(lock)' = Stage(lock)
        BY <1>1, <2>3 DEF Stage
      <3>2. UNCHANGED EndedWell
        BY <2>1, <2>3 DEF EndedWell
      <3>. QED
        BY <1>1, <1>2, <2>3, <3>1, <3>2, TurnStays
    <2>. QED
      BY <2>1, <2>2, <2>3
<1>6. CASE UvLock(r) \/ UvFail(r)
    <2>1. UNCHANGED <<lock, pc, dry>>
      BY <1>6 DEF UvLock, UvFail, memory
    <2>2. lock # NoRun => Stage(lock)' = Stage(lock)
      BY <1>1, <2>1 DEF Stage
    <2>3. UNCHANGED EndedWell
      BY <2>1 DEF EndedWell
    <2>. QED
      BY <1>1, <1>2, <2>1, <2>2, <2>3, TurnStays
<1>. QED
    BY <1>3, <1>4, <1>5, <1>6

\* An error, a fault or a kill stops the turn it hits.
LEMMA FailuresStop ==
    ASSUME Inv, NEW r \in Run,
           RenameRefused(r) \/ StorageFault(r) \/ Crash(r)
    PROVE  [Serial!Next]_(Serial!vars)
<1>. USE DEF Inv, TypeInv, TypeOK
<1>1. UNCHANGED <<clock, ledger, reportBy, dry, snap, target, result, saving>>
    BY DEF RenameRefused, StorageFault, Crash, environment, files
<1>2. /\ pc[r] \notin Ended
      /\ \E l \in {"aborted", "crashed"} : pc' = [pc EXCEPT ![r] = l]
      /\ lock' = IF lock = r THEN NoRun ELSE lock
    BY DEF RenameRefused, StorageFault, Crash, Abort, Live, Ended
<1>3. UNCHANGED <<Started, Finished>>
    BY DEF RenameRefused, StorageFault, Crash, Started, Finished, UvRunning
<1>. QED
    BY <1>1, <1>2, <1>3, EndedEarly

LEMMA SerialStep == Inv /\ [Next]_vars => [Serial!Next]_(Serial!vars)
<1> SUFFICES ASSUME Inv, [Next]_vars PROVE [Serial!Next]_(Serial!vars)
    OBVIOUS
<1>1. ASSUME NEW r \in Run, Start(r) \/ RunStep(r) \/ Crash(r)
      PROVE  [Serial!Next]_(Serial!vars)
    BY <1>1, LoadBegins, DeclineMisses, DecidePrunesOrMisses,
       FinishSucceedsOrMisses, KillMisses, RenameRecords, RenameTells,
       ReturnEnds, OwnSteps, FailuresStop DEF RunStep
<1>2. ASSUME NEW r \in Run, UvLock(r) \/ UvFail(r) \/ UvComplete(r)
      PROVE  [Serial!Next]_(Serial!vars)
    BY <1>2, UvFinishes, OwnSteps
<1>3. CASE Tick \/ SetClockBack \/ EditLedger \/ EditReport
    BY <1>3, EnvironmentTampers
<1>4. CASE UNCHANGED vars
    BY <1>4 DEF vars, environment, files, memory, history, Serial!vars, Turn,
       TurnStage, TurnCache, TurnMemory, Told, Started, Finished, EndedWell,
       Stage
<1>. QED
    BY <1>1, <1>2, <1>3, <1>4 DEF Next, AllEnded

\* clean.rs, runner.rs: any number of invocations, however they interleave,
\* fail and are killed, amount to turns taken one after the other.
THEOREM RunsTakeTurns == Spec => RunsAreSerial
    BY SerialInit, SerialStep, InvHolds, PTL DEF Spec, RunsAreSerial, Serial!Spec

\* An invariant of Maintenance, proved of its actions alone.
LEMMA HonestNext ==
    ASSUME Serial!HonestInv, [Serial!Next]_(Serial!vars)
    PROVE  Serial!HonestInv'
<1>. USE DEF Serial!HonestInv, Serial!Honest
<1>1. ASSUME NEW r \in Run, Serial!Begin(r) PROVE Serial!HonestInv'
    BY <1>1 DEF Serial!Begin
<1>2. ASSUME NEW r \in Run, Serial!Finish(r) PROVE Serial!HonestInv'
    BY <1>2 DEF Serial!Finish
<1>3. ASSUME NEW c \in Cache, Serial!Prune(c) PROVE Serial!HonestInv'
    BY <1>3 DEF Serial!Prune
<1>4. CASE Serial!Succeed
    BY <1>4 DEF Serial!Succeed
<1>5. CASE Serial!Miss
    BY <1>5 DEF Serial!Miss
<1>6. CASE Serial!Record
    BY <1>6 DEF Serial!Record
<1>7. CASE Serial!Tell
    <2>1. ASSUME NEW t \in Told', t.pruned PROVE t.by \in Finished
      <3>1. t = [by |-> Turn, pruned |-> TurnStage = "recorded"]
        BY <1>7, <2>1, Zenon DEF Serial!Tell
      <3>2. t.by = Turn /\ t.pruned = (TurnStage = "recorded")
        BY <3>1, Zenon
      <3>3. TurnStage = "recorded"
        BY <2>1, <3>2, Zenon
      <3>. QED
        BY <3>2, <3>3
    <2>2. /\ UNCHANGED <<ledger, TurnMemory, Finished>>
          /\ TurnStage' = "told"
      BY <1>7 DEF Serial!Tell
    <2>. QED
      BY <2>1, <2>2
<1>8. CASE Serial!End \/ Serial!Stop
    BY <1>8 DEF Serial!End, Serial!Stop, Serial!Leave
<1>9. CASE Serial!Tamper \/ Serial!PassTime
    BY <1>9 DEF Serial!Tamper, Serial!PassTime
<1>10. CASE UNCHANGED Serial!vars
    BY <1>10 DEF Serial!vars
<1>. QED
    BY <1>1, <1>2, <1>3, <1>4, <1>5, <1>6, <1>7, <1>8, <1>9, <1>10
       DEF Serial!Next

\* maintenance.rs, report.rs: what the ledger holds and a report claims is a
\* prune that completed - a promise of the turns, so of the invocations.
THEOREM ReportsAreHonest == Spec => []Serial!Honest
<1>1. Serial!Init => Serial!HonestInv
    BY DEF Serial!Init, Serial!HonestInv, Serial!Honest
<1>2. Serial!HonestInv => Serial!Honest
    BY DEF Serial!HonestInv
<1>. QED
    BY <1>1, <1>2, HonestNext, RunsTakeTurns, PTL DEF RunsAreSerial, Serial!Spec

-----------------------------------------------------------------------------
(* Why every run ends, as far as it is not a matter of fairness.           *)

\* The steps of its own that an invocation may still take, the first one, which
\* starts it, included.
Remaining(r) ==
    CASE pc[r] \in Ended    -> 0
      [] pc[r] = "unlock"   -> 1
      [] pc[r] = "rename"   -> IF MoreToSave(r) THEN 6 ELSE 2
      [] pc[r] = "write"    -> IF MoreToSave(r) THEN 7 ELSE 3
      [] pc[r] = "create"   -> IF MoreToSave(r) THEN 8 ELSE 4
      [] pc[r] = "check"    -> IF MoreToSave(r) THEN 9 ELSE 5
      [] pc[r] = "kill"     -> 10
      [] pc[r] = "gc"       -> 11
      [] pc[r] = "probe"    -> 12
      [] pc[r] = "scan"     -> 13
      [] pc[r] = "dest"     -> 14
      [] pc[r] = "load"     -> 15
      [] pc[r] = "lock"     -> 16
      [] pc[r] = "idle"     -> 17

\* Each of its own steps brings an invocation nearer to its end, and no step of
\* another invocation, of uv or of the environment takes it further away.
ApproachesEnd ==
    [][\A r \in Run : /\ Remaining(r)' <= Remaining(r)
                      /\ RunStep(r) => Remaining(r)' < Remaining(r)]_vars

\* When an invocation waits for uv, the deadline of process::run may pass, or uv
\* has ended.
WaitEnds ==
    \A r \in Run : pc[r] = "gc" =>
        DeadlinePasses(r) \/ uv[r] \in {"pruned", "failed"}

\* An invocation that is not over can take a step by itself, or it waits for
\* the git of its inventory, the one wait that nothing ends.
NeverStuck ==
    \A r \in Run : Live(r) =>
        \/ pc[r] = "scan"
        \/ pc[r] \in {"lock", "load", "dest", "probe", "kill",
                      "check", "create", "write", "unlock"}
        \/ pc[r] = "gc" /\ (DeadlinePasses(r) \/ uv[r] \in {"pruned", "failed"})
        \/ /\ pc[r] = "rename"
           /\ \/ DestinationState(r) = "directory"
              \/ saving[r] = "ledger" /\ ledgerFile # "directory"
              \/ saving[r] = "report" /\ reportFile # "directory"

\* A step of one invocation moves no other.
LEMMA OtherStepsKeep ==
    ASSUME TypeInv, NEW r \in Run, NEW s \in Run, s # r,
           Start(s) \/ RunStep(s) \/ Crash(s)
    PROVE  UNCHANGED <<pc[r], result[r], saving[r]>>
<1>. USE DEF TypeInv, TypeOK
<1>1. CASE Start(s) \/ AcquireLock(s) \/ LoadLedger(s) \/ CheckReport(s)
           \/ Inventory(s)
           \/ TimeoutGc(s) \/ CheckDestination(s) \/ CreateTemp(s)
           \/ WriteTemp(s) \/ RenameRefused(s) \/ Return(s)
           \/ StorageFault(s) \/ Crash(s)
    BY <1>1 DEF Start, AcquireLock, LoadLedger, CheckReport, Inventory,
       TimeoutGc,
       CheckDestination, CreateTemp, WriteTemp, RenameRefused, Return,
       StorageFault, Crash, Goto, Abort, TakeLock, LockHeld
<1>2. CASE Decline(s) \/ Decide(s) \/ FinishGc(s) \/ KillGc(s)
    BY <1>2 DEF Decline, Decide, FinishGc, KillGc, Goto
<1>3. CASE RenameLedger(s) \/ RenameReport(s)
    BY <1>3 DEF RenameLedger, RenameReport, AfterReplacement, Goto
<1>. QED
    BY <1>1, <1>2, <1>3 DEF RunStep

LEMMA WaitInit == Init => WaitEnds
    BY DEF Init, WaitEnds

LEMMA WaitNext == TypeInv /\ WaitEnds /\ [Next]_vars => WaitEnds'
<1> SUFFICES ASSUME TypeInv, WaitEnds, [Next]_vars, NEW r \in Run, pc'[r] = "gc"
             PROVE  uv'[r] \in UvRunning \cup {"pruned", "failed"}
    BY DEF WaitEnds, DeadlinePasses
<1>. USE DEF TypeInv, TypeOK
<1>1. CASE pc[r] = "gc"
    <2>1. uv[r] \in UvRunning \cup {"pruned", "failed"}
      BY <1>1 DEF WaitEnds, DeadlinePasses
    <2>2. CASE uv'[r] = uv[r]
      BY <2>1, <2>2
    <2>3. ASSUME NEW s \in Run, Start(s) \/ RunStep(s)
          PROVE  uv'[r] = uv[r]
      <3>1. CASE Decide(s)
        BY <1>1, <3>1 DEF Decide, Spawns
      <3>2. CASE KillGc(s)
        BY <1>1, <3>2 DEF KillGc, TerminateTree
      <3>. QED
        BY <2>3, <3>1, <3>2 DEF RunStep, Start, AcquireLock, LoadLedger,
           CheckReport, Inventory, Decline, FinishGc, TimeoutGc,
           CheckDestination,
           CreateTemp, WriteTemp, RenameRefused, RenameLedger, RenameReport,
           Return, StorageFault
    <2>4. ASSUME NEW s \in Run, Crash(s) PROVE uv'[r] = uv[r]
      BY <1>1, <2>4 DEF Crash
    <2>5. ASSUME NEW s \in Run, UvLock(s) \/ UvFail(s) \/ UvComplete(s)
          PROVE  uv'[r] \in UvRunning \cup {"pruned", "failed"}
      BY <2>1, <2>5 DEF UvLock, UvFail, UvComplete, UvRunning
    <2>6. ASSUME \/ Tick \/ SetClockBack \/ EditLedger \/ EditReport
                 \/ UNCHANGED vars
          PROVE  uv'[r] = uv[r]
      BY <2>6 DEF Tick, SetClockBack, EditLedger, EditReport, vars
    <2>. QED
      BY <2>2, <2>3, <2>4, <2>5, <2>6 DEF Next, AllEnded
<1>2. CASE pc[r] # "gc"
    <2>1. Decide(r)
      <3>1. ASSUME NEW s \in Run, Start(s) \/ RunStep(s) \/ Crash(s)
            PROVE  Decide(r)
        <4>1. s = r
          BY <1>2, <3>1, OtherStepsKeep
        <4>2. ~Abort(r) /\ ~Crash(r)
          BY <1>2 DEF Abort, Crash
        <4>3. CASE Start(r) \/ AcquireLock(r) \/ LoadLedger(r) \/ CheckReport(r)
                   \/ Inventory(r)
                   \/ TimeoutGc(r) \/ CheckDestination(r) \/ CreateTemp(r)
                   \/ WriteTemp(r) \/ RenameRefused(r) \/ StorageFault(r)
          BY <1>2, <4>2, <4>3 DEF Start, AcquireLock, LoadLedger, CheckReport,
             Inventory,
             TimeoutGc, CheckDestination, CreateTemp, WriteTemp, RenameRefused,
             StorageFault, Goto, LockHeld
        <4>4. CASE Decline(r) \/ FinishGc(r) \/ KillGc(r) \/ RenameLedger(r)
                   \/ RenameReport(r) \/ Return(r)
          BY <1>2, <4>4 DEF Decline, FinishGc, KillGc, RenameLedger,
             RenameReport, Return, AfterReplacement, Goto
        <4>. QED
          BY <3>1, <4>1, <4>2, <4>3, <4>4 DEF RunStep
      <3>2. ASSUME NEW s \in Run, UvLock(s) \/ UvFail(s) \/ UvComplete(s)
            PROVE  FALSE
        BY <1>2, <3>2 DEF UvLock, UvFail, UvComplete, memory
      <3>3. ASSUME \/ Tick \/ SetClockBack \/ EditLedger \/ EditReport
                   \/ UNCHANGED vars
            PROVE  FALSE
        BY <1>2, <3>3 DEF Tick, SetClockBack, EditLedger, EditReport, memory,
           vars
      <3>. QED
        BY <3>1, <3>2, <3>3 DEF Next, AllEnded
    <2>. QED
      BY <2>1 DEF Decide, Spawns, Goto, UvRunning
<1>. QED
    BY <1>1, <1>2

\* process.rs, homecache/uv.rs, scan.rs: no invocation waits for a uv that
\* neither runs nor has an answer for it, or for anything else but git.
THEOREM NoRunIsStuck == Spec => []NeverStuck
<1>1. Inv /\ WaitEnds /\ [Next]_vars => WaitEnds'
    BY WaitNext DEF Inv
<1>2. Inv /\ WaitEnds => NeverStuck
  <2> SUFFICES ASSUME Inv, WaitEnds, NEW r \in Run, Live(r),
                      pc[r] \notin {"scan", "gc"}
               PROVE  \/ pc[r] \in {"lock", "load", "dest", "probe", "kill",
                                    "check", "create", "write", "unlock"}
                      \/ /\ pc[r] = "rename"
                         /\ \/ DestinationState(r) = "directory"
                            \/ saving[r] = "ledger" /\ ledgerFile # "directory"
                            \/ saving[r] = "report" /\ reportFile # "directory"
    BY DEF NeverStuck, WaitEnds
  <2>1. pc[r] \in Location /\ saving[r] \in {"ledger", "report"}
    BY DEF Inv, TypeInv, TypeOK
  <2>2. pc[r] = "rename" \/ pc[r] \in {"lock", "load", "dest", "probe", "kill",
                                      "check", "create", "write", "unlock"}
    BY <2>1 DEF Location, Critical, Live
  <2>. QED
    BY <2>1, <2>2 DEF DestinationState
<1>. QED
    BY <1>1, <1>2, WaitInit, InvHolds, PTL DEF Spec

LEMMA RemainingBound ==
    ASSUME TypeInv, NEW r \in Run
    PROVE  Remaining(r) \in 0..17
    BY DEF Remaining, TypeInv, TypeOK, Location, Critical, Ended

\* A step that leaves r where it is costs it nothing.
LEMMA RemainingStays ==
    ASSUME NEW r, UNCHANGED <<pc[r], result[r], saving[r]>>
    PROVE  Remaining(r)' = Remaining(r)
    BY DEF Remaining, MoreToSave

LEMMA OwnStepCounts ==
    ASSUME Inv, NEW r \in Run, Start(r) \/ RunStep(r) \/ Crash(r)
    PROVE  Remaining(r)' < Remaining(r)
<1>. USE DEF Inv, TypeInv, TypeOK, Remaining, MoreToSave, Ended
<1>1. CASE Abort(r) \/ Crash(r)
    <2>1. pc'[r] \in {"aborted", "crashed"}
      BY <1>1 DEF Abort, Crash
    <2>2. pc[r] \notin Ended
      BY <1>1 DEF RunStep, Start, AcquireLock, LoadLedger, CheckReport,
         Inventory,
         Decline, Decide, FinishGc, TimeoutGc, KillGc, CheckDestination,
         CreateTemp, WriteTemp, RenameRefused, RenameLedger, RenameReport,
         Return, StorageFault, Crash, Live
    <2>3. Remaining(r)' = 0
      BY <2>1
    <2>4. Remaining(r) > 0
      BY <2>2 DEF Location, Critical
    <2>. QED
      BY <2>3, <2>4
<1>2. CASE /\ ~Abort(r)
           /\ Start(r) \/ AcquireLock(r) \/ LoadLedger(r) \/ CheckReport(r)
              \/ Inventory(r)
    <2>1. \/ pc[r] = "idle" /\ pc'[r] \in {"lock", "load"}
          \/ pc[r] = "lock" /\ pc'[r] = "load"
          \/ pc[r] = "load" /\ pc'[r] = "dest"
          \/ pc[r] = "dest" /\ pc'[r] \in {"scan", "probe"}
          \/ pc[r] = "scan" /\ pc'[r] = "probe"
      BY <1>2 DEF Start, AcquireLock, LoadLedger, CheckReport, Inventory, Goto,
         LockHeld
    <2>. QED
      BY <2>1
<1>3. CASE Decline(r) \/ Decide(r) \/ FinishGc(r) \/ TimeoutGc(r) \/ KillGc(r)
    BY <1>3 DEF Decline, Decide, FinishGc, TimeoutGc, KillGc, Goto
<1>4. CASE /\ ~Abort(r)
           /\ CheckDestination(r) \/ CreateTemp(r) \/ WriteTemp(r)
    <2>1. /\ UNCHANGED <<result, saving>>
          /\ \/ pc[r] = "check" /\ pc'[r] = "create"
             \/ pc[r] = "create" /\ pc'[r] = "write"
             \/ pc[r] = "write" /\ pc'[r] = "rename"
      BY <1>4 DEF CheckDestination, CreateTemp, WriteTemp, Goto
    <2>. QED
      BY <2>1
<1>5. CASE RenameLedger(r) \/ RenameReport(r)
    BY <1>5, LedgerReplaced, ReportReplaced DEF SaveOrder
<1>6. CASE RenameRefused(r) \/ StorageFault(r)
    BY <1>1, <1>6 DEF RenameRefused, StorageFault
<1>7. CASE Return(r)
    BY <1>7 DEF Return, Goto
<1>. QED
    BY <1>1, <1>2, <1>3, <1>4, <1>5, <1>6, <1>7 DEF RunStep

\* clean.rs, process.rs: an invocation takes at most seventeen steps, however
\* many there are and whatever uv, the others and the environment do.
THEOREM RunsAreShort == Spec => ApproachesEnd
<1>1. ASSUME Inv, [Next]_vars, NEW r \in Run
      PROVE  /\ Remaining(r)' <= Remaining(r)
             /\ RunStep(r) => Remaining(r)' < Remaining(r)
    <2>1. Remaining(r) \in 0..17
      BY <1>1, RemainingBound DEF Inv
    <2>2. CASE Start(r) \/ RunStep(r) \/ Crash(r)
      <3>1. Remaining(r)' < Remaining(r)
        BY <1>1, <2>2, OwnStepCounts
      <3>2. Remaining(r)' \in 0..17
        <4>1. pc' \in [Run -> Location]
          BY <1>1, TypeNext DEF Inv, TypeInv, TypeOK
        <4>. QED
          BY <4>1 DEF Remaining, Location, Critical, Ended
      <3>. QED
        BY <2>1, <3>1, <3>2
    <2>3. CASE ~(Start(r) \/ RunStep(r) \/ Crash(r))
      <3>1. UNCHANGED <<pc[r], result[r], saving[r]>>
        <4>1. CASE \E s \in Run : Start(s) \/ RunStep(s) \/ Crash(s)
          BY <1>1, <2>3, <4>1, OtherStepsKeep DEF Inv
        <4>2. CASE \E s \in Run : UvLock(s) \/ UvFail(s) \/ UvComplete(s)
          BY <4>2 DEF UvLock, UvFail, UvComplete, memory
        <4>3. CASE \/ Tick \/ SetClockBack \/ EditLedger \/ EditReport
                   \/ UNCHANGED vars
          BY <4>3 DEF Tick, SetClockBack, EditLedger, EditReport, memory, vars
        <4>. QED
          BY <1>1, <4>1, <4>2, <4>3 DEF Next, AllEnded
      <3>. QED
        BY <2>1, <2>3, <3>1, RemainingStays
    <2>. QED
      BY <2>2, <2>3
<1>2. Inv /\ [Next]_vars =>
        [\A r \in Run : /\ Remaining(r)' <= Remaining(r)
                        /\ RunStep(r) => Remaining(r)' < Remaining(r)]_vars
    BY <1>1
<1>. QED
    BY <1>2, InvHolds, PTL DEF Spec, ApproachesEnd

=============================================================================
