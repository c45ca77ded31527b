---------------------------- MODULE CleanerRuns ----------------------------
(***************************************************************************)
(* Every `rldyour-cleaner run` (and `scan`, a preview) of one user, over   *)
(* the state directory they share.  One invocation is one element of Run:  *)
(* it locks, loads the completion ledger, decides about uv's cache, may    *)
(* start `uv cache prune` and wait for it, then replaces the ledger and    *)
(* the report.  Around the invocations: the uv processes they start, the   *)
(* wall clock, crashes, storage errors, and edits of the state files by    *)
(* somebody else.                                                          *)
(*                                                                         *)
(* A step is one operation on shared state (a file, the lock, a process),  *)
(* with the computation that follows it.                                   *)
(***************************************************************************)
EXTENDS Naturals, FiniteSets

CONSTANTS
    Run,            \* the invocations
    Pid,            \* the process ids the OS hands out, and hands out again
    Cache,          \* canonical directories uv may name as its cache
    NoRun,          \* "nobody": a free lock, an absent report
    NoPid,          \* the id of an invocation not started yet
    NoCache,        \* an invocation that has not selected a cache
    Interval,       \* native_gc.interval_hours, in ticks of the clock
    KillOnClose,    \* TRUE: the OS kills the tree with its owner (Windows job)
    MaxClock,       \* bound: last reading of the wall clock
    MaxRollbacks,   \* bound: how often the wall clock is set back
    MaxCrashes,     \* bound: invocations killed from outside
    MaxFaults,      \* bound: operations on the state directory that fail
    MaxEdits        \* bound: changes to the state files by somebody else

ASSUME NoRunAssumption    == NoRun \notin Run
ASSUME NoPidAssumption    == NoPid \notin Pid
ASSUME NoCacheAssumption  == NoCache \notin Cache
ASSUME IntervalAssumption == Interval \in Nat \ {0}      \* config.rs validate
ASSUME KillAssumption     == KillOnClose \in BOOLEAN
ASSUME BoundsAssumption   ==
    /\ MaxClock \in Nat
    /\ MaxRollbacks \in Nat
    /\ MaxCrashes \in Nat
    /\ MaxFaults \in Nat
    /\ MaxEdits \in Nat

VARIABLES
    \* The environment.
    clock,          \* the wall clock both `due` and `record` read
    rollbacks, crashes, faults, edits,   \* how much of each bound is used
    \* The state directory.
    lock,           \* holder of run.lock
    ledger,         \* maintenance.json: at most one completion, that of "uv"
    ledgerFile,     \* what maintenance.json is
    reportBy,       \* last-run.json: the invocation it reports
    reportFile,     \* what last-run.json is
    temps,          \* the .report-<pid>-<seq>.tmp files
    \* The memory of each invocation.
    pc,             \* where it is
    dry,            \* a preview: `scan`, or `run --dry-run`
    pid,            \* its process id
    snap,           \* the ledger it loaded, and has recorded into
    target,         \* the cache it selected
    result,         \* what the report will say of uv
    saving,         \* the file replace_private is replacing
    \* The uv process of each invocation.
    uv,
    \* History, read by the properties only.
    successes,      \* every `uv cache prune` that completed, and when
    seen            \* the number of edits when the invocation loaded

environment == <<clock, rollbacks, crashes, faults, edits>>
files       == <<ledger, ledgerFile, reportBy, reportFile, temps>>
memory      == <<pc, dry, pid, snap, target, result, saving>>
history     == <<successes, seen>>

vars == <<environment, lock, files, memory, uv, history>>

-----------------------------------------------------------------------------
(* Values.                                                                 *)

\* A completion as the ledger holds it; `by` is history and is never read
\* by the code's own conditions.
Completion == [cache : Cache, at : Nat, by : Run]

\* "sound": absent, or a regular file with the content the model gives it;
\* "corrupt": a regular file nothing can parse; "directory": something that
\* is not a file, so that neither opening nor renaming over it succeeds.
FileState == {"sound", "corrupt", "directory"}

Temp == [pid : Pid, seq : {0, 1}, whole : BOOLEAN]

Ended == {"done", "aborted", "crashed"}

\* Past the lock and before its release.
Critical == {"load", "dest", "scan", "probe", "gc", "kill",
             "check", "create", "write", "rename", "unlock"}

Location == {"idle", "lock"} \cup Critical \cup Ended

\* Disabled, Kept, Protected, MissingTool and Absent are one "kept" here:
\* each is reported, none starts a process that writes.
Result == {"none", "kept", "failed", "not-due", "would-prune", "pruned"}

UvPhase == {"none", "waiting", "pruning", "pruned", "failed", "killed"}

UvRunning == {"waiting", "pruning"}

-----------------------------------------------------------------------------
(* Helpers.                                                                *)

Live(r) == pc[r] \notin Ended \cup {"idle"}

InSection(r) == pc[r] \in Critical /\ ~dry[r]

\* Whether uv's cache c may be pruned at time now, by the ledger l: an entry
\* for the same cache defers until Interval has elapsed since it, a clock
\* behind it defers as well, no entry or one for another cache does not.
DueAt(l, c, now) ==
    \A e \in l : e.cache = c => (now >= e.at /\ now - e.at >= Interval)

\* What the decision of r reads: the ledger in its memory, the clock of now.
DueEarly(r, c) ==       \* mutant: off by one
    \A e \in snap[r] : e.cache = c => (clock >= e.at /\ clock - e.at + 1 >= Interval)
Due(r, c) == DueAt(snap[r], c, clock)

\* Ledger::record: the entry of "uv" is overwritten.
RecordedOnce(l, e) == IF l = {} THEN {e} ELSE l    \* mutant: or_insert
Recorded(l, e) == {e}

\* The order in which a run that recorded a completion replaces the files.
SaveOrderSwapped == [first |-> "report", second |-> "ledger"]     \* mutant
SaveOrder == [first |-> "ledger", second |-> "report"]

\* r is at the first of its two replacements; without a completion the
\* report is the only one.
SavesOne(r) == FALSE            \* mutant: over after the first
MoreToSave(r) == result[r] = "pruned" /\ saving[r] = SaveOrder.first

\* The SEQUENCE number of the replacement in progress.
Sequence(r) == IF result[r] = "pruned" /\ ~MoreToSave(r) THEN 1 ELSE 0

\* The staging file of r, empty (FALSE) or written and synced (TRUE).
TempOf(r, whole) == [pid |-> pid[r], seq |-> Sequence(r), whole |-> whole]
TempsOf(r) == {TempOf(r, w) : w \in BOOLEAN}

WrittenPartly(r) == TempOf(r, FALSE)    \* mutant: the error is dropped
Written(r) == TempOf(r, TRUE)

Unstaged(r) == temps \ TempsOf(r)

DestinationState(r) == IF saving[r] = "ledger" THEN ledgerFile ELSE reportFile

\* `?` out of evaluate: the invocation exits 1, and its lock goes with it.
Abort(r) ==
    /\ pc' = [pc EXCEPT ![r] = "aborted"]
    /\ lock' = IF lock = r THEN NoRun ELSE lock

Goto(r, l) == pc' = [pc EXCEPT ![r] = l]

\* The other file is next, or evaluate has its Ok.
AfterReplacement(r) ==
    IF MoreToSave(r)
    THEN Goto(r, "check") /\ saving' = [saving EXCEPT ![r] = SaveOrder.second]
    ELSE Goto(r, "unlock") /\ UNCHANGED saving

\* try_lock_exclusive succeeds, or finds the lock held.
TakeLock(r) == lock' = r
GoOnUnlocked(r) == Goto(r, "load") /\ UNCHANGED lock    \* mutant: error ignored
LockHeld(r) == Abort(r)

\* Whether the decision starts `uv cache prune`.
Spawns(r, c) == Due(r, c) /\ ~dry[r]

\* process::run is Ok: exit status 0, and both streams drained.
StatusIgnored(r, drained) == drained    \* mutant: the status is not asked
GcSucceeded(r, drained) == uv[r] = "pruned" /\ drained

\* The deadline of process::run passes while uv runs.
NoDeadline(r) == FALSE                  \* mutant: waits for uv only
DeadlinePasses(r) == uv[r] \in UvRunning

\* tree.terminate, child.kill.
LeaveTree(r) == uv' = uv                \* mutant: returns without killing
TerminateTree(r) ==
    uv' = IF uv[r] \in UvRunning THEN [uv EXCEPT ![r] = "killed"] ELSE uv

-----------------------------------------------------------------------------
Init ==
    /\ clock = 0
    /\ rollbacks = 0
    /\ crashes = 0
    /\ faults = 0
    /\ edits = 0
    /\ lock = NoRun
    /\ ledger = {}
    /\ ledgerFile = "sound"
    /\ reportBy = NoRun
    /\ reportFile = "sound"
    /\ temps = {}
    /\ pc = [r \in Run |-> "idle"]
    /\ dry = [r \in Run |-> FALSE]
    /\ pid = [r \in Run |-> NoPid]
    /\ snap = [r \in Run |-> {}]
    /\ target = [r \in Run |-> NoCache]
    /\ result = [r \in Run |-> "none"]
    /\ saving = [r \in Run |-> "report"]
    /\ uv = [r \in Run |-> "none"]
    /\ successes = {}
    /\ seen = [r \in Run |-> 0]

-----------------------------------------------------------------------------
(* The steps of an invocation.                                             *)

\* A process id no living process has.
FreePid(p) == \A r \in Run : Live(r) => pid[r] # p

\* The command line is `run`, or a preview; evaluate is entered.  A preview
\* takes no lock.
Start(r) ==
    /\ pc[r] = "idle"
    /\ \E p \in Pid, d \in BOOLEAN :
        /\ FreePid(p)
        /\ pid' = [pid EXCEPT ![r] = p]
        /\ dry' = [dry EXCEPT ![r] = d]
        /\ Goto(r, IF d THEN "load" ELSE "lock")
    /\ UNCHANGED <<environment, lock, files, snap, target, result, saving,
                   uv, history>>

\* RunLock::acquire: try_lock_exclusive does not wait.
AcquireLock(r) ==
    /\ pc[r] = "lock"
    /\ IF lock = NoRun
       THEN TakeLock(r) /\ Goto(r, "load")
       ELSE LockHeld(r)
    /\ UNCHANGED <<environment, files, dry, pid, snap, target, result, saving,
                   uv, history>>

\* Ledger::load: an absent ledger is empty, one that is not a regular file
\* of valid content ends the invocation.
LoadLedger(r) ==
    /\ pc[r] = "load"
    /\ IF ledgerFile = "sound"
       THEN /\ snap' = [snap EXCEPT ![r] = ledger]
            /\ seen' = [seen EXCEPT ![r] = edits]
            /\ Goto(r, "dest")
            /\ UNCHANGED lock
       ELSE Abort(r) /\ UNCHANGED <<snap, seen>>
    /\ UNCHANGED <<environment, files, dry, pid, target, result, saving, uv,
                   successes>>

\* The report's destination is refused before any GC if it is not a file.  With
\* categories.projects the inventory of the projects is next.
CheckReport(r) ==
    /\ pc[r] = "dest"
    /\ IF reportFile # "directory"
       THEN (Goto(r, "scan") \/ Goto(r, "probe")) /\ UNCHANGED lock
       ELSE Abort(r)
    /\ UNCHANGED <<environment, files, dry, pid, snap, target, result, saving,
                   uv, history>>

\* scan::scan returns.  It waits for a git of its own per generic name, and
\* nothing limits that wait: the step may never come.
Inventory(r) ==
    /\ pc[r] = "scan"
    /\ Goto(r, "probe")
    /\ UNCHANGED <<environment, lock, files, dry, pid, snap, target, result,
                   saving, uv, history>>

\* uv::evaluate decides against GC before it asks whether GC is due (policy,
\* link mode, no or unaudited uv, no or protected cache), or fails at it.  A
\* preview then has its report; a run goes on to save it.
Decline(r) ==
    /\ pc[r] = "probe"
    /\ result' \in {[result EXCEPT ![r] = a] : a \in {"kept", "failed"}}
    /\ Goto(r, IF dry[r] THEN "done" ELSE "check")
    /\ UNCHANGED <<environment, lock, files, dry, pid, snap, target, saving,
                   uv, history>>

\* uv names cache c, which is allowed; the ledger in memory says whether it
\* is due.  Only a run, never a preview, then starts `uv cache prune`.
Decide(r) ==
    /\ pc[r] = "probe"
    /\ \E c \in Cache :
        /\ target' = [target EXCEPT ![r] = c]
        /\ result' = [result EXCEPT ![r] =
             IF ~Due(r, c) THEN "not-due"
             ELSE IF dry[r] THEN "would-prune" ELSE "none"]
        /\ uv' = IF Spawns(r, c) THEN [uv EXCEPT ![r] = "waiting"] ELSE uv
        /\ Goto(r, IF dry[r] THEN "done"
                   ELSE IF Due(r, c) THEN "gc" ELSE "check")
    /\ UNCHANGED <<environment, lock, files, dry, pid, snap, saving, history>>

\* process::run returns after uv exited.  Its output may still have failed to
\* drain in time, which is an error whatever uv's status.  On Ok the
\* completion is recorded in memory, stamped with the time of recording, and
\* the ledger is to be replaced before the report.
FinishGc(r) ==
    /\ pc[r] = "gc"
    /\ uv[r] \in {"pruned", "failed"}
    /\ \E drained \in BOOLEAN :
        IF GcSucceeded(r, drained)
        THEN /\ result' = [result EXCEPT ![r] = "pruned"]
             /\ snap' = [snap EXCEPT ![r] = Recorded(snap[r],
                            [cache |-> target[r], at |-> clock, by |-> r])]
             /\ saving' = [saving EXCEPT ![r] = SaveOrder.first]
        ELSE /\ result' = [result EXCEPT ![r] = "failed"]
             /\ UNCHANGED <<snap, saving>>
    /\ Goto(r, "check")
    /\ UNCHANGED <<environment, lock, files, dry, pid, target, uv, history>>

\* The deadline passes while uv runs: the wait is over, uv is not yet killed.
TimeoutGc(r) ==
    /\ pc[r] = "gc"
    /\ DeadlinePasses(r)
    /\ Goto(r, "kill")
    /\ UNCHANGED <<environment, lock, files, dry, pid, snap, target, result,
                   saving, uv, history>>

\* The tree is killed and reaped; uv may have completed in between, the
\* result is a failure all the same.
KillGc(r) ==
    /\ pc[r] = "kill"
    /\ TerminateTree(r)
    /\ result' = [result EXCEPT ![r] = "failed"]
    /\ Goto(r, "check")
    /\ UNCHANGED <<environment, lock, files, dry, pid, snap, target, saving,
                   history>>

\* replace_private, first for the ledger if it changed and then for the
\* report: the destination is checked again ...
CheckDestination(r) ==
    /\ pc[r] = "check"
    /\ IF DestinationState(r) # "directory"
       THEN Goto(r, "create") /\ UNCHANGED lock
       ELSE Abort(r)
    /\ UNCHANGED <<environment, files, dry, pid, snap, target, result, saving,
                   uv, history>>

\* ... the staging file is created, which must not exist ...
CreateTemp(r) ==
    /\ pc[r] = "create"
    /\ IF TempsOf(r) \cap temps = {}
       THEN /\ temps' = temps \cup {TempOf(r, FALSE)}
            /\ Goto(r, "write")
            /\ UNCHANGED lock
       ELSE Abort(r) /\ UNCHANGED temps
    /\ UNCHANGED <<environment, ledger, ledgerFile, reportBy, reportFile, dry,
                   pid, snap, target, result, saving, uv, history>>

\* ... written and synced ...
WriteTemp(r) ==
    /\ pc[r] = "write"
    /\ temps' = Unstaged(r) \cup {Written(r)}
    /\ Goto(r, "rename")
    /\ UNCHANGED <<environment, lock, ledger, ledgerFile, reportBy, reportFile,
                   dry, pid, snap, target, result, saving, uv, history>>

\* ... and renamed over the destination, which takes what the staging file
\* holds; a directory that appeared meanwhile refuses it.
RenameRefused(r) ==
    /\ pc[r] = "rename"
    /\ DestinationState(r) = "directory"
    /\ temps' = Unstaged(r)
    /\ Abort(r)
    /\ UNCHANGED <<environment, ledger, ledgerFile, reportBy, reportFile, dry,
                   pid, snap, target, result, saving, uv, history>>

RenameLedger(r) ==
    /\ pc[r] = "rename"
    /\ saving[r] = "ledger"
    /\ ledgerFile # "directory"
    /\ temps' = Unstaged(r)
    /\ ledger' = IF TempOf(r, TRUE) \in temps THEN snap[r] ELSE {}
    /\ ledgerFile' = IF TempOf(r, TRUE) \in temps THEN "sound" ELSE "corrupt"
    /\ AfterReplacement(r)
    /\ UNCHANGED <<environment, lock, reportBy, reportFile, dry, pid, snap,
                   target, result, uv, history>>

RenameReport(r) ==
    /\ pc[r] = "rename"
    /\ saving[r] = "report"
    /\ reportFile # "directory"
    /\ temps' = Unstaged(r)
    /\ reportBy' = IF TempOf(r, TRUE) \in temps THEN r ELSE NoRun
    /\ reportFile' = IF TempOf(r, TRUE) \in temps THEN "sound" ELSE "corrupt"
    /\ AfterReplacement(r)
    /\ UNCHANGED <<environment, lock, ledger, ledgerFile, dry, pid, snap,
                   target, result, uv, history>>

\* evaluate returns Ok(report): the lock file is closed.
Return(r) ==
    /\ pc[r] = "unlock"
    /\ lock' = NoRun
    /\ Goto(r, "done")
    /\ UNCHANGED <<environment, files, dry, pid, snap, target, result, saving,
                   uv, history>>

\* Any operation on the state directory may fail: the invocation ends.  A
\* staging file whose write or rename failed is removed, unless that fails
\* too.
StorageFault(r) ==
    /\ pc[r] \in {"lock", "load", "dest", "check", "create", "write", "rename"}
    /\ faults < MaxFaults
    /\ faults' = faults + 1
    /\ \/ temps' = temps
       \/ /\ pc[r] \in {"write", "rename"}
          /\ temps' = temps \ TempsOf(r)
    /\ Abort(r)
    /\ UNCHANGED <<clock, rollbacks, crashes, edits, ledger, ledgerFile,
                   reportBy, reportFile, dry, pid, snap, target, result,
                   saving, uv, history>>

RunStep(r) ==
    \/ AcquireLock(r)
    \/ LoadLedger(r)
    \/ CheckReport(r)
    \/ Inventory(r)
    \/ Decline(r)
    \/ Decide(r)
    \/ FinishGc(r)
    \/ TimeoutGc(r)
    \/ KillGc(r)
    \/ CheckDestination(r)
    \/ CreateTemp(r)
    \/ WriteTemp(r)
    \/ RenameRefused(r)
    \/ RenameLedger(r)
    \/ RenameReport(r)
    \/ Return(r)
    \/ StorageFault(r)

-----------------------------------------------------------------------------
(* The uv processes (external).                                            *)

\* uv takes its own lock on the cache, or gives up after UV_LOCK_TIMEOUT.
UvLock(r) ==
    /\ uv[r] = "waiting"
    /\ \A s \in Run : uv[s] = "pruning" => target[s] # target[r]
    /\ uv' = [uv EXCEPT ![r] = "pruning"]
    /\ UNCHANGED <<environment, lock, files, memory, history>>

UvFail(r) ==
    /\ uv[r] \in UvRunning
    /\ uv' = [uv EXCEPT ![r] = "failed"]
    /\ UNCHANGED <<environment, lock, files, memory, history>>

UvComplete(r) ==
    /\ uv[r] = "pruning"
    /\ uv' = [uv EXCEPT ![r] = "pruned"]
    /\ successes' = successes
                    \cup {[cache |-> target[r], at |-> clock, by |-> r]}
    /\ UNCHANGED <<environment, lock, files, memory, seen>>

-----------------------------------------------------------------------------
(* The environment.                                                        *)

\* An invocation is killed.  The OS drops its lock.  Its uv process goes with
\* it where the OS ties the two (a Windows job, a systemd cgroup); on POSIX
\* it is a process group of its own and may go on.
Crash(r) ==
    /\ Live(r)
    /\ crashes < MaxCrashes
    /\ crashes' = crashes + 1
    /\ pc' = [pc EXCEPT ![r] = "crashed"]
    /\ lock' = IF lock = r THEN NoRun ELSE lock
    /\ \/ uv' = IF uv[r] \in UvRunning THEN [uv EXCEPT ![r] = "killed"] ELSE uv
       \/ ~KillOnClose /\ uv' = uv
    /\ UNCHANGED <<clock, rollbacks, faults, edits, files, dry, pid, snap,
                   target, result, saving, history>>

Tick ==
    /\ clock < MaxClock
    /\ clock' = clock + 1
    /\ UNCHANGED <<rollbacks, crashes, faults, edits, lock, files, memory, uv,
                   history>>

SetClockBack ==
    /\ rollbacks < MaxRollbacks
    /\ rollbacks' = rollbacks + 1
    /\ \E t \in 0..MaxClock : t < clock /\ clock' = t
    /\ UNCHANGED <<crashes, faults, edits, lock, files, memory, uv, history>>

\* Somebody else removes a state file, damages it, or puts a directory there.
EditLedger ==
    /\ edits < MaxEdits
    /\ edits' = edits + 1
    /\ ledger' = {}
    /\ ledgerFile' \in FileState
    /\ UNCHANGED <<clock, rollbacks, crashes, faults, lock, reportBy,
                   reportFile, temps, memory, uv, history>>

EditReport ==
    /\ edits < MaxEdits
    /\ edits' = edits + 1
    /\ reportBy' = NoRun
    /\ reportFile' \in FileState
    /\ UNCHANGED <<clock, rollbacks, crashes, faults, lock, ledger, ledgerFile,
                   temps, memory, uv, history>>

-----------------------------------------------------------------------------
\* Run is finite in the model: when every invocation is over, all may stop.
AllEnded == (\A r \in Run : pc[r] \in Ended) /\ UNCHANGED vars

Next ==
    \/ \E r \in Run : Start(r) \/ RunStep(r) \/ Crash(r)
    \/ \E r \in Run : UvLock(r) \/ UvFail(r) \/ UvComplete(r)
    \/ Tick \/ SetClockBack
    \/ EditLedger \/ EditReport
    \/ AllEnded

Spec == Init /\ [][Next]_vars

\* An invocation keeps taking steps: the deadline of process::run bounds its
\* wait for uv.  Nothing bounds its wait for git in the inventory, so nothing
\* is assumed of that step, nor of uv, nor that an invocation is ever started.
FairSpec ==
    Spec /\ \A r \in Run : WF_vars(RunStep(r) /\ pc[r] # "scan")

-----------------------------------------------------------------------------
(* Properties.                                                             *)

\* Every variable has its type; both files hold at most what one invocation
\* wrote.
TypeOK ==
    /\ clock \in 0..MaxClock
    /\ rollbacks \in 0..MaxRollbacks
    /\ crashes \in 0..MaxCrashes
    /\ faults \in 0..MaxFaults
    /\ edits \in 0..MaxEdits
    /\ lock \in Run \cup {NoRun}
    /\ ledger \in SUBSET Completion
    /\ \A e, f \in ledger : e = f
    /\ ledgerFile \in FileState
    /\ reportBy \in Run \cup {NoRun}
    /\ reportFile \in FileState
    /\ temps \in SUBSET Temp
    /\ pc \in [Run -> Location]
    /\ dry \in [Run -> BOOLEAN]
    /\ pid \in [Run -> Pid \cup {NoPid}]
    /\ snap \in [Run -> SUBSET Completion]
    /\ target \in [Run -> Cache \cup {NoCache}]
    /\ result \in [Run -> Result]
    /\ saving \in [Run -> {"ledger", "report"}]
    /\ uv \in [Run -> UvPhase]
    /\ successes \in SUBSET Completion
    /\ seen \in [Run -> Nat]

\* clean.rs: the lock serializes scheduled and manual runs, from the reading
\* of the ledger to the replacement of the report.
OneRunInSection ==
    \A r, s \in Run : InSection(r) /\ InSection(s) => r = s

\* homecache/uv.rs, process.rs: two prunes started by the cleaner never run
\* at the same time, not even on two caches, as long as no invocation was
\* killed, or the OS kills uv with it.
NoOverlappingGc ==
    crashes = 0 \/ KillOnClose =>
        \A r, s \in Run : uv[r] \in UvRunning /\ uv[s] \in UvRunning => r = s

\* r starts `uv cache prune`.
StartsGc(r) == uv[r] = "none" /\ uv'[r] # "none"

\* runner.rs loads under the lock and decides from memory: when a prune is
\* started, the files on disk still justify it, unless somebody edited them
\* after they were read - a readable ledger by which the cache is due, and
\* a report that can be replaced.
PruneJustified ==
    [][\A r \in Run : StartsGc(r) =>
        /\ lock = r
        /\ seen[r] = edits =>
            /\ ledgerFile = "sound"
            /\ reportFile # "directory"
            /\ \A e \in ledger :
                 e.cache = target'[r] => e.at + Interval <= clock]_vars

\* maintenance.rs, "Failures never advance a deadline": what the ledger holds
\* is a prune of that very cache which completed, and which the invocation
\* that recorded it saw complete.
LedgerTruth ==
    \A e \in ledger :
        /\ result[e.by] = "pruned"
        /\ \E s \in successes : s.by = e.by /\ s.cache = e.cache

\* runner.rs saves the ledger first: no report ever tells of a prune the
\* ledger does not hold at that moment, unless the ledger was edited.
ReportImpliesLedger ==
    [][reportBy' # reportBy /\ reportBy' # NoRun
          /\ result[reportBy'] = "pruned" /\ seen[reportBy'] = edits
        => \E e \in ledger : e.by = reportBy']_vars

\* runner.rs, report.rs: a run that comes to its Ok has its own report on
\* disk, and the ledger holds the prune it did, unless the files were edited
\* while it ran.
OkIsDurable ==
    \A r \in Run : pc[r] = "unlock" /\ seen[r] = edits =>
        /\ reportBy = r
        /\ result[r] = "pruned" =>
             \E e \in ledger : e.by = r /\ e.cache = target[r]

\* clean.rs, report.rs: a state file is only replaced over the work of an
\* invocation that is over, so never by an earlier run over a later one's.
ReplacedInOrder ==
    [][/\ (ledger' # ledger /\ edits' = edits) =>
             \A e \in ledger : pc[e.by] \in Ended
       /\ (reportBy' # reportBy /\ edits' = edits /\ reportBy # NoRun) =>
             pc[reportBy] \in Ended]_vars

\* report.rs replace_private: crashes and failing writes never leave a torn
\* ledger or report; only somebody else's edit does.
NeverTorn == edits = 0 => ledgerFile = "sound" /\ reportFile = "sound"

\* r starts a prune of s's cache although s completed less than Interval ago.
StartsEarly(r, s) ==
    /\ StartsGc(r)
    /\ target'[r] = s.cache
    /\ clock < s.at + Interval

\* How the ledger may have come to forget a completed prune: its invocation
\* was killed, could not save, or timed out on it (then the prune was reported
\* as failed); somebody edited the ledger or set the clock back; or a prune of
\* another cache took the one entry uv has.
Forgotten(s) ==
    \/ pc[s.by] \in {"crashed", "aborted"}
    \/ result[s.by] = "failed"
    \/ edits > 0
    \/ rollbacks > 0
    \/ \E e \in ledger : e.cache # s.cache

\* README.md 27-28, "no more often than interval_hours": a cache is pruned
\* early only if the ledger forgot, in one of the ways above.
EarlyOnlyIfForgotten ==
    [][\A r \in Run, s \in successes : StartsEarly(r, s) => Forgotten(s)]_vars

\* README.md 132: `status` shows the "last actual run, including failures",
\* so a run that held the lock and was not killed left its own report.
StatusIsLastRun ==
    [][\A r \in Run : lock = r /\ lock' # r /\ pc'[r] # "crashed"
        => reportBy' = r]_vars

\* What invocation r has of the native command it started.
UvState(r) ==
    CASE uv[r] = "none"                -> "none"
      [] uv[r] \in UvRunning           -> "running"
      [] uv[r] = "pruned"              -> "succeeded"
      [] uv[r] \in {"failed", "killed"} -> "failed"

UvAnswer(r) ==
    CASE result[r] = "pruned"                      -> "ok"
      [] result[r] = "failed" /\ uv[r] # "none"    -> "error"
      [] OTHER                                     -> "none"

Native(r) == INSTANCE NativeCommand
             WITH child <- UvState(r), answer <- UvAnswer(r)

\* homecache/uv.rs: to each invocation uv is a native command as ProcessRun
\* has them: started once, heard of once, never left running by an answer, and
\* its success is not made up.
UvIsACommand ==
    /\ \A r \in Run : Native(r)!Init
    /\ [][\A r \in Run : [Native(r)!Next]_<<UvState(r), UvAnswer(r)>>]_vars

\* The invocation whose turn it is: the one that has read the ledger and not
\* yet returned.  A preview has no turn.
Turn == IF lock # NoRun /\ pc[lock] # "load" THEN lock ELSE NoRun

\* How far r has come in its turn.
Stage(r) ==
    CASE pc[r] \in {"dest", "scan", "probe"} -> "deciding"
      [] pc[r] \in {"gc", "kill"}            -> "pruning"
      [] pc[r] = "unlock"                    -> "told"
      [] OTHER -> IF result[r] # "pruned" THEN "unpruned"
                  ELSE IF saving[r] = "ledger" THEN "pruned" ELSE "recorded"

TurnStage == IF Turn = NoRun THEN "idle" ELSE Stage(Turn)

\* What is being pruned in the turn, and its ledger in memory.
TurnCache  == IF TurnStage = "pruning" THEN target[Turn] ELSE NoCache
TurnMemory == IF Turn = NoRun THEN {} ELSE snap[Turn]

\* What the report tells of uv.
Told ==
    IF reportBy = NoRun THEN {}
    ELSE {[by |-> reportBy, pruned |-> result[reportBy] = "pruned"]}

Started   == {r \in Run : uv[r] # "none"}
Finished  == {r \in Run : uv[r] = "pruned"}
EndedWell == {r \in Run : pc[r] = "done" /\ ~dry[r]}

Serial == INSTANCE Maintenance
          WITH now <- clock, turn <- Turn, stage <- TurnStage,
               cache <- TurnCache, memory <- TurnMemory, record <- ledger,
               told <- Told, started <- Started, finished <- Finished,
               ok <- EndedWell

\* clean.rs, runner.rs: however the invocations of a user interleave, fail and
\* are killed, their effect on ledger, report and caches is that of turns taken
\* one after the other, each of which records its prune before it tells of it
\* and ends well only after both.
RunsAreSerial == Serial!Spec

\* process.rs, clean.rs, scan.rs: an invocation that was started ends and
\* releases the lock, whatever uv and the other invocations do, if the git its
\* inventory waits for answers: each of the others may wait for ever.
EveryRunEnds ==
    \A r \in Run : WF_vars(Inventory(r)) =>
        (pc[r] # "idle" ~> pc[r] \in Ended /\ lock # r)

=============================================================================
