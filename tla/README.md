# A TLA+ model of rldyour-cleaner

rldyour-cleaner is a oneshot command. A scheduler or a user starts it; it asks
`uv` to garbage-collect its own cache at most once per interval, lists what
other tools keep, and writes one report. It deletes nothing itself. What can go
wrong is therefore not in a data structure but *between* steps: two invocations
at once, a crash between two renames, a native tool that hangs or leaves
processes behind, a file that changes after it was checked. This directory
models those parts and checks them.

Paths below are relative to the repository, which is mounted at `src/`, so
`runner.rs` is `src/src/runner.rs`.

## Inventory

| Part | State it keeps | Operations | Interacts with |
|---|---|---|---|
| run pipeline (`lib.rs`, `runner.rs`, `clean.rs`, `homecache/mod.rs`) | `run.lock`; in memory the ledger, the report | `run`, `scan` (a preview) | every part below |
| completion ledger (`maintenance.rs`) | `maintenance.json`: provider id -> cache, time | `load`, `due`, `record`, `save` | pipeline, doctor |
| run report (`report.rs`) | `last-run.json`, staging files | `save`, `read_status`, `replace_private` | pipeline, doctor, `status` |
| state file boundary (`safety.rs`) | none | `plain_path`, `private_dir`, `state_file`, `cache_allowed` | everything that writes |
| native command (`process.rs`, `os/unix.rs`, `os/windows.rs`) | a child, its tree, two pipes, two threads, one deadline | `run` | uv, apt-config, systemctl |
| uv adapter (`homecache/uv.rs`) | none | a fixed order of probes, then `uv cache prune` | ledger, boundary, native command |
| APT policy (`os/linux_policy.rs`) | one file under `/etc/apt` | `enable_apt_autoclean`, observations | other installers, the administrator |
| project inventory (`scan.rs`, `kinds.rs`) | none | the read-only walk | pipeline |
| doctor (`doctor.rs`, `os/linux.rs`, `os/macos.rs`, `os/windows.rs`) | none | `inspect` | ledger, report, scheduler, APT |
| configuration (`config.rs`, `cli.rs`) | `config.toml` | `load`, `config --init` | everything |
| cache inventory, platform adapters | none | lookups and listings | pipeline |
| installers (`platforms/*/install*`, `uninstall*`) | policy, installed code, units, scheduler | install, uninstall | user, scheduler |
| schedules (the units they install) | next slot, catch-up | start a run | pipeline, doctor |

What makes each correct:

* **pipeline** - runs are serialized; a preview is pure; a decision is taken on
  what the disk says; the report never claims what the ledger does not know.
* **ledger** - it holds only prunes that completed; a completion is lost only in
  ways one can name; it defers under a clock set back.
* **report, staging** - no torn file, no older report over a newer.
* **native command** - it returns, whatever the child does; nothing of the tree
  and no thread is left; `Ok` means complete output or a marked cut.
* **uv adapter** - only an audited uv, an opted-in policy and a validated
  directory lead to a prune, of exactly that directory.
* **APT policy** - publication is atomic, never replaces, is idempotent.
* **project inventory** - nothing protected, fresh or nested is listed.
* **doctor** - never healthy on evidence that is not, a failure is seen, and a
  run beside it does not alarm it.
* **configuration** - a policy that was there is used, or an error is given; a
  reported `--init` is whole.
* **installers** - no policy is lost, code and policy fit, done means done.
* **schedules** - no day is skipped because of jitter, a missed one is caught
  up, and 72 hours without a run mean something.

The hard behaviours: concurrent invocations (a manual run beside the scheduled
one), kill at any instruction, file operations that fail, other programs
editing the state files, the wall clock moving back, uv surviving the cleaner,
a deadline racing an answer, descendants leaving the process group.
`PROJECT.json` lists each hazard with its line and the property that covers it.

## Modules

```
GcContract <--implements-- UvGc <-- MCUvGc                     UvGcProofs
NativeCommand <--implements-- ProcessRun                       ProcessRunProofs
NativeCommand <--implements-- CleanerRuns <-- MCCleanerRuns    CleanerRunsProofs
Maintenance   <--implements-- CleanerRuns
AptPolicy                                                      AptPolicyProofs
Config                                                         ConfigProofs
Doctor                                                         ObserverProofs
ProjectScan <-- MCProjectScan                                  ObserverProofs
Schedule                                                       ScheduleProofs
Install                                                        InstallProofs
```

A component is one module. What another component does to it is one step of
it. Where that step stands for much, both sides are tied to one specification:

* `NativeCommand` is what `process::run` promises. `ProcessRun` implements it
  with its threads, pipes and kills (`KeepsCommand`); the uv prune of each
  invocation in `CleanerRuns` implements it too (`UvIsACommand`), so the
  pipeline assumes of the native command no more and no less than what that
  one has.
* `Maintenance` is what a user has of all the invocations: turns, one after
  the other, without lock, files or program counters. `CleanerRuns` implements
  it (`RunsAreSerial`), so what holds of the turns holds of the code.
* `GcContract` is what `uv::evaluate` promises; `UvGc` implements it, and
  `CleanerRuns` sees of it only "declines" or "starts a prune of this cache".
* `Doctor` and `Schedule` see of a run what a reader without the lock sees,
  and its beginning and end.

A module `...Proofs` extends the component it proves theorems about
(`ObserverProofs` two of them, the parts that only look); an `MC...`
module only adds what TLC needs (symmetry sets, the family of trees).

Helpers that say `mutant` beside another one are variants of a definition as a
plausible bug would have it. No action uses them; each belongs to a property
that notices the difference when it takes the definition's place.

### CleanerRuns - the pipeline, the ledger, the report

An invocation is an element of `Run`; `pc[r]` names the next operation of
`runner::evaluate` on something shared. `lock`, `ledger`/`ledgerFile`,
`reportBy`/`reportFile` and `temps` are the state directory; `snap`, `target`,
`result` and `saving` are the local variables of one evaluation; `uv[r]` is the
process it started. Every `pc` step ends where the code next looks at the
world, so any two invocations, kills, faults and edits interleave there.

* `Start`, `AcquireLock` - `RunLock::acquire` (`clean.rs`); a preview skips it.
* `LoadLedger`, `CheckReport` - `Ledger::load` and the early look at the
  report's destination (`runner.rs` 24-30).
* `Inventory` - the project scan (`runner.rs` 34-52), under the lock. It changes
  nothing and may wait for a `git` that never answers (`scan.rs` 160-166), so
  no fairness makes it end. With `categories.projects` off it is over at once.
* `Decline`, `Decide` - what `homecache::evaluate` comes to. `Disabled`,
  `Kept`, `Protected`, `MissingTool` and `Absent` are one result here, because
  nothing that follows tells them apart.
* `FinishGc`, `TimeoutGc`, `KillGc` - the ways out of `process::run`, and
  `Ledger::record` for the one that counts.
* `CheckDestination`, `CreateTemp`, `WriteTemp`, `RenameRefused`,
  `RenameLedger`, `RenameReport` - `replace_private`, first for the ledger if
  it changed, then for the report. The code's `changed` flag is the start of
  `saving` at "ledger".
* `Return`, `StorageFault` - `Ok`, and any `?` on the way.
* `UvLock`, `UvFail`, `UvComplete` - uv itself, with its own cache lock.
* `Crash`, `Tick`, `SetClockBack`, `EditLedger`, `EditReport` - the rest.

The mapping to `Maintenance`: the turn is that of the holder of the lock once
it has read the ledger (`Turn`); its stage follows from `pc`, `result` and
`saving` (`Stage`); the record is the ledger, and what was told is what the run
that wrote the report came to (`Told`). `LoadLedger` begins a turn,
`RenameLedger` and `RenameReport` record and tell, `Return` ends it, a kill or a
fault stops it, and the steps on the lock, a staging file or a destination are
invisible.

The field `by` of a completion is history. `KillOnClose` says whether the OS
kills uv together with its owner.

### ProcessRun - `process::run`

Three threads (`main`, two `reader`s), the processes of the command, two pipes
with a capacity, one deadline (`expired`). A descendant may be forked, leave
the group, close or inherit a stream, write, and exit in any order. `tree` is
the process group of Unix or the job object of Windows: nobody leaves a job,
the command is created suspended and resumed in it, and a number is not handed
out again while its handle is open. A reader looks at the flag and the deadline
before every read, as in the code. The wait ends by the leader's exit, the
deadline or an error of `try_wait` (`PollExited`, `PollTimeout`, `PollFailed`).
A reader that panics would end `run` at the `?` of its join (`process.rs` 107-114)
before the other is joined; nothing in `drain` panics, and it is left out.
`stranger` is a foreign group that got the
number of this one after its leader was reaped.

### UvGc and GcContract - the decision to prune

`GcContract` is what a user is promised: an evaluation commits once to one
allowed directory or declines; a preview never commits. `UvGc` has the ten
questions of `uv::evaluate` in their order, and between any two of them the
world may change (uv upgraded or gone, another directory configured, a
directory turned into a link). A question passed is a stutter of the contract.

### AptPolicy - `apt-autoclean --enable`

Installers (`pc`, `pid`), the destination, the staging file of each process id,
and for both what is on the disk and what only in memory. An outage cuts
unsynced content and drops an unsynced directory entry. A destination that is
there is looked at twice: `Inspect` asks whose file it is, `Read` opens it by
name and compares its text, and nothing else. "foreign" is what an
administrator may put there that has this text and would not pass the first
question (another's file, a link); `swapped` remembers whose two looks it came
between.

### ProjectScan - `scan::scan`

A walk in any order that respects parents first, over a tree that does not
change meanwhile. `match_dir` and `SKIP_DIRS` are what a directory `look`s
like, an mtime is an `age` (0: unreadable), `protect` is a set. `ScanIsExact`
compares the walk with a definition that has no walk, and `CountedOnce` its
sum with what the candidates hold.

Three lists of names decide what a directory is to the code, and `Look` keeps
them apart: `Artifact` (`kinds.rs`, what `match_dir` accepts), `SkipDirs` (what
the walk does not enter) and `ActivitySkip` (what the question whether a
project is active leaves out). A dependency tree beside a recent `.svn` is
therefore warm, and one beside a recent `dist` is not. Only a `.git` is sampled,
and its `sample` is an age of its own.

A link may lead (`to`) to another directory of the tree, as
`target/debug -> target/release` does. The walk does not enter it; the names
that are joined in `incremental_candidates` do. A candidate is therefore a
*path*, the name above it (`by`) and the directory it leads to (`dir`), and one
directory can have two. `Aliased` is a candidate that was found through a
link. `CountedOnce` says what is left then: each path is measured once, and
candidates overlap below a root only if one of them is aliased. A link out of
the tree has what is there as its children. Links into a tree from outside of
it, and a mount of a directory at a second place of the same file system (which
looks like any other directory), are not modelled.

`Above[d]` is `d` and everything above it,
as the least set closed under `Parent`; that nothing is below itself is all it
takes to make it a tree (`TreeAssumption`). `categories.incremental` is on.

### Doctor - `doctor::inspect`

The time, the scheduler, ledger, report, APT's policy and its stamp are asked
without the lock, one after the other, while runs begin, are refused, save and
end. `kind` chooses one of the three schedulers; `SystemdSnapshot`,
`TaskSnapshot` and `LaunchdSnapshot` are what `doctor` makes of their answers,
and `Restart` what each of them forgets with the session. A run is its report
and its exit status. `Restart` is an orderly end of the session. The lines of
the report that compare constants (its version, what is preserved) are left
out: they depend on nothing that changes.

### Config - `config::load`, `config --init`

The policy file with its two looks, and its creation in place by
`write_new_private`. A cut file is "default", "clipped" or "broken" by what its
prefix parses to. The first look (`Stat`) refuses what is not a regular file;
the second (`Open`) is by name and asks for nothing, so a link that came in
between is followed, to a policy ("linked") or to nothing ("dangling", which
means the defaults). `swapped` remembers whom that happened to. A named pipe or
a device that comes in between blocks the open or the read; that is left out.

### Schedule - the daily job

Time in hours. A slot a day (days have 23 to 25 hours), a delay of at most
`Jitter`, a trigger at start-up, a catch-up after sleep or a time without power
as far as the scheduler has one (launchd has none for a machine that was off).
A run is refused while another holds the lock, looks at the ledger some time
after it began (`Decide`), and may be killed, fail, or save its report without
the ledger. Runs by hand come at any time.

* *How long a run takes.* `systemd` and the Task Scheduler end what they start
  after `Duration` (`TimeoutStartSec=5min`, `ExecutionTimeLimit`): these runs
  are `Limited`. The plist of launchd has no limit and a run by hand has none,
  and as the inventory waits for git without a deadline such a run may hang:
  time goes on, the lock is held, and later slots start nothing. `hung`
  remembers that one exceeded `Duration`, until a report is saved in time or
  the machine was away.
* *Sleep.* Nothing keeps the machine awake. A run in progress sleeps with it,
  before or after `Decide`, and goes on when it is back; its limit counts from
  then (`Begun`). Its completion is recorded when it happens, which may be
  hours after its slot. Switching off ends a run.

Not modelled: a machine that is switched off without having woken up, and the
battery conditions of the Task Scheduler, which only start fewer runs.

### Install - the scripts of the three platforms

Each script is the sequence of its commands (`Program`); each command is an
action, and the script goes on, ends at the first command that fails, or is
killed. `policy` is the format of `config.toml`, `binary` the installed code,
`units` what is on the disk and `loaded` what the scheduler has read of it.
Copying is two steps (`Stage`, `Write`) and goes on under the new name if
somebody renames the file in between.

## Runs

Each run is a `.cfg` of the same name as its module and question.

| Run | Shows | Bounds |
|---|---|---|
| `CleanerRuns_overlap` | no two prunes at once; each prune justified by the files on disk; files replaced in order; early prunes only where the ledger forgot | 3 runs, 2 process ids, 2 caches, a kill, a clock set back |
| `CleanerRuns_files` | truth of the ledger, durable `Ok`, nothing torn; the runs are turns of `Maintenance`; uv is a `NativeCommand`; every run whose git answers ends | 2 runs, a kill, a fault and an edit at any step, `FairSpec` |
| `CleanerRuns_status` | *violation*, see Findings | 2 runs, one edit |
| `ProcessRun_command` | the tree is gone, readers joined, `Ok` complete, a job object holds, a recycled number is spared while the command is being stopped; `NativeCommand` implemented; `run` returns; what is written is read | one descendant, both trees, 2 units written, limit 1, reads and a pipe of 2, `FairSpec` |
| `AptPolicy_publish` | never torn, never replaced, success is true and durable | 3 installers on 2 process ids, one each of edit, kill, fault, outage |
| `UvGc_probes` | prunes licensed; preview agrees with run; `GcContract` implemented | 2 evaluations, 2 directories, one change, one failing probe |
| `ProjectScan_walk` | the walk is exact; nothing counted twice | every tree of the family in `MCProjectScan`, overlapping roots |
| `ProjectScan_inside` | *violation*, see Findings | those of the family with a Cargo target |
| `Doctor_inspect` | an ok is evidence, a failure is seen, no false alarm | 3 schedulers, 2 runs or autocleans, 3 clock readings, one edit, restart or clock set back |
| `Config_init` | a policy that was there is used, init is whole, nothing overwritten | 2 invocations, one edit, kill, outage, 2 faults |
| `Schedule_days` | no slot skipped for the slot before, prunes a day apart, missed slots caught up, 72 hours mean lost runs or a hung one | 3 schedulers, 15 hours of days of 4 or 5, a run by hand, an outage, 2 failures |
| `Install_scripts` | policy preserved, installed code works, done means done | 3 platforms, 2 scripts, 2 versions, an edit, a reboot |

Why the bounds are enough. Two invocations make every race for a file or the
lock; the third in `overlap` is the one that starts after a kill or on a
recycled process id. Two caches are needed for the one ledger entry to be
taken away, two process ids with three runs for one to be handed out again. A
fault, a kill and an edit are bounded by one each but may hit any step, also
the cleanup after another. `Interval = 1` and two clock readings have the three
cases of `due_at`: before, at the boundary, behind. One unit past the limit and
reads of two units put the cut inside a read. Days of 4 and 5 hours with
`Jitter`, `Startup` and `Duration` 1 and `Interval` 2 are the smallest that
meet `DaysAssumption`; three of them fit into `MaxTime`, and `StaleAge` is
reached. In reality `Interval + Jitter + Duration` is 20 h + 15 min + 5 min,
less than a day of 23 h, and two days of 25 h, 15 min and twice 5 min are less
than the 72 h of `doctor`. Two versions and two scripts make every upgrade,
downgrade and overlap; a script is broken off at any command. For the modules
with theorems the result does not depend on the bounds.

The trees of `MCProjectScan` are a chain of a root, a project, an artifact and
three levels in it, a hidden directory beside the artifact and a second entry in
it: enough for nesting, for a part of an artifact, for a link to a sibling or
to the artifact itself, and for each list of names to matter.

Type invariants of the modules with theorems are proved and not run again.

Symmetry is used in safety runs only (`overlap`, `status`, `probes`); a process
id, a cache, a run or a directory is only ever compared. `command` and `files`,
which check liveness, use none. The self-loops `AllEnded`, `AllOver`,
`Returned` and `Over` let a finite instance stop; any other deadlock is an
error.

### Fairness

* `CleanerRuns!FairSpec` - weak fairness of each invocation's own steps but
  `Inventory`. The cleaner blocks on two things. One is `process::run`, whose
  wait ends at its deadline (`TimeoutGc` stays enabled while uv runs). The
  other is the git of the inventory, which has no deadline and may wait for
  ever with the lock held: `EveryRunEnds` says of each invocation that it ends
  *if its own git answers* (`WF_vars(Inventory(r))` is its hypothesis), whatever
  the git of the others does; they are refused by the lock and end. Nothing is
  assumed of uv, of the clock, or that an invocation is ever started.
* `ProcessRun!FairSpec` - the OS schedules the main thread and the readers.
  Nothing is assumed of the command, and nothing of the deadline: draining must
  not depend on it, and `RunReturns` carries "time passes" as its hypothesis.

No other module states liveness.

## Theorems

TLAPS proves these for every value of the constants.

**CleanerRunsProofs.** `Inv == TypeInv /\ LockInv /\ GcInv /\ FreshInv /\
HistoryInv /\ WholeInv /\ SaveInv /\ AuthorInv /\ MemoryInv`, each part
inductive with the ones before it. None of the properties is inductive alone: mutual exclusion needs "who is in its
section holds the lock" (`LockInv`); that a prune is justified needs that a
lock holder's memory equals the file until somebody edits it (`FreshInv`),
which needs the lock; truth of the ledger needs that every completion *in
memory* is backed too (`HistoryInv`); and that a replacement is whole needs
that a staging file about to be renamed is complete (`WholeInv`). Three more
parts remember what a run did at an earlier step: past the renames its entry is
in the ledger and the report is its own (`SaveInv`); whoever wrote what the
files hold is over, or is the run that holds the lock (`AuthorInv`); and a
completed prune is in the ledger, is still to be saved by the run that holds
the lock, or is excused by one of the ways of `Forgotten` (`MemoryInv`). From `Inv`: `TypeCorrect`,
`MutualExclusion`, `GcDoesNotOverlap`, `LedgerIsTrue`, `FilesStayWhole`,
`OkRunsAreDurable`; and as action properties, for which two lemmas say that
only the two renames replace a file (`OnlyRenameRecords`, `OnlyRenameReports`):
`PrunesAreJustified`, `ReportsAreBacked`, `ReplacementsAreOrdered`,
`EarlyPrunesAreExplained`. `UvKeepsCommand` is a refinement: the prune of each
invocation is a `NativeCommand` (`CommandInit`, `CommandStep`).

`RunsTakeTurns` is the other refinement, of `Maintenance`. The mapped state is a
function of the run that holds the lock, so it first takes that the turn and
what belongs to it stay while anybody else moves (`TurnStays`, `ToldStays`),
which is `LockInv` and `AuthorInv`; then one lemma per kind of step says which
step of `Maintenance` it is (`LoadBegins`, `DecidePrunesOrMisses`,
`FinishSucceedsOrMisses`, `RenameRecords`, `RenameTells`, `ReturnEnds`,
`EnvironmentTampers`, `FailuresStop`, ...). That a decision is taken on what is
recorded *now* holds of the abstract turn by construction and of the code by
this theorem. `ReportsAreHonest` is proved of `Maintenance` (three lines of
invariant, `HonestInv`) and carried over.

Two theorems are the part of `EveryRunEnds` that is not fairness. `RunsAreShort`:
each of its own steps brings an invocation nearer to its end, by a count
(`Remaining`) that begins at seventeen and that nobody else can raise.
`NoRunIsStuck`: it waits for the git of its inventory or for uv, and where it
waits for uv, the deadline may pass or uv has ended.

**AptPolicyProofs.** `Inv == FileInv /\ MetInv /\ DurableInv`. A file is whole
when linked because nobody else has its process id while its owner lives
(`OwnPid`, `LinksWhatIsSynced`). From it: `TypeCorrect`, `PolicyIsNeverTorn`,
`SuccessIsTrue`, `PublicationIsDurable`, `NeverReplaces`.

**UvGcProofs.** `Inv == TypeInv /\ QuietInv /\ OutcomeInv`: a directory past
its comparison is not excluded, and in a world that did not change every answer
still holds. Then what an evaluation has found so far is a function of that
world (`Outcome`, `OutcomeInv`), the same for a preview and a run, which is
`PreviewsAgree`.
`ContractIsKept` is the refinement: `PassingStutters`, `AnswerDeclines`,
`PruneCommits`, `AnswerConcludes` map each kind of step. Also `TypeCorrect`
and `PrunesAreLicensed`.

**ProcessRunProofs.** An invariant in six parts: types; which reader exists at
which point of `main` (`ReadersInv`); what is known of the leader, and of who
is alive, in which tree (`LeaderInv`, `LivingInv`, `TreeInv`); and per stream
that what was kept, what is in the pipe and what was written add up
(`StreamInv`). The last relates them to the answer (`AnswerInv`). From it:
`TypeCorrect`, `NothingIsLeft`, `JobIsComplete`, `NumberIsOwned`,
`ReadersEnd`, `OkIsWhole`, and the refinement `RunIsACommand` (every step is a
step of `NativeCommand` or none, `StepRefinement`). `DeadlineIsBinding` and
`NoWaitIsEndless` are to `RunReturns` what the two above are to `EveryRunEnds`:
after the deadline at most twelve steps of the main thread and three of each
reader are left, whatever the command does, and what the main thread waits for
comes (`WaitInv`: a reader that is joined was started, a leader that is reaped
was killed). `OutputIsTaken` is that to `OutputIsDrained`: a reader takes no
stream for ended while something is in it, and takes some of it every other
step.

**ScheduleProofs.** Besides types, an invariant per property: since when uv is
due and where the next slot is (`SlotInv`, `SlotAhead`, `CaughtUp`,
`SlotsCounted`); the arithmetic of `DaysAssumption` does the rest. From it:
`NoAlternateDays`, `PrunedDaily`, `MissedIsCaughtUp`, `StaleIsEarned`. None of
them takes that a run ends in time where nothing ends it: what they say of such
runs has `~hung` as its hypothesis or `hung` as an alternative.

**ConfigProofs.** What an invocation has seen of the file is what was there
(`LoadInv`), and who wrote it to its end owns what is there (`WholeInv`).
From it: `TypeCorrect`, `LoadsAreHonest`, `InitsAreWhole`, `NeverOverwrites`.

**ObserverProofs.** First `Doctor`. What the state files hold is backed by the history
(`EvidenceInv`), dates are behind the clock while it is not set back and a
doctor that was alone has a report from before (`QuietInv`), and the end of the
last run is still where it was left while nobody edits (`SeenInv`). From it:
`TypeCorrect`, `OkRestsOnEvidence`, `AlarmsAreTrue`, `FailuresAreSeen`.

Then `ProjectScan`, for every finite tree. The lemmas about the tree need no
induction, because `Above[d]` is the least closed set around `d`: each is an
instance of "least" for a set made for it (`AboveSteps` is the recursion,
`AboveIsOneWay`, `AboveIsAChain`, and `WayDown`: the way from `r` to `d` leads
through a child of `r`). From them `ExpectedApart`, which has no walk in it: two
paths that the rules describe below one root, and that go through no link, lead
to directories that have nothing in common.
`ScanInv == ScanTypeOK /\ PlaceInv /\ ListedInv /\ AheadInv /\ CountInv` is
about the walk: it stands at directories that nothing hides and of which none
is below another (`PlaceInv`), what is listed was expected and is behind it
(`ListedInv`), what is expected and not listed is ahead, below something open
or in a warm target (`AheadInv`), and the sum so far is that of the listed
(`CountInv`, which needs `ExpectedApart` and that a directory listed now is not
listed yet). `ListedInv` is the one half of `ScanIsExact` at the end, `AheadInv`
the other. From `ScanInv`: `ScanTypeCorrect`, `ScanFindsExactly`,
`ScanCountsOnce`, `NoDirectoryTwice` (each step uses up a root or a directory,
so the walk ends), and `ArtifactsStayInside`, what is true of the sentence that
`StaysInside` refutes.

**InstallProofs.** What `Program` says of each platform is first turned into
facts about single commands: which platform, which kind of script and which
place a command has (`Places`), and what is left behind it (`LeftOver`). Then
`Inv == TypeInv /\ AloneInv /\ ProgressInv /\ CodeWorks`. Whoever is alone has
no other script beside it (`AloneInv`); a running script stands at a place of
its program, and if it is alone everything the commands before that place were
to achieve still holds (`ProgressInv`, with `Installing` and `Removing` saying
what that is on each platform). `CodeWorks` needs the third to know whose file
`mv -f` puts in place; a reboot keeps `ProgressInv` because what is loaded then
follows from the disk. From it: `TypeCorrect`, `CodeAlwaysWorks`,
`ThroughMeansDone`, `PolicyIsPreserved`.

Assumptions: the named `ASSUME`s of these modules, and nothing else. They say
that the null values are not members of the sets they are beside, that bounds
are naturals, that the interval is positive (`config.rs` validates it), for
`Schedule` the two inequalities above, and for `ProjectScan` that the tree is
finite and nothing in it is below itself.

Model-checked only: liveness (`EveryRunEnds`, `RunReturns`, `OutputIsDrained`).
Fairness and `ENABLED` are beyond the prover; what they rest on besides is
proved, see `RunsAreShort`, `DeadlineIsBinding` and `OutputIsTaken`. Every other property of
a run that passes is a theorem. `ReportImpliesLedger` is a theorem
(`ReportsAreBacked`) and not run: `RunsAreSerial` has its order of recording and
telling, and the theorem its exact form.

The two properties of runs that expect a violation (`StatusIsLastRun`,
`StaysInside`) are false and have no theorem. No run lists a type invariant:
they are theorems too.

## Findings

1. `CleanerRuns_status`: README.md:132 calls what `status` prints the "last
   actual run, including failures". A run that ends with an error before its
   report is saved (an unreadable ledger is enough) saves none, and `status`
   goes on showing the run before it.
2. `ProjectScan_inside`: README.md:213-214 says that discovery "never follows
   symlinks or crosses filesystem boundaries". The incremental caches of a
   warm Cargo target are found by joining names, and only the last component is
   looked at, so `target/<profile>/incremental` is listed through a linked or
   mounted `<profile>`. If the link leads to a sibling profile, the same cache
   is listed under both names and its bytes are summed twice. It is an
   inventory, nothing is deleted.

### Exceptions the properties name

Properties that hold are often of the form "except where ...". The exceptions
are behaviour of the code, found by weakening a property until it held:

* *At most once per interval* (README.md:27-28) holds while nothing is
  forgotten. `Forgotten` lists all the ways: the run was killed or could not
  save, its uv completed but the run timed out or could not drain it, somebody
  edited the ledger or set the clock back, or uv named another cache and took
  the single entry (documented at README.md:29).
* *No two prunes at once* holds unless a run was killed on a system that lets
  uv go on; then only uv's own lock orders the two.
* *`doctor` says the future is a clock rollback* - or the run began after
  `doctor` took the time and saved before it read (`NoFalseAlarm`, `calm`).
* *A failure is seen* only if the run got as far as its report or was the
  scheduler's: an aborted manual run leaves no trace, and systemd and launchd
  forget with the session (`FailureIsSeen`).
* *A failed `config --init` removes what is at the path*, by name. It may be
  somebody else's file, so `NothingOverwritten` speaks of runs in which nothing
  failed.
* *A cut `config.toml`* may parse as another policy (`interval_hours = 20` cut
  to `2`); `LoadIsHonest` says that this takes a short write or an outage
  during `--init`.
* *The loser of a race between two APT installers* gets an error although the
  policy is in place; README.md:56 "idempotent" holds for the next call.
* *The group number is killed after its leader was reaped* (`process.rs` 101,
  `os/unix.rs` 80). If the group is empty by then the number may be somebody
  else's. `StrangersSpared` says that this takes a command that ended by
  itself; one that is stopped is killed before it is reaped.
* *No slot is skipped* because of a slot before it whose run ended within
  `Duration` (`SlotIsDue`). A run by hand less than 20 hours before a slot makes
  that slot not due, and so does the run of a slot that slept with the machine
  or hung and completed hours later.
* *A run without a limit that hangs* (launchd, by hand) keeps the lock: no bound
  on the gap between prunes, on the catch-up or on the age of the report holds
  until somebody ends it (`~hung` in `GapBounded` and `CatchUpPrunes`, `hung` in
  `StaleMeansLost`).
* *The second look is by name.* Between its two looks at the APT policy or at
  `config.toml` a process may be given another file: the APT installer compares
  only its text, `load` follows a link that came there. `OkMeansInstalled` and
  `LoadIsHonest` name it (`swapped`).
* *A linked profile* makes incremental caches overlap with other candidates
  (`Aliased` in `CountedOnce`).
* *Missed-run catch-up*: launchd catches up after sleep, not for a machine that
  was switched off (`CatchUpPrunes`).
* *Overlapping installers* share the name `rldyour-cleaner.new`, and one may
  move what the other still writes. `CodeWorks` speaks of scripts that did not
  meet each other or the user.
* *An uninstall on Windows* hears no error (`SilentlyContinue`); `DoneIsDone`
  exempts it.
* *Overlapping roots* list an artifact once per root; `protect` is not asked
  for the parts of a warm artifact. `ScanIsExact` says so.

## Not modelled

* The cache inventory and the platform adapters read and print; they keep no
  state and nothing is decided on them.
* Of the installers: the build, the download and verification of a release on
  Windows, permissions and quoting of paths in units. They fail or end before
  anything modelled is touched, and a failure there is `Break`.
* A loss of power in `Doctor` and `CleanerRuns`: `replace_private` syncs the
  file and not its directory, so what a rename leaves behind is up to the file
  system. `AptPolicy` and `Config` have it, where the code (or its absence of
  a sync) decides.
* The deadline of a command and the time limit of the service on one clock: the
  first is `ProcessRun`'s, the second `Schedule`'s.
* Unlinking `run.lock` by hand.
* Wording, JSON layout, byte counts and paths as text.
* The file system's own guarantees (rename and link are atomic, a synced file
  stays) are assumed by the modules and not shown.

## Plan

The order was that of importance: what may prune or write came first, then what
starts it, what reports on it, and what installs it; then an abstract
specification where one says more than its parts. All modules of the plan
exist, and every safety property that a run checks is proved. What a change of
the code should bring with it: a new provider of garbage collection is a second
entry of the ledger and a second `uv` of each run in `CleanerRuns` and
`Maintenance`; a deletion by the cleaner itself would make `ProjectScan`'s tree
change under the walk.
