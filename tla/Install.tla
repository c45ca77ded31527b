------------------------------ MODULE Install ------------------------------
(***************************************************************************)
(* install and uninstall on Linux, macOS and Windows: what they do to the  *)
(* policy, the installed code, the scheduler's units and the scheduler, a  *)
(* command at a time.  Each script ends at the first command that fails    *)
(* (set -e, 'Stop'), may be killed between any two, and may run beside     *)
(* another.  Policies and code have versions: older code refuses a newer   *)
(* policy.                                                                 *)
(***************************************************************************)
EXTENDS Naturals, Sequences

CONSTANTS
    Script,         \* calls of install.sh or uninstall.sh
    Earlier,        \* whoever installed before them
    Platforms,      \* some of "linux", "macos", "windows"
    MaxVersion,     \* bound: versions of code and policy
    MaxEdits,       \* bound: changes to the policy by the user
    MaxReboots      \* bound: reboots or logins

ASSUME EarlierAssumption == Earlier \notin Script
ASSUME PlatformAssumption == Platforms \subseteq {"linux", "macos", "windows"}
ASSUME BoundsAssumption ==
    /\ MaxVersion \in Nat \ {0} /\ MaxEdits \in Nat /\ MaxReboots \in Nat

VARIABLES
    platform, edits, reboots,
    version,        \* the version that each script brings
    at,             \* "idle", "running", "failed" or "killed"
    todo,           \* the commands a running script still has to do
    \* What the scripts work on.
    policy,         \* the format of config.toml, or Absent
    binary,         \* the installed code: whose it is, and if it is whole
    staged,         \* rldyour-cleaner.new
    units,          \* service and timer, the agent, or the task, on the disk
    loaded,         \* as the scheduler has read them
    enabled,        \* started with every session
    active,         \* the timer runs
    \* History, read by the properties only.
    overlapped,     \* two scripts ran at the same time
    raced,          \* the user changed the policy while a script ran
    duty            \* what each script was started for, until somebody else
                    \* does something

files    == <<policy, binary, staged, units>>
schedule == <<loaded, enabled, active>>
scripts  == <<version, at, todo>>
history  == <<overlapped, raced, duty>>
vars     == <<platform, edits, reboots, scripts, files, schedule, history>>

Version == 1..MaxVersion
Absent  == 0
NoFile  == [by |-> Earlier, whole |-> FALSE]
Unit    == {"absent", "part", "whole"}

\* An unknown key is refused (deny_unknown_fields); a known one stays known.
Accepts(v, p) == p = Absent \/ p <= v

Running(s) == at[s] = "running"
Done(s)    == Running(s) /\ todo[s] = <<>>
Busy(s)    == Running(s) /\ ~Done(s)

\* platforms/common/install.sh first, then the platform's own script.
Common == <<"validate", "stage", "write", "replace">>

Program(p, kind) ==
    CASE kind = "install" /\ p = "linux" ->
            Common \o <<"open-units", "fill-units", "look", "init", "reload", "enable">>
      [] kind = "install" /\ p = "macos" ->
            Common \o <<"look", "init", "open-units", "fill-units", "lint", "bootout",
                        "bootstrap">>
      [] kind = "install" /\ p = "windows" ->
            Common \o <<"look", "init", "check", "register">>
      [] kind = "uninstall" /\ p = "linux" ->
            <<"disable", "remove-one", "remove-both", "reload", "remove-code">>
      [] kind = "uninstall" /\ p = "macos" ->
            <<"bootout", "remove-both", "remove-code">>
      [] kind = "uninstall" /\ p = "windows" ->
            <<"unregister", "remove-code">>

Init ==
    /\ platform \in Platforms
    /\ edits = 0 /\ reboots = 0
    /\ version \in [Script \cup {Earlier} -> Version]
    /\ at = [s \in Script |-> "idle"]
    /\ todo = [s \in Script |-> <<>>]
    /\ staged = NoFile
    /\ \/ /\ binary = NoFile /\ units = "absent" /\ loaded = "absent"
          /\ enabled = FALSE /\ active = FALSE
          /\ policy \in {Absent} \cup Version
       \/ /\ binary = [by |-> Earlier, whole |-> TRUE]
          /\ units = "whole" /\ loaded = "whole"
          /\ enabled = TRUE /\ active = TRUE
          /\ policy \in {p \in Version : Accepts(version[Earlier], p)}
    /\ overlapped = FALSE
    /\ raced = FALSE
    /\ duty = [s \in Script |-> "none"]

-----------------------------------------------------------------------------
(* The commands.                                                           *)

\* A script begins; others are not alone any more.
Start(s) ==
    /\ at[s] = "idle"
    /\ at' = [at EXCEPT ![s] = "running"]
    /\ \E kind \in {"install", "uninstall"} :
        /\ todo' = [todo EXCEPT ![s] = Program(platform, kind)]
        /\ duty' = [t \in Script |-> IF t = s /\ ~\E u \in Script : Busy(u)
                                    THEN kind ELSE "none"]
    /\ overlapped' = (overlapped \/ \E t \in Script : Busy(t))
    /\ UNCHANGED <<platform, edits, reboots, version, files, schedule, raced>>

Turn(s, command) ==
    /\ Busy(s)
    /\ Head(todo[s]) = command

\* The command succeeds, and the next one is due; or it fails, and it was the
\* last.
Proceed(s) ==
    /\ todo' = [todo EXCEPT ![s] = Tail(@)]
    /\ at' = at
GiveUp(s) ==
    /\ at' = [at EXCEPT ![s] = "failed"]
    /\ todo' = [todo EXCEPT ![s] = <<>>]

Rest == UNCHANGED <<platform, edits, reboots, version, history>>

\* "${BINARY}" config: the new code reads the policy before anything is
\* touched.
NeverRefused(s) == FALSE            \* mutant: not asked
Refused(s) == ~Accepts(version[s], policy)

Validate(s) ==
    /\ Turn(s, "validate")
    /\ IF Refused(s) THEN GiveUp(s) ELSE Proceed(s)
    /\ Rest /\ UNCHANGED <<files, schedule>>

\* install(1) removes what has the name and creates a new file ...
Stage(s) ==
    /\ Turn(s, "stage")
    /\ staged' = [by |-> s, whole |-> FALSE]
    /\ Proceed(s)
    /\ Rest /\ UNCHANGED <<policy, binary, units, schedule>>

\* ... and fills it, under whatever name it has by then.
Write(s) ==
    /\ Turn(s, "write")
    /\ staged' = [staged EXCEPT !.whole = @ \/ staged.by = s]
    /\ binary' = [binary EXCEPT !.whole = @ \/ binary.by = s]
    /\ Proceed(s)
    /\ Rest /\ UNCHANGED <<policy, units, schedule>>

\* mv -f.
Replace(s) ==
    /\ Turn(s, "replace")
    /\ IF staged = NoFile
       THEN GiveUp(s) /\ UNCHANGED <<binary, staged>>
       ELSE /\ binary' = staged
            /\ staged' = NoFile
            /\ Proceed(s)
    /\ Rest /\ UNCHANGED <<policy, units, schedule>>

\* The units are written under their own names.
OpenUnits(s) ==
    /\ Turn(s, "open-units")
    /\ units' = "part"
    /\ Proceed(s)
    /\ Rest /\ UNCHANGED <<policy, binary, staged, schedule>>

FillUnits(s) ==
    /\ Turn(s, "fill-units")
    /\ units' = "whole"
    /\ Proceed(s)
    /\ Rest /\ UNCHANGED <<policy, binary, staged, schedule>>

\* if [[ ! -e config.toml ]]
Look(s) ==
    /\ Turn(s, "look")
    /\ todo' = [todo EXCEPT ![s] = IF policy = Absent THEN Tail(@) ELSE Tail(Tail(@))]
    /\ UNCHANGED at
    /\ Rest /\ UNCHANGED <<files, schedule>>

\* The installed code writes its policy, if the name is still free.
AnyTime == TRUE                     \* mutant: an existing file is overwritten
Vacant == policy = Absent

InitPolicy(s) ==
    /\ Turn(s, "init")
    /\ IF Vacant /\ binary.whole
       THEN policy' = version[binary.by] /\ Proceed(s)
       ELSE UNCHANGED policy /\ GiveUp(s)
    /\ Rest /\ UNCHANGED <<binary, staged, units, schedule>>

\* systemctl --user daemon-reload.
Reload(s) ==
    /\ Turn(s, "reload")
    /\ loaded' = units
    /\ Proceed(s)
    /\ Rest /\ UNCHANGED <<files, enabled, active>>

\* systemctl --user enable --now.
NextTime == active                  \* mutant: enable without --now
AtOnce == TRUE

Enable(s) ==
    /\ Turn(s, "enable")
    /\ IF loaded = "whole" /\ units # "absent"
       THEN enabled' = TRUE /\ active' = AtOnce /\ Proceed(s)
       ELSE UNCHANGED <<enabled, active>> /\ GiveUp(s)
    /\ Rest /\ UNCHANGED <<files, loaded>>

\* plutil -lint, before the agent that runs is touched.
Lint(s) ==
    /\ Turn(s, "lint")
    /\ IF units = "whole" THEN Proceed(s) ELSE GiveUp(s)
    /\ Rest /\ UNCHANGED <<files, schedule>>

\* launchctl bootout; it is no error if there is no agent.
Bootout(s) ==
    /\ Turn(s, "bootout")
    /\ active' = FALSE /\ loaded' = "absent"
    /\ Proceed(s)
    /\ Rest /\ UNCHANGED <<files, enabled>>

\* launchctl bootstrap; it is one if there is an agent.
Bootstrap(s) ==
    /\ Turn(s, "bootstrap")
    /\ IF units = "whole" /\ ~active
       THEN active' = TRUE /\ loaded' = units /\ Proceed(s)
       ELSE UNCHANGED <<active, loaded>> /\ GiveUp(s)
    /\ Rest /\ UNCHANGED <<files, enabled>>

\* systemctl --user disable --now, stop; it is no error if there is no unit.
Disable(s) ==
    /\ Turn(s, "disable")
    /\ enabled' = (enabled /\ units = "absent") /\ active' = FALSE
    /\ Proceed(s)
    /\ Rest /\ UNCHANGED <<files, loaded>>

RemoveUnits(s) ==
    /\ \/ Turn(s, "remove-one") /\ units' = IF units = "absent" THEN units ELSE "part"
       \/ Turn(s, "remove-both") /\ units' = "absent"
    /\ Proceed(s)
    /\ Rest /\ UNCHANGED <<policy, binary, staged, schedule>>

\* & $Exe config.
Check(s) ==
    /\ Turn(s, "check")
    /\ IF binary.whole /\ Accepts(version[binary.by], policy) THEN Proceed(s) ELSE GiveUp(s)
    /\ Rest /\ UNCHANGED <<files, schedule>>

\* Register-ScheduledTask -Force.
Register(s) ==
    /\ Turn(s, "register")
    /\ units' = "whole" /\ loaded' = "whole" /\ active' = TRUE
    /\ Proceed(s)
    /\ Rest /\ UNCHANGED <<policy, binary, staged, enabled>>

\* On Windows errors of a removal are not heard (SilentlyContinue); the
\* directory goes as a whole.
Unheard == platform = "windows"

Unregister(s) ==
    /\ Turn(s, "unregister")
    /\ \/ units' = "absent" /\ loaded' = "absent" /\ active' = FALSE
       \/ Unheard /\ UNCHANGED <<units, loaded, active>>
    /\ Proceed(s)
    /\ Rest /\ UNCHANGED <<policy, binary, staged, enabled>>

RemoveCode(s) ==
    /\ Turn(s, "remove-code")
    /\ \/ binary' = NoFile /\ staged' = IF Unheard THEN NoFile ELSE staged
       \/ Unheard /\ UNCHANGED <<binary, staged>>
    /\ Proceed(s)
    /\ Rest /\ UNCHANGED <<policy, units, schedule>>

\* A command fails for reasons of its own, or the script is killed.
Break(s) ==
    /\ Busy(s)
    /\ GiveUp(s)
    /\ Rest /\ UNCHANGED <<files, schedule>>

Command(s) ==
    \/ Start(s) \/ Validate(s) \/ Stage(s) \/ Write(s) \/ Replace(s)
    \/ OpenUnits(s) \/ FillUnits(s) \/ Look(s) \/ InitPolicy(s)
    \/ Reload(s) \/ Enable(s) \/ Lint(s) \/ Bootout(s) \/ Bootstrap(s)
    \/ Check(s) \/ Register(s) \/ Unregister(s)
    \/ Disable(s) \/ RemoveUnits(s) \/ RemoveCode(s) \/ Break(s)

-----------------------------------------------------------------------------
(* The user, and the session.                                              *)

\* The user writes what the installed code accepts, or removes it.
Edit ==
    /\ edits < MaxEdits
    /\ edits' = edits + 1
    /\ \E p \in {Absent} \cup Version :
        /\ binary.whole => Accepts(version[binary.by], p)
        /\ policy' = p
    /\ raced' = (raced \/ \E s \in Script : Busy(s))
    /\ duty' = [s \in Script |-> "none"]
    /\ UNCHANGED <<platform, reboots, scripts, binary, staged, units, schedule,
                   overlapped>>

\* A new session: running scripts are gone, and what is on the disk counts.
Reboot ==
    /\ reboots < MaxReboots
    /\ reboots' = reboots + 1
    /\ at' = [s \in Script |-> IF Busy(s) THEN "killed" ELSE at[s]]
    /\ todo' = [s \in Script |-> <<>>]
    /\ loaded' = units
    /\ active' = (units = "whole" /\ (platform = "linux" => enabled))
    /\ UNCHANGED <<platform, edits, version, files, enabled, history>>

Over == (\A s \in Script : at[s] # "idle" /\ ~Busy(s)) /\ UNCHANGED vars

Next == (\E s \in Script : Command(s)) \/ Edit \/ Reboot \/ Over

Spec == Init /\ [][Next]_vars

-----------------------------------------------------------------------------
(* Properties.                                                             *)

TypeOK ==
    /\ platform \in {"linux", "macos", "windows"}
    /\ edits \in 0..MaxEdits /\ reboots \in 0..MaxReboots
    /\ version \in [Script \cup {Earlier} -> Version]
    /\ at \in [Script -> {"idle", "running", "failed", "killed"}]
    /\ \A s \in Script : ~Running(s) => todo[s] = <<>>
    /\ policy \in {Absent} \cup Version
    /\ {binary, staged} \subseteq [by : Script \cup {Earlier}, whole : BOOLEAN]
    /\ units \in Unit /\ loaded \in Unit
    /\ {enabled, active, overlapped, raced} \subseteq BOOLEAN
    /\ duty \in [Script -> {"none", "install", "uninstall"}]

\* README.md 108-110, 121, "The installer preserves existing policy": no script
\* changes a policy that is there, whatever the user and other scripts do
\* between its look and its config --init.
PolicyPreserved ==
    [][policy' = policy \/ policy = Absent \/ edits' # edits]_vars

\* common/install.sh 2, 12: unless two scripts or the user met, the installed
\* code is whole and accepts the policy that is there, wherever installs,
\* downgrades and removals were broken off.
CodeWorks ==
    ~overlapped /\ ~raced /\ binary # NoFile =>
        binary.whole /\ Accepts(version[binary.by], policy)

\* Once an install that was alone is through, the job is there to be started:
\* its own code, a policy it accepts, the units as files and in the scheduler,
\* now and in later sessions; and after a removal none of it is, but for
\* Windows, where nobody hears that something could not be removed.
DoneIsDone ==
    \A s \in Script : Done(s) =>
        /\ duty[s] = "install" =>
            /\ binary = [by |-> s, whole |-> TRUE]
            /\ policy # Absent /\ Accepts(version[s], policy)
            /\ units = "whole" /\ loaded = "whole" /\ active
            /\ platform = "linux" => enabled
        /\ duty[s] = "uninstall" /\ platform # "windows" =>
            /\ binary = NoFile
            /\ units = "absent" /\ loaded = "absent" /\ ~active

=============================================================================
