------------------------------ MODULE AptPolicy ------------------------------
(***************************************************************************)
(* `apt-autoclean --enable` (os/linux_policy.rs): any number of installers *)
(* publish one policy file in a directory that an administrator edits too. *)
(* An installer looks at the destination, builds the file under a name     *)
(* made from its process id, syncs it, links it to the destination, which  *)
(* must not exist by then, syncs the directory and removes its staging     *)
(* name.  Installers may be killed, operations may fail, and the machine   *)
(* may lose power.                                                         *)
(***************************************************************************)
EXTENDS Naturals, FiniteSets

CONSTANTS
    Installer,      \* the invocations of `apt-autoclean --enable`
    Pid,            \* process ids, which are handed out again
    NoPid,          \* an installer that was not started
    MaxEdits,       \* bound: changes of the destination by the administrator
    MaxCrashes,     \* bound: installers killed
    MaxFaults,      \* bound: operations on the directory that fail
    MaxOutages      \* bound: losses of power

ASSUME NoPidAssumption == NoPid \notin Pid
ASSUME BoundsAssumption ==
    /\ MaxEdits \in Nat
    /\ MaxCrashes \in Nat
    /\ MaxFaults \in Nat
    /\ MaxOutages \in Nat

VARIABLES
    edits, crashes, faults, outages,    \* how much of each bound is used
    dest,       \* what 90-rldyour-cleaner-autoclean is
    settled,    \* the entry of dest is on the disk, not only in memory
    staging,    \* the file .rldyour-cleaner-<pid>.tmp of each process id
    pc, pid,    \* where each installer is, and its process id
    failed,     \* an operation of it failed: its result is an error
    \* History, read by the properties only.
    linked,     \* the installers whose link was the one that succeeded
    met,        \* the installers that ran while dest was the policy
    swapped     \* those between whose two looks dest was made "foreign"

environment == <<edits, crashes, faults, outages>>
vars == <<environment, dest, settled, staging, pc, pid, failed, linked, met, swapped>>

\* "policy": our text; "unsynced": our text, not on the disk yet; "torn": part
\* of it; "local": another trusted regular file.  The rest is not a trusted
\* regular file of at most 4096 bytes: "foreign" gives our text to whoever opens
\* it (a link, or a file that others own or may write), "untrusted" does not.
Content == {"absent", "policy", "unsynced", "torn", "local", "foreign",
            "untrusted"}

Refused == {"foreign", "untrusted"}

\* What may be there without this program: before it, or by an administrator.
Given == {"absent", "policy", "local", "foreign", "untrusted"}

Draft == {"absent", "torn", "unsynced", "policy"}

Ended == {"ok", "error", "killed"}

Location == {"idle", "inspect", "read", "create", "write", "sync", "link",
             "sync_dir", "remove"} \cup Ended

Live(i) == pc[i] \notin Ended \cup {"idle"}

Goto(i, l) == pc' = [pc EXCEPT ![i] = l]

\* Everybody who runs while the destination is the policy has met it.
Meet(d, live) == met' = met \cup (IF d = "policy" THEN live ELSE {})

LiveNow == {i \in Installer : Live(i)}

\* The process id a staging file is named for.
NameOf(i) == pid[i]

\* What the staging file of i is.
Drafted(i) == staging[NameOf(i)]

Stage(i, d) == staging' = [staging EXCEPT ![NameOf(i)] = d]

-----------------------------------------------------------------------------
Init ==
    /\ edits = 0
    /\ crashes = 0
    /\ faults = 0
    /\ outages = 0
    /\ dest \in Given
    /\ settled = TRUE
    /\ staging = [p \in Pid |-> "absent"]
    /\ pc = [i \in Installer |-> "idle"]
    /\ pid = [i \in Installer |-> NoPid]
    /\ failed = [i \in Installer |-> FALSE]
    /\ linked = {}
    /\ met = {}
    /\ swapped = {}

-----------------------------------------------------------------------------
(* The steps of an installer.                                              *)

\* Root on Debian with a trusted policy directory; anything else ends here.
Start(i) ==
    /\ pc[i] = "idle"
    /\ \E p \in Pid :
        /\ \A j \in Installer : Live(j) => pid[j] # p
        /\ pid' = [pid EXCEPT ![i] = p]
    /\ Goto(i, "inspect")
    /\ Meet(dest, {i})
    /\ UNCHANGED <<environment, dest, settled, staging, failed, linked,
                   swapped>>

\* symlink_metadata of the destination.
Inspect(i) ==
    /\ pc[i] = "inspect"
    /\ Goto(i, CASE dest = "absent" -> "create"
                 [] dest \in Refused -> "error"
                 [] OTHER -> "read")
    /\ UNCHANGED <<environment, dest, settled, staging, pid, failed, linked,
                   met, swapped>>

\* The destination is opened again, by name, and its text compared with the
\* policy.  Nothing asks here whether it is still a trusted regular file.
Read(i) ==
    /\ pc[i] = "read"
    /\ Goto(i, IF dest \in {"policy", "unsynced", "foreign"}
               THEN "ok" ELSE "error")
    /\ UNCHANGED <<environment, dest, settled, staging, pid, failed, linked,
                   met, swapped>>

\* create_new of the staging file.
Create(i) ==
    /\ pc[i] = "create"
    /\ IF Drafted(i) = "absent"
       THEN Stage(i, "torn") /\ Goto(i, "write")
       ELSE Goto(i, "error") /\ UNCHANGED staging
    /\ UNCHANGED <<environment, dest, settled, pid, failed, linked, met,
                   swapped>>

Write(i) ==
    /\ pc[i] = "write"
    /\ Stage(i, "unsynced")
    /\ Goto(i, "sync")
    /\ UNCHANGED <<environment, dest, settled, pid, failed, linked, met,
                   swapped>>

\* What sync_all leaves of the staging file.
NotSynced(i) == Drafted(i)         \* mutant: write_all only
Synced(i) == "policy"

SyncFile(i) ==
    /\ pc[i] = "sync"
    /\ Stage(i, Synced(i))
    /\ Goto(i, "link")
    /\ UNCHANGED <<environment, dest, settled, pid, failed, linked, met,
                   swapped>>

\* hard_link gives the staging file its second name, unless that is taken.
RenameOver(i) == TRUE                   \* mutant: rename instead of hard_link
Free(i) == dest = "absent"

Link(i) ==
    /\ pc[i] = "link"
    /\ Free(i)
    /\ dest' = Drafted(i)
    /\ settled' = FALSE
    /\ linked' = linked \cup {i}
    /\ Meet(dest', LiveNow)
    /\ Goto(i, "sync_dir")
    /\ UNCHANGED <<environment, staging, pid, failed, swapped>>

\* What a link that finds the name taken means for the result.
TakenIsFine(i) == failed                \* mutant: AlreadyExists is success
TakenIsError(i) == [failed EXCEPT ![i] = TRUE]

\* Where an error leads once the staging file exists.
Cleanup(i) == "remove"

LinkRefused(i) ==
    /\ pc[i] = "link"
    /\ ~Free(i)
    /\ failed' = TakenIsError(i)
    /\ Goto(i, Cleanup(i))
    /\ UNCHANGED <<environment, dest, settled, staging, pid, linked, met,
                   swapped>>

\* The directory is synced: its entries are on the disk.
DirLeft == settled                      \* mutant: only the file is synced
DirSynced == TRUE

SyncDir(i) ==
    /\ pc[i] = "sync_dir"
    /\ settled' = DirSynced
    /\ Goto(i, "remove")
    /\ UNCHANGED <<environment, dest, staging, pid, failed, linked, met,
                   swapped>>

\* The staging name goes in every case; result.and(cleanup).
Remove(i) ==
    /\ pc[i] = "remove"
    /\ Stage(i, "absent")
    /\ Goto(i, IF failed[i] THEN "error" ELSE "ok")
    /\ UNCHANGED <<environment, dest, settled, pid, failed, linked, met,
                   swapped>>

\* An operation fails.  Once the staging file exists what is left to do is
\* to remove it; if that fails it stays.
Fault(i) ==
    /\ Live(i)
    /\ faults < MaxFaults
    /\ faults' = faults + 1
    /\ failed' = [failed EXCEPT ![i] = TRUE]
    /\ Goto(i, IF pc[i] \in {"write", "sync", "link", "sync_dir"}
               THEN Cleanup(i) ELSE "error")
    /\ UNCHANGED <<edits, crashes, outages, dest, settled, staging, pid,
                   linked, met, swapped>>

-----------------------------------------------------------------------------
(* The environment.                                                        *)

Crash(i) ==
    /\ Live(i)
    /\ crashes < MaxCrashes
    /\ crashes' = crashes + 1
    /\ Goto(i, "killed")
    /\ UNCHANGED <<edits, faults, outages, dest, settled, staging, pid,
                   failed, linked, met, swapped>>

\* The administrator writes, replaces or removes the destination.
Edit ==
    /\ edits < MaxEdits
    /\ edits' = edits + 1
    /\ dest' \in Given \ {dest}
    /\ settled' = TRUE
    /\ Meet(dest', LiveNow)
    /\ swapped' = swapped \cup
           {i \in Installer : pc[i] = "read" /\ dest' = "foreign"}
    /\ UNCHANGED <<crashes, faults, outages, staging, pc, pid, failed, linked>>

\* Everybody is gone.  An entry that was not synced may be gone as well, and
\* a file that was not synced may be cut.
Outage ==
    /\ outages < MaxOutages
    /\ outages' = outages + 1
    /\ pc' = [i \in Installer |-> IF Live(i) THEN "killed" ELSE pc[i]]
    /\ \E gone \in BOOLEAN :
        /\ gone => ~settled
        /\ dest' = IF gone THEN "absent"
                   ELSE IF dest = "unsynced" THEN "torn" ELSE dest
    /\ settled' = TRUE
    /\ staging' \in [Pid -> {"absent", "torn", "policy"}]
    /\ \A p \in Pid :
        /\ staging[p] = "absent" => staging'[p] = "absent"
        /\ staging[p] \in {"torn", "unsynced"} => staging'[p] # "policy"
        /\ staging[p] = "policy" => staging'[p] # "torn"
    /\ UNCHANGED <<edits, crashes, faults, pid, failed, linked, met, swapped>>

-----------------------------------------------------------------------------
Step(i) ==
    \/ Start(i) \/ Inspect(i) \/ Read(i)
    \/ Create(i) \/ Write(i) \/ SyncFile(i)
    \/ Link(i) \/ LinkRefused(i)
    \/ SyncDir(i) \/ Remove(i)
    \/ Fault(i) \/ Crash(i)

AllEnded == (\A i \in Installer : pc[i] \in Ended) /\ UNCHANGED vars

Next == (\E i \in Installer : Step(i)) \/ Edit \/ Outage \/ AllEnded

Spec == Init /\ [][Next]_vars

-----------------------------------------------------------------------------
(* Properties.                                                             *)

\* Every variable has its type; in particular nothing becomes the destination
\* before its content is on the disk.
TypeOK ==
    /\ edits \in 0..MaxEdits
    /\ crashes \in 0..MaxCrashes
    /\ faults \in 0..MaxFaults
    /\ outages \in 0..MaxOutages
    /\ dest \in Content \ {"unsynced"}
    /\ settled \in BOOLEAN
    /\ staging \in [Pid -> Draft]
    /\ pc \in [Installer -> Location]
    /\ pid \in [Installer -> Pid \cup {NoPid}]
    /\ failed \in [Installer -> BOOLEAN]
    /\ linked \in SUBSET Installer
    /\ met \in SUBSET Installer
    /\ swapped \in SUBSET Installer

\* README.md 55, "publish is atomic": APT never reads a part of the policy,
\* not even after the power failed at any moment.
NeverTorn == dest # "torn"

\* README.md 55-56, "no-replace": no step of an installer changes a file that
\* is there, whoever wrote it and whenever it came.
NothingReplaced ==
    [][edits' = edits /\ outages' = outages /\ dest # "absent"
        => dest' = dest]_vars

\* lib.rs 51: an installer says that the policy is configured only if it was
\* the trusted file there at some moment while the installer ran, or if, after
\* the installer looked whom to trust and before it read, an administrator put
\* a link or another's file there that gives the same text.
OkMeansInstalled == \A i \in Installer : pc[i] = "ok" => i \in met \cup swapped

\* linux_policy.rs 343-357: the policy an installer published and reported
\* outlives a loss of power; only the administrator can have taken it away.
PublishedIsDurable ==
    \A i \in linked : pc[i] = "ok" /\ edits = 0 => dest = "policy" /\ settled

=============================================================================
