------------------------------- MODULE Config -------------------------------
(***************************************************************************)
(* The policy file: config::load, which every invocation begins with, and  *)
(* `config --init`, which creates the file in place.  Invocations run at   *)
(* once and beside an administrator with an editor; file operations fail,  *)
(* invocations are killed, and the machine may lose power.                 *)
(***************************************************************************)
EXTENDS Naturals, FiniteSets

CONSTANTS
    Invocation,
    User,           \* the administrator, as the author of the file
    Nobody,         \* the author of no file
    MaxEdits,       \* bound: changes of the file by the administrator
    MaxCrashes,     \* bound: invocations killed
    MaxFaults,      \* bound: operations that fail or write short
    MaxOutages      \* bound: losses of power

ASSUME AuthorAssumption == User \notin Invocation /\ Nobody \notin Invocation \cup {User}
ASSUME BoundsAssumption ==
    MaxEdits \in Nat /\ MaxCrashes \in Nat /\ MaxFaults \in Nat /\ MaxOutages \in Nat

VARIABLES
    edits, crashes, faults, outages,    \* how much of each bound is used
    file,           \* config.toml
    author,         \* who created what is there
    synced,         \* its content is on the disk, not only in memory
    pc, init,       \* where each invocation is; it is `config --init`
    used,           \* the policy it goes on with
    \* History, read by the properties only.
    seen,           \* what the file was while the invocation loaded it
    swapped         \* those between whose two looks it became a link

bounds == <<edits, crashes, faults, outages>>
disk == <<file, author, synced>>
vars == <<bounds, disk, pc, init, used, seen, swapped>>

\* "default": DEFAULT_CONFIG, or what means the same: a prefix of it that ends
\* between two lines, an empty file; "clipped": a prefix that ends within a
\* number, which parses as another policy; "broken": not TOML or not a policy,
\* other prefixes included; "invalid": refused by validate; "custom": another
\* valid policy.  The rest is not a regular file of at most 256 KiB: "linked"
\* leads whoever opens it to another valid policy, "dangling" to nothing, or to
\* a text that means the defaults, "other" to nothing that can be loaded.
Link == {"linked", "dangling"}

Irregular == Link \cup {"other"}

Content == {"absent", "default", "clipped", "broken", "invalid", "custom"}
               \cup Irregular

Prefix == {"default", "clipped", "broken"}

Ended == {"ok", "error", "killed"}

Location == {"idle", "stat", "open", "create", "write", "sync", "undo"} \cup Ended

Live(i) == pc[i] \notin Ended \cup {"idle"}

Loading(i) == pc[i] \in {"stat", "open"}

Goto(i, l) == pc' = [pc EXCEPT ![i] = l]

\* Whoever loads while the file is f has seen f.
Show(f, who) == seen' = [i \in Invocation |-> seen[i] \cup IF i \in who THEN {f} ELSE {}]

Loaders == {i \in Invocation : Loading(i)}

-----------------------------------------------------------------------------
Init ==
    /\ edits = 0 /\ crashes = 0 /\ faults = 0 /\ outages = 0
    /\ file \in Content \ {"clipped"}
    /\ author = IF file = "absent" THEN Nobody ELSE User
    /\ synced = TRUE
    /\ pc = [i \in Invocation |-> "idle"]
    /\ init = [i \in Invocation |-> FALSE]
    /\ used = [i \in Invocation |-> "none"]
    /\ seen = [i \in Invocation |-> {}]
    /\ swapped = {}

-----------------------------------------------------------------------------
(* config::load.                                                           *)

Start(i) ==
    /\ pc[i] = "idle"
    /\ \E b \in BOOLEAN : init' = [init EXCEPT ![i] = b]
    /\ Goto(i, "stat")
    /\ Show(file, {i})
    /\ UNCHANGED <<bounds, disk, used, swapped>>

\* What an invocation does with its policy: `--init` goes on to create it.
GoOn(i, p) ==
    /\ used' = [used EXCEPT ![i] = p]
    /\ Goto(i, IF init[i] THEN "create" ELSE "ok")

\* symlink_metadata: only "not found" means the defaults.
Stat(i) ==
    /\ pc[i] = "stat"
    /\ CASE file = "absent" -> GoOn(i, "default")
         [] file \in Irregular -> Goto(i, "error") /\ UNCHANGED used
         [] OTHER -> Goto(i, "open") /\ UNCHANGED used
    /\ UNCHANGED <<bounds, disk, init, seen, swapped>>

\* The policy that what is opened stands for, if it stands for one.
Lenient ==                              \* mutant: unparsable means defaults
    [absent |-> "default", default |-> "default", clipped |-> "clipped",
     custom |-> "custom", linked |-> "custom", dangling |-> "default",
     broken |-> "default"]
Parsed ==
    [absent |-> "default", default |-> "default", clipped |-> "clipped",
     custom |-> "custom", linked |-> "custom", dangling |-> "default"]

\* The file is opened by name again, through a link if it is one by now, read,
\* parsed and validated; nothing there means the defaults here, too.
Open(i) ==
    /\ pc[i] = "open"
    /\ IF file \in DOMAIN Parsed
       THEN GoOn(i, Parsed[file])
       ELSE Goto(i, "error") /\ UNCHANGED used
    /\ UNCHANGED <<bounds, disk, init, seen, swapped>>

-----------------------------------------------------------------------------
(* write_new_private.                                                      *)

\* open with create_new.
Truncating == file # "other"            \* mutant: create and truncate
Vacant == file = "absent"

Create(i) ==
    /\ pc[i] = "create"
    /\ IF Vacant
       THEN /\ file' = "default"        \* empty
            /\ author' = i
            /\ synced' = FALSE
            /\ Goto(i, "write")
            /\ Show(file', Loaders)
       ELSE Goto(i, "error") /\ UNCHANGED <<disk, seen>>
    /\ UNCHANGED <<bounds, init, used, swapped>>

\* Its handle is of the file it created, wherever that is by now.
Fill(i, f) ==
    /\ file' = IF author = i THEN f ELSE file
    /\ Show(file', Loaders)
    /\ UNCHANGED author

Write(i) ==
    /\ pc[i] = "write"
    /\ Fill(i, "default")
    /\ synced' = IF author = i THEN FALSE ELSE synced
    /\ Goto(i, "sync")
    /\ UNCHANGED <<bounds, init, used, swapped>>

\* The disk is full: a part is written, and write_all tries again.
WriteShort(i) ==
    /\ pc[i] = "write"
    /\ faults < MaxFaults
    /\ faults' = faults + 1
    /\ \E f \in Prefix : Fill(i, f)
    /\ UNCHANGED <<edits, crashes, outages, synced, pc, init, used, swapped>>

\* sync_all.
NotSynced(i) == synced                  \* mutant: write_all only
Synced(i) == author = i \/ synced

Sync(i) ==
    /\ pc[i] = "sync"
    /\ synced' = Synced(i)
    /\ Goto(i, "ok")
    /\ UNCHANGED <<bounds, file, author, init, used, seen, swapped>>

\* A failed write or sync: what is at the path now is removed, unless it is
\* a directory.
Undo(i) ==
    /\ pc[i] = "undo"
    /\ \/ file' = "absent" /\ author' = Nobody /\ synced' = TRUE
       \/ file = "other" /\ UNCHANGED disk
    /\ Show(file', Loaders)
    /\ Goto(i, "error")
    /\ UNCHANGED <<bounds, init, used, swapped>>

Fault(i) ==
    /\ Live(i)
    /\ faults < MaxFaults
    /\ faults' = faults + 1
    /\ Goto(i, IF pc[i] \in {"write", "sync"} THEN "undo" ELSE "error")
    /\ UNCHANGED <<edits, crashes, outages, disk, init, used, seen, swapped>>

-----------------------------------------------------------------------------
(* The environment.                                                        *)

Crash(i) ==
    /\ Live(i)
    /\ crashes < MaxCrashes
    /\ crashes' = crashes + 1
    /\ Goto(i, "killed")
    /\ UNCHANGED <<edits, faults, outages, disk, init, used, seen, swapped>>

\* The administrator saves another file, or removes it.
Edit ==
    /\ edits < MaxEdits
    /\ edits' = edits + 1
    /\ file' \in Content \ {"clipped", file}
    /\ author' = IF file' = "absent" THEN Nobody ELSE User
    /\ synced' = TRUE
    /\ Show(file', Loaders)
    /\ swapped' = swapped \cup
           {i \in Invocation : pc[i] = "open" /\ file' \in Link}
    /\ UNCHANGED <<crashes, faults, outages, pc, init, used>>

\* The directory is never synced, so a new file may be gone; what of it was
\* not synced may be cut anywhere.
Outage ==
    /\ outages < MaxOutages
    /\ outages' = outages + 1
    /\ pc' = [i \in Invocation |-> IF Live(i) THEN "killed" ELSE pc[i]]
    /\ \/ UNCHANGED <<file, author>>
       \/ author \in Invocation /\ file' = "absent" /\ author' = Nobody
       \/ ~synced /\ file' \in Prefix /\ UNCHANGED author
    /\ synced' = TRUE
    /\ UNCHANGED <<edits, crashes, faults, init, used, seen, swapped>>

-----------------------------------------------------------------------------
Step(i) ==
    \/ Start(i) \/ Stat(i) \/ Open(i)
    \/ Create(i) \/ Write(i) \/ WriteShort(i) \/ Sync(i) \/ Undo(i)
    \/ Fault(i) \/ Crash(i)

AllEnded == (\A i \in Invocation : pc[i] \in Ended) /\ UNCHANGED vars

Next == (\E i \in Invocation : Step(i)) \/ Edit \/ Outage \/ AllEnded

Spec == Init /\ [][Next]_vars

-----------------------------------------------------------------------------
(* Properties.                                                             *)

\* Every variable has its type; only a file that is there has an author, and
\* two invocations never both hold the file that one of them created.
TypeOK ==
    /\ edits \in 0..MaxEdits /\ crashes \in 0..MaxCrashes
    /\ faults \in 0..MaxFaults /\ outages \in 0..MaxOutages
    /\ file \in Content
    /\ author \in Invocation \cup {User, Nobody}
    /\ synced \in BOOLEAN
    /\ pc \in [Invocation -> Location]
    /\ init \in [Invocation -> BOOLEAN]
    /\ used \in [Invocation -> {"none", "default", "clipped", "custom"}]
    /\ seen \in [Invocation -> SUBSET Content]
    /\ swapped \in SUBSET Invocation
    /\ file = "absent" <=> author = Nobody
    /\ edits + faults = 0 =>
        \A i \in Invocation : pc[i] \in {"write", "sync"} => author = i

\* README.md 205, "unknown/mistyped keys fail instead of silently activating
\* defaults": an invocation goes on with the policy that the file stood for
\* while it was loaded, with the defaults only if there was no file, or one
\* that says the same, and with what is left of a cut file only if writing it
\* failed or the power did.  The exception is a link that came after the look
\* at the file and before it was opened: that one is followed.
LoadIsHonest ==
    \A i \in Invocation :
        /\ used[i] = "default" =>
            \/ seen[i] \cap {"absent", "default"} # {}
            \/ i \in swapped /\ "dangling" \in seen[i]
        /\ used[i] = "custom" =>
            \/ "custom" \in seen[i]
            \/ i \in swapped /\ "linked" \in seen[i]
        /\ used[i] = "clipped" => "clipped" \in seen[i] /\ faults + outages > 0

\* report.rs 178, write_all and sync_all: the file of an init that reported
\* success is complete until somebody else changes it, even if power failed.
InitIsWhole ==
    \A i \in Invocation : pc[i] = "ok" /\ author = i => file = "default"

\* cli.rs 58, "refuses to overwrite": as long as nothing fails, the file that
\* somebody else created is left as it is.  (A failed write or sync is undone
\* by path, whoever's file is there by then.)
NothingOverwritten ==
    [][edits' = edits /\ outages' = outages /\ faults = 0 /\ file # "absent"
        => author' = author /\ (author = User => file' = file)]_vars

=============================================================================
