----------------------------- MODULE ProcessRun -----------------------------
(***************************************************************************)
(* process::run: one native command, its two reader threads, the processes *)
(* it forks, the pipes they share and the one deadline over all of it.     *)
(* The main thread polls the leader, terminates the tree, reaps the leader *)
(* and joins the readers; a reader drains one stream and keeps a prefix.   *)
(*                                                                         *)
(* On POSIX the tree is a process group: a descendant may leave it, and    *)
(* its number is free for somebody else once the leader is reaped and the  *)
(* group is empty.  On Windows it is a job object: neither can happen, but *)
(* the command has to be put into it before its first thread runs.         *)
(***************************************************************************)
EXTENDS Naturals, FiniteSets

CONSTANTS
    Descendant,     \* processes the command may fork
    Leader,         \* the command itself
    Trees,          \* the kinds of process tree: "group", "job" or both
    Limit,          \* OUTPUT_LIMIT: how much of a stream is kept
    Chunk,          \* how much one read may return
    PipeCapacity,   \* how much a pipe holds
    MaxWritten      \* bound: how much the command ever writes

ASSUME LeaderAssumption == Leader \notin Descendant
ASSUME TreesAssumption  == Trees \subseteq {"group", "job"}
ASSUME SizeAssumption   ==
    /\ Limit \in Nat \ {0}
    /\ Chunk \in Nat \ {0}
    /\ PipeCapacity \in Nat \ {0}
    /\ MaxWritten \in Nat

Stream  == {"out", "err"}
Process == Descendant \cup {Leader}

VARIABLES
    \* The main thread and its readers.
    main,           \* where the main thread is
    status,         \* what ended the wait
    cancelled,      \* the flag the readers poll
    expired,        \* the deadline has passed
    reader,         \* where each reader is
    kept,           \* how much of each stream its reader has kept
    truncated,      \* whether it dropped some
    outcome,        \* what run returned
    \* The processes.
    proc,           \* the state of each process
    member,         \* the living processes that belong to the owned tree
    exitCode,       \* how the leader ended
    holds,          \* the living processes that hold each stream's write end
    tree,           \* the kind of tree this platform has
    armed,          \* ProcessTree still names the tree (its group is not 0)
    stranger,       \* a foreign process group under the group's number
    \* The pipes.
    pipe,           \* what each pipe holds
    written         \* history: what was ever written to each stream

threads   == <<main, status, cancelled, reader, kept, truncated, outcome>>
processes == <<proc, member, exitCode, holds, tree, armed, stranger>>
pipes     == <<pipe, written>>

vars == <<threads, expired, processes, pipes>>

-----------------------------------------------------------------------------
MainAt == {"spawn", "adopt", "startOut", "startErr", "poll", "polled", "terminate",
           "cancel", "reap", "joinOut", "joinErr", "drop",
           "returned"}

\* A wait is ended by the leader's exit, the deadline or an error of try_wait,
\* or it never starts because a thread could not be created.
Status == {"none", "exited", "timeout", "failed", "noOut", "noErr"}

\* A reader is between two reads ("check"), reading, or over.
ReaderOver == {"eof", "failed"}
ReaderAt   == {"unstarted", "check", "read"} \cup ReaderOver

Alive(p) == proc[p] = "running"

\* Closing the last write end of a stream is its end of file.
AtEof(s) == pipe[s] = 0 /\ holds[s] = {}

Smaller(a, b) == IF a < b THEN a ELSE b

\* What of n more units a reader that has kept k still keeps.
RoomUnchecked(k, n) == n        \* mutant: no saturating_sub, keeps all
Room(k, n) == Smaller(n, Limit - k)

\* SIGKILL to the group, or TerminateJobObject: every living member dies.
OnlyTheLeader == {Leader}       \* mutant: child.kill instead of the group
Reached == member

\* The dead hold no stream and leave the tree.
Bury(dead) ==
    /\ member' = member \ dead
    /\ holds' = [s \in Stream |-> holds[s] \ dead]

Kill(targets) ==
    /\ proc' = [p \in Process |->
                  IF p \in targets /\ Alive(p)
                  THEN IF p = Leader THEN "zombie" ELSE "gone"
                  ELSE proc[p]]
    /\ exitCode' = IF Leader \in targets /\ Alive(Leader)
                   THEN "killed" ELSE exitCode
    /\ Bury(targets)

\* ProcessTree::terminate, by the main thread and again by Drop.  On POSIX
\* kill(-group) reaches whoever has that number now, so it is sent only once;
\* TerminateJobObject may be repeated.
StaysArmed == TRUE              \* mutant: self.group = 0 is forgotten
Disarmed == tree = "job"

TerminateTree ==
    IF armed
    THEN /\ Kill(Reached)
         /\ stranger' = IF stranger = "alive" THEN "killed" ELSE stranger
         /\ armed' = Disarmed
    ELSE UNCHANGED <<proc, exitCode, member, holds, stranger, armed>>

Init ==
    /\ main = "spawn"
    /\ status = "none"
    /\ cancelled = FALSE
    /\ expired = FALSE
    /\ reader = [s \in Stream |-> "unstarted"]
    /\ kept = [s \in Stream |-> 0]
    /\ truncated = [s \in Stream |-> FALSE]
    /\ outcome = "none"
    /\ proc = [p \in Process |-> "unborn"]
    /\ member = {}
    /\ exitCode = "none"
    /\ holds = [s \in Stream |-> {}]
    /\ tree \in Trees
    /\ armed = FALSE
    /\ stranger = "none"
    /\ pipe = [s \in Stream |-> 0]
    /\ written = [s \in Stream |-> 0]

-----------------------------------------------------------------------------
(* The main thread.                                                        *)

\* ProcessTree::spawn: in a group the command starts as the only member, for
\* a job it is created suspended.  If it cannot be launched nothing is left.
RunningAtOnce == "running"      \* mutant: no CREATE_SUSPENDED
Suspended == "suspended"

Spawn ==
    /\ main = "spawn"
    /\ \/ /\ holds' = [s \in Stream |-> {Leader}]
          /\ armed' = TRUE
          /\ \/ /\ tree = "group"
                /\ proc' = [proc EXCEPT ![Leader] = "running"]
                /\ member' = {Leader}
                /\ main' = "startOut"
             \/ /\ tree = "job"
                /\ proc' = [proc EXCEPT ![Leader] = Suspended]
                /\ main' = "adopt"
                /\ UNCHANGED member
          /\ UNCHANGED outcome
       \/ /\ main' = "returned"
          /\ outcome' = "error"
          /\ UNCHANGED <<proc, member, holds, armed>>
    /\ UNCHANGED <<status, cancelled, expired, reader, kept, truncated,
                   exitCode, tree, stranger, pipes>>

\* assign_and_resume: the command joins the job and only then runs.  If either
\* fails it is killed and reaped although it may not be in the job.
Adopt ==
    /\ main = "adopt"
    /\ \/ /\ member' = {Leader}
          /\ proc' = [proc EXCEPT ![Leader] = "running"]
          /\ main' = "startOut"
          /\ UNCHANGED <<outcome, exitCode, holds>>
       \/ /\ proc' = [proc EXCEPT ![Leader] = "gone"]
          /\ exitCode' = "killed"
          /\ Bury({Leader})
          /\ main' = "returned"
          /\ outcome' = "error"
    /\ UNCHANGED <<status, cancelled, expired, reader, kept, truncated, tree,
                   armed, stranger, pipes>>

StartOut ==
    /\ main = "startOut"
    /\ \/ /\ reader' = [reader EXCEPT !["out"] = "check"]
          /\ main' = "startErr"
          /\ UNCHANGED status
       \/ /\ status' = "noOut"
          /\ main' = "terminate"
          /\ UNCHANGED reader
    /\ UNCHANGED <<cancelled, expired, kept, truncated, outcome, processes,
                   pipes>>

\* If the second thread cannot start, the first is cancelled at once.
StartErr ==
    /\ main = "startErr"
    /\ \/ /\ reader' = [reader EXCEPT !["err"] = "check"]
          /\ main' = "poll"
          /\ UNCHANGED <<status, cancelled>>
       \/ /\ status' = "noErr"
          /\ cancelled' = TRUE
          /\ main' = "terminate"
          /\ UNCHANGED reader
    /\ UNCHANGED <<expired, kept, truncated, outcome, processes, pipes>>

\* child.try_wait: an exited leader is reaped.
PollExited ==
    /\ main = "poll"
    /\ proc[Leader] = "zombie"
    /\ proc' = [proc EXCEPT ![Leader] = "gone"]
    /\ status' = "exited"
    /\ main' = "terminate"
    /\ UNCHANGED <<cancelled, expired, reader, kept, truncated, outcome,
                   member, exitCode, holds, tree, armed, stranger, pipes>>

PollRunning ==
    /\ main = "poll"
    /\ proc[Leader] = "running"
    /\ main' = "polled"
    /\ UNCHANGED <<status, cancelled, expired, reader, kept, truncated,
                   outcome, processes, pipes>>

\* The answer "still running" is compared with the deadline afterwards.
PollAgain ==
    /\ main = "polled"
    /\ ~expired
    /\ main' = "poll"
    /\ UNCHANGED <<status, cancelled, expired, reader, kept, truncated,
                   outcome, processes, pipes>>

PollTimeout ==
    /\ main = "polled"
    /\ expired
    /\ status' = "timeout"
    /\ main' = "terminate"
    /\ UNCHANGED <<cancelled, expired, reader, kept, truncated, outcome,
                   processes, pipes>>

\* try_wait itself fails, whatever has become of the leader.
PollFailed ==
    /\ main = "poll"
    /\ status' = "failed"
    /\ main' = "terminate"
    /\ UNCHANGED <<cancelled, expired, reader, kept, truncated, outcome,
                   processes, pipes>>

\* tree.terminate: the leader may have been reaped by the poll before.
Terminate ==
    /\ main = "terminate"
    /\ TerminateTree
    /\ main' = "cancel"
    /\ UNCHANGED <<status, cancelled, expired, reader, kept, truncated,
                   outcome, tree, pipes>>

\* An abnormal end cancels the readers and kills the leader once more.
Cancel ==
    /\ main = "cancel"
    /\ cancelled' = (cancelled \/ status \in {"timeout", "failed"})
    /\ IF status = "exited"
       THEN UNCHANGED <<proc, exitCode, member, holds>>
       ELSE Kill({Leader})
    /\ main' = "reap"
    /\ UNCHANGED <<status, expired, reader, kept, truncated, outcome, tree,
                   armed, stranger, pipes>>

\* child.wait; a run without readers has nothing to join.
Reap ==
    /\ main = "reap"
    /\ proc[Leader] # "running"
    /\ proc' = [proc EXCEPT ![Leader] = "gone"]
    /\ main' = IF status = "noOut" THEN "drop" ELSE "joinOut"
    /\ UNCHANGED <<status, cancelled, expired, reader, kept, truncated,
                   outcome, member, exitCode, holds, tree, armed, stranger,
                   pipes>>

\* A run with one reader has one join to make.  (A reader that panics, which
\* nothing in drain does, would end run here.)
OutFailedOrOnly == status = "noErr" \/ reader["out"] = "failed" \* mutant: `out?` here
OutIsOnly == status = "noErr"

JoinOut ==
    /\ main = "joinOut"
    /\ reader["out"] \in ReaderOver
    /\ main' = IF OutIsOnly THEN "drop" ELSE "joinErr"
    /\ UNCHANGED <<status, cancelled, expired, reader, kept, truncated,
                   outcome, processes, pipes>>

JoinErr ==
    /\ main = "joinErr"
    /\ reader["err"] \in ReaderOver
    /\ main' = "drop"
    /\ UNCHANGED <<status, cancelled, expired, reader, kept, truncated,
                   outcome, processes, pipes>>

\* Ok needs all three: an exit seen in time, both streams read to their end,
\* and a successful status.
StatusOnly == status = "exited" /\ exitCode = "success"   \* mutant: no `out?`
AnyStatus ==                    \* mutant: status.success() is not asked
    status = "exited" /\ \A s \in Stream : reader[s] = "eof"
Succeeded ==
    /\ status = "exited"
    /\ \A s \in Stream : reader[s] = "eof"
    /\ exitCode = "success"

\* The result is made and Drop of the tree comes last.
Return ==
    /\ main = "drop"
    /\ TerminateTree
    /\ main' = "returned"
    /\ outcome' = IF Succeeded THEN "ok" ELSE "error"
    /\ UNCHANGED <<status, cancelled, expired, reader, kept, truncated, tree,
                   pipes>>

Main ==
    \/ Spawn \/ Adopt \/ StartOut \/ StartErr
    \/ PollExited \/ PollRunning \/ PollAgain \/ PollTimeout
    \/ PollFailed
    \/ Terminate \/ Cancel \/ Reap
    \/ JoinOut \/ JoinErr \/ Return

-----------------------------------------------------------------------------
(* A reader thread: drain.                                                 *)

CancelOnly == cancelled            \* mutant: the deadline is main's alone
StopsReading == cancelled \/ expired

\* The top of the loop.  A thread whose pipe cannot be prepared fails here
\* as well.
Check(s) ==
    /\ reader[s] = "check"
    /\ reader' = [reader EXCEPT ![s] = IF StopsReading THEN "failed" ELSE "read"]
    /\ UNCHANGED <<main, status, cancelled, expired, kept, truncated, outcome,
                   processes, pipes>>

\* A non-blocking read: data, of which what exceeds the limit is dropped and
\* remembered; the end of the stream; nothing yet; or an error.
HasDataAndRoom(s) == pipe[s] > 0 /\ kept[s] < Limit  \* mutant: stops when full
HasData(s) == pipe[s] > 0

ReadData(s) ==
    /\ reader[s] = "read"
    /\ HasData(s)
    /\ \E n \in 1..Smaller(Chunk, pipe[s]) :
        /\ pipe' = [pipe EXCEPT ![s] = @ - n]
        /\ kept' = [kept EXCEPT ![s] = @ + Room(kept[s], n)]
        /\ truncated' = [truncated EXCEPT ![s] = @ \/ Room(kept[s], n) < n]
    /\ reader' = [reader EXCEPT ![s] = "check"]
    /\ UNCHANGED <<main, status, cancelled, expired, outcome, processes,
                   written>>

ReadEof(s) ==
    /\ reader[s] = "read"
    /\ AtEof(s)
    /\ reader' = [reader EXCEPT ![s] = "eof"]
    /\ UNCHANGED <<main, status, cancelled, expired, kept, truncated, outcome,
                   processes, pipes>>

ReadNothing(s) ==
    /\ reader[s] = "read"
    /\ pipe[s] = 0 /\ ~AtEof(s)
    /\ reader' = [reader EXCEPT ![s] = "check"]
    /\ UNCHANGED <<main, status, cancelled, expired, kept, truncated, outcome,
                   processes, pipes>>

ReadError(s) ==
    /\ reader[s] \in {"check", "read"}
    /\ reader' = [reader EXCEPT ![s] = "failed"]
    /\ UNCHANGED <<main, status, cancelled, expired, kept, truncated, outcome,
                   processes, pipes>>

Reader(s) == Check(s) \/ ReadData(s) \/ ReadEof(s) \/ ReadNothing(s)

-----------------------------------------------------------------------------
(* The processes of the command (external).                                *)

Write(p, s) ==
    /\ Alive(p)
    /\ p \in holds[s]
    /\ pipe[s] < PipeCapacity
    /\ written["out"] + written["err"] < MaxWritten
    /\ pipe' = [pipe EXCEPT ![s] = @ + 1]
    /\ written' = [written EXCEPT ![s] = @ + 1]
    /\ UNCHANGED <<threads, expired, processes>>

\* A child inherits the tree and the streams of its parent.
Fork(p, d) ==
    /\ Alive(p)
    /\ proc[d] = "unborn"
    /\ proc' = [proc EXCEPT ![d] = "running"]
    /\ member' = IF p \in member THEN member \cup {d} ELSE member
    /\ holds' = [s \in Stream |->
                    IF p \in holds[s] THEN holds[s] \cup {d} ELSE holds[s]]
    /\ UNCHANGED <<threads, expired, exitCode, tree, armed, stranger, pipes>>

\* setsid or setpgid: a group can be left, a job object cannot.
Leave(d) ==
    /\ tree = "group"
    /\ Alive(d)
    /\ d \in member
    /\ member' = member \ {d}
    /\ UNCHANGED <<threads, expired, proc, exitCode, holds, tree, armed,
                   stranger, pipes>>

CloseStream(p, s) ==
    /\ Alive(p)
    /\ p \in holds[s]
    /\ holds' = [holds EXCEPT ![s] = @ \ {p}]
    /\ UNCHANGED <<threads, expired, proc, member, exitCode, tree, armed,
                   stranger, pipes>>

LeaderExits ==
    /\ Alive(Leader)
    /\ proc' = [proc EXCEPT ![Leader] = "zombie"]
    /\ exitCode' \in {"success", "failure"}
    /\ Bury({Leader})
    /\ UNCHANGED <<threads, expired, tree, armed, stranger, pipes>>

DescendantExits(d) ==
    /\ Alive(d)
    /\ proc' = [proc EXCEPT ![d] = "gone"]
    /\ Bury({d})
    /\ UNCHANGED <<threads, expired, exitCode, tree, armed, stranger, pipes>>

\* The model ends when run returns: what is left then runs on unseen.
Command ==
    /\ main # "returned"
    /\ \/ \E p \in Process, s \in Stream : Write(p, s) \/ CloseStream(p, s)
       \/ \E p \in Process, d \in Descendant : Fork(p, d)
       \/ \E d \in Descendant : Leave(d) \/ DescendantExits(d)
       \/ LeaderExits

-----------------------------------------------------------------------------
(* The rest of the world.                                                  *)

Expire ==
    /\ ~expired
    /\ main \notin {"spawn", "returned"}
    /\ expired' = TRUE
    /\ UNCHANGED <<threads, processes, pipes>>

\* The number of an empty group whose leader is reaped is free again.
Recycle ==
    /\ main # "returned"
    /\ tree = "group"
    /\ stranger = "none"
    /\ proc[Leader] = "gone"
    /\ member = {}
    /\ stranger' = "alive"
    /\ UNCHANGED <<threads, expired, proc, member, exitCode, holds, tree, armed,
                   pipes>>

Returned == main = "returned" /\ UNCHANGED vars

Next ==
    \/ Main
    \/ \E s \in Stream : Reader(s) \/ ReadError(s)
    \/ Command
    \/ Expire \/ Recycle
    \/ Returned

Spec == Init /\ [][Next]_vars

\* The scheduler runs the three threads.  Nothing is assumed of the command,
\* and nothing of the deadline: RunReturns says itself that time passes.
FairSpec == Spec /\ WF_vars(Main) /\ \A s \in Stream : WF_vars(Reader(s))

-----------------------------------------------------------------------------
(* Properties.                                                             *)

TypeOK ==
    /\ main \in MainAt
    /\ status \in Status
    /\ cancelled \in BOOLEAN
    /\ expired \in BOOLEAN
    /\ reader \in [Stream -> ReaderAt]
    /\ kept \in [Stream -> 0..Limit]
    /\ truncated \in [Stream -> BOOLEAN]
    /\ outcome \in {"none", "ok", "error"}
    /\ proc \in [Process -> {"unborn", "suspended", "running", "zombie", "gone"}]
    /\ member \in SUBSET Process
    /\ exitCode \in {"none", "success", "failure", "killed"}
    /\ holds \in [Stream -> SUBSET Process]
    /\ tree \in {"group", "job"}
    /\ armed \in BOOLEAN
    /\ stranger \in {"none", "alive", "killed"}
    /\ pipe \in [Stream -> 0..PipeCapacity]
    /\ written \in [Stream -> 0..MaxWritten]

\* process.rs 101: whatever way run returns, no member of the tree it started
\* is alive and the command is no zombie.
TreeIsGone ==
    main = "returned" =>
        /\ member = {}
        /\ proc[Leader] \in {"unborn", "gone"}

\* os/windows.rs 149-152: a job object is not left by anybody, and nobody can
\* be started before the command is in it: nothing at all survives run.
NothingEscapesJob ==
    main = "returned" /\ tree = "job" => \A p \in Process : ~Alive(p)

\* os/unix.rs 78-82: the group's number is signalled once, and before the
\* leader is reaped, unless the poll has reaped it.  So a foreign group that was
\* given the number is hit only after the command ended by itself, never when
\* it was stopped.
StrangersSpared == stranger = "killed" => status = "exited"

\* process.rs 107-112: and no reader thread is left behind, on any of the
\* paths that return.
ReadersAreJoined ==
    main = "returned" => \A s \in Stream : reader[s] \in {"unstarted"} \cup ReaderOver

\* process.rs: Ok is only returned for a command that ended by itself with
\* status 0, and then each stream is there in full, or cut at the limit and
\* marked as cut.
OkIsComplete ==
    outcome = "ok" =>
        /\ exitCode = "success"
        /\ \A s \in Stream :
            /\ kept[s] = Smaller(Limit, written[s])
            /\ truncated[s] <=> written[s] > Limit

\* What the caller of run sees of it.
ChildState ==
    CASE proc[Leader] \in {"unborn", "suspended"} -> "none"
      [] proc[Leader] = "running"                 -> "running"
      [] proc[Leader] \in {"zombie", "gone"}      ->
            IF exitCode = "success" THEN "succeeded" ELSE "failed"

Native == INSTANCE NativeCommand WITH child <- ChildState, answer <- outcome

\* All of the threads, pipes and kills together do what NativeCommand says.
KeepsCommand == Native!Spec

\* README.md 82: "descendant processes cannot hold the output streams open
\* indefinitely": a started command is over for the cleaner at some time,
\* whatever it and its descendants do, once time passes.
RunReturns == WF_vars(Expire) => (main # "spawn" ~> main = "returned")

\* README.md 89, "Output is drained continuously": what is written is taken
\* from the pipe, deadline or not, so that a command that writes much is not
\* stuck because nobody reads.
OutputIsDrained ==
    \A s \in Stream : pipe[s] > 0 /\ reader[s] # "unstarted"
        ~> pipe[s] = 0 \/ reader[s] = "failed"

=============================================================================
