---------------------------- MODULE Maintenance ----------------------------
(***************************************************************************)
(* What the invocations of one user amount to, without lock, staging files *)
(* or program counters: turns, one after the other.  A turn reads what is  *)
(* recorded, prunes at most one cache and only one that is due, records    *)
(* the prune it saw complete, tells what it did and ends well; or it stops *)
(* at any point and leaves what is there.  A prune may outlive the turn    *)
(* that started it.                                                        *)
(***************************************************************************)
EXTENDS Naturals

CONSTANTS
    Run,            \* the invocations
    Cache,          \* what may be pruned
    NoRun,          \* nobody's turn
    NoCache,        \* nothing is being pruned
    Interval        \* between two prunes of a cache

VARIABLES
    now,            \* the wall clock
    turn,           \* whose turn it is
    stage,          \* how far the turn has come
    cache,          \* what the turn is pruning
    memory,         \* the record as the turn read it, or is to make it
    record,         \* the last prune recorded: at most one
    told,           \* the last report: at most one
    started,        \* the invocations whose prune was started,
    finished,       \* and whose prune completed
    ok              \* the invocations that ended well

vars == <<now, turn, stage, cache, memory, record, told, started, finished, ok>>

-----------------------------------------------------------------------------
Init ==
    /\ now = 0
    /\ turn = NoRun
    /\ stage = "idle"
    /\ cache = NoCache
    /\ memory = {}
    /\ record = {}
    /\ told = {}
    /\ started = {}
    /\ finished = {}
    /\ ok = {}

\* Never while it is another's turn.
Begin(r) ==
    /\ turn = NoRun
    /\ turn' = r
    /\ stage' = "deciding"
    /\ memory' = record
    /\ UNCHANGED <<now, cache, record, told, started, finished, ok>>

Due(c) ==
    \A e \in memory : e.cache = c => now >= e.at /\ now - e.at >= Interval

Prune(c) ==
    /\ stage = "deciding"
    /\ turn \notin started
    /\ Due(c)
    /\ stage' = "pruning"
    /\ cache' = c
    /\ started' = started \cup {turn}
    /\ UNCHANGED <<now, turn, memory, record, told, finished, ok>>

\* A prune completes, in its turn or after it.
Finish(r) ==
    /\ r \in started \ finished
    /\ finished' = finished \cup {r}
    /\ UNCHANGED <<now, turn, stage, cache, memory, record, told, started, ok>>

Succeed ==
    /\ stage = "pruning"
    /\ turn \in finished
    /\ stage' = "pruned"
    /\ memory' = {[cache |-> cache, at |-> now, by |-> turn]}
    /\ cache' = NoCache
    /\ UNCHANGED <<now, turn, record, told, started, finished, ok>>

\* There is no prune in this turn, or none that it knows to have completed.
Miss ==
    /\ stage \in {"deciding", "pruning"}
    /\ stage' = "unpruned"
    /\ cache' = NoCache
    /\ UNCHANGED <<now, turn, memory, record, told, started, finished, ok>>

Record ==
    /\ stage = "pruned"
    /\ stage' = "recorded"
    /\ record' = memory
    /\ UNCHANGED <<now, turn, cache, memory, told, started, finished, ok>>

\* A prune is told of only once it is recorded.
Tell ==
    /\ stage \in {"unpruned", "recorded"}
    /\ stage' = "told"
    /\ told' = {[by |-> turn, pruned |-> stage = "recorded"]}
    /\ UNCHANGED <<now, turn, cache, memory, record, started, finished, ok>>

Leave ==
    /\ turn' = NoRun
    /\ stage' = "idle"
    /\ cache' = NoCache
    /\ memory' = {}
    /\ UNCHANGED <<now, record, told, started, finished>>

\* Only a turn that has told ends well.
End ==
    /\ stage = "told"
    /\ ok' = ok \cup {turn}
    /\ Leave

Stop ==
    /\ turn # NoRun
    /\ Leave
    /\ UNCHANGED ok

\* Somebody else removes the record or the report.
Tamper ==
    /\ \/ record' = {} /\ UNCHANGED told
       \/ told' = {} /\ UNCHANGED record
    /\ UNCHANGED <<now, turn, stage, cache, memory, started, finished, ok>>

\* Forwards, or backwards.
PassTime ==
    /\ now' \in Nat
    /\ UNCHANGED <<turn, stage, cache, memory, record, told, started, finished,
                   ok>>

Next ==
    \/ \E r \in Run : Begin(r) \/ Finish(r)
    \/ \E c \in Cache : Prune(c)
    \/ Succeed \/ Miss \/ Record \/ Tell \/ End \/ Stop
    \/ Tamper \/ PassTime

Spec == Init /\ [][Next]_vars

-----------------------------------------------------------------------------
\* Nothing is recorded, and no prune is told of, that did not complete.
Honest ==
    /\ \A e \in record : e.by \in finished
    /\ \A t \in told : t.pruned => t.by \in finished

\* What it takes for that.
HonestInv ==
    /\ Honest
    /\ \A e \in memory : e.by \in finished
    /\ stage \in {"pruned", "recorded"} => turn \in finished
=============================================================================
