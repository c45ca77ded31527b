----------------------------- MODULE GcContract -----------------------------
(***************************************************************************)
(* What the cleaner promises about native GC, without how it decides: an   *)
(* evaluation either commits, once, to one directory that its policy       *)
(* allows, or it declines; a preview never commits; the verdict of an      *)
(* evaluation that committed is that of the prune.                         *)
(***************************************************************************)
CONSTANTS
    Evaluation,     \* passes through homecache::evaluate
    Dir,            \* canonical directories
    NoDir           \* none of them

VARIABLES
    allowed,        \* the directories the policy allows and that are due
    stage,          \* "new", "deciding", "gc" or "over"
    preview,        \* the evaluation is a preview
    committed,      \* the directory the prune was started on
    verdict         \* what the report says

vars == <<allowed, stage, preview, committed, verdict>>

Declined == {"kept", "failed", "would-prune"}

Verdict == {"none", "pruned"} \cup Declined

-----------------------------------------------------------------------------
Init ==
    /\ allowed \in SUBSET Dir
    /\ stage = [e \in Evaluation |-> "new"]
    /\ preview = [e \in Evaluation |-> FALSE]
    /\ committed = [e \in Evaluation |-> NoDir]
    /\ verdict = [e \in Evaluation |-> "none"]

Begin(e) ==
    /\ stage[e] = "new"
    /\ stage' = [stage EXCEPT ![e] = "deciding"]
    /\ \E p \in BOOLEAN : preview' = [preview EXCEPT ![e] = p]
    /\ UNCHANGED <<allowed, committed, verdict>>

\* No prune; only a preview may say that there would have been one.
Decline(e) ==
    /\ stage[e] = "deciding"
    /\ stage' = [stage EXCEPT ![e] = "over"]
    /\ \E v \in Declined :
        /\ v = "would-prune" => preview[e] /\ allowed # {}
        /\ verdict' = [verdict EXCEPT ![e] = v]
    /\ UNCHANGED <<allowed, preview, committed>>

Commit(e) ==
    /\ stage[e] = "deciding"
    /\ ~preview[e]
    /\ stage' = [stage EXCEPT ![e] = "gc"]
    /\ \E d \in allowed : committed' = [committed EXCEPT ![e] = d]
    /\ UNCHANGED <<allowed, preview, verdict>>

Conclude(e) ==
    /\ stage[e] = "gc"
    /\ stage' = [stage EXCEPT ![e] = "over"]
    /\ \E v \in {"pruned", "failed"} : verdict' = [verdict EXCEPT ![e] = v]
    /\ UNCHANGED <<allowed, preview, committed>>

Next ==
    \E e \in Evaluation :
        Begin(e) \/ Decline(e) \/ Commit(e) \/ Conclude(e)

Spec == Init /\ [][Next]_vars
=============================================================================
