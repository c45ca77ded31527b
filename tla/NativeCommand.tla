--------------------------- MODULE NativeCommand ---------------------------
(***************************************************************************)
(* What process::run promises its caller, without threads, pipes or a      *)
(* deadline: one command is started at most once, one answer is given at   *)
(* most once, nothing of the command runs when it is given, and Ok is only *)
(* said of a command that ended by itself with success.  A caller that is  *)
(* killed never hears an answer, and its command may go on.                *)
(***************************************************************************)
VARIABLES
    child,      \* "none", "running", "succeeded" or "failed" (or killed)
    answer      \* "none", "ok" or "error"

vars == <<child, answer>>

Init == child = "none" /\ answer = "none"

\* The command is launched ...
Launch ==
    /\ child = "none" /\ answer = "none"
    /\ child' = "running"
    /\ UNCHANGED answer

\* ... or it is not, and what there was of it is killed.
Refuse ==
    /\ child = "none" /\ answer = "none"
    /\ child' \in {"none", "failed"}
    /\ answer' = "error"

\* The command ends, or is killed.
End ==
    /\ child = "running"
    /\ child' \in {"succeeded", "failed"}
    /\ UNCHANGED answer

\* The caller hears of a command that is over.
Hear ==
    /\ child \in {"succeeded", "failed"} /\ answer = "none"
    /\ answer' \in {"ok", "error"}
    /\ answer' = "ok" => child = "succeeded"
    /\ UNCHANGED child

\* The command is stopped, and the caller is told so.
Stop ==
    /\ child = "running" /\ answer = "none"
    /\ child' = "failed"
    /\ answer' = "error"

Next == Launch \/ Refuse \/ End \/ Hear \/ Stop

Spec == Init /\ [][Next]_vars
=============================================================================
