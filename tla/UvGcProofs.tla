---------------------------- MODULE UvGcProofs ----------------------------
(***************************************************************************)
(* What UvGc guarantees for any number of evaluations, directories,        *)
(* changes of the world and failing probes; first of all that it           *)
(* implements GcContract.                                                  *)
(***************************************************************************)
EXTENDS UvGc, TLAPS

\* An evaluation has an answer when it is over; a directory is given to uv by
\* the prune only; once resolved, the directory is not an excluded one.
DecisionInv ==
    \A e \in Evaluation :
        /\ result[e] = "none" <=> pc[e] # "over"
        /\ gc[e] # NoDir => pc[e] \in {"gc", "over"}
        /\ pc[e] \in {"marker", "due"} => target[e] \notin excluded

TypeInv == TypeOK /\ DecisionInv

LEMMA TypeInit == Init => TypeInv
    BY BoundsAssumption, NoDirAssumption
       DEF Init, TypeInv, TypeOK, DecisionInv, Question, Action

\* One step per question.
LEMMA TypeNext == TypeInv /\ [Next]_vars => TypeInv'
<1> SUFFICES ASSUME TypeInv, [Next]_vars PROVE TypeInv'
    OBVIOUS
<1>. USE BoundsAssumption, NoDirAssumption
<1>. USE DEF TypeInv, TypeOK, DecisionInv, Question, Action, Goto, Answer,
         OnlyAnswers, fixed, world, memory, PolicyVerdict
<1>1. ASSUME NEW e \in Evaluation, Start(e) PROVE TypeInv'
    BY <1>1 DEF Start
<1>2. ASSUME NEW e \in Evaluation, AskPolicy(e) PROVE TypeInv'
    BY <1>2 DEF AskPolicy
<1>3. ASSUME NEW e \in Evaluation, FindUv(e) PROVE TypeInv'
    BY <1>3 DEF FindUv
<1>4. ASSUME NEW e \in Evaluation, AskVersion(e) PROVE TypeInv'
    BY <1>4 DEF AskVersion, Supported
<1>5. ASSUME NEW e \in Evaluation, AskDir(e) PROVE TypeInv'
    BY <1>5 DEF AskDir, OnePath
<1>6. ASSUME NEW e \in Evaluation, Stat(e) PROVE TypeInv'
    BY <1>6 DEF Stat
<1>7. ASSUME NEW e \in Evaluation, CheckPlain(e) PROVE TypeInv'
    BY <1>7 DEF CheckPlain, Unredirected
<1>8. ASSUME NEW e \in Evaluation, Resolve(e) PROVE TypeInv'
    BY <1>8 DEF Resolve, Resolved, Permitted
<1>9. ASSUME NEW e \in Evaluation, ReadMarker(e) PROVE TypeInv'
    BY <1>9 DEF ReadMarker, Marked
<1>10. ASSUME NEW e \in Evaluation, Defer(e) PROVE TypeInv'
    BY <1>10 DEF Defer, Due
<1>11. ASSUME NEW e \in Evaluation, Foresee(e) PROVE TypeInv'
    BY <1>11 DEF Foresee, Due
<1>12. ASSUME NEW e \in Evaluation, Prune(e) PROVE TypeInv'
    BY <1>12 DEF Prune, Due, Pinned
<1>13. ASSUME NEW e \in Evaluation, Finish(e) PROVE TypeInv'
    BY <1>13 DEF Finish
<1>14. ASSUME NEW e \in Evaluation, Fluke(e) PROVE TypeInv'
    BY <1>14 DEF Fluke
<1>15. ASSUME Change PROVE TypeInv'
    BY <1>15 DEF Change
<1>16. ASSUME UNCHANGED vars PROVE TypeInv'
    BY <1>16 DEF vars
<1>. QED
    BY <1>1, <1>2, <1>3, <1>4, <1>5, <1>6, <1>7, <1>8, <1>9, <1>10, <1>11,
       <1>12, <1>13, <1>14, <1>15, <1>16 DEF Next, Step, AllOver

\* What has been answered still holds as long as the world has not changed.
Asked(e, questions) == pc[e] \in questions

QuietInv ==
    \A e \in Evaluation :
        /\ since[e] <= changes
        /\ since[e] = changes =>
            /\ Asked(e, Question \ {"policy"}) => policy = "on"
            /\ Asked(e, Question \ {"policy", "find"}) => uv # "none"
            /\ Asked(e, Question \ {"policy", "find", "version"}) => uv = "audited"
            /\ Asked(e, {"stat", "plain", "resolve", "marker", "due"})
                => target[e] = named
            /\ Asked(e, {"resolve", "marker", "due"}) => place[target[e]] # "link"
            /\ Asked(e, {"due"}) => place[target[e]] = "marked"

LEMMA QuietInit == Init => QuietInv
<1> SUFFICES ASSUME Init, NEW e \in Evaluation
             PROVE  since[e] = changes /\ changes = 0 /\ pc[e] = "new"
  <2>1. 0 <= 0
      OBVIOUS
  <2>. QED
      BY <2>1, Zenon DEF QuietInv, Asked, Question
<1>. QED
    BY DEF Init

LEMMA QuietNext == TypeInv /\ QuietInv /\ [Next]_vars => QuietInv'
<1> SUFFICES ASSUME TypeInv, QuietInv, [Next]_vars PROVE QuietInv'
    OBVIOUS
<1>. USE BoundsAssumption, NoDirAssumption
<1>. USE DEF TypeInv, TypeOK, QuietInv, Asked, Question, Goto, Answer,
         OnlyAnswers, fixed, world, memory
<1>1. ASSUME NEW e \in Evaluation, Start(e) PROVE QuietInv'
    BY <1>1 DEF Start
<1>2. ASSUME NEW e \in Evaluation, AskPolicy(e) PROVE QuietInv'
    BY <1>2 DEF AskPolicy
<1>3. ASSUME NEW e \in Evaluation, FindUv(e) PROVE QuietInv'
    BY <1>3 DEF FindUv
<1>4. ASSUME NEW e \in Evaluation, AskVersion(e) PROVE QuietInv'
    BY <1>4 DEF AskVersion, Supported
<1>5. ASSUME NEW e \in Evaluation, AskDir(e) PROVE QuietInv'
    BY <1>5 DEF AskDir, OnePath
<1>6. ASSUME NEW e \in Evaluation, Stat(e) PROVE QuietInv'
    BY <1>6 DEF Stat
<1>7. ASSUME NEW e \in Evaluation, CheckPlain(e) PROVE QuietInv'
    BY <1>7 DEF CheckPlain, Unredirected
<1>8. ASSUME NEW e \in Evaluation, Resolve(e) PROVE QuietInv'
    BY <1>8 DEF Resolve, Resolved, Permitted
<1>9. ASSUME NEW e \in Evaluation, ReadMarker(e) PROVE QuietInv'
    BY <1>9 DEF ReadMarker, Marked
<1>10. ASSUME NEW e \in Evaluation, Defer(e) PROVE QuietInv'
    BY <1>10 DEF Defer, Due
<1>11. ASSUME NEW e \in Evaluation, Foresee(e) PROVE QuietInv'
    BY <1>11 DEF Foresee, Due
<1>12. ASSUME NEW e \in Evaluation, Prune(e) PROVE QuietInv'
    BY <1>12 DEF Prune, Due, Pinned
<1>13. ASSUME NEW e \in Evaluation, Finish(e) PROVE QuietInv'
    BY <1>13 DEF Finish
<1>14. ASSUME NEW e \in Evaluation, Fluke(e) PROVE QuietInv'
    BY <1>14 DEF Fluke
<1>15. ASSUME Change PROVE QuietInv'
    BY <1>15 DEF Change
<1>16. ASSUME UNCHANGED vars PROVE QuietInv'
    BY <1>16 DEF vars
<1>. QED
    BY <1>1, <1>2, <1>3, <1>4, <1>5, <1>6, <1>7, <1>8, <1>9, <1>10, <1>11,
       <1>12, <1>13, <1>14, <1>15, <1>16 DEF Next, Step, AllOver

-----------------------------------------------------------------------------
(* What an undisturbed evaluation comes to.                               *)

\* What an evaluation comes to, and the directory it is about, in a world that
\* stays as it is: the questions of uv::evaluate asked all at once.
Outcome(preview) ==
    IF policy # "on" THEN PolicyVerdict[policy]
    ELSE IF uv = "none" THEN "missing-tool"
    ELSE IF uv # "audited" THEN "kept"
    ELSE IF named = NoDir THEN "failed"
    ELSE IF place[named] = "absent" THEN "absent"
    ELSE IF place[named] # "marked" \/ named \in excluded THEN "protected"
    ELSE IF named \in recent THEN "not-due"
    ELSE IF preview THEN "would-prune" ELSE "pruned"

Subject == IF policy = "on" /\ uv = "audited" THEN named ELSE NoDir

\* Whatever an evaluation of such a world has come to is that outcome.
OutcomeInv ==
    Undisturbed =>
        \A e \in Evaluation :
            /\ Asked(e, {"new", "policy", "find", "version", "dir"})
                => target[e] = NoDir
            /\ Asked(e, {"plain", "resolve", "marker", "due"})
                => place[target[e]] # "absent"
            /\ Asked(e, {"gc"}) => ~dry[e] /\ Outcome(FALSE) = "pruned"
            /\ Asked(e, {"gc", "over"}) =>
                /\ target[e] = Subject
                /\ gc[e] = IF ~dry[e] /\ Outcome(FALSE) = "pruned"
                           THEN named ELSE NoDir
            /\ Asked(e, {"over"}) => result[e] = Outcome(dry[e])

LEMMA OutcomeInit == Init => OutcomeInv
    BY DEF Init, OutcomeInv, Asked

LEMMA OutcomeNext ==
    TypeInv /\ QuietInv /\ OutcomeInv /\ [Next]_vars => OutcomeInv'
<1> SUFFICES ASSUME TypeInv, QuietInv, OutcomeInv, [Next]_vars, Undisturbed'
             PROVE  OutcomeInv'
    BY DEF OutcomeInv
<1>. USE BoundsAssumption, NoDirAssumption
<1>. USE DEF TypeInv, TypeOK, DecisionInv, QuietInv, OutcomeInv, Undisturbed,
         Asked, Question, Goto, Answer, OnlyAnswers, fixed, world, memory,
         Outcome, Subject
<1>1. ASSUME NEW e \in Evaluation, Start(e) PROVE OutcomeInv'
    BY <1>1 DEF Start
<1>2. ASSUME NEW e \in Evaluation, AskPolicy(e) PROVE OutcomeInv'
    BY <1>2 DEF AskPolicy, PolicyVerdict
<1>3. ASSUME NEW e \in Evaluation, FindUv(e) PROVE OutcomeInv'
    BY <1>3 DEF FindUv
<1>4. ASSUME NEW e \in Evaluation, AskVersion(e) PROVE OutcomeInv'
    BY <1>4 DEF AskVersion, Supported
<1>5. ASSUME NEW e \in Evaluation, AskDir(e) PROVE OutcomeInv'
    BY <1>5 DEF AskDir, OnePath
<1>6. ASSUME NEW e \in Evaluation, Stat(e) PROVE OutcomeInv'
    BY <1>6 DEF Stat
<1>7. ASSUME NEW e \in Evaluation, CheckPlain(e) PROVE OutcomeInv'
    BY <1>7 DEF CheckPlain, Unredirected
<1>8. ASSUME NEW e \in Evaluation, Resolve(e) PROVE OutcomeInv'
    BY <1>8 DEF Resolve, Resolved, Permitted
<1>9. ASSUME NEW e \in Evaluation, ReadMarker(e) PROVE OutcomeInv'
    BY <1>9 DEF ReadMarker, Marked
<1>10. ASSUME NEW e \in Evaluation, Defer(e) PROVE OutcomeInv'
    BY <1>10 DEF Defer, Due
<1>11. ASSUME NEW e \in Evaluation, Foresee(e) PROVE OutcomeInv'
    BY <1>11 DEF Foresee, Due
<1>12. ASSUME NEW e \in Evaluation, Prune(e) PROVE OutcomeInv'
    BY <1>12 DEF Prune, Due, Pinned
<1>13. ASSUME NEW e \in Evaluation, Finish(e) PROVE OutcomeInv'
    BY <1>13 DEF Finish
<1>14. ASSUME NEW e \in Evaluation, Fluke(e) PROVE OutcomeInv'
    BY <1>14 DEF Fluke
<1>15. ASSUME Change PROVE OutcomeInv'
    BY <1>15 DEF Change
<1>16. ASSUME UNCHANGED vars PROVE OutcomeInv'
    BY <1>16 DEF vars
<1>. QED
    BY <1>1, <1>2, <1>3, <1>4, <1>5, <1>6, <1>7, <1>8, <1>9, <1>10, <1>11,
       <1>12, <1>13, <1>14, <1>15, <1>16 DEF Next, Step, AllOver

-----------------------------------------------------------------------------
(* The refinement.                                                         *)

LEMMA ContractInit == Init => Contract!Init
    BY DEF Init, Contract!Init, StageOf, VerdictOf, Question

\* A question that is passed is a stutter of the contract.
LEMMA PassingStutters ==
    ASSUME TypeInv, NEW e \in Evaluation, NEW q \in Question \ {"gc"},
           pc[e] \in Question \ {"gc"},
           Goto(e, q), UNCHANGED <<fixed, dry, gc>>
    PROVE  UNCHANGED Contract!vars
<1>1. \A x \in Evaluation : StageOf(pc'[x]) = StageOf(pc[x])
    BY DEF TypeInv, TypeOK, Goto, StageOf
<1>2. UNCHANGED <<result, excluded, recent, dry, gc>>
    BY DEF Goto, fixed
<1>. QED
    BY <1>1, <1>2 DEF Contract!vars

\* An answer without a prune is the contract's Decline.
LEMMA AnswerDeclines ==
    ASSUME TypeInv, NEW e \in Evaluation, NEW a \in Action \ {"none",
    "pruned"},
           pc[e] \in Question \ {"gc"},
           a = "would-prune" => dry[e] /\ Dir \ (excluded \cup recent) # {},
           Answer(e, a), UNCHANGED <<fixed, dry, gc>>
    PROVE  Contract!Decline(e)
<1> DEFINE stage == [x \in Evaluation |-> StageOf(pc[x])]
           verdict == [x \in Evaluation |-> VerdictOf(result[x])]
<1>1. stage' = [stage EXCEPT ![e] = "over"]
    BY DEF TypeInv, TypeOK, Answer, StageOf, Question
<1>2. verdict' = [verdict EXCEPT ![e] = VerdictOf(a)]
    BY DEF TypeInv, TypeOK, Answer
<1>3. VerdictOf(a) \in Contract!Declined /\ (VerdictOf(a) = "would-prune" => a = "would-prune")
    BY DEF VerdictOf, Action, Contract!Declined
<1>4. stage[e] = "deciding"
    BY DEF StageOf
<1>5. UNCHANGED <<excluded, recent, dry, gc>>
    BY DEF fixed
<1>. QED
    BY <1>1, <1>2, <1>3, <1>4, <1>5 DEF Contract!Decline

\* What uv makes of its prune is the contract's Conclude.
LEMMA AnswerConcludes ==
    ASSUME TypeInv, NEW e \in Evaluation, NEW a \in {"pruned", "failed"},
           pc[e] = "gc", Answer(e, a), UNCHANGED <<fixed, dry, gc>>
    PROVE  Contract!Conclude(e)
<1> DEFINE stage == [x \in Evaluation |-> StageOf(pc[x])]
           verdict == [x \in Evaluation |-> VerdictOf(result[x])]
<1>1. stage' = [stage EXCEPT ![e] = "over"]
    BY DEF TypeInv, TypeOK, Answer, StageOf, Question
<1>2. verdict' = [verdict EXCEPT ![e] = a]
    BY DEF TypeInv, TypeOK, Answer, VerdictOf
<1>3. stage[e] = "gc"
    BY DEF StageOf
<1>4. UNCHANGED <<excluded, recent, dry, gc>>
    BY DEF fixed
<1>. QED
    BY <1>1, <1>2, <1>3, <1>4 DEF Contract!Conclude

LEMMA StartBegins ==
    ASSUME TypeInv, NEW e \in Evaluation, Start(e) PROVE Contract!Begin(e)
<1> DEFINE stage == [x \in Evaluation |-> StageOf(pc[x])]
<1>1. stage' = [stage EXCEPT ![e] = "deciding"]
    BY DEF TypeInv, TypeOK, Start, Goto, StageOf, Question
<1>2. stage[e] = "new"
    BY DEF Start, StageOf, Question
<1>3. UNCHANGED <<result, excluded, recent, gc>>
    BY DEF Start, Goto, fixed
<1>4. \E p \in BOOLEAN : dry' = [dry EXCEPT ![e] = p]
    BY DEF Start
<1>. QED
    BY <1>1, <1>2, <1>3, <1>4 DEF Contract!Begin

LEMMA PruneCommits ==
    ASSUME TypeInv, NEW e \in Evaluation, Prune(e), uv # "none"
    PROVE  Contract!Commit(e)
<1> DEFINE stage == [x \in Evaluation |-> StageOf(pc[x])]
<1>1. stage' = [stage EXCEPT ![e] = "gc"]
    BY DEF TypeInv, TypeOK, Prune, Goto, StageOf, Question
<1>2. stage[e] = "deciding"
    BY DEF Prune, StageOf, Question
<1>3. UNCHANGED <<result, excluded, recent, dry>> /\ ~dry[e]
    BY DEF Prune, Goto, fixed
<1>4. \E d \in Dir \ (excluded \cup recent) : gc' = [gc EXCEPT ![e] = d]
    BY DEF TypeInv, TypeOK, DecisionInv, Prune, Due, Pinned
<1>. QED
    BY <1>1, <1>2, <1>3, <1>4 DEF Contract!Commit

\* Every step is a step of the contract, or none.
LEMMA ContractNext ==
    TypeInv /\ [Next]_vars => [Contract!Next]_(Contract!vars)
<1> DEFINE Kept == Contract!Next \/ UNCHANGED Contract!vars
<1> SUFFICES ASSUME TypeInv, [Next]_vars PROVE Kept
    OBVIOUS
<1>step. \A e \in Evaluation :
        Contract!Begin(e) \/ Contract!Decline(e) \/ Contract!Commit(e)
            \/ Contract!Conclude(e) => Kept
    BY DEF Contract!Next
<1>stutter. UNCHANGED Contract!vars => Kept
    OBVIOUS
<1>. HIDE DEF Kept
<1>. USE DEF Question, Action, OnlyAnswers
<1>1. ASSUME NEW e \in Evaluation, Start(e) PROVE Kept
    BY <1>1, <1>step, <1>stutter, StartBegins
<1>2. ASSUME NEW e \in Evaluation, AskPolicy(e) PROVE Kept
    BY <1>2, <1>step, <1>stutter, PassingStutters, AnswerDeclines
       DEF AskPolicy, PolicyVerdict, TypeInv, TypeOK
<1>3. ASSUME NEW e \in Evaluation, FindUv(e) PROVE Kept
    BY <1>3, <1>step, <1>stutter, PassingStutters, AnswerDeclines DEF FindUv
<1>4. ASSUME NEW e \in Evaluation, AskVersion(e) PROVE Kept
    BY <1>4, <1>step, <1>stutter, PassingStutters, AnswerDeclines
       DEF AskVersion
<1>5. ASSUME NEW e \in Evaluation, AskDir(e) PROVE Kept
    BY <1>5, <1>step, <1>stutter, PassingStutters, AnswerDeclines DEF AskDir
<1>6. ASSUME NEW e \in Evaluation, Stat(e) PROVE Kept
    BY <1>6, <1>step, <1>stutter, PassingStutters, AnswerDeclines DEF Stat
<1>7. ASSUME NEW e \in Evaluation, CheckPlain(e) PROVE Kept
    BY <1>7, <1>step, <1>stutter, PassingStutters, AnswerDeclines
       DEF CheckPlain
<1>8. ASSUME NEW e \in Evaluation, Resolve(e) PROVE Kept
    BY <1>8, <1>step, <1>stutter, PassingStutters, AnswerDeclines DEF Resolve
<1>9. ASSUME NEW e \in Evaluation, ReadMarker(e) PROVE Kept
    BY <1>9, <1>step, <1>stutter, PassingStutters, AnswerDeclines
       DEF ReadMarker
<1>10. ASSUME NEW e \in Evaluation, Defer(e) PROVE Kept
    BY <1>10, <1>step, <1>stutter, AnswerDeclines DEF Defer
<1>11. ASSUME NEW e \in Evaluation, Foresee(e) PROVE Kept
    BY <1>11, <1>step, <1>stutter, AnswerDeclines DEF Foresee, Due, TypeInv,
       TypeOK, DecisionInv
<1>12. ASSUME NEW e \in Evaluation, Prune(e) PROVE Kept
  <2>1. CASE uv # "none"
      BY <1>12, <2>1, <1>step, PruneCommits
  <2>2. CASE uv = "none"
      BY <1>12, <2>2, <1>step, AnswerDeclines DEF Prune
  <2>. QED
      BY <2>1, <2>2
<1>13. ASSUME NEW e \in Evaluation, Finish(e) PROVE Kept
    BY <1>13, <1>step, <1>stutter, AnswerConcludes DEF Finish
<1>14. ASSUME NEW e \in Evaluation, Fluke(e) PROVE Kept
    BY <1>14, <1>step, <1>stutter, AnswerConcludes, AnswerDeclines DEF Fluke
<1>15. ASSUME Change PROVE Kept
    BY <1>15 DEF Kept, Change, fixed, memory, Contract!vars
<1>16. ASSUME UNCHANGED vars PROVE Kept
    BY <1>16 DEF Kept, vars, fixed, memory, Contract!vars
<1>. QED
    BY <1>1, <1>2, <1>3, <1>4, <1>5, <1>6, <1>7, <1>8, <1>9, <1>10, <1>11,
       <1>12, <1>13, <1>14, <1>15, <1>16 DEF Next, Step, AllOver

-----------------------------------------------------------------------------
(* The theorems.                                                           *)

Inv == TypeInv /\ QuietInv /\ OutcomeInv

LEMMA InvHolds == Spec => []Inv
<1>1. Init => Inv
    BY TypeInit, QuietInit, OutcomeInit DEF Inv
<1>2. Inv /\ [Next]_vars => Inv'
    BY TypeNext, QuietNext, OutcomeNext DEF Inv
<1>. QED
    BY <1>1, <1>2, PTL DEF Spec

\* Every variable of UvGc keeps its type.
THEOREM TypeCorrect == Spec => []TypeOK
    BY InvHolds, PTL DEF Inv, TypeInv

\* homecache/uv.rs: the questions implement the contract, so no evaluation
\* ever gives uv a directory that the policy excludes or that is not due, and
\* no preview gives it any.
THEOREM ContractIsKept == Spec => KeepsContract
<1>1. Inv => TypeInv
    BY DEF Inv
<1>. QED
    BY <1>1, ContractInit, ContractNext, InvHolds, PTL
       DEF Spec, KeepsContract, Contract!Spec

\* README.md 76-85: where the world did not change, a prune had every license.
THEOREM PrunesAreLicensed == Spec => PruneLicensed
<1> DEFINE Licensed ==
        \A e \in Evaluation : gc'[e] # gc[e] /\ since[e] = changes =>
            /\ policy = "on" /\ ~dry[e]
            /\ uv = "audited" /\ gc'[e] = named
            /\ place[named] = "marked"
            /\ named \notin excluded \cup recent
<1>1. Inv /\ [Next]_vars => [Licensed]_vars
  <2> SUFFICES ASSUME Inv, Next PROVE Licensed
      OBVIOUS
  <2>1. ASSUME NEW e \in Evaluation, Prune(e) PROVE Licensed
      BY <2>1 DEF Prune, Due, Pinned, Inv, TypeInv, TypeOK, DecisionInv,
         QuietInv, Asked, Question, Goto, Answer
  <2>2. CASE UNCHANGED gc
      BY <2>2
  <2>3. ASSUME NEW e \in Evaluation, Step(e) PROVE Prune(e) \/ UNCHANGED gc
      BY <2>3 DEF Step, Start, AskPolicy, FindUv, AskVersion, AskDir, Stat,
         CheckPlain, Resolve, ReadMarker, Defer, Foresee, Finish, Fluke,
         OnlyAnswers
  <2>4. Change \/ AllOver => UNCHANGED gc
      BY DEF Change, AllOver, vars
  <2>. QED
      BY <2>1, <2>2, <2>3, <2>4 DEF Next
<1>. QED
    BY <1>1, InvHolds, PTL DEF Spec, PruneLicensed

\* README.md 131, "same evaluation": in a world that stays as it is, a preview
\* and a run are about the same directory, and the preview says "would-prune"
\* exactly where the run prunes.
THEOREM PreviewsAgree == Spec => []PreviewAgrees
<1>1. ASSUME TypeInv, OutcomeInv PROVE PreviewAgrees
  <2> SUFFICES ASSUME Undisturbed,
                      NEW p \in Evaluation, NEW r \in Evaluation,
                      pc[p] = "over", dry[p], pc[r] = "over", ~dry[r]
               PROVE  /\ target[p] = target[r]
                      /\ result[p] = IF gc[r] # NoDir
                                     THEN "would-prune" ELSE result[r]
      BY DEF PreviewAgrees
  <2>1. target[p] = target[r]
      BY <1>1 DEF OutcomeInv, Asked
  <2>2. result[p] = Outcome(TRUE) /\ result[r] = Outcome(FALSE)
      BY <1>1 DEF OutcomeInv, Asked, TypeInv, TypeOK
  <2>3. gc[r] = IF Outcome(FALSE) = "pruned" THEN named ELSE NoDir
      BY <1>1 DEF OutcomeInv, Asked
  <2>4. CASE Outcome(FALSE) = "pruned"
      <3>1. named # NoDir /\ Outcome(TRUE) = "would-prune"
          BY <1>1, <2>4 DEF Outcome, PolicyVerdict, TypeInv, TypeOK
      <3>. QED
          BY <2>1, <2>2, <2>3, <2>4, <3>1
  <2>5. CASE Outcome(FALSE) # "pruned"
      <3>1. Outcome(TRUE) = Outcome(FALSE)
          BY <2>5 DEF Outcome
      <3>. QED
          BY <2>1, <2>2, <2>3, <2>5, <3>1
  <2>. QED
      BY <2>4, <2>5
<1>. QED
    BY <1>1, InvHolds, PTL DEF Inv
=============================================================================
