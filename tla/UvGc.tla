-------------------------------- MODULE UvGc --------------------------------
(***************************************************************************)
(* uv::evaluate (homecache/uv.rs) with the checks of safety::cache_allowed:*)
(* the fixed order of questions that ends in a prune or in the reason why  *)
(* there is none.  Every question is asked of a world that may change      *)
(* before the next one: uv is upgraded or removed, its configuration names *)
(* another cache, a directory comes, goes, or becomes a link.              *)
(* The policy and the ledger are read once, before: they stay.             *)
(***************************************************************************)
EXTENDS Naturals

CONSTANTS
    Evaluation,     \* passes through homecache::evaluate, previews and runs
    Dir,            \* the directories uv may name as its cache
    NoDir,          \* an answer of uv that is not one path
    MaxChanges,     \* bound: how often the world changes
    MaxFlukes       \* bound: probes that time out, exit badly, or cannot start

ASSUME NoDirAssumption == NoDir \notin Dir
ASSUME BoundsAssumption == MaxChanges \in Nat /\ MaxFlukes \in Nat

VARIABLES
    \* Fixed from the start.
    policy,         \* how far the policy and the environment let uv GC go
    excluded,       \* directories protected, overlapping a root, or home
    recent,         \* directories the ledger says are not due
    \* The world.
    uv,             \* the uv on PATH
    named,          \* what `uv cache dir` prints
    place,          \* what each directory is
    changes, flukes,
    \* Each evaluation.
    pc, dry,
    target,         \* the directory it is about
    result,         \* Action of the CacheResult
    gc,             \* the directory given to its `uv cache prune`
    \* History, read by the properties only.
    since           \* the changes of the world when it began

fixed == <<policy, excluded, recent>>
world == <<uv, named, place, changes>>
memory == <<pc, dry, target, result>>
vars == <<fixed, world, flukes, memory, gc, since>>

\* Why there is no GC before uv is even looked for, in the code's order:
\* categories.home_caches off, native_gc.uv off, no opt-in to prune
\* environments, UV_LINK_MODE=symlink; or "on".
PolicyVerdict ==
    [no_home |-> "unlisted", off |-> "disabled", no_opt_in |-> "kept",
     symlink |-> "protected"]

Uv == {"none", "audited", "unreviewed"}

\* "marked": a directory with a genuine CACHEDIR.TAG; "plain": without one;
\* "link": reached through a symlink.
Place == {"absent", "marked", "plain", "link"}

Action == {"none", "unlisted", "disabled", "kept", "protected", "missing-tool",
           "failed", "absent", "not-due", "would-prune", "pruned"}

Question == {"policy", "find", "version", "dir", "stat", "plain", "resolve",
             "marker", "due", "gc"}

-----------------------------------------------------------------------------
(* Helpers.                                                                *)

Goto(e, q) == pc' = [pc EXCEPT ![e] = q] /\ UNCHANGED result

Answer(e, a) ==
    /\ pc' = [pc EXCEPT ![e] = "over"]
    /\ result' = [result EXCEPT ![e] = a]

\* The step leaves everything but the place, the result and the target of e.
OnlyAnswers == UNCHANGED <<fixed, world, flukes, dry, gc, since>>

\* supported_uv.
AnyVersion == uv # "none"               \* mutant: every version is accepted
Supported == uv = "audited"

\* The answer of `uv cache dir` is complete and one line.
OnePath == named # NoDir

\* plain_path: no component is a redirection; an absent one is let through.
Followed(d) == TRUE                     \* mutant: links are followed
Unredirected(d) == place[d] # "link"

\* The protect list and the roots, against the resolved directory.
LexicalOnly(e, d) == target[e] \notin excluded  \* mutant: of the path as named
Permitted(e, d) == d \notin excluded

\* The marker is a regular file with the standard signature.
AnyDirectory(d) == place[d] \in {"marked", "plain"}    \* mutant: not read
Marked(d) == place[d] = "marked"

\* cadence.due.
DueOnlyIfRun(e) == dry[e] \/ target[e] \notin recent   \* mutant: preview skips
Due(e) == target[e] \notin recent

\* What uv prunes: `--cache-dir <canonical>` and `--no-config`.
Pinned(e) == target[e]

-----------------------------------------------------------------------------
Init ==
    /\ policy \in DOMAIN PolicyVerdict \cup {"on"}
    /\ excluded \in SUBSET Dir
    /\ recent \in SUBSET Dir
    /\ uv \in Uv
    /\ named \in Dir \cup {NoDir}
    /\ place \in [Dir -> Place]
    /\ changes = 0
    /\ flukes = 0
    /\ pc = [e \in Evaluation |-> "new"]
    /\ dry = [e \in Evaluation |-> FALSE]
    /\ target = [e \in Evaluation |-> NoDir]
    /\ result = [e \in Evaluation |-> "none"]
    /\ gc = [e \in Evaluation |-> NoDir]
    /\ since = [e \in Evaluation |-> 0]

-----------------------------------------------------------------------------
(* The questions, in the code's order.                                     *)

Start(e) ==
    /\ pc[e] = "new"
    /\ Goto(e, "policy")
    /\ \E d \in BOOLEAN : dry' = [dry EXCEPT ![e] = d]
    /\ since' = [since EXCEPT ![e] = changes]
    /\ UNCHANGED <<fixed, world, flukes, target, gc>>

AskPolicy(e) ==
    /\ pc[e] = "policy"
    /\ IF policy = "on" THEN Goto(e, "find") ELSE Answer(e, PolicyVerdict[policy])
    /\ OnlyAnswers /\ UNCHANGED target

\* os::executable.
FindUv(e) ==
    /\ pc[e] = "find"
    /\ IF uv = "none" THEN Answer(e, "missing-tool") ELSE Goto(e, "version")
    /\ OnlyAnswers /\ UNCHANGED target

\* `uv --version`: a uv that is gone by now cannot be started.
AskVersion(e) ==
    /\ pc[e] = "version"
    /\ CASE uv = "none" -> Answer(e, "failed")
         [] Supported -> Goto(e, "dir")
         [] OTHER -> Answer(e, "kept")
    /\ OnlyAnswers /\ UNCHANGED target

\* `uv cache dir`, of the same binary.
AskDir(e) ==
    /\ pc[e] = "dir"
    /\ IF uv # "none" /\ OnePath
       THEN Goto(e, "stat") /\ target' = [target EXCEPT ![e] = named]
       ELSE Answer(e, "failed") /\ UNCHANGED target
    /\ OnlyAnswers

Stat(e) ==
    /\ pc[e] = "stat"
    /\ IF place[target[e]] = "absent" THEN Answer(e, "absent") ELSE Goto(e, "plain")
    /\ OnlyAnswers /\ UNCHANGED target

CheckPlain(e) ==
    /\ pc[e] = "plain"
    /\ IF Unredirected(target[e]) THEN Goto(e, "resolve") ELSE Answer(e, "protected")
    /\ OnlyAnswers /\ UNCHANGED target

\* What a path resolves to: itself, or for a link some other directory.
Resolved(d) ==
    CASE place[d] = "absent" -> {}
      [] place[d] = "link" -> {c \in Dir : place[c] \in {"marked", "plain"}}
      [] OTHER -> {d}

\* canonicalize, and the policy's comparisons with what it returns.
Resolve(e) ==
    /\ pc[e] = "resolve"
    /\ \/ /\ Resolved(target[e]) = {}
          /\ Answer(e, "protected")
          /\ UNCHANGED target
       \/ \E d \in Resolved(target[e]) :
            IF Permitted(e, d)
            THEN Goto(e, "marker") /\ target' = [target EXCEPT ![e] = d]
            ELSE Answer(e, "protected") /\ UNCHANGED target
    /\ OnlyAnswers

ReadMarker(e) ==
    /\ pc[e] = "marker"
    /\ IF Marked(target[e]) THEN Goto(e, "due") ELSE Answer(e, "protected")
    /\ OnlyAnswers /\ UNCHANGED target

Defer(e) ==
    /\ pc[e] = "due"
    /\ ~Due(e)
    /\ Answer(e, "not-due")
    /\ OnlyAnswers /\ UNCHANGED target

Foresee(e) ==
    /\ pc[e] = "due"
    /\ Due(e)
    /\ dry[e]
    /\ Answer(e, "would-prune")
    /\ OnlyAnswers /\ UNCHANGED target

\* `uv cache prune` is started, if uv is still there.
Prune(e) ==
    /\ pc[e] = "due"
    /\ Due(e)
    /\ ~dry[e]
    /\ IF uv = "none"
       THEN Answer(e, "failed") /\ UNCHANGED gc
       ELSE Goto(e, "gc") /\ gc' = [gc EXCEPT ![e] = Pinned(e)]
    /\ UNCHANGED <<fixed, world, flukes, dry, target, since>>

Finish(e) ==
    /\ pc[e] = "gc"
    /\ Answer(e, "pruned")
    /\ OnlyAnswers /\ UNCHANGED target

\* process::run is Err, or the metadata of the path is unreadable.
Fluke(e) ==
    /\ pc[e] \in {"version", "dir", "stat", "gc"}
    /\ flukes < MaxFlukes
    /\ flukes' = flukes + 1
    /\ Answer(e, "failed")
    /\ UNCHANGED <<fixed, world, dry, target, gc, since>>

-----------------------------------------------------------------------------
\* Somebody installs, upgrades or removes uv, configures another cache, or
\* changes a directory.
Change ==
    /\ changes < MaxChanges
    /\ changes' = changes + 1
    /\ \/ uv' \in Uv /\ UNCHANGED <<named, place>>
       \/ named' \in Dir \cup {NoDir} /\ UNCHANGED <<uv, place>>
       \/ /\ \E d \in Dir, p \in Place : place' = [place EXCEPT ![d] = p]
          /\ UNCHANGED <<uv, named>>
    /\ UNCHANGED <<fixed, flukes, memory, gc, since>>

Step(e) ==
    \/ Start(e) \/ AskPolicy(e) \/ FindUv(e) \/ AskVersion(e) \/ AskDir(e)
    \/ Stat(e) \/ CheckPlain(e) \/ Resolve(e) \/ ReadMarker(e)
    \/ Defer(e) \/ Foresee(e) \/ Prune(e) \/ Finish(e) \/ Fluke(e)

AllOver == (\A e \in Evaluation : pc[e] = "over") /\ UNCHANGED vars

Next == (\E e \in Evaluation : Step(e)) \/ Change \/ AllOver

Spec == Init /\ [][Next]_vars

-----------------------------------------------------------------------------
(* Properties.                                                             *)

\* Every variable has its type; the directory an evaluation is about is known
\* as soon as uv named it.
TypeOK ==
    /\ policy \in DOMAIN PolicyVerdict \cup {"on"}
    /\ excluded \subseteq Dir /\ recent \subseteq Dir
    /\ uv \in Uv /\ named \in Dir \cup {NoDir} /\ place \in [Dir -> Place]
    /\ changes \in 0..MaxChanges /\ flukes \in 0..MaxFlukes
    /\ pc \in [Evaluation -> Question \cup {"new", "over"}]
    /\ dry \in [Evaluation -> BOOLEAN]
    /\ target \in [Evaluation -> Dir \cup {NoDir}]
    /\ result \in [Evaluation -> Action]
    /\ gc \in [Evaluation -> Dir \cup {NoDir}]
    /\ since \in [Evaluation -> 0..MaxChanges]
    /\ \A e \in Evaluation :
        pc[e] \in {"stat", "plain", "resolve", "marker", "due", "gc"}
            => target[e] \in Dir

\* README.md 76-85: a prune is started only by a run that the policy lets go
\* on, with an audited uv, on the directory uv names, which is a marked cache
\* that is not excluded and is due - in a world that did not change meanwhile.
PruneLicensed ==
    [][\A e \in Evaluation : gc'[e] # gc[e] /\ since[e] = changes =>
        /\ policy = "on" /\ ~dry[e]
        /\ uv = "audited" /\ gc'[e] = named
        /\ place[named] = "marked"
        /\ named \notin excluded \cup recent]_vars

Undisturbed == changes = 0 /\ flukes = 0

\* README.md 131, "same evaluation": in the same world a preview answers what
\* a run answers, and says "would-prune" exactly where the run starts a prune.
PreviewAgrees ==
    Undisturbed =>
        \A p, r \in Evaluation :
            /\ pc[p] = "over" /\ dry[p]
            /\ pc[r] = "over" /\ ~dry[r]
            => /\ target[p] = target[r]
               /\ result[p] = IF gc[r] # NoDir THEN "would-prune" ELSE result[r]

-----------------------------------------------------------------------------
(* The questions implement the contract.                                   *)

\* The stage of the contract a question belongs to, and the verdict an action is.
StageOf(q) == IF q \in Question \ {"gc"} THEN "deciding" ELSE q

VerdictOf(a) ==
    IF a \in {"none", "failed", "would-prune", "pruned"} THEN a ELSE "kept"

Contract == INSTANCE GcContract WITH
    allowed <- Dir \ (excluded \cup recent),
    stage <- [e \in Evaluation |-> StageOf(pc[e])],
    preview <- dry,
    committed <- gc,
    verdict <- [e \in Evaluation |-> VerdictOf(result[e])]

\* homecache/uv.rs: whatever happens between its questions, uv::evaluate
\* keeps the contract; no prune is ever given an excluded directory (uv.rs
\* 137-138), nor one that is not due.  What is at that path when uv opens it
\* is not asked again.
KeepsContract == Contract!Spec

=============================================================================
