---------------------------- MODULE MCProjectScan ----------------------------
(***************************************************************************)
(* A chain r > p > t > d > i > x: a root, a project, an artifact, something *)
(* in it, something in that, and an output at the end; beside t there is a *)
(* hidden directory h of the project, and beside d another entry q of the  *)
(* artifact, which may be a link back to d or t.  The trees vary what each *)
(* of them is, how it hangs there, how old it is, and what protect and git *)
(* say.  Ages: 1 is recent, 2 is past IncrementalAge, 4 is past all.       *)
(***************************************************************************)
EXTENDS ProjectScan, TLC

CONSTANTS r, p, t, d, i, x, h, q

MCDir == {r, p, t, d, i, x, h, q}

MCParent == (r :> NoDir) @@ (p :> r) @@ (t :> p) @@ (h :> p) @@ (d :> t)
                @@ (q :> t) @@ (i :> d) @@ (x :> i)

All(v) == [e \in MCDir |-> v]

\* h: what it is, its age and what can be sampled of it.
Hidden == {<<"git", 4, 4>>, <<"git", 4, 1>>, <<"git", 0, 4>>,
           <<"vcs", 1, 4>>, <<"opaque", 1, 1>>, <<"derived", 1, 1>>}

\* t: what it is, and what git says of it (asked of generic names only); beside
\* a dependency tree h is everything it can be.
Artifacts ==
    ({"deps", "dart"} \X {"unknown"} \X Hidden)
        \cup ({"rust", "output", "opaque", "source"} \X {"unknown"} \X {<<"git", 4, 1>>})
        \cup ({"generic"} \X {"yes", "no", "unknown"} \X {<<"derived", 1, 1>>})

\* How t, d and q hang there, and where q leads.
Hangs == {<<t :> "link", q>>, <<t :> "mount", q>>, <<d :> "link", q>>,
          <<d :> "mount", q>>, <<d :> "plain", q>>,
          <<q :> "link", d>>, <<q :> "link", t>>}

MCTrees ==
    {[look |-> (t :> a[1]) @@ (d :> ld) @@ (i :> li) @@ (x :> "output")
                   @@ (h :> a[3][1]) @@ All("source"),
      via |-> v[1] @@ All("plain"),
      to |-> (q :> v[2]) @@ [e \in MCDir |-> e],
      age |-> (p :> ap) @@ (t :> at) @@ (i :> ai) @@ (h :> a[3][2]) @@ All(4),
      sample |-> (h :> a[3][3]) @@ All(1),
      ignored |-> (t :> a[2]) @@ All("yes"),
      guarded |-> pr] :
        a \in Artifacts, v \in Hangs,
        ld \in {"source", "flutter", "deps", "incremental"},
        li \in {"incremental", "output"},
        ap \in {0, 4}, at \in {1, 4}, ai \in {0, 2, 4},
        pr \in {{}, {i, x}, {t, d, i, x, q}}}

\* Those with a cargo target.
MCTargets == {tr \in MCTrees : tr.look[t] = "rust"}
=============================================================================
