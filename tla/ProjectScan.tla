----------------------------- MODULE ProjectScan -----------------------------
(***************************************************************************)
(* scan::scan: the read-only inventory of artifacts below the configured   *)
(* roots.  A walk visits directories, parents first and otherwise in any   *)
(* order; at each it descends, skips the subtree, or takes the directory   *)
(* as an artifact and lists it if nothing in it is recent.  A warm         *)
(* artifact may still have stale parts, which are listed on their own.     *)
(*                                                                         *)
(* The tree is one of Trees and does not change during a walk.  Names,     *)
(* markers and mtimes are reduced to what the walk makes of them.          *)
(***************************************************************************)
EXTENDS Naturals, FiniteSets

CONSTANTS
    Dir,            \* directories, and links to directories
    NoDir,          \* above a root there is nothing
    Parent,         \* Dir -> Dir, or NoDir
    Root,           \* policy.roots, which may overlap
    Trees,          \* what the directories may be
    IncrementalAge, StaleAge, DepAge,   \* the cutoffs, as ages
    MinSize         \* min_size_bytes

\* What match_dir, SKIP_DIRS, ACTIVITY_SKIP and the two names below artifacts
\* distinguish.  "deps", "dart": dependency trees; "generic": needs git's word;
\* "output": other artifacts.  No artifact, for want of a marker or at all:
\* "git", "opaque" (node_modules, Pods), "vcs" (.svn, .hg), "derived" (dist,
\* .serena).
Artifact == {"rust", "deps", "dart", "generic", "output"}

SkipDirs == {"git", "opaque", "vcs"}
ActivitySkip == Artifact \cup {"git", "opaque", "derived"}

Look == Artifact \cup SkipDirs \cup ActivitySkip
            \cup {"source", "incremental", "flutter"}

\* How a directory hangs below its parent.
Via == {"plain", "link", "mount"}

\* An age of 0 is an mtime that cannot be read; the sample of a .git is the
\* least age of it and of the four files in it that can be.  A name leads to its
\* own directory; a link's may lead to another one of Dir, and one out of it
\* has what is there as its children.  protect patterns are substrings of
\* paths: what is below a guarded directory is guarded.
IsTree(t) ==
    /\ t.look \in [Dir -> Look]
    /\ t.via \in [Dir -> Via]
    /\ t.to \in [Dir -> Dir]
    /\ \A d \in Dir : t.to[d] # d => t.via[d] = "link" /\ t.via[t.to[d]] # "link"
    /\ t.age \in [Dir -> Nat] /\ t.sample \in [Dir -> Nat]
    /\ t.ignored \in [Dir -> {"yes", "no", "unknown"}]
    /\ t.guarded \subseteq Dir
    /\ \A d \in Dir : Parent[d] \in t.guarded => d \in t.guarded

\* d and everything above it: what every set has that holds d and, with a
\* directory, the one above it.
Closed(S) == \A d \in S : Parent[d] # NoDir => Parent[d] \in S

Above == [d \in Dir |->
    {e \in Dir : \A S \in SUBSET Dir : d \in S /\ Closed(S) => e \in S}]

ASSUME DirAssumption == IsFiniteSet(Dir)
ASSUME ParentAssumption == Parent \in [Dir -> Dir \cup {NoDir}] /\ NoDir \notin Dir
ASSUME TreeAssumption ==    \* nothing is below itself
    \A d \in Dir : Parent[d] # NoDir => d \notin Above[Parent[d]]
ASSUME PolicyAssumption == {IncrementalAge, StaleAge, DepAge, MinSize} \subseteq Nat
ASSUME RootAssumption == Root \subseteq Dir
ASSUME TreesAssumption == \A t \in Trees : IsTree(t)

VARIABLES
    tree,           \* the file system
    todo, root,     \* the roots left, and the one being walked, or NoDir
    open,           \* directories the walk has yet to come to
    warmTargets,    \* warm cargo targets of this root
    stale,          \* the candidates
    freshCount, bytesSeen

scanVars == <<tree, todo, root, open, warmTargets, stale, freshCount, bytesSeen>>

-----------------------------------------------------------------------------
(* The tree.                                                               *)

Children(d) == {c \in Dir : Parent[c] = d}

\* What a WalkDir from d yields: links and mounts are seen, not entered.
Contents(d) ==
    {e \in Dir : /\ d \in Above[e]
                 /\ \A m \in Above[e] \ (Above[d] \cup {e}) : tree.via[m] = "plain"}

\* any_newer_than: an unknown mtime counts as new.
ReadableNewer(d, cut) ==    \* mutant: an unknown mtime is passed over
    \E e \in Contents(d) : tree.age[e] \in 1..(cut - 1)
Newer(d, cut) == \E e \in Contents(d) : tree.age[e] < cut

\* measure: every directory weighs one.
Measure(d) == Cardinality(Contents(d))

\* A path, as far as paths differ: the directory that it leads to and the name
\* above it, which is the parent's unless a link was joined with a name.
Path(n, d) == [by |-> n, dir |-> d]
PathOf(d) == Path(Parent[d], d)

\* What the directories that several paths lead to sum up to.
SumOf(ps) == Cardinality(UNION {{p} \X Contents(p.dir) : p \in ps})

\* project_active_within: .git is sampled, through a link as well; the walk
\* leaves out directories with a name of ACTIVITY_SKIP, whatever they are.
Active(p, cut) ==
    \/ \E g \in Children(p) : tree.look[g] = "git" /\ tree.sample[g] < cut
    \/ \E e \in Contents(p) :
        /\ \A m \in Above[e] \ Above[p] :
            tree.look[m] \in ActivitySkip => tree.via[m] = "link"
        /\ tree.age[e] < cut

\* passes_gate.
DepsByOwnAge(d) == ~Newer(d, DepAge)    \* mutant: the project is not asked
DepsCold(d) == ~Active(Parent[d], DepAge) /\ ~Newer(d, DepAge)

PassesGate(d) ==
    IF tree.look[d] \in {"deps", "dart"} THEN DepsCold(d) ELSE ~Newer(d, StaleAge)

-----------------------------------------------------------------------------
(* What the walk makes of a directory.                                     *)

\* protect, another device.
Excluded(d) == d \in tree.guarded \/ tree.via[d] = "mount"

\* A rule matches; for a generic name git must say that it is ignored.
Generated(d) == tree.look[d] = "generic" => tree.ignored[d] = "yes"

IsArtifact(d) == tree.look[d] \in Artifact /\ Generated(d)

\* What the walk comes to after an artifact.
DescendsAnyway(d) == (open \ {d}) \cup Children(d)  \* mutant: no skip_current_dir
Skipped(d) == open \ {d}

\* The targets whose incremental caches are looked at once the root is walked.
WarmWith(d) == IF tree.look[d] = "rust" THEN warmTargets \cup {d} ELSE warmTargets

Candidate(p, kind) == [by |-> p.by, dir |-> p.dir, kind |-> kind, root |-> root,
                       bytes |-> Measure(p.dir)]

Big(d) == Measure(d) >= MinSize

\* The parts of a warm directory that are listed on their own.  The names of a
\* target's profiles are joined with "incremental": only what that leads to is
\* asked whether it is a link, not the profile.
Stale(i) ==
    /\ tree.look[i] = "incremental" /\ tree.via[i] # "link"
    /\ ~Newer(i, IncrementalAge) /\ Big(i)

Incrementals(t) ==
    UNION {{Path(n, i) : i \in {x \in Children(tree.to[n]) : Stale(x)}} :
              n \in Children(t)}

FlutterBuilds(d) ==
    {PathOf(f) : f \in {x \in Children(d) :
        /\ tree.look[d] = "dart"
        /\ tree.look[x] = "flutter" /\ tree.via[x] # "link"
        /\ ~Newer(x, StaleAge) /\ Big(x)}}

Listing(ps, kind) ==
    /\ stale' = stale \cup {Candidate(p, kind) : p \in ps}
    /\ bytesSeen' = bytesSeen + SumOf(ps)

-----------------------------------------------------------------------------
ScanInit ==
    /\ tree \in Trees
    /\ todo = Root
    /\ root = NoDir
    /\ open = {}
    /\ warmTargets = {}
    /\ stale = {}
    /\ freshCount = 0
    /\ bytesSeen = 0

\* The next root; one that is itself a link is passed over.
EnterRoot(r) ==
    /\ root = NoDir
    /\ r \in todo
    /\ todo' = todo \ {r}
    /\ IF tree.via[r] = "link"
       THEN UNCHANGED <<root, open>>
       ELSE root' = r /\ open' = Children(r)
    /\ UNCHANGED <<tree, warmTargets, stale, freshCount, bytesSeen>>

Walking(d) == root # NoDir /\ d \in open

IsDirectory(d) == tree.via[d] # "link"

\* A link, a protected or foreign directory, or one that is skipped by name.
SkipEntry(d) ==
    /\ Walking(d)
    /\ ~IsDirectory(d) \/ Excluded(d) \/ tree.look[d] \in SkipDirs
    /\ open' = open \ {d}
    /\ UNCHANGED <<tree, todo, root, warmTargets, stale, freshCount, bytesSeen>>

\* No artifact, or one that git does not vouch for: what is inside may be.
Descend(d) ==
    /\ Walking(d)
    /\ IsDirectory(d) /\ ~Excluded(d) /\ tree.look[d] \notin SkipDirs
    /\ ~IsArtifact(d)
    /\ open' = (open \ {d}) \cup Children(d)
    /\ UNCHANGED <<tree, todo, root, warmTargets, stale, freshCount, bytesSeen>>

\* An artifact too recent to be listed.
KeepFresh(d) ==
    /\ Walking(d)
    /\ IsDirectory(d) /\ ~Excluded(d) /\ IsArtifact(d)
    /\ ~PassesGate(d)
    /\ open' = Skipped(d)
    /\ freshCount' = freshCount + 1
    /\ warmTargets' = WarmWith(d)
    /\ Listing(FlutterBuilds(d), "flutter")
    /\ UNCHANGED <<tree, todo, root>>

ListStale(d) ==
    /\ Walking(d)
    /\ IsDirectory(d) /\ ~Excluded(d) /\ IsArtifact(d)
    /\ PassesGate(d)
    /\ open' = Skipped(d)
    /\ Listing(IF Big(d) THEN {PathOf(d)} ELSE {}, tree.look[d])
    /\ UNCHANGED <<tree, todo, root, warmTargets, freshCount>>

\* The root is walked: the incremental caches of its warm targets follow.
LeaveRoot ==
    /\ root # NoDir
    /\ open = {}
    /\ Listing(UNION {Incrementals(t) : t \in warmTargets}, "incremental")
    /\ warmTargets' = {}
    /\ root' = NoDir
    /\ UNCHANGED <<tree, todo, open, freshCount>>

Over == root = NoDir /\ todo = {}

ScanNext ==
    \/ \E r \in Root : EnterRoot(r)
    \/ \E d \in Dir : SkipEntry(d) \/ Descend(d) \/ KeepFresh(d) \/ ListStale(d)
    \/ LeaveRoot
    \/ Over /\ UNCHANGED scanVars

ScanSpec == ScanInit /\ [][ScanNext]_scanVars

-----------------------------------------------------------------------------
(* Properties.                                                             *)

\* Every variable has its type; nothing is open outside the current root.
ScanTypeOK ==
    /\ IsTree(tree)
    /\ todo \subseteq Root
    /\ root \in Root \cup {NoDir}
    /\ open \subseteq {d \in Dir : root \in Above[d] \ {d}}
    /\ warmTargets \subseteq {d \in Dir : tree.look[d] = "rust"}
    /\ stale \subseteq [by : Dir \cup {NoDir}, dir : Dir, kind : Look,
                        root : Root, bytes : Nat]
    /\ freshCount \in Nat
    /\ bytesSeen \in Nat

\* What the walk should find, without a walk: d is taken as an artifact below
\* r if nothing between them hides it.
Hides(m) ==
    \/ tree.via[m] # "plain" \/ m \in tree.guarded \/ tree.look[m] \in SkipDirs
    \/ tree.look[m] \in Artifact \ {"generic"}
    \/ tree.look[m] = "generic" /\ tree.ignored[m] = "yes"

Taken(r, d) ==
    /\ r \in Above[d] \ {d}
    /\ tree.via[r] # "link"
    /\ \A m \in Above[d] \ (Above[r] \cup {d}) : ~Hides(m)
    /\ tree.via[d] = "plain" /\ d \notin tree.guarded
    /\ tree.look[d] \in Artifact
    /\ tree.look[d] = "generic" => tree.ignored[d] = "yes"

\* An artifact is stale if everything in it has a known age past the cutoff:
\* README.md 214-215, "unknown mtimes are treated as warm".  For a dependency
\* tree also everything in its project has, but for directories with the names
\* of artifacts; and what could be sampled of its .git is past the cutoff.
OldEnough(d) ==
    LET cut == IF tree.look[d] \in {"deps", "dart"} THEN DepAge ELSE StaleAge
    IN  /\ \A e \in Contents(d) : tree.age[e] >= cut
        /\ tree.look[d] \in {"deps", "dart"} => ~Active(Parent[d], cut)

Expected(r) ==
    {PathOf(d) : d \in {x \in Dir : Taken(r, x) /\ OldEnough(x) /\ Big(x)}}
    \cup UNION {FlutterBuilds(d) \cup
                  (IF tree.look[d] = "rust" THEN Incrementals(d) ELSE {}) :
                d \in {x \in Dir : Taken(r, x) /\ ~OldEnough(x)}}

\* scan.rs 221-338: the walk finds, below every root, exactly the paths that
\* the rules describe, in whatever order it comes to them; tests/integration.rs
\* 164 has the protected ones, which it never enters.  (The parts of a warm
\* artifact are found by name: protect is not asked for them.)
ScanIsExact ==
    Over => {<<c.root, Path(c.by, c.dir)>> : c \in stale}
              = UNION {{r} \X Expected(r) : r \in Root}

\* scan.rs 282: below one root no candidate contains another one, and what the
\* walk adds up is what the candidates it lists hold: no path is measured twice,
\* and none is forgotten.  The exception is an incremental cache that was found
\* through a linked profile: it may lie in another candidate, or be one that
\* has a second path, and is then counted once for each.
Aliased(c) == c.by # Parent[c.dir]

CountedOnce ==
    /\ bytesSeen = Cardinality(UNION {{c} \X Contents(c.dir) : c \in stale})
    /\ \A c \in stale : Aliased(c) => c.kind = "incremental" /\ tree.via[c.by] = "link"
    /\ \A b, c \in stale :
        b.root = c.root /\ b # c /\ ~Aliased(b) /\ ~Aliased(c) =>
            Contents(b.dir) \cap Contents(c.dir) = {}

\* README.md 213-214: discovery "never follows symlinks or crosses filesystem
\* boundaries", so the path to a candidate has plain directories only.
StaysInside ==
    \A c \in stale :
        \A m \in (Above[c.by] \cup {c.dir}) \ Above[c.root] : tree.via[m] = "plain"

=============================================================================
