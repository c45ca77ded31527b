---------------------------- MODULE ConfigProofs ----------------------------
(***************************************************************************)
(* What Config guarantees for any number of invocations, edits, kills,     *)
(* faults and losses of power.                                             *)
(***************************************************************************)
EXTENDS Config, TLAPS

\* Only a fault leads to an undo.
UndoneAfterFault ==
    \A i \in Invocation : pc[i] = "undo" => faults > 0

\* Only what an invocation created is not on the disk.
UnsyncedIsOurs == ~synced => author \in Invocation

BaseInv == TypeOK /\ UndoneAfterFault /\ UnsyncedIsOurs

LEMMA BaseInit == Init => BaseInv
    BY AuthorAssumption, BoundsAssumption
       DEF Init, BaseInv, TypeOK, UndoneAfterFault, UnsyncedIsOurs, Content, Link, Irregular,
           Location, Ended

\* What is shown is seen.
LEMMA ShowTyped ==
    ASSUME TypeOK, NEW f \in Content, NEW who, Show(f, who)
    PROVE  seen' \in [Invocation -> SUBSET Content]
<1>1. \A i \in Invocation : seen[i] \cup (IF i \in who THEN {f} ELSE {}) \in SUBSET Content
    BY DEF TypeOK
<1>. QED
    BY <1>1 DEF Show

\* What Parsed makes of the contents it has.
LEMMA ParsedFacts ==
    /\ DOMAIN Parsed = {"absent", "default", "clipped", "custom", "linked",
                        "dangling"}
    /\ Parsed["absent"] = "default" /\ Parsed["default"] = "default"
    /\ Parsed["clipped"] = "clipped" /\ Parsed["custom"] = "custom"
    /\ Parsed["linked"] = "custom" /\ Parsed["dangling"] = "default"
    BY DEF Parsed

LEMMA BaseNext == BaseInv /\ [Next]_vars => BaseInv'
<1> SUFFICES ASSUME BaseInv, [Next]_vars PROVE BaseInv'
    OBVIOUS
<1>. USE AuthorAssumption, BoundsAssumption
<1>. USE DEF BaseInv, TypeOK, UndoneAfterFault, UnsyncedIsOurs, Content, Link, Irregular,
           Location, Ended, Goto,
           Show, bounds, disk
<1>1. ASSUME NEW i \in Invocation, Start(i) PROVE BaseInv'
    BY <1>1 DEF Start
<1>2. ASSUME NEW i \in Invocation, Stat(i) PROVE BaseInv'
    BY <1>2 DEF Stat, GoOn
<1>3. ASSUME NEW i \in Invocation, Open(i) PROVE BaseInv'
    BY <1>3, ParsedFacts DEF Open, GoOn
<1>4. ASSUME NEW i \in Invocation, Create(i) PROVE BaseInv'
  <2>1. CASE Vacant
    <3>1. /\ file' = "default" /\ author' = i /\ synced' = FALSE
          /\ pc' = [pc EXCEPT ![i] = "write"]
          /\ UNCHANGED <<edits, crashes, faults, outages, init, used, swapped>>
        BY <1>4, <2>1 DEF Create
    <3>3. seen' \in [Invocation -> SUBSET Content]
      <4>1. Show("default", Loaders) /\ "default" \in Content
        BY <1>4, <2>1 DEF Create
      <4>. QED
        BY <4>1, ShowTyped
    <3>2. edits + faults = 0 => \A j \in Invocation : pc[j] \notin {"write", "sync"}
        BY <2>1 DEF Vacant
    <3>. QED
        BY <3>1, <3>2, <3>3
  <2>2. CASE ~Vacant
    BY <1>4, <2>2 DEF Create
  <2>. QED
    BY <2>1, <2>2
<1>5. ASSUME NEW i \in Invocation, Write(i) PROVE BaseInv'
    BY <1>5 DEF Write, Fill
<1>6. ASSUME NEW i \in Invocation, WriteShort(i) PROVE BaseInv'
    BY <1>6 DEF WriteShort, Fill, Prefix
<1>7. ASSUME NEW i \in Invocation, Sync(i) PROVE BaseInv'
    BY <1>7 DEF Sync, Synced
<1>8. ASSUME NEW i \in Invocation, Undo(i) PROVE BaseInv'
  <2>1. /\ faults > 0 /\ pc' = [pc EXCEPT ![i] = "error"]
        /\ UNCHANGED <<edits, crashes, faults, outages, init, used, swapped>>
    BY <1>8 DEF Undo
  <2>2. /\ file' \in Content /\ author' \in Invocation \cup {User, Nobody}
        /\ synced' \in BOOLEAN /\ (file' = "absent" <=> author' = Nobody)
        /\ UnsyncedIsOurs'
    BY <1>8 DEF Undo
  <2>3. seen' \in [Invocation -> SUBSET Content]
    <3>1. Show(file', Loaders)
        BY <1>8 DEF Undo
    <3>. QED
        BY <2>2, <3>1, ShowTyped
  <2>4. edits' + faults' # 0 /\ faults' > 0
    BY <2>1
  <2>5. pc' \in [Invocation -> Location]
    BY <2>1
  <2>6. TypeOK'
    BY <2>1, <2>2, <2>3, <2>4, <2>5
  <2>. QED
    BY <2>2, <2>4, <2>6
<1>9. ASSUME NEW i \in Invocation, Fault(i) PROVE BaseInv'
    BY <1>9 DEF Fault, Live
<1>10. ASSUME NEW i \in Invocation, Crash(i) PROVE BaseInv'
    BY <1>10 DEF Crash, Live
<1>11. ASSUME Edit PROVE BaseInv'
    BY <1>11 DEF Edit
<1>12. ASSUME Outage PROVE BaseInv'
  <2>1. /\ outages' \in 0..MaxOutages
        /\ UNCHANGED <<edits, crashes, faults, init, used, seen, swapped>>
        /\ synced' = TRUE
        /\ pc' = [i \in Invocation |-> IF Live(i) THEN "killed" ELSE pc[i]]
    BY <1>12 DEF Outage
  <2>2. /\ file' \in Content /\ author' \in Invocation \cup {User, Nobody}
    BY <1>12 DEF Outage, Prefix
  <2>3. file' = "absent" <=> author' = Nobody
    BY <1>12 DEF Outage, Prefix
  <2>4. pc' \in [Invocation -> Location]
        /\ \A i \in Invocation : pc'[i] \notin {"write", "sync", "undo"}
    BY <2>1 DEF Live
  <2>. QED
    BY <2>1, <2>2, <2>3, <2>4
<1>13. ASSUME UNCHANGED vars PROVE BaseInv'
    BY <1>13 DEF vars
<1>. QED
    BY <1>1, <1>2, <1>3, <1>4, <1>5, <1>6, <1>7, <1>8, <1>9, <1>10, <1>11,
       <1>12, <1>13 DEF Next, Step, AllEnded

\* Every variable of Config has its type; and without edits and faults the
\* file is that of the invocation that writes it.
THEOREM TypeCorrect == Spec => []TypeOK
<1>1. BaseInv => TypeOK
    BY DEF BaseInv
<1>. QED
    BY <1>1, BaseInit, BaseNext, PTL DEF Spec

-----------------------------------------------------------------------------
(* Loading.                                                                *)

\* Who loads has seen what is there, and seen it come if it is a link that is
\* about to be opened; a clipped file comes from a fault or a
\* loss of power.
SeesTheFile ==
    \A i \in Invocation :
        /\ Loading(i) => file \in seen[i]
        /\ pc[i] = "open" /\ file \in Link => i \in swapped

ClippedIsExplained ==
    (file = "clipped" \/ \E i \in Invocation : "clipped" \in seen[i])
        => faults + outages > 0

LoadInv == SeesTheFile /\ ClippedIsExplained /\ LoadIsHonest

LEMMA LoadInit == Init => LoadInv
    BY DEF Init, LoadInv, SeesTheFile, ClippedIsExplained, LoadIsHonest,
           Loading, Content, Link, Irregular

LEMMA LoadNext == BaseInv /\ LoadInv /\ [Next]_vars => LoadInv'
<1> SUFFICES ASSUME BaseInv, LoadInv, [Next]_vars PROVE LoadInv'
    OBVIOUS
<1>. USE AuthorAssumption, BoundsAssumption
<1>. USE DEF BaseInv, TypeOK, LoadInv, SeesTheFile, ClippedIsExplained,
           LoadIsHonest,
           Loading, Loaders, Content, Link, Irregular, Location, Ended, Goto, Show, bounds, disk
<1>1. ASSUME NEW i \in Invocation, Start(i) PROVE LoadInv'
    BY <1>1 DEF Start
<1>2. ASSUME NEW i \in Invocation, Stat(i) PROVE LoadInv'
    BY <1>2 DEF Stat, GoOn
<1>3. ASSUME NEW i \in Invocation, Open(i) PROVE LoadInv'
    BY <1>3, ParsedFacts DEF Open, GoOn
<1>4. ASSUME NEW i \in Invocation, Create(i) PROVE LoadInv'
    BY <1>4 DEF Create, Vacant
<1>5. ASSUME NEW i \in Invocation, Write(i) PROVE LoadInv'
    BY <1>5 DEF Write, Fill
<1>6. ASSUME NEW i \in Invocation, WriteShort(i) PROVE LoadInv'
    BY <1>6 DEF WriteShort, Fill, Prefix
<1>7. ASSUME NEW i \in Invocation, Sync(i) PROVE LoadInv'
    BY <1>7 DEF Sync, Synced
<1>8. ASSUME NEW i \in Invocation, Undo(i) PROVE LoadInv'
    BY <1>8 DEF Undo
<1>9. ASSUME NEW i \in Invocation, Fault(i) PROVE LoadInv'
    BY <1>9 DEF Fault, Live
<1>10. ASSUME NEW i \in Invocation, Crash(i) PROVE LoadInv'
    BY <1>10 DEF Crash, Live
<1>11. ASSUME Edit PROVE LoadInv'
    BY <1>11 DEF Edit
<1>12. ASSUME Outage PROVE LoadInv'
    BY <1>12 DEF Outage, Live, Prefix
<1>13. ASSUME UNCHANGED vars PROVE LoadInv'
    BY <1>13 DEF vars
<1>. QED
    BY <1>1, <1>2, <1>3, <1>4, <1>5, <1>6, <1>7, <1>8, <1>9, <1>10, <1>11,
       <1>12, <1>13 DEF Next, Step, AllEnded

\* config.rs 236-267: no invocation goes on with a policy that the file did
\* not stand for while it was loaded.
THEOREM LoadsAreHonest == Spec => []LoadIsHonest
<1>1. LoadInv => LoadIsHonest
    BY DEF LoadInv
<1>. QED
    BY <1>1, BaseInit, BaseNext, LoadInit, LoadNext, PTL DEF Spec

-----------------------------------------------------------------------------
(* config --init.                                                          *)

\* A file has an invocation as its author only after that created it; once
\* that has written it, it is whole, and once that is done, on the disk.
WholeInv ==
    \A i \in Invocation : author = i =>
        /\ pc[i] \in {"write", "sync", "undo"} \cup Ended
        /\ pc[i] \in {"sync", "ok"} => file = "default"
        /\ pc[i] = "ok" => synced

LEMMA WholeInit == Init => WholeInv
    BY AuthorAssumption DEF Init, WholeInv

LEMMA WholeNext == BaseInv /\ WholeInv /\ [Next]_vars => WholeInv'
<1> SUFFICES ASSUME BaseInv, WholeInv, [Next]_vars PROVE WholeInv'
    OBVIOUS
<1>. USE AuthorAssumption, BoundsAssumption
<1>. USE DEF BaseInv, TypeOK, WholeInv, Content, Link, Irregular, Location, Ended, Goto,
           bounds, disk
<1>1. ASSUME NEW i \in Invocation, Start(i) PROVE WholeInv'
    BY <1>1 DEF Start
<1>2. ASSUME NEW i \in Invocation, Stat(i) PROVE WholeInv'
    BY <1>2 DEF Stat, GoOn
<1>3. ASSUME NEW i \in Invocation, Open(i) PROVE WholeInv'
    BY <1>3 DEF Open, GoOn
<1>4. ASSUME NEW i \in Invocation, Create(i) PROVE WholeInv'
    BY <1>4 DEF Create, Vacant
<1>5. ASSUME NEW i \in Invocation, Write(i) PROVE WholeInv'
    BY <1>5 DEF Write, Fill
<1>6. ASSUME NEW i \in Invocation, WriteShort(i) PROVE WholeInv'
    BY <1>6 DEF WriteShort, Fill, Prefix
<1>7. ASSUME NEW i \in Invocation, Sync(i) PROVE WholeInv'
    BY <1>7 DEF Sync, Synced
<1>8. ASSUME NEW i \in Invocation, Undo(i) PROVE WholeInv'
    BY <1>8 DEF Undo
<1>9. ASSUME NEW i \in Invocation, Fault(i) PROVE WholeInv'
    BY <1>9 DEF Fault, Live
<1>10. ASSUME NEW i \in Invocation, Crash(i) PROVE WholeInv'
    BY <1>10 DEF Crash, Live
<1>11. ASSUME Edit PROVE WholeInv'
    BY <1>11 DEF Edit
<1>12. ASSUME Outage PROVE WholeInv'
    BY <1>12 DEF Outage, Live, Prefix
<1>13. ASSUME UNCHANGED vars PROVE WholeInv'
    BY <1>13 DEF vars
<1>. QED
    BY <1>1, <1>2, <1>3, <1>4, <1>5, <1>6, <1>7, <1>8, <1>9, <1>10, <1>11,
       <1>12, <1>13 DEF Next, Step, AllEnded

\* report.rs 178: a file whose init reported success stays complete, through
\* losses of power, until somebody else changes it.
THEOREM InitsAreWhole == Spec => []InitIsWhole
<1>1. WholeInv => InitIsWhole
    BY DEF WholeInv, InitIsWhole, Ended
<1>. QED
    BY <1>1, BaseInit, BaseNext, WholeInit, WholeNext, PTL DEF Spec

\* One step: as long as nothing fails, the file that somebody created stays
\* his, and the administrator's as it is.
LEMMA OverwritesNothing ==
    ASSUME BaseInv, [Next]_vars, edits' = edits, outages' = outages,
    faults = 0,
           file # "absent"
    PROVE  author' = author /\ (author = User => file' = file)
<1>. USE AuthorAssumption, BoundsAssumption
<1>. USE DEF BaseInv, TypeOK, UndoneAfterFault, disk, bounds
<1>1. ASSUME NEW i \in Invocation, Step(i)
      PROVE author' = author /\ (author = User => file' = file)
  <2>1. CASE Create(i)
    BY <2>1 DEF Create, Vacant
  <2>2. CASE Write(i) \/ WriteShort(i)
    BY <2>2 DEF Write, WriteShort, Fill
  <2>3. CASE Undo(i)
    BY <2>3 DEF Undo
  <2>4. CASE Start(i) \/ Stat(i) \/ Open(i) \/ Sync(i) \/ Fault(i) \/ Crash(i)
    BY <2>4 DEF Start, Stat, Open, Sync, Fault, Crash
  <2>. QED
    BY <1>1, <2>1, <2>2, <2>3, <2>4 DEF Step
<1>2. CASE Edit \/ Outage
    BY <1>2 DEF Edit, Outage
<1>3. CASE UNCHANGED vars
    BY <1>3 DEF vars
<1>. QED
    BY <1>1, <1>2, <1>3 DEF Next, AllEnded

\* cli.rs 58, report.rs 174: nobody's policy file is overwritten.
THEOREM NeverOverwrites == Spec => NothingOverwritten
<1>1. BaseInv /\ [Next]_vars =>
        [edits' = edits /\ outages' = outages /\ faults = 0 /\ file # "absent"
            => author' = author /\ (author = User => file' = file)]_vars
    BY OverwritesNothing
<1>. QED
    BY <1>1, BaseInit, BaseNext, PTL DEF Spec, NothingOverwritten

=============================================================================
