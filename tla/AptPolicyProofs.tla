-------------------------- MODULE AptPolicyProofs --------------------------
(***************************************************************************)
(* What AptPolicy guarantees for any number of installers and process ids, *)
(* and any number of edits, kills, faults and losses of power.             *)
(***************************************************************************)
EXTENDS AptPolicy, TLAPS

\* A live installer has a process id, its own; and what it links is on the
\* disk.  The last holds because nobody else touches a staging file that is
\* named for a live process.
OwnPid ==
    \A i \in Installer : Live(i) =>
        /\ pid[i] \in Pid
        /\ \A j \in Installer : Live(j) /\ j # i => pid[j] # pid[i]

LinksWhatIsSynced ==
    \A i \in Installer : pc[i] = "link" => staging[pid[i]] = "policy"

FileInv == TypeOK /\ NeverTorn /\ OwnPid /\ LinksWhatIsSynced

LEMMA FileInit == Init => FileInv
    BY BoundsAssumption, NoPidAssumption
       DEF Init, FileInv, TypeOK, NeverTorn, OwnPid, LinksWhatIsSynced, Live,
           Content, Given, Refused, Draft, Location, Ended

\* One step per action: only Link and the environment change the destination.
LEMMA FileNext == FileInv /\ [Next]_vars => FileInv'
<1> SUFFICES ASSUME FileInv, [Next]_vars PROVE FileInv'
    OBVIOUS
<1>. USE NoPidAssumption, BoundsAssumption
<1>. USE DEF FileInv, TypeOK, NeverTorn, OwnPid, LinksWhatIsSynced, Live, Goto,
           Content, Given, Refused, Draft, Location, Ended, Meet, LiveNow
<1>1. ASSUME NEW i \in Installer, Start(i) PROVE FileInv'
    BY <1>1 DEF Start, Meet, environment
<1>2. ASSUME NEW i \in Installer, Inspect(i) PROVE FileInv'
    BY <1>2 DEF Inspect, environment
<1>3. ASSUME NEW i \in Installer, Read(i) PROVE FileInv'
    BY <1>3 DEF Read, environment
<1>4. ASSUME NEW i \in Installer, Create(i) PROVE FileInv'
    BY <1>4 DEF Create, Drafted, Stage, NameOf, environment
<1>5. ASSUME NEW i \in Installer, Write(i) PROVE FileInv'
    BY <1>5 DEF Write, Stage, NameOf, environment
<1>6. ASSUME NEW i \in Installer, SyncFile(i) PROVE FileInv'
    BY <1>6 DEF SyncFile, Stage, NameOf, Synced, environment
<1>7. ASSUME NEW i \in Installer, Link(i) PROVE FileInv'
    BY <1>7 DEF Link, Free, Drafted, NameOf, Meet, LiveNow, environment
<1>8. ASSUME NEW i \in Installer, LinkRefused(i) PROVE FileInv'
    BY <1>8 DEF LinkRefused, TakenIsError, Cleanup, environment
<1>9. ASSUME NEW i \in Installer, SyncDir(i) PROVE FileInv'
    BY <1>9 DEF SyncDir, DirSynced, environment
<1>10. ASSUME NEW i \in Installer, Remove(i) PROVE FileInv'
    BY <1>10 DEF Remove, Stage, NameOf, environment
<1>11. ASSUME NEW i \in Installer, Fault(i) PROVE FileInv'
    BY <1>11 DEF Fault, Cleanup, environment
<1>12. ASSUME NEW i \in Installer, Crash(i) PROVE FileInv'
    BY <1>12 DEF Crash, environment
<1>13. ASSUME Edit PROVE FileInv'
    BY <1>13 DEF Edit, Meet, LiveNow
<1>14. ASSUME Outage PROVE FileInv'
    BY <1>14 DEF Outage
<1>15. ASSUME UNCHANGED vars PROVE FileInv'
    BY <1>15 DEF vars, environment
<1>. QED
    BY <1>1, <1>2, <1>3, <1>4, <1>5, <1>6, <1>7, <1>8, <1>9, <1>10, <1>11,
       <1>12, <1>13, <1>14, <1>15 DEF Next, Step, AllEnded

\* An installer that is there while the policy is has met it; one that has
\* published, and did not fail since, as well.  One that is about to read what
\* it would have refused saw it come.
MetInv ==
    \A i \in Installer :
        /\ Live(i) /\ dest = "policy" => i \in met
        /\ pc[i] \in {"sync_dir", "remove"} /\ ~failed[i] => i \in met
        /\ pc[i] = "read" /\ dest = "foreign" => i \in swapped
        /\ pc[i] = "ok" => i \in met \cup swapped

LEMMA MetInit == Init => MetInv
    BY DEF Init, MetInv, Live, Ended

\* What an installer reports as done it has met.
LEMMA MetNext == FileInv /\ MetInv /\ [Next]_vars => MetInv'
<1> SUFFICES ASSUME FileInv, MetInv, [Next]_vars PROVE MetInv'
    OBVIOUS
<1>. USE NoPidAssumption, BoundsAssumption
<1>. USE DEF FileInv, TypeOK, OwnPid, LinksWhatIsSynced, MetInv, Live, Goto,
           Content, Given, Refused, Draft, Location, Ended
<1>1. ASSUME NEW i \in Installer, Start(i) PROVE MetInv'
    BY <1>1 DEF Start, Meet, environment
<1>2. ASSUME NEW i \in Installer, Inspect(i) PROVE MetInv'
    BY <1>2 DEF Inspect, environment
<1>3. ASSUME NEW i \in Installer, Read(i) PROVE MetInv'
    BY <1>3 DEF Read, environment
<1>4. ASSUME NEW i \in Installer, Create(i) PROVE MetInv'
    BY <1>4 DEF Create, Drafted, Stage, NameOf, environment
<1>5. ASSUME NEW i \in Installer, Write(i) PROVE MetInv'
    BY <1>5 DEF Write, Stage, NameOf, environment
<1>6. ASSUME NEW i \in Installer, SyncFile(i) PROVE MetInv'
    BY <1>6 DEF SyncFile, Stage, NameOf, Synced, environment
<1>7. ASSUME NEW i \in Installer, Link(i) PROVE MetInv'
    BY <1>7 DEF Link, Free, Drafted, NameOf, Meet, LiveNow, environment
<1>8. ASSUME NEW i \in Installer, LinkRefused(i) PROVE MetInv'
    BY <1>8 DEF LinkRefused, TakenIsError, Cleanup, environment
<1>9. ASSUME NEW i \in Installer, SyncDir(i) PROVE MetInv'
    BY <1>9 DEF SyncDir, DirSynced, environment
<1>10. ASSUME NEW i \in Installer, Remove(i) PROVE MetInv'
    BY <1>10 DEF Remove, Stage, NameOf, environment
<1>11. ASSUME NEW i \in Installer, Fault(i) PROVE MetInv'
    BY <1>11 DEF Fault, Cleanup, environment
<1>12. ASSUME NEW i \in Installer, Crash(i) PROVE MetInv'
    BY <1>12 DEF Crash, environment
<1>13. ASSUME Edit PROVE MetInv'
    BY <1>13 DEF Edit, Meet, LiveNow
<1>14. ASSUME Outage PROVE MetInv'
    BY <1>14 DEF Outage
<1>15. ASSUME UNCHANGED vars PROVE MetInv'
    BY <1>15 DEF vars, environment
<1>. QED
    BY <1>1, <1>2, <1>3, <1>4, <1>5, <1>6, <1>7, <1>8, <1>9, <1>10, <1>11,
       <1>12, <1>13, <1>14, <1>15 DEF Next, Step, AllEnded

\* The stages of an installer that has published.
Publishing == {"sync_dir", "remove", "ok"}

\* Who has published is past its link; and while the administrator stays
\* away, what was published is there, in the end on the disk.
DurableInv ==
    \A i \in linked :
        /\ pc[i] \in Publishing \cup {"error", "killed"}
        /\ edits = 0 /\ pc[i] \in Publishing => dest = "policy"
        /\ edits = 0 /\ pc[i] = "ok" => settled
        /\ edits = 0 /\ pc[i] = "remove" /\ ~failed[i] => settled

LEMMA DurableInit == Init => DurableInv
    BY DEF Init, DurableInv

\* No second link succeeds while the first one's file is there.
LEMMA DurableNext == FileInv /\ DurableInv /\ [Next]_vars => DurableInv'
<1> SUFFICES ASSUME FileInv, DurableInv, [Next]_vars PROVE DurableInv'
    OBVIOUS
<1>. USE NoPidAssumption, BoundsAssumption
<1>. USE DEF FileInv, TypeOK, LinksWhatIsSynced, DurableInv, Publishing,
           Live, Goto, Content, Given, Refused, Draft, Location, Ended
<1>1. ASSUME NEW i \in Installer, Start(i) PROVE DurableInv'
    BY <1>1 DEF Start, Meet, environment
<1>2. ASSUME NEW i \in Installer, Inspect(i) PROVE DurableInv'
    BY <1>2 DEF Inspect, environment
<1>3. ASSUME NEW i \in Installer, Read(i) PROVE DurableInv'
    BY <1>3 DEF Read, environment
<1>4. ASSUME NEW i \in Installer, Create(i) PROVE DurableInv'
    BY <1>4 DEF Create, Drafted, Stage, NameOf, environment
<1>5. ASSUME NEW i \in Installer, Write(i) PROVE DurableInv'
    BY <1>5 DEF Write, Stage, NameOf, environment
<1>6. ASSUME NEW i \in Installer, SyncFile(i) PROVE DurableInv'
    BY <1>6 DEF SyncFile, Stage, NameOf, Synced, environment
<1>7. ASSUME NEW i \in Installer, Link(i) PROVE DurableInv'
    BY <1>7 DEF Link, Free, Drafted, NameOf, Meet, LiveNow, environment
<1>8. ASSUME NEW i \in Installer, LinkRefused(i) PROVE DurableInv'
    BY <1>8 DEF LinkRefused, TakenIsError, Cleanup, environment
<1>9. ASSUME NEW i \in Installer, SyncDir(i) PROVE DurableInv'
    BY <1>9 DEF SyncDir, DirSynced, environment
<1>10. ASSUME NEW i \in Installer, Remove(i) PROVE DurableInv'
    BY <1>10 DEF Remove, Stage, NameOf, environment
<1>11. ASSUME NEW i \in Installer, Fault(i) PROVE DurableInv'
    BY <1>11 DEF Fault, Cleanup, environment
<1>12. ASSUME NEW i \in Installer, Crash(i) PROVE DurableInv'
    BY <1>12 DEF Crash, environment
<1>13. ASSUME Edit PROVE DurableInv'
    BY <1>13 DEF Edit, Meet, LiveNow
<1>14. ASSUME Outage PROVE DurableInv'
    BY <1>14 DEF Outage
<1>15. ASSUME UNCHANGED vars PROVE DurableInv'
    BY <1>15 DEF vars, environment
<1>. QED
    BY <1>1, <1>2, <1>3, <1>4, <1>5, <1>6, <1>7, <1>8, <1>9, <1>10, <1>11,
       <1>12, <1>13, <1>14, <1>15 DEF Next, Step, AllEnded

-----------------------------------------------------------------------------
(* The theorems.                                                           *)

Inv == FileInv /\ MetInv /\ DurableInv

LEMMA InvHolds == Spec => []Inv
<1>1. Init => Inv
    BY FileInit, MetInit, DurableInit DEF Inv
<1>2. Inv /\ [Next]_vars => Inv'
    BY FileNext, MetNext, DurableNext DEF Inv
<1>. QED
    BY <1>1, <1>2, PTL DEF Spec

\* Every variable of AptPolicy keeps its type; nothing is published before its
\* content is on the disk.
THEOREM TypeCorrect == Spec => []TypeOK
    BY InvHolds, PTL DEF Inv, FileInv

\* README.md 55: APT never reads a part of the policy.
THEOREM PolicyIsNeverTorn == Spec => []NeverTorn
    BY InvHolds, PTL DEF Inv, FileInv

\* lib.rs 51: success means that the policy was there during the invocation,
\* or its text in a file that came between the look at it and the reading.
THEOREM SuccessIsTrue == Spec => []OkMeansInstalled
<1>1. Inv => OkMeansInstalled
    BY DEF Inv, MetInv, OkMeansInstalled
<1>. QED
    BY <1>1, InvHolds, PTL

\* linux_policy.rs 355-357: a success that published outlives losses of power.
THEOREM PublicationIsDurable == Spec => []PublishedIsDurable
<1>1. Inv => PublishedIsDurable
    BY DEF Inv, DurableInv, Publishing, PublishedIsDurable
<1>. QED
    BY <1>1, InvHolds, PTL

\* README.md 55-56: no step of an installer changes a file that is there.
THEOREM NeverReplaces == Spec => NothingReplaced
<1> DEFINE Keeps == edits' = edits /\ outages' = outages /\ dest # "absent"
                        => dest' = dest
<1>1. Inv /\ [Next]_vars => [Keeps]_vars
  <2> SUFFICES ASSUME Inv, Next PROVE Keeps
      OBVIOUS
  <2>1. edits \in Nat /\ outages \in Nat
      BY BoundsAssumption DEF Inv, FileInv, TypeOK
  <2>2. CASE Edit
      BY <2>1, <2>2 DEF Edit
  <2>3. CASE Outage
      BY <2>1, <2>3 DEF Outage
  <2>4. CASE AllEnded
      BY <2>4 DEF AllEnded, vars
  <2>5. ASSUME NEW i \in Installer, Step(i) PROVE Keeps
      BY <2>5 DEF Step, Start, Inspect, Read, Create, Write, SyncFile, Link,
         LinkRefused, SyncDir, Remove, Fault, Crash, Free
  <2>. QED
      BY <2>2, <2>3, <2>4, <2>5 DEF Next
<1>. QED
    BY <1>1, InvHolds, PTL DEF Spec, NothingReplaced
=============================================================================
