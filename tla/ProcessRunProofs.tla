-------------------------- MODULE ProcessRunProofs --------------------------
(***************************************************************************)
(* What ProcessRun guarantees for any number of descendants, any limit,    *)
(* chunk and pipe, and both kinds of process tree.                         *)
(***************************************************************************)
EXTENDS ProcessRun, TLAPS

\* The types; what the command may still write is bounded over both streams.
TypeInv == TypeOK /\ written["out"] + written["err"] <= MaxWritten

LEMMA TypeInit == Init => TypeInv
<1> SUFFICES ASSUME Init PROVE TypeInv
    OBVIOUS
<1>. USE LeaderAssumption, SizeAssumption, TreesAssumption
<1>. USE DEF Init, MainAt, Status, ReaderAt, ReaderOver, Stream, Process
<1>1. cancelled \in BOOLEAN /\ expired \in BOOLEAN /\ armed \in BOOLEAN
    OBVIOUS
<1>2. reader \in [Stream -> ReaderAt] /\ truncated \in [Stream -> BOOLEAN]
    OBVIOUS
<1>3. kept \in [Stream -> 0..Limit] /\ pipe \in [Stream -> 0..PipeCapacity]
    OBVIOUS
<1>4. written \in [Stream -> 0..MaxWritten]
    OBVIOUS
<1>5. written["out"] + written["err"] <= MaxWritten
    OBVIOUS
<1>6. holds \in [Stream -> SUBSET Process] /\ member \in SUBSET Process
    OBVIOUS
<1>7. tree \in {"group", "job"} /\ stranger \in {"none", "alive", "killed"}
    OBVIOUS
<1>8. proc \in [Process ->
                 {"unborn", "suspended", "running", "zombie", "gone"}]
    OBVIOUS
<1>. QED
    BY <1>1, <1>2, <1>3, <1>4, <1>5, <1>6, <1>7, <1>8 DEF TypeInv, TypeOK

\* One step per action, here and below.
LEMMA TypeNext == TypeInv /\ [Next]_vars => TypeInv'
<1> SUFFICES ASSUME TypeInv, [Next]_vars PROVE TypeInv'
    OBVIOUS
<1>. USE LeaderAssumption, SizeAssumption, TreesAssumption
<1>. USE DEF TypeInv, TypeOK, MainAt, Status, ReaderAt, ReaderOver, Stream,
             Process, Alive
<1>1. ASSUME Spawn PROVE TypeInv'
    <2>. USE <1>1 DEF Spawn, Suspended, threads, processes, pipes
    <2>1. /\ cancelled' \in BOOLEAN /\ expired' \in BOOLEAN /\ armed' \in BOOLEAN
             /\ truncated' \in [Stream -> BOOLEAN]
        BY Zenon
    <2>2. /\ main' \in MainAt /\ status' \in Status /\ tree' \in {"group", "job"}
             /\ outcome' \in {"none", "ok", "error"}
             /\ stranger' \in {"none", "alive", "killed"}
             /\ exitCode' \in {"none", "success", "failure", "killed"}
             /\ proc' \in [Process -> {"unborn", "suspended", "running",
                                       "zombie", "gone"}]
             /\ member' \in SUBSET Process
             /\ holds' \in [Stream -> SUBSET Process]
             /\ reader' \in [Stream -> ReaderAt] /\ kept' \in [Stream -> 0..Limit]
             /\ pipe' \in [Stream -> 0..PipeCapacity]
             /\ written' \in [Stream -> 0..MaxWritten]
             /\ written'["out"] + written'["err"] <= MaxWritten
        BY SMT
    <2>. QED
        BY <2>1, <2>2
<1>2. ASSUME Adopt PROVE TypeInv'
    BY <1>2 DEF Adopt, Bury, threads, processes, pipes
<1>3. ASSUME StartOut PROVE TypeInv'
    BY <1>3 DEF StartOut, threads, processes, pipes
<1>4. ASSUME StartErr PROVE TypeInv'
    <2>. USE <1>4 DEF StartErr, threads, processes, pipes
    <2>1. /\ cancelled' \in BOOLEAN /\ expired' \in BOOLEAN /\ armed' \in BOOLEAN
             /\ truncated' \in [Stream -> BOOLEAN]
        BY Zenon
    <2>2. /\ main' \in MainAt /\ status' \in Status /\ tree' \in {"group", "job"}
             /\ outcome' \in {"none", "ok", "error"}
             /\ stranger' \in {"none", "alive", "killed"}
             /\ exitCode' \in {"none", "success", "failure", "killed"}
             /\ proc' \in [Process -> {"unborn", "suspended", "running",
                                       "zombie", "gone"}]
             /\ member' \in SUBSET Process
             /\ holds' \in [Stream -> SUBSET Process]
             /\ reader' \in [Stream -> ReaderAt] /\ kept' \in [Stream -> 0..Limit]
             /\ pipe' \in [Stream -> 0..PipeCapacity]
             /\ written' \in [Stream -> 0..MaxWritten]
             /\ written'["out"] + written'["err"] <= MaxWritten
        BY SMT
    <2>. QED
        BY <2>1, <2>2
<1>5. ASSUME PollExited PROVE TypeInv'
    BY <1>5 DEF PollExited, threads, processes, pipes
<1>6. ASSUME PollRunning PROVE TypeInv'
    BY <1>6 DEF PollRunning, threads, processes, pipes
<1>7. ASSUME PollAgain PROVE TypeInv'
    BY <1>7 DEF PollAgain, threads, processes, pipes
<1>8. ASSUME PollTimeout \/ PollFailed PROVE TypeInv'
    BY <1>8 DEF PollTimeout, PollFailed, threads, processes, pipes
<1>9. ASSUME Terminate PROVE TypeInv'
    <2>. USE <1>9 DEF Terminate, TerminateTree, Kill, Bury, Reached, Disarmed,
             Succeeded, threads, processes, pipes
    <2>1. /\ cancelled' \in BOOLEAN /\ expired' \in BOOLEAN /\ armed' \in BOOLEAN
             /\ truncated' \in [Stream -> BOOLEAN]
        BY Zenon
    <2>2. /\ main' \in MainAt /\ status' \in Status /\ tree' \in {"group", "job"}
             /\ outcome' \in {"none", "ok", "error"}
             /\ stranger' \in {"none", "alive", "killed"}
             /\ exitCode' \in {"none", "success", "failure", "killed"}
             /\ proc' \in [Process -> {"unborn", "suspended", "running",
                                       "zombie", "gone"}]
             /\ member' \in SUBSET Process
             /\ holds' \in [Stream -> SUBSET Process]
             /\ reader' \in [Stream -> ReaderAt] /\ kept' \in [Stream -> 0..Limit]
             /\ pipe' \in [Stream -> 0..PipeCapacity]
             /\ written' \in [Stream -> 0..MaxWritten]
             /\ written'["out"] + written'["err"] <= MaxWritten
        BY SMT
    <2>. QED
        BY <2>1, <2>2
<1>10. ASSUME Cancel PROVE TypeInv'
    BY <1>10 DEF Cancel, Kill, Bury, threads, processes, pipes
<1>11. ASSUME Reap PROVE TypeInv'
    BY <1>11 DEF Reap, threads, processes, pipes
<1>12. ASSUME JoinOut PROVE TypeInv'
    BY <1>12 DEF JoinOut, OutIsOnly, threads, processes, pipes
<1>13. ASSUME JoinErr PROVE TypeInv'
    BY <1>13 DEF JoinErr, threads, processes, pipes
<1>14. ASSUME Return PROVE TypeInv'
    <2>. USE <1>14 DEF Return, TerminateTree, Kill, Bury, Reached, Disarmed,
             Succeeded, threads, processes, pipes
    <2>1. /\ cancelled' \in BOOLEAN /\ expired' \in BOOLEAN /\ armed' \in BOOLEAN
             /\ truncated' \in [Stream -> BOOLEAN]
        BY Zenon
    <2>2. /\ main' \in MainAt /\ status' \in Status /\ tree' \in {"group", "job"}
             /\ outcome' \in {"none", "ok", "error"}
             /\ stranger' \in {"none", "alive", "killed"}
             /\ exitCode' \in {"none", "success", "failure", "killed"}
             /\ proc' \in [Process -> {"unborn", "suspended", "running",
                                       "zombie", "gone"}]
             /\ member' \in SUBSET Process
             /\ holds' \in [Stream -> SUBSET Process]
             /\ reader' \in [Stream -> ReaderAt] /\ kept' \in [Stream -> 0..Limit]
             /\ pipe' \in [Stream -> 0..PipeCapacity]
             /\ written' \in [Stream -> 0..MaxWritten]
             /\ written'["out"] + written'["err"] <= MaxWritten
        BY SMT
    <2>. QED
        BY <2>1, <2>2
<1>15. ASSUME NEW s \in Stream, Check(s) PROVE TypeInv'
    BY <1>15 DEF Check, StopsReading, threads, processes, pipes
<1>16. ASSUME NEW s \in Stream, ReadData(s) PROVE TypeInv'
    BY <1>16 DEF ReadData, HasData, Room, Smaller, threads, processes, pipes
<1>17. ASSUME NEW s \in Stream, ReadEof(s) PROVE TypeInv'
    BY <1>17 DEF ReadEof, AtEof, threads, processes, pipes
<1>18. ASSUME NEW s \in Stream, ReadNothing(s) PROVE TypeInv'
    BY <1>18 DEF ReadNothing, threads, processes, pipes
<1>19. ASSUME NEW s \in Stream, ReadError(s) PROVE TypeInv'
    BY <1>19 DEF ReadError, threads, processes, pipes
<1>20. ASSUME NEW p \in Process, NEW s \in Stream, main # "returned", Write(p, s)
       PROVE  TypeInv'
    BY <1>20 DEF Write, threads, processes, pipes
<1>21. ASSUME NEW p \in Process, NEW s \in Stream, main # "returned", CloseStream(p, s)
       PROVE  TypeInv'
    BY <1>21 DEF CloseStream, threads, processes, pipes
<1>22. ASSUME NEW p \in Process, NEW d \in Descendant, main # "returned", Fork(p, d)
       PROVE  TypeInv'
    BY <1>22 DEF Fork, threads, processes, pipes
<1>23. ASSUME NEW d \in Descendant, main # "returned", Leave(d) PROVE TypeInv'
    BY <1>23 DEF Leave, threads, processes, pipes
<1>24. ASSUME NEW d \in Descendant, main # "returned", DescendantExits(d)
       PROVE  TypeInv'
    BY <1>24 DEF DescendantExits, Bury, threads, processes, pipes
<1>25. ASSUME main # "returned", LeaderExits PROVE TypeInv'
    BY <1>25 DEF LeaderExits, Bury, threads, processes, pipes
<1>26. ASSUME Expire PROVE TypeInv'
    BY <1>26 DEF Expire, threads, processes, pipes
<1>27. ASSUME Recycle PROVE TypeInv'
    BY <1>27 DEF Recycle, threads, processes, pipes
<1>28. ASSUME UNCHANGED vars PROVE TypeInv'
    BY <1>28 DEF vars, threads, processes, pipes
<1>. QED
    BY <1>1, <1>2, <1>3, <1>4, <1>5, <1>6, <1>7, <1>8, <1>9, <1>10, <1>11,
       <1>12, <1>13, <1>14, <1>15, <1>16, <1>17, <1>18, <1>19, <1>20, <1>21,
       <1>22, <1>23, <1>24, <1>25, <1>26, <1>27, <1>28
       DEF Next, Main, Reader, Command, Returned

\* Where the main thread is says how far the readers are and what it knows of
\* the command.
Waiting == {"startOut", "startErr", "poll", "polled"}

ReadersInv ==
    /\ main \in {"spawn", "adopt", "startOut"} =>
          \A s \in Stream : reader[s] = "unstarted"
    /\ main = "startErr" => reader["err"] = "unstarted"
    /\ status = "noOut" => \A s \in Stream : reader[s] = "unstarted"
    /\ status = "noErr" => reader["err"] = "unstarted"
    /\ main \in {"spawn", "adopt"} \cup Waiting => status = "none"
    /\ main \in {"joinOut", "joinErr"} => status # "noOut"
    /\ main = "joinErr" => reader["out"] \in ReaderOver
    /\ main = "drop" =>
          \A s \in Stream : reader[s] \in {"unstarted"} \cup ReaderOver
    /\ ReadersAreJoined

LEMMA ReadersInit == Init => ReadersInv
    BY DEF Init, ReadersInv, ReadersAreJoined, Waiting, Stream

\* A reader is over before its join is.
LEMMA ReadersNext == TypeInv /\ ReadersInv /\ [Next]_vars => ReadersInv'
<1> SUFFICES ASSUME TypeInv, ReadersInv, [Next]_vars PROVE ReadersInv'
    OBVIOUS
<1>. USE LeaderAssumption, SizeAssumption, TreesAssumption
<1>. USE DEF TypeInv, TypeOK, MainAt, Status, ReaderAt, ReaderOver, Stream,
             Process, Alive,
           ReadersInv, ReadersAreJoined, Waiting
<1>1. ASSUME Spawn PROVE ReadersInv'
    BY <1>1 DEF Spawn, Suspended, threads, processes, pipes
<1>2. ASSUME Adopt PROVE ReadersInv'
    BY <1>2 DEF Adopt, Bury, threads, processes, pipes
<1>3. ASSUME StartOut PROVE ReadersInv'
    BY <1>3 DEF StartOut, threads, processes, pipes
<1>4. ASSUME StartErr PROVE ReadersInv'
    BY <1>4 DEF StartErr, threads, processes, pipes
<1>5. ASSUME PollExited PROVE ReadersInv'
    BY <1>5 DEF PollExited, threads, processes, pipes
<1>6. ASSUME PollRunning PROVE ReadersInv'
    BY <1>6 DEF PollRunning, threads, processes, pipes
<1>7. ASSUME PollAgain PROVE ReadersInv'
    BY <1>7 DEF PollAgain, threads, processes, pipes
<1>8. ASSUME PollTimeout \/ PollFailed PROVE ReadersInv'
    BY <1>8 DEF PollTimeout, PollFailed, threads, processes, pipes
<1>9. ASSUME Terminate PROVE ReadersInv'
    BY <1>9
       DEF Terminate, TerminateTree, Kill, Bury, Reached, Disarmed, threads,
           processes, pipes
<1>10. ASSUME Cancel PROVE ReadersInv'
    BY <1>10 DEF Cancel, Kill, Bury, threads, processes, pipes
<1>11. ASSUME Reap PROVE ReadersInv'
    BY <1>11 DEF Reap, threads, processes, pipes
<1>12. ASSUME JoinOut PROVE ReadersInv'
    BY <1>12 DEF JoinOut, OutIsOnly, threads, processes, pipes
<1>13. ASSUME JoinErr PROVE ReadersInv'
    BY <1>13 DEF JoinErr, threads, processes, pipes
<1>14. ASSUME Return PROVE ReadersInv'
    BY <1>14 DEF Return, threads, processes, pipes
<1>15. ASSUME NEW s \in Stream, Check(s) PROVE ReadersInv'
    BY <1>15 DEF Check, StopsReading, threads, processes, pipes
<1>16. ASSUME NEW s \in Stream, ReadData(s) PROVE ReadersInv'
    BY <1>16 DEF ReadData, HasData, Room, Smaller, threads, processes, pipes
<1>17. ASSUME NEW s \in Stream, ReadEof(s) PROVE ReadersInv'
    BY <1>17 DEF ReadEof, AtEof, threads, processes, pipes
<1>18. ASSUME NEW s \in Stream, ReadNothing(s) PROVE ReadersInv'
    BY <1>18 DEF ReadNothing, threads, processes, pipes
<1>19. ASSUME NEW s \in Stream, ReadError(s) PROVE ReadersInv'
    BY <1>19 DEF ReadError, threads, processes, pipes
<1>20. ASSUME NEW p \in Process, NEW s \in Stream, main # "returned", Write(p, s)
       PROVE  ReadersInv'
    BY <1>20 DEF Write, threads, processes, pipes
<1>21. ASSUME NEW p \in Process, NEW s \in Stream, main # "returned", CloseStream(p, s)
       PROVE  ReadersInv'
    BY <1>21 DEF CloseStream, threads, processes, pipes
<1>22. ASSUME NEW p \in Process, NEW d \in Descendant, main # "returned", Fork(p, d)
       PROVE  ReadersInv'
    BY <1>22 DEF Fork, threads, processes, pipes
<1>23. ASSUME NEW d \in Descendant, main # "returned", Leave(d)
       PROVE  ReadersInv'
    BY <1>23 DEF Leave, threads, processes, pipes
<1>24. ASSUME NEW d \in Descendant, main # "returned", DescendantExits(d)
       PROVE  ReadersInv'
    BY <1>24 DEF DescendantExits, Bury, threads, processes, pipes
<1>25. ASSUME main # "returned", LeaderExits PROVE ReadersInv'
    BY <1>25 DEF LeaderExits, Bury, threads, processes, pipes
<1>26. ASSUME Expire PROVE ReadersInv'
    BY <1>26 DEF Expire, threads, processes, pipes
<1>27. ASSUME Recycle PROVE ReadersInv'
    BY <1>27 DEF Recycle, threads, processes, pipes
<1>28. ASSUME UNCHANGED vars PROVE ReadersInv'
    BY <1>28 DEF vars, threads, processes, pipes
<1>. QED
    BY <1>1, <1>2, <1>3, <1>4, <1>5, <1>6, <1>7, <1>8, <1>9, <1>10, <1>11,
       <1>12, <1>13, <1>14, <1>15, <1>16, <1>17, <1>18, <1>19, <1>20, <1>21,
       <1>22, <1>23, <1>24, <1>25, <1>26, <1>27, <1>28
       DEF Next, Main, Reader, Command, Returned

\* The leader: when it runs, when it is reaped, and how it ended.  Members of
\* the tree and holders of a stream are alive.
LeaderInv ==
    /\ main = "spawn" => \A p \in Process : proc[p] = "unborn"
    /\ proc[Leader] = "suspended" <=> main = "adopt"
    /\ main = "adopt" => tree = "job"
    /\ main \notin {"spawn", "adopt", "returned"} => proc[Leader] # "unborn"
    /\ main \in Waiting => proc[Leader] # "gone"
    /\ main \in {"terminate", "cancel", "reap"} =>
          (proc[Leader] = "gone" <=> status = "exited")
    /\ main \in {"joinOut", "joinErr", "drop"} => proc[Leader] = "gone"
    /\ main = "returned" => proc[Leader] \in {"unborn", "gone"}
    /\ exitCode = "none" <=> proc[Leader] \in {"unborn", "suspended", "running"}
    /\ \A d \in Descendant : proc[d] \notin {"suspended", "zombie"}

LivingInv ==
    /\ \A p \in member : proc[p] = "running"
    /\ \A s \in Stream : \A p \in holds[s] : proc[p] \in {"suspended", "running"}

LEMMA LeaderInit == Init => LeaderInv /\ LivingInv
    BY LeaderAssumption
       DEF Init, LeaderInv, LivingInv, Waiting, Stream, Process

\* Only the main thread reaps.
LEMMA LeaderNext ==
    TypeInv /\ ReadersInv /\ LeaderInv /\ LivingInv /\ [Next]_vars => LeaderInv'
<1> SUFFICES ASSUME TypeInv, ReadersInv, LeaderInv, LivingInv, [Next]_vars
    PROVE  LeaderInv'
    OBVIOUS
<1>. USE LeaderAssumption, SizeAssumption, TreesAssumption
<1>. USE DEF TypeInv, TypeOK, MainAt, Status, ReaderAt, ReaderOver, Stream,
             Process, Alive,
           ReadersInv, LeaderInv, LivingInv, Waiting
<1>1. ASSUME Spawn PROVE LeaderInv'
    BY <1>1 DEF Spawn, Suspended, threads, processes, pipes
<1>2. ASSUME Adopt PROVE LeaderInv'
    BY <1>2 DEF Adopt, Bury, threads, processes, pipes
<1>3. ASSUME StartOut PROVE LeaderInv'
    BY <1>3 DEF StartOut, threads, processes, pipes
<1>4. ASSUME StartErr PROVE LeaderInv'
    BY <1>4 DEF StartErr, threads, processes, pipes
<1>5. ASSUME PollExited PROVE LeaderInv'
    BY <1>5 DEF PollExited, threads, processes, pipes
<1>6. ASSUME PollRunning PROVE LeaderInv'
    BY <1>6 DEF PollRunning, threads, processes, pipes
<1>7. ASSUME PollAgain PROVE LeaderInv'
    BY <1>7 DEF PollAgain, threads, processes, pipes
<1>8. ASSUME PollTimeout \/ PollFailed PROVE LeaderInv'
    BY <1>8 DEF PollTimeout, PollFailed, threads, processes, pipes
<1>9. ASSUME Terminate PROVE LeaderInv'
    BY <1>9
       DEF Terminate, TerminateTree, Kill, Bury, Reached, Disarmed, threads,
           processes, pipes
<1>10. ASSUME Cancel PROVE LeaderInv'
    BY <1>10 DEF Cancel, Kill, Bury, threads, processes, pipes
<1>11. ASSUME Reap PROVE LeaderInv'
    BY <1>11 DEF Reap, threads, processes, pipes
<1>12. ASSUME JoinOut PROVE LeaderInv'
    BY <1>12 DEF JoinOut, OutIsOnly, threads, processes, pipes
<1>13. ASSUME JoinErr PROVE LeaderInv'
    BY <1>13 DEF JoinErr, threads, processes, pipes
<1>14. ASSUME Return PROVE LeaderInv'
    BY <1>14
       DEF Return, TerminateTree, Kill, Bury, Reached, Disarmed, Succeeded,
           threads, processes, pipes
<1>15. ASSUME NEW s \in Stream, Check(s) PROVE LeaderInv'
    BY <1>15 DEF Check, StopsReading, threads, processes, pipes
<1>16. ASSUME NEW s \in Stream, ReadData(s) PROVE LeaderInv'
    BY <1>16 DEF ReadData, HasData, Room, Smaller, threads, processes, pipes
<1>17. ASSUME NEW s \in Stream, ReadEof(s) PROVE LeaderInv'
    BY <1>17 DEF ReadEof, AtEof, threads, processes, pipes
<1>18. ASSUME NEW s \in Stream, ReadNothing(s) PROVE LeaderInv'
    BY <1>18 DEF ReadNothing, threads, processes, pipes
<1>19. ASSUME NEW s \in Stream, ReadError(s) PROVE LeaderInv'
    BY <1>19 DEF ReadError, threads, processes, pipes
<1>20. ASSUME NEW p \in Process, NEW s \in Stream, main # "returned", Write(p, s)
       PROVE  LeaderInv'
    BY <1>20 DEF Write, threads, processes, pipes
<1>21. ASSUME NEW p \in Process, NEW s \in Stream, main # "returned", CloseStream(p, s)
       PROVE  LeaderInv'
    BY <1>21 DEF CloseStream, threads, processes, pipes
<1>22. ASSUME NEW p \in Process, NEW d \in Descendant, main # "returned", Fork(p, d)
       PROVE  LeaderInv'
    BY <1>22 DEF Fork, threads, processes, pipes
<1>23. ASSUME NEW d \in Descendant, main # "returned", Leave(d)
       PROVE  LeaderInv'
    BY <1>23 DEF Leave, threads, processes, pipes
<1>24. ASSUME NEW d \in Descendant, main # "returned", DescendantExits(d)
       PROVE  LeaderInv'
    BY <1>24 DEF DescendantExits, Bury, threads, processes, pipes
<1>25. ASSUME main # "returned", LeaderExits PROVE LeaderInv'
    BY <1>25 DEF LeaderExits, Bury, threads, processes, pipes
<1>26. ASSUME Expire PROVE LeaderInv'
    BY <1>26 DEF Expire, threads, processes, pipes
<1>27. ASSUME Recycle PROVE LeaderInv'
    BY <1>27 DEF Recycle, threads, processes, pipes
<1>28. ASSUME UNCHANGED vars PROVE LeaderInv'
    BY <1>28 DEF vars, threads, processes, pipes
<1>. QED
    BY <1>1, <1>2, <1>3, <1>4, <1>5, <1>6, <1>7, <1>8, <1>9, <1>10, <1>11,
       <1>12, <1>13, <1>14, <1>15, <1>16, <1>17, <1>18, <1>19, <1>20, <1>21,
       <1>22, <1>23, <1>24, <1>25, <1>26, <1>27, <1>28
       DEF Next, Main, Reader, Command, Returned

\* Whoever dies is buried in the same step.
LEMMA LivingNext ==
    TypeInv /\ LeaderInv /\ LivingInv /\ [Next]_vars => LivingInv'
<1> SUFFICES ASSUME TypeInv, LeaderInv, LivingInv, [Next]_vars PROVE LivingInv'
    OBVIOUS
<1>. USE LeaderAssumption, SizeAssumption, TreesAssumption
<1>. USE DEF TypeInv, TypeOK, MainAt, Status, ReaderAt, ReaderOver, Stream,
             Process, Alive,
           LeaderInv, LivingInv, Waiting
<1>1. ASSUME Spawn PROVE LivingInv'
    BY <1>1 DEF Spawn, Suspended, threads, processes, pipes
<1>2. ASSUME Adopt PROVE LivingInv'
    BY <1>2 DEF Adopt, Bury, threads, processes, pipes
<1>3. ASSUME StartOut PROVE LivingInv'
    BY <1>3 DEF StartOut, threads, processes, pipes
<1>4. ASSUME StartErr PROVE LivingInv'
    BY <1>4 DEF StartErr, threads, processes, pipes
<1>5. ASSUME PollExited PROVE LivingInv'
    BY <1>5 DEF PollExited, threads, processes, pipes
<1>6. ASSUME PollRunning PROVE LivingInv'
    BY <1>6 DEF PollRunning, threads, processes, pipes
<1>7. ASSUME PollAgain PROVE LivingInv'
    BY <1>7 DEF PollAgain, threads, processes, pipes
<1>8. ASSUME PollTimeout \/ PollFailed PROVE LivingInv'
    BY <1>8 DEF PollTimeout, PollFailed, threads, processes, pipes
<1>9. ASSUME Terminate PROVE LivingInv'
    BY <1>9
       DEF Terminate, TerminateTree, Kill, Bury, Reached, Disarmed, threads,
           processes, pipes
<1>10. ASSUME Cancel PROVE LivingInv'
    BY <1>10 DEF Cancel, Kill, Bury, threads, processes, pipes
<1>11. ASSUME Reap PROVE LivingInv'
    BY <1>11 DEF Reap, threads, processes, pipes
<1>12. ASSUME JoinOut PROVE LivingInv'
    BY <1>12 DEF JoinOut, OutIsOnly, threads, processes, pipes
<1>13. ASSUME JoinErr PROVE LivingInv'
    BY <1>13 DEF JoinErr, threads, processes, pipes
<1>14. ASSUME Return PROVE LivingInv'
    BY <1>14
       DEF Return, TerminateTree, Kill, Bury, Reached, Disarmed, Succeeded,
           threads, processes, pipes
<1>15. ASSUME NEW s \in Stream, Check(s) PROVE LivingInv'
    BY <1>15 DEF Check, StopsReading, threads, processes, pipes
<1>16. ASSUME NEW s \in Stream, ReadData(s) PROVE LivingInv'
    BY <1>16 DEF ReadData, HasData, Room, Smaller, threads, processes, pipes
<1>17. ASSUME NEW s \in Stream, ReadEof(s) PROVE LivingInv'
    BY <1>17 DEF ReadEof, AtEof, threads, processes, pipes
<1>18. ASSUME NEW s \in Stream, ReadNothing(s) PROVE LivingInv'
    BY <1>18 DEF ReadNothing, threads, processes, pipes
<1>19. ASSUME NEW s \in Stream, ReadError(s) PROVE LivingInv'
    BY <1>19 DEF ReadError, threads, processes, pipes
<1>20. ASSUME NEW p \in Process, NEW s \in Stream, main # "returned", Write(p, s)
       PROVE  LivingInv'
    BY <1>20 DEF Write, threads, processes, pipes
<1>21. ASSUME NEW p \in Process, NEW s \in Stream, main # "returned", CloseStream(p, s)
       PROVE  LivingInv'
    BY <1>21 DEF CloseStream, threads, processes, pipes
<1>22. ASSUME NEW p \in Process, NEW d \in Descendant, main # "returned", Fork(p, d)
       PROVE  LivingInv'
    BY <1>22 DEF Fork, threads, processes, pipes
<1>23. ASSUME NEW d \in Descendant, main # "returned", Leave(d)
       PROVE  LivingInv'
    BY <1>23 DEF Leave, threads, processes, pipes
<1>24. ASSUME NEW d \in Descendant, main # "returned", DescendantExits(d)
       PROVE  LivingInv'
    BY <1>24 DEF DescendantExits, Bury, threads, processes, pipes
<1>25. ASSUME main # "returned", LeaderExits PROVE LivingInv'
    BY <1>25 DEF LeaderExits, Bury, threads, processes, pipes
<1>26. ASSUME Expire PROVE LivingInv'
    BY <1>26 DEF Expire, threads, processes, pipes
<1>27. ASSUME Recycle PROVE LivingInv'
    BY <1>27 DEF Recycle, threads, processes, pipes
<1>28. ASSUME UNCHANGED vars PROVE LivingInv'
    BY <1>28 DEF vars, threads, processes, pipes
<1>. QED
    BY <1>1, <1>2, <1>3, <1>4, <1>5, <1>6, <1>7, <1>8, <1>9, <1>10, <1>11,
       <1>12, <1>13, <1>14, <1>15, <1>16, <1>17, <1>18, <1>19, <1>20, <1>21,
       <1>22, <1>23, <1>24, <1>25, <1>26, <1>27, <1>28
       DEF Next, Main, Reader, Command, Returned

\* The tree is armed until it is terminated and empty afterwards.  Everybody
\* in a job is a member; a foreign group has the number only when the leader
\* is reaped.
TreeInv ==
    /\ main \in Waiting \cup {"adopt", "terminate"} => armed
    /\ main \in {"cancel", "reap", "joinOut", "joinErr", "drop"} =>
          (armed => tree = "job")
    /\ main \in {"spawn", "adopt", "cancel", "reap", "joinOut", "joinErr",
                 "drop", "returned"} => member = {}
    /\ tree = "job" => \A p \in Process : proc[p] = "running" => p \in member
    /\ stranger # "none" => tree = "group" /\ proc[Leader] = "gone"
    /\ StrangersSpared

LEMMA TreeInit == Init => TreeInv
    BY DEF Init, TreeInv, StrangersSpared, Waiting

\* Termination is what empties it, and it may be signalled only once.
LEMMA TreeNext ==
    TypeInv /\ ReadersInv /\ LeaderInv /\ LivingInv /\ TreeInv /\ [Next]_vars => TreeInv'
<1> SUFFICES ASSUME TypeInv, ReadersInv, LeaderInv, LivingInv, TreeInv,
                    [Next]_vars
    PROVE  TreeInv'
    OBVIOUS
<1>. USE LeaderAssumption, SizeAssumption, TreesAssumption
<1>. USE DEF TypeInv, TypeOK, MainAt, Status, ReaderAt, ReaderOver, Stream,
             Process, Alive,
           ReadersInv, LeaderInv, LivingInv, TreeInv, StrangersSpared, Waiting
<1>1. ASSUME Spawn PROVE TreeInv'
    BY <1>1 DEF Spawn, Suspended, threads, processes, pipes
<1>2. ASSUME Adopt PROVE TreeInv'
    <2>. USE <1>2 DEF Adopt, Bury, threads, processes, pipes
    <2>1. \A p \in Process : proc[p] # "running"
        OBVIOUS
    <2>2. stranger' = "none"
        OBVIOUS
    <2>3. tree' = "job" =>
             \A p \in Process : proc'[p] = "running" => p \in member'
        BY <2>1
    <2>4. main' = "returned" => member' = {}
        OBVIOUS
    <2>5. main' = "startOut" => armed'
        OBVIOUS
    <2>. QED
        BY <2>2, <2>3, <2>4, <2>5
<1>3. ASSUME StartOut PROVE TreeInv'
    BY <1>3 DEF StartOut, threads, processes, pipes
<1>4. ASSUME StartErr PROVE TreeInv'
    BY <1>4 DEF StartErr, threads, processes, pipes
<1>5. ASSUME PollExited PROVE TreeInv'
    BY <1>5 DEF PollExited, threads, processes, pipes
<1>6. ASSUME PollRunning PROVE TreeInv'
    BY <1>6 DEF PollRunning, threads, processes, pipes
<1>7. ASSUME PollAgain PROVE TreeInv'
    BY <1>7 DEF PollAgain, threads, processes, pipes
<1>8. ASSUME PollTimeout \/ PollFailed PROVE TreeInv'
    BY <1>8 DEF PollTimeout, PollFailed, threads, processes, pipes
<1>9. ASSUME Terminate PROVE TreeInv'
    <2>. USE <1>9 DEF Terminate, Kill, Bury, Reached, Disarmed, threads,
             processes, pipes
    <2>1. armed
        OBVIOUS
    <2>2. Kill(member) /\ armed' = (tree = "job")
        BY <2>1 DEF TerminateTree
    <2>3. stranger' = IF stranger = "alive" THEN "killed" ELSE stranger
        BY <2>1 DEF TerminateTree
    <2>4. member' = {} /\ tree' = tree /\ main' = "cancel" /\ status' = status
        BY <2>2
    <2>5. ASSUME NEW p \in Process PROVE tree' = "job" => proc'[p] # "running"
        BY <2>2
    <2>6. stranger # "none" =>
             status = "exited" /\ tree = "group" /\ proc'[Leader] = "gone"
        BY <2>2
    <2>7. stranger' # "none" => stranger # "none"
        BY <2>3
    <2>. QED
        BY <2>2, <2>4, <2>5, <2>6, <2>7
<1>10. ASSUME Cancel PROVE TreeInv'
    BY <1>10 DEF Cancel, Kill, Bury, threads, processes, pipes
<1>11. ASSUME Reap PROVE TreeInv'
    BY <1>11 DEF Reap, threads, processes, pipes
<1>12. ASSUME JoinOut PROVE TreeInv'
    BY <1>12 DEF JoinOut, OutIsOnly, threads, processes, pipes
<1>13. ASSUME JoinErr PROVE TreeInv'
    BY <1>13 DEF JoinErr, threads, processes, pipes
<1>14. ASSUME Return PROVE TreeInv'
    BY <1>14
       DEF Return, TerminateTree, Kill, Bury, Reached, Disarmed, Succeeded,
           threads, processes, pipes
<1>15. ASSUME NEW s \in Stream, Check(s) PROVE TreeInv'
    BY <1>15 DEF Check, StopsReading, threads, processes, pipes
<1>16. ASSUME NEW s \in Stream, ReadData(s) PROVE TreeInv'
    BY <1>16 DEF ReadData, HasData, Room, Smaller, threads, processes, pipes
<1>17. ASSUME NEW s \in Stream, ReadEof(s) PROVE TreeInv'
    BY <1>17 DEF ReadEof, AtEof, threads, processes, pipes
<1>18. ASSUME NEW s \in Stream, ReadNothing(s) PROVE TreeInv'
    BY <1>18 DEF ReadNothing, threads, processes, pipes
<1>19. ASSUME NEW s \in Stream, ReadError(s) PROVE TreeInv'
    BY <1>19 DEF ReadError, threads, processes, pipes
<1>20. ASSUME NEW p \in Process, NEW s \in Stream, main # "returned", Write(p, s)
       PROVE  TreeInv'
    BY <1>20 DEF Write, threads, processes, pipes
<1>21. ASSUME NEW p \in Process, NEW s \in Stream, main # "returned", CloseStream(p, s)
       PROVE  TreeInv'
    BY <1>21 DEF CloseStream, threads, processes, pipes
<1>22. ASSUME NEW p \in Process, NEW d \in Descendant, main # "returned", Fork(p, d)
       PROVE  TreeInv'
    BY <1>22 DEF Fork, threads, processes, pipes
<1>23. ASSUME NEW d \in Descendant, main # "returned", Leave(d) PROVE TreeInv'
    BY <1>23 DEF Leave, threads, processes, pipes
<1>24. ASSUME NEW d \in Descendant, main # "returned", DescendantExits(d)
       PROVE  TreeInv'
    BY <1>24 DEF DescendantExits, Bury, threads, processes, pipes
<1>25. ASSUME main # "returned", LeaderExits PROVE TreeInv'
    BY <1>25 DEF LeaderExits, Bury, threads, processes, pipes
<1>26. ASSUME Expire PROVE TreeInv'
    BY <1>26 DEF Expire, threads, processes, pipes
<1>27. ASSUME Recycle PROVE TreeInv'
    BY <1>27 DEF Recycle, threads, processes, pipes
<1>28. ASSUME UNCHANGED vars PROVE TreeInv'
    BY <1>28 DEF vars, threads, processes, pipes
<1>. QED
    BY <1>1, <1>2, <1>3, <1>4, <1>5, <1>6, <1>7, <1>8, <1>9, <1>10, <1>11,
       <1>12, <1>13, <1>14, <1>15, <1>16, <1>17, <1>18, <1>19, <1>20, <1>21,
       <1>22, <1>23, <1>24, <1>25, <1>26, <1>27, <1>28
       DEF Next, Main, Reader, Command, Returned

\* What a reader took is what was written and is not in the pipe any more; it
\* kept the first Limit of it and marked the rest.  At the end of a stream
\* nobody can write to it again.
Taken(s) == written[s] - pipe[s]

StreamInv ==
    \A s \in Stream :
        /\ pipe[s] <= written[s]
        /\ kept[s] = Smaller(Limit, Taken(s))
        /\ truncated[s] <=> Taken(s) > Limit
        /\ reader[s] = "eof" => pipe[s] = 0 /\ holds[s] = {}

LEMMA StreamInit == Init => StreamInv
    BY SizeAssumption DEF Init, StreamInv, Taken, Smaller, Stream

\* A read of n units, of which as many are kept as there is room for.
LEMMA RoomIsExact ==
    ASSUME NEW k \in Nat, NEW taken \in Nat, NEW n \in Nat \ {0},
           Limit \in Nat, k = Smaller(Limit, taken)
    PROVE  /\ k + Room(k, n) = Smaller(Limit, taken + n)
           /\ (taken > Limit \/ Room(k, n) < n) <=> taken + n > Limit
    BY DEF Smaller, Room

LEMMA ReadDataCounts ==
    ASSUME TypeInv, StreamInv, NEW s \in Stream, ReadData(s)
    PROVE  StreamInv'
<1>1. PICK n \in 1..Smaller(Chunk, pipe[s]) :
          /\ pipe' = [pipe EXCEPT ![s] = @ - n]
          /\ kept' = [kept EXCEPT ![s] = @ + Room(kept[s], n)]
          /\ truncated' = [truncated EXCEPT ![s] = @ \/ Room(kept[s], n) < n]
    BY DEF ReadData
<1>2. /\ reader' = [reader EXCEPT ![s] = "check"]
      /\ holds' = holds /\ written' = written
    BY DEF ReadData, processes
<1>3. /\ pipe \in [Stream -> Nat] /\ written \in [Stream -> Nat]
      /\ kept \in [Stream -> Nat] /\ Limit \in Nat /\ Chunk \in Nat
      /\ reader \in [Stream -> ReaderAt] /\ truncated \in [Stream -> BOOLEAN]
    BY SizeAssumption DEF TypeInv, TypeOK
<1>4. n \in Nat \ {0} /\ n <= pipe[s]
    BY <1>1, <1>3 DEF Smaller
<1>5. /\ Taken(s) \in Nat /\ Taken(s)' = Taken(s) + n
      /\ pipe'[s] <= written'[s]
    BY <1>1, <1>2, <1>3, <1>4 DEF Taken, StreamInv
<1>6. kept'[s] = Smaller(Limit, Taken(s)')
    BY <1>1, <1>3, <1>4, <1>5, RoomIsExact DEF StreamInv
<1>7. truncated'[s] <=> Taken(s)' > Limit
    <2>1. truncated'[s] <=> (truncated[s] \/ Room(kept[s], n) < n)
        BY <1>1, <1>3
    <2>2. truncated[s] <=> Taken(s) > Limit
        BY DEF StreamInv
    <2>3. (Taken(s) > Limit \/ Room(kept[s], n) < n) <=> Taken(s) + n > Limit
        BY <1>3, <1>4, <1>5, RoomIsExact DEF StreamInv
    <2>. QED
        BY <2>1, <2>2, <2>3, <1>5
<1>8. ASSUME NEW t \in Stream, t # s
      PROVE /\ pipe'[t] = pipe[t] /\ kept'[t] = kept[t] /\ Taken(t)' = Taken(t)
            /\ truncated'[t] = truncated[t] /\ reader'[t] = reader[t]
    BY <1>1, <1>2, <1>3, <1>8 DEF Taken
<1>9. reader'[s] # "eof"
    BY <1>2, <1>3
<1>. QED
    BY <1>2, <1>5, <1>6, <1>7, <1>8, <1>9 DEF StreamInv

\* A read moves units from the pipe to the reader, and keeps count.
LEMMA StreamNext ==
    TypeInv /\ ReadersInv /\ StreamInv /\ [Next]_vars => StreamInv'
<1> SUFFICES ASSUME TypeInv, ReadersInv, StreamInv, [Next]_vars
    PROVE  StreamInv'
    OBVIOUS
<1>. USE LeaderAssumption, SizeAssumption, TreesAssumption
<1>. USE DEF TypeInv, TypeOK, MainAt, Status, ReaderAt, ReaderOver, Stream,
             Process, Alive,
           ReadersInv, StreamInv, Taken, Smaller, Waiting
<1>1. ASSUME Spawn PROVE StreamInv'
    BY <1>1 DEF Spawn, Suspended, threads, processes, pipes
<1>2. ASSUME Adopt PROVE StreamInv'
    BY <1>2 DEF Adopt, Bury, threads, processes, pipes
<1>3. ASSUME StartOut PROVE StreamInv'
    BY <1>3 DEF StartOut, threads, processes, pipes
<1>4. ASSUME StartErr PROVE StreamInv'
    BY <1>4 DEF StartErr, threads, processes, pipes
<1>5. ASSUME PollExited PROVE StreamInv'
    BY <1>5 DEF PollExited, threads, processes, pipes
<1>6. ASSUME PollRunning PROVE StreamInv'
    BY <1>6 DEF PollRunning, threads, processes, pipes
<1>7. ASSUME PollAgain PROVE StreamInv'
    BY <1>7 DEF PollAgain, threads, processes, pipes
<1>8. ASSUME PollTimeout \/ PollFailed PROVE StreamInv'
    BY <1>8 DEF PollTimeout, PollFailed, threads, processes, pipes
<1>9. ASSUME Terminate PROVE StreamInv'
    BY <1>9
       DEF Terminate, TerminateTree, Kill, Bury, Reached, Disarmed, threads,
           processes, pipes
<1>10. ASSUME Cancel PROVE StreamInv'
    BY <1>10 DEF Cancel, Kill, Bury, threads, processes, pipes
<1>11. ASSUME Reap PROVE StreamInv'
    BY <1>11 DEF Reap, threads, processes, pipes
<1>12. ASSUME JoinOut PROVE StreamInv'
    BY <1>12 DEF JoinOut, OutIsOnly, threads, processes, pipes
<1>13. ASSUME JoinErr PROVE StreamInv'
    BY <1>13 DEF JoinErr, threads, processes, pipes
<1>14. ASSUME Return PROVE StreamInv'
    BY <1>14
       DEF Return, TerminateTree, Kill, Bury, Reached, Disarmed, Succeeded,
           threads, processes, pipes
<1>15. ASSUME NEW s \in Stream, Check(s) PROVE StreamInv'
    BY <1>15 DEF Check, StopsReading, threads, processes, pipes
<1>16. ASSUME NEW s \in Stream, ReadData(s) PROVE StreamInv'
    BY <1>16, ReadDataCounts
<1>17. ASSUME NEW s \in Stream, ReadEof(s) PROVE StreamInv'
    BY <1>17 DEF ReadEof, AtEof, threads, processes, pipes
<1>18. ASSUME NEW s \in Stream, ReadNothing(s) PROVE StreamInv'
    BY <1>18 DEF ReadNothing, threads, processes, pipes
<1>19. ASSUME NEW s \in Stream, ReadError(s) PROVE StreamInv'
    BY <1>19 DEF ReadError, threads, processes, pipes
<1>20. ASSUME NEW p \in Process, NEW s \in Stream, main # "returned", Write(p, s)
       PROVE  StreamInv'
    BY <1>20 DEF Write, threads, processes, pipes
<1>21. ASSUME NEW p \in Process, NEW s \in Stream, main # "returned", CloseStream(p, s)
       PROVE  StreamInv'
    BY <1>21 DEF CloseStream, threads, processes, pipes
<1>22. ASSUME NEW p \in Process, NEW d \in Descendant, main # "returned", Fork(p, d)
       PROVE  StreamInv'
    BY <1>22 DEF Fork, threads, processes, pipes
<1>23. ASSUME NEW d \in Descendant, main # "returned", Leave(d)
       PROVE  StreamInv'
    BY <1>23 DEF Leave, threads, processes, pipes
<1>24. ASSUME NEW d \in Descendant, main # "returned", DescendantExits(d)
       PROVE  StreamInv'
    BY <1>24 DEF DescendantExits, Bury, threads, processes, pipes
<1>25. ASSUME main # "returned", LeaderExits PROVE StreamInv'
    BY <1>25 DEF LeaderExits, Bury, threads, processes, pipes
<1>26. ASSUME Expire PROVE StreamInv'
    BY <1>26 DEF Expire, threads, processes, pipes
<1>27. ASSUME Recycle PROVE StreamInv'
    BY <1>27 DEF Recycle, threads, processes, pipes
<1>28. ASSUME UNCHANGED vars PROVE StreamInv'
    BY <1>28 DEF vars, threads, processes, pipes
<1>. QED
    BY <1>1, <1>2, <1>3, <1>4, <1>5, <1>6, <1>7, <1>8, <1>9, <1>10, <1>11,
       <1>12, <1>13, <1>14, <1>15, <1>16, <1>17, <1>18, <1>19, <1>20, <1>21,
       <1>22, <1>23, <1>24, <1>25, <1>26, <1>27, <1>28
       DEF Next, Main, Reader, Command, Returned

\* An answer is given once, with the tree gone.
AnswerInv ==
    /\ outcome = "none" <=> main # "returned"
    /\ outcome = "ok" => Succeeded

LEMMA AnswerInit == Init => AnswerInv
    BY DEF Init, AnswerInv

\* Only Return says ok, and nothing changes after it.
LEMMA AnswerNext ==
    TypeInv /\ LeaderInv /\ LivingInv /\ TreeInv /\ AnswerInv /\ [Next]_vars => AnswerInv'
<1> SUFFICES ASSUME TypeInv, LeaderInv, LivingInv, TreeInv, AnswerInv,
                    [Next]_vars
    PROVE  AnswerInv'
    OBVIOUS
<1>. USE LeaderAssumption, SizeAssumption, TreesAssumption
<1>. USE DEF TypeInv, TypeOK, MainAt, Status, ReaderAt, ReaderOver, Stream,
             Process, Alive,
           LeaderInv, LivingInv, TreeInv, AnswerInv, Succeeded, Waiting
<1>1. ASSUME Spawn PROVE AnswerInv'
    BY <1>1 DEF Spawn, Suspended, threads, processes, pipes
<1>2. ASSUME Adopt PROVE AnswerInv'
    BY <1>2 DEF Adopt, Bury, threads, processes, pipes
<1>3. ASSUME StartOut PROVE AnswerInv'
    BY <1>3 DEF StartOut, threads, processes, pipes
<1>4. ASSUME StartErr PROVE AnswerInv'
    BY <1>4 DEF StartErr, threads, processes, pipes
<1>5. ASSUME PollExited PROVE AnswerInv'
    BY <1>5 DEF PollExited, threads, processes, pipes
<1>6. ASSUME PollRunning PROVE AnswerInv'
    BY <1>6 DEF PollRunning, threads, processes, pipes
<1>7. ASSUME PollAgain PROVE AnswerInv'
    BY <1>7 DEF PollAgain, threads, processes, pipes
<1>8. ASSUME PollTimeout \/ PollFailed PROVE AnswerInv'
    BY <1>8 DEF PollTimeout, PollFailed, threads, processes, pipes
<1>9. ASSUME Terminate PROVE AnswerInv'
    BY <1>9
       DEF Terminate, TerminateTree, Kill, Bury, Reached, Disarmed, threads,
           processes, pipes
<1>10. ASSUME Cancel PROVE AnswerInv'
    BY <1>10 DEF Cancel, Kill, Bury, threads, processes, pipes
<1>11. ASSUME Reap PROVE AnswerInv'
    BY <1>11 DEF Reap, threads, processes, pipes
<1>12. ASSUME JoinOut PROVE AnswerInv'
    BY <1>12 DEF JoinOut, OutIsOnly, threads, processes, pipes
<1>13. ASSUME JoinErr PROVE AnswerInv'
    BY <1>13 DEF JoinErr, threads, processes, pipes
<1>14. ASSUME Return PROVE AnswerInv'
    BY <1>14
       DEF Return, TerminateTree, Kill, Bury, Reached, Disarmed, Succeeded,
           threads, processes, pipes
<1>15. ASSUME NEW s \in Stream, Check(s) PROVE AnswerInv'
    BY <1>15 DEF Check, StopsReading, threads, processes, pipes
<1>16. ASSUME NEW s \in Stream, ReadData(s) PROVE AnswerInv'
    BY <1>16 DEF ReadData, HasData, Room, Smaller, threads, processes, pipes
<1>17. ASSUME NEW s \in Stream, ReadEof(s) PROVE AnswerInv'
    BY <1>17 DEF ReadEof, AtEof, threads, processes, pipes
<1>18. ASSUME NEW s \in Stream, ReadNothing(s) PROVE AnswerInv'
    BY <1>18 DEF ReadNothing, threads, processes, pipes
<1>19. ASSUME NEW s \in Stream, ReadError(s) PROVE AnswerInv'
    BY <1>19 DEF ReadError, threads, processes, pipes
<1>20. ASSUME NEW p \in Process, NEW s \in Stream, main # "returned", Write(p, s)
       PROVE  AnswerInv'
    BY <1>20 DEF Write, threads, processes, pipes
<1>21. ASSUME NEW p \in Process, NEW s \in Stream, main # "returned", CloseStream(p, s)
       PROVE  AnswerInv'
    BY <1>21 DEF CloseStream, threads, processes, pipes
<1>22. ASSUME NEW p \in Process, NEW d \in Descendant, main # "returned", Fork(p, d)
       PROVE  AnswerInv'
    BY <1>22 DEF Fork, threads, processes, pipes
<1>23. ASSUME NEW d \in Descendant, main # "returned", Leave(d)
       PROVE  AnswerInv'
    BY <1>23 DEF Leave, threads, processes, pipes
<1>24. ASSUME NEW d \in Descendant, main # "returned", DescendantExits(d)
       PROVE  AnswerInv'
    BY <1>24 DEF DescendantExits, Bury, threads, processes, pipes
<1>25. ASSUME main # "returned", LeaderExits PROVE AnswerInv'
    BY <1>25 DEF LeaderExits, Bury, threads, processes, pipes
<1>26. ASSUME Expire PROVE AnswerInv'
    BY <1>26 DEF Expire, threads, processes, pipes
<1>27. ASSUME Recycle PROVE AnswerInv'
    BY <1>27 DEF Recycle, threads, processes, pipes
<1>28. ASSUME UNCHANGED vars PROVE AnswerInv'
    BY <1>28 DEF vars, threads, processes, pipes
<1>. QED
    BY <1>1, <1>2, <1>3, <1>4, <1>5, <1>6, <1>7, <1>8, <1>9, <1>10, <1>11,
       <1>12, <1>13, <1>14, <1>15, <1>16, <1>17, <1>18, <1>19, <1>20, <1>21,
       <1>22, <1>23, <1>24, <1>25, <1>26, <1>27, <1>28
       DEF Next, Main, Reader, Command, Returned

Inv == /\ TypeInv /\ ReadersInv /\ LeaderInv /\ LivingInv /\ TreeInv
       /\ StreamInv /\ AnswerInv

\* The conjunction is inductive.
LEMMA Invariance == Spec => []Inv
<1>1. Init => Inv
    BY TypeInit, ReadersInit, LeaderInit, TreeInit, StreamInit, AnswerInit
       DEF Inv
<1>2. Inv /\ [Next]_vars => Inv'
    BY TypeNext, ReadersNext, LeaderNext, LivingNext, TreeNext, StreamNext,
       AnswerNext
       DEF Inv
<1>. QED
    BY <1>1, <1>2, PTL DEF Spec

\* Every variable keeps its type: the count of what is kept stays within the
\* limit and never wraps.
THEOREM TypeCorrect == Spec => []TypeOK
<1>1. Inv => TypeOK
    BY DEF Inv, TypeInv
<1>. QED
    BY <1>1, Invariance, PTL

\* process.rs 101-106: on every way out of run the tree is empty and the
\* command reaped.
THEOREM NothingIsLeft == Spec => []TreeIsGone
<1>1. Inv => TreeIsGone
    BY DEF Inv, TreeInv, LeaderInv, TreeIsGone
<1>. QED
    BY <1>1, Invariance, PTL

\* os/windows.rs 149-152: in a job that is everybody the command started.
THEOREM JobIsComplete == Spec => []NothingEscapesJob
<1>1. Inv => NothingEscapesJob
    BY DEF Inv, TreeInv, NothingEscapesJob, Alive
<1>. QED
    BY <1>1, Invariance, PTL

\* os/unix.rs 78-82: a foreign group under the same number is in danger only
\* when the command had ended by itself.
THEOREM NumberIsOwned == Spec => []StrangersSpared
<1>1. Inv => StrangersSpared
    BY DEF Inv, TreeInv
<1>. QED
    BY <1>1, Invariance, PTL

\* process.rs 107-114: no reader outlives run.
THEOREM ReadersEnd == Spec => []ReadersAreJoined
<1>1. Inv => ReadersAreJoined
    BY DEF Inv, ReadersInv
<1>. QED
    BY <1>1, Invariance, PTL

\* process.rs 115-127: Ok means success and complete output, or output marked
\* as cut, whatever the sizes are.
THEOREM OkIsWhole == Spec => []OkIsComplete
<1>1. Inv => OkIsComplete
    <2> SUFFICES ASSUME Inv, outcome = "ok" PROVE OkIsComplete
        BY DEF OkIsComplete
    <2>1. exitCode = "success" /\ \A s \in Stream : reader[s] = "eof"
        BY DEF Inv, AnswerInv, Succeeded
    <2>2. ASSUME NEW s \in Stream
          PROVE /\ kept[s] = Smaller(Limit, written[s])
                /\ truncated[s] <=> written[s] > Limit
        <3>1. Taken(s) = written[s]
            BY <2>1 DEF Inv, StreamInv, TypeInv, TypeOK, Taken
        <3>. QED
            BY <3>1 DEF Inv, StreamInv
    <2>. QED
        BY <2>1, <2>2 DEF OkIsComplete
<1>. QED
    BY <1>1, Invariance, PTL

\* Each step of run, its readers and the processes is one of NativeCommand's
\* or changes nothing the caller could see.
CallerStep == [Native!Next]_(Native!vars)

LEMMA StepRefinement == Inv /\ [Next]_vars => CallerStep
<1> SUFFICES ASSUME Inv, [Next]_vars PROVE CallerStep
    OBVIOUS
<1>. USE LeaderAssumption
<1>. USE DEF Inv, TypeInv, TypeOK, LeaderInv, TreeInv, AnswerInv, Succeeded,
             Process,
           Alive, Waiting, CallerStep, ChildState, Native!Next, Native!vars,
           Native!Launch, Native!Refuse, Native!End, Native!Hear, Native!Stop
<1>1. ASSUME Spawn PROVE CallerStep
    BY <1>1 DEF Spawn, Suspended, threads, processes, pipes
<1>2. ASSUME Adopt PROVE CallerStep
    BY <1>2 DEF Adopt, Bury, threads, processes, pipes
<1>3. ASSUME StartOut PROVE CallerStep
    BY <1>3 DEF StartOut, threads, processes, pipes
<1>4. ASSUME StartErr PROVE CallerStep
    BY <1>4 DEF StartErr, threads, processes, pipes
<1>5. ASSUME PollExited PROVE CallerStep
    BY <1>5 DEF PollExited, threads, processes, pipes
<1>6. ASSUME PollRunning PROVE CallerStep
    BY <1>6 DEF PollRunning, threads, processes, pipes
<1>7. ASSUME PollAgain PROVE CallerStep
    BY <1>7 DEF PollAgain, threads, processes, pipes
<1>8. ASSUME PollTimeout \/ PollFailed PROVE CallerStep
    BY <1>8 DEF PollTimeout, PollFailed, threads, processes, pipes
<1>9. ASSUME Terminate PROVE CallerStep
    BY <1>9
       DEF Terminate, TerminateTree, Kill, Bury, Reached, Disarmed, threads,
           processes, pipes
<1>10. ASSUME Cancel PROVE CallerStep
    BY <1>10 DEF Cancel, Kill, Bury, threads, processes, pipes
<1>11. ASSUME Reap PROVE CallerStep
    BY <1>11 DEF Reap, threads, processes, pipes
<1>12. ASSUME JoinOut PROVE CallerStep
    BY <1>12 DEF JoinOut, OutIsOnly, threads, processes, pipes
<1>13. ASSUME JoinErr PROVE CallerStep
    BY <1>13 DEF JoinErr, threads, processes, pipes
<1>14. ASSUME Return PROVE CallerStep
    BY <1>14
       DEF Return, TerminateTree, Kill, Bury, Reached, Disarmed, Succeeded,
           threads, processes, pipes
<1>15. ASSUME NEW s \in Stream, Check(s) PROVE CallerStep
    BY <1>15 DEF Check, StopsReading, threads, processes, pipes
<1>16. ASSUME NEW s \in Stream, ReadData(s) PROVE CallerStep
    BY <1>16 DEF ReadData, HasData, Room, Smaller, threads, processes, pipes
<1>17. ASSUME NEW s \in Stream, ReadEof(s) PROVE CallerStep
    BY <1>17 DEF ReadEof, AtEof, threads, processes, pipes
<1>18. ASSUME NEW s \in Stream, ReadNothing(s) PROVE CallerStep
    BY <1>18 DEF ReadNothing, threads, processes, pipes
<1>19. ASSUME NEW s \in Stream, ReadError(s) PROVE CallerStep
    BY <1>19 DEF ReadError, threads, processes, pipes
<1>20. ASSUME NEW p \in Process, NEW s \in Stream, main # "returned", Write(p, s)
       PROVE  CallerStep
    BY <1>20 DEF Write, threads, processes, pipes
<1>21. ASSUME NEW p \in Process, NEW s \in Stream, main # "returned", CloseStream(p, s)
       PROVE  CallerStep
    BY <1>21 DEF CloseStream, threads, processes, pipes
<1>22. ASSUME NEW p \in Process, NEW d \in Descendant, main # "returned", Fork(p, d)
       PROVE  CallerStep
    BY <1>22 DEF Fork, threads, processes, pipes
<1>23. ASSUME NEW d \in Descendant, main # "returned", Leave(d)
       PROVE  CallerStep
    BY <1>23 DEF Leave, threads, processes, pipes
<1>24. ASSUME NEW d \in Descendant, main # "returned", DescendantExits(d)
       PROVE  CallerStep
    BY <1>24 DEF DescendantExits, Bury, threads, processes, pipes
<1>25. ASSUME main # "returned", LeaderExits PROVE CallerStep
    BY <1>25 DEF LeaderExits, Bury, threads, processes, pipes
<1>26. ASSUME Expire PROVE CallerStep
    BY <1>26 DEF Expire, threads, processes, pipes
<1>27. ASSUME Recycle PROVE CallerStep
    BY <1>27 DEF Recycle, threads, processes, pipes
<1>28. ASSUME UNCHANGED vars PROVE CallerStep
    BY <1>28 DEF vars, threads, processes, pipes
<1>. QED
    BY <1>1, <1>2, <1>3, <1>4, <1>5, <1>6, <1>7, <1>8, <1>9, <1>10, <1>11,
       <1>12, <1>13, <1>14, <1>15, <1>16, <1>17, <1>18, <1>19, <1>20, <1>21,
       <1>22, <1>23, <1>24, <1>25, <1>26, <1>27, <1>28
       DEF Next, Main, Reader, Command, Returned


\* process.rs 47-128: run implements NativeCommand.
THEOREM RunIsACommand == Spec => KeepsCommand
<1>1. Init => Native!Init
    BY LeaderAssumption DEF Init, Native!Init, ChildState, Process
<1>2. Inv /\ [Next]_vars => [Native!Next]_(Native!vars)
    BY StepRefinement DEF CallerStep
<1>. QED
    BY <1>1, <1>2, Invariance, PTL DEF Spec, KeepsCommand, Native!Spec

-----------------------------------------------------------------------------
(* Why run returns, as far as it is not a matter of fairness.              *)

\* The steps the main thread may still take once the deadline has passed, and
\* those of the reader of s.
MainLeft ==
    CASE main = "returned"  -> 0
      [] main = "drop"      -> 1
      [] main = "joinErr"   -> 2
      [] main = "joinOut"   -> 3
      [] main = "reap"      -> 4
      [] main = "cancel"    -> 5
      [] main = "terminate" -> 6
      [] main = "polled"    -> 7
      [] main = "poll"      -> 8
      [] main = "startErr"  -> 9
      [] main = "startOut"  -> 10
      [] main = "adopt"     -> 11
      [] main = "spawn"     -> 12

ReaderLeft(s) ==
    CASE reader[s] \in ReaderOver  -> 0
      [] reader[s] = "check"       -> 1
      [] reader[s] = "read"        -> 2
      [] reader[s] = "unstarted"   -> 3

\* After the deadline every step of a thread brings that thread nearer to its
\* end, and nothing anybody else does takes it further away.
DeadlineBinds ==
    [][expired =>
        /\ MainLeft' <= MainLeft
        /\ Main => MainLeft' < MainLeft
        /\ \A s \in Stream :
            /\ ReaderLeft(s)' <= ReaderLeft(s)
            /\ Reader(s) => ReaderLeft(s)' < ReaderLeft(s)]_vars

\* What the main thread waits for comes: the poll always has an answer, the
\* leader that is reaped is dead, and the readers that are joined were started.
WaitsEnd ==
    /\ main = "poll" => proc[Leader] \in {"running", "zombie"}
    /\ main = "reap" => proc[Leader] # "running"
    /\ main = "joinOut" => reader["out"] # "unstarted"
    /\ main = "joinErr" => reader["err"] # "unstarted"


\* What it takes for that: a reader is started unless its thread could not be,
\* and then it is not joined; whoever is to be reaped was killed.
BeforeOut == {"spawn", "adopt", "startOut", "returned"}

WaitInv ==
    /\ main = "reap" => proc[Leader] # "running"
    /\ main \notin BeforeOut /\ status # "noOut" => reader["out"] # "unstarted"
    /\ main \notin BeforeOut \cup {"startErr"} /\ status \notin {"noOut", "noErr"} =>
          reader["err"] # "unstarted"
    /\ main = "joinErr" => status # "noErr"

LEMMA CommandAndWorld ==
    ASSUME Command \/ Expire \/ Recycle \/ UNCHANGED vars
    PROVE  /\ UNCHANGED <<main, status, reader>>
           /\ proc[Leader] # "running" => proc'[Leader] # "running"
<1>1. CASE Command
    <2>1. UNCHANGED <<main, status, reader>>
      BY <1>1 DEF Command, Write, CloseStream, Fork, Leave, DescendantExits,
         LeaderExits, threads
    <2>2. ASSUME NEW p \in Process, NEW d \in Descendant, Fork(p, d)
          PROVE  proc[Leader] # "running" => proc'[Leader] # "running"
      BY <2>2, LeaderAssumption DEF Fork
    <2>3. ASSUME NEW d \in Descendant, DescendantExits(d)
          PROVE  proc[Leader] # "running" => proc'[Leader] # "running"
      BY <2>3, LeaderAssumption DEF DescendantExits
    <2>4. ASSUME LeaderExits
          PROVE  proc[Leader] # "running" => proc'[Leader] # "running"
      BY <2>4 DEF LeaderExits, Alive
    <2>5. ASSUME NEW p \in Process, NEW s \in Stream,
                 Write(p, s) \/ CloseStream(p, s)
          PROVE  UNCHANGED proc
      BY <2>5 DEF Write, CloseStream, processes
    <2>6. ASSUME NEW d \in Descendant, Leave(d) PROVE UNCHANGED proc
      BY <2>6 DEF Leave
    <2>. QED
      BY <1>1, <2>1, <2>2, <2>3, <2>4, <2>5, <2>6 DEF Command
<1>2. CASE Expire \/ Recycle \/ UNCHANGED vars
    BY <1>2 DEF Expire, Recycle, vars, threads, processes
<1>. QED
    BY <1>1, <1>2

LEMMA ReaderAlone ==
    ASSUME TypeInv, NEW s \in Stream, Reader(s) \/ ReadError(s)
    PROVE  /\ UNCHANGED <<main, status, proc, expired>>
           /\ reader[s] \in {"check", "read"}
           /\ reader'[s] \in {"check", "read"} \cup ReaderOver
           /\ \A t \in Stream \ {s} : reader'[t] = reader[t]
    BY DEF Reader, Check, ReadData, ReadEof, ReadNothing, ReadError, processes,
       pipes, ReaderOver, TypeInv, TypeOK

LEMMA WaitInit == Init => WaitInv
    BY DEF Init, WaitInv, BeforeOut

LEMMA WaitNext ==
    TypeInv /\ ReadersInv /\ LeaderInv /\ WaitInv /\ [Next]_vars => WaitInv'
<1> SUFFICES ASSUME TypeInv, ReadersInv, LeaderInv, WaitInv, [Next]_vars
             PROVE  WaitInv'
    OBVIOUS
<1>. USE DEF WaitInv, BeforeOut
<1>1. CASE Spawn \/ Adopt \/ StartOut \/ StartErr
    BY <1>1 DEF Spawn, Adopt, StartOut, StartErr, TypeInv, TypeOK, Stream,
       ReadersInv, Waiting
<1>2. CASE PollExited \/ PollRunning \/ PollAgain \/ PollTimeout \/ PollFailed
    BY <1>2 DEF PollExited, PollRunning, PollAgain, PollTimeout, PollFailed,
       ReadersInv, Waiting
<1>3. CASE Terminate
    BY <1>3 DEF Terminate
<1>4. CASE Cancel
    <2>1. /\ main = "cancel" /\ main' = "reap" /\ UNCHANGED <<status, reader>>
      BY <1>4 DEF Cancel
    <2>2. CASE status = "exited"
      BY <1>4, <2>1, <2>2 DEF Cancel, LeaderInv
    <2>3. CASE status # "exited"
      <3>1. proc'[Leader] # "running"
        BY <1>4, <2>3 DEF Cancel, Kill, Alive, Process
      <3>. QED
        BY <2>1, <3>1
    <2>. QED
      BY <2>2, <2>3
<1>5. CASE Reap \/ JoinOut \/ JoinErr \/ Return
    BY <1>5 DEF Reap, JoinOut, JoinErr, Return, OutIsOnly
<1>6. ASSUME NEW s \in Stream, Reader(s) \/ ReadError(s) PROVE WaitInv'
    BY <1>6, ReaderAlone DEF Stream, ReaderOver
<1>7. CASE Command \/ Expire \/ Recycle \/ UNCHANGED vars
    BY <1>7, CommandAndWorld
<1>. QED
    BY <1>1, <1>2, <1>3, <1>4, <1>5, <1>6, <1>7 DEF Next, Main, Returned

\* process.rs: the main thread never waits for something that does not come.
THEOREM NoWaitIsEndless == Spec => []WaitsEnd
<1>1. Inv /\ WaitInv => WaitsEnd
    <2> SUFFICES ASSUME Inv, WaitInv PROVE WaitsEnd
      OBVIOUS
    <2>. USE DEF Inv, WaitInv, BeforeOut
    <2>1. main = "poll" => proc[Leader] \in {"running", "zombie"}
      BY DEF LeaderInv, Waiting, TypeInv, TypeOK, Process
    <2>2. main = "joinOut" => status # "noOut"
      BY DEF ReadersInv
    <2>3. main = "joinErr" => status \notin {"noOut", "noErr"}
      BY DEF ReadersInv
    <2>. QED
      BY <2>1, <2>2, <2>3 DEF WaitsEnd
<1>2. Inv /\ WaitInv /\ [Next]_vars => WaitInv'
    BY WaitNext DEF Inv
<1>. QED
    BY <1>1, <1>2, WaitInit, Invariance, PTL DEF Spec

LEMMA MainAdvances ==
    ASSUME TypeInv, ReadersInv, expired, Main
    PROVE  /\ main' # main
           /\ MainLeft' < MainLeft /\ MainLeft' <= MainLeft
           /\ \A s \in Stream : ReaderLeft(s)' <= ReaderLeft(s)
<1>1. \/ main = "spawn" /\ main' \in {"adopt", "startOut", "returned"}
      \/ main = "adopt" /\ main' \in {"startOut", "returned"}
      \/ main = "startOut" /\ main' \in {"startErr", "terminate"}
      \/ main = "startErr" /\ main' \in {"poll", "terminate"}
      \/ main = "poll" /\ main' \in {"polled", "terminate"}
      \/ main = "polled" /\ main' = "terminate"
      \/ main = "terminate" /\ main' = "cancel"
      \/ main = "cancel" /\ main' = "reap"
      \/ main = "reap" /\ main' \in {"joinOut", "drop"}
      \/ main = "joinOut" /\ main' \in {"joinErr", "drop"}
      \/ main = "joinErr" /\ main' = "drop"
      \/ main = "drop" /\ main' = "returned"
    <2>1. CASE Spawn \/ Adopt \/ StartOut \/ StartErr
      BY <2>1 DEF Spawn, Adopt, StartOut, StartErr
    <2>2. CASE PollExited \/ PollRunning \/ PollAgain \/ PollTimeout \/ PollFailed
      BY <2>2 DEF PollExited, PollRunning, PollAgain, PollTimeout, PollFailed
    <2>3. CASE Terminate \/ Cancel \/ Reap \/ JoinOut \/ JoinErr \/ Return
      BY <2>3 DEF Terminate, Cancel, Reap, JoinOut, JoinErr, Return
    <2>. QED
      BY <2>1, <2>2, <2>3 DEF Main
<1>2. main' # main /\ MainLeft' < MainLeft /\ MainLeft' <= MainLeft
    BY <1>1 DEF MainLeft
<1>3. ASSUME NEW s \in Stream PROVE ReaderLeft(s)' <= ReaderLeft(s)
    <2>1. \/ reader'[s] = reader[s]
          \/ reader[s] = "unstarted" /\ reader'[s] = "check"
      BY DEF Main, Spawn, Adopt, StartOut, StartErr, PollExited, PollRunning,
         PollAgain, PollTimeout, PollFailed, Terminate, Cancel, Reap, JoinOut,
         JoinErr, Return, ReadersInv, Stream, TypeInv, TypeOK
    <2>2. reader[s] \in ReaderAt
      BY DEF TypeInv, TypeOK
    <2>. QED
      BY <2>1, <2>2 DEF ReaderLeft, ReaderAt, ReaderOver
<1>. QED
    BY <1>2, <1>3

LEMMA ReaderAdvances ==
    ASSUME TypeInv, expired, NEW s \in Stream, Reader(s) \/ ReadError(s)
    PROVE  /\ main' = main /\ reader'[s] # reader[s]
           /\ MainLeft' <= MainLeft
           /\ ReaderLeft(s)' < ReaderLeft(s)
           /\ \A t \in Stream : ReaderLeft(t)' <= ReaderLeft(t)
<1>1. UNCHANGED main /\ main \in MainAt
    BY ReaderAlone DEF TypeInv, TypeOK
<1>2. MainLeft' <= MainLeft
    BY <1>1 DEF MainLeft, MainAt
<1>3. \/ reader[s] = "check" /\ reader'[s] = "failed"
      \/ reader[s] = "read" /\ reader'[s] \in {"check"} \cup ReaderOver
    BY DEF Reader, Check, StopsReading, ReadData, ReadEof, ReadNothing,
       ReadError, TypeInv, TypeOK, ReaderOver
<1>4. ReaderLeft(s)' < ReaderLeft(s)
    BY <1>3 DEF ReaderLeft, ReaderOver
<1>5. ASSUME NEW t \in Stream, t # s PROVE ReaderLeft(t)' <= ReaderLeft(t)
    <2>1. reader'[t] = reader[t] /\ reader[t] \in ReaderAt
      BY <1>5, ReaderAlone DEF TypeInv, TypeOK
    <2>. QED
      BY <2>1 DEF ReaderLeft, ReaderAt, ReaderOver
<1>6. ReaderLeft(s)' <= ReaderLeft(s)
    BY <1>3 DEF ReaderLeft, ReaderOver
<1>. QED
    BY <1>1, <1>2, <1>3, <1>4, <1>5, <1>6 DEF ReaderOver

\* README.md 82, process.rs: once the deadline has passed run is twelve steps
\* of the main thread and at most three of each reader from its return,
\* whatever the command, its descendants and its streams do.
THEOREM DeadlineIsBinding == Spec => DeadlineBinds
<1> DEFINE Binds ==
        expired =>
          /\ MainLeft' <= MainLeft
          /\ Main => MainLeft' < MainLeft
          /\ \A s \in Stream :
              /\ ReaderLeft(s)' <= ReaderLeft(s)
              /\ Reader(s) => ReaderLeft(s)' < ReaderLeft(s)
<1>1. ASSUME Inv, [Next]_vars, expired
      PROVE  Binds
    <2>. USE <1>1 DEF Inv
    <2>1. CASE Main
      <3>1. \A s \in Stream : ~Reader(s)
        BY <2>1, ReaderAlone, MainAdvances
      <3>. QED
        BY <2>1, <3>1, MainAdvances
    <2>2. ASSUME NEW s \in Stream, Reader(s) \/ ReadError(s) PROVE Binds
      <3>1. ~Main
        BY <2>2, ReaderAlone, MainAdvances
      <3>2. \A t \in Stream : Reader(t) => t = s
        BY <2>2, ReaderAlone, ReaderAdvances
      <3>. QED
        BY <2>2, <3>1, <3>2, ReaderAdvances
    <2>3. CASE Command \/ Expire \/ Recycle \/ UNCHANGED vars
      <3>1. UNCHANGED <<main, reader>>
        BY <2>3, CommandAndWorld
      <3>2. ~Main /\ \A s \in Stream : ~Reader(s)
        BY <3>1, MainAdvances, ReaderAdvances
      <3>3. MainLeft' <= MainLeft
        BY <3>1 DEF MainLeft, MainAt, TypeInv, TypeOK
      <3>4. ASSUME NEW s \in Stream PROVE ReaderLeft(s)' <= ReaderLeft(s)
        <4>1. reader'[s] = reader[s] /\ reader[s] \in ReaderAt
          BY <3>1 DEF TypeInv, TypeOK
        <4>. QED
          BY <4>1 DEF ReaderLeft, ReaderAt, ReaderOver
      <3>. QED
        BY <3>2, <3>3, <3>4
    <2>. QED
      BY <2>1, <2>2, <2>3 DEF Next, Returned
<1>2. Inv /\ [Next]_vars => [Binds]_vars
    BY <1>1
<1>. QED
    BY <1>2, Invariance, PTL DEF Spec, DeadlineBinds

\* README.md 89, as far as it is not a matter of fairness: a reader that has
\* begun does not take a stream for ended while something is in the pipe, and of
\* any two steps it takes then, one takes something out, unless it gives up.
Drains ==
    /\ [](\A s \in Stream : pipe[s] > 0 => reader[s] # "eof")
    /\ [][\A s \in Stream : pipe[s] > 0 /\ Reader(s) =>
            \/ pipe'[s] < pipe[s]
            \/ reader[s] = "check" /\ reader'[s] \in {"read", "failed"}]_vars

\* Output is taken as long as there is any and its reader goes on.
THEOREM OutputIsTaken == Spec => Drains
<1>. DEFINE Open == \A s \in Stream : pipe[s] > 0 => reader[s] # "eof"
            Takes == \A s \in Stream : pipe[s] > 0 /\ Reader(s) =>
                        \/ pipe'[s] < pipe[s]
                        \/ reader[s] = "check" /\ reader'[s] \in {"read", "failed"}
<1>1. Inv => Open
    BY DEF Inv, StreamInv
<1>2. ASSUME Inv, NEW s \in Stream, pipe[s] > 0, Reader(s)
      PROVE  \/ pipe'[s] < pipe[s]
             \/ reader[s] = "check" /\ reader'[s] \in {"read", "failed"}
  <2>1. pipe \in [Stream -> Nat] /\ reader \in [Stream -> ReaderAt]
    BY <1>2 DEF Inv, TypeInv, TypeOK
  <2>2. CASE Check(s)
    BY <2>1, <2>2 DEF Check
  <2>3. CASE ReadData(s)
    <3>1. PICK n \in 1..Smaller(Chunk, pipe[s]) : pipe' = [pipe EXCEPT ![s] = @ - n]
      BY <2>3 DEF ReadData
    <3>2. n \in Nat \ {0}
      OBVIOUS
    <3>. QED
      BY <2>1, <3>1, <3>2
  <2>4. ~ReadEof(s) /\ ~ReadNothing(s)
    BY <1>2, <2>1 DEF ReadEof, ReadNothing, AtEof
  <2>. QED
    BY <1>2, <2>2, <2>3, <2>4 DEF Reader
<1>3. Inv /\ [Next]_vars => [Takes]_vars
    BY <1>2
<1>. QED
    BY <1>1, <1>3, Invariance, PTL DEF Spec, Drains

=============================================================================
