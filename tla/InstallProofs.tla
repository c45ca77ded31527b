--------------------------- MODULE InstallProofs ---------------------------
(***************************************************************************)
(* What the scripts of Install guarantee for any number of scripts,        *)
(* versions, edits and sessions, on each platform.                         *)
(***************************************************************************)
EXTENDS Install, SequenceTheorems, TLAPS

Kind == {"install", "uninstall"}

Word == {"validate", "stage", "write", "replace", "open-units", "fill-units",
         "look", "init", "reload", "enable", "lint", "bootout", "bootstrap",
         "check", "register", "disable", "remove-one", "remove-both",
         "unregister", "remove-code"}

-----------------------------------------------------------------------------
(* The programs.                                                           *)

LEMMA CommonIs ==
    /\ Common \in Seq(Word) /\ Len(Common) = 4
    /\ Common[1] = "validate" /\ Common[2] = "stage"
    /\ Common[3] = "write" /\ Common[4] = "replace"
    BY DEF Common, Word

\* What platforms/common/install.sh does comes first in every install.
Follows(program, own) ==
    /\ program \in Seq(Word)
    /\ Len(program) = 4 + Len(own)
    /\ program[1] = "validate" /\ program[2] = "stage"
    /\ program[3] = "write" /\ program[4] = "replace"
    /\ \A i \in 1..Len(own) : program[i + 4] = own[i]

LEMMA CommonFirst ==
    ASSUME NEW own \in Seq(Word)
    PROVE  Follows(Common \o own, own)
<1>1. /\ Common \o own \in Seq(Word)
      /\ Len(Common \o own) = Len(Common) + Len(own)
      /\ \A i \in 1..(Len(Common) + Len(own)) : (Common \o own)[i] =
           IF i <= Len(Common) THEN Common[i] ELSE own[i - Len(Common)]
    BY CommonIs, ConcatProperties, Zenon
<1>2. Len(own) \in Nat
    BY LenProperties
<1>. QED
    BY <1>1, <1>2, CommonIs DEF Follows

LEMMA LinuxInstall ==
    LET program == Program("linux", "install") IN
    /\ program \in Seq(Word) /\ Len(program) = 10
    /\ program[1] = "validate" /\ program[2] = "stage"
    /\ program[3] = "write" /\ program[4] = "replace"
    /\ program[5] = "open-units" /\ program[6] = "fill-units"
    /\ program[7] = "look" /\ program[8] = "init"
    /\ program[9] = "reload" /\ program[10] = "enable"
<1> DEFINE own == <<"open-units", "fill-units", "look", "init", "reload",
                  "enable">>
<1>1. Program("linux", "install") = Common \o own
    BY DEF Program
<1>2. /\ own \in Seq(Word) /\ Len(own) = 6
      /\ own[1] = "open-units" /\ own[2] = "fill-units"
      /\ own[3] = "look" /\ own[4] = "init"
      /\ own[5] = "reload" /\ own[6] = "enable"
    BY DEF Word
<1>. HIDE DEF own
<1>3. Follows(Common \o own, own)
    BY <1>2, CommonFirst, Zenon
<1>4. Follows(Program("linux", "install"), own)
    BY <1>1, <1>3, Zenon
<1>. QED
    BY <1>2, <1>4 DEF Follows

LEMMA MacosInstall ==
    LET program == Program("macos", "install") IN
    /\ program \in Seq(Word) /\ Len(program) = 11
    /\ program[1] = "validate" /\ program[2] = "stage"
    /\ program[3] = "write" /\ program[4] = "replace"
    /\ program[5] = "look" /\ program[6] = "init"
    /\ program[7] = "open-units" /\ program[8] = "fill-units"
    /\ program[9] = "lint" /\ program[10] = "bootout"
    /\ program[11] = "bootstrap"
<1> DEFINE own == <<"look", "init", "open-units", "fill-units", "lint",
                  "bootout", "bootstrap">>
<1>1. Program("macos", "install") = Common \o own
    BY DEF Program
<1>2. /\ own \in Seq(Word) /\ Len(own) = 7
      /\ own[1] = "look" /\ own[2] = "init"
      /\ own[3] = "open-units" /\ own[4] = "fill-units"
      /\ own[5] = "lint" /\ own[6] = "bootout"
      /\ own[7] = "bootstrap"
    BY DEF Word
<1>. HIDE DEF own
<1>3. Follows(Common \o own, own)
    BY <1>2, CommonFirst, Zenon
<1>4. Follows(Program("macos", "install"), own)
    BY <1>1, <1>3, Zenon
<1>. QED
    BY <1>2, <1>4 DEF Follows

LEMMA WindowsInstall ==
    LET program == Program("windows", "install") IN
    /\ program \in Seq(Word) /\ Len(program) = 8
    /\ program[1] = "validate" /\ program[2] = "stage"
    /\ program[3] = "write" /\ program[4] = "replace"
    /\ program[5] = "look" /\ program[6] = "init"
    /\ program[7] = "check" /\ program[8] = "register"
<1> DEFINE own == <<"look", "init", "check", "register">>
<1>1. Program("windows", "install") = Common \o own
    BY DEF Program
<1>2. /\ own \in Seq(Word) /\ Len(own) = 4
      /\ own[1] = "look" /\ own[2] = "init"
      /\ own[3] = "check" /\ own[4] = "register"
    BY DEF Word
<1>. HIDE DEF own
<1>3. Follows(Common \o own, own)
    BY <1>2, CommonFirst, Zenon
<1>4. Follows(Program("windows", "install"), own)
    BY <1>1, <1>3, Zenon
<1>. QED
    BY <1>2, <1>4 DEF Follows

LEMMA LinuxUninstall ==
    LET program == Program("linux", "uninstall") IN
    /\ program \in Seq(Word) /\ Len(program) = 5
    /\ program[1] = "disable" /\ program[2] = "remove-one"
    /\ program[3] = "remove-both" /\ program[4] = "reload"
    /\ program[5] = "remove-code"
    BY DEF Program, Word

LEMMA MacosUninstall ==
    LET program == Program("macos", "uninstall") IN
    /\ program \in Seq(Word) /\ Len(program) = 3
    /\ program[1] = "bootout" /\ program[2] = "remove-both"
    /\ program[3] = "remove-code"
    BY DEF Program, Word

LEMMA WindowsUninstall ==
    LET program == Program("windows", "uninstall") IN
    /\ program \in Seq(Word) /\ Len(program) = 2
    /\ program[1] = "unregister" /\ program[2] = "remove-code"
    BY DEF Program, Word

\* Where the commands are: nothing a script does stands in two places of its
\* program.
Place(p, kind, i) ==
    LET c == Program(p, kind)[i] IN
    /\ c = "validate" => kind = "install" /\ i = 1
    /\ c = "stage" => kind = "install" /\ i = 2
    /\ c = "write" => kind = "install" /\ i = 3
    /\ c = "replace" => kind = "install" /\ i = 4
    /\ c = "open-units" =>
         kind = "install" /\ ((p = "linux" /\ i = 5) \/ (p = "macos" /\ i = 7))
    /\ c = "fill-units" =>
         kind = "install" /\ ((p = "linux" /\ i = 6) \/ (p = "macos" /\ i = 8))
    /\ c = "look" => kind = "install" /\ i < Len(Program(p, kind))
                  /\ ((p = "linux" /\ i = 7) \/ (p # "linux" /\ i = 5))
    /\ c = "init" =>
         kind = "install" /\ ((p = "linux" /\ i = 8) \/ (p # "linux" /\ i = 6))
    /\ c = "reload" => p = "linux" /\ ((kind = "install" /\ i = 9)
                                       \/ (kind = "uninstall" /\ i = 4))
    /\ c = "enable" => kind = "install" /\ p = "linux" /\ i = 10
    /\ c = "lint" => kind = "install" /\ p = "macos" /\ i = 9
    /\ c = "bootout" => p = "macos" /\ ((kind = "install" /\ i = 10)
                                        \/ (kind = "uninstall" /\ i = 1))
    /\ c = "bootstrap" => kind = "install" /\ p = "macos" /\ i = 11
    /\ c = "check" => kind = "install" /\ p = "windows" /\ i = 7
    /\ c = "register" => kind = "install" /\ p = "windows" /\ i = 8
    /\ c = "disable" => kind = "uninstall" /\ p = "linux" /\ i = 1
    /\ c = "remove-one" => kind = "uninstall" /\ p = "linux" /\ i = 2
    /\ c = "remove-both" =>
         kind = "uninstall"
         /\ ((p = "linux" /\ i = 3) \/ (p = "macos" /\ i = 2))
    /\ c = "unregister" => kind = "uninstall" /\ p = "windows" /\ i = 1
    /\ c = "remove-code" =>
         kind = "uninstall" /\ ((p = "linux" /\ i = 5) \/ (p = "macos" /\ i = 3)
                                \/ (p = "windows" /\ i = 2))

System == {"linux", "macos", "windows"}

LEMMA Places ==
    ASSUME NEW p \in System, NEW kind \in Kind,
           NEW i \in 1..Len(Program(p, kind))
    PROVE  Place(p, kind, i)
<1>1. CASE p = "linux" /\ kind = "install"
    <2>1. i \in 1..10
        BY <1>1, LinuxInstall
    <2>2. CASE i \in 1..4
        BY <1>1, <2>2, LinuxInstall, SMTT(30) DEF Place
    <2>3. CASE i \in 5..7
        BY <1>1, <2>3, LinuxInstall, SMTT(30)
        DEF Place
    <2>4. CASE i \in 8..10
        BY <1>1, <2>4, LinuxInstall, SMTT(30)
        DEF Place
    <2>. QED
        BY <2>1, <2>2, <2>3, <2>4
<1>2. CASE p = "macos" /\ kind = "install"
    <2>1. i \in 1..11
        BY <1>2, MacosInstall
    <2>2. CASE i \in 1..4
        BY <1>2, <2>2, MacosInstall, SMTT(30) DEF Place
    <2>3. CASE i \in 5..7
        BY <1>2, <2>3, MacosInstall, SMTT(30)
        DEF Place
    <2>4. CASE i \in 8..9
        BY <1>2, <2>4, MacosInstall, SMTT(30)
        DEF Place
    <2>5. CASE i \in 10..11
        BY <1>2, <2>5, MacosInstall, SMTT(30)
        DEF Place
    <2>. QED
        BY <2>1, <2>2, <2>3, <2>4, <2>5
<1>3. CASE p = "windows" /\ kind = "install"
    <2>1. i \in 1..8
        BY <1>3, WindowsInstall
    <2>2. CASE i \in 1..4
        BY <1>3, <2>2, WindowsInstall, SMTT(30) DEF Place
    <2>3. CASE i \in 5..8
        BY <1>3, <2>3, WindowsInstall, SMTT(30)
        DEF Place
    <2>. QED
        BY <2>1, <2>2, <2>3
<1>4. CASE p = "linux" /\ kind = "uninstall"
    <2>1. i \in 1..5
        BY <1>4, LinuxUninstall
    <2>. QED
        BY <1>4, <2>1, LinuxUninstall DEF Place
<1>5. CASE p = "macos" /\ kind = "uninstall"
    <2>1. i \in 1..3
        BY <1>5, MacosUninstall
    <2>. QED
        BY <1>5, <2>1, MacosUninstall DEF Place
<1>6. CASE p = "windows" /\ kind = "uninstall"
    <2>1. i \in 1..2
        BY <1>6, WindowsUninstall
    <2>. QED
        BY <1>6, <2>1, WindowsUninstall DEF Place
<1>. QED
    BY <1>1, <1>2, <1>3, <1>4, <1>5, <1>6 DEF System, Kind

\* Every program is a sequence of commands, and not empty.
LEMMA Programs ==
    ASSUME NEW p \in System, NEW kind \in Kind
    PROVE  /\ Program(p, kind) \in Seq(Word)
           /\ Len(Program(p, kind)) \in Nat \ {0}
           /\ Len(Program(p, kind)) =
                IF kind = "install"
                THEN IF p = "linux" THEN 10 ELSE IF p = "macos" THEN 11 ELSE 8
                ELSE IF p = "linux" THEN 5 ELSE IF p = "macos" THEN 3 ELSE 2
<1>1. CASE p = "linux" /\ kind = "install"
    BY <1>1, LinuxInstall
<1>2. CASE p = "macos" /\ kind = "install"
    BY <1>2, MacosInstall
<1>3. CASE p = "windows" /\ kind = "install"
    BY <1>3, WindowsInstall
<1>4. CASE p = "linux" /\ kind = "uninstall"
    BY <1>4, LinuxUninstall
<1>5. CASE p = "macos" /\ kind = "uninstall"
    BY <1>5, MacosUninstall
<1>6. CASE p = "windows" /\ kind = "uninstall"
    BY <1>6, WindowsUninstall
<1>. QED
    BY <1>1, <1>2, <1>3, <1>4, <1>5, <1>6 DEF System, Kind

\* What is left of a program from its i-th command on.
Left(p, kind, i) == SubSeq(Program(p, kind), i, Len(Program(p, kind)))

LEMMA LeftOver ==
    ASSUME NEW p \in System, NEW kind \in Kind,
           NEW i \in 1..Len(Program(p, kind))
    PROVE  /\ Left(p, kind, i) # <<>>
           /\ Head(Left(p, kind, i)) = Program(p, kind)[i]
           /\ Tail(Left(p, kind, i)) = Left(p, kind, i + 1)
<1> DEFINE program == Program(p, kind)
<1>1. program \in Seq(Word) /\ Len(program) \in Nat
    BY Programs
<1>. HIDE DEF program
<1>2. i \in 1..Len(program)
    BY DEF program
<1>3. /\ i \in 1..(Len(program) + 1) /\ Len(program) \in i..Len(program)
      /\ i \in 1..Len(program) /\ i \in Int
    BY <1>1, <1>2
<1>4. /\ Head(SubSeq(program, i, Len(program))) = program[i]
      /\ Tail(SubSeq(program, i, Len(program)))
           = SubSeq(program, i + 1, Len(program))
    BY <1>1, <1>3, HeadTailOfSubSeq, Zenon
<1>5. SubSeq(program, i, Len(program)) # <<>>
    BY <1>1, <1>2, SubSeqEmpty
<1>. QED
    BY <1>4, <1>5 DEF Left, program

LEMMA LeftEnds ==
    ASSUME NEW p \in System, NEW kind \in Kind
    PROVE  /\ Left(p, kind, 1) = Program(p, kind)
           /\ Left(p, kind, Len(Program(p, kind)) + 1) = <<>>
<1> DEFINE program == Program(p, kind)
<1>1. program \in Seq(Word) /\ Len(program) \in Nat
    BY Programs
<1>. HIDE DEF program
<1>2. SubSeq(program, 1, Len(program)) = program
    BY <1>1, SubSeqFull, Zenon
<1>3. SubSeq(program, Len(program) + 1, Len(program)) = <<>>
    BY <1>1, SubSeqEmpty
<1>. QED
    BY <1>2, <1>3 DEF Left, program

-----------------------------------------------------------------------------
(* The invariants.                                                         *)

\* TypeOK, and that todo is a function: what makes an update of it one.
TypeInv ==
    /\ TypeOK
    /\ todo = [s \in Script |-> todo[s]]

\* Whoever has a duty is the only script that runs; and a script that runs has
\* lost its duty to another script or to the user only.
AloneInv ==
    \A s \in Script :
        /\ duty[s] # "none" => \A t \in Script : Busy(t) => t = s
        /\ Busy(s) /\ ~overlapped /\ ~raced => duty[s] # "none"

\* What an install that is alone has done when its i-th command is due ...
Installing(s, i) ==
    /\ i > 1 => Accepts(version[s], policy)
    /\ i = 3 => staged = [by |-> s, whole |-> FALSE]
    /\ i = 4 => staged = [by |-> s, whole |-> TRUE]
    /\ i > 4 => binary = [by |-> s, whole |-> TRUE]
    /\ platform = "linux" =>
        /\ i > 6 => units = "whole"
        /\ i > 8 => policy # Absent
        /\ i > 9 => loaded = "whole"
        /\ i > 10 => enabled /\ active
    /\ platform = "macos" =>
        /\ i > 6 => policy # Absent
        /\ i > 8 => units = "whole"
        /\ i > 11 => loaded = "whole" /\ active
    /\ platform = "windows" =>
        /\ i > 6 => policy # Absent
        /\ i > 8 => units = "whole" /\ loaded = "whole" /\ active

\* ... and a removal.
Removing(i) ==
    /\ platform = "linux" =>
        /\ i > 1 => ~active
        /\ i > 3 => units = "absent"
        /\ i > 4 => loaded = "absent"
        /\ i > 5 => binary = NoFile
    /\ platform = "macos" =>
        /\ i > 1 => ~active /\ loaded = "absent"
        /\ i > 2 => units = "absent"
        /\ i > 3 => binary = NoFile

Progress(s, kind, i) ==
    /\ kind = "install" => Installing(s, i)
    /\ kind = "uninstall" => Removing(i)

\* A running script is at a place of its program, and has done what comes
\* before it.
Stands(s, kind, i) ==
    /\ todo[s] = Left(platform, kind, i)
    /\ duty[s] # "none" => duty[s] = kind /\ Progress(s, kind, i)

ProgressInv ==
    \A s \in Script : Running(s) =>
        \E kind \in Kind : \E i \in 1..(Len(Program(platform, kind)) + 1) :
            Stands(s, kind, i)

Inv == TypeInv /\ AloneInv /\ ProgressInv /\ CodeWorks

-----------------------------------------------------------------------------
(* A command changes its script's entry of at and todo, and no other's.    *)

Moves(s) ==
    /\ Busy(s)
    /\ Rest
    /\ \E left : todo' = [todo EXCEPT ![s] = left]
    /\ \/ at' = at
       \/ GiveUp(s)

LEMMA CommandShape ==
    ASSUME NEW s \in Script, Command(s), ~Start(s)
    PROVE  Moves(s)
<1>1. Validate(s) \/ Stage(s) \/ Write(s) \/ Replace(s) => Moves(s)
    BY DEF Validate, Stage, Write, Replace, Turn, Proceed, GiveUp, Moves
<1>2. OpenUnits(s) \/ FillUnits(s) \/ Look(s) \/ InitPolicy(s) => Moves(s)
    BY DEF OpenUnits, FillUnits, Look, InitPolicy, Turn, Proceed, GiveUp, Moves
<1>3. Reload(s) \/ Enable(s) \/ Lint(s) \/ Bootout(s) => Moves(s)
    BY DEF Reload, Enable, Lint, Bootout, Turn, Proceed, GiveUp, Moves
<1>4. Bootstrap(s) \/ Check(s) \/ Register(s) \/ Unregister(s) => Moves(s)
    BY DEF Bootstrap, Check, Register, Unregister, Turn, Proceed, GiveUp, Moves
<1>5. Disable(s) \/ RemoveUnits(s) \/ RemoveCode(s) \/ Break(s) => Moves(s)
    BY DEF Disable, RemoveUnits, RemoveCode, Break, Turn, Proceed, GiveUp, Moves
<1>. QED
    BY <1>1, <1>2, <1>3, <1>4, <1>5 DEF Command

\* The other scripts stay where they were.
LEMMA OthersStay ==
    ASSUME TypeInv, NEW s \in Script, Moves(s), NEW t \in Script, t # s
    PROVE  at'[t] = at[t] /\ todo'[t] = todo[t]
<1>1. PICK left : todo' = [todo EXCEPT ![s] = left]
    BY DEF Moves
<1>. QED
    BY <1>1 DEF TypeInv, TypeOK, Moves, GiveUp

-----------------------------------------------------------------------------
(* TypeInv.                                                                *)

Kept ==
    /\ policy \in {Absent} \cup Version
    /\ binary \in [by : Script \cup {Earlier}, whole : BOOLEAN]
    /\ staged \in [by : Script \cup {Earlier}, whole : BOOLEAN]
    /\ units \in Unit /\ loaded \in Unit
    /\ enabled \in BOOLEAN /\ active \in BOOLEAN

LEMMA KeptIs ==
    TypeOK => Kept
BY DEF TypeOK, Kept

\* The file that is nobody's: no script's, and not whole.
LEMMA NoFileIs ==
    /\ NoFile \in [by : Script \cup {Earlier}, whole : BOOLEAN]
    /\ NoFile.by = Earlier /\ NoFile.whole = FALSE
BY DEF NoFile

LEMMA TypeInit ==
    ASSUME Init
    PROVE  TypeInv
<1>1. /\ policy \in {Absent} \cup Version
      /\ binary \in [by : Script \cup {Earlier}, whole : BOOLEAN]
      /\ staged \in [by : Script \cup {Earlier}, whole : BOOLEAN]
      /\ units \in Unit /\ loaded \in Unit
    <2>1. policy \in {Absent} \cup Version
        BY DEF Init
    <2>2. [by |-> Earlier, whole |-> TRUE]
              \in [by : Script \cup {Earlier}, whole : BOOLEAN]
        OBVIOUS
    <2>. QED
        BY <2>1, <2>2, NoFileIs DEF Init, Unit
<1>2. enabled \in BOOLEAN /\ active \in BOOLEAN
    BY DEF Init
<1>3. {enabled, active, overlapped, raced} \subseteq BOOLEAN
    BY <1>2 DEF Init
<1>4. /\ platform \in {"linux", "macos", "windows"}
      /\ edits \in 0..MaxEdits /\ reboots \in 0..MaxReboots
    BY PlatformAssumption, BoundsAssumption DEF Init
<1>5. /\ version \in [Script \cup {Earlier} -> Version]
      /\ at \in [Script -> {"idle", "running", "failed", "killed"}]
      /\ duty \in [Script -> {"none", "install", "uninstall"}]
      /\ \A s \in Script : ~Running(s) => todo[s] = <<>>
      /\ todo = [s \in Script |-> todo[s]]
    BY DEF Init
<1>. QED
    BY <1>1, <1>3, <1>4, <1>5 DEF TypeInv, TypeOK

\* What a command leaves to be of the right type, by what it leaves alone.
LEMMA TypeMoves ==
    ASSUME TypeInv, NEW s \in Script, Moves(s)
    PROVE  /\ platform' = platform /\ edits' = edits /\ reboots' = reboots
           /\ version' = version /\ overlapped' = overlapped
           /\ raced' = raced /\ duty' = duty
           /\ at' \in [Script -> {"idle", "running", "failed", "killed"}]
           /\ \A t \in Script : ~Running(t)' => todo'[t] = <<>>
           /\ todo' = [t \in Script |-> todo'[t]]
<1>1. /\ platform' = platform /\ edits' = edits /\ reboots' = reboots
      /\ version' = version /\ overlapped' = overlapped
      /\ raced' = raced /\ duty' = duty
    BY DEF Moves, Rest, history
<1>2. at' \in [Script -> {"idle", "running", "failed", "killed"}]
    BY DEF Moves, GiveUp, TypeInv, TypeOK
<1>3. ASSUME NEW t \in Script, ~Running(t)'
      PROVE  todo'[t] = <<>>
    <2>1. CASE t # s
        BY <1>3, <2>1, OthersStay DEF TypeInv, TypeOK, Running
    <2>2. CASE t = s
        <3>1. at' # at
            BY <1>3, <2>2 DEF Running, Moves, Busy
        <3>. QED
            BY <2>2, <3>1 DEF Moves, GiveUp, TypeInv
    <2>. QED
        BY <2>1, <2>2
<1>4. todo' = [t \in Script |-> todo'[t]]
    BY DEF Moves, TypeInv
<1>. QED
    BY <1>1, <1>2, <1>3, <1>4

LEMMA KeptNext ==
    ASSUME TypeInv, NEW s \in Script, Command(s)
    PROVE  Kept'
<1>0. Kept /\ version \in [Script \cup {Earlier} -> Version]
    BY KeptIs DEF TypeInv, TypeOK
<1>1. CASE Start(s)
    BY <1>0, <1>1 DEF Start, Kept, files, schedule
<1>2. CASE Validate(s)
    BY <1>0, <1>2 DEF Validate, Kept, files, schedule
<1>3. CASE Stage(s)
    BY <1>0, <1>3 DEF Stage, Kept, files, schedule
<1>4. CASE Write(s)
    BY <1>0, <1>4 DEF Write, Kept, files, schedule
<1>5. CASE Replace(s)
    BY <1>0, <1>5, NoFileIs DEF Replace, Kept, files, schedule
<1>6. CASE OpenUnits(s)
    BY <1>0, <1>6 DEF OpenUnits, Unit, Kept, files, schedule
<1>7. CASE FillUnits(s)
    BY <1>0, <1>7 DEF FillUnits, Unit, Kept, files, schedule
<1>8. CASE Look(s)
    BY <1>0, <1>8 DEF Look, Kept, files, schedule
<1>9. CASE InitPolicy(s)
    BY <1>0, <1>9 DEF InitPolicy, Vacant, Version, Kept, files, schedule
<1>10. CASE Reload(s)
    BY <1>0, <1>10 DEF Reload, Kept, files, schedule
<1>11. CASE Enable(s)
    BY <1>0, <1>11 DEF Enable, AtOnce, Kept, files, schedule
<1>12. CASE Lint(s)
    BY <1>0, <1>12 DEF Lint, Kept, files, schedule
<1>13. CASE Bootout(s)
    BY <1>0, <1>13 DEF Bootout, Unit, Kept, files, schedule
<1>14. CASE Bootstrap(s)
    BY <1>0, <1>14 DEF Bootstrap, Kept, files, schedule
<1>15. CASE Check(s)
    BY <1>0, <1>15 DEF Check, Kept, files, schedule
<1>16. CASE Register(s)
    BY <1>0, <1>16 DEF Register, Unit, Kept, files, schedule
<1>17. CASE Unregister(s)
    BY <1>0, <1>17 DEF Unregister, Unheard, Unit, Kept, files, schedule
<1>18. CASE Disable(s)
    BY <1>0, <1>18 DEF Disable, Kept, files, schedule
<1>19. CASE RemoveUnits(s)
    BY <1>0, <1>19 DEF RemoveUnits, Unit, Kept, files, schedule
<1>20. CASE RemoveCode(s)
    BY <1>0, <1>20, NoFileIs DEF RemoveCode, Kept, files, schedule
<1>21. CASE Break(s)
    BY <1>0, <1>21 DEF Break, Kept, files, schedule
<1>. QED
    BY <1>1, <1>2, <1>3, <1>4, <1>5, <1>6, <1>7, <1>8, <1>9, <1>10, <1>11,
       <1>12, <1>13, <1>14, <1>15, <1>16, <1>17, <1>18, <1>19, <1>20, <1>21
    DEF Command

LEMMA TypeNext ==
    ASSUME TypeInv, [Next]_vars
    PROVE  TypeInv'
<1>0. Kept /\ TypeOK
    BY KeptIs DEF TypeInv
<1>1. ASSUME Kept', UNCHANGED <<platform, version>>,
             edits' \in 0..MaxEdits, reboots' \in 0..MaxReboots,
             overlapped' \in BOOLEAN, raced' \in BOOLEAN,
             at' \in [Script -> {"idle", "running", "failed", "killed"}],
             \A s \in Script : ~Running(s)' => todo'[s] = <<>>,
             todo' = [s \in Script |-> todo'[s]],
             duty' \in [Script -> {"none", "install", "uninstall"}]
      PROVE  TypeInv'
    <2>1. {enabled', active', overlapped', raced'} \subseteq BOOLEAN
        BY <1>1 DEF Kept
    <2>2. {binary', staged'} \subseteq
              [by : Script \cup {Earlier}, whole : BOOLEAN]
        BY <1>1 DEF Kept
    <2>. QED
        BY <1>0, <1>1, <2>1, <2>2 DEF TypeInv, TypeOK, Kept
<1>2. overlapped \in BOOLEAN /\ raced \in BOOLEAN
    BY <1>0 DEF TypeOK
<1>3. ASSUME NEW s \in Script, Start(s)
      PROVE  TypeInv'
    <2>1. Kept'
        BY <1>3, KeptNext DEF Command
    <2>2. PICK kind \in {"install", "uninstall"} :
             /\ todo' = [todo EXCEPT ![s] = Program(platform, kind)]
             /\ duty' = [t \in Script |->
                    IF t = s /\ ~\E u \in Script : Busy(u)
                    THEN kind ELSE "none"]
        BY <1>3 DEF Start
    <2>3. /\ at' = [at EXCEPT ![s] = "running"]
          /\ at' \in [Script -> {"idle", "running", "failed", "killed"}]
        BY <1>0, <1>3 DEF Start, TypeOK
    <2>4. /\ \A t \in Script : ~Running(t)' => todo'[t] = <<>>
          /\ todo' = [t \in Script |-> todo'[t]]
        BY <1>0, <2>2, <2>3 DEF TypeInv, TypeOK, Running
    <2>5. duty' \in [Script -> {"none", "install", "uninstall"}]
        BY <2>2
    <2>6. overlapped' \in BOOLEAN /\ raced' \in BOOLEAN
        BY <1>2, <1>3 DEF Start
    <2>7. UNCHANGED <<platform, version, edits, reboots>>
        BY <1>3 DEF Start
    <2>. QED
        BY <1>0, <1>1, <2>1, <2>3, <2>4, <2>5, <2>6, <2>7 DEF TypeOK
<1>4. ASSUME NEW s \in Script, Command(s), ~Start(s)
      PROVE  TypeInv'
    <2>1. Kept'
        BY <1>4, KeptNext
    <2>2. Moves(s)
        BY <1>4, CommandShape
    <2>. QED
        BY <1>0, <1>1, <1>2, <2>1, <2>2, TypeMoves DEF TypeOK
<1>5. CASE Edit
    <2>1. Kept'
        BY <1>0, <1>5 DEF Edit, Kept, schedule
    <2>2. edits' \in 0..MaxEdits
        BY <1>0, <1>5, BoundsAssumption DEF TypeOK, Edit
    <2>3. overlapped' \in BOOLEAN /\ raced' \in BOOLEAN
        BY <1>2, <1>5 DEF Edit
    <2>4. /\ UNCHANGED <<platform, reboots, version, at, todo>>
          /\ duty' = [s \in Script |-> "none"]
        BY <1>5 DEF Edit, scripts
    <2>. QED
        BY <1>0, <1>1, <2>1, <2>2, <2>3, <2>4 DEF TypeOK, TypeInv, Running
<1>6. CASE Reboot
    <2>1. active' \in BOOLEAN
        BY <1>6 DEF Reboot
    <2>2. Kept'
        BY <1>0, <1>6, <2>1 DEF Reboot, Kept, files
    <2>3. reboots' \in 0..MaxReboots
        BY <1>0, <1>6, BoundsAssumption DEF TypeOK, Reboot
    <2>4. /\ UNCHANGED <<platform, version, edits>>
          /\ UNCHANGED <<overlapped, raced, duty>>
          /\ todo' = [s \in Script |-> <<>>]
        BY <1>6 DEF Reboot, history
    <2>5. at' \in [Script -> {"idle", "running", "failed", "killed"}]
        BY <1>0, <1>6 DEF Reboot, TypeOK
    <2>. QED
        BY <1>0, <1>1, <1>2, <2>2, <2>3, <2>4, <2>5 DEF TypeOK
<1>7. CASE UNCHANGED vars
    BY <1>0, <1>7
    DEF TypeInv, TypeOK, Running, vars, scripts, files, schedule, history
<1>. QED
    BY <1>3, <1>4, <1>5, <1>6, <1>7 DEF Next, Over

-----------------------------------------------------------------------------
(* AloneInv.                                                               *)

LEMMA AloneInit ==
    Init => AloneInv
BY DEF Init, AloneInv, Busy, Running

LEMMA AloneNext ==
    ASSUME TypeInv, AloneInv, [Next]_vars
    PROVE  AloneInv'
<1>1. ASSUME NEW s \in Script, Start(s)
      PROVE  AloneInv'
    <2>1. PICK kind \in {"install", "uninstall"} :
             /\ todo' = [todo EXCEPT ![s] = Program(platform, kind)]
             /\ duty' = [t \in Script |->
                    IF t = s /\ ~\E u \in Script : Busy(u)
                    THEN kind ELSE "none"]
        BY <1>1 DEF Start
    <2>2. ASSUME NEW t \in Script, t # s, Busy(t)'
          PROVE  Busy(t)
        <3>1. at'[t] = at[t] /\ todo'[t] = todo[t]
            BY <1>1, <2>1, <2>2 DEF Start, TypeInv, TypeOK
        <3>. QED
            BY <2>2, <3>1 DEF Busy, Running, Done
    <2>3. /\ (overlapped' \/ raced') = (\/ overlapped \/ raced
                                        \/ \E t \in Script : Busy(t))
          /\ \A t \in Script : duty'[t] # "none" =>
                t = s /\ ~\E u \in Script : Busy(u)
          /\ (~\E u \in Script : Busy(u)) => duty'[s] # "none"
        BY <1>1, <2>1 DEF Start
    <2>. QED
        BY <2>2, <2>3 DEF AloneInv
<1>2. ASSUME NEW s \in Script, Command(s), ~Start(s)
      PROVE  AloneInv'
    <2>1. Moves(s)
        BY <1>2, CommandShape
    <2>2. ASSUME NEW t \in Script, Busy(t)'
          PROVE  Busy(t)
        <3>1. CASE t # s
            BY <2>1, <2>2, <3>1, OthersStay DEF Busy, Running, Done
        <3>2. CASE t = s
            BY <2>1, <3>2 DEF Moves
        <3>. QED
            BY <3>1, <3>2
    <2>3. UNCHANGED <<duty, overlapped, raced>>
        BY <2>1, TypeMoves
    <2>. QED
        BY <2>2, <2>3 DEF AloneInv
<1>3. CASE Edit
    <2>1. \A t \in Script : Busy(t)' <=> Busy(t)
        BY <1>3 DEF Edit, scripts, Busy, Running, Done
    <2>2. /\ \A t \in Script : duty'[t] = "none"
          /\ raced' = (raced \/ \E t \in Script : Busy(t))
        BY <1>3 DEF Edit
    <2>. QED
        BY <2>1, <2>2 DEF AloneInv
<1>4. CASE Reboot
    <2>1. \A t \in Script : todo'[t] = <<>>
        BY <1>4 DEF Reboot
    <2>. QED
        BY <2>1 DEF AloneInv, Busy, Done
<1>5. CASE UNCHANGED vars
    BY <1>5 DEF AloneInv, Busy, Running, Done, vars, scripts, history
<1>. QED
    BY <1>1, <1>2, <1>3, <1>4, <1>5 DEF Next, Over

-----------------------------------------------------------------------------
(* ProgressInv.                                                            *)

\* The command that is due, and its place.
Due(s, kind, i, c) ==
    /\ Busy(s)
    /\ kind \in Kind /\ i \in 1..Len(Program(platform, kind))
    /\ Stands(s, kind, i)
    /\ Program(platform, kind)[i] = c
    /\ Place(platform, kind, i)
    /\ Tail(todo[s]) = Left(platform, kind, i + 1)

LEMMA PlatformIs ==
    TypeInv => platform \in System
BY DEF TypeInv, TypeOK, System

LEMMA TurnIsDue ==
    ASSUME TypeInv, ProgressInv, NEW s \in Script, NEW c, Turn(s, c)
    PROVE  \E kind \in Kind : \E i \in 1..Len(Program(platform, kind)) :
               Due(s, kind, i, c)
<1>0. PICK kind \in Kind :
         \E i \in 1..(Len(Program(platform, kind)) + 1) : Stands(s, kind, i)
    BY DEF ProgressInv, Turn, Busy
<1>1. PICK i \in 1..(Len(Program(platform, kind)) + 1) : Stands(s, kind, i)
    BY <1>0
<1>2. platform \in System
    BY PlatformIs
<1>3. Len(Program(platform, kind)) \in Nat
    BY <1>2, Programs
<1>4. todo[s] # <<>> /\ todo[s] = Left(platform, kind, i)
    BY <1>1 DEF Turn, Busy, Done, Stands
<1>5. i # Len(Program(platform, kind)) + 1
    BY <1>2, <1>4, LeftEnds
<1>6. i \in 1..Len(Program(platform, kind))
    BY <1>3, <1>5
<1>7. /\ Head(todo[s]) = Program(platform, kind)[i]
      /\ Tail(todo[s]) = Left(platform, kind, i + 1)
    BY <1>2, <1>4, <1>6, LeftOver
<1>8. Place(platform, kind, i)
    BY <1>2, <1>6, Places
<1>. QED
    BY <1>1, <1>6, <1>7, <1>8 DEF Due, Turn

\* Who is not alone has no duty, and no progress to lose.
LEMMA OthersKeep ==
    ASSUME TypeInv, AloneInv, ProgressInv, NEW s \in Script, Moves(s),
           NEW t \in Script, t # s, Running(t)'
    PROVE  \E kind \in Kind :
               \E i \in 1..(Len(Program(platform', kind)) + 1) :
                   Stands(t, kind, i)'
<1>1. at'[t] = at[t] /\ todo'[t] = todo[t] /\ duty' = duty
      /\ platform' = platform
    BY OthersStay, TypeMoves
<1>2. duty[t] = "none"
    BY DEF AloneInv, Moves
<1>3. PICK kind \in Kind :
         \E i \in 1..(Len(Program(platform, kind)) + 1) : Stands(t, kind, i)
    BY <1>1 DEF ProgressInv, Running
<1>4. PICK i \in 1..(Len(Program(platform, kind)) + 1) : Stands(t, kind, i)
    BY <1>3
<1>5. Stands(t, kind, i)'
    BY <1>1, <1>2, <1>4 DEF Stands
<1>. QED
    BY <1>1, <1>4, <1>5

LEMMA PlaceKeeps ==
    ASSUME TypeInv, AloneInv, ProgressInv, NEW s \in Script, Moves(s),
           NEW kind \in Kind, NEW j \in 1..(Len(Program(platform, kind)) + 1),
           todo' = [todo EXCEPT ![s] = Left(platform, kind, j)],
           duty[s] # "none" => duty[s] = kind /\ Progress(s, kind, j)'
    PROVE  ProgressInv'
<1>1. platform' = platform /\ duty' = duty
    BY TypeMoves
<1>2. todo'[s] = Left(platform, kind, j)
    BY DEF TypeInv
<1>3. Stands(s, kind, j)'
    BY <1>1, <1>2 DEF Stands
<1>. QED
    BY <1>1, <1>3, OthersKeep DEF ProgressInv

LEMMA ProceedKeeps ==
    ASSUME TypeInv, AloneInv, ProgressInv, NEW s \in Script, Moves(s),
           NEW kind, NEW i, NEW c, Due(s, kind, i, c), Proceed(s),
           duty[s] # "none" => Progress(s, kind, i + 1)'
    PROVE  ProgressInv'
<1>1. Len(Program(platform, kind)) \in Nat
    BY PlatformIs, Programs DEF Due
<1>2. i + 1 \in 1..(Len(Program(platform, kind)) + 1)
    BY <1>1 DEF Due
<1>3. todo' = [todo EXCEPT ![s] = Left(platform, kind, i + 1)]
    BY DEF Proceed, Due
<1>4. duty[s] # "none" => duty[s] = kind
    BY DEF Due, Stands
<1>5. kind \in Kind
    BY DEF Due
<1>. QED
    BY <1>2, <1>3, <1>4, <1>5, PlaceKeeps

LEMMA GiveUpKeeps ==
    ASSUME TypeInv, AloneInv, ProgressInv, NEW s \in Script, Moves(s),
           GiveUp(s)
    PROVE  ProgressInv'
<1>1. ~Running(s)'
    BY DEF GiveUp, Running, TypeInv, TypeOK
<1>. QED
    BY <1>1, OthersKeep DEF ProgressInv

\* A script that is through stands behind its last command.
LEMMA DoneIsLast ==
    ASSUME TypeInv, ProgressInv, NEW s \in Script, Done(s)
    PROVE  \E kind \in Kind : Stands(s, kind, Len(Program(platform, kind)) + 1)
<1>1. PICK kind \in Kind :
         \E i \in 1..(Len(Program(platform, kind)) + 1) : Stands(s, kind, i)
    BY DEF ProgressInv, Done
<1>2. PICK i \in 1..(Len(Program(platform, kind)) + 1) : Stands(s, kind, i)
    BY <1>1
<1>3. platform \in System /\ Len(Program(platform, kind)) \in Nat
    BY PlatformIs, Programs
<1>4. i \notin 1..Len(Program(platform, kind))
    BY <1>2, <1>3, LeftOver DEF Stands, Done
<1>5. i = Len(Program(platform, kind)) + 1
    BY <1>2, <1>3, <1>4
<1>. QED
    BY <1>2, <1>5

\* What an install and a removal have done behind their last commands.
LEMMA InstallEnds ==
    ASSUME platform \in System, NEW s, NEW i \in Nat,
           i > Len(Program(platform, "install"))
    PROVE  Installing(s, i) =>
               /\ binary = [by |-> s, whole |-> TRUE]
               /\ policy # Absent /\ Accepts(version[s], policy)
               /\ units = "whole" /\ loaded = "whole" /\ active
               /\ platform = "linux" => enabled
<1>1. CASE platform = "linux"
    <2>1. i > 10
        BY <1>1, LinuxInstall
    <2>. QED
        BY <1>1, <2>1 DEF Installing
<1>2. CASE platform = "macos"
    <2>1. i > 11
        BY <1>2, MacosInstall
    <2>. QED
        BY <1>2, <2>1 DEF Installing
<1>3. CASE platform = "windows"
    <2>1. i > 8
        BY <1>3, WindowsInstall
    <2>. QED
        BY <1>3, <2>1 DEF Installing
<1>. QED
    BY <1>1, <1>2, <1>3 DEF System

LEMMA RemovalEnds ==
    ASSUME platform \in System, platform # "windows", NEW i \in Nat,
           i > Len(Program(platform, "uninstall"))
    PROVE  Removing(i) =>
               /\ binary = NoFile
               /\ units = "absent" /\ loaded = "absent" /\ ~active
<1>1. CASE platform = "linux"
    <2>1. i > 5
        BY <1>1, LinuxUninstall
    <2>. QED
        BY <1>1, <2>1 DEF Removing
<1>2. CASE platform = "macos"
    <2>1. i > 3
        BY <1>2, MacosUninstall
    <2>. QED
        BY <1>2, <2>1 DEF Removing
<1>. QED
    BY <1>1, <1>2 DEF System

LEMMA ProgressInit ==
    Init => ProgressInv
BY DEF Init, ProgressInv, Running

\* Every command does what the next one relies on, or it is the last.
LEMMA ProgressNext ==
    ASSUME TypeInv, AloneInv, ProgressInv, [Next]_vars
    PROVE  ProgressInv'
<1>0. platform \in System /\ Kept /\ TypeOK
    BY PlatformIs, KeptIs DEF TypeInv
<1>1. ASSUME NEW s \in Script, Validate(s)
      PROVE  ProgressInv'
    <2>1. Moves(s)
        BY <1>1 DEF Validate, Turn, Proceed, GiveUp, Moves
    <2>2. PICK kind \in Kind : \E i \in 1..Len(Program(platform, kind)) :
             Due(s, kind, i, "validate")
        BY <1>1, TurnIsDue DEF Validate
    <2>3. PICK i \in 1..Len(Program(platform, kind)) :
             Due(s, kind, i, "validate")
        BY <2>2
    <2>4. CASE Refused(s)
        BY <1>1, <2>1, <2>4, GiveUpKeeps DEF Validate
    <2>5. CASE ~Refused(s)
        <3>1. Proceed(s)
            BY <1>1, <2>5 DEF Validate
        <3>2. ASSUME duty[s] # "none"
              PROVE  Progress(s, kind, i + 1)'
            BY <1>0, <1>1, <2>3, <2>5, <3>2
            DEF Validate, Refused, Due, Place, Stands, Progress, Installing,
                Rest, files, schedule, System
        <3>. QED
            BY <2>1, <2>3, <3>1, <3>2, ProceedKeeps
    <2>. QED
        BY <2>4, <2>5
<1>2. ASSUME NEW s \in Script, Stage(s)
      PROVE  ProgressInv'
    <2>1. Moves(s)
        BY <1>2 DEF Stage, Turn, Proceed, GiveUp, Moves
    <2>2. PICK kind \in Kind : \E i \in 1..Len(Program(platform, kind)) :
             Due(s, kind, i, "stage")
        BY <1>2, TurnIsDue DEF Stage
    <2>3. PICK i \in 1..Len(Program(platform, kind)) :
             Due(s, kind, i, "stage")
        BY <2>2
    <2>4. ASSUME duty[s] # "none"
          PROVE  Progress(s, kind, i + 1)'
        BY <1>0, <1>2, <2>3, <2>4
        DEF Stage, Due, Place, Stands, Progress, Installing, Rest, files,
            schedule, System
    <2>. QED
        BY <1>2, <2>1, <2>3, <2>4, ProceedKeeps DEF Stage
<1>3. ASSUME NEW s \in Script, Write(s)
      PROVE  ProgressInv'
    <2>1. Moves(s)
        BY <1>3 DEF Write, Turn, Proceed, GiveUp, Moves
    <2>2. PICK kind \in Kind : \E i \in 1..Len(Program(platform, kind)) :
             Due(s, kind, i, "write")
        BY <1>3, TurnIsDue DEF Write
    <2>3. PICK i \in 1..Len(Program(platform, kind)) :
             Due(s, kind, i, "write")
        BY <2>2
    <2>4. ASSUME duty[s] # "none"
          PROVE  Progress(s, kind, i + 1)'
        <3>1. kind = "install" /\ i = 3
            BY <2>3 DEF Due, Place
        <3>2. /\ Accepts(version[s], policy)
              /\ staged = [by |-> s, whole |-> FALSE]
            BY <2>3, <2>4, <3>1 DEF Due, Stands, Progress, Installing
        <3>3. staged' = [by |-> s, whole |-> TRUE]
            BY <1>3, <3>2 DEF Write
        <3>4. UNCHANGED <<version, policy>>
            BY <1>3 DEF Write, Rest
        <3>. QED
            BY <3>1, <3>2, <3>3, <3>4 DEF Progress, Installing, Accepts
    <2>. QED
        BY <1>3, <2>1, <2>3, <2>4, ProceedKeeps DEF Write
<1>4. ASSUME NEW s \in Script, Replace(s)
      PROVE  ProgressInv'
    <2>1. Moves(s)
        BY <1>4 DEF Replace, Turn, Proceed, GiveUp, Moves
    <2>2. PICK kind \in Kind : \E i \in 1..Len(Program(platform, kind)) :
             Due(s, kind, i, "replace")
        BY <1>4, TurnIsDue DEF Replace
    <2>3. PICK i \in 1..Len(Program(platform, kind)) :
             Due(s, kind, i, "replace")
        BY <2>2
    <2>4. CASE staged = NoFile
        BY <1>4, <2>1, <2>4, GiveUpKeeps DEF Replace
    <2>5. CASE staged # NoFile
        <3>1. Proceed(s)
            BY <1>4, <2>5 DEF Replace
        <3>2. ASSUME duty[s] # "none"
              PROVE  Progress(s, kind, i + 1)'
            BY <1>0, <1>4, <2>3, <2>5, <3>2, EarlierAssumption, NoFileIs
            DEF Replace, Due, Place, Stands, Progress, Installing, Rest,
                files, schedule, System
        <3>. QED
            BY <2>1, <2>3, <3>1, <3>2, ProceedKeeps
    <2>. QED
        BY <2>4, <2>5
<1>5. ASSUME NEW s \in Script, OpenUnits(s)
      PROVE  ProgressInv'
    <2>1. Moves(s)
        BY <1>5 DEF OpenUnits, Turn, Proceed, GiveUp, Moves
    <2>2. PICK kind \in Kind : \E i \in 1..Len(Program(platform, kind)) :
             Due(s, kind, i, "open-units")
        BY <1>5, TurnIsDue DEF OpenUnits
    <2>3. PICK i \in 1..Len(Program(platform, kind)) :
             Due(s, kind, i, "open-units")
        BY <2>2
    <2>4. ASSUME duty[s] # "none"
          PROVE  Progress(s, kind, i + 1)'
        BY <1>0, <1>5, <2>3, <2>4
        DEF OpenUnits, Due, Place, Stands, Progress, Installing, Rest, files,
            schedule, System
    <2>. QED
        BY <1>5, <2>1, <2>3, <2>4, ProceedKeeps DEF OpenUnits
<1>6. ASSUME NEW s \in Script, FillUnits(s)
      PROVE  ProgressInv'
    <2>1. Moves(s)
        BY <1>6 DEF FillUnits, Turn, Proceed, GiveUp, Moves
    <2>2. PICK kind \in Kind : \E i \in 1..Len(Program(platform, kind)) :
             Due(s, kind, i, "fill-units")
        BY <1>6, TurnIsDue DEF FillUnits
    <2>3. PICK i \in 1..Len(Program(platform, kind)) :
             Due(s, kind, i, "fill-units")
        BY <2>2
    <2>4. ASSUME duty[s] # "none"
          PROVE  Progress(s, kind, i + 1)'
        BY <1>0, <1>6, <2>3, <2>4
        DEF FillUnits, Due, Place, Stands, Progress, Installing, Rest, files,
            schedule, System
    <2>. QED
        BY <1>6, <2>1, <2>3, <2>4, ProceedKeeps DEF FillUnits
<1>7. ASSUME NEW s \in Script, Look(s)
      PROVE  ProgressInv'
    <2>1. Moves(s)
        BY <1>7 DEF Look, Turn, Proceed, GiveUp, Moves
    <2>2. PICK kind \in Kind : \E i \in 1..Len(Program(platform, kind)) :
             Due(s, kind, i, "look")
        BY <1>7, TurnIsDue DEF Look
    <2>3. PICK i \in 1..Len(Program(platform, kind)) :
             Due(s, kind, i, "look")
        BY <2>2
    <2>4. CASE policy = Absent
        <3>1. Proceed(s)
            BY <1>7, <2>4 DEF Look, Proceed
        <3>2. ASSUME duty[s] # "none"
              PROVE  Progress(s, kind, i + 1)'
            BY <1>0, <1>7, <2>3, <3>2
            DEF Look, Due, Place, Stands, Progress, Installing, Rest, files,
                schedule, System
        <3>. QED
            BY <2>1, <2>3, <3>1, <3>2, ProceedKeeps
    <2>5. CASE policy # Absent
        <3>1. Len(Program(platform, kind)) \in Nat
            BY <1>0, Programs
        <3>2. i + 1 \in 1..Len(Program(platform, kind))
            BY <2>3, <3>1 DEF Due, Place
        <3>3. Tail(Tail(todo[s])) = Left(platform, kind, (i + 1) + 1)
            BY <1>0, <2>3, <3>2, LeftOver DEF Due
        <3>4. todo' = [todo EXCEPT ![s] = Left(platform, kind, i + 2)]
            <4>1. todo' = [todo EXCEPT ![s] = Tail(Tail(todo[s]))]
                BY <1>7, <2>5 DEF Look
            <4>2. (i + 1) + 1 = i + 2
                BY <3>1
            <4>. QED
                BY <3>3, <4>1, <4>2
        <3>5. ASSUME duty[s] # "none"
              PROVE  duty[s] = kind /\ Progress(s, kind, i + 2)'
            BY <1>0, <1>7, <2>3, <2>5, <3>5
            DEF Look, Due, Place, Stands, Progress, Installing, Rest, files,
                schedule, System
        <3>6. i + 2 \in 1..(Len(Program(platform, kind)) + 1)
            BY <3>1, <3>2
        <3>. QED
            BY <2>1, <3>4, <3>5, <3>6, PlaceKeeps
    <2>. QED
        BY <2>4, <2>5
<1>8. ASSUME NEW s \in Script, InitPolicy(s)
      PROVE  ProgressInv'
    <2>1. Moves(s)
        BY <1>8 DEF InitPolicy, Turn, Proceed, GiveUp, Moves
    <2>2. PICK kind \in Kind : \E i \in 1..Len(Program(platform, kind)) :
             Due(s, kind, i, "init")
        BY <1>8, TurnIsDue DEF InitPolicy
    <2>3. PICK i \in 1..Len(Program(platform, kind)) :
             Due(s, kind, i, "init")
        BY <2>2
    <2>4. CASE ~(Vacant /\ binary.whole)
        BY <1>8, <2>1, <2>4, GiveUpKeeps DEF InitPolicy
    <2>5. CASE Vacant /\ binary.whole
        <3>1. Proceed(s)
            BY <1>8, <2>5 DEF InitPolicy
        <3>2. ASSUME duty[s] # "none"
              PROVE  Progress(s, kind, i + 1)'
            <4>1. /\ kind = "install"
                  /\ \/ platform = "linux" /\ i = 8
                     \/ platform # "linux" /\ i = 6
                BY <2>3 DEF Due, Place
            <4>2. binary.by = s /\ Installing(s, i)
                BY <2>3, <3>2, <4>1 DEF Due, Stands, Progress, Installing
            <4>3. version[s] \in Version /\ policy' = version[s]
                BY <1>0, <1>8, <2>5, <4>2 DEF InitPolicy, TypeOK
            <4>4. Accepts(version[s], policy') /\ policy' # Absent
                BY <4>3, BoundsAssumption DEF Accepts, Version, Absent
            <4>5. /\ UNCHANGED <<platform, version, binary, staged, units>>
                  /\ UNCHANGED <<loaded, enabled, active>>
                BY <1>8 DEF InitPolicy, Rest, schedule
            <4>. QED
                BY <4>1, <4>2, <4>4, <4>5
                DEF Progress, Installing
        <3>. QED
            BY <2>1, <2>3, <3>1, <3>2, ProceedKeeps
    <2>. QED
        BY <2>4, <2>5
<1>9. ASSUME NEW s \in Script, Reload(s)
      PROVE  ProgressInv'
    <2>1. Moves(s)
        BY <1>9 DEF Reload, Turn, Proceed, GiveUp, Moves
    <2>2. PICK kind \in Kind : \E i \in 1..Len(Program(platform, kind)) :
             Due(s, kind, i, "reload")
        BY <1>9, TurnIsDue DEF Reload
    <2>3. PICK i \in 1..Len(Program(platform, kind)) :
             Due(s, kind, i, "reload")
        BY <2>2
    <2>4. ASSUME duty[s] # "none"
          PROVE  Progress(s, kind, i + 1)'
        BY <1>0, <1>9, <2>3, <2>4
        DEF Reload, Due, Place, Stands, Progress, Installing, Removing, Rest,
            files, schedule, System
    <2>. QED
        BY <1>9, <2>1, <2>3, <2>4, ProceedKeeps DEF Reload
<1>10. ASSUME NEW s \in Script, Enable(s)
      PROVE  ProgressInv'
    <2>1. Moves(s)
        BY <1>10 DEF Enable, Turn, Proceed, GiveUp, Moves
    <2>2. PICK kind \in Kind : \E i \in 1..Len(Program(platform, kind)) :
             Due(s, kind, i, "enable")
        BY <1>10, TurnIsDue DEF Enable
    <2>3. PICK i \in 1..Len(Program(platform, kind)) :
             Due(s, kind, i, "enable")
        BY <2>2
    <2>4. CASE ~(loaded = "whole" /\ units # "absent")
        BY <1>10, <2>1, <2>4, GiveUpKeeps DEF Enable
    <2>5. CASE loaded = "whole" /\ units # "absent"
        <3>1. Proceed(s)
            BY <1>10, <2>5 DEF Enable
        <3>2. ASSUME duty[s] # "none"
              PROVE  Progress(s, kind, i + 1)'
            BY <1>0, <1>10, <2>3, <2>5, <3>2
            DEF Enable, AtOnce, Due, Place, Stands, Progress, Installing,
                Rest, files, schedule, System
        <3>. QED
            BY <2>1, <2>3, <3>1, <3>2, ProceedKeeps
    <2>. QED
        BY <2>4, <2>5
<1>11. ASSUME NEW s \in Script, Lint(s)
      PROVE  ProgressInv'
    <2>1. Moves(s)
        BY <1>11 DEF Lint, Turn, Proceed, GiveUp, Moves
    <2>2. PICK kind \in Kind : \E i \in 1..Len(Program(platform, kind)) :
             Due(s, kind, i, "lint")
        BY <1>11, TurnIsDue DEF Lint
    <2>3. PICK i \in 1..Len(Program(platform, kind)) :
             Due(s, kind, i, "lint")
        BY <2>2
    <2>4. CASE units # "whole"
        BY <1>11, <2>1, <2>4, GiveUpKeeps DEF Lint
    <2>5. CASE units = "whole"
        <3>1. Proceed(s)
            BY <1>11, <2>5 DEF Lint
        <3>2. ASSUME duty[s] # "none"
              PROVE  Progress(s, kind, i + 1)'
            BY <1>0, <1>11, <2>3, <2>5, <3>2
            DEF Lint, Due, Place, Stands, Progress, Installing, Rest, files,
                schedule, System
        <3>. QED
            BY <2>1, <2>3, <3>1, <3>2, ProceedKeeps
    <2>. QED
        BY <2>4, <2>5
<1>12. ASSUME NEW s \in Script, Bootout(s)
      PROVE  ProgressInv'
    <2>1. Moves(s)
        BY <1>12 DEF Bootout, Turn, Proceed, GiveUp, Moves
    <2>2. PICK kind \in Kind : \E i \in 1..Len(Program(platform, kind)) :
             Due(s, kind, i, "bootout")
        BY <1>12, TurnIsDue DEF Bootout
    <2>3. PICK i \in 1..Len(Program(platform, kind)) :
             Due(s, kind, i, "bootout")
        BY <2>2
    <2>4. ASSUME duty[s] # "none"
          PROVE  Progress(s, kind, i + 1)'
        BY <1>0, <1>12, <2>3, <2>4
        DEF Bootout, Due, Place, Stands, Progress, Installing, Removing, Rest,
            files, schedule, System
    <2>. QED
        BY <1>12, <2>1, <2>3, <2>4, ProceedKeeps DEF Bootout
<1>13. ASSUME NEW s \in Script, Bootstrap(s)
      PROVE  ProgressInv'
    <2>1. Moves(s)
        BY <1>13 DEF Bootstrap, Turn, Proceed, GiveUp, Moves
    <2>2. PICK kind \in Kind : \E i \in 1..Len(Program(platform, kind)) :
             Due(s, kind, i, "bootstrap")
        BY <1>13, TurnIsDue DEF Bootstrap
    <2>3. PICK i \in 1..Len(Program(platform, kind)) :
             Due(s, kind, i, "bootstrap")
        BY <2>2
    <2>4. CASE ~(units = "whole" /\ ~active)
        BY <1>13, <2>1, <2>4, GiveUpKeeps DEF Bootstrap
    <2>5. CASE units = "whole" /\ ~active
        <3>1. Proceed(s)
            BY <1>13, <2>5 DEF Bootstrap
        <3>2. ASSUME duty[s] # "none"
              PROVE  Progress(s, kind, i + 1)'
            BY <1>0, <1>13, <2>3, <2>5, <3>2
            DEF Bootstrap, Due, Place, Stands, Progress, Installing, Rest,
                files, schedule, System
        <3>. QED
            BY <2>1, <2>3, <3>1, <3>2, ProceedKeeps
    <2>. QED
        BY <2>4, <2>5
<1>14. ASSUME NEW s \in Script, Check(s)
      PROVE  ProgressInv'
    <2>1. Moves(s)
        BY <1>14 DEF Check, Turn, Proceed, GiveUp, Moves
    <2>2. PICK kind \in Kind : \E i \in 1..Len(Program(platform, kind)) :
             Due(s, kind, i, "check")
        BY <1>14, TurnIsDue DEF Check
    <2>3. PICK i \in 1..Len(Program(platform, kind)) :
             Due(s, kind, i, "check")
        BY <2>2
    <2>4. CASE ~(binary.whole /\ Accepts(version[binary.by], policy))
        BY <1>14, <2>1, <2>4, GiveUpKeeps DEF Check
    <2>5. CASE binary.whole /\ Accepts(version[binary.by], policy)
        <3>1. Proceed(s)
            BY <1>14, <2>5 DEF Check
        <3>2. ASSUME duty[s] # "none"
              PROVE  Progress(s, kind, i + 1)'
            BY <1>0, <1>14, <2>3, <2>5, <3>2
            DEF Check, Due, Place, Stands, Progress, Installing, Rest, files,
                schedule, System
        <3>. QED
            BY <2>1, <2>3, <3>1, <3>2, ProceedKeeps
    <2>. QED
        BY <2>4, <2>5
<1>15. ASSUME NEW s \in Script, Register(s)
      PROVE  ProgressInv'
    <2>1. Moves(s)
        BY <1>15 DEF Register, Turn, Proceed, GiveUp, Moves
    <2>2. PICK kind \in Kind : \E i \in 1..Len(Program(platform, kind)) :
             Due(s, kind, i, "register")
        BY <1>15, TurnIsDue DEF Register
    <2>3. PICK i \in 1..Len(Program(platform, kind)) :
             Due(s, kind, i, "register")
        BY <2>2
    <2>4. ASSUME duty[s] # "none"
          PROVE  Progress(s, kind, i + 1)'
        BY <1>0, <1>15, <2>3, <2>4
        DEF Register, Due, Place, Stands, Progress, Installing, Rest, files,
            schedule, System
    <2>. QED
        BY <1>15, <2>1, <2>3, <2>4, ProceedKeeps DEF Register
<1>16. ASSUME NEW s \in Script, Unregister(s)
      PROVE  ProgressInv'
    <2>1. Moves(s)
        BY <1>16 DEF Unregister, Turn, Proceed, GiveUp, Moves
    <2>2. PICK kind \in Kind : \E i \in 1..Len(Program(platform, kind)) :
             Due(s, kind, i, "unregister")
        BY <1>16, TurnIsDue DEF Unregister
    <2>3. PICK i \in 1..Len(Program(platform, kind)) :
             Due(s, kind, i, "unregister")
        BY <2>2
    <2>4. ASSUME duty[s] # "none"
          PROVE  Progress(s, kind, i + 1)'
        BY <1>0, <1>16, <2>3, <2>4
        DEF Unregister, Unheard, Due, Place, Stands, Progress, Removing, Rest,
            files, schedule, System
    <2>. QED
        BY <1>16, <2>1, <2>3, <2>4, ProceedKeeps DEF Unregister
<1>17. ASSUME NEW s \in Script, Disable(s)
      PROVE  ProgressInv'
    <2>1. Moves(s)
        BY <1>17 DEF Disable, Turn, Proceed, GiveUp, Moves
    <2>2. PICK kind \in Kind : \E i \in 1..Len(Program(platform, kind)) :
             Due(s, kind, i, "disable")
        BY <1>17, TurnIsDue DEF Disable
    <2>3. PICK i \in 1..Len(Program(platform, kind)) :
             Due(s, kind, i, "disable")
        BY <2>2
    <2>4. ASSUME duty[s] # "none"
          PROVE  Progress(s, kind, i + 1)'
        BY <1>0, <1>17, <2>3, <2>4
        DEF Disable, Due, Place, Stands, Progress, Removing, Rest, files,
            schedule, System
    <2>. QED
        BY <1>17, <2>1, <2>3, <2>4, ProceedKeeps DEF Disable
<1>18. ASSUME NEW s \in Script, RemoveUnits(s)
      PROVE  ProgressInv'
    <2>1. Moves(s)
        BY <1>18 DEF RemoveUnits, Turn, Proceed, GiveUp, Moves
    <2>2. PICK c \in {"remove-one", "remove-both"} :
             /\ Turn(s, c)
             /\ c = "remove-one" =>
                   units' = IF units = "absent" THEN units ELSE "part"
             /\ c = "remove-both" => units' = "absent"
        BY <1>18 DEF RemoveUnits
    <2>3. PICK kind \in Kind : \E i \in 1..Len(Program(platform, kind)) :
             Due(s, kind, i, c)
        BY <2>2, TurnIsDue
    <2>4. PICK i \in 1..Len(Program(platform, kind)) : Due(s, kind, i, c)
        BY <2>3
    <2>5. ASSUME duty[s] # "none"
          PROVE  Progress(s, kind, i + 1)'
        BY <1>0, <1>18, <2>2, <2>4, <2>5
        DEF RemoveUnits, Due, Place, Stands, Progress, Removing, Rest, schedule
    <2>. QED
        BY <1>18, <2>1, <2>4, <2>5, ProceedKeeps DEF RemoveUnits
<1>19. ASSUME NEW s \in Script, RemoveCode(s)
      PROVE  ProgressInv'
    <2>1. Moves(s)
        BY <1>19 DEF RemoveCode, Turn, Proceed, GiveUp, Moves
    <2>2. PICK kind \in Kind : \E i \in 1..Len(Program(platform, kind)) :
             Due(s, kind, i, "remove-code")
        BY <1>19, TurnIsDue DEF RemoveCode
    <2>3. PICK i \in 1..Len(Program(platform, kind)) :
             Due(s, kind, i, "remove-code")
        BY <2>2
    <2>4. ASSUME duty[s] # "none"
          PROVE  Progress(s, kind, i + 1)'
        BY <1>0, <1>19, <2>3, <2>4
        DEF RemoveCode, Unheard, Due, Place, Stands, Progress, Removing, Rest,
            files, schedule, System
    <2>. QED
        BY <1>19, <2>1, <2>3, <2>4, ProceedKeeps DEF RemoveCode
<1>20. ASSUME NEW s \in Script, Break(s)
      PROVE  ProgressInv'
    <2>1. Moves(s)
        BY <1>20 DEF Break, Turn, Proceed, GiveUp, Moves
    <2>. QED
        BY <1>20, <2>1, GiveUpKeeps DEF Break
<1>21. ASSUME NEW s \in Script, Start(s)
      PROVE  ProgressInv'
    <2>1. PICK kind \in Kind :
             /\ todo' = [todo EXCEPT ![s] = Program(platform, kind)]
             /\ duty' = [t \in Script |->
                    IF t = s /\ ~\E u \in Script : Busy(u)
                    THEN kind ELSE "none"]
        BY <1>21 DEF Start, Kind
    <2>2. platform' = platform /\ at' = [at EXCEPT ![s] = "running"]
        BY <1>21 DEF Start
    <2>3. ASSUME NEW t \in Script, t # s, Running(t)'
          PROVE  \E k \in Kind : \E i \in 1..(Len(Program(platform, k)) + 1) :
                     Stands(t, k, i)'
        <3>1. Running(t) /\ todo'[t] = todo[t] /\ duty'[t] = "none"
            BY <1>0, <2>1, <2>2, <2>3 DEF TypeInv, TypeOK, Running
        <3>2. PICK k \in Kind :
                 \E i \in 1..(Len(Program(platform, k)) + 1) : Stands(t, k, i)
            BY <3>1 DEF ProgressInv
        <3>3. PICK i \in 1..(Len(Program(platform, k)) + 1) : Stands(t, k, i)
            BY <3>2
        <3>4. Stands(t, k, i)'
            BY <2>2, <3>1, <3>3 DEF Stands
        <3>. QED
            BY <3>4
    <2>4. Stands(s, kind, 1)'
        <3>1. todo'[s] = Left(platform, kind, 1)
            BY <1>0, <2>1, LeftEnds DEF TypeInv
        <3>2. duty'[s] # "none" => duty'[s] = kind
            BY <2>1
        <3>3. Progress(s, kind, 1)'
            BY DEF Progress, Installing, Removing
        <3>. QED
            BY <2>2, <3>1, <3>2, <3>3 DEF Stands
    <2>5. 1 \in 1..(Len(Program(platform, kind)) + 1)
        BY <1>0, Programs
    <2>. QED
        BY <2>2, <2>3, <2>4, <2>5 DEF ProgressInv
<1>22. CASE Edit
    <2>1. /\ UNCHANGED <<platform, at, todo>>
          /\ \A t \in Script : duty'[t] = "none"
        BY <1>22 DEF Edit, scripts
    <2>2. \A t \in Script, k \in Kind :
             \A i \in 1..(Len(Program(platform, k)) + 1) :
                 Stands(t, k, i) => Stands(t, k, i)'
        BY <2>1 DEF Stands
    <2>. QED
        BY <2>1, <2>2 DEF ProgressInv, Running
<1>23. CASE Reboot
    <2>. SUFFICES ASSUME NEW t \in Script, Running(t)'
                  PROVE  \E k \in Kind :
                             \E i \in 1..(Len(Program(platform', k)) + 1) :
                                 Stands(t, k, i)'
        BY DEF ProgressInv
    <2>1. Done(t)
        BY <1>0, <1>23 DEF Reboot, Running, Busy, TypeOK
    <2>2. PICK k \in Kind : Stands(t, k, Len(Program(platform, k)) + 1)
        BY <2>1, DoneIsLast
    <2>3. /\ Len(Program(platform, k)) + 1 \in Nat
          /\ Len(Program(platform, k)) + 1 > Len(Program(platform, k))
          /\ Len(Program(platform, k)) + 1
               \in 1..(Len(Program(platform, k)) + 1)
        BY <1>0, Programs
    <2>4. /\ UNCHANGED <<platform, version, enabled, duty>>
          /\ UNCHANGED <<policy, binary, staged, units>>
        BY <1>23 DEF Reboot, history, files
    <2>5. todo'[t] = todo[t]
        BY <1>23, <2>1 DEF Reboot, Done
    <2>6. ASSUME duty[t] # "none"
          PROVE  Progress(t, k, Len(Program(platform, k)) + 1)'
        <3>1. Progress(t, k, Len(Program(platform, k)) + 1)
            BY <2>2, <2>6 DEF Stands
        <3>2. /\ loaded' = units
              /\ active' = (units = "whole" /\ (platform = "linux" => enabled))
            BY <1>23 DEF Reboot
        <3>3. CASE k = "install"
            <4>1. Installing(t, Len(Program(platform, k)) + 1)
                BY <3>1, <3>3 DEF Progress
            <4>2. units = "whole" /\ (platform = "linux" => enabled)
                BY <2>3, <3>3, <4>1, <1>0, InstallEnds
            <4>3. loaded' = "whole" /\ active'
                BY <3>2, <4>2
            <4>. QED
                BY <2>4, <3>3, <4>1, <4>2, <4>3
                DEF Progress, Installing, Accepts
        <3>4. CASE k = "uninstall"
            <4>1. Removing(Len(Program(platform, k)) + 1)
                BY <3>1, <3>4 DEF Progress
            <4>2. platform # "windows" => units = "absent"
                BY <2>3, <3>4, <4>1, <1>0, RemovalEnds
            <4>3. platform # "windows" => loaded' = "absent" /\ ~active'
                BY <3>2, <4>2
            <4>. QED
                BY <2>4, <3>4, <4>1, <4>3 DEF Progress, Removing
        <3>. QED
            BY <3>3, <3>4 DEF Kind
    <2>7. Stands(t, k, Len(Program(platform, k)) + 1)'
        BY <2>2, <2>4, <2>5, <2>6 DEF Stands
    <2>. QED
        BY <2>4, <2>7, <2>3
<1>24. CASE UNCHANGED vars
    <2>1. \A t \in Script, k \in Kind :
             \A i \in 1..(Len(Program(platform, k)) + 1) :
                 Stands(t, k, i) => Stands(t, k, i)'
        BY <1>24 DEF Stands, Progress, Installing, Removing, vars, scripts,
            files, schedule, history
    <2>. QED
        BY <1>24, <2>1 DEF ProgressInv, Running, vars, scripts
<1>. QED
    BY <1>1, <1>2, <1>3, <1>4, <1>5, <1>6, <1>7, <1>8, <1>9, <1>10, <1>11,
       <1>12, <1>13, <1>14, <1>15, <1>16, <1>17, <1>18, <1>19, <1>20, <1>21,
       <1>22, <1>23, <1>24
    DEF Next, Command, Over

-----------------------------------------------------------------------------
(* CodeWorks.                                                              *)

LEMMA WorksInit ==
    ASSUME Init
    PROVE  CodeWorks
<1>1. CASE binary = NoFile
    BY <1>1 DEF CodeWorks
<1>2. CASE binary # NoFile
    <2>1. /\ binary = [by |-> Earlier, whole |-> TRUE]
          /\ Accepts(version[Earlier], policy)
        BY <1>2 DEF Init
    <2>. QED
        BY <2>1 DEF CodeWorks
<1>. QED
    BY <1>1, <1>2

LEMMA WorksNext ==
    ASSUME TypeInv, AloneInv, ProgressInv, CodeWorks, [Next]_vars
    PROVE  CodeWorks'
<1>0. Kept
    BY KeptIs DEF TypeInv
<1>1. ASSUME UNCHANGED <<binary, policy, version>>,
             ~overlapped' => ~overlapped, ~raced' => ~raced
      PROVE  CodeWorks'
    BY <1>1 DEF CodeWorks, Accepts
<1>2. ASSUME NEW s \in Script, Write(s)
      PROVE  CodeWorks'
    <2>1. UNCHANGED <<policy, version, overlapped, raced>>
        BY <1>2 DEF Write, Rest, history
    <2>2. CASE binary = NoFile
        <3>1. binary' = NoFile
            BY <1>2, <2>2, EarlierAssumption, NoFileIs DEF Write, NoFile
        <3>. QED
            BY <3>1 DEF CodeWorks, NoFile
    <2>3. CASE binary # NoFile
        <3>1. /\ binary'.by = binary.by
              /\ binary.whole => binary'.whole
            BY <1>0, <1>2 DEF Write, Kept
        <3>. QED
            BY <2>1, <2>3, <3>1 DEF CodeWorks, Accepts
    <2>. QED
        BY <2>2, <2>3
<1>3. ASSUME NEW s \in Script, Replace(s)
      PROVE  CodeWorks'
    <2>1. UNCHANGED <<policy, version, overlapped, raced>>
        BY <1>3 DEF Replace, Rest, history
    <2>2. CASE staged = NoFile
        BY <1>1, <1>3, <2>1, <2>2 DEF Replace
    <2>3. CASE staged # NoFile /\ ~overlapped /\ ~raced
        <3>1. duty[s] # "none"
            BY <1>3, <2>3 DEF AloneInv, Replace, Turn
        <3>2. PICK kind \in Kind :
                 \E i \in 1..Len(Program(platform, kind)) :
                     Due(s, kind, i, "replace")
            BY <1>3, TurnIsDue DEF Replace
        <3>3. PICK i \in 1..Len(Program(platform, kind)) :
                 Due(s, kind, i, "replace")
            BY <3>2
        <3>4. kind = "install" /\ i = 4
            BY <3>3 DEF Due, Place
        <3>5. /\ staged = [by |-> s, whole |-> TRUE]
              /\ Accepts(version[s], policy)
            BY <3>1, <3>3, <3>4 DEF Due, Stands, Progress, Installing
        <3>6. binary' = staged
            BY <1>3, <2>3 DEF Replace
        <3>. QED
            BY <2>1, <3>5, <3>6 DEF CodeWorks, Accepts
    <2>. QED
        BY <2>1, <2>2, <2>3 DEF CodeWorks
<1>4. ASSUME NEW s \in Script, InitPolicy(s)
      PROVE  CodeWorks'
    <2>1. UNCHANGED <<binary, version, overlapped, raced>>
        BY <1>4 DEF InitPolicy, Rest, history
    <2>2. CASE Vacant /\ binary.whole
        <3>1. binary.by \in Script \cup {Earlier}
            BY <1>0 DEF Kept
        <3>2. version[binary.by] \in Version /\ policy' = version[binary.by]
            BY <1>4, <2>2, <3>1 DEF InitPolicy, TypeInv, TypeOK
        <3>3. Accepts(version[binary.by], policy')
            BY <3>2, BoundsAssumption DEF Accepts, Version
        <3>. QED
            BY <2>1, <2>2, <3>3 DEF CodeWorks, Accepts
    <2>3. CASE ~(Vacant /\ binary.whole)
        BY <1>1, <1>4, <2>1, <2>3 DEF InitPolicy
    <2>. QED
        BY <2>2, <2>3
<1>5. ASSUME NEW s \in Script, RemoveCode(s)
      PROVE  CodeWorks'
    <2>1. UNCHANGED <<policy, version, overlapped, raced>>
        BY <1>5 DEF RemoveCode, Rest, history
    <2>2. binary' = NoFile \/ UNCHANGED binary
        BY <1>5 DEF RemoveCode
    <2>. QED
        BY <1>1, <2>1, <2>2 DEF CodeWorks, NoFile
<1>6. ASSUME NEW s \in Script, Start(s)
      PROVE  CodeWorks'
    BY <1>1, <1>6 DEF Start, files
<1>7. ASSUME NEW s \in Script, Command(s), ~Start(s), ~Write(s), ~Replace(s),
             ~InitPolicy(s), ~RemoveCode(s)
      PROVE  CodeWorks'
    <2>1. UNCHANGED <<version, overlapped, raced>>
        BY <1>7, CommandShape, TypeMoves
    <2>2. UNCHANGED <<binary, policy>>
        BY <1>7
        DEF Command, Validate, Stage, OpenUnits, FillUnits, Look, Reload,
            Enable, Lint, Bootout, Bootstrap, Check, Register, Unregister,
            Disable, RemoveUnits, Break, files
    <2>. QED
        BY <1>1, <2>1, <2>2
<1>8. CASE Edit
    <2>1. UNCHANGED <<binary, version, overlapped>>
        BY <1>8 DEF Edit, scripts
    <2>2. binary.whole => Accepts(version[binary.by], policy')
        BY <1>8 DEF Edit
    <2>3. ~raced' => ~raced
        BY <1>8 DEF Edit
    <2>. QED
        BY <2>1, <2>2, <2>3 DEF CodeWorks, Accepts
<1>9. CASE Reboot
    BY <1>1, <1>9 DEF Reboot, files, history
<1>10. CASE UNCHANGED vars
    BY <1>1, <1>10 DEF vars, scripts, files, history
<1>. QED
    BY <1>2, <1>3, <1>4, <1>5, <1>6, <1>7, <1>8, <1>9, <1>10 DEF Next, Over

-----------------------------------------------------------------------------
(* The theorems.                                                           *)

LEMMA InvHolds ==
    Spec => []Inv
<1>1. Init => Inv
    BY TypeInit, AloneInit, ProgressInit, WorksInit DEF Inv
<1>2. ASSUME Inv, [Next]_vars
      PROVE  Inv'
    BY <1>2, TypeNext, AloneNext, ProgressNext, WorksNext DEF Inv
<1>. QED
    BY <1>1, <1>2, PTL DEF Spec

\* Every variable of the scripts, the files and the scheduler has its type,
\* and a script that does not run has no command left.
THEOREM TypeCorrect ==
    Spec => []TypeOK
<1>1. Inv => TypeOK
    BY DEF Inv, TypeInv
<1>. QED
    BY <1>1, InvHolds, PTL

\* platforms/common/install.sh: wherever installs, downgrades and removals are
\* broken off, the installed code is whole and accepts the policy that is
\* there, unless two scripts or the user met.
THEOREM CodeAlwaysWorks ==
    Spec => []CodeWorks
<1>1. Inv => CodeWorks
    BY DEF Inv
<1>. QED
    BY <1>1, InvHolds, PTL

\* The scripts' last lines: an install that was alone leaves its own code, a
\* policy it accepts and a job that the scheduler has loaded; a removal leaves
\* none of it, on Linux and macOS.
THEOREM ThroughMeansDone ==
    Spec => []DoneIsDone
<1>1. ASSUME Inv
      PROVE  DoneIsDone
    <2>. SUFFICES ASSUME NEW s \in Script, Done(s), duty[s] # "none"
                  PROVE  \/ /\ duty[s] = "install"
                            /\ binary = [by |-> s, whole |-> TRUE]
                            /\ policy # Absent
                            /\ Accepts(version[s], policy)
                            /\ units = "whole" /\ loaded = "whole" /\ active
                            /\ platform = "linux" => enabled
                         \/ /\ duty[s] = "uninstall"
                            /\ platform # "windows" =>
                                /\ binary = NoFile
                                /\ units = "absent" /\ loaded = "absent"
                                /\ ~active
        BY DEF DoneIsDone
    <2>1. platform \in System
        BY <1>1, PlatformIs DEF Inv
    <2>2. PICK kind \in Kind :
             Stands(s, kind, Len(Program(platform, kind)) + 1)
        BY <1>1, DoneIsLast DEF Inv
    <2>3. duty[s] = kind /\ Progress(s, kind, Len(Program(platform, kind)) + 1)
        BY <2>2 DEF Stands
    <2>4. /\ Len(Program(platform, kind)) + 1 \in Nat
          /\ Len(Program(platform, kind)) + 1 > Len(Program(platform, kind))
        BY <2>1, Programs
    <2>5. CASE kind = "install"
        BY <2>1, <2>3, <2>5, <2>4, InstallEnds DEF Progress
    <2>6. CASE kind = "uninstall"
        BY <2>1, <2>3, <2>6, <2>4, RemovalEnds DEF Progress
    <2>. QED
        BY <2>5, <2>6 DEF Kind
<1>. QED
    BY <1>1, InvHolds, PTL

\* "The installer preserves existing policy" (README.md): a policy that is
\* there is changed by its user only, in any interleaving of scripts.
THEOREM PolicyIsPreserved ==
    Spec => PolicyPreserved
<1>1. ASSUME Inv, [Next]_vars
      PROVE  [policy' = policy \/ policy = Absent \/ edits' # edits]_vars
    <2>1. ASSUME NEW s \in Script, Command(s)
          PROVE  policy' = policy \/ policy = Absent
        <3>1. CASE InitPolicy(s)
            BY <3>1 DEF InitPolicy, Vacant
        <3>2. CASE ~InitPolicy(s)
            BY <2>1, <3>2
            DEF Command, Start, Validate, Stage, Write, Replace, OpenUnits,
                FillUnits, Look, Reload, Enable, Lint, Bootout, Bootstrap,
                Check, Register, Unregister, Disable, RemoveUnits,
                RemoveCode, Break, files
        <3>. QED
            BY <3>1, <3>2
    <2>2. CASE Edit
        BY <1>1, <2>2, BoundsAssumption DEF Edit, Inv, TypeInv, TypeOK
    <2>3. CASE Reboot
        BY <2>3 DEF Reboot, files
    <2>4. CASE UNCHANGED vars
        BY <2>4
    <2>. QED
        BY <1>1, <2>1, <2>2, <2>3, <2>4 DEF Next, Over
<1>. QED
    BY <1>1, InvHolds, PTL DEF Spec, PolicyPreserved

=============================================================================
