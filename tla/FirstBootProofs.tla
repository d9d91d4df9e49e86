--------------------------- MODULE FirstBootProofs ---------------------------
(***************************************************************************)
(* The proofs about FirstBoot: whatever faults may happen, however often   *)
(* the install is cut off and run again, and whether or not the image      *)
(* exposes SSH, an installed box is complete, a stack that did not come up *)
(* is marked, tty1 has one owner, a run takes at most 19 steps, and the    *)
(* promise of InstallPromise is kept.                                      *)
(***************************************************************************)
EXTENDS FirstBoot, TLAPS

(* The types, one variable at a time. *)
TypeParts ==
  /\ flag \in BOOLEAN /\ marker \in BOOLEAN /\ stack \in BOOLEAN
  /\ active \in BOOLEAN /\ allowed \in BOOLEAN /\ refused \in BOOLEAN
  /\ verified \in BOOLEAN /\ touched \in BOOLEAN /\ getty \in BOOLEAN
  /\ units \subseteq Units
  /\ pc \in Steps \cup {"off", "skipped", "aborted", "done"}
  /\ pulls \in 0 .. 1 /\ attempt \in 1 .. 2
  /\ display \in {"off", "watching", "final", "over"}

LEMMA Parts == TypeOK <=> TypeParts
  <1>1. /\ flag \in BOOLEAN /\ marker \in BOOLEAN /\ stack \in BOOLEAN
        /\ active \in BOOLEAN /\ allowed \in BOOLEAN /\ refused \in BOOLEAN
        /\ verified \in BOOLEAN /\ touched \in BOOLEAN /\ getty \in BOOLEAN
        <=> {flag, marker, active, allowed, refused, stack, verified, touched, getty}
              \subseteq BOOLEAN
    BY Zenon
  <1>2. QED
    BY <1>1 DEF TypeOK, TypeParts

(* Every step keeps the types. *)
LEMMA TypeStep ==
  ASSUME TypeParts, [Next]_vars
  PROVE  TypeParts'
  <1> USE FirstBootAssumption DEF TypeParts, Steps, disk, memory, tty
  <1>1. CASE Boot
    <2>1. UNCHANGED <<disk, touched>> /\ pulls' = 0 /\ attempt' = 1
      BY <1>1 DEF Boot, BootWith
    <2>2. pc' \in {"skipped", "early"} /\ display' \in {"off", "watching"}
      BY <1>1 DEF Boot, BootWith, InstallOnce
    <2>3. stack' \in BOOLEAN /\ verified' \in BOOLEAN /\ getty' \in BOOLEAN
      BY <1>1 DEF Boot, BootWith
    <2>4. QED
      BY <2>1, <2>2, <2>3
  <1>2. CASE PowerLoss
    <2>1. UNCHANGED <<disk, stack, pulls, attempt, verified>>
      BY <1>2 DEF PowerLoss
    <2>2. pc' = "off" /\ touched' = FALSE /\ display' = "off" /\ getty' = FALSE
      BY <1>2 DEF PowerLoss
    <2>3. QED
      BY <2>1, <2>2
  <1>3. CASE Early \/ Env \/ Inspect \/ Abort
    <2>1. /\ UNCHANGED <<disk, stack, pulls, attempt, verified, tty>>
          /\ pc' \in {"env", "pull", "up", "aborted"}
      BY <1>3 DEF Early, Env, Inspect, Abort
    <2>2. touched' \in BOOLEAN
      BY <1>3 DEF Early, Env, Inspect, Abort
    <2>3. QED
      BY <2>1, <2>2
  <1>4. CASE Pull
    BY <1>4 DEF Pull
  <1>5. CASE Up
    <2>1. UNCHANGED <<flag, active, allowed, refused, units, pulls, tty>>
      BY <1>5 DEF Up
    <2>2. pc' \in {"pull", "wifi"} /\ attempt' \in 1 .. 2
      BY <1>5 DEF Up
    <2>3. touched' \in BOOLEAN /\ marker' \in BOOLEAN
      BY <1>5 DEF Up
    <2>4. stack' \in BOOLEAN /\ verified' \in BOOLEAN
      BY <1>5 DEF Up
    <2>5. QED
      BY <2>1, <2>2, <2>3, <2>4
  <1>6. CASE InstallUnit
    BY <1>6 DEF InstallUnit, InstallWith, After
  <1>7. CASE EnableUfw \/ AllowSsh \/ WriteFlag
    <2>1. active' \in BOOLEAN /\ refused' \in BOOLEAN /\ flag' \in BOOLEAN
      BY <1>7 DEF EnableUfw, AllowSsh, WriteFlag
    <2>2. allowed' \in BOOLEAN
      <3>1. CASE AllowSsh
        <4>1. allowed' = (allowed \/ ExposeSsh)
          BY <3>1 DEF AllowSsh
        <4>2. QED
          BY <4>1, Zenon
      <3>2. CASE EnableUfw \/ WriteFlag
        BY <3>2 DEF EnableUfw, WriteFlag
      <3>3. QED
        BY <1>7, <3>1, <3>2
    <2>3. /\ UNCHANGED <<marker, units, stack, pulls, attempt, verified, touched, tty>>
          /\ pc' \in Steps \cup {"done"}
      BY <1>7 DEF EnableUfw, AllowSsh, WriteFlag
    <2>4. QED
      BY <2>1, <2>2, <2>3
  <1>8. CASE SeesFlag \/ DisplayEnds
    BY <1>8 DEF SeesFlag, DisplayEnds, DisplayEndsTo
  <1>9. CASE UNCHANGED vars
    BY <1>9 DEF vars
  <1>10. QED
    BY <1>1, <1>2, <1>3, <1>4, <1>5, <1>6, <1>7, <1>8, <1>9 DEF Next, Install

(* The box of install.sh, its display and its getty stays in its types. *)
THEOREM BootTypeCorrect == Spec => []TypeOK
  <1>1. ASSUME Init
        PROVE  TypeParts
    <2>1. /\ flag \in BOOLEAN /\ marker \in BOOLEAN /\ stack \in BOOLEAN
          /\ active \in BOOLEAN /\ allowed \in BOOLEAN /\ refused \in BOOLEAN
          /\ verified \in BOOLEAN /\ touched \in BOOLEAN /\ getty \in BOOLEAN
      BY <1>1 DEF Init
    <2>2. /\ units \subseteq Units /\ pc = "off" /\ display = "off"
          /\ pulls \in 0 .. 1 /\ attempt \in 1 .. 2
      BY <1>1 DEF Init
    <2>3. QED
      BY <2>1, <2>2 DEF TypeParts
  <1>2. TypeParts /\ [Next]_vars => TypeParts'
    BY TypeStep
  <1>3. TypeParts => TypeOK
    BY Parts
  <1>4. QED
    BY <1>1, <1>2, <1>3, PTL DEF Spec

-----------------------------------------------------------------------------
(* The steps that follow one of the steps from the netbird one on. *)
AfterSsh        == {"restore", "flag", "done"}
AfterUfw        == AfterSsh \cup {"ssh"}
AfterCompose    == AfterUfw \cup {"ufw"}
AfterApply      == AfterCompose \cup {"compose"}
AfterSnapshot   == AfterApply \cup {"manual_apply"}
AfterNetbird    == AfterSnapshot \cup {"snapshot", "wireguard"}
AfterUp         == AfterNetbird \cup {"wifi", "netbird"}

(* What a run has done so far is on the disk, whatever the runs before it  *)
(* had done: `set -e` lets no step be skipped (install.sh:31, 237-459).    *)
ProgressInv ==
  /\ units \subseteq Shipped /\ (allowed => ExposeSsh)
  /\ pc \in AfterNetbird => {"netbird"} \cap Shipped \subseteq units
  /\ pc \in AfterSnapshot => {"snapshot"} \cap Shipped \subseteq units
  /\ pc \in AfterApply => {"manual_apply"} \cap Shipped \subseteq units
  /\ pc \in AfterCompose => {"compose"} \cap Shipped \subseteq units
  /\ pc \in AfterUfw => active \/ refused
  /\ pc \in AfterSsh => allowed = ExposeSsh
  /\ pc \in {"flag", "done"} => {"restore"} \cap Shipped \subseteq units

MarkerInv == "disk" \notin Faults => (pc \in AfterUp => verified \/ marker)

BootInv == ProgressInv /\ FlagMeansComplete /\ MarkerInv

(* Every step keeps that. *)
LEMMA BootStep ==
  ASSUME TypeOK, BootInv, [Next]_vars
  PROVE  BootInv'
  <1> USE FirstBootAssumption
      DEF BootInv, ProgressInv, FlagMeansComplete, MarkerInv, AfterSsh, AfterUfw,
          AfterCompose, AfterApply, AfterSnapshot, AfterNetbird, AfterUp, disk, memory
  <1>1. CASE Boot
    BY <1>1 DEF Boot, BootWith, InstallOnce
  <1>2. CASE PowerLoss \/ Abort
    BY <1>2 DEF PowerLoss, Abort
  <1>3. CASE Early \/ Env \/ Inspect
    BY <1>3 DEF Early, Env, Inspect
  <1>4. CASE Pull
    BY <1>4 DEF Pull
  <1>5. CASE Up
    BY <1>5 DEF Up
  <1>6. CASE InstallUnit
    <2>1. units' = units \cup (Shipped \cap {pc})
      BY <1>6 DEF InstallUnit, InstallWith
    <2>2. /\ pc' = After(pc)
          /\ UNCHANGED <<flag, marker, active, allowed, refused, verified>>
      BY <1>6 DEF InstallUnit, InstallWith
    <2>3. FlagMeansComplete' /\ units' \subseteq Shipped
      BY <2>1, <2>2
    <2>4. ProgressInv' /\ MarkerInv'
      <3>1. CASE pc = "wifi"
        BY <2>1, <2>2, <2>3, <3>1 DEF After
      <3>2. CASE pc = "netbird"
        BY <2>1, <2>2, <2>3, <3>2 DEF After
      <3>3. CASE pc = "wireguard"
        BY <2>1, <2>2, <2>3, <3>3 DEF After
      <3>4. CASE pc = "snapshot"
        BY <2>1, <2>2, <2>3, <3>4 DEF After
      <3>5. CASE pc = "manual_apply"
        BY <2>1, <2>2, <2>3, <3>5 DEF After
      <3>6. CASE pc = "compose"
        BY <2>1, <2>2, <2>3, <3>6 DEF After
      <3>7. CASE pc = "restore"
        BY <2>1, <2>2, <2>3, <3>7 DEF After
      <3>8. QED
        BY <1>6, <3>1, <3>2, <3>3, <3>4, <3>5, <3>6, <3>7 DEF InstallUnit, InstallWith
    <2>5. QED
      BY <2>3, <2>4
  <1>7. CASE EnableUfw \/ AllowSsh
    BY <1>7 DEF EnableUfw, AllowSsh
  <1>8. CASE WriteFlag
    <2>1. units = Shipped
      BY <1>8, FirstBootAssumption DEF WriteFlag, Units
    <2>2. QED
      BY <1>8, <2>1 DEF WriteFlag
  <1>9. CASE SeesFlag \/ DisplayEnds
    BY <1>9 DEF SeesFlag, DisplayEnds, DisplayEndsTo
  <1>10. CASE UNCHANGED vars
    BY <1>10 DEF vars
  <1>11. QED
    BY <1>1, <1>2, <1>3, <1>4, <1>5, <1>6, <1>7, <1>8, <1>9, <1>10 DEF Next, Install

LEMMA BootInvariant == Spec => []BootInv
  <1>1. Init => BootInv
    BY FirstBootAssumption
    DEF Init, BootInv, ProgressInv, FlagMeansComplete, MarkerInv, AfterSsh, AfterUfw,
        AfterCompose, AfterApply, AfterSnapshot, AfterNetbird, AfterUp
  <1>2. TypeOK /\ BootInv /\ [Next]_vars => BootInv'
    BY BootStep
  <1>3. QED
    BY <1>1, <1>2, BootTypeCorrect, PTL DEF Spec

(* A box that says it is installed has every unit its image brings, the    *)
(* rule for SSH exactly if the image wants it, and ufw on unless ufw       *)
(* itself refused, however many runs were cut off and wherever             *)
(* (install.sh:237-459).                                                   *)
THEOREM InstalledIsComplete == Spec => []FlagMeansComplete
  <1>1. BootInv => FlagMeansComplete
    BY DEF BootInv
  <1>2. QED
    BY <1>1, BootInvariant, PTL

(* A run that completes without a stack leaves the marker, if its touch    *)
(* does not fail as well (install.sh:165-206).                             *)
THEOREM FailureIsMarked ==
  ASSUME "disk" \notin Faults
  PROVE  Spec => []DownIsMarked
  <1>1. BootInv => DownIsMarked
    BY DEF BootInv, MarkerInv, DownIsMarked, AfterSsh, AfterUfw, AfterCompose,
           AfterApply, AfterSnapshot, AfterNetbird, AfterUp
  <1>2. QED
    BY <1>1, BootInvariant, PTL

(* The display and the getty never own tty1 together: both conditions are  *)
(* on the flag, and the display ends before it starts the getty            *)
(* (ppsa-firstboot.service:12, 41-53).                                     *)
THEOREM TtyHasOneOwner == Spec => []OneOwner
  <1>1. Init => OneOwner
    BY DEF Init, OneOwner
  <1>2. OneOwner /\ [Next]_vars => OneOwner'
    <2> USE DEF OneOwner, tty
    <2>1. CASE Boot
      BY <2>1 DEF Boot, BootWith
    <2>2. CASE PowerLoss \/ Abort
      BY <2>2 DEF PowerLoss, Abort
    <2>3. CASE Install
      BY <2>3 DEF Install, Early, Env, Pull, Inspect, Up, InstallUnit, InstallWith,
                   EnableUfw, AllowSsh, WriteFlag
    <2>4. CASE SeesFlag
      BY <2>4 DEF SeesFlag
    <2>5. CASE DisplayEnds
      BY <2>5 DEF DisplayEnds, DisplayEndsTo
    <2>6. CASE UNCHANGED vars
      BY <2>6 DEF vars
    <2>7. QED
      BY <2>1, <2>2, <2>3, <2>4, <2>5, <2>6 DEF Next
  <1>3. QED
    BY <1>1, <1>2, PTL DEF Spec

-----------------------------------------------------------------------------
(* Every step of the install is a step of the promise or none. *)
LEMMA PromiseStep ==
  ASSUME TypeOK, BootInv, [Next]_vars
  PROVE  [Promise!Next]_(Promise!promiseVars)
  <1> USE DEF PhaseOf, disk, lan, Promise!promiseVars
  <1>1. CASE Boot
    <2>1. Promise!PowerOn
      BY <1>1 DEF Boot, BootWith, InstallOnce, Promise!PowerOn
    <2>2. QED
      BY <2>1 DEF Promise!Next
  <1>2. CASE PowerLoss
    <2>1. Promise!PowerOff
      BY <1>2 DEF PowerLoss, Promise!PowerOff
    <2>2. QED
      BY <2>1 DEF Promise!Next
  <1>3. CASE Abort
    <2>1. Promise!Abort
      BY <1>3 DEF Abort, Promise!Abort
    <2>2. QED
      BY <2>1 DEF Promise!Next
  <1>4. CASE Early \/ Inspect
    BY <1>4 DEF Early, Inspect
  <1>5. CASE Env \/ Pull \/ Up
    <2>1. Promise!Touch
      BY <1>5 DEF Env, Pull, Up, Promise!Touch
    <2>2. QED
      BY <2>1 DEF Promise!Next
  <1>6. CASE InstallUnit
    BY <1>6 DEF InstallUnit, InstallWith, After
  <1>7. CASE EnableUfw \/ AllowSsh
    <2>1. allowed => ExposeSsh
      BY DEF BootInv, ProgressInv
    <2>2. UNCHANGED lan \/ lan' = FALSE \/ lan' = ExposeSsh
      <3>1. CASE EnableUfw
        <4>1. UNCHANGED allowed /\ (UNCHANGED active \/ active' = TRUE)
          BY <3>1 DEF EnableUfw
        <4>2. CASE UNCHANGED active
          BY <4>1, <4>2
        <4>3. CASE active' = TRUE
          <5>1. lan' <=> allowed
            BY <4>1, <4>3
          <5>2. CASE allowed
            BY <5>1, <5>2, Zenon
          <5>3. CASE ~allowed
            BY <5>1, <5>3, Zenon
          <5>4. QED
            BY <5>2, <5>3
        <4>4. QED
          BY <4>1, <4>2, <4>3
      <3>2. CASE AllowSsh
        <4>1. allowed' = (allowed \/ ExposeSsh) /\ UNCHANGED active
          BY <3>2 DEF AllowSsh
        <4>2. CASE ExposeSsh
          <5>1. lan' /\ ExposeSsh
            BY <4>1, <4>2, Zenon
          <5>2. QED
            BY <5>1, FirstBootAssumption, Zenon
        <4>3. CASE ~ExposeSsh
          <5>1. (lan' <=> lan)
            BY <4>1, <4>3, Zenon
          <5>2. QED
            BY <5>1, Zenon
        <4>4. QED
          BY <4>2, <4>3
      <3>3. QED
        BY <1>7, <3>1, <3>2
    <2>3. pc \in {"ufw", "ssh"} /\ pc' \in {"ssh", "restore"} /\ UNCHANGED <<flag, touched>>
      BY <1>7 DEF EnableUfw, AllowSsh
    <2>4. UNCHANGED lan \/ Promise!SetLan
      BY <2>2, <2>3 DEF Promise!SetLan
    <2>5. QED
      BY <2>3, <2>4 DEF Promise!Next
  <1>8. CASE WriteFlag
    <2>1. ExposeSsh => lan
      BY <1>8 DEF WriteFlag, BootInv, ProgressInv, AfterSsh
    <2>2. Promise!Finish
      BY <1>8, <2>1 DEF WriteFlag, Promise!Finish
    <2>3. QED
      BY <2>2 DEF Promise!Next
  <1>9. CASE SeesFlag \/ DisplayEnds
    BY <1>9 DEF SeesFlag, DisplayEnds, DisplayEndsTo, memory
  <1>10. CASE UNCHANGED vars
    BY <1>10 DEF vars, memory
  <1>11. QED
    BY <1>1, <1>2, <1>3, <1>4, <1>5, <1>6, <1>7, <1>8, <1>9, <1>10 DEF Next, Install

(* The first boot implements what it promises to those outside: the e2e    *)
(* tester relies on no more than that.                                     *)
THEOREM PromiseKept == Spec => KeepsPromise
  <1>1. Init => Promise!Init
    BY DEF Init, Promise!Init, PhaseOf, lan
  <1>2. TypeOK /\ BootInv /\ [Next]_vars => [Promise!Next]_(Promise!promiseVars)
    BY PromiseStep
  <1>3. QED
    BY <1>1, <1>2, BootTypeCorrect, BootInvariant, PTL DEF Spec, KeepsPromise, Promise!Spec

-----------------------------------------------------------------------------
(* The number of steps this boot's install.sh can still take, from where   *)
(* it is in the attempt and the pull it counts.                            *)
Rank(at, try, pulled) ==
  CASE at = "early" -> 19
    [] at = "env" -> 18
    [] at = "pull" -> IF try = 1 THEN 17 - pulled ELSE 13 - pulled
    [] at = "inspect" -> 15
    [] at = "up" -> IF try = 1 THEN 14 ELSE 11
    [] at = "wifi" -> 10
    [] at = "netbird" -> 9
    [] at = "wireguard" -> 8
    [] at = "snapshot" -> 7
    [] at = "manual_apply" -> 6
    [] at = "compose" -> 5
    [] at = "ufw" -> 4
    [] at = "ssh" -> 3
    [] at = "restore" -> 2
    [] at = "flag" -> 1
    [] OTHER -> 0

StepsLeft == Rank(pc, attempt, pulls)

(* A run counts its attempts from the start, although the boot before it   *)
(* may have been cut off in the middle of them.                            *)
AttemptInv ==
  /\ pc \in Steps \ {"pull"} => pulls = 0
  /\ pc \in {"early", "env", "inspect"} => attempt = 1

StepsBound == StepsLeft \in 0 .. 19

LEMMA RankIs ==
  ASSUME NEW try, NEW pulled
  PROVE  /\ Rank("early", try, pulled) = 19 /\ Rank("env", try, pulled) = 18
         /\ Rank("pull", try, pulled) = IF try = 1 THEN 17 - pulled ELSE 13 - pulled
         /\ Rank("inspect", try, pulled) = 15
         /\ Rank("up", try, pulled) = IF try = 1 THEN 14 ELSE 11
         /\ Rank("wifi", try, pulled) = 10 /\ Rank("netbird", try, pulled) = 9
         /\ Rank("wireguard", try, pulled) = 8 /\ Rank("snapshot", try, pulled) = 7
         /\ Rank("manual_apply", try, pulled) = 6 /\ Rank("compose", try, pulled) = 5
         /\ Rank("ufw", try, pulled) = 4 /\ Rank("ssh", try, pulled) = 3
         /\ Rank("restore", try, pulled) = 2 /\ Rank("flag", try, pulled) = 1
         /\ \A at \in {"off", "skipped", "aborted", "done"} : Rank(at, try, pulled) = 0
  BY DEF Rank

LEMMA StepsLeftBounded ==
  ASSUME TypeOK
  PROVE  StepsBound /\ (pc \in Steps => StepsLeft > 0)
  <1>1. TypeParts
    BY Parts
  <1>2. CASE pc \in {"pull", "up"}
    BY <1>1, <1>2, RankIs DEF StepsLeft, TypeParts, StepsBound
  <1>3. CASE pc \notin {"pull", "up"}
    BY <1>1, <1>3, RankIs DEF StepsLeft, TypeParts, Steps, StepsBound
  <1>4. QED
    BY <1>2, <1>3

(* Every step keeps the count of the attempts right. *)
LEMMA AttemptStep ==
  ASSUME TypeOK, AttemptInv, [Next]_vars
  PROVE  AttemptInv'
  <1> USE DEF AttemptInv, Steps, memory
  <1>1. TypeParts
    BY Parts
  <1>2. CASE Boot
    BY <1>2 DEF Boot, BootWith, InstallOnce
  <1>3. CASE PowerLoss \/ Abort
    BY <1>3 DEF PowerLoss, Abort
  <1>4. CASE Early \/ Env \/ Inspect
    BY <1>4 DEF Early, Env, Inspect
  <1>5. CASE Pull
    BY <1>1, <1>5 DEF Pull, TypeParts
  <1>6. CASE Up
    BY <1>6 DEF Up
  <1>7. CASE InstallUnit
    BY <1>7 DEF InstallUnit, InstallWith, After
  <1>8. CASE EnableUfw \/ AllowSsh \/ WriteFlag
    BY <1>8 DEF EnableUfw, AllowSsh, WriteFlag
  <1>9. CASE SeesFlag \/ DisplayEnds
    BY <1>9 DEF SeesFlag, DisplayEnds, DisplayEndsTo
  <1>10. CASE UNCHANGED vars
    BY <1>10 DEF vars
  <1>11. QED
    BY <1>2, <1>3, <1>4, <1>5, <1>6, <1>7, <1>8, <1>9, <1>10 DEF Next, Install

LEMMA AttemptInvariant == Spec => []AttemptInv
  <1>1. Init => AttemptInv
    BY DEF Init, AttemptInv, Steps
  <1>2. TypeOK /\ AttemptInv /\ [Next]_vars => AttemptInv'
    BY AttemptStep
  <1>3. QED
    BY <1>1, <1>2, BootTypeCorrect, PTL DEF Spec

(* A run under way either does not move or has fewer steps left. *)
CountsDown == (pc \in Steps /\ memory' # memory) => (StepsLeft' < StepsLeft)

LEMMA InstallCounts ==
  ASSUME TypeOK, AttemptInv, [Next]_vars
  PROVE  CountsDown
  <1> SUFFICES ASSUME pc \in Steps, memory' # memory
               PROVE  StepsLeft' < StepsLeft
    BY DEF CountsDown
  <1> USE DEF Steps
  <1>1. TypeParts /\ TypeParts'
    BY Parts, TypeStep
  <1>2. StepsLeft > 0
    BY StepsLeftBounded
  <1>3. CASE PowerLoss \/ Abort
    <2>1. StepsLeft' = 0
      BY <1>3, RankIs DEF StepsLeft, PowerLoss, Abort
    <2>2. QED
      BY <1>2, <2>1
  <1>4. CASE Early
    BY <1>4, RankIs DEF StepsLeft, Early
  <1>5. CASE Env
    BY <1>1, <1>5, RankIs DEF StepsLeft, Env, AttemptInv, TypeParts
  <1>6. CASE Pull
    BY <1>1, <1>6, RankIs DEF StepsLeft, Pull, TypeParts
  <1>7. CASE Inspect
    BY <1>1, <1>7, RankIs DEF StepsLeft, Inspect, AttemptInv, TypeParts
  <1>8. CASE Up
    BY <1>1, <1>8, RankIs DEF StepsLeft, Up, AttemptInv, TypeParts
  <1>9. CASE InstallUnit
    BY <1>9, RankIs DEF StepsLeft, InstallUnit, InstallWith, After
  <1>10. CASE EnableUfw \/ AllowSsh
    BY <1>10, RankIs DEF StepsLeft, EnableUfw, AllowSsh
  <1>11. CASE WriteFlag
    BY <1>11, RankIs DEF StepsLeft, WriteFlag
  <1>12. CASE Boot \/ SeesFlag \/ DisplayEnds \/ UNCHANGED vars
    BY <1>12 DEF Boot, BootWith, SeesFlag, DisplayEnds, DisplayEndsTo, vars
  <1>13. QED
    BY <1>3, <1>4, <1>5, <1>6, <1>7, <1>8, <1>9, <1>10, <1>11, <1>12 DEF Next, Install

(* Only the run itself or a power cut moves it, and each of its steps      *)
(* leaves fewer.                                                           *)
RunCountsDown == [][CountsDown]_vars

(* A run of install.sh takes at most 19 steps, whatever fails and however  *)
(* often the box was cut off before: two attempts of two pulls each        *)
(* (install.sh:133-144, 174-199) and the rest once.                         *)
THEOREM InstallIsBounded == Spec => []StepsBound /\ RunCountsDown
  <1>1. TypeOK => StepsBound
    BY StepsLeftBounded
  <1>2. TypeOK /\ AttemptInv /\ [Next]_vars => [CountsDown]_vars
    BY InstallCounts
  <1>3. QED
    BY <1>1, <1>2, BootTypeCorrect, AttemptInvariant, PTL DEF Spec, RunCountsDown

=============================================================================
