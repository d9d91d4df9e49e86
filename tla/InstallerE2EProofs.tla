------------------------- MODULE InstallerE2EProofs -------------------------
(***************************************************************************)
(* The proofs about InstallerE2E: for any timeouts, any number of runs and *)
(* any faults, the counters of its loops stay within their limits; and if  *)
(* the runs do not overlap, a run goes on only with an installed guest,    *)
(* does not time out on one, and suspects a hang only of a silent one.     *)
(***************************************************************************)
EXTENDS InstallerE2E, TLAPS

Pcs == Active \cup Ending \cup {"new", "identity", "over"}

RunType ==
  [pc: Pcs, keep: BOOLEAN, given: BOOLEAN, elapsed: 0 .. Timeout + DiscoveryLimit,
   contact: BOOLEAN, seen: Ages \cup {Never}, lost: BOOLEAN,
   reason: {"none", "never", "hang", "slow"},
   failed: BOOLEAN, warned: BOOLEAN, cut: BOOLEAN, exit: 0 .. 4]

RunTypeOK == run \in [Runs -> RunType]

VmTypeOK ==
  /\ vm \in [state: {"none", "poweroff", "running"}, written: BOOLEAN]
  /\ phase \in Guest!Phases
  /\ flag \in BOOLEAN /\ lan \in BOOLEAN /\ touched \in BOOLEAN /\ settled \in BOOLEAN
  /\ beatAge \in Ages

LEMMA Constants == Timeout \in Nat /\ DiscoveryLimit \in Nat /\ StaleAfter \in Nat
  BY E2EAssumption

-----------------------------------------------------------------------------
(* What the ways on do to the record of a run. *)
Others(r) == \A q \in Runs \ {r} : run'[q] = run[q]

LEMMA GoToMoves ==
  ASSUME RunTypeOK, NEW r \in Runs, NEW p \in Pcs, GoTo(r, p)
  PROVE  /\ RunTypeOK' /\ Others(r)
         /\ run'[r].pc = p
         /\ run'[r].elapsed = run[r].elapsed /\ run'[r].seen = run[r].seen
         /\ run'[r].reason = run[r].reason /\ run'[r].lost = run[r].lost
  BY DEF RunTypeOK, RunType, GoTo, Others

LEMMA FailMoves ==
  ASSUME RunTypeOK, NEW r \in Runs, Fail(r)
  PROVE  /\ RunTypeOK' /\ Others(r)
         /\ run'[r].pc = "summary"
         /\ run'[r].reason = run[r].reason /\ run'[r].seen = run[r].seen
  <1>1. "summary" \in Pcs
    BY DEF Pcs, Active
  <1> DEFINE there == [run EXCEPT ![r].pc = "summary"]
  <1>2. /\ there \in [Runs -> RunType]
        /\ there[r].pc = "summary"
        /\ there[r].reason = run[r].reason /\ there[r].seen = run[r].seen
        /\ \A q \in Runs \ {r} : there[q] = run[q]
    BY <1>1 DEF RunTypeOK, RunType
  <1>3. run' = [there EXCEPT ![r].failed = TRUE]
    BY DEF Fail
  <1> HIDE DEF there
  <1>4. [there[r] EXCEPT !.failed = TRUE] \in RunType
    <2>1. there[r] \in RunType
      BY <1>2
    <2>2. ASSUME NEW rec \in RunType, NEW b \in BOOLEAN
          PROVE  [rec EXCEPT !.failed = b] \in RunType
      BY DEF RunType
    <2>3. QED
      BY <2>1, <2>2
  <1>5. run' = [there EXCEPT ![r] = [there[r] EXCEPT !.failed = TRUE]]
    BY <1>3, Zenon
  <1>6. RunTypeOK' /\ Others(r)
    BY <1>2, <1>4, <1>5 DEF RunTypeOK, Others
  <1>7. /\ [there[r] EXCEPT !.failed = TRUE].pc = "summary"
        /\ [there[r] EXCEPT !.failed = TRUE].reason = run[r].reason
        /\ [there[r] EXCEPT !.failed = TRUE].seen = run[r].seen
    BY <1>2 DEF RunType
  <1>8. QED
    BY <1>2, <1>5, <1>6, <1>7

LEMMA LeaveMoves ==
  ASSUME RunTypeOK, NEW r \in Runs, NEW code \in 0 .. 4, NEW p \in Pcs, LeaveTo(r, code, p)
  PROVE  /\ RunTypeOK' /\ Others(r)
         /\ run'[r].pc = p /\ run'[r].reason = "none" /\ run'[r].seen = Never
  <1>1. 0 \in 0 .. Timeout + DiscoveryLimit /\ Never \in Ages \cup {Never}
    BY Constants
  <1>2. run[r].keep \in BOOLEAN /\ run[r].given \in BOOLEAN
    BY DEF RunTypeOK, RunType
  <1> DEFINE new == NewRun(run[r].keep, run[r].given)
             left == [new EXCEPT !.exit = code]
  <1>3. new \in RunType /\ new.reason = "none" /\ new.seen = Never
    BY <1>1, <1>2 DEF NewRun, Open, RunType, Pcs
  <1>4. run' = [run EXCEPT ![r] = [left EXCEPT !.pc = p]]
    BY DEF LeaveTo
  <1> HIDE DEF new
  <1>5. left \in RunType /\ left.reason = "none" /\ left.seen = Never
    BY <1>3 DEF RunType
  <1> HIDE DEF left
  <1>6. /\ [left EXCEPT !.pc = p] \in RunType
        /\ [left EXCEPT !.pc = p].pc = p
        /\ [left EXCEPT !.pc = p].reason = "none" /\ [left EXCEPT !.pc = p].seen = Never
    BY <1>5 DEF RunType
  <1>7. QED
    BY <1>4, <1>6 DEF RunTypeOK, Others

-----------------------------------------------------------------------------
(* Where a run has seen no heartbeat. *)
Blank == {"new", "identity", "create", "configure", "attach", "boot", "tui", "discover", "nap",
          "cleanup", "unregister", "over"}

(* What a run that does not overlap with another knows of the guest: it is *)
(* past the marker only with the flag there; past a poll that was answered *)
(* otherwise, the guest had no flag at the last tick; and the heartbeat it *)
(* has just read has not grown older since (script, 684-767).              *)
KnowsInv(r) ==
  /\ run[r].pc \in {"chain", "smoke"} => flag /\ vm.state = "running"
  /\ run[r].pc \in {"heartbeat", "deadline"} /\ ~run[r].lost => ~settled
  /\ run[r].pc = "summary" /\ run[r].reason # "none" /\ ~run[r].lost => ~settled
  /\ run[r].seen # Never => touched
  /\ run[r].pc = "deadline" /\ ~run[r].lost => run[r].seen = Never \/ beatAge \in {0, run[r].seen}
  /\ run[r].pc = "summary" /\ run[r].reason = "hang" /\ ~run[r].lost
       => beatAge \in {0, StaleAfter + 1}

(* Where a run may be, given its counter, and what it says: a loop's       *)
(* counter is within its limit, and below it while it sleeps (script,      *)
(* 734-767 and 834-850); a guest that was not contacted did not answer.    *)
OwnInv(r) ==
  /\ run[r].pc \in {"new", "identity", "create", "configure", "attach", "boot", "tui"}
       => run[r].elapsed = 0
  /\ run[r].pc = "discover" => run[r].elapsed <= DiscoveryLimit
  /\ run[r].pc = "nap" => run[r].elapsed < DiscoveryLimit
  /\ run[r].pc \in {"poll", "heartbeat", "deadline"} => run[r].elapsed <= Timeout
  /\ run[r].pc = "sleep" => run[r].elapsed < Timeout
  /\ run[r].pc \in Blank => run[r].seen = Never
  /\ run[r].pc \in {"heartbeat", "deadline"} => run[r].contact \/ run[r].lost
  /\ run[r].reason # "none" => run[r].pc = "summary"
  /\ run[r].reason = "never" => run[r].lost
  /\ ~Concurrent => KnowsInv(r)

(* Of runs that do not overlap only one has a VM. *)
Idle == {"new", "over"}
AloneInv ==
  ~Concurrent => \A r, q \in Runs : r # q /\ run[r].pc \notin Idle => run[q].pc \in Idle

(* A guest is on only in a running VM, and a flag that has been there at   *)
(* a tick is still there.                                                  *)
GuestInv ==
  /\ phase # "off" => vm.state = "running"
  /\ settled => flag

E2EInv ==
  /\ RunTypeOK /\ VmTypeOK
  /\ AloneInv /\ GuestInv
  /\ \A r \in Runs : OwnInv(r)

(* A step of a run that is the only one not idle, or may overlap.          *)
LEMMA Move ==
  ASSUME E2EInv, NEW r \in Runs,
         ~Concurrent => \A q \in Runs \ {r} : run[q].pc \in Idle,
         Others(r), RunTypeOK', VmTypeOK', GuestInv', OwnInv(r)'
  PROVE  E2EInv'
  <1>1. ASSUME NEW q \in Runs \ {r}
        PROVE  /\ ~Concurrent => run'[q].pc \in Idle
               /\ OwnInv(q)'
    <2>1. /\ run'[q] = run[q] /\ OwnInv(q)
          /\ ~Concurrent => run[q].pc \in Idle
      BY <1>1 DEF Others, E2EInv
    <2>2. ~Concurrent => KnowsInv(q)'
      BY <2>1 DEF OwnInv, KnowsInv, Idle, Blank
    <2>3. QED
      BY <2>1, <2>2 DEF OwnInv
  <1>2. AloneInv'
    BY <1>1 DEF AloneInv, Idle
  <1>3. \A q \in Runs : OwnInv(q)'
    BY <1>1
  <1>4. QED
    BY <1>2, <1>3 DEF E2EInv

(* One that leaves VM and guest as they are.                               *)
LEMMA QuietMove ==
  ASSUME E2EInv, NEW r \in Runs, run[r].pc \notin Idle, Others(r), RunTypeOK',
         UNCHANGED <<vm, guest, clock>>, OwnInv(r)'
  PROVE  E2EInv'
  <1>1. VmTypeOK' /\ GuestInv'
    BY DEF E2EInv, VmTypeOK, GuestInv, guest, clock
  <1>2. ~Concurrent => \A q \in Runs \ {r} : run[q].pc \in Idle
    BY DEF E2EInv, AloneInv
  <1>3. QED
    BY <1>1, <1>2, Move

-----------------------------------------------------------------------------
(* A step that fails or is left. *)
LEMMA FailKeeps ==
  ASSUME E2EInv, NEW r \in Runs, Fail(r), UNCHANGED <<vm, guest, clock>>,
         run[r].pc \notin Idle, run[r].reason = "none"
  PROVE  E2EInv'
  <1>1. /\ RunTypeOK' /\ Others(r)
        /\ run'[r].pc = "summary" /\ run'[r].reason = "none" /\ run'[r].seen = run[r].seen
    BY FailMoves DEF E2EInv
  <1>2. ~Concurrent => KnowsInv(r)'
    BY <1>1 DEF KnowsInv, E2EInv, OwnInv, guest, clock
  <1>3. QED
    BY <1>1, <1>2, QuietMove DEF OwnInv, Blank

LEMMA LeaveKeeps ==
  ASSUME E2EInv, NEW r \in Runs, NEW code \in 0 .. 4, NEW p \in {"over", "cleanup"},
         LeaveTo(r, code, p), UNCHANGED <<vm, guest, clock>>, run[r].pc \notin Idle
  PROVE  E2EInv'
  <1>1. p \in Pcs
    BY DEF Pcs, Ending
  <1>2. /\ RunTypeOK' /\ Others(r)
        /\ run'[r].pc = p /\ run'[r].reason = "none" /\ run'[r].seen = Never
    BY <1>1, LeaveMoves DEF E2EInv
  <1>3. OwnInv(r)'
    BY <1>2 DEF OwnInv, KnowsInv
  <1>4. QED
    BY <1>2, <1>3, QuietMove

(* A run that goes on to a step from which nothing is promised but that    *)
(* its counter is as it was. *)
LEMMA GoToKeeps ==
  ASSUME E2EInv, NEW r \in Runs, NEW p \in Pcs \ {"new", "discover", "nap", "poll", "heartbeat",
                                                "deadline", "sleep", "chain", "smoke"},
         GoTo(r, p), UNCHANGED <<vm, guest, clock>>, run[r].pc \notin Idle,
         run[r].reason = "none",
         p \in {"identity", "create", "configure", "attach", "boot", "tui"}
           => run[r].pc \in {"identity", "create", "configure", "attach", "boot", "tui"},
         p \in Blank => run[r].pc \in Blank
  PROVE  E2EInv'
  <1>1. /\ RunTypeOK' /\ Others(r)
        /\ run'[r].pc = p /\ run'[r].reason = "none"
        /\ run'[r].elapsed = run[r].elapsed /\ run'[r].seen = run[r].seen
    BY GoToMoves DEF E2EInv
  <1>2. /\ run'[r].pc \in {"identity", "create", "configure", "attach", "boot", "tui"}
             => run'[r].elapsed = 0
        /\ run'[r].pc \in Blank => run'[r].seen = Never
    BY <1>1 DEF E2EInv, OwnInv
  <1>3. ~Concurrent => KnowsInv(r)'
    BY <1>1 DEF KnowsInv, E2EInv, OwnInv, guest
  <1>4. QED
    BY <1>1, <1>2, <1>3, QuietMove DEF OwnInv

(* Before the summary there is no reason. *)
LEMMA NoReason ==
  ASSUME E2EInv, NEW r \in Runs, run[r].pc # "summary"
  PROVE  run[r].reason = "none"
  BY DEF E2EInv, OwnInv

LEMMA OverMoves ==
  ASSUME RunTypeOK, NEW r \in Runs, NEW code \in 0 .. 4,
         run' = [run EXCEPT ![r].pc = "over", ![r].exit = code]
  PROVE  /\ RunTypeOK' /\ Others(r)
         /\ run'[r].pc = "over" /\ run'[r].reason = run[r].reason
         /\ run'[r].seen = run[r].seen
  <1>1. ASSUME NEW rec \in RunType
        PROVE  /\ [rec EXCEPT !.pc = "over"] \in RunType
               /\ [rec EXCEPT !.exit = code] \in RunType
    BY DEF RunType, Pcs
  <1> DEFINE there == [run EXCEPT ![r].pc = "over"]
  <1>2. /\ there \in [Runs -> RunType]
        /\ there[r].pc = "over"
        /\ there[r].reason = run[r].reason /\ there[r].seen = run[r].seen
        /\ \A q \in Runs \ {r} : there[q] = run[q]
    BY <1>1 DEF RunTypeOK, RunType
  <1>3. run' = [there EXCEPT ![r].exit = code]
    OBVIOUS
  <1> HIDE DEF there
  <1>4. [there[r] EXCEPT !.exit = code] \in RunType
    BY <1>1, <1>2
  <1>5. there[r] \in RunType
    BY <1>2
  <1>6. RunTypeOK' /\ Others(r)
    BY <1>2, <1>3, <1>4 DEF RunTypeOK, Others
  <1>7. run'[r].pc = "over" /\ run'[r].reason = run[r].reason /\ run'[r].seen = run[r].seen
    BY <1>2, <1>3, <1>5 DEF RunType
  <1>8. QED
    BY <1>6, <1>7

-----------------------------------------------------------------------------
(* One lemma for each step of the script. *)
LEMMA BeginKeeps ==
  ASSUME E2EInv, NEW r \in Runs, Begin(r)
  PROVE  E2EInv'
  <1>1. ~Concurrent => \A q \in Runs \ {r} : run[q].pc \in Idle
    BY DEF Begin, Idle
  <1>2. run[r].reason = "none" /\ run[r].elapsed = 0 /\ run[r].seen = Never
    BY DEF E2EInv, OwnInv, Begin, At, Blank
  <1>3. VmTypeOK' /\ GuestInv'
    BY DEF E2EInv, VmTypeOK, GuestInv, guest, clock, Begin
  <1>4. CASE GoTo(r, "identity")
    <2>1. "identity" \in Pcs
      BY DEF Pcs
    <2>2. /\ RunTypeOK' /\ Others(r) /\ run'[r].pc = "identity"
          /\ run'[r].elapsed = 0 /\ run'[r].reason = "none" /\ run'[r].seen = Never
      BY <1>2, <1>4, <2>1, GoToMoves DEF E2EInv
    <2>3. OwnInv(r)'
      BY <2>2 DEF OwnInv, KnowsInv
    <2>4. QED
      BY <1>1, <1>3, <2>2, <2>3, Move
  <1>5. CASE run' = [run EXCEPT ![r].pc = "over", ![r].exit = 2]
    <2>1. /\ RunTypeOK' /\ Others(r)
          /\ run'[r].pc = "over" /\ run'[r].reason = "none" /\ run'[r].seen = Never
      BY <1>2, <1>5, OverMoves, 2 \in 0 .. 4 DEF E2EInv
    <2>2. OwnInv(r)'
      BY <2>1 DEF OwnInv, KnowsInv
    <2>3. QED
      BY <1>1, <1>3, <2>1, <2>2, Move
  <1>6. QED
    BY <1>4, <1>5 DEF Begin

LEMMA CheckIdentityKeeps ==
  ASSUME E2EInv, NEW r \in Runs, CheckIdentity(r)
  PROVE  E2EInv'
  <1>1. /\ run[r].pc = "identity" /\ run[r].pc \notin Idle /\ run[r].reason = "none"
        /\ run[r].seen = Never /\ UNCHANGED <<vm, guest, clock>>
    BY NoReason DEF CheckIdentity, At, Idle, E2EInv, OwnInv, Blank
  <1>2. CASE GoTo(r, "create")
    BY <1>1, <1>2, GoToKeeps DEF Pcs, Active, Blank
  <1>3. CASE run' = [run EXCEPT ![r].pc = "over", ![r].exit = 1]
    <2>1. /\ RunTypeOK' /\ Others(r)
          /\ run'[r].pc = "over" /\ run'[r].reason = "none" /\ run'[r].seen = Never
      BY <1>1, <1>3, OverMoves, 1 \in 0 .. 4 DEF E2EInv
    <2>2. OwnInv(r)'
      BY <2>1 DEF OwnInv, KnowsInv
    <2>3. QED
      BY <1>1, <2>1, <2>2, QuietMove
  <1>4. QED
    BY <1>2, <1>3 DEF CheckIdentity

(* A step that changes the VM and perhaps ends the guest, and goes on.     *)
LEMMA VmMoves ==
  ASSUME E2EInv, NEW r \in Runs, run[r].pc \notin Idle, VmTypeOK', GuestInv',
         NEW p \in {"configure", "tui", "poll", "discover", "unregister", "over"}, GoTo(r, p),
         run[r].reason = "none", run[r].pc \in Blank,
         p \in {"configure", "tui", "poll", "discover"} => run[r].elapsed = 0
  PROVE  E2EInv'
  <1>1. p \in Pcs
    BY DEF Pcs, Active, Ending
  <1>2. /\ RunTypeOK' /\ Others(r)
        /\ run'[r].pc = p /\ run'[r].reason = "none" /\ run'[r].elapsed = run[r].elapsed
        /\ run'[r].seen = Never
    BY <1>1, GoToMoves DEF E2EInv, OwnInv
  <1>3. OwnInv(r)'
    BY <1>2, Constants DEF OwnInv, KnowsInv
  <1>4. ~Concurrent => \A q \in Runs \ {r} : run[q].pc \in Idle
    BY DEF E2EInv, AloneInv
  <1>5. QED
    BY <1>2, <1>3, <1>4, Move

(* One that has changed the VM, and fails all the same.                    *)
LEMMA VmFails ==
  ASSUME E2EInv, NEW r \in Runs, run[r].pc \notin Idle, VmTypeOK', GuestInv', Fail(r),
         run[r].reason = "none", run[r].pc \in Blank
  PROVE  E2EInv'
  <1>1. /\ RunTypeOK' /\ Others(r)
        /\ run'[r].pc = "summary" /\ run'[r].reason = "none" /\ run'[r].seen = Never
    BY FailMoves DEF E2EInv, OwnInv
  <1>2. /\ OwnInv(r)'
        /\ ~Concurrent => \A q \in Runs \ {r} : run[q].pc \in Idle
    BY <1>1 DEF OwnInv, KnowsInv, Blank, E2EInv, AloneInv
  <1>3. QED
    BY <1>1, <1>2, Move

LEMMA CreateVmKeeps ==
  ASSUME E2EInv, NEW r \in Runs, CreateVm(r)
  PROVE  E2EInv'
  <1>1. /\ run[r].pc \notin Idle /\ run[r].reason = "none" /\ run[r].elapsed = 0
        /\ run[r].pc \in Blank /\ UNCHANGED <<guest, clock>>
    BY NoReason DEF CreateVm, At, Idle, E2EInv, OwnInv, Blank
  <1>2. CASE Fail(r) /\ UNCHANGED vm
    BY <1>1, <1>2, FailKeeps
  <1>3. CASE /\ vm.state = "none" /\ vm' = [NoVm EXCEPT !.state = "poweroff"]
             /\ GoTo(r, "configure") \/ Fail(r)
    <2>1. vm' = [state |-> "poweroff", written |-> FALSE]
      BY <1>3 DEF NoVm
    <2>2. vm' \in [state: {"none", "poweroff", "running"}, written: BOOLEAN]
      BY <2>1
    <2>3. VmTypeOK'
      BY <1>1, <2>2 DEF E2EInv, VmTypeOK, guest, clock
    <2>4. GuestInv'
      BY <1>1, <1>3 DEF E2EInv, GuestInv, guest, clock
    <2>5. QED
      BY <1>1, <1>3, <2>3, <2>4, VmMoves, VmFails
  <1>4. QED
    BY <1>2, <1>3 DEF CreateVm

LEMMA ConfigureVmKeeps ==
  ASSUME E2EInv, NEW r \in Runs, ConfigureVm(r) \/ AttachIso(r)
  PROVE  E2EInv'
  <1>1. /\ run[r].pc \in {"configure", "attach"}
        /\ run[r].pc \notin Idle /\ run[r].reason = "none"
        /\ UNCHANGED <<vm, guest, clock>>
    BY NoReason DEF ConfigureVm, AttachIso, At, Idle
  <1>2. GoTo(r, "attach") \/ GoTo(r, "boot") \/ Fail(r)
    BY DEF ConfigureVm, AttachIso, Call
  <1>3. "attach" \in Pcs /\ "boot" \in Pcs
    BY DEF Pcs, Active
  <1>4. QED
    BY <1>1, <1>2, <1>3, FailKeeps, GoToKeeps DEF Blank

LEMMA BootVmKeeps ==
  ASSUME E2EInv, NEW r \in Runs, BootVm(r)
  PROVE  E2EInv'
  <1>1. /\ run[r].pc \notin Idle /\ run[r].reason = "none" /\ run[r].elapsed = 0
        /\ run[r].pc \in Blank /\ UNCHANGED <<guest, clock>>
    BY NoReason DEF BootVm, At, Idle, E2EInv, OwnInv, Blank
  <1>2. CASE Fail(r) /\ UNCHANGED vm
    BY <1>1, <1>2, FailKeeps
  <1>3. CASE vm.state = "poweroff" /\ vm' = [vm EXCEPT !.state = "running"] /\ Call(r, "tui")
    <2>1. VmTypeOK' /\ GuestInv'
      BY <1>1, <1>3 DEF E2EInv, VmTypeOK, GuestInv, guest, clock
    <2>2. CASE GoTo(r, "tui")
      BY <1>1, <2>1, <2>2, VmMoves
    <2>3. CASE Fail(r)
      BY <1>1, <2>1, <2>3, VmFails
    <2>4. QED
      BY <1>3, <2>2, <2>3 DEF Call
  <1>4. QED
    BY <1>2, <1>3 DEF BootVm

LEMMA DriveTuiKeeps ==
  ASSUME E2EInv, NEW r \in Runs, DriveTui(r)
  PROVE  E2EInv'
  <1>1. /\ run[r].pc \notin Idle /\ run[r].reason = "none" /\ run[r].elapsed = 0
        /\ run[r].pc \in Blank /\ UNCHANGED <<guest, clock>>
    BY NoReason DEF DriveTui, At, Idle, E2EInv, OwnInv, Blank
  <1>2. CASE Fail(r) /\ UNCHANGED vm
    BY <1>1, <1>2, FailKeeps
  <1>3. CASE /\ vm.state = "running" /\ vm' \in {vm, [vm EXCEPT !.written = TRUE]}
             /\ GoTo(r, IF run[r].given THEN "poll" ELSE "discover")
    <2>1. vm' \in [state: {"none", "poweroff", "running"}, written: BOOLEAN]
          /\ vm'.state = "running"
      BY <1>3 DEF E2EInv, VmTypeOK
    <2>2. VmTypeOK' /\ GuestInv'
      BY <1>1, <2>1 DEF E2EInv, VmTypeOK, GuestInv, guest, clock
    <2>3. QED
      BY <1>1, <1>3, <2>2, VmMoves
  <1>4. QED
    BY <1>2, <1>3 DEF DriveTui

LEMMA DiscoverKeeps ==
  ASSUME E2EInv, NEW r \in Runs, DiscoverGuestIp(r)
  PROVE  E2EInv'
  <1>1. /\ run[r].pc = "discover" /\ run[r].pc \notin Idle /\ run[r].reason = "none"
        /\ run[r].seen = Never /\ UNCHANGED <<vm, guest, clock>>
    BY NoReason DEF DiscoverGuestIp, At, Idle, E2EInv, OwnInv, Blank
  <1>2. CASE run' = [run EXCEPT ![r].pc = "poll", ![r].elapsed = 0]
    <2>1. ASSUME NEW rec \in RunType
          PROVE  /\ [rec EXCEPT !.pc = "poll"] \in RunType
                 /\ [rec EXCEPT !.elapsed = 0] \in RunType
      BY Constants DEF RunType, Pcs, Active
    <2> DEFINE there == [run EXCEPT ![r].pc = "poll"]
    <2>2. /\ there \in [Runs -> RunType] /\ there[r] \in RunType
          /\ there[r].pc = "poll"
          /\ there[r].reason = run[r].reason /\ there[r].seen = run[r].seen
          /\ \A q \in Runs \ {r} : there[q] = run[q]
      BY <2>1 DEF RunTypeOK, RunType, E2EInv
    <2>3. run' = [there EXCEPT ![r].elapsed = 0]
      BY <1>2
    <2> HIDE DEF there
    <2>4. [there[r] EXCEPT !.elapsed = 0] \in RunType
      BY <2>1, <2>2
    <2>5. RunTypeOK' /\ Others(r)
      BY <2>2, <2>3, <2>4 DEF RunTypeOK, Others
    <2>6. /\ run'[r].pc = "poll" /\ run'[r].reason = "none" /\ run'[r].elapsed = 0
          /\ run'[r].seen = Never
      BY <1>1, <2>2, <2>3 DEF RunType
    <2>7. OwnInv(r)'
      BY <2>6, Constants DEF OwnInv, KnowsInv, Blank
    <2>8. QED
      BY <1>1, <2>5, <2>7, QuietMove
  <1>3. CASE Fail(r)
    BY <1>1, <1>3, FailKeeps
  <1>4. CASE run[r].elapsed < DiscoveryLimit /\ GoTo(r, "nap")
    <2>1. "nap" \in Pcs
      BY DEF Pcs, Active
    <2>2. /\ RunTypeOK' /\ Others(r) /\ run'[r].pc = "nap"
          /\ run'[r].reason = "none" /\ run'[r].elapsed = run[r].elapsed
          /\ run'[r].seen = Never
      BY <1>1, <1>4, <2>1, GoToMoves DEF E2EInv
    <2>3. OwnInv(r)'
      BY <1>4, <2>2 DEF OwnInv, KnowsInv
    <2>4. QED
      BY <1>1, <2>2, <2>3, QuietMove
  <1>5. QED
    BY <1>2, <1>3, <1>4 DEF DiscoverGuestIp

(* What Sleep, a poll and the deadline write, one record at a time.        *)
LEMMA SleepKeeps ==
  ASSUME E2EInv, NEW r \in Runs, Sleep(r)
  PROVE  E2EInv'
  <1>1. /\ run[r].pc \in {"nap", "sleep"} /\ run[r].pc \notin Idle
        /\ run[r].reason = "none" /\ run[r] \in RunType
        /\ UNCHANGED <<vm, guest>>
    BY NoReason DEF Sleep, Idle, E2EInv, RunTypeOK
  <1>2. \A age \in Ages \cup {Never} : /\ Older(age) \in Ages \cup {Never}
                                       /\ Older(age) # Never <=> age # Never
    BY Constants DEF Older, Ages, Never
  <1>3. \A age \in Ages : Older(age) \in Ages
    BY Constants DEF Older, Ages
  <1>4. /\ run[r].elapsed \in Nat /\ run[r].elapsed + 1 \in 0 .. Timeout + DiscoveryLimit
        /\ run[r].pc = "nap" => run[r].elapsed + 1 <= DiscoveryLimit
        /\ run[r].pc = "sleep" => run[r].elapsed + 1 <= Timeout
    BY <1>1, Constants DEF E2EInv, OwnInv, RunType
  <1> DEFINE next == IF run[r].pc = "nap" THEN "discover" ELSE "poll"
             slept == [run[r] EXCEPT !.pc = next, !.elapsed = run[r].elapsed + 1,
                                     !.seen = Older(run[r].seen)]
  <1>5. run' = [run EXCEPT ![r] = slept]
    BY DEF Sleep, E2EInv, RunTypeOK
  <1>6. next \in Pcs /\ Older(run[r].seen) \in Ages \cup {Never}
    BY <1>1, <1>2 DEF Pcs, Active, RunType
  <1>7. /\ slept \in RunType /\ slept.pc = next /\ slept.reason = "none"
        /\ slept.elapsed = run[r].elapsed + 1 /\ slept.seen = Older(run[r].seen)
    BY <1>1, <1>4, <1>6 DEF RunType
  <1> HIDE DEF slept
  <1>8. /\ RunTypeOK' /\ Others(r)
        /\ run'[r].pc = next /\ run'[r].reason = "none"
        /\ run'[r].elapsed = run[r].elapsed + 1 /\ run'[r].seen = Older(run[r].seen)
    BY <1>5, <1>7 DEF E2EInv, RunTypeOK, Others
  <1>9. VmTypeOK' /\ GuestInv'
    BY <1>1, <1>3 DEF Sleep, E2EInv, VmTypeOK, GuestInv, guest
  <1>10. OwnInv(r)'
    <2>1. run'[r].seen # Never <=> run[r].seen # Never
      BY <1>1, <1>2, <1>8 DEF RunType
    <2>2. ~Concurrent => KnowsInv(r)'
      BY <1>1, <1>8, <2>1 DEF E2EInv, OwnInv, KnowsInv, guest
    <2>3. next \in Blank => run'[r].seen = Never
      BY <1>1, <2>1 DEF E2EInv, OwnInv, Blank
    <2>4. QED
      BY <1>1, <1>4, <1>8, <2>2, <2>3 DEF OwnInv
  <1>11. ~Concurrent => \A q \in Runs \ {r} : run[q].pc \in Idle
    BY <1>1 DEF E2EInv, AloneInv
  <1>12. QED
    BY <1>8, <1>9, <1>10, <1>11, Move

LEMMA PollKeeps ==
  ASSUME E2EInv, NEW r \in Runs, PollMarker(r)
  PROVE  E2EInv'
  <1>1. /\ run[r].pc = "poll" /\ run[r].pc \notin Idle /\ run[r].elapsed <= Timeout
        /\ run[r].reason = "none" /\ run[r] \in RunType
        /\ ~Concurrent /\ run[r].seen # Never => touched
        /\ UNCHANGED <<vm, guest, clock>>
    BY NoReason DEF PollMarker, Poll, At, Idle, E2EInv, RunTypeOK, OwnInv, KnowsInv
  <1>2. PICK a \in Answers(r) :
          IF a \in {b \in {"ran"} : flag} THEN GoTo(r, "chain")
          ELSE run' = [run EXCEPT ![r].pc = "heartbeat", ![r].contact = @ \/ a # "timeout",
                                  ![r].lost = (a # "ran")]
    BY DEF PollMarker, Poll
  <1>3. CASE a = "ran" /\ flag
    <2>1. "chain" \in Pcs /\ GoTo(r, "chain")
      BY <1>2, <1>3 DEF Pcs, Active
    <2>2. /\ RunTypeOK' /\ Others(r) /\ run'[r].pc = "chain" /\ run'[r].reason = "none"
          /\ run'[r].seen = run[r].seen
      BY <1>1, <2>1, GoToMoves DEF E2EInv
    <2>3. phase # "off"
      BY <1>3 DEF Answers, Listens
    <2>4. flag' /\ vm'.state = "running"
      BY <1>1, <1>3, <2>3 DEF E2EInv, GuestInv, guest
    <2>5. ~Concurrent => KnowsInv(r)'
      BY <1>1, <2>2, <2>4 DEF KnowsInv, guest
    <2>6. OwnInv(r)'
      BY <2>2, <2>5 DEF OwnInv, Blank
    <2>7. QED
      BY <1>1, <2>2, <2>6, QuietMove
  <1>4. CASE ~(a = "ran" /\ flag)
    <2> DEFINE polled == [run[r] EXCEPT !.pc = "heartbeat",
                                        !.contact = run[r].contact \/ a # "timeout",
                                        !.lost = (a # "ran")]
    <2>1. run' = [run EXCEPT ![r] = polled]
      BY <1>2, <1>4 DEF E2EInv, RunTypeOK
    <2>2. /\ polled \in RunType /\ polled.pc = "heartbeat" /\ polled.reason = "none"
          /\ polled.elapsed = run[r].elapsed /\ polled.seen = run[r].seen
          /\ (a # "ran" => polled.lost) /\ (a = "ran" => polled.contact)
      BY <1>1 DEF RunType, Pcs, Active
    <2> HIDE DEF polled
    <2>3. /\ RunTypeOK' /\ Others(r) /\ run'[r].pc = "heartbeat" /\ run'[r].reason = "none"
          /\ run'[r].elapsed = run[r].elapsed /\ run'[r].seen = run[r].seen
          /\ (a # "ran" => run'[r].lost) /\ (a = "ran" => run'[r].contact)
      BY <2>1, <2>2 DEF E2EInv, RunTypeOK, Others
    <2>4. ~run'[r].lost => ~settled'
      BY <1>1, <1>4, <2>3 DEF E2EInv, GuestInv, clock
    <2>5. ~Concurrent => KnowsInv(r)'
      BY <1>1, <2>3, <2>4 DEF KnowsInv, guest
    <2>6. OwnInv(r)'
      BY <1>1, <2>3, <2>5 DEF OwnInv, Blank
    <2>7. QED
      BY <1>1, <2>3, <2>6, QuietMove
  <1>5. QED
    BY <1>3, <1>4

LEMMA HeartbeatKeeps ==
  ASSUME E2EInv, NEW r \in Runs, PollHeartbeat(r)
  PROVE  E2EInv'
  <1>1. /\ run[r].pc = "heartbeat" /\ run[r].pc \notin Idle /\ run[r].elapsed <= Timeout
        /\ run[r].reason = "none" /\ run[r] \in RunType
        /\ run[r].contact \/ run[r].lost
        /\ ~Concurrent => /\ ~run[r].lost => ~settled
                          /\ run[r].seen # Never => touched
        /\ UNCHANGED <<vm, guest, clock>>
    BY NoReason DEF PollHeartbeat, ReadBeat, At, Idle, E2EInv, RunTypeOK, OwnInv, KnowsInv
  <1>2. PICK a \in Answers(r) :
          run' = [run EXCEPT ![r].pc = "deadline", ![r].lost = @ \/ a # "ran",
                             ![r].seen = IF a = "ran" /\ touched /\ TRUE THEN beatAge ELSE @]
    BY DEF PollHeartbeat, ReadBeat
  <1> DEFINE seen == IF a = "ran" /\ touched THEN beatAge ELSE run[r].seen
             read == [run[r] EXCEPT !.pc = "deadline", !.lost = run[r].lost \/ a # "ran",
                                    !.seen = seen]
  <1>3. run' = [run EXCEPT ![r] = read]
    BY <1>2 DEF E2EInv, RunTypeOK
  <1>4. seen \in Ages \cup {Never}
    BY <1>1 DEF E2EInv, VmTypeOK, RunType
  <1>5. /\ seen # Never => seen = run[r].seen \/ touched
        /\ a = "ran" /\ touched => seen = beatAge
        /\ a = "ran" /\ ~touched => seen = run[r].seen
    OBVIOUS
  <1> HIDE DEF seen
  <1>6. /\ read \in RunType /\ read.pc = "deadline" /\ read.reason = "none"
        /\ read.elapsed = run[r].elapsed /\ read.contact = run[r].contact /\ read.seen = seen
        /\ (run[r].lost \/ a # "ran") => read.lost
    BY <1>1, <1>4 DEF RunType, Pcs, Active
  <1> HIDE DEF read
  <1>7. /\ RunTypeOK' /\ Others(r) /\ run'[r].pc = "deadline" /\ run'[r].reason = "none"
        /\ run'[r].elapsed = run[r].elapsed /\ run'[r].contact = run[r].contact
        /\ run'[r].seen = seen
        /\ (run[r].lost \/ a # "ran") => run'[r].lost
    BY <1>3, <1>6 DEF E2EInv, RunTypeOK, Others
  <1>8. ~Concurrent => KnowsInv(r)'
    <2>1. CASE ~Concurrent
      <3>1. /\ run'[r].seen # Never => touched
            /\ a = "ran" => run'[r].seen = Never \/ run'[r].seen = beatAge
        BY <1>1, <1>5, <1>7, <2>1
      <3>2. QED
        BY <1>1, <1>7, <2>1, <3>1 DEF KnowsInv, guest, clock
    <2>2. QED
      BY <2>1
  <1>9. OwnInv(r)'
    BY <1>1, <1>7, <1>8 DEF OwnInv, Blank
  <1>10. QED
    BY <1>1, <1>7, <1>9, QuietMove

LEMMA DeadlineKeeps ==
  ASSUME E2EInv, NEW r \in Runs, CheckDeadline(r)
  PROVE  E2EInv'
  <1>1. /\ run[r].pc = "deadline" /\ run[r].pc \notin Idle /\ run[r].elapsed <= Timeout
        /\ run[r].reason = "none" /\ run[r] \in RunType
        /\ run[r].contact \/ run[r].lost
        /\ UNCHANGED <<vm, guest, clock>>
    BY NoReason DEF CheckDeadline, At, Idle, E2EInv, RunTypeOK, OwnInv
  <1>2. CASE run[r].elapsed >= Timeout
    <2> DEFINE over == [run[r] EXCEPT !.pc = "summary", !.failed = TRUE, !.reason = Reason(r)]
    <2>1. run' = [run EXCEPT ![r] = over]
      BY <1>2 DEF CheckDeadline, E2EInv, RunTypeOK
    <2>2. Reason(r) \in {"none", "never", "hang", "slow"}
      BY DEF Reason
    <2>3. /\ over \in RunType /\ over.pc = "summary" /\ over.lost = run[r].lost
          /\ over.seen = run[r].seen /\ over.reason = Reason(r)
      BY <1>1, <2>2 DEF RunType, Pcs, Active
    <2> HIDE DEF over
    <2>4. /\ RunTypeOK' /\ Others(r) /\ run'[r].pc = "summary" /\ run'[r].lost = run[r].lost
          /\ run'[r].seen = run[r].seen /\ run'[r].reason = Reason(r)
      BY <2>1, <2>3 DEF E2EInv, RunTypeOK, Others
    <2>5. /\ Reason(r) = "never" => run[r].lost
          /\ Reason(r) = "hang" => run[r].seen = StaleAfter + 1 /\ run[r].seen # Never
      BY <1>1, Constants DEF Reason, Never
    <2>6. ~Concurrent => KnowsInv(r)'
      BY <1>1, <2>4, <2>5 DEF KnowsInv, E2EInv, OwnInv, guest, clock
    <2>7. OwnInv(r)'
      BY <1>1, <2>4, <2>5, <2>6 DEF OwnInv, Blank
    <2>8. QED
      BY <1>1, <2>4, <2>7, QuietMove
  <1>3. CASE ~(run[r].elapsed >= Timeout)
    <2>1. "sleep" \in Pcs /\ GoTo(r, "sleep")
      BY <1>3 DEF CheckDeadline, Pcs, Active
    <2>2. /\ RunTypeOK' /\ Others(r) /\ run'[r].pc = "sleep"
          /\ run'[r].reason = "none" /\ run'[r].elapsed = run[r].elapsed
          /\ run'[r].seen = run[r].seen
      BY <1>1, <2>1, GoToMoves DEF E2EInv
    <2>3. run[r].elapsed < Timeout
      BY <1>1, <1>3, Constants DEF RunType
    <2>4. ~Concurrent => KnowsInv(r)'
      BY <1>1, <2>2 DEF KnowsInv, E2EInv, OwnInv, guest
    <2>5. OwnInv(r)'
      BY <2>2, <2>3, <2>4 DEF OwnInv, Blank
    <2>6. QED
      BY <1>1, <2>2, <2>5, QuietMove
  <1>4. QED
    BY <1>2, <1>3

LEMMA ChainKeeps ==
  ASSUME E2EInv, NEW r \in Runs, VerifyBootChain(r)
  PROVE  E2EInv'
  <1>1. /\ run[r].pc = "chain" /\ run[r].pc \notin Idle /\ run[r].reason = "none"
        /\ UNCHANGED <<vm, guest, clock>>
    BY NoReason DEF VerifyBootChain, At, Idle
  <1>2. PICK next \in {"smoke", "summary"} : GoTo(r, next)
    BY DEF VerifyBootChain
  <1>3. next \in Pcs
    BY DEF Pcs, Active
  <1>4. /\ RunTypeOK' /\ Others(r) /\ run'[r].pc = next /\ run'[r].reason = "none"
        /\ run'[r].seen = run[r].seen
    BY <1>1, <1>2, <1>3, GoToMoves DEF E2EInv
  <1>5. ~Concurrent => KnowsInv(r)'
    BY <1>1, <1>4 DEF KnowsInv, E2EInv, OwnInv, guest
  <1>6. OwnInv(r)'
    BY <1>4, <1>5 DEF OwnInv, Blank
  <1>7. QED
    BY <1>1, <1>4, <1>6, QuietMove

(* sys.exit and Ctrl-C. *)
LEMMA LeaveStep ==
  ASSUME E2EInv, NEW r \in Runs, NEW code \in 0 .. 4, Leave(r, code),
         UNCHANGED <<vm, guest, clock>>, run[r].pc \notin Idle
  PROVE  E2EInv'
  BY LeaveKeeps DEF Leave

LEMMA SmokeKeeps ==
  ASSUME E2EInv, NEW r \in Runs, RunSmokeTest(r)
  PROVE  E2EInv'
  <1>1. /\ run[r].pc = "smoke" /\ run[r].pc \notin Idle /\ run[r].reason = "none"
        /\ UNCHANGED <<vm, guest, clock>>
    BY NoReason DEF RunSmokeTest, At, Idle
  <1>2. "summary" \in Pcs /\ 1 \in 0 .. 4 /\ 2 \in 0 .. 4
    BY DEF Pcs, Active
  <1>3. GoTo(r, "summary") \/ Fail(r) \/ Leave(r, 1) \/ Leave(r, 2)
    BY DEF RunSmokeTest
  <1>4. QED
    BY <1>1, <1>2, <1>3, FailKeeps, GoToKeeps, LeaveStep DEF Blank

LEMMA SummaryKeeps ==
  ASSUME E2EInv, NEW r \in Runs, Summary(r)
  PROVE  E2EInv'
  <1>1. run[r].pc \notin Idle /\ UNCHANGED <<vm, guest, clock>>
    BY DEF Summary, At, Idle
  <1>2. Leave(r, 0) \/ Leave(r, 1)
    BY DEF Summary
  <1>3. 0 \in 0 .. 4 /\ 1 \in 0 .. 4
    OBVIOUS
  <1>4. QED
    BY <1>1, <1>2, <1>3, LeaveStep

LEMMA SignalKeeps ==
  ASSUME E2EInv, NEW r \in Runs, Interrupt(r) \/ Kill(r)
  PROVE  E2EInv'
  <1>1. run[r].pc \notin Idle /\ UNCHANGED <<vm, guest, clock>>
    BY DEF Interrupt, Kill, Idle, Active, Ending
  <1>2. 1 \in 0 .. 4 /\ Killed \in 0 .. 4
    BY DEF Killed
  <1>3. Leave(r, 1) \/ LeaveTo(r, Killed, "over")
    BY DEF Interrupt, Kill
  <1>4. QED
    BY <1>1, <1>2, <1>3, LeaveStep, LeaveKeeps

LEMMA CutMoves ==
  ASSUME RunTypeOK, NEW r \in Runs, run' = [run EXCEPT ![r].pc = "over", ![r].cut = TRUE]
  PROVE  /\ RunTypeOK' /\ Others(r)
         /\ run'[r].pc = "over" /\ run'[r].reason = run[r].reason
         /\ run'[r].seen = run[r].seen
  <1> DEFINE cut == [run[r] EXCEPT !.pc = "over", !.cut = TRUE]
  <1>1. run' = [run EXCEPT ![r] = cut]
    BY DEF RunTypeOK
  <1>2. /\ cut \in RunType /\ cut.pc = "over" /\ cut.reason = run[r].reason
        /\ cut.seen = run[r].seen
    BY DEF RunTypeOK, RunType, Pcs
  <1> HIDE DEF cut
  <1>3. QED
    BY <1>1, <1>2 DEF RunTypeOK, Others

LEMMA CutKeeps ==
  ASSUME E2EInv, NEW r \in Runs, InterruptCleanup(r)
  PROVE  E2EInv'
  <1>1. /\ run[r].pc \notin Idle /\ run[r].reason = "none" /\ run[r].seen = Never
        /\ UNCHANGED <<vm, guest, clock>>
    BY NoReason DEF InterruptCleanup, Idle, Ending, Blank, E2EInv, OwnInv
  <1>2. /\ RunTypeOK' /\ Others(r) /\ run'[r].pc = "over" /\ run'[r].reason = "none"
        /\ run'[r].seen = Never
    BY <1>1, CutMoves DEF InterruptCleanup, E2EInv
  <1>3. OwnInv(r)'
    BY <1>2 DEF OwnInv, KnowsInv
  <1>4. QED
    BY <1>1, <1>2, <1>3, QuietMove

LEMMA PowerOffKeeps ==
  ASSUME E2EInv, NEW r \in Runs, PowerOffVm(r)
  PROVE  E2EInv'
  <1>1. /\ run[r].pc \notin Idle /\ run[r].reason = "none" /\ run[r].pc \in Blank
        /\ GoTo(r, "unregister") /\ UNCHANGED <<flag, lan, clock>>
    BY NoReason DEF PowerOffVm, At, Idle, Blank
  <1>2. CASE /\ vm.state = "running" /\ vm' = [vm EXCEPT !.state = "poweroff"]
             /\ phase' = "off" /\ touched' = FALSE
    <2>1. vm' \in [state: {"none", "poweroff", "running"}, written: BOOLEAN]
      BY <1>2 DEF E2EInv, VmTypeOK
    <2>2. phase' \in Guest!Phases /\ touched' \in BOOLEAN
      BY <1>2 DEF Guest!Phases
    <2>3. VmTypeOK' /\ GuestInv'
      BY <1>1, <1>2, <2>1, <2>2 DEF E2EInv, VmTypeOK, GuestInv, clock
    <2>4. QED
      BY <1>1, <2>3, VmMoves
  <1>3. CASE UNCHANGED <<vm, phase, touched>>
    <2>1. VmTypeOK' /\ GuestInv'
      BY <1>1, <1>3 DEF E2EInv, VmTypeOK, GuestInv, clock
    <2>2. QED
      BY <1>1, <2>1, VmMoves
  <1>4. QED
    BY <1>2, <1>3 DEF PowerOffVm

LEMMA WarnMoves ==
  ASSUME RunTypeOK, NEW r \in Runs, Warn(r)
  PROVE  /\ RunTypeOK' /\ Others(r)
         /\ run'[r].pc = "over" /\ run'[r].reason = run[r].reason
         /\ run'[r].seen = run[r].seen
  <1> DEFINE warned == [run[r] EXCEPT !.pc = "over", !.warned = TRUE]
  <1>1. run' = [run EXCEPT ![r] = warned]
    BY DEF Warn, RunTypeOK
  <1>2. /\ warned \in RunType /\ warned.pc = "over" /\ warned.reason = run[r].reason
        /\ warned.seen = run[r].seen
    BY DEF RunTypeOK, RunType, Pcs
  <1> HIDE DEF warned
  <1>3. QED
    BY <1>1, <1>2 DEF RunTypeOK, Others

LEMMA UnregisterKeeps ==
  ASSUME E2EInv, NEW r \in Runs, UnregisterVm(r)
  PROVE  E2EInv'
  <1>1. /\ run[r].pc \notin Idle /\ run[r].reason = "none" /\ UNCHANGED <<phase, touched>>
        /\ run[r].pc \in Blank /\ run[r].seen = Never
    BY NoReason DEF UnregisterVm, At, Idle, Blank, E2EInv, OwnInv
  <1>2. CASE /\ vm.state = "poweroff"
             /\ GoTo(r, "over") \/ Warn(r)
             /\ vm' = NoVm /\ flag' = FALSE /\ lan' = TRUE
             /\ beatAge' = 0 /\ settled' = FALSE
    <2>1. vm' \in [state: {"none", "poweroff", "running"}, written: BOOLEAN]
      BY <1>2 DEF NoVm
    <2>2. 0 \in Ages
      BY Constants DEF Ages
    <2>3. VmTypeOK'
      BY <1>1, <1>2, <2>1, <2>2 DEF E2EInv, VmTypeOK
    <2>4. GuestInv'
      BY <1>1, <1>2 DEF E2EInv, GuestInv
    <2>5. CASE GoTo(r, "over")
      BY <1>1, <2>3, <2>4, <2>5, VmMoves
    <2>6. CASE Warn(r)
      <3>1. /\ RunTypeOK' /\ Others(r) /\ run'[r].pc = "over" /\ run'[r].reason = "none"
            /\ run'[r].seen = Never
        BY <1>1, <2>6, WarnMoves DEF E2EInv
      <3>2. OwnInv(r)'
        BY <3>1 DEF OwnInv, KnowsInv
      <3>3. ~Concurrent => \A q \in Runs \ {r} : run[q].pc \in Idle
        BY <1>1 DEF E2EInv, AloneInv
      <3>4. QED
        BY <2>3, <2>4, <3>1, <3>2, <3>3, Move
    <2>7. QED
      BY <1>2, <2>5, <2>6
  <1>3. CASE Warn(r) /\ UNCHANGED <<vm, flag, lan, clock>>
    <2>1. UNCHANGED <<vm, guest, clock>>
      BY <1>1, <1>3 DEF guest
    <2>2. /\ RunTypeOK' /\ Others(r) /\ run'[r].pc = "over" /\ run'[r].reason = "none"
          /\ run'[r].seen = Never
      BY <1>1, <1>3, WarnMoves DEF E2EInv
    <2>3. OwnInv(r)'
      BY <2>2 DEF OwnInv, KnowsInv
    <2>4. QED
      BY <1>1, <2>1, <2>2, <2>3, QuietMove
  <1>4. QED
    BY <1>2, <1>3 DEF UnregisterVm

-----------------------------------------------------------------------------
(* The guest's own steps. *)
LEMMA GuestKeeps ==
  ASSUME E2EInv, GuestBoots \/ GuestTouches \/ GuestInstalls
  PROVE  E2EInv'
  <1>1. /\ UNCHANGED <<run, vm, settled>> /\ (flag => flag') /\ (touched => touched')
        /\ beatAge' \in {0, beatAge}
    <2>1. CASE GuestInstalls
      <3>1. UNCHANGED <<run, vm, settled, beatAge, touched>> /\ (UNCHANGED flag \/ flag' = TRUE)
        BY <2>1 DEF GuestInstalls, clock, Guest!SetLan, Guest!Abort, Guest!Finish
      <3>2. QED
        BY <3>1
    <2>2. CASE GuestBoots \/ GuestTouches
      BY <2>2 DEF GuestBoots, GuestTouches, clock, Guest!PowerOn, Guest!Touch
    <2>3. QED
      BY <2>1, <2>2
  <1>2. phase' # "off" => vm.state = "running"
    BY DEF GuestBoots, GuestTouches, GuestInstalls, Guest!PowerOn, Guest!Touch,
           Guest!SetLan, Guest!Abort, Guest!Finish, E2EInv, GuestInv
  <1>3. /\ phase' \in Guest!Phases
        /\ flag' \in BOOLEAN /\ lan' \in BOOLEAN /\ touched' \in BOOLEAN
    BY E2EAssumption DEF GuestBoots, GuestTouches, GuestInstalls, Guest!PowerOn, Guest!Touch,
           Guest!SetLan, Guest!Abort, Guest!Finish, E2EInv, VmTypeOK, Guest!Phases
  <1>4. beatAge' \in Ages
    BY Constants DEF GuestBoots, GuestTouches, GuestInstalls, clock, E2EInv, VmTypeOK, Ages
  <1>5. VmTypeOK' /\ GuestInv'
    BY <1>1, <1>2, <1>3, <1>4 DEF E2EInv, VmTypeOK, GuestInv
  <1>6. AloneInv' /\ RunTypeOK'
    BY <1>1 DEF E2EInv, AloneInv, RunTypeOK
  <1>7. ASSUME NEW r \in Runs
        PROVE  OwnInv(r)'
    <2>1. OwnInv(r) /\ run'[r] = run[r]
      BY <1>1 DEF E2EInv
    <2>2. ~Concurrent => KnowsInv(r)'
      BY <1>1, <2>1 DEF OwnInv, KnowsInv
    <2>3. QED
      BY <2>1, <2>2 DEF OwnInv
  <1>8. QED
    BY <1>5, <1>6, <1>7 DEF E2EInv

-----------------------------------------------------------------------------
LEMMA E2EStep ==
  ASSUME E2EInv, [Next]_vars
  PROVE  E2EInv'
  <1>1. ASSUME NEW r \in Runs, Step(r)
        PROVE  E2EInv'
    BY <1>1, CheckIdentityKeeps, CreateVmKeeps, ConfigureVmKeeps, BootVmKeeps, DriveTuiKeeps,
       DiscoverKeeps, SleepKeeps, PollKeeps, HeartbeatKeeps, DeadlineKeeps, ChainKeeps,
       SmokeKeeps, SummaryKeeps, PowerOffKeeps, UnregisterKeeps DEF Step
  <1>2. ASSUME NEW r \in Runs, Begin(r) \/ Interrupt(r) \/ InterruptCleanup(r) \/ Kill(r)
        PROVE  E2EInv'
    BY <1>2, BeginKeeps, SignalKeeps, CutKeeps
  <1>3. CASE GuestBoots \/ GuestTouches \/ GuestInstalls
    BY <1>3, GuestKeeps
  <1>4. CASE UNCHANGED vars
    <2>1. /\ RunTypeOK' /\ VmTypeOK' /\ AloneInv' /\ GuestInv'
      BY <1>4 DEF E2EInv, RunTypeOK, VmTypeOK, AloneInv, GuestInv, vars, guest, clock
    <2>2. \A r \in Runs : OwnInv(r)'
      BY <1>4 DEF E2EInv, OwnInv, KnowsInv, vars, guest, clock
    <2>3. QED
      BY <2>1, <2>2 DEF E2EInv
  <1>5. QED
    BY <1>1, <1>2, <1>3, <1>4 DEF Next

LEMMA E2EInit ==
  ASSUME Init
  PROVE  E2EInv
  <1>1. /\ \A r \in Runs : /\ run[r].pc = "new" /\ run[r].elapsed = 0
                          /\ run[r].reason = "none" /\ run[r].seen = Never
        /\ RunTypeOK
    <2>1. PICK keep \in [Runs -> BOOLEAN], given \in BOOLEAN :
            run = [r \in Runs |-> NewRun(keep[r], given)]
      BY DEF Init
    <2>2. 0 \in 0 .. Timeout + DiscoveryLimit
      BY Constants
    <2>3. ASSUME NEW r \in Runs
          PROVE  /\ NewRun(keep[r], given) \in RunType
                 /\ NewRun(keep[r], given).pc = "new"
                 /\ NewRun(keep[r], given).elapsed = 0
                 /\ NewRun(keep[r], given).reason = "none"
                 /\ NewRun(keep[r], given).seen = Never
      <3>1. keep[r] \in BOOLEAN
        OBVIOUS
      <3>2. QED
        BY <2>2, <3>1 DEF NewRun, RunType, Pcs, Open
    <2>4. QED
      BY <2>1, <2>3 DEF RunTypeOK
  <1>2. VmTypeOK /\ GuestInv
    <2>1. vm \in [state: {"none", "poweroff", "running"}, written: BOOLEAN] /\ 0 \in Ages
      BY Constants DEF Init, NoVm, Ages
    <2>2. QED
      BY <2>1 DEF Init, VmTypeOK, GuestInv, Guest!Init, Guest!Phases
  <1>3. AloneInv /\ \A r \in Runs : OwnInv(r)
    BY <1>1 DEF AloneInv, OwnInv, KnowsInv, Idle
  <1>4. QED
    BY <1>1, <1>2, <1>3 DEF E2EInv

(* E2EInv holds of the specification.                                      *)
LEMMA E2EInvariant == Spec => []E2EInv
  <1>1. Init => E2EInv
    BY E2EInit
  <1>2. E2EInv /\ [Next]_vars => E2EInv'
    BY E2EStep
  <1>3. QED
    BY <1>1, <1>2, PTL DEF Spec

(* The state stays in its types, whether or not runs overlap; above all,   *)
(* no loop counts past its limit (script, 734-767 and 834-850).            *)
THEOREM E2ETypeCorrect == Spec => []TypeOK
  <1>1. E2EInv => TypeOK
    BY DEF E2EInv, RunTypeOK, RunType, VmTypeOK, TypeOK, Pcs
  <1>2. QED
    BY <1>1, E2EInvariant, PTL

(* A run goes on only with a guest that is installed and on, whatever the  *)
(* guest and the network do meanwhile (script, 684-713).                   *)
THEOREM GoesOnInstalled ==
  ASSUME ~Concurrent
  PROVE  Spec => []CompleteIsInstalled
  <1>1. E2EInv => CompleteIsInstalled
    BY DEF E2EInv, OwnInv, KnowsInv, CompleteIsInstalled
  <1>2. QED
    BY <1>1, E2EInvariant, PTL

(* A run whose last marker check was answered does not time out on a guest *)
(* that was installed by then, for any timeout and whatever it lost before *)
(* (script, 684-767).                                                      *)
THEOREM TimesOutRightly ==
  ASSUME ~Concurrent
  PROVE  Spec => []NoFalseTimeout
  <1>1. E2EInv => NoFalseTimeout
    BY DEF E2EInv, OwnInv, KnowsInv, NoFalseTimeout
  <1>2. QED
    BY <1>1, E2EInvariant, PTL

(* "Never became reachable" is said only if the last marker check was not  *)
(* answered either, whatever runs overlap (script, 695-703 and 740-745).   *)
THEOREM NeverIsUnanswered == Spec => [](\A r \in Runs : run[r].reason = "never" => run[r].lost)
  <1>1. E2EInv => \A r \in Runs : run[r].reason = "never" => run[r].lost
    BY DEF E2EInv, OwnInv
  <1>2. QED
    BY <1>1, E2EInvariant, PTL

(* And a run whose last look was answered suspects a hang only of a guest  *)
(* whose last heartbeat is too old, or has just come (script, 705-767).    *)
THEOREM SuspectsRightly ==
  ASSUME ~Concurrent
  PROVE  Spec => []HangIsStale
  <1>1. E2EInv => HangIsStale
    <2> SUFFICES ASSUME E2EInv, NEW r \in Runs,
                        run[r].reason = "hang", At(r, "summary"), ~run[r].lost
                 PROVE  beatAge = 0 \/ beatAge > StaleAfter
      BY DEF HangIsStale
    <2>1. beatAge \in {0, StaleAfter + 1}
      BY DEF E2EInv, OwnInv, KnowsInv, At
    <2>2. QED
      BY <2>1, Constants
  <1>2. QED
    BY <1>1, E2EInvariant, PTL

-----------------------------------------------------------------------------
(* The steps that a run has still to take at most, in calls and sleeps. A  *)
(* poll, its heartbeat, its deadline and its sleep are one turn of a loop. *)
Rank(pc, elapsed) ==
  LET polling == 4 * (Timeout - elapsed) + 5
      looking == 4 * Timeout + 2 * (DiscoveryLimit - elapsed) + 9
      started == 4 * Timeout + 2 * DiscoveryLimit + 9
  IN  CASE pc = "new" -> started + 9
        [] pc = "identity" -> started + 8
        [] pc = "create" -> started + 7
        [] pc = "configure" -> started + 6
        [] pc = "attach" -> started + 5
        [] pc = "boot" -> started + 4
        [] pc = "tui" -> started + 3
        [] pc = "discover" -> looking + 2
        [] pc = "nap" -> looking + 1
        [] pc = "poll" -> polling + 4
        [] pc = "heartbeat" -> polling + 3
        [] pc = "deadline" -> polling + 2
        [] pc = "sleep" -> polling + 1
        [] pc = "chain" -> 5
        [] pc = "smoke" -> 4
        [] pc = "summary" -> 3
        [] pc = "cleanup" -> 2
        [] pc = "unregister" -> 1
        [] pc = "over" -> 0

StepsLeft(r) == Rank(run[r].pc, run[r].elapsed)

LEMMA RankIs ==
  ASSUME NEW e \in Nat
  PROVE  /\ Rank("new", e) = 4 * Timeout + 2 * DiscoveryLimit + 18
         /\ Rank("identity", e) = 4 * Timeout + 2 * DiscoveryLimit + 17
         /\ Rank("create", e) = 4 * Timeout + 2 * DiscoveryLimit + 16
         /\ Rank("configure", e) = 4 * Timeout + 2 * DiscoveryLimit + 15
         /\ Rank("attach", e) = 4 * Timeout + 2 * DiscoveryLimit + 14
         /\ Rank("boot", e) = 4 * Timeout + 2 * DiscoveryLimit + 13
         /\ Rank("tui", e) = 4 * Timeout + 2 * DiscoveryLimit + 12
         /\ Rank("discover", e) = 4 * Timeout + 2 * (DiscoveryLimit - e) + 11
         /\ Rank("nap", e) = 4 * Timeout + 2 * (DiscoveryLimit - e) + 10
         /\ Rank("poll", e) = 4 * (Timeout - e) + 9
         /\ Rank("heartbeat", e) = 4 * (Timeout - e) + 8
         /\ Rank("deadline", e) = 4 * (Timeout - e) + 7
         /\ Rank("sleep", e) = 4 * (Timeout - e) + 6
         /\ Rank("chain", e) = 5 /\ Rank("smoke", e) = 4 /\ Rank("summary", e) = 3
         /\ Rank("cleanup", e) = 2 /\ Rank("unregister", e) = 1 /\ Rank("over", e) = 0
  BY Constants DEF Rank

LEMMA StepsLeftBounded ==
  ASSUME E2EInv, NEW r \in Runs
  PROVE  StepsLeft(r) \in 0 .. 4 * Timeout + 2 * DiscoveryLimit + 18
  <1>1. run[r].elapsed \in Nat /\ run[r].pc \in Pcs /\ OwnInv(r)
    BY Constants DEF E2EInv, RunTypeOK, RunType
  <1>2. Timeout \in Nat /\ DiscoveryLimit \in Nat
    BY Constants
  <1>3. CASE run[r].pc \in {"discover", "nap"}
    BY <1>1, <1>2, <1>3, RankIs DEF OwnInv, StepsLeft
  <1>4. CASE run[r].pc \in {"poll", "heartbeat", "deadline", "sleep"}
    BY <1>1, <1>2, <1>4, RankIs DEF OwnInv, StepsLeft
  <1>5. CASE run[r].pc \notin {"discover", "nap", "poll", "heartbeat", "deadline", "sleep"}
    BY <1>1, <1>2, <1>5, RankIs DEF StepsLeft, Pcs, Active, Ending
  <1>6. QED
    BY <1>3, <1>4, <1>5

(* Those that are left of a run that fails or leaves. *)
LEMMA FewLeft ==
  ASSUME E2EInv, RunTypeOK', NEW r \in Runs,
         \/ run[r].pc \notin {"summary", "cleanup", "unregister", "over"} /\ run'[r].pc = "summary"
         \/ run[r].pc \notin {"cleanup", "unregister", "over"} /\ run'[r].pc = "cleanup"
         \/ run[r].pc # "over" /\ run'[r].pc = "over"
  PROVE  StepsLeft(r)' < StepsLeft(r)
  <1>1. /\ run[r].elapsed \in Nat /\ run[r].pc \in Pcs /\ OwnInv(r)
        /\ run'[r].elapsed \in Nat
    BY Constants DEF E2EInv, RunTypeOK, RunType
  <1>2. /\ StepsLeft(r) \in Nat
        /\ run[r].pc \notin {"summary", "cleanup", "unregister", "over"} => StepsLeft(r) > 3
        /\ run[r].pc \notin {"cleanup", "unregister", "over"} => StepsLeft(r) > 2
        /\ run[r].pc # "over" => StepsLeft(r) > 0
    <2>1. Timeout \in Nat /\ DiscoveryLimit \in Nat /\ StepsLeft(r) \in Nat
      BY Constants, StepsLeftBounded
    <2>2. CASE run[r].pc \in {"discover", "nap", "poll", "heartbeat", "deadline", "sleep"}
      BY <1>1, <2>1, <2>2, RankIs DEF OwnInv, StepsLeft
    <2>3. CASE run[r].pc \in {"new", "identity", "create", "configure", "attach", "boot", "tui"}
      <3>1. \A pc \in {"new", "identity", "create", "configure", "attach", "boot", "tui"} :
              Rank(pc, run[r].elapsed) > 11
        BY <1>1, <2>1, RankIs
      <3>2. StepsLeft(r) > 11
        BY <2>3, <3>1 DEF StepsLeft
      <3>3. QED
        BY <2>1, <3>2
    <2>4. CASE run[r].pc \in {"chain", "smoke", "summary", "cleanup", "unregister", "over"}
      BY <1>1, <2>1, <2>4, RankIs DEF StepsLeft
    <2>5. QED
      BY <1>1, <2>1, <2>2, <2>3, <2>4 DEF Pcs, Active, Ending
  <1>3. /\ run'[r].pc = "summary" => StepsLeft(r)' = 3
        /\ run'[r].pc = "cleanup" => StepsLeft(r)' = 2
        /\ run'[r].pc = "over" => StepsLeft(r)' = 0
    BY <1>1, RankIs DEF StepsLeft
  <1>4. QED
    BY <1>2, <1>3

(* And of one that goes on.                                                *)
Onward ==
  {<<"new", "identity">>, <<"identity", "create">>, <<"create", "configure">>,
   <<"configure", "attach">>, <<"attach", "boot">>, <<"boot", "tui">>, <<"tui", "poll">>,
   <<"tui", "discover">>, <<"discover", "nap">>, <<"poll", "heartbeat">>, <<"poll", "chain">>,
   <<"heartbeat", "deadline">>, <<"deadline", "sleep">>, <<"chain", "smoke">>,
   <<"chain", "summary">>, <<"smoke", "summary">>, <<"cleanup", "unregister">>,
   <<"unregister", "over">>}

LEMMA OneLess ==
  ASSUME E2EInv, NEW r \in Runs, <<run[r].pc, run'[r].pc>> \in Onward,
         run'[r].elapsed = run[r].elapsed
  PROVE  StepsLeft(r)' < StepsLeft(r)
  <1>1. /\ run[r].elapsed \in Nat /\ OwnInv(r)
        /\ Timeout \in Nat /\ DiscoveryLimit \in Nat
    BY Constants DEF E2EInv, RunTypeOK, RunType
  <1>2. CASE run[r].pc = "tui"
    <2>1. run'[r].pc \in {"poll", "discover"} /\ run[r].elapsed = 0
      BY <1>1, <1>2 DEF Onward, OwnInv
    <2>2. QED
      BY <1>1, <1>2, <2>1, RankIs DEF StepsLeft
  <1>3. CASE run[r].pc \in {"discover", "poll", "heartbeat", "deadline"}
    <2>1. CASE run[r].pc = "discover"
      <3>1. run'[r].pc = "nap"
        BY <2>1 DEF Onward
      <3>2. QED
        BY <1>1, <2>1, <3>1, RankIs DEF StepsLeft
    <2>2. CASE run[r].pc = "poll"
      <3>1. run'[r].pc \in {"heartbeat", "chain"} /\ run[r].elapsed <= Timeout
        BY <1>1, <2>2 DEF Onward, OwnInv
      <3>2. QED
        BY <1>1, <2>2, <3>1, RankIs DEF StepsLeft
    <2>3. CASE run[r].pc \in {"heartbeat", "deadline"}
      <3>1. \/ run[r].pc = "heartbeat" /\ run'[r].pc = "deadline"
            \/ run[r].pc = "deadline" /\ run'[r].pc = "sleep"
        BY <2>3 DEF Onward
      <3>2. QED
        BY <1>1, <3>1, RankIs DEF StepsLeft
    <2>4. QED
      BY <1>3, <2>1, <2>2, <2>3
  <1>4. CASE run[r].pc \notin {"tui", "discover", "poll", "heartbeat", "deadline"}
    BY <1>1, <1>4, RankIs DEF StepsLeft, Onward
  <1>5. QED
    BY <1>2, <1>3, <1>4

LEMMA GoToGoes ==
  ASSUME E2EInv, NEW r \in Runs, NEW p \in Pcs, GoTo(r, p), <<run[r].pc, p>> \in Onward
  PROVE  StepsLeft(r)' < StepsLeft(r) /\ Others(r)
  <1>1. Others(r) /\ run'[r].pc = p /\ run'[r].elapsed = run[r].elapsed
    BY GoToMoves DEF E2EInv
  <1>2. QED
    BY <1>1, OneLess

LEMMA FailEnds ==
  ASSUME E2EInv, NEW r \in Runs, Fail(r),
         run[r].pc \notin {"summary", "cleanup", "unregister", "over"}
  PROVE  StepsLeft(r)' < StepsLeft(r) /\ Others(r)
  <1>1. RunTypeOK' /\ Others(r) /\ run'[r].pc = "summary"
    BY FailMoves DEF E2EInv
  <1>2. QED
    BY <1>1, FewLeft

LEMMA LeaveEnds ==
  ASSUME E2EInv, NEW r \in Runs, NEW code \in 0 .. 4, NEW p \in {"over", "cleanup"},
         LeaveTo(r, code, p), run[r].pc # "over",
         run[r].pc \in {"cleanup", "unregister"} => p = "over"
  PROVE  StepsLeft(r)' < StepsLeft(r) /\ Others(r)
  <1>1. p \in Pcs
    BY DEF Pcs, Ending
  <1>2. RunTypeOK' /\ Others(r) /\ run'[r].pc = p
    BY <1>1, LeaveMoves DEF E2EInv
  <1>3. QED
    BY <1>2, FewLeft

LEMMA OverEnds ==
  ASSUME E2EInv, NEW r \in Runs, NEW code \in 0 .. 4, run[r].pc # "over",
         run' = [run EXCEPT ![r].pc = "over", ![r].exit = code]
  PROVE  StepsLeft(r)' < StepsLeft(r) /\ Others(r)
  <1>1. RunTypeOK' /\ Others(r) /\ run'[r].pc = "over"
    BY OverMoves DEF E2EInv
  <1>2. QED
    BY <1>1, FewLeft

(* Each step of a run is one less, and leaves the other runs alone.        *)
LEMMA StepCounts ==
  ASSUME E2EInv, NEW r \in Runs,
         Begin(r) \/ Step(r) \/ Interrupt(r) \/ InterruptCleanup(r) \/ Kill(r)
  PROVE  StepsLeft(r)' < StepsLeft(r) /\ Others(r)
  <1>1. /\ run \in [Runs -> RunType] /\ run[r] \in RunType /\ run[r].elapsed \in Nat
        /\ Timeout \in Nat /\ DiscoveryLimit \in Nat /\ OwnInv(r)
    BY Constants DEF E2EInv, RunTypeOK, RunType
  <1>2. /\ {0, 1, 2} \subseteq 0 .. 4 /\ Killed \in 0 .. 4
        /\ Pcs = {"create", "configure", "attach", "boot", "tui", "discover", "nap",
                  "poll", "heartbeat", "deadline", "sleep", "chain", "smoke", "summary",
                  "cleanup", "unregister", "new", "identity", "over"}
    BY DEF Killed, Pcs, Active, Ending
  <1>3. ASSUME NEW from \in Pcs, NEW p \in Pcs, run[r].pc = from, GoTo(r, p),
               <<from, p>> \in Onward
        PROVE  StepsLeft(r)' < StepsLeft(r) /\ Others(r)
    BY <1>3, GoToGoes
  <1>4. CASE Begin(r)
    <2>1. run[r].pc = "new"
      BY <1>4 DEF Begin, At
    <2>2. CASE GoTo(r, "identity")
      BY <1>2, <1>3, <2>1, <2>2 DEF Onward
    <2>3. CASE run' = [run EXCEPT ![r].pc = "over", ![r].exit = 2]
      BY <1>2, <2>1, <2>3, OverEnds
    <2>4. QED
      BY <1>4, <2>2, <2>3 DEF Begin
  <1>5. CASE CheckIdentity(r)
    <2>1. run[r].pc = "identity"
      BY <1>5 DEF CheckIdentity, At
    <2>2. CASE GoTo(r, "create")
      BY <1>2, <1>3, <2>1, <2>2 DEF Onward
    <2>3. CASE run' = [run EXCEPT ![r].pc = "over", ![r].exit = 1]
      BY <1>2, <2>1, <2>3, OverEnds
    <2>4. QED
      BY <1>5, <2>2, <2>3 DEF CheckIdentity
  <1>6. CASE CreateVm(r)
    <2>1. run[r].pc = "create" /\ (GoTo(r, "configure") \/ Fail(r))
      BY <1>6 DEF CreateVm, At
    <2>2. QED
      BY <1>2, <1>3, <2>1, FailEnds DEF Onward
  <1>7. CASE ConfigureVm(r) \/ AttachIso(r)
    <2>1. \/ run[r].pc = "configure" /\ (GoTo(r, "attach") \/ Fail(r))
          \/ run[r].pc = "attach" /\ (GoTo(r, "boot") \/ Fail(r))
      BY <1>7 DEF ConfigureVm, AttachIso, Call, At
    <2>2. QED
      BY <1>2, <1>3, <2>1, FailEnds DEF Onward
  <1>8. CASE BootVm(r)
    <2>1. run[r].pc = "boot" /\ (GoTo(r, "tui") \/ Fail(r))
      BY <1>8 DEF BootVm, Call, At
    <2>2. QED
      BY <1>2, <1>3, <2>1, FailEnds DEF Onward
  <1>9. CASE DriveTui(r)
    <2>1. run[r].pc = "tui" /\ (GoTo(r, "poll") \/ GoTo(r, "discover") \/ Fail(r))
      BY <1>9 DEF DriveTui, At
    <2>2. QED
      BY <1>2, <1>3, <2>1, FailEnds DEF Onward
  <1>10. CASE DiscoverGuestIp(r)
    <2>1. run[r].pc = "discover"
      BY <1>10 DEF DiscoverGuestIp, At
    <2>2. CASE run' = [run EXCEPT ![r].pc = "poll", ![r].elapsed = 0]
      <3> DEFINE found == [run[r] EXCEPT !.pc = "poll", !.elapsed = 0]
      <3>1. run' = [run EXCEPT ![r] = found]
        BY <1>1, <2>2
      <3>2. found.pc = "poll" /\ found.elapsed = 0
        BY <1>1 DEF RunType
      <3> HIDE DEF found
      <3>3. Others(r) /\ run'[r].pc = "poll" /\ run'[r].elapsed = 0
        BY <1>1, <3>1, <3>2 DEF Others
      <3>4. QED
        BY <1>1, <2>1, <3>3, RankIs DEF OwnInv, StepsLeft
    <2>3. CASE Fail(r)
      BY <2>1, <2>3, FailEnds
    <2>4. CASE GoTo(r, "nap")
      BY <1>2, <1>3, <2>1, <2>4 DEF Onward
    <2>5. QED
      BY <1>10, <2>2, <2>3, <2>4 DEF DiscoverGuestIp
  <1>11. CASE Sleep(r)
    <2> DEFINE next == IF run[r].pc = "nap" THEN "discover" ELSE "poll"
               slept == [run[r] EXCEPT !.pc = next, !.elapsed = run[r].elapsed + 1,
                                       !.seen = Older(run[r].seen)]
    <2>1. run' = [run EXCEPT ![r] = slept]
      BY <1>1, <1>11 DEF Sleep
    <2>2. slept.pc = next /\ slept.elapsed = run[r].elapsed + 1
      BY <1>1 DEF RunType
    <2> HIDE DEF slept
    <2>3. Others(r) /\ run'[r].pc = next /\ run'[r].elapsed = run[r].elapsed + 1
      BY <1>1, <2>1, <2>2 DEF Others
    <2>4. CASE run[r].pc = "nap"
      BY <1>1, <2>3, <2>4, RankIs DEF OwnInv, StepsLeft
    <2>5. CASE run[r].pc = "sleep"
      BY <1>1, <2>3, <2>5, RankIs DEF OwnInv, StepsLeft
    <2>6. QED
      BY <1>11, <2>4, <2>5 DEF Sleep
  <1>12. CASE PollMarker(r)
    <2>1. PICK a \in Answers(r) :
            IF a \in {b \in {"ran"} : flag} THEN GoTo(r, "chain")
            ELSE run' = [run EXCEPT ![r].pc = "heartbeat", ![r].contact = @ \/ a # "timeout",
                                    ![r].lost = (a # "ran")]
      BY <1>12 DEF PollMarker, Poll
    <2>2. run[r].pc = "poll"
      BY <1>12 DEF PollMarker, Poll, At
    <2>3. CASE GoTo(r, "chain")
      BY <1>2, <1>3, <2>2, <2>3 DEF Onward
    <2>4. CASE a \notin {b \in {"ran"} : flag}
      <3> DEFINE polled == [run[r] EXCEPT !.pc = "heartbeat",
                                          !.contact = run[r].contact \/ a # "timeout",
                                          !.lost = (a # "ran")]
      <3>1. run' = [run EXCEPT ![r] = polled]
        BY <1>1, <2>1, <2>4
      <3>2. polled.pc = "heartbeat" /\ polled.elapsed = run[r].elapsed
        BY <1>1 DEF RunType
      <3> HIDE DEF polled
      <3>3. Others(r) /\ run'[r].pc = "heartbeat" /\ run'[r].elapsed = run[r].elapsed
        BY <1>1, <3>1, <3>2 DEF Others
      <3>4. QED
        BY <2>2, <3>3, OneLess DEF Onward
    <2>5. QED
      BY <2>1, <2>3, <2>4
  <1>13. CASE PollHeartbeat(r)
    <2>1. PICK a \in Answers(r) :
            run' = [run EXCEPT ![r].pc = "deadline", ![r].lost = @ \/ a # "ran",
                               ![r].seen = IF a = "ran" /\ touched /\ TRUE THEN beatAge ELSE @]
      BY <1>13 DEF PollHeartbeat, ReadBeat
    <2> DEFINE seen == IF a = "ran" /\ touched THEN beatAge ELSE run[r].seen
               read == [run[r] EXCEPT !.pc = "deadline", !.lost = run[r].lost \/ a # "ran",
                                      !.seen = seen]
    <2>2. run' = [run EXCEPT ![r] = read]
      BY <1>1, <2>1
    <2> HIDE DEF seen
    <2>3. read.pc = "deadline" /\ read.elapsed = run[r].elapsed
      BY <1>1 DEF RunType
    <2> HIDE DEF read
    <2>4. Others(r) /\ run'[r].pc = "deadline" /\ run'[r].elapsed = run[r].elapsed
      BY <1>1, <2>2, <2>3 DEF Others
    <2>5. run[r].pc = "heartbeat"
      BY <1>13 DEF PollHeartbeat, ReadBeat, At
    <2>6. QED
      BY <2>4, <2>5, OneLess DEF Onward
  <1>14. CASE CheckDeadline(r)
    <2>1. run[r].pc = "deadline"
      BY <1>14 DEF CheckDeadline, At
    <2>2. CASE run[r].elapsed >= Timeout
      <3> DEFINE out == [run[r] EXCEPT !.pc = "summary", !.failed = TRUE, !.reason = Reason(r)]
      <3>1. run' = [run EXCEPT ![r] = out]
        BY <1>1, <1>14, <2>2 DEF CheckDeadline
      <3>2. out.pc = "summary" /\ out.elapsed = run[r].elapsed
        BY <1>1 DEF RunType
      <3> HIDE DEF out
      <3>3. Others(r) /\ run'[r].pc = "summary" /\ run'[r].elapsed = run[r].elapsed
        BY <1>1, <3>1, <3>2 DEF Others
      <3>4. QED
        BY <1>1, <2>1, <3>3, RankIs DEF OwnInv, StepsLeft
    <2>3. CASE ~(run[r].elapsed >= Timeout)
      <3>1. GoTo(r, "sleep")
        BY <1>14, <2>3 DEF CheckDeadline
      <3>2. QED
        BY <1>2, <1>3, <2>1, <3>1 DEF Onward
    <2>4. QED
      BY <2>2, <2>3
  <1>15. CASE VerifyBootChain(r)
    <2>1. run[r].pc = "chain" /\ (GoTo(r, "smoke") \/ GoTo(r, "summary"))
      BY <1>15 DEF VerifyBootChain, At
    <2>2. QED
      BY <1>2, <1>3, <2>1 DEF Onward
  <1>16. ASSUME NEW code \in 0 .. 4, Leave(r, code),
                run[r].pc \notin {"cleanup", "unregister", "over"}
         PROVE  StepsLeft(r)' < StepsLeft(r) /\ Others(r)
    BY <1>16, LeaveEnds DEF Leave
  <1>17. CASE RunSmokeTest(r)
    <2>1. /\ run[r].pc = "smoke"
          /\ GoTo(r, "summary") \/ Fail(r) \/ Leave(r, 1) \/ Leave(r, 2)
      BY <1>17 DEF RunSmokeTest, At
    <2>2. QED
      BY <1>2, <1>3, <1>16, <2>1, FailEnds DEF Onward
  <1>18. CASE Summary(r)
    <2>1. run[r].pc = "summary" /\ (Leave(r, 0) \/ Leave(r, 1))
      BY <1>18 DEF Summary, At
    <2>2. QED
      BY <1>2, <1>16, <2>1
  <1>19. CASE PowerOffVm(r)
    <2>1. run[r].pc = "cleanup" /\ GoTo(r, "unregister")
      BY <1>19 DEF PowerOffVm, At
    <2>2. QED
      BY <1>2, <1>3, <2>1 DEF Onward
  <1>20. CASE UnregisterVm(r)
    <2>1. run[r].pc = "unregister" /\ (GoTo(r, "over") \/ Warn(r))
      BY <1>20 DEF UnregisterVm, At
    <2>2. CASE GoTo(r, "over")
      BY <1>2, <1>3, <2>1, <2>2 DEF Onward
    <2>3. CASE Warn(r)
      <3>1. RunTypeOK' /\ Others(r) /\ run'[r].pc = "over"
        BY <2>3, WarnMoves DEF E2EInv
      <3>2. QED
        BY <2>1, <3>1, FewLeft
    <2>4. QED
      BY <2>1, <2>2, <2>3
  <1>21. CASE Interrupt(r)
    <2>1. Leave(r, 1) /\ run[r].pc \notin {"cleanup", "unregister", "over"}
      BY <1>21 DEF Interrupt, Active
    <2>2. QED
      BY <1>2, <1>16, <2>1
  <1>22. CASE Kill(r)
    <2>1. LeaveTo(r, Killed, "over") /\ run[r].pc # "over"
      BY <1>22 DEF Kill, Active, Ending
    <2>2. QED
      BY <1>2, <2>1, LeaveEnds
  <1>23. CASE InterruptCleanup(r)
    <2>1. RunTypeOK' /\ Others(r) /\ run'[r].pc = "over" /\ run[r].pc # "over"
      BY <1>23, CutMoves DEF InterruptCleanup, Ending, E2EInv
    <2>2. QED
      BY <2>1, FewLeft
  <1>24. QED
    BY <1>4, <1>5, <1>6, <1>7, <1>8, <1>9, <1>10, <1>11, <1>12, <1>13, <1>14, <1>15, <1>17,
       <1>18, <1>19, <1>20, <1>21, <1>22, <1>23 DEF Step

(* Every step that a run takes counts down what it has left, which only    *)
(* its own steps do: whatever the guest, the network and other runs do, a  *)
(* run takes at most 4 * Timeout + 2 * DiscoveryLimit + 18 steps (script,  *)
(* 734-767 and 834-850).                                                   *)
RunsCountDown ==
  [][ \A r \in Runs : run'[r] # run[r] => StepsLeft(r)' < StepsLeft(r) ]_vars

THEOREM StepsAreBounded ==
  Spec => /\ [](\A r \in Runs : StepsLeft(r) \in 0 .. 4 * Timeout + 2 * DiscoveryLimit + 18)
          /\ RunsCountDown
  <1>1. E2EInv => \A r \in Runs : StepsLeft(r) \in 0 .. 4 * Timeout + 2 * DiscoveryLimit + 18
    BY StepsLeftBounded
  <1>2. E2EInv /\ [Next]_vars
          => [\A r \in Runs : run'[r] # run[r] => StepsLeft(r)' < StepsLeft(r)]_vars
    <2> SUFFICES ASSUME E2EInv, Next, NEW r \in Runs, run'[r] # run[r]
                 PROVE  StepsLeft(r)' < StepsLeft(r)
      OBVIOUS
    <2>1. CASE \E q \in Runs : Begin(q) \/ Step(q) \/ Interrupt(q) \/ InterruptCleanup(q) \/ Kill(q)
      <3>1. PICK q \in Runs : Begin(q) \/ Step(q) \/ Interrupt(q) \/ InterruptCleanup(q) \/ Kill(q)
        BY <2>1
      <3>2. StepsLeft(q)' < StepsLeft(q) /\ Others(q)
        BY <3>1, StepCounts
      <3>3. q = r
        BY <3>2 DEF Others
      <3>4. QED
        BY <3>2, <3>3
    <2>2. CASE GuestBoots \/ GuestTouches \/ GuestInstalls
      BY <2>2 DEF GuestBoots, GuestTouches, GuestInstalls
    <2>3. QED
      BY <2>1, <2>2 DEF Next
  <1>3. QED
    BY <1>1, <1>2, E2EInvariant, PTL DEF Spec, RunsCountDown

=============================================================================
