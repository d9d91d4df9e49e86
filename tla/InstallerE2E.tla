---------------------------- MODULE InstallerE2E ----------------------------
(***************************************************************************)
(* ppsa-installer-e2e.py: runs that create a VirtualBox VM of one name,    *)
(* boot the installer in it, watch the guest's first boot over SSH, and    *)
(* destroy the VM.  The guest is a box as module InstallPromise has it.    *)
(* Time is counted in iterations of a polling loop (15 s and its calls).   *)
(* Taken for granted: --ssh-target names the guest of this VM, and the     *)
(* guest's clock, which the heartbeat holds, goes with the host's (731).   *)
(***************************************************************************)
EXTENDS Naturals

CONSTANTS
  Runs,            \* the runs of the script
  Concurrent,      \* they may overlap
  ExposeSsh,       \* the image keeps SSH open on the LAN
  Timeout,         \* --timeout-seconds
  DiscoveryLimit,  \* GUEST_IP_DISCOVERY_TIMEOUT_SECONDS
  StaleAfter,      \* HEARTBEAT_STALE_THRESHOLD_SECONDS
  Faults           \* which of "vbox", "ssh", "interrupt", "kill" may happen

ASSUME E2EAssumption ==
  /\ {Concurrent, ExposeSsh} \subseteq BOOLEAN
  /\ {Timeout, DiscoveryLimit, StaleAfter} \subseteq Nat

VARIABLES
  run,       \* run[r]: where run r is, its options, what it knows
  vm,        \* the VM registered under the name, or none
  phase, flag, lan, touched,      \* the guest in it
  beatAge,   \* iterations since the guest touched its activity file
  settled    \* the guest had its flag at the last tick (for the properties)

guest == <<phase, flag, lan, touched>>
clock == <<beatAge, settled>>
vars == <<run, vm, guest, clock>>

Guest == INSTANCE InstallPromise

Never == StaleAfter + 2              \* no heartbeat seen
Ages == 0 .. StaleAfter + 1          \* the last one: older than that
NoVm == [state |-> "none", written |-> FALSE]

Active == {"create", "configure", "attach", "boot", "tui", "discover", "nap",
           "poll", "heartbeat", "deadline", "sleep", "chain", "smoke", "summary"}
Ending == {"cleanup", "unregister"}

TypeOK ==
  /\ run \in [Runs -> [pc: Active \cup Ending \cup {"new", "identity", "over"},
                       keep: BOOLEAN, given: BOOLEAN, elapsed: 0 .. Timeout + DiscoveryLimit,
                       contact: BOOLEAN, seen: Ages \cup {Never}, lost: BOOLEAN,
                       reason: {"none", "never", "hang", "slow"},
                       failed: BOOLEAN, warned: BOOLEAN, cut: BOOLEAN, exit: 0 .. 4]]
  /\ vm \in [state: {"none", "poweroff", "running"}, written: BOOLEAN]
  /\ phase \in Guest!Phases /\ {flag, lan, touched, settled} \subseteq BOOLEAN
  /\ beatAge \in Ages

Open   == 3         \* exit: not over yet
Killed == 4         \* exit: by a signal

NewRun(keep, given) ==
  [pc |-> "new", keep |-> keep, given |-> given, elapsed |-> 0, contact |-> FALSE,
   seen |-> Never, lost |-> FALSE, reason |-> "none", failed |-> FALSE,
   warned |-> FALSE, cut |-> FALSE, exit |-> Open]

Init ==
  /\ \E keep \in [Runs -> BOOLEAN], given \in BOOLEAN :
       run = [r \in Runs |-> NewRun(keep[r], given)]
  /\ vm = NoVm /\ Guest!Init
  /\ beatAge = 0 /\ settled = FALSE

-----------------------------------------------------------------------------
At(r, pc) == run[r].pc = pc
GoTo(r, pc) == run' = [run EXCEPT ![r].pc = pc]

(* A step's exception, or a result FAIL: the summary follows.              *)
Fail(r) == run' = [run EXCEPT ![r].pc = "summary", ![r].failed = TRUE]

(* sys.exit, or an exception out of main: the atexit handler runs.         *)
LeaveTo(r, code, pc) ==
  run' = [run EXCEPT ![r] = [NewRun(@.keep, @.given) EXCEPT !.exit = code, !.pc = pc]]

(* Variant: destroy_vm after run(), not by atexit. *)
LeaveUncleaned(r, code) ==
  LeaveTo(r, code, IF run[r].keep \/ code = 2 THEN "over" ELSE "cleanup")

Leave(r, code) == LeaveTo(r, code, IF run[r].keep THEN "over" ELSE "cleanup")

(* A VBoxManage call on the VM: it needs one of the name and may fail.     *)
Call(r, next) ==
  \/ vm.state # "none" /\ GoTo(r, next)
  \/ (vm.state = "none" \/ "vbox" \in Faults) /\ Fail(r)

(* main until the tester is made: nothing is registered with atexit yet.   *)
Begin(r) ==
  /\ At(r, "new")
  /\ Concurrent \/ \A q \in Runs : run[q].pc \in {"new", "over"}
  /\ \/ GoTo(r, "identity")
     \/ run' = [run EXCEPT ![r].pc = "over", ![r].exit = 2]         \* no ISO
  /\ UNCHANGED <<vm, guest, clock>>

(* check_wg_hub_identity_safe: only a handshake it has seen is unsafe.     *)
IdentitySafe(password, hub) == password => hub # "live"

CheckIdentity(r) ==
  /\ At(r, "identity")
  /\ \E password \in BOOLEAN, hub \in {"live", "stale", "absent", "unreachable"} :
       IF IdentitySafe(password, hub) THEN GoTo(r, "create")
       ELSE run' = [run EXCEPT ![r].pc = "over", ![r].exit = 1]
  /\ UNCHANGED <<vm, guest, clock>>

-----------------------------------------------------------------------------
(* The VM.  createvm refuses a name that is registered; when its time is   *)
(* over, it may have registered it.                                        *)
CreateVm(r) ==
  /\ At(r, "create")
  /\ \/ /\ vm.state = "none" /\ vm' = [NoVm EXCEPT !.state = "poweroff"]
        /\ GoTo(r, "configure") \/ ("vbox" \in Faults /\ Fail(r))
     \/ (vm.state # "none" \/ "vbox" \in Faults) /\ Fail(r) /\ UNCHANGED vm
  /\ UNCHANGED <<guest, clock>>

ConfigureVm(r) ==
  /\ At(r, "configure") /\ Call(r, "attach")
  /\ UNCHANGED <<vm, guest, clock>>

AttachIso(r) ==
  /\ At(r, "attach") /\ Call(r, "boot")
  /\ UNCHANGED <<vm, guest, clock>>

(* startvm may have started the VM when its 60 s are over.                 *)
BootVm(r) ==
  /\ At(r, "boot")
  /\ \/ vm.state = "poweroff" /\ vm' = [vm EXCEPT !.state = "running"] /\ Call(r, "tui")
     \/ (vm.state # "poweroff" \/ "vbox" \in Faults) /\ Fail(r) /\ UNCHANGED vm
  /\ UNCHANGED <<guest, clock>>

(* Blind keystrokes: the installer may or may not have understood them.    *)
DriveTui(r) ==
  /\ At(r, "tui")
  /\ \/ vm.state = "running" /\ vm' \in {vm, [vm EXCEPT !.written = TRUE]}
        /\ GoTo(r, IF run[r].given THEN "poll" ELSE "discover")
     \/ (vm.state # "running" \/ "vbox" \in Faults) /\ Fail(r) /\ UNCHANGED vm
  /\ UNCHANGED <<guest, clock>>

(* discover_guest_ip, which has a limit of its own.                        *)
DiscoverGuestIp(r) ==
  /\ At(r, "discover")
  /\ \/ phase # "off" /\ run' = [run EXCEPT ![r].pc = "poll", ![r].elapsed = 0]
     \/ run[r].elapsed >= DiscoveryLimit /\ Fail(r)
     \/ run[r].elapsed < DiscoveryLimit /\ GoTo(r, "nap")
  /\ UNCHANGED <<vm, guest, clock>>

(* The end of a polling loop's sleep: everything has grown older.          *)
Older(age) == IF age < StaleAfter + 1 THEN age + 1 ELSE age

Sleep(r) ==
  /\ run[r].pc \in {"nap", "sleep"}
  /\ run' = [run EXCEPT ![r].pc = IF @ = "nap" THEN "discover" ELSE "poll",
                        ![r].elapsed = @ + 1, ![r].seen = Older(@)]
  /\ beatAge' = Older(beatAge) /\ settled' = flag
  /\ UNCHANGED <<vm, guest>>

-----------------------------------------------------------------------------
(* SshRunner.exec: what a command at the guest can come to.  ssh itself    *)
(* answers 255 ("refused") when it cannot connect within its 10 s; only a  *)
(* timeout of the subprocess gives -1.                                     *)
Listens(r) == phase # "off" /\ (run[r].given \/ lan)

Answers(r) ==
  (IF Listens(r) THEN {"ran"} ELSE {"refused", "timeout"})
    \cup (IF "ssh" \in Faults THEN {"refused", "timeout"} ELSE {})

(* wait_for_install_complete, the marker: shown, the answers that show it.  *)
(* `lost`: a call of this round had no answer of the guest.                *)
Poll(r, shown) ==
  /\ At(r, "poll")
  /\ \E a \in Answers(r) :
       IF a \in shown THEN GoTo(r, "chain")
       ELSE run' = [run EXCEPT ![r].pc = "heartbeat", ![r].contact = @ \/ a # "timeout",
                               ![r].lost = (a # "ran")]
  /\ UNCHANGED <<vm, guest, clock>>

(* Variants: any answer of ssh is taken for the marker; the deadline is    *)
(* checked before the marker. *)
PollAnyAnswer(r) == Poll(r, {"ran", "refused"})
PollLate(r) == Poll(r, {a \in {"ran"} : flag /\ run[r].elapsed < Timeout})

PollMarker(r) == Poll(r, {a \in {"ran"} : flag})

(* The heartbeat.  What cannot be read leaves the last one in place.       *)
ReadBeat(r, wanted) ==
  /\ At(r, "heartbeat")
  /\ \E a \in Answers(r) :
       run' = [run EXCEPT ![r].pc = "deadline", ![r].lost = @ \/ a # "ran",
                          ![r].seen = IF a = "ran" /\ touched /\ wanted THEN beatAge ELSE @]
  /\ UNCHANGED <<vm, guest, clock>>

(* Variant: only the first heartbeat is kept. *)
PollHeartbeatOnce(r) == ReadBeat(r, run[r].seen = Never)

PollHeartbeat(r) == ReadBeat(r, TRUE)

Reason(r) ==
  IF ~run[r].contact THEN "never"
  ELSE IF run[r].seen = StaleAfter + 1 THEN "hang" ELSE "slow"

CheckDeadline(r) ==
  /\ At(r, "deadline")
  /\ IF run[r].elapsed >= Timeout
     THEN run' = [run EXCEPT ![r].pc = "summary", ![r].failed = TRUE, ![r].reason = Reason(r)]
     ELSE GoTo(r, "sleep")
  /\ UNCHANGED <<vm, guest, clock>>

(* verify_boot_chain never fails a run; --skip-smoke-test ends it here.    *)
VerifyBootChain(r) ==
  /\ At(r, "chain")
  /\ \E next \in {"smoke", "summary"} : GoTo(r, next)
  /\ UNCHANGED <<vm, guest, clock>>

(* Variant: a smoke test that hangs, without a timeout. *)
RunSmokeTestHung(r) == At(r, "smoke") /\ UNCHANGED vars

(* The smoke test, in 600 s; then the log file is opened unguarded.        *)
RunSmokeTest(r) ==
  /\ At(r, "smoke")
  /\ GoTo(r, "summary") \/ Fail(r) \/ Leave(r, 1) \/ Leave(r, 2)
  /\ UNCHANGED <<vm, guest, clock>>

Summary(r) ==
  /\ At(r, "summary")
  /\ Leave(r, IF run[r].failed THEN 1 ELSE 0)
  /\ UNCHANGED <<vm, guest, clock>>

-----------------------------------------------------------------------------
(* destroy_vm: the VM of the name, whoever created it.  Failures are       *)
(* warnings, also that of an unregistervm that has done its work.          *)
Warn(r) == run' = [run EXCEPT ![r].pc = "over", ![r].warned = TRUE]

PowerOffVm(r) ==
  /\ At(r, "cleanup")
  /\ GoTo(r, "unregister")
  /\ \/ vm.state = "running" /\ vm' = [vm EXCEPT !.state = "poweroff"]
        /\ phase' = "off" /\ touched' = FALSE
     \/ (vm.state # "running" \/ "vbox" \in Faults) /\ UNCHANGED <<vm, phase, touched>>
  /\ UNCHANGED <<flag, lan, clock>>

UnregisterVm(r) ==
  /\ At(r, "unregister")
  /\ \/ /\ vm.state = "poweroff"
        /\ GoTo(r, "over") \/ ("vbox" \in Faults /\ Warn(r))
        /\ vm' = NoVm /\ flag' = FALSE /\ lan' = TRUE
        /\ beatAge' = 0 /\ settled' = FALSE
     \/ /\ vm.state # "poweroff" \/ "vbox" \in Faults
        /\ Warn(r) /\ UNCHANGED <<vm, flag, lan, clock>>
  /\ UNCHANGED <<phase, touched>>

(* Ctrl-C leaves through atexit, a kill does not.  In destroy_vm a Ctrl-C  *)
(* is none of the exceptions it catches: the cleanup ends there.           *)
Interrupt(r) ==
  /\ "interrupt" \in Faults /\ run[r].pc \in Active
  /\ Leave(r, 1)
  /\ UNCHANGED <<vm, guest, clock>>

InterruptCleanup(r) ==
  /\ "interrupt" \in Faults /\ run[r].pc \in Ending
  /\ run' = [run EXCEPT ![r].pc = "over", ![r].cut = TRUE]
  /\ UNCHANGED <<vm, guest, clock>>

Kill(r) ==
  /\ "kill" \in Faults /\ run[r].pc \in Active \cup Ending
  /\ LeaveTo(r, Killed, "over")
  /\ UNCHANGED <<vm, guest, clock>>

Step(r) ==
  \/ CheckIdentity(r) \/ CreateVm(r) \/ ConfigureVm(r) \/ AttachIso(r) \/ BootVm(r)
  \/ DriveTui(r) \/ DiscoverGuestIp(r) \/ Sleep(r) \/ PollMarker(r) \/ PollHeartbeat(r)
  \/ CheckDeadline(r) \/ VerifyBootChain(r) \/ RunSmokeTest(r) \/ Summary(r)
  \/ PowerOffVm(r) \/ UnregisterVm(r)

(* The guest boots what the installer wrote, and installs at its own pace. *)
GuestBoots ==
  /\ vm.state = "running" /\ vm.written /\ Guest!PowerOn
  /\ UNCHANGED <<run, vm, clock>>

GuestTouches ==
  /\ Guest!Touch /\ beatAge' = 0
  /\ UNCHANGED <<run, vm, settled>>

GuestInstalls ==
  /\ Guest!SetLan \/ Guest!Abort \/ Guest!Finish
  /\ UNCHANGED <<run, vm, clock>>

Next ==
  \/ \E r \in Runs : Begin(r) \/ Step(r) \/ Interrupt(r) \/ InterruptCleanup(r) \/ Kill(r)
  \/ GuestBoots \/ GuestTouches \/ GuestInstalls

Spec == Init /\ [][Next]_vars

(* Every call the script makes has a timeout of its own; the guest and the *)
(* person at the keyboard owe nothing.                                     *)
Fairness == \A r \in Runs : WF_vars(Step(r))

FairSpec == Spec /\ Fairness

-----------------------------------------------------------------------------
(* A run goes on to the boot chain and the smoke test only with a guest    *)
(* that is installed, whatever ssh answered before (script, 684-713).      *)
CompleteIsInstalled ==
  \A r \in Runs : run[r].pc \in {"chain", "smoke"} => flag /\ vm.state = "running"

(* A run whose last marker check was answered does not time out on a guest *)
(* that was installed by then, whatever calls it had lost before: the      *)
(* marker is looked at before the deadline (script, 684-713 and 734-767).  *)
NoFalseTimeout ==
  \A r \in Runs : run[r].reason # "none" /\ At(r, "summary") /\ ~run[r].lost => ~settled

(* A "suspected hang", when the calls of the last round were answered, is  *)
(* not said of a guest that was active within the threshold, but for the   *)
(* moment since that look, however old the heartbeats were that lost calls *)
(* had left in place (716-753).                                            *)
HangIsStale ==
  \A r \in Runs : run[r].reason = "hang" /\ At(r, "summary") /\ ~run[r].lost =>
    beatAge = 0 \/ beatAge > StaleAfter

(* Every run ends, whatever the guest and the network do.                  *)
RunEnds == \A r \in Runs : ~At(r, "new") ~> At(r, "over")

(* However a run ends, its VM is gone unless it was told to keep it, was   *)
(* killed, has warned, or was interrupted again while it cleaned up        *)
(* (script, 622-654 and 1164-1165).                                        *)
NothingLeft ==
  \A r \in Runs : (run[r].pc \in Active /\ ~run[r].keep /\ vm.state # "none") ~>
    (vm.state = "none" \/ run[r].warned \/ run[r].cut \/ run[r].exit = Killed)

(* What the help says of --keep-vm (script, 1066-1070): the VM is left for *)
(* inspection.                                                             *)
KeptIsLeft ==
  [][ \A r \in Runs : At(r, "over") /\ run[r].keep /\ run[r].exit = 0 /\ vm # NoVm
        => vm' # NoVm ]_vars

(* What the docstring says (script, 665-675): the second and third reasons *)
(* are for a guest that SSH has reached.                                   *)
ReachedMeansRan == \A r \in Runs : run[r].reason \in {"hang", "slow"} => phase # "off"

(* And (665): "never reachable" means at all, during the whole run.        *)
NeverMeansNever == \A r \in Runs : run[r].reason = "never" => run[r].seen = Never

(* What the docstring of destroy_vm says (626-629): it never raises, and   *)
(* what it could not clean up is warned of.                                *)
CleanupWarns ==
  [][ \A r \in Runs : run[r].pc \in Ending /\ run'[r].pc = "over"
        => vm'.state = "none" \/ run'[r].warned \/ run'[r].exit = Killed ]_vars

(* And (659-664) a suspected hang is of an install that is not over.       *)
HangIsAHang == \A r \in Runs : At(r, "summary") /\ run[r].reason = "hang" => ~settled

=============================================================================
