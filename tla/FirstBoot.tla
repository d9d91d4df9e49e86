----------------------------- MODULE FirstBoot -----------------------------
(***************************************************************************)
(* The first boots of a box: install.sh under `set -e` (nine steps, run    *)
(* again from the start at the next boot until one run has written its     *)
(* flag), the progress display that owns tty1 meanwhile, and the getty     *)
(* that is to own it afterwards.  Power may go at any step.                *)
(***************************************************************************)
EXTENDS Naturals

CONSTANTS
  ExposeSsh,    \* network-policy.json: expose_ssh_lan
  Shipped,      \* the units, of those install.sh enables, whose files the image has
  Faults        \* which of "power", "abort", "stack", "ufw", "disk", "ctrl_c" may happen

Units == {"netbird", "snapshot", "manual_apply", "compose", "restore"}

ASSUME FirstBootAssumption == ExposeSsh \in BOOLEAN /\ Shipped \subseteq Units

VARIABLES
  flag,      \* /opt/ppsa/.installed
  marker,    \* /opt/ppsa/.stack-down
  active,    \* ufw is enabled, in this and the next boots
  allowed,   \* its rules let SSH in from the LAN
  refused,   \* the last `ufw enable` failed (for the properties)
  units,     \* the enabled units of those install.sh enables
  stack,     \* some compose service runs
  pc,        \* where this boot's install.sh is
  pulls,     \* attempts of the current pull_with_retry
  attempt,   \* of bringing the stack up
  verified,  \* this run saw the stack up (for the properties)
  touched,   \* /run/ppsa-install.activity
  display,   \* ppsa-firstboot.sh
  getty      \* getty@tty1 runs

disk == <<flag, marker, active, allowed, refused, units>>
memory == <<pc, pulls, attempt, verified, touched>>
tty == <<display, getty>>
vars == <<disk, stack, memory, tty>>

Steps == {"early", "env", "pull", "inspect", "up", "wifi", "netbird", "wireguard",
          "snapshot", "manual_apply", "compose", "ufw", "ssh", "restore", "flag"}

(* sshd answers on the LAN. *)
lan == ~active \/ allowed

TypeOK ==
  /\ {flag, marker, active, allowed, refused, stack, verified, touched, getty} \subseteq BOOLEAN
  /\ units \subseteq Units
  /\ pc \in Steps \cup {"off", "skipped", "aborted", "done"}
  /\ pulls \in 0 .. 1 /\ attempt \in 1 .. 2
  /\ display \in {"off", "watching", "final", "over"}

Init ==
  /\ flag = FALSE /\ marker = FALSE /\ units = {}
  /\ active = FALSE /\ allowed = FALSE /\ refused = FALSE
  /\ stack = FALSE
  /\ pc = "off" /\ pulls = 0 /\ attempt = 1 /\ verified = FALSE /\ touched = FALSE
  /\ display = "off" /\ getty = FALSE

-----------------------------------------------------------------------------
(* A boot.  The conditions of the three units are evaluated once, now.     *)
(* Docker restarts the containers it still knows; an installed box tries   *)
(* to bring up the rest.                                                   *)
BootWith(first, console) ==
  /\ pc = "off" /\ pc' = first
  /\ pulls' = 0 /\ attempt' = 1 /\ verified' = FALSE
  /\ stack' \in IF flag /\ "compose" \in units THEN BOOLEAN ELSE {FALSE, stack}
  /\ display' = (IF flag THEN "off" ELSE "watching")
  /\ getty' = console
  /\ UNCHANGED <<disk, touched>>

InstallOnce == IF flag THEN "skipped" ELSE "early"

(* Variants: getty@tty1, or ppsa-install.service, without its condition. *)
BootGettyAnyway == BootWith(InstallOnce, TRUE)
BootAlwaysInstalls == BootWith("early", flag)

Boot == BootWith(InstallOnce, flag)

PowerLoss ==
  /\ "power" \in Faults
  /\ pc # "off"
  /\ pc' = "off" /\ touched' = FALSE
  /\ display' = "off" /\ getty' = FALSE
  /\ UNCHANGED <<disk, stack, pulls, attempt, verified>>

-----------------------------------------------------------------------------
(* install.sh.  A command without `|| true` that fails ends the run.       *)
Abort ==
  /\ "abort" \in Faults
  /\ pc \in {"env", "inspect", "wifi", "netbird", "wireguard", "snapshot",
             "manual_apply", "compose", "ufw", "ssh", "restore", "flag"}
  /\ pc' = "aborted"
  /\ UNCHANGED <<disk, stack, pulls, attempt, verified, touched, tty>>

Early ==
  /\ pc = "early" /\ pc' = "env"
  /\ UNCHANGED <<disk, stack, pulls, attempt, verified, touched, tty>>

(* .env, and into the first pull: the activity file is touched.            *)
Env ==
  /\ pc = "env" /\ pc' = "pull"
  /\ touched' = TRUE
  /\ UNCHANGED <<disk, stack, pulls, attempt, verified, tty>>

(* Variant: the attempts are not counted. *)
PullUncounted ==
  /\ pc = "pull"
  /\ touched' = TRUE
  /\ \/ "stack" \in Faults /\ pulls' = pulls + 1 /\ UNCHANGED pc
     \/ pulls' = 0 /\ pc' = IF attempt = 1 THEN "inspect" ELSE "up"
  /\ UNCHANGED <<disk, stack, attempt, verified, tty>>

(* pull_with_retry: two attempts, whose failure changes nothing.           *)
Pull ==
  /\ pc = "pull"
  /\ touched' = TRUE
  /\ \/ pulls = 0 /\ "stack" \in Faults /\ pulls' = 1 /\ UNCHANGED pc
     \/ pulls' = 0 /\ pc' = IF attempt = 1 THEN "inspect" ELSE "up"
  /\ UNCHANGED <<disk, stack, attempt, verified, tty>>

(* A corrupt image is removed and pulled again (a removal that fails is    *)
(* Abort's).                                                               *)
Inspect ==
  /\ pc = "inspect" /\ pc' = "up"
  /\ UNCHANGED <<disk, stack, pulls, attempt, verified, touched, tty>>

(* Variant: `up -d` that failed twice is only logged. *)
UpUnmarked ==
  /\ pc = "up"
  /\ touched' = TRUE
  /\ \/ stack' = TRUE /\ verified' = TRUE /\ pc' = "wifi" /\ UNCHANGED attempt
     \/ /\ "stack" \in Faults
        /\ IF attempt = 1 THEN attempt' = 2 /\ pc' = "pull"
                          ELSE pc' = "wifi" /\ UNCHANGED attempt
        /\ UNCHANGED <<stack, verified>>
  /\ UNCHANGED <<disk, pulls, tty>>

(* Variant: retry until it is up. *)
UpForever ==
  /\ pc = "up"
  /\ touched' = TRUE
  /\ \/ stack' = TRUE /\ verified' = TRUE /\ pc' = "wifi"
     \/ "stack" \in Faults /\ pc' = "pull" /\ UNCHANGED <<stack, verified>>
  /\ UNCHANGED <<disk, pulls, attempt, tty>>

(* The touch of the marker may fail, too.                                  *)
Up ==
  /\ pc = "up"
  /\ touched' = TRUE
  /\ \/ /\ stack' = TRUE /\ verified' = TRUE
        /\ pc' = "wifi" /\ UNCHANGED <<attempt, marker>>
     \/ /\ "stack" \in Faults
        /\ IF attempt = 1
           THEN attempt' = 2 /\ pc' = "pull" /\ UNCHANGED marker
           ELSE /\ (marker' = TRUE \/ ("disk" \in Faults /\ UNCHANGED marker))
                /\ pc' = "wifi" /\ UNCHANGED attempt
        /\ UNCHANGED <<stack, verified>>
  /\ UNCHANGED <<flag, active, allowed, refused, units, pulls, tty>>

After(s) ==
  CASE s = "wifi" -> "netbird"      [] s = "netbird" -> "wireguard"
    [] s = "wireguard" -> "snapshot" [] s = "snapshot" -> "manual_apply"
    [] s = "manual_apply" -> "compose" [] s = "compose" -> "ufw"
    [] OTHER -> "flag"

(* Steps that install scripts and enable a unit, or none; a unit whose     *)
(* files the image has not is skipped.                                     *)
InstallWith(enabled) ==
  /\ pc \in {"wifi", "netbird", "wireguard", "snapshot", "manual_apply", "compose", "restore"}
  /\ pc' = After(pc)
  /\ units' \in enabled
  /\ UNCHANGED <<flag, marker, active, allowed, refused, stack, pulls, attempt, verified,
                 touched, tty>>

(* Variant: `systemctl enable ... || true`. *)
InstallUnitTolerant == InstallWith({units, units \cup (Shipped \cap {pc})})

InstallUnit == InstallWith({units \cup (Shipped \cap {pc})})

(* `ufw --force enable || true`: the run goes on either way.               *)
EnableUfw ==
  /\ pc = "ufw" /\ pc' = "ssh"
  /\ \/ active' = TRUE /\ refused' = FALSE
     \/ "ufw" \in Faults /\ refused' = TRUE /\ UNCHANGED active
  /\ UNCHANGED <<flag, marker, allowed, units, stack, pulls, attempt, verified, touched, tty>>

AllowSsh ==
  /\ pc = "ssh" /\ pc' = "restore"
  /\ allowed' = (allowed \/ ExposeSsh)
  /\ UNCHANGED <<flag, marker, active, refused, units, stack, pulls, attempt, verified,
                 touched, tty>>

WriteFlag ==
  /\ pc = "flag" /\ pc' = "done"
  /\ flag' = TRUE
  /\ UNCHANGED <<marker, active, allowed, refused, units, stack, pulls, attempt, verified,
                 touched, tty>>

Install ==
  \/ Early \/ Env \/ Pull \/ Inspect \/ Up
  \/ InstallUnit \/ EnableUfw \/ AllowSsh \/ WriteFlag

-----------------------------------------------------------------------------
(* The display polls the flag, shows the result for 30 s or until a key,   *)
(* and ends; or the user ends it earlier.                                  *)
SeesFlag ==
  /\ display = "watching" /\ flag
  /\ display' = "final"
  /\ UNCHANGED <<disk, stack, memory, getty>>

DisplayEndsTo(console) ==
  /\ \/ display = "final"
     \/ display = "watching" /\ "ctrl_c" \in Faults
  /\ display' = "over"
  /\ getty' = console
  /\ UNCHANGED <<disk, stack, memory>>

(* Variant: no ExecStopPost; systemd does not try the condition again. *)
DisplayEndsAlone == DisplayEndsTo(getty)

(* ExecStopPost starts getty@tty1, whose condition is evaluated anew.      *)
DisplayEnds == DisplayEndsTo(flag)

Next ==
  \/ Boot \/ PowerLoss
  \/ Install \/ Abort
  \/ SeesFlag \/ DisplayEnds

Spec == Init /\ [][Next]_vars

(* systemd boots and starts its units, the commands of install.sh return   *)
(* (`docker pull` at 136 has no limit of its own, nor has the unit: that   *)
(* it ends is docker's) and the display's polls and its 30 s wait end.     *)
(* Nobody owes a key or a power cut.                                       *)
Fairness ==
  /\ WF_vars(Boot) /\ WF_vars(Install)
  /\ WF_vars(SeesFlag) /\ WF_vars(display = "final" /\ DisplayEnds)

FairSpec == Spec /\ Fairness

-----------------------------------------------------------------------------
(* However many runs were cut off and at which steps, a box that says it   *)
(* is installed has enabled every unit its image brings, has the rule for  *)
(* SSH exactly if the image wants it, and has ufw on, unless ufw refused   *)
(* to be enabled in the run that wrote the flag (install.sh:237-459).      *)
FlagMeansComplete ==
  flag => units = Shipped /\ allowed = ExposeSsh /\ (active \/ refused)

(* No silent failure (install.sh:165-206): a run that completed without    *)
(* having seen the stack up leaves the marker, whatever earlier runs did.  *)
DownIsMarked == pc \in {"flag", "done"} => verified \/ marker

(* tty1 has one owner, although the display is not stopped before getty is *)
(* started and getty is not stopped for the display.                       *)
OneOwner == ~(display \in {"watching", "final"} /\ getty)

(* ppsa-firstboot.service:41-53: once the box is installed, a display that *)
(* is on gives tty1 to a login.                                            *)
ConsoleHandedOver ==
  (flag /\ display \in {"watching", "final"}) ~> (getty \/ pc = "off")

(* Every run of install.sh ends, also when nothing can be pulled.          *)
RunEnds == pc \in Steps ~> pc \notin Steps

(* What ppsa-firstboot.sh:211-212 tells the user: Ctrl-C drops to a shell. *)
CtrlCGivesShell == display = "over" => getty

(* What install.sh:412-416 says: a stock build has SSH open on WireGuard   *)
(* only, not on the LAN.                                                   *)
StockIsClosed == flag /\ ~ExposeSsh => ~lan

(* What install.sh:184-186 wants of the marker: it tells that the stack is *)
(* down, so that the splash screen can warn.                               *)
MarkedIsDown == pc = "done" /\ marker => ~verified

-----------------------------------------------------------------------------
(* The install keeps the promise of module InstallPromise.                 *)
PhaseOf ==
  IF pc = "off" THEN "off"
  ELSE IF pc \in {"skipped", "done"} THEN "installed"
  ELSE IF pc = "aborted" THEN "aborted" ELSE "installing"

Promise == INSTANCE InstallPromise WITH phase <- PhaseOf, lan <- lan

KeepsPromise == Promise!Spec

=============================================================================
