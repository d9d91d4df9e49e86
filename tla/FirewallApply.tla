--------------------------- MODULE FirewallApply ---------------------------
(***************************************************************************)
(* The firewall of the friends' networks: the webui saves firewall.json    *)
(* and touches a request file; the host's script rebuilds the WG_FRIENDS   *)
(* chain and exports it, and the webui takes any newer export for its      *)
(* answer.  Two units run the script: the request service and, once per    *)
(* boot, the restore service.  A configuration is known by the number of   *)
(* the call that saved it; its ACCEPT rules stand in the chain as one.     *)
(***************************************************************************)
EXTENDS Naturals, Sequences

CONSTANTS
  MaxCalls,     \* bound: PUT, apply and reset calls made in a behaviour
  MaxReboots,   \* bound: power failures in a behaviour
  WebuiDies     \* may the webui process be replaced?

ASSUME MaxCallsAssumption == MaxCalls \in Nat \ {0}
ASSUME MaxRebootsAssumption == MaxReboots \in Nat

Units   == {"request", "restore"}
Calls   == 1 .. MaxCalls
Saved   == 0 .. MaxCalls        \* 0: the configuration of the installation
Torn    == MaxCalls + 1         \* a firewall.json that is empty
Configs == Saved \cup {Torn}
Drop    == MaxCalls + 2         \* the rule that closes the chain
Few     == 0 .. 2               \* counts of rules: none, one, more

More(n) == IF n = 2 THEN 2 ELSE n + 1

VARIABLES
  config,    \* what /etc/ppsa/firewall.json holds
  calls,     \* how many calls have been made
  webui,     \* the one call in progress (time.sleep holds the event loop)
  moved,     \* the export's mtime is newer than the call's `before`
  reply,     \* reply[i]: what call i returned
  trigger,   \* the path unit has queued a start
  job,       \* job[u]: the run of unit u, the ports it read, what -S listed
  restored,  \* the restore unit has been started since the boot
  chain,     \* WG_FRIENDS; <<>> also when it does not exist
  jumps,     \* the jumps to it from INPUT
  userDrops, \* how often the block of DROPs stands in DOCKER-USER
  export,    \* wg_friends.rules
  reboots,
  read,      \* the configuration read last (for the properties)
  overlap    \* the last run was not alone  (for the properties)

webuiVars == <<config, calls, webui, reply>>
hostVars  == <<job, restored, chain, jumps, userDrops, export, read, overlap>>
vars == <<webuiVars, moved, trigger, hostVars, reboots>>

Built(c) == IF c = Torn THEN <<Drop>> ELSE <<c, Drop>>

Steps == {"idle", "parse", "flush", "accept", "close", "jump", "insert",
          "docker", "export", "list", "write"}

Rules == Seq(Saved \cup {Drop})

TypeOK ==
  /\ config \in Configs
  /\ calls \in 0 .. MaxCalls
  /\ webui \in [pc: {"idle", "saving", "saved", "asking", "polling"}, id: 0 .. MaxCalls]
  /\ reply \in [Calls -> {"none", "ok", "error"}]
  /\ {moved, trigger, restored, overlap} \subseteq BOOLEAN
  /\ job \in [Units -> [pc: Steps, ports: Configs, listed: Rules]]
  /\ chain \in Rules /\ export \in Rules
  /\ jumps \in Few /\ userDrops \in Few
  /\ reboots \in 0 .. MaxReboots
  /\ read \in Configs

IdleWebui == [pc |-> "idle", id |-> 0]
IdleJob   == [pc |-> "idle", ports |-> Torn, listed |-> <<>>]

(* An installed box: install.sh has run the script once, and the restore   *)
(* unit starts at the next boot.                                           *)
Init ==
  /\ config = 0 /\ calls = 0 /\ webui = IdleWebui /\ moved = FALSE
  /\ reply = [i \in Calls |-> "none"]
  /\ trigger = FALSE
  /\ job = [u \in Units |-> IdleJob] /\ restored = TRUE
  /\ chain = Built(0) /\ jumps = 1 /\ userDrops = 1 /\ export = Built(0)
  /\ reboots = 0 /\ read = 0 /\ overlap = FALSE

-----------------------------------------------------------------------------
(* The webui. *)
Notify ==   \* a change during a run may be missed: the path is not watched
  IF job["request"].pc = "idle" THEN trigger' = TRUE ELSE trigger' \in {trigger, TRUE}

At(pc) == webui.pc = pc
GoOn(pc) == webui' = [webui EXCEPT !.pc = pc]

NewCall(pc) ==
  /\ At("idle")
  /\ calls < MaxCalls
  /\ calls' = calls + 1
  /\ webui' = [pc |-> pc, id |-> calls + 1]

BeginSave ==              \* PUT config or reset: write_text has truncated
  /\ NewCall("saving")
  /\ config' = Torn
  /\ UNCHANGED <<reply, moved, trigger, hostVars, reboots>>

FinishSave ==
  /\ At("saving")
  /\ config' = webui.id
  /\ GoOn("saved")
  /\ UNCHANGED <<calls, reply, moved, trigger, hostVars, reboots>>

BeginApply ==             \* POST apply: nothing is saved
  /\ NewCall("saved")
  /\ UNCHANGED <<config, reply, moved, trigger, hostVars, reboots>>

Ask ==                    \* take `before`; truncate the request file
  /\ At("saved")
  /\ moved' = FALSE
  /\ GoOn("asking")
  /\ Notify
  /\ UNCHANGED <<config, calls, reply, hostVars, reboots>>

Asked ==
  /\ At("asking")
  /\ GoOn("polling")
  /\ Notify
  /\ UNCHANGED <<config, calls, reply, moved, hostVars, reboots>>

Return(r) ==
  /\ reply' = [reply EXCEPT ![webui.id] = r]
  /\ webui' = IdleWebui
  /\ UNCHANGED <<config, calls, moved, trigger, hostVars, reboots>>

(* OSError: a file is truncated and the write fails, or the request file   *)
(* cannot be opened.                                                       *)
WriteFails == webui.pc \in {"saving", "saved", "asking"} /\ Return("error")

SeeExport == At("polling") /\ moved /\ Return("ok")

(* Variant: an answer the callers of a PUT do not know. *)
GiveUpUnknown == At("polling") /\ Return("timeout")

GiveUp == At("polling") /\ Return("error")      \* 10 s have passed

-----------------------------------------------------------------------------
(* The host's script, run by unit u. *)
Idle(u) == job[u].pc = "idle"
Alone(u) == \A v \in Units \ {u} : Idle(v)

Start(u) ==
  /\ Idle(u)
  /\ job' = [job EXCEPT ![u].pc = "parse"]
  /\ overlap' = ~Alone(u)
  /\ UNCHANGED <<webuiVars, moved, chain, jumps, userDrops, export, reboots, read>>

StartRequest ==
  /\ trigger
  /\ trigger' = FALSE
  /\ Start("request")
  /\ UNCHANGED restored

StartRestore ==
  /\ ~restored
  /\ restored' = TRUE
  /\ Start("restore")
  /\ UNCHANGED trigger

Step(u, from, to) ==
  /\ job[u].pc = from
  /\ job' = [job EXCEPT ![u].pc = to]
  /\ UNCHANGED <<webuiVars, trigger, restored, reboots, overlap>>

Parse(u) ==     \* an empty file fails to parse: no port is allowed
  /\ job[u].pc = "parse"
  /\ job' = [job EXCEPT ![u].pc = "flush", ![u].ports = config]
  /\ read' = config
  /\ UNCHANGED <<webuiVars, trigger, restored, reboots, overlap>>
  /\ UNCHANGED <<moved, chain, jumps, userDrops, export>>

(* Variant: an existing chain is not flushed. *)
FlushNothing(u) ==
  /\ Step(u, "flush", "accept")
  /\ UNCHANGED <<moved, chain, jumps, userDrops, export, read>>

Flush(u) ==
  /\ Step(u, "flush", "accept")
  /\ chain' = <<>>
  /\ UNCHANGED <<moved, jumps, userDrops, export, read>>

(* Variant: the ports are read from the file again when they are added. *)
AcceptLatest(u) ==
  /\ Step(u, "accept", "close")
  /\ chain' = IF config = Torn THEN chain ELSE Append(chain, config)
  /\ UNCHANGED <<moved, jumps, userDrops, export, read>>

Accept(u) ==
  /\ Step(u, "accept", "close")
  /\ chain' = IF job[u].ports = Torn THEN chain ELSE Append(chain, job[u].ports)
  /\ UNCHANGED <<moved, jumps, userDrops, export, read>>

(* Variant: no DROP when no configuration could be parsed. *)
CloseIfParsed(u) ==
  /\ Step(u, "close", "jump")
  /\ chain' = IF job[u].ports = Torn THEN chain ELSE Append(chain, Drop)
  /\ UNCHANGED <<moved, jumps, userDrops, export, read>>

Close(u) ==
  /\ Step(u, "close", "jump")
  /\ chain' = Append(chain, Drop)
  /\ UNCHANGED <<moved, jumps, userDrops, export, read>>

(* Variant: the jump is taken for present. *)
CheckJumpNever(u) ==
  /\ Step(u, "jump", "docker")
  /\ UNCHANGED <<moved, chain, jumps, userDrops, export, read>>

CheckJump(u) ==
  /\ Step(u, "jump", IF jumps = 0 THEN "insert" ELSE "docker")
  /\ UNCHANGED <<moved, chain, jumps, userDrops, export, read>>

InsertJump(u) ==
  /\ Step(u, "insert", "docker")
  /\ jumps' = More(jumps)
  /\ UNCHANGED <<moved, chain, userDrops, export, read>>

BlockPublished(u) ==
  /\ Step(u, "docker", "export")
  /\ userDrops' = More(userDrops)
  /\ UNCHANGED <<moved, chain, jumps, export, read>>

OpenExport(u) ==        \* the shell truncates the file before iptables runs
  /\ Step(u, "export", "list")
  /\ export' = <<>>
  /\ moved' = TRUE
  /\ UNCHANGED <<chain, jumps, userDrops, read>>

ListChain(u) ==
  /\ job[u].pc = "list"
  /\ job' = [job EXCEPT ![u].pc = "write", ![u].listed = chain]
  /\ UNCHANGED <<webuiVars, trigger, restored, reboots, overlap>>
  /\ UNCHANGED <<moved, chain, jumps, userDrops, export, read>>

WriteExport(u) ==
  /\ job[u].pc = "write"
  /\ job' = [job EXCEPT ![u] = IdleJob]
  /\ export' = job[u].listed
  /\ moved' = TRUE
  /\ UNCHANGED <<webuiVars, trigger, restored, reboots, overlap>>
  /\ UNCHANGED <<chain, jumps, userDrops, read>>

Script(u) ==
  \/ Parse(u) \/ Flush(u) \/ Accept(u) \/ Close(u) \/ CheckJump(u) \/ InsertJump(u)
  \/ BlockPublished(u) \/ OpenExport(u) \/ ListChain(u) \/ WriteExport(u)

-----------------------------------------------------------------------------
(* Faults. *)
ReplaceWebui ==
  /\ WebuiDies
  /\ webui' = IdleWebui
  /\ UNCHANGED <<config, calls, reply, moved, trigger, hostVars, reboots>>

(* Variant: the restore unit is not enabled. *)
RebootUnrestored ==
  /\ reboots < MaxReboots
  /\ reboots' = reboots + 1
  /\ webui' = IdleWebui
  /\ trigger' = FALSE
  /\ job' = [u \in Units |-> IdleJob] /\ restored' = TRUE
  /\ chain' = <<>> /\ jumps' = 0 /\ userDrops' = 0
  /\ overlap' = FALSE
  /\ UNCHANGED <<config, calls, reply, moved, export, read>>

Reboot ==       \* the kernel's rules are gone, the files are not
  /\ reboots < MaxReboots
  /\ reboots' = reboots + 1
  /\ webui' = IdleWebui
  /\ trigger' = FALSE
  /\ job' = [u \in Units |-> IdleJob] /\ restored' = FALSE
  /\ chain' = <<>> /\ jumps' = 0 /\ userDrops' = 0
  /\ overlap' = FALSE
  /\ UNCHANGED <<config, calls, reply, moved, export, read>>

Webui ==
  \/ BeginSave \/ FinishSave \/ BeginApply \/ Ask \/ Asked
  \/ WriteFails \/ SeeExport \/ GiveUp

Next ==
  \/ Webui
  \/ StartRequest \/ StartRestore
  \/ \E u \in Units : Script(u)
  \/ ReplaceWebui \/ Reboot

Spec == Init /\ [][Next]_vars

(* systemd starts what it has queued and the script runs on.               *)
Fairness ==
  /\ WF_vars(StartRequest) /\ WF_vars(StartRestore)
  /\ \A u \in Units : WF_vars(Script(u))

FairSpec == Spec /\ Fairness

-----------------------------------------------------------------------------
Quiet == restored /\ \A u \in Units : Idle(u)

(* However the two units overlap: when no run is in progress the chain     *)
(* ends with the DROP and INPUT jumps to it.                               *)
QuietIsClosed ==
  Quiet => chain # <<>> /\ chain[Len(chain)] = Drop /\ jumps > 0

(* A run that had the host to itself leaves exactly the chain of the       *)
(* configuration it read, and an export that shows that chain.             *)
LoneRunIsExact ==
  Quiet /\ ~overlap => chain = Built(read) /\ export = chain

(* The inductive invariants behind the two.  Whoever has still to close    *)
(* the chain will; a run that is alone is as far as its step says.         *)
Pending(steps) == ~restored \/ \E u \in Units : job[u].pc \in steps

ClosedInv ==
  /\ Pending({"parse", "flush", "accept", "close"})
       \/ (chain # <<>> /\ chain[Len(chain)] = Drop)
  /\ Pending({"parse", "flush", "accept", "close", "jump", "insert"}) \/ jumps > 0

LoneStep(u) ==
  LET pc == job[u].pc
  IN  /\ pc \notin {"idle", "parse"} => job[u].ports = read
      /\ pc = "accept" => chain = <<>>
      /\ pc = "close" => chain = IF read = Torn THEN <<>> ELSE <<read>>
      /\ pc \in {"jump", "insert", "docker", "export", "list", "write"} =>
           chain = Built(read)
      /\ pc = "write" => job[u].listed = chain

LoneInv ==
  ~overlap =>
    /\ \A u, v \in Units : ~Idle(u) /\ ~Idle(v) => u = v
    /\ \A u \in Units : LoneStep(u)
    /\ Quiet => chain = Built(read) /\ export = chain

(* A saved configuration that a unit is still to be started for is read    *)
(* by a run, or replaced; a reboot in between does not lose it.            *)
SavedIsRead ==
  \A c \in Calls :
    (config = c /\ (trigger \/ ~restored)) ~> (read = c \/ config # c)

(* ppsa-firewall-apply.sh:5 and ppsa-firewall-restore.service: the script  *)
(* is idempotent and leaves Docker's rules alone.                          *)
Idempotent == userDrops < 2

(* main.py:1507-1508: the moving mtime of the export means that the host   *)
(* has done what this call asked for.                                      *)
OkMeansApplied ==
  [][\A i \in Calls :
       config = i /\ reply[i] # "ok" /\ reply'[i] = "ok" => chain = Built(i)]_vars

(* ppsa-firewall-apply.sh:156-159: the export is written on every run, so  *)
(* it stays in sync with the actual chain.                                 *)
ExportInSync == Quiet => export = chain

=============================================================================
