------------------------------ MODULE WgRegister ------------------------------
(***************************************************************************)
(* Registration of the box as a WireGuard peer: ppsa-wireguard-register.sh *)
(* logs in at the hub, finds or creates the peer of its name, downloads    *)
(* wg0.conf and raises wg0, or falls back to a configuration of the image. *)
(* install.sh runs it during the first boot, the unit at every boot, both  *)
(* on the same cookie file, wg0.conf, interface and hub.                   *)
(***************************************************************************)
EXTENDS Naturals, Sequences

CONSTANTS
  Runners,      \* who runs the script: of "installer", "unit"
  HasFallback,  \* /etc/ppsa/wireguard-fallback.conf exists
  Wish,         \* preferred_ip is set
  MaxWait,      \* PPSA_WG_WAIT_TIMEOUT, 120 s
  StartLimit,   \* TimeoutStartSec of the unit, 120 s
  MaxPeers,     \* bound: peers the hub ever holds
  Faults        \* which of "kill", "reboot", "wg" (wg-quick or wg fails) may happen

ASSUME RunnersAssumption == Runners \subseteq {"installer", "unit"}
ASSUME WaitAssumption == MaxWait \in Nat /\ StartLimit \in Nat
ASSUME MaxPeersAssumption == MaxPeers \in Nat

Ids      == 1 .. MaxPeers       \* the hub numbers its peers
None     == 0                   \* no configuration
Fallback == MaxPeers + 1        \* the one of the image
Torn     == MaxPeers + 2        \* a download that was cut short
Origins  == 0 .. Torn
Wanted   == "wanted"            \* the preferred address, or any other one
Other    == "other"

VARIABLES
  config,   \* /etc/ppsa/wireguard.json
  hub,      \* the addresses of the hub's peers of our name, by id
  hubUp,    \* the hub can be reached
  cookie,   \* the cookie file holds a session
  conf,     \* wg0.conf: whose it is, and is its Endpoint a raw IP?
  wg0,      \* the interface: whose key and whose address
  enabled,  \* wg-quick@wg0 is enabled
  run       \* each runner: where, seconds waited, delay, the peer it picked, and
            \* whether wg-quick refused it the failsafe (for the properties)

vars == <<config, hub, hubUp, cookie, conf, wg0, enabled, run>>
onHost == <<config, conf, wg0, enabled>>

Steps == {"new", "config", "wait", "login", "list", "create", "recreate", "find",
          "download", "writing", "endpoint", "raise", "persist", "verify",
          "copy", "clamp", "failsafe", "restart", "done"}

TypeOK ==
  /\ config \in {"missing", "disabled", "enabled"}
  /\ hub \in Seq({Wanted, Other}) /\ Len(hub) <= MaxPeers
  /\ {hubUp, cookie, enabled} \subseteq BOOLEAN
  /\ conf \in [of: Origins, raw: BOOLEAN]
  /\ wg0 \in [up: BOOLEAN, key: Origins, addr: Origins]
  /\ run \in [Runners -> [pc: Steps, waited: 0 .. MaxWait + 10, delay: 0 .. 10,
                          pick: 0 .. MaxPeers, refused: BOOLEAN]]

Down   == [up |-> FALSE, key |-> None, addr |-> None]
NewRun == [pc |-> "new", waited |-> 0, delay |-> 2, pick |-> 0, refused |-> FALSE]

(* The hub knows the box or not; an old bug may have left duplicates.      *)
Init ==
  /\ config = "enabled"
  /\ hub \in {s \in {<<>>, <<Other>>, <<Other, Wanted>>} : Len(s) <= MaxPeers}
  /\ hubUp \in BOOLEAN
  /\ cookie = FALSE
  /\ conf = [of |-> None, raw |-> FALSE]
  /\ wg0 = Down /\ enabled = FALSE
  /\ run = [r \in Runners |-> NewRun]

-----------------------------------------------------------------------------
At(r, pc) == run[r].pc = pc
GoTo(r, pc) == run' = [run EXCEPT ![r].pc = pc]

(* The end of a run: systemd starts a unit that failed again.              *)
Exit(r, ok) == GoTo(r, IF ok \/ r # "unit" THEN "done" ELSE "restart")

(* fail: the fallback, or the error itself.                                *)
Fail(r) == IF HasFallback THEN GoTo(r, "copy") ELSE Exit(r, FALSE)

Start(r) ==
  /\ run[r].pc \in {"new", "restart"}
  /\ run' = [run EXCEPT ![r] = [NewRun EXCEPT !.pc = "config"]]
  /\ UNCHANGED <<onHost, hub, hubUp, cookie>>

(* A disabled tunnel is torn down.                                         *)
ReadConfig(r) ==
  /\ At(r, "config")
  /\ \/ config = "missing" /\ Fail(r) /\ UNCHANGED wg0
     \/ config = "disabled" /\ Exit(r, TRUE) /\ wg0' = Down
     \/ config = "enabled" /\ GoTo(r, "wait") /\ UNCHANGED wg0
  /\ UNCHANGED <<config, conf, enabled, hub, hubUp, cookie>>

-----------------------------------------------------------------------------
(* wait_for_api.  The unit is killed at its start limit, at the latest     *)
(* while it sleeps beyond it.                                              *)
HubAnswers(r) ==
  /\ At(r, "wait")
  /\ hubUp
  /\ run[r].waited < MaxWait
  /\ GoTo(r, "login")
  /\ UNCHANGED <<onHost, hub, hubUp, cookie>>

InTime(r, t) == r = "unit" => t < StartLimit

(* Variant: the delay is never capped. *)
SleepUncapped(r) ==
  /\ At(r, "wait")
  /\ run[r].waited < MaxWait
  /\ LET t == run[r].waited + run[r].delay
     IN  /\ InTime(r, t)
         /\ run' = [run EXCEPT ![r].waited = t, ![r].delay = 2 * @]
  /\ UNCHANGED <<onHost, hub, hubUp, cookie>>

Sleep(r) ==
  /\ At(r, "wait")
  /\ run[r].waited < MaxWait
  /\ LET t == run[r].waited + run[r].delay
     IN  /\ InTime(r, t)
         /\ run' = [run EXCEPT ![r].waited = t,
                               ![r].delay = IF @ > 5 THEN 10 ELSE 2 * @]
  /\ UNCHANGED <<onHost, hub, hubUp, cookie>>

StopWaiting(r) ==
  /\ At(r, "wait")
  /\ run[r].waited >= MaxWait
  /\ Fail(r)
  /\ UNCHANGED <<onHost, hub, hubUp, cookie>>

StartTimesOut(r) ==
  /\ At(r, "wait")
  /\ run[r].waited < MaxWait
  /\ ~InTime(r, run[r].waited + run[r].delay)
  /\ Exit(r, FALSE)
  /\ UNCHANGED <<onHost, hub, hubUp, cookie>>

-----------------------------------------------------------------------------
(* The calls to the hub.  Each may fail on its way there or back; without  *)
(* the cookie, which another run may have removed, the hub refuses it.     *)
Login(r) ==
  /\ At(r, "login")
  /\ \/ hubUp /\ cookie' = TRUE /\ GoTo(r, "list")
     \/ cookie' = FALSE /\ Fail(r)
  /\ UNCHANGED <<onHost, hub, hubUp>>

Refused(r, pc) ==
  /\ At(r, pc)
  /\ Fail(r)
  /\ UNCHANGED <<onHost, hub, hubUp, cookie>>

CanAsk == hubUp /\ cookie

(* The peer with the preferred address (the hub gives an address only      *)
(* once), else the one with the lowest id.                                 *)
Preferred == {i \in DOMAIN hub : Wish /\ hub[i] = Wanted}
Pick == IF Preferred = {} THEN 1 ELSE CHOOSE i \in Preferred : TRUE

(* Variant: a list that cannot be read is taken for an empty one. *)
ListAnyhow(r) ==
  /\ At(r, "list")
  /\ run' = [run EXCEPT ![r].pc = IF hub = <<>> \/ ~CanAsk THEN "create" ELSE "download",
                        ![r].pick = IF hub = <<>> \/ ~CanAsk THEN 0 ELSE Pick]
  /\ UNCHANGED <<onHost, hub, hubUp, cookie>>

(* Variant: of duplicates the lowest id is taken, whatever its address. *)
ListLowest(r) ==
  /\ At(r, "list")
  /\ CanAsk
  /\ run' = [run EXCEPT ![r].pc = IF hub = <<>> THEN "create" ELSE "download",
                        ![r].pick = IF hub = <<>> THEN 0 ELSE 1]
  /\ UNCHANGED <<onHost, hub, hubUp, cookie>>

List(r) ==
  /\ At(r, "list")
  /\ CanAsk
  /\ run' = [run EXCEPT ![r].pc = IF hub = <<>> THEN "create" ELSE "download",
                        ![r].pick = IF hub = <<>> THEN 0 ELSE Pick]
  /\ UNCHANGED <<onHost, hub, hubUp, cookie>>

(* The hub may honour, ignore or (422) refuse the preferred address; the   *)
(* answer to a creation may be lost.                                       *)
Created(r, address) ==
  /\ Len(hub) < MaxPeers
  /\ hub' = Append(hub, address)
  /\ GoTo(r, "find") \/ Fail(r)

Create(r) ==
  /\ At(r, "create")
  /\ CanAsk
  /\ \/ Created(r, Other)
     \/ Wish /\ Preferred = {} /\ Created(r, Wanted)
     \/ Wish /\ GoTo(r, "recreate") /\ UNCHANGED hub
  /\ UNCHANGED <<onHost, hubUp, cookie>>

Recreate(r) ==
  /\ At(r, "recreate")
  /\ CanAsk
  /\ Created(r, Other)
  /\ UNCHANGED <<onHost, hubUp, cookie>>

Find(r) ==
  /\ At(r, "find")
  /\ CanAsk
  /\ run' = [run EXCEPT ![r].pc = "download", ![r].pick = Len(hub)]
  /\ UNCHANGED <<onHost, hub, hubUp, cookie>>

(* curl writes straight into wg0.conf once the answer has begun.           *)
Download(r) ==
  /\ At(r, "download")
  /\ CanAsk
  /\ conf' = [of |-> Torn, raw |-> FALSE]
  /\ GoTo(r, "writing")
  /\ UNCHANGED <<config, wg0, enabled, hub, hubUp, cookie>>

EndDownload(r) ==
  /\ At(r, "writing")
  /\ \/ conf' = [of |-> run[r].pick, raw |-> FALSE] /\ GoTo(r, "endpoint")
     \/ UNCHANGED conf /\ Fail(r)
  /\ UNCHANGED <<config, wg0, enabled, hub, hubUp, cookie>>

-----------------------------------------------------------------------------
(* Variant: the hub's host name stays in wg0.conf. *)
SetEndpointNone(r) ==
  /\ run[r].pc \in {"endpoint", "clamp"}
  /\ GoTo(r, IF At(r, "endpoint") THEN "raise" ELSE "failsafe")
  /\ UNCHANGED <<onHost, hub, hubUp, cookie>>

SetEndpoint(r) ==
  /\ run[r].pc \in {"endpoint", "clamp"}
  /\ conf' = IF conf.of = Torn THEN conf ELSE [conf EXCEPT !.raw = TRUE]
  /\ GoTo(r, IF At(r, "endpoint") THEN "raise" ELSE "failsafe")
  /\ UNCHANGED <<config, wg0, enabled, hub, hubUp, cookie>>

(* wg-quick up takes key and address from wg0.conf; wg syncconf, on an     *)
(* interface that exists, only the key.  Either may fail, certainly on a   *)
(* configuration that is torn or names its hub: what existed is then down, *)
(* unless wg-quick down has failed, too.                                   *)
Sound == conf.of # Torn /\ conf.raw
MayFail == ~Sound \/ "wg" \in Faults
Fresh == [up |-> TRUE, key |-> conf.of, addr |-> conf.of]

Raised ==
  \/ wg0.up /\ wg0' = [wg0 EXCEPT !.key = conf.of]
  \/ (~wg0.up \/ MayFail) /\ wg0' = Fresh

NotRaised == MayFail /\ wg0' \in {Down, wg0}

Raise(r) ==
  /\ At(r, "raise")
  /\ \/ Raised /\ GoTo(r, "persist")
     \/ NotRaised /\ Fail(r)
  /\ UNCHANGED <<config, conf, enabled, hub, hubUp, cookie>>

(* systemctl enable; the saved address is read by nothing modelled here.   *)
Persist(r) ==
  /\ At(r, "persist")
  /\ enabled' = TRUE
  /\ GoTo(r, "verify")
  /\ UNCHANGED <<config, conf, wg0, hub, hubUp, cookie>>

(* Handshake or not, on this endpoint or the LAN's: the run succeeds.      *)
Verify(r) ==
  /\ At(r, "verify")
  /\ cookie' = FALSE
  /\ Exit(r, TRUE)
  /\ UNCHANGED <<onHost, hub, hubUp>>

(* try_fallback *)
CopyFallback(r) ==
  /\ At(r, "copy")
  /\ conf' = [of |-> Fallback, raw |-> FALSE]
  /\ GoTo(r, "clamp")
  /\ UNCHANGED <<config, wg0, enabled, hub, hubUp, cookie>>

(* Variant: the failsafe is installed for the next boot, but not raised. *)
RaiseFailsafeLater(r) ==
  /\ At(r, "failsafe")
  /\ enabled' = TRUE
  /\ Exit(r, TRUE)
  /\ UNCHANGED <<config, conf, wg0, hub, hubUp, cookie>>

RaiseFailsafe(r) ==
  /\ At(r, "failsafe")
  /\ \/ Raised /\ enabled' = TRUE /\ Exit(r, TRUE)
     \/ /\ NotRaised /\ UNCHANGED enabled
        /\ run' = [run EXCEPT ![r].pc = IF r = "unit" THEN "restart" ELSE "done",
                              ![r].refused = TRUE]
  /\ UNCHANGED <<config, conf, hub, hubUp, cookie>>

-----------------------------------------------------------------------------
(* The surroundings: a user edits wireguard.json, the hub comes and goes.  *)
EditConfig ==
  /\ config' \in {"missing", "disabled", "enabled"}
  /\ UNCHANGED <<hub, hubUp, cookie, conf, wg0, enabled, run>>

HubChanges ==
  /\ hubUp' = ~hubUp
  /\ UNCHANGED <<onHost, hub, cookie, run>>

(* A run is killed by its outer time limit, in whatever step it is.        *)
Kill(r) ==
  /\ "kill" \in Faults
  /\ run[r].pc \notin {"new", "restart", "done"}
  /\ Exit(r, FALSE)
  /\ UNCHANGED <<onHost, hub, hubUp, cookie>>

(* A boot: wg-quick@wg0 comes first, then the unit, and install.sh unless  *)
(* it is over.                                                             *)
Reboot ==
  /\ "reboot" \in Faults
  /\ cookie' = FALSE
  /\ run' = [r \in Runners |->
               IF r = "installer" /\ At(r, "done") THEN run[r] ELSE NewRun]
  /\ \/ enabled /\ conf.of # None /\ wg0' = Fresh
     \/ (~enabled \/ MayFail) /\ wg0' = Down
  /\ UNCHANGED <<config, conf, enabled, hub, hubUp>>

Script(r) ==
  \/ Start(r) \/ ReadConfig(r)
  \/ HubAnswers(r) \/ Sleep(r) \/ StopWaiting(r) \/ StartTimesOut(r)
  \/ Login(r) \/ List(r) \/ Create(r) \/ Recreate(r) \/ Find(r)
  \/ \E pc \in {"list", "create", "recreate", "find", "download"} : Refused(r, pc)
  \/ Download(r) \/ EndDownload(r) \/ SetEndpoint(r)
  \/ Raise(r) \/ Persist(r) \/ Verify(r)
  \/ CopyFallback(r) \/ RaiseFailsafe(r)

Next ==
  \/ \E r \in Runners : Script(r) \/ Kill(r)
  \/ EditConfig \/ HubChanges
  \/ Reboot

Spec == Init /\ [][Next]_vars

(* A started script goes on; nothing is owed by the hub or the user.       *)
Fairness == \A r \in Runners : WF_vars(Script(r))

FairSpec == Spec /\ Fairness

-----------------------------------------------------------------------------
(* Runs that follow each other never give the box a second peer, whatever  *)
(* replies are lost and wherever runs are killed (script, lines 345-351).  *)
NeverDuplicates == [][hub # <<>> => hub' = hub]_vars

(* What a run by itself raises is the peer it picked, reached by a raw IP: *)
(* no run raises a leftover, and none depends on DNS (script, 49-53).      *)
RaisesItsPeer ==
  \A r \in Runners :
    /\ At(r, "raise") => conf = [of |-> run[r].pick, raw |-> TRUE]
    /\ At(r, "failsafe") => conf = [of |-> Fallback, raw |-> TRUE]

(* The box keeps its identity: while runs follow each other, wg0.conf is   *)
(* only ever of the peer that the next run would pick.                     *)
KeepsIdentity == conf.of \in Ids => hub # <<>> /\ conf.of = Pick

(* With a fallback, a run of install.sh that has begun to wait for the hub *)
(* raises wg0, whatever the hub does and although wg-quick may refuse what *)
(* was downloaded; only its refusal of the failsafe itself ends the run    *)
(* without (script, 54-62 and 137-144).                                    *)
FailsafeConnects ==
  \A r \in Runners : At(r, "wait") /\ HasFallback ~> (wg0.up \/ run[r].refused)

(* ppsa-wireguard-register.service:43-48: the restart only ever fires on   *)
(* a box without a fallback.                                               *)
RestartMeansNoFallback == \A r \in Runners : At(r, "restart") => ~HasFallback

(* Script, 54-59: the fallback lets the box reach its owner's network: the *)
(* address of the interface belongs to its key.                            *)
TunnelIsOfOnePeer ==
  (wg0.up /\ \A r \in Runners : At(r, "done")) => wg0.key = wg0.addr

(* ppsa-wireguard-register.service:26-27: on a reboot the tunnel is up     *)
(* from the persisted wg0.conf; so that file is always a whole one.        *)
PersistedIsWhole ==
  (enabled /\ \A r \in Runners : run[r].pc \in {"new", "done"}) => conf.of # Torn

-----------------------------------------------------------------------------
(* The inductive invariant of runs that follow each other.                 *)
Alone == \A r, s \in Runners : r = s

HubInv ==       \* a peer is created only when there is none, and is then the one
  \A r \in Runners :
    /\ run[r].pc \in {"create", "recreate"} => hub = <<>>
    /\ At(r, "find") => Len(hub) = 1

PickInv ==      \* the peer in the script's hands is the one to pick
  \A r \in Runners :
    run[r].pc \in {"download", "writing", "endpoint", "raise"} =>
      hub # <<>> /\ run[r].pick = Pick

ConfInv ==      \* wg0.conf is as far as the run is
  \A r \in Runners :
    /\ At(r, "endpoint") => conf.of = run[r].pick
    /\ At(r, "clamp") => conf.of = Fallback

IInv == TypeOK /\ HubInv /\ PickInv /\ ConfInv /\ RaisesItsPeer /\ KeepsIdentity

=============================================================================
