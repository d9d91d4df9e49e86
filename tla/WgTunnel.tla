------------------------------ MODULE WgTunnel ------------------------------
(***************************************************************************)
(* The WireGuard tunnel as the appliance runs it: the webui's handlers,    *)
(* its startup and its health monitor, composed over the apply channel of  *)
(* WgApply, with wg0.conf, the host's status snapshot and the far peer.    *)
(***************************************************************************)
EXTENDS WgApply

CONSTANT Monitor      \* the coroutine of lifespan and _wg_health_monitor

ASSUME MonitorAssumption == Monitor \in Callers

Users == Callers \ {Monitor}

VARIABLES
  who,       \* who[i]: which code issued request i
  conf,      \* which writing wg0.conf is of, numbered as below
  hasConf,   \* wg0.conf exists
  linked,    \* wg shows a latest handshake: one happened since it was raised
  peerUp,    \* the far peer answers
  snap,      \* /etc/ppsa/wg-status.json: some peer has a latest_handshake
  failures,  \* the monitor's counter
  serving,   \* lifespan has got past its startup part
  watching   \* the task of the monitor has not died of an exception

tunnelVars == <<who, conf, hasConf, linked, peerUp, snap, failures, serving, watching>>
allVars == <<vars, tunnelVars>>

(* The handler of request i writes number 2i; an upload that fails before  *)
(* its request, after request i, number 2i + 1; 0 was there from before.   *)
Writings == 0 .. 2 * MaxRequests + 1

TunnelTypeOK ==
  /\ TypeOK
  /\ who \in [Ids -> {"none", "connect", "disconnect", "startup", "monitor"}]
  /\ conf \in Writings
  /\ {hasConf, linked, peerUp, snap, serving, watching} \subseteq BOOLEAN
  /\ failures \in 0 .. 3

TunnelInit ==
  /\ Init
  /\ who = [i \in Ids |-> "none"]
  /\ conf = 0
  /\ hasConf \in BOOLEAN /\ (wg0 => hasConf)
  /\ linked = FALSE /\ peerUp = TRUE /\ snap = FALSE
  /\ failures = 0 /\ serving = FALSE /\ watching = TRUE

-----------------------------------------------------------------------------
(* The webui. *)
Issue(c, kind, a) ==
  /\ Begin(c, a)
  /\ who' = [who EXCEPT ![issued + 1] = kind]

(* Startup brings the tunnel up if it is configured, then serves.          *)
Startup ==
  /\ ~serving
  /\ IF hasConf
     THEN Issue(Monitor, "startup", "up") /\ UNCHANGED serving
     ELSE serving' = TRUE /\ UNCHANGED <<vars, who>>
  /\ UNCHANGED <<conf, hasConf, linked, peerUp, snap, failures, watching>>

(* Variant: the request is sent and wg0.conf is left as it was. *)
ConnectUnwritten(c) ==
  /\ serving
  /\ Issue(c, "connect", "up")
  /\ hasConf' = TRUE
  /\ UNCHANGED <<conf, linked, peerUp, snap, failures, serving, watching>>

(* connect and upload write wg0.conf in the same step as the request.      *)
Connect(c) ==
  /\ serving
  /\ Issue(c, "connect", "up")
  /\ conf' = 2 * (issued + 1)
  /\ hasConf' = TRUE
  /\ UNCHANGED <<linked, peerUp, snap, failures, serving, watching>>

(* `wg pubkey` refuses the uploaded key: a 500, and no request follows.    *)
UploadFails(c) ==
  /\ serving /\ LoopFree
  /\ caller[c].pc = "idle"
  /\ conf' = 2 * issued + 1
  /\ hasConf' = TRUE
  /\ UNCHANGED <<vars, who, linked, peerUp, snap, failures, serving, watching>>

Disconnect(c) ==
  /\ serving
  /\ Issue(c, "disconnect", "down")
  /\ UNCHANGED <<conf, hasConf, linked, peerUp, snap, failures, serving, watching>>

(* Variants of MonitorTick: one that tolerates five failures, and one that *)
(* forgets the failures it has seen.                                       *)
MonitorTickPatient ==
  /\ serving /\ watching /\ LoopFree
  /\ caller[Monitor].pc = "idle"
  /\ LET seen == IF ~hasConf \/ snap THEN 0 ELSE failures + 1
     IN  /\ failures' = seen
         /\ IF seen < 5 THEN UNCHANGED <<vars, who>>
                        ELSE Issue(Monitor, "monitor", "up")
  /\ UNCHANGED <<conf, hasConf, linked, peerUp, snap, serving, watching>>

MonitorTickForgets ==
  /\ serving /\ watching /\ LoopFree
  /\ caller[Monitor].pc = "idle"
  /\ failures' = IF ~hasConf \/ snap THEN 0 ELSE 1
  /\ UNCHANGED <<vars, who, conf, hasConf, linked, peerUp, snap, serving, watching>>

(* One round of the monitor: every 60 s it judges the snapshot.            *)
MonitorTick ==
  /\ serving /\ watching
  /\ LoopFree
  /\ caller[Monitor].pc = "idle"
  /\ LET seen == IF ~hasConf \/ snap THEN 0 ELSE failures + 1
     IN  /\ failures' = seen
         /\ IF seen < 3 THEN UNCHANGED <<vars, who>>
                        ELSE Issue(Monitor, "monitor", "up")
  /\ UNCHANGED <<conf, hasConf, linked, peerUp, snap, serving, watching>>

(* The call is over: the monitor forgets its failures, startup serves.     *)
CallOver(c) ==
  /\ PollAnswer(c) \/ TimeOut(c)
  /\ failures' = IF c = Monitor THEN 0 ELSE failures
  /\ serving' = (serving \/ c = Monitor)
  /\ UNCHANGED <<who, conf, hasConf, linked, peerUp, snap, watching>>

(* An OSError: a handler's call answers 500, the monitor's task ends for   *)
(* good, and a webui that starts exits and is started again by docker.     *)
WriteFailed(c) ==
  /\ WriteFails(c)
  /\ failures' = IF c = Monitor THEN 0 ELSE failures
  /\ watching' = (watching /\ (c = Monitor => ~serving))
  /\ UNCHANGED <<who, conf, hasConf, linked, peerUp, snap, serving>>

WriteOver(c) == FinishWrite(c) /\ UNCHANGED tunnelVars

-----------------------------------------------------------------------------
(* The host: raising the interface needs wg0.conf and forgets handshakes.  *)
InterfaceFollows ==
  /\ (~wg0 /\ wg0') => hasConf
  /\ linked' = (linked /\ wg0' = wg0)

HostRuns ==
  /\ HostStep
  /\ InterfaceFollows
  /\ UNCHANGED <<who, conf, hasConf, peerUp, snap, failures, serving, watching>>

Snapshot ==           \* ppsa-wg-status-snapshot.timer, every 5 s
  /\ snap' = (wg0 /\ linked)
  /\ UNCHANGED <<vars, who, conf, hasConf, linked, peerUp, failures, serving, watching>>

Handshake ==
  /\ wg0 /\ peerUp /\ ~linked
  /\ linked' = TRUE
  /\ UNCHANGED <<vars, who, conf, hasConf, peerUp, snap, failures, serving, watching>>

PeerDies ==           \* wg goes on showing the last handshake it had
  /\ peerUp
  /\ peerUp' = FALSE
  /\ UNCHANGED <<vars, who, conf, hasConf, linked, snap, failures, serving, watching>>

WebuiDies ==
  /\ WebuiRestart
  /\ failures' = 0 /\ serving' = FALSE /\ watching' = TRUE
  /\ UNCHANGED <<who, conf, hasConf, linked, peerUp, snap>>

HostReboots ==
  /\ Reboot
  /\ wg0' => hasConf
  /\ linked' = FALSE
  /\ failures' = 0 /\ serving' = FALSE /\ watching' = TRUE
  /\ UNCHANGED <<who, conf, hasConf, peerUp, snap>>

TunnelNext ==
  \/ Startup \/ MonitorTick
  \/ \E c \in Users : Connect(c) \/ UploadFails(c) \/ Disconnect(c)
  \/ \E c \in Callers : WriteOver(c) \/ WriteFailed(c) \/ CallOver(c)
  \/ HostRuns \/ Snapshot \/ Handshake \/ PeerDies
  \/ WebuiDies \/ HostReboots

TunnelSpec == TunnelInit /\ [][TunnelNext]_allVars

(* The monitor's and systemd's timers fire and started work goes on; users *)
(* and the far peer owe nothing.                                           *)
TunnelFairness ==
  /\ WF_allVars(Startup) /\ WF_allVars(MonitorTick)
  /\ WF_allVars(HostRuns) /\ WF_allVars(Snapshot)
  /\ \A c \in Callers : WF_allVars(WriteOver(c)) /\ WF_allVars(CallOver(c))

TunnelFairSpec == TunnelSpec /\ TunnelFairness

-----------------------------------------------------------------------------
(* What the browser tells the user about call i.  wgDisconnect does not    *)
(* look at the status of the answer.                                       *)
Shown(i) ==
  IF reply[i] = "none" THEN "nothing"
  ELSE IF who[i] = "disconnect" THEN "disconnected"
  ELSE IF reply[i] = "ok" THEN "connected" ELSE "config_written"

(* An interface raised for request i is raised from the wg0.conf of the    *)
(* newest connect up to i, or from a newer one, however late the host is   *)
(* and whatever its two reads paired (main.py:1199-1204).                  *)
RaisedIsCurrent ==
  [][ (host.pc = "raise" /\ ~wg0 /\ wg0') =>
        \A i \in 1 .. host.id : who[i] = "connect" => conf >= 2 * i ]_allVars

(* A configured tunnel that is down does not stay unattended: either it    *)
(* gets a handshake or the monitor asks again (until the ids run out).     *)
DownIsAttended ==
  (serving /\ hasConf /\ ~wg0) ~> (linked \/ issued = MaxRequests)

(* What index.html:1390 tells the user: the tunnel has been disconnected.  *)
DisconnectedIsDown ==
  \A i \in Ids : Shown(i) = "disconnected" =>
    \E r \in runs : r.id = i /\ r.action = "down" /\ r.ok

(* What main.py:1266 promises: disconnect stops the tunnel.  After one     *)
(* that was confirmed, the webui by itself does not raise it again.        *)
StaysDown ==
  [][ (host.pc = "raise" /\ ~wg0 /\ wg0') =>
        ~ \E i \in 1 .. issued :
            /\ who[i] = "disconnect" /\ reply[i] = "ok"
            /\ \A j \in (i + 1) .. issued : who[j] = "monitor" ]_allVars

(* What main.py:999 promises: a tunnel whose peer has stopped answering is *)
(* reconnected.                                                            *)
DeadPeerIsNoticed ==
  (serving /\ hasConf /\ wg0 /\ ~peerUp) ~> (~wg0 \/ issued = MaxRequests)

=============================================================================
