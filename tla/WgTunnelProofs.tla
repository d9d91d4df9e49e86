---------------------------- MODULE WgTunnelProofs ----------------------------
(***************************************************************************)
(* The proofs about WgTunnel: the tunnel uses the channel as WgApply has   *)
(* it, so that all that is proved of the channel holds in the tunnel; its  *)
(* types, the monitor's counter among them; and that what is raised is the *)
(* newest configuration.                                                   *)
(***************************************************************************)
EXTENDS WgTunnel, WgApplyProofs

(* Every step of the tunnel is a step of the channel or none. *)
LEMMA ChannelStep ==
  ASSUME [TunnelNext]_allVars
  PROVE  [Next]_vars
  <1>1. ASSUME NEW c \in Callers, NEW kind, NEW a \in Actions, Issue(c, kind, a)
        PROVE  Next
    BY <1>1 DEF Issue, Next, WebuiStep
  <1>2. "up" \in Actions /\ "down" \in Actions /\ Users \subseteq Callers
    BY DEF Actions, Users
  <1>3. CASE Startup \/ MonitorTick
    BY <1>3, <1>1, <1>2, MonitorAssumption DEF Startup, MonitorTick
  <1>4. CASE \E c \in Users : Connect(c) \/ UploadFails(c) \/ Disconnect(c)
    BY <1>4, <1>1, <1>2 DEF Connect, UploadFails, Disconnect
  <1>5. CASE \E c \in Callers : WriteOver(c) \/ WriteFailed(c) \/ CallOver(c)
    BY <1>5 DEF WriteOver, WriteFailed, CallOver, Next, WebuiStep
  <1>6. CASE HostRuns \/ Snapshot \/ Handshake \/ PeerDies \/ WebuiDies \/ HostReboots
    BY <1>6 DEF HostRuns, Snapshot, Handshake, PeerDies, WebuiDies, HostReboots, Next
  <1>7. CASE UNCHANGED allVars
    BY <1>7 DEF allVars
  <1>8. QED
    BY <1>3, <1>4, <1>5, <1>6, <1>7 DEF TunnelNext

(* The handlers, the startup and the monitor use the channel as WgApply    *)
(* says it may be used (main.py:967-1004 and its callers), so that its     *)
(* theorems hold in the tunnel.                                            *)
THEOREM UsesTheChannel == TunnelSpec => Spec
  <1>1. TunnelInit => Init
    BY DEF TunnelInit
  <1>2. [TunnelNext]_allVars => [Next]_vars
    BY ChannelStep
  <1>3. QED
    BY <1>1, <1>2, PTL DEF TunnelSpec, Spec

(* The channel's invariant holds in the tunnel. *)
LEMMA ChannelInv == TunnelSpec => []IInv
  BY UsesTheChannel, Inductive, PTL

-----------------------------------------------------------------------------
(* The monitor counts no further while its own call is under way: the      *)
(* counter is at its limit only then.                                      *)
CounterInv == failures = 3 => caller[Monitor].pc # "idle"

(* A request that is issued is one of the type, and of a coroutine that is *)
(* no longer idle. *)
LEMMA IssueTypes ==
  ASSUME TunnelTypeOK, NEW c \in Callers, NEW a \in Actions,
         NEW kind \in {"connect", "disconnect", "startup", "monitor"}, Issue(c, kind, a)
  PROVE  /\ who' \in [Ids -> {"none", "connect", "disconnect", "startup", "monitor"}]
         /\ issued + 1 \in Ids /\ issued' = issued + 1
         /\ \A i \in Ids \ {issued + 1} : who'[i] = who[i]
         /\ who'[issued + 1] = kind
         /\ caller'[c].pc # "idle"
         /\ \A d \in Callers \ {c} : caller'[d] = caller[d]
  <1>1. issued + 1 \in Ids /\ issued' = issued + 1
    BY MaxRequestsAssumption DEF Issue, Begin, TunnelTypeOK, TypeOK, Ids
  <1>2. caller' = [caller EXCEPT ![c] = [pc |-> "writing", id |-> issued + 1]]
    BY DEF Issue, Begin
  <1>3. QED
    BY <1>1, <1>2 DEF Issue, TunnelTypeOK, TypeOK

(* Every step keeps the types of the tunnel and the monitor's counter. *)
LEMMA TunnelTypeStep ==
  ASSUME TunnelTypeOK, TypeOK', CounterInv, [TunnelNext]_allVars
  PROVE  TunnelTypeOK' /\ CounterInv'
  <1> USE DEF TunnelTypeOK, CounterInv
  <1>1. CASE Startup
    <2>1. CASE hasConf
      BY <1>1, <2>1, IssueTypes, MonitorAssumption DEF Startup, Actions
    <2>2. CASE ~hasConf
      BY <1>1, <2>2 DEF Startup, vars
    <2>3. QED
      BY <2>1, <2>2
  <1>2. ASSUME NEW c \in Users, Connect(c)
        PROVE  TunnelTypeOK' /\ CounterInv'
    <2>1. c \in Callers /\ Monitor \in Callers \ {c} /\ "up" \in Actions
      BY MonitorAssumption DEF Users, Actions
    <2>2. Issue(c, "connect", "up")
      BY <1>2 DEF Connect
    <2>3. caller'[Monitor] = caller[Monitor] /\ issued + 1 \in Ids
      BY <2>1, <2>2, IssueTypes
    <2>4. conf' \in Writings
      BY <1>2, <2>3, MaxRequestsAssumption DEF Connect, Writings, Ids
    <2>5. who' \in [Ids -> {"none", "connect", "disconnect", "startup", "monitor"}]
      BY <2>1, <2>2, IssueTypes
    <2>6. QED
      BY <1>2, <2>3, <2>4, <2>5 DEF Connect
  <1>3. ASSUME NEW c \in Users, UploadFails(c)
        PROVE  TunnelTypeOK' /\ CounterInv'
    <2>1. conf' \in Writings
      BY <1>3, MaxRequestsAssumption DEF UploadFails, Writings, TypeOK
    <2>2. QED
      BY <1>3, <2>1 DEF UploadFails, vars
  <1>4. ASSUME NEW c \in Users, Disconnect(c)
        PROVE  TunnelTypeOK' /\ CounterInv'
    <2>1. c \in Callers /\ Monitor \in Callers \ {c} /\ "down" \in Actions
      BY MonitorAssumption DEF Users, Actions
    <2>2. Issue(c, "disconnect", "down")
      BY <1>4 DEF Disconnect
    <2>3. QED
      BY <1>4, <2>1, <2>2, IssueTypes DEF Disconnect
  <1>5. CASE MonitorTick
    <2>1. failures # 3
      BY <1>5 DEF MonitorTick
    <2>2. failures' \in 0 .. 3 /\ (failures' = 3 => Issue(Monitor, "monitor", "up"))
      BY <1>5, <2>1 DEF MonitorTick
    <2>3. failures' # 3 => UNCHANGED <<vars, who>>
      BY <1>5, <2>1 DEF MonitorTick
    <2>4. CASE failures' = 3
      BY <1>5, <2>2, <2>4, IssueTypes, MonitorAssumption DEF MonitorTick, Actions
    <2>5. CASE failures' # 3
      BY <1>5, <2>2, <2>3, <2>5 DEF MonitorTick, vars
    <2>6. QED
      BY <2>4, <2>5
  <1>6. ASSUME NEW c \in Callers, WriteOver(c)
        PROVE  TunnelTypeOK' /\ CounterInv'
    <2>1. caller' = [caller EXCEPT ![c].pc = "polling"] /\ UNCHANGED tunnelVars
      BY <1>6 DEF WriteOver, FinishWrite
    <2>2. CounterInv'
      BY <2>1, MonitorAssumption DEF tunnelVars, TypeOK
    <2>3. QED
      BY <2>1, <2>2 DEF tunnelVars
  <1>7. ASSUME NEW c \in Callers, CallOver(c) \/ WriteFailed(c)
        PROVE  TunnelTypeOK' /\ CounterInv'
    <2>1. caller' = [caller EXCEPT ![c] = IdleCaller]
      BY <1>7 DEF CallOver, PollAnswer, TimeOut, Return, WriteFailed, WriteFails, Leave
    <2>2. c # Monitor => caller'[Monitor] = caller[Monitor]
      BY <2>1, MonitorAssumption DEF TypeOK
    <2>3. /\ UNCHANGED <<who, conf, hasConf, linked, peerUp, snap>>
          /\ failures' = IF c = Monitor THEN 0 ELSE failures
      BY <1>7 DEF CallOver, WriteFailed
    <2>4. serving' \in BOOLEAN /\ watching' \in BOOLEAN
      BY <1>7 DEF CallOver, WriteFailed
    <2>5. CounterInv'
      BY <2>2, <2>3
    <2>6. QED
      BY <2>3, <2>4, <2>5
  <1>8. CASE HostRuns
    <2>1. UNCHANGED <<caller, who, conf, hasConf, peerUp, snap, failures, serving, watching>>
      BY <1>8 DEF HostRuns, HostStep, StartService, ReadId, ReadAction, TearDown,
                  BringUp, BringDown, Ran, Report, hostOnly
    <2>2. linked' \in BOOLEAN
      BY <1>8 DEF HostRuns, InterfaceFollows
    <2>3. QED
      BY <2>1, <2>2
  <1>9. CASE Snapshot \/ Handshake \/ PeerDies
    BY <1>9 DEF Snapshot, Handshake, PeerDies, vars
  <1>10. CASE WebuiDies \/ HostReboots
    <2>1. /\ UNCHANGED <<who, conf, hasConf, peerUp, snap>>
          /\ failures' = 0 /\ serving' = FALSE /\ watching' = TRUE
          /\ linked' = linked \/ linked' = FALSE
      BY <1>10 DEF WebuiDies, HostReboots
    <2>2. linked' \in BOOLEAN /\ serving' \in BOOLEAN /\ watching' \in BOOLEAN
      BY <2>1
    <2>3. hasConf' \in BOOLEAN /\ peerUp' \in BOOLEAN /\ snap' \in BOOLEAN
      BY <2>1
    <2>4. QED
      BY <2>1, <2>2, <2>3
  <1>11. CASE UNCHANGED allVars
    BY <1>11 DEF allVars, vars, tunnelVars
  <1>12. QED
    BY <1>1, <1>2, <1>3, <1>4, <1>5, <1>6, <1>7, <1>8, <1>9, <1>10, <1>11 DEF TunnelNext

(* The state of the tunnel stays in its types; above all, the monitor's    *)
(* counter never passes three (main.py:1007-1030).                         *)
THEOREM TunnelTypeCorrect == TunnelSpec => []TunnelTypeOK
  <1>1. TunnelInit => TunnelTypeOK /\ CounterInv
    <2>1. ASSUME TunnelInit
          PROVE  TypeOK
      BY <2>1, InitIInv DEF TunnelInit, IInv
    <2>2. ASSUME TunnelInit
          PROVE  {hasConf, linked, peerUp, snap, serving, watching} \subseteq BOOLEAN
      BY <2>2 DEF TunnelInit
    <2>3. ASSUME TunnelInit
          PROVE  /\ who \in [Ids -> {"none", "connect", "disconnect", "startup", "monitor"}]
                 /\ conf \in Writings
                 /\ failures = 0
      BY <2>3, MaxRequestsAssumption DEF TunnelInit, Writings
    <2>4. QED
      BY <2>1, <2>2, <2>3 DEF TunnelTypeOK, CounterInv
  <1>2. IInv' => TypeOK'
    BY DEF IInv
  <1>3. TunnelTypeOK /\ CounterInv /\ IInv' /\ [TunnelNext]_allVars
          => TunnelTypeOK' /\ CounterInv'
    BY <1>2, TunnelTypeStep
  <1>4. QED
    BY <1>1, <1>3, ChannelInv, PTL DEF TunnelSpec

-----------------------------------------------------------------------------
(* wg0.conf is as new as every connect there has been, and of none that    *)
(* there has not been. *)
ConfInv ==
  /\ conf <= 2 * issued + 1
  /\ \A i \in 1 .. issued : who[i] = "connect" => conf >= 2 * i

(* Every step keeps that. *)
LEMMA ConfStep ==
  ASSUME TunnelTypeOK, ConfInv, [TunnelNext]_allVars
  PROVE  ConfInv'
  <1> USE DEF ConfInv
  <1>1. issued \in Nat /\ conf \in Nat
    BY MaxRequestsAssumption DEF TunnelTypeOK, TypeOK, Writings
  <1>2. ASSUME UNCHANGED <<issued, who, conf>>
        PROVE  ConfInv'
    BY <1>2
  <1>3. ASSUME NEW c \in Callers, NEW a \in Actions,
               NEW kind \in {"disconnect", "startup", "monitor"}, Issue(c, kind, a),
               UNCHANGED conf
        PROVE  ConfInv'
    <2>1. /\ issued' = issued + 1 /\ who'[issued + 1] # "connect"
          /\ \A i \in 1 .. issued : who'[i] = who[i]
      <3>1. /\ issued + 1 \in Ids /\ issued' = issued + 1
            /\ \A i \in Ids \ {issued + 1} : who'[i] = who[i]
            /\ who'[issued + 1] = kind
        BY <1>3, IssueTypes
      <3>2. QED
        BY <1>1, <3>1, MaxRequestsAssumption DEF Ids
    <2>2. QED
      BY <1>1, <1>3, <2>1
  <1>4. ASSUME NEW c \in Users, Connect(c)
        PROVE  ConfInv'
    <2>1. issued' = issued + 1
      BY <1>4 DEF Connect, Issue, Begin
    <2>2. QED
      BY <1>1, <1>4, <2>1 DEF Connect
  <1>5. ASSUME NEW c \in Users, UploadFails(c)
        PROVE  ConfInv'
    BY <1>1, <1>5 DEF UploadFails, vars
  <1>6. "up" \in Actions /\ "down" \in Actions /\ Users \subseteq Callers
    BY DEF Actions, Users
  <1>7. CASE Startup \/ MonitorTick \/ \E c \in Users : Disconnect(c)
    <2>1. CASE Startup
      BY <2>1, <1>2, <1>3, <1>6, MonitorAssumption DEF Startup, vars
    <2>2. CASE MonitorTick
      BY <2>2, <1>2, <1>3, <1>6, MonitorAssumption DEF MonitorTick, vars
    <2>3. CASE \E c \in Users : Disconnect(c)
      BY <2>3, <1>3, <1>6 DEF Disconnect
    <2>4. QED
      BY <1>7, <2>1, <2>2, <2>3
  <1>8. CASE \E c \in Callers : WriteOver(c) \/ WriteFailed(c) \/ CallOver(c)
    BY <1>8, <1>2 DEF WriteOver, FinishWrite, WriteFailed, WriteFails, CallOver, PollAnswer,
                      TimeOut, Return, Leave, tunnelVars
  <1>9. CASE HostRuns
    BY <1>9, <1>2 DEF HostRuns, HostStep, StartService, ReadId, ReadAction, TearDown,
                      BringUp, BringDown, Ran, Report, hostOnly
  <1>10. CASE Snapshot \/ Handshake \/ PeerDies \/ WebuiDies \/ HostReboots \/ UNCHANGED allVars
    BY <1>10, <1>2 DEF Snapshot, Handshake, PeerDies, WebuiDies, WebuiRestart, HostReboots,
                       Reboot, allVars, vars, tunnelVars
  <1>11. QED
    BY <1>4, <1>5, <1>7, <1>8, <1>9, <1>10 DEF TunnelNext

(* An interface raised for a request is raised from the wg0.conf of the    *)
(* newest connect up to it, however late the host is (main.py:1199-1204).  *)
THEOREM RaisesTheCurrent == TunnelSpec => RaisedIsCurrent
  <1>1. TunnelInit => ConfInv
    BY DEF TunnelInit, Init, ConfInv
  <1>2. TunnelTypeOK /\ ConfInv /\ [TunnelNext]_allVars => ConfInv'
    BY ConfStep
  <1>3. IInv /\ ConfInv =>
          \A i \in 1 .. host.id : who[i] = "connect" => conf >= 2 * i
    BY MaxRequestsAssumption DEF IInv, TypeOK, OrderInv, ConfInv
  <1>4. IInv /\ ConfInv /\ [TunnelNext]_allVars =>
          [ (host.pc = "raise" /\ ~wg0 /\ wg0') =>
              \A i \in 1 .. host.id : who[i] = "connect" => conf >= 2 * i ]_allVars
    BY <1>3
  <1>5. QED
    BY <1>1, <1>2, <1>4, ChannelInv, TunnelTypeCorrect, PTL DEF TunnelSpec, RaisedIsCurrent

=============================================================================
