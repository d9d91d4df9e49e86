--------------------------- MODULE WgRegisterProofs ---------------------------
(***************************************************************************)
(* The proofs about WgRegister, for runs that follow each other: they      *)
(* never make a second peer, they raise the peer they picked, and wg0.conf *)
(* keeps the identity of the box, whatever replies are lost and wherever   *)
(* runs are killed.                                                        *)
(***************************************************************************)
EXTENDS WgRegister, TLAPS

USE RunnersAssumption, WaitAssumption, MaxPeersAssumption
    DEF Ids, None, Fallback, Torn, Origins, Wanted, Other

(* What a run picks from a list that is not empty is one of its peers. *)
LEMMA PickIsAPeer == ASSUME hub \in Seq({Wanted, Other}), hub # <<>>
                     PROVE  Pick \in DOMAIN hub
  <1>1. DOMAIN hub = 1 .. Len(hub) /\ 1 \in DOMAIN hub
    OBVIOUS
  <1>2. CASE Preferred = {}
    BY <1>1, <1>2 DEF Pick
  <1>3. CASE Preferred # {}
    <2>1. Preferred \subseteq DOMAIN hub
      BY DEF Preferred
    <2>2. Pick \in Preferred
      BY <1>3 DEF Pick
    <2>3. QED
      BY <2>1, <2>2
  <1>4. QED
    BY <1>2, <1>3

(* Of a list of one, that one is picked. *)
LEMMA PickOfOne == ASSUME hub \in Seq({Wanted, Other}), Len(hub) = 1
                   PROVE  Pick = 1
  <1>1. hub # <<>> /\ DOMAIN hub = {1}
    OBVIOUS
  <1>2. QED
    BY <1>1, PickIsAPeer

-----------------------------------------------------------------------------
(* Abbreviations of the proofs: what a runner's record is, how a run goes  *)
(* on, and the steps that rely on nothing the earlier ones did.            *)
RunType == [pc: Steps, waited: 0 .. MaxWait + 10, delay: 0 .. 10, pick: 0 .. MaxPeers,
            refused: BOOLEAN]
Moves(r, pcs) == \E pc \in pcs : GoTo(r, pc)
Idle == {"new", "config", "wait", "login", "list", "persist", "verify", "copy",
         "restart", "done"}

(* A run that moves on stays a run, at the step it moves to. *)
LEMMA MoveType == ASSUME TypeOK, NEW r \in Runners, NEW pcs, pcs \subseteq Steps,
                         Moves(r, pcs)
                  PROVE  /\ run' \in [Runners -> RunType]
                         /\ run'[r].pc \in pcs
                         /\ run'[r].pick = run[r].pick
  <1>1. PICK pc \in pcs : run' = [run EXCEPT ![r].pc = pc]
    BY DEF Moves, GoTo
  <1>2. run \in [Runners -> RunType] /\ pc \in Steps
    BY DEF TypeOK, RunType
  <1>3. run[r] \in RunType /\ run' = [run EXCEPT ![r] = [run[r] EXCEPT !.pc = pc]]
    BY <1>1, <1>2
  <1>4. [run[r] EXCEPT !.pc = pc] \in RunType
    BY <1>2, <1>3 DEF RunType
  <1>5. QED
    BY <1>2, <1>3, <1>4 DEF RunType

(* The same, for a step that is known. *)
LEMMA GoToType == ASSUME TypeOK, NEW r \in Runners, NEW pc \in Steps, GoTo(r, pc)
                  PROVE  /\ run' \in [Runners -> RunType]
                         /\ run'[r].pc = pc
                         /\ run'[r].pick = run[r].pick
  <1>1. Moves(r, {pc}) /\ {pc} \subseteq Steps
    BY DEF Moves
  <1>2. QED
    BY <1>1, MoveType

(* Failing, and exiting, moves to a step that relies on nothing. *)
LEMMA FailMoves == ASSUME NEW r \in Runners
                   PROVE  /\ Fail(r) => Moves(r, {"copy", "done", "restart"})
                          /\ \A ok \in BOOLEAN : Exit(r, ok) => Moves(r, {"done", "restart"})
  BY DEF Fail, Exit, Moves

(* A step that ends where nothing is relied on, and that leaves the hub's  *)
(* peers and wg0.conf as they were, keeps the invariant.                   *)
LEMMA QuietIInv == ASSUME IInv, TypeOK', hub' = hub, conf' = conf,
                          \A r \in Runners : run'[r].pc \in Idle
                   PROVE  IInv'
  <1>1. HubInv' /\ PickInv' /\ ConfInv' /\ RaisesItsPeer'
    BY DEF HubInv, PickInv, ConfInv, RaisesItsPeer, At, Idle
  <1>2. KeepsIdentity'
    BY DEF IInv, KeepsIdentity, Pick, Preferred
  <1>3. QED
    BY <1>1, <1>2 DEF IInv

(* The initial states satisfy the invariant. *)
LEMMA InitIInv == ASSUME Init PROVE IInv
  <1> USE DEF Init
  <1>1. TypeOK
    <2>1. hub \in Seq({Wanted, Other}) /\ Len(hub) <= MaxPeers
      <3>1. \A S : \A a, b \in S : <<>> \in Seq(S) /\ <<a>> \in Seq(S) /\ <<a, b>> \in Seq(S)
        OBVIOUS
      <3>2. QED
        BY <3>1
    <2>2. NewRun \in RunType
      BY DEF NewRun, RunType, Steps
    <2>3. run \in [Runners -> RunType]
      BY <2>2
    <2>4. conf \in [of: Origins, raw: BOOLEAN] /\ wg0 \in [up: BOOLEAN, key: Origins, addr: Origins]
      BY DEF Down
    <2>5. QED
      BY <2>1, <2>3, <2>4 DEF TypeOK, RunType
  <1>2. \A r \in Runners : run[r].pc = "new"
    BY DEF NewRun
  <1>3. HubInv /\ PickInv /\ ConfInv /\ RaisesItsPeer
    BY <1>2 DEF HubInv, PickInv, ConfInv, RaisesItsPeer, At
  <1>4. KeepsIdentity
    BY DEF KeepsIdentity
  <1>5. QED
    BY <1>1, <1>3, <1>4 DEF IInv

-----------------------------------------------------------------------------
(* Starting a run, or starting it again, keeps the invariant. *)
LEMMA StartIInv == ASSUME Alone, IInv, NEW r \in Runners, Start(r) PROVE IInv'
  <1> DEFINE fresh == [NewRun EXCEPT !.pc = "config"]
  <1>1. NewRun \in RunType /\ "config" \in Steps
    BY DEF NewRun, RunType, Steps
  <1>2. fresh \in RunType /\ fresh.pc = "config"
    BY <1>1 DEF RunType
  <1>3. run \in [Runners -> RunType] /\ run' = [run EXCEPT ![r] = fresh]
    BY DEF IInv, TypeOK, RunType, Start
  <1> HIDE DEF fresh
  <1>4. run' \in [Runners -> RunType] /\ run'[r] = fresh
    BY <1>2, <1>3
  <1>5. TypeOK'
    BY <1>4 DEF IInv, TypeOK, RunType, Start, onHost
  <1>6. \A s \in Runners : run'[s].pc \in Idle
    BY <1>2, <1>4 DEF Alone, Idle
  <1>7. QED
    BY <1>5, <1>6, QuietIInv DEF Start, onHost

(* What an interface may be, and what raising it makes of it. *)
WgType == [up: BOOLEAN, key: Origins, addr: Origins]

(* However an interface is torn down or raised, it is one. *)
LEMMA RaisedType == ASSUME TypeOK
                    PROVE  /\ Down \in WgType /\ wg0 \in WgType
                           /\ Raised \/ NotRaised => wg0' \in WgType
  <1>1. Down \in WgType
    BY DEF Down, WgType
  <1>2. wg0 \in WgType /\ conf.of \in Origins
    BY DEF TypeOK, WgType
  <1>3. Fresh \in WgType
    BY <1>2 DEF Fresh, WgType
  <1>4. [wg0 EXCEPT !.key = conf.of] \in WgType
    BY <1>2 DEF WgType
  <1>5. QED
    BY <1>1, <1>2, <1>3, <1>4 DEF Raised, NotRaised

(* A step to where nothing is relied on keeps the invariant when all it    *)
(* changes is the interface, the cookie or the unit's enablement.          *)
LEMMA MoveIInv == ASSUME Alone, IInv, NEW r \in Runners, NEW pcs, pcs \subseteq Idle,
                         Moves(r, pcs),
                         UNCHANGED <<config, conf, hub, hubUp>>,
                         wg0' \in WgType,
                         cookie' \in BOOLEAN, enabled' \in BOOLEAN
                  PROVE  IInv'
  <1>1. pcs \subseteq Steps
    BY DEF Idle, Steps
  <1>2. run' \in [Runners -> RunType] /\ run'[r].pc \in Idle
    BY <1>1, MoveType DEF IInv
  <1>3. TypeOK'
    <2>1. {hubUp, cookie, enabled}' \subseteq BOOLEAN
      BY DEF IInv, TypeOK
    <2>2. QED
      BY <1>2, <2>1 DEF IInv, TypeOK, RunType, WgType
  <1>4. \A s \in Runners : run'[s].pc \in Idle
    BY <1>2 DEF Alone
  <1>5. QED
    BY <1>3, <1>4, QuietIInv

(* Reading the configuration, which may tear the interface down. *)
LEMMA ReadConfigIInv == ASSUME Alone, IInv, NEW r \in Runners, ReadConfig(r) PROVE IInv'
  <1>1. Moves(r, {"copy", "done", "restart", "wait"})
    BY FailMoves DEF ReadConfig, Moves
  <1>2. wg0' \in WgType
    BY RaisedType DEF ReadConfig, IInv
  <1>3. UNCHANGED <<config, conf, hub, hubUp, cookie, enabled>>
    BY DEF ReadConfig
  <1>4. QED
    BY <1>1, <1>2, <1>3, MoveIInv DEF Idle, IInv, TypeOK

(* A run that has slept is still a run, and still waits. *)
LEMMA SleepType == ASSUME run \in [Runners -> RunType], NEW r \in Runners,
                          NEW t \in 0 .. MaxWait + 10, NEW d \in 0 .. 10,
                          run' = [run EXCEPT ![r].waited = t, ![r].delay = d]
                   PROVE  run' \in [Runners -> RunType] /\ run'[r].pc = run[r].pc
  <1> DEFINE slept == [[run[r] EXCEPT !.waited = t] EXCEPT !.delay = d]
  <1>1. run' = [run EXCEPT ![r] = slept]
    OBVIOUS
  <1>2. [run[r] EXCEPT !.waited = t] \in RunType
    BY DEF RunType
  <1>3. slept \in RunType /\ slept.pc = run[r].pc
    BY <1>2 DEF RunType
  <1> HIDE DEF slept
  <1>4. QED
    BY <1>1, <1>3

(* Waiting for the hub: an answer, a sleep, giving up, being killed. *)
LEMMA WaitIInv == ASSUME Alone, IInv, NEW r \in Runners,
                         HubAnswers(r) \/ Sleep(r) \/ StopWaiting(r) \/ StartTimesOut(r)
                  PROVE  IInv'
  <1>1. CASE Sleep(r)
    <2> DEFINE t == run[r].waited + run[r].delay
               d == IF run[r].delay > 5 THEN 10 ELSE 2 * run[r].delay
    <2>1. run \in [Runners -> RunType] /\ run[r] \in RunType /\ run[r].waited < MaxWait
      BY <1>1 DEF IInv, TypeOK, RunType, Sleep
    <2>2. t \in 0 .. MaxWait + 10 /\ d \in 0 .. 10
      BY <2>1 DEF RunType
    <2>3. run' = [run EXCEPT ![r].waited = t, ![r].delay = d]
      BY <1>1, <2>1 DEF Sleep
    <2> HIDE DEF t, d
    <2>4. run' \in [Runners -> RunType] /\ run'[r].pc = "wait"
      <3>1. run[r].pc = "wait"
        BY <1>1 DEF Sleep, At
      <3>2. QED
        BY <2>1, <2>2, <2>3, <3>1, SleepType
    <2>5. TypeOK'
      BY <1>1, <2>4 DEF IInv, TypeOK, RunType, Sleep, onHost
    <2>6. \A s \in Runners : run'[s].pc \in Idle
      BY <2>4 DEF Alone, Idle
    <2>7. QED
      BY <1>1, <2>5, <2>6, QuietIInv DEF Sleep, onHost
  <1>2. CASE HubAnswers(r) \/ StopWaiting(r) \/ StartTimesOut(r)
    <2>1. Moves(r, {"copy", "done", "restart", "login"})
      BY <1>2, FailMoves DEF HubAnswers, StopWaiting, StartTimesOut, Moves
    <2>2. UNCHANGED <<onHost, hub, hubUp, cookie>>
      BY <1>2 DEF HubAnswers, StopWaiting, StartTimesOut
    <2>3. QED
      BY <2>1, <2>2, MoveIInv DEF Idle, onHost, IInv, TypeOK, WgType
  <1>3. QED
    BY <1>1, <1>2

(* Logging in, being refused, being killed, persisting and ending a run. *)
LEMMA QuietStepsIInv == ASSUME Alone, IInv, NEW r \in Runners,
                               \/ Login(r) \/ Persist(r) \/ Verify(r) \/ Kill(r)
                               \/ \E pc \in Steps : Refused(r, pc)
                        PROVE  IInv'
  <1>1. Moves(r, {"copy", "done", "restart", "list", "verify"})
    BY FailMoves DEF Login, Persist, Verify, Kill, Refused, Moves
  <1>2. UNCHANGED <<config, conf, hub, hubUp, wg0>>
    BY DEF Login, Persist, Verify, Kill, Refused, onHost
  <1>3. cookie' \in BOOLEAN /\ enabled' \in BOOLEAN
    BY DEF Login, Persist, Verify, Kill, Refused, onHost, IInv, TypeOK
  <1>4. QED
    BY <1>1, <1>2, <1>3, MoveIInv, RaisedType DEF Idle, IInv

(* A run that was refused the failsafe is over, and still a run. *)
LEMMA RefusedType == ASSUME run \in [Runners -> RunType], NEW r \in Runners,
                            NEW pc \in Steps,
                            run' = [run EXCEPT ![r].pc = pc, ![r].refused = TRUE]
                     PROVE  run' \in [Runners -> RunType] /\ run'[r].pc = pc
  <1> DEFINE next == [[run[r] EXCEPT !.pc = pc] EXCEPT !.refused = TRUE]
  <1>1. run' = [run EXCEPT ![r] = next]
    OBVIOUS
  <1>2. [run[r] EXCEPT !.pc = pc] \in RunType
    BY DEF RunType
  <1>3. next \in RunType /\ next.pc = pc
    BY <1>2 DEF RunType
  <1> HIDE DEF next
  <1>4. QED
    BY <1>1, <1>3

(* Raising the interface, from the hub's configuration or the fallback,    *)
(* also when wg-quick refuses it.                                          *)
LEMMA RaiseIInv == ASSUME Alone, IInv, NEW r \in Runners, Raise(r) \/ RaiseFailsafe(r)
                   PROVE  IInv'
  <1>1. wg0' \in WgType
    BY RaisedType DEF Raise, RaiseFailsafe, IInv
  <1>2. UNCHANGED <<config, conf, hub, hubUp, cookie>> /\ enabled' \in BOOLEAN
    BY DEF Raise, RaiseFailsafe, IInv, TypeOK
  <1>3. CASE Moves(r, {"copy", "done", "restart", "persist"})
    BY <1>1, <1>2, <1>3, MoveIInv DEF Idle, IInv, TypeOK
  <1>4. CASE run' = [run EXCEPT ![r].pc = IF r = "unit" THEN "restart" ELSE "done",
                                ![r].refused = TRUE]
    <2> DEFINE end == IF r = "unit" THEN "restart" ELSE "done"
    <2>1. end \in Steps /\ end \in Idle
      BY DEF Steps, Idle
    <2> HIDE DEF end
    <2>2. run \in [Runners -> RunType]
      BY DEF IInv, TypeOK, RunType
    <2>3. run' = [run EXCEPT ![r].pc = end, ![r].refused = TRUE]
      BY <1>4 DEF end
    <2>4. run' \in [Runners -> RunType] /\ run'[r].pc \in Idle
      BY <2>1, <2>2, <2>3, RefusedType
    <2>5. TypeOK'
      <3>1. {hubUp, cookie, enabled}' \subseteq BOOLEAN
        BY <1>2 DEF IInv, TypeOK
      <3>2. QED
        BY <1>1, <1>2, <2>4, <3>1 DEF IInv, TypeOK, RunType, WgType
    <2>6. \A s \in Runners : run'[s].pc \in Idle
      BY <2>4 DEF Alone
    <2>7. QED
      BY <1>2, <2>5, <2>6, QuietIInv
  <1>5. QED
    BY <1>3, <1>4, FailMoves DEF Raise, RaiseFailsafe, Moves

-----------------------------------------------------------------------------
(* With one runner, an invariant about all of them is one about that one.  *)
LEMMA OneRunner == ASSUME Alone, NEW r \in Runners, TypeOK', KeepsIdentity',
                          run'[r].pc \in {"create", "recreate"} => hub' = <<>>,
                          run'[r].pc = "find" => Len(hub') = 1,
                          run'[r].pc \in {"download", "writing", "endpoint", "raise"} =>
                            hub' # <<>> /\ run'[r].pick = Pick',
                          run'[r].pc = "endpoint" => conf'.of = run'[r].pick,
                          run'[r].pc = "clamp" => conf'.of = Fallback,
                          run'[r].pc = "raise" => conf' = [of |-> run'[r].pick, raw |-> TRUE],
                          run'[r].pc = "failsafe" => conf' = [of |-> Fallback, raw |-> TRUE]
                   PROVE  IInv'
  <1>1. \A s \in Runners : s = r
    BY DEF Alone
  <1>2. HubInv' /\ PickInv' /\ ConfInv'
    BY <1>1 DEF HubInv, PickInv, ConfInv, At
  <1>3. RaisesItsPeer'
    BY <1>1 DEF RaisesItsPeer, At
  <1>4. QED
    BY <1>2, <1>3 DEF IInv

(* A run that has found its peer, or has found none, is still a run. *)
LEMMA PickType == ASSUME run \in [Runners -> RunType], NEW r \in Runners,
                         NEW pc \in Steps, NEW pick \in 0 .. MaxPeers,
                         run' = [run EXCEPT ![r].pc = pc, ![r].pick = pick]
                  PROVE  /\ run' \in [Runners -> RunType]
                         /\ run'[r].pc = pc /\ run'[r].pick = pick
  <1> DEFINE next == [[run[r] EXCEPT !.pc = pc] EXCEPT !.pick = pick]
  <1>1. run' = [run EXCEPT ![r] = next]
    OBVIOUS
  <1>2. [run[r] EXCEPT !.pc = pc] \in RunType
    BY DEF RunType
  <1>3. next \in RunType /\ next.pc = pc /\ next.pick = pick
    BY <1>2 DEF RunType
  <1> HIDE DEF next
  <1>4. QED
    BY <1>1, <1>3

(* A change of a run alone, or of wg0.conf with it, leaves types intact. *)
LEMMA HostType == ASSUME TypeOK, run' \in [Runners -> RunType],
                         conf' \in [of: Origins, raw: BOOLEAN],
                         UNCHANGED <<config, wg0, enabled, hub, hubUp, cookie>>
                  PROVE  TypeOK'
  BY DEF TypeOK, RunType

(* Listing the peers: one is picked, or there is none. *)
LEMMA ListIInv == ASSUME Alone, IInv, NEW r \in Runners, List(r) PROVE IInv'
  <1>1. hub \in Seq({Wanted, Other}) /\ Len(hub) <= MaxPeers /\ run \in [Runners -> RunType]
    BY DEF IInv, TypeOK, RunType
  <1>2. UNCHANGED <<onHost, hub, hubUp, cookie>> /\ Pick' = Pick
    BY DEF List, Pick, Preferred
  <1>3. KeepsIdentity'
    BY <1>2 DEF IInv, KeepsIdentity, onHost
  <1>4. CASE hub = <<>>
    <2>1. run' = [run EXCEPT ![r].pc = "create", ![r].pick = 0]
      BY <1>4 DEF List
    <2>2. run' \in [Runners -> RunType] /\ run'[r].pc = "create"
      <3>1. "create" \in Steps /\ 0 \in 0 .. MaxPeers
        BY DEF Steps
      <3>2. QED
        BY <1>1, <2>1, <3>1, PickType
    <2>3. TypeOK'
      BY <1>2, <2>2, HostType DEF onHost, IInv, TypeOK
    <2>4. QED
      BY <1>2, <1>3, <1>4, <2>2, <2>3, OneRunner
  <1>5. CASE hub # <<>>
    <2>1. run' = [run EXCEPT ![r].pc = "download", ![r].pick = Pick]
      BY <1>5 DEF List
    <2>2. Pick \in 0 .. MaxPeers
      BY <1>1, <1>5, PickIsAPeer
    <2>3. run' \in [Runners -> RunType] /\ run'[r].pc = "download" /\ run'[r].pick = Pick
      BY <1>1, <2>1, <2>2, PickType DEF Steps
    <2>4. TypeOK'
      BY <1>2, <2>3, HostType DEF onHost, IInv, TypeOK
    <2>5. QED
      BY <1>2, <1>3, <1>5, <2>3, <2>4, OneRunner
  <1>6. QED
    BY <1>4, <1>5

(* Creating a peer, at the first attempt or without the preferred address. *)
LEMMA CreateIInv == ASSUME Alone, IInv, NEW r \in Runners, Create(r) \/ Recreate(r)
                    PROVE  IInv'
  <1>1. hub = <<>> /\ run \in [Runners -> RunType]
    BY DEF IInv, HubInv, Create, Recreate, At, TypeOK, RunType
  <1>2. UNCHANGED <<onHost, hubUp, cookie>>
    BY DEF Create, Recreate
  <1>3. \/ hub' = hub /\ GoTo(r, "recreate")
        \/ Created(r, Wanted) \/ Created(r, Other)
    BY DEF Create, Recreate
  <1>4. conf.of \notin Ids
    BY <1>1 DEF IInv, KeepsIdentity
  <1>5. KeepsIdentity'
    BY <1>2, <1>4 DEF KeepsIdentity, onHost
  <1>6. CASE hub' = hub /\ GoTo(r, "recreate")
    <2>1. run' \in [Runners -> RunType] /\ run'[r].pc = "recreate"
      <3>1. "recreate" \in Steps
        BY DEF Steps
      <3>2. QED
        BY <1>6, <3>1, GoToType DEF IInv
    <2>2. TypeOK'
      BY <1>2, <1>6, <2>1, HostType DEF onHost, IInv, TypeOK
    <2>3. QED
      BY <1>1, <1>5, <1>6, <2>1, <2>2, OneRunner
  <1>7. CASE Created(r, Wanted) \/ Created(r, Other)
    <2>1. hub' \in Seq({Wanted, Other}) /\ Len(hub') = 1 /\ 1 <= MaxPeers
      <3>1. \A S : \A a \in S : Append(<<>>, a) \in Seq(S) /\ Len(Append(<<>>, a)) = 1
        OBVIOUS
      <3>2. Len(hub) < MaxPeers /\ (hub' = Append(hub, Wanted) \/ hub' = Append(hub, Other))
        BY <1>7 DEF Created
      <3>3. /\ Append(<<>>, Wanted) \in Seq({Wanted, Other}) /\ Len(Append(<<>>, Wanted)) = 1
            /\ Append(<<>>, Other) \in Seq({Wanted, Other}) /\ Len(Append(<<>>, Other)) = 1
        BY <3>1
      <3>4. 0 < MaxPeers
        BY <1>1, <3>2
      <3>5. hub' = Append(<<>>, Wanted) \/ hub' = Append(<<>>, Other)
        BY <1>1, <3>2
      <3>6. hub' \in Seq({Wanted, Other}) /\ Len(hub') = 1
        BY <3>3, <3>5
      <3>7. QED
        BY <3>4, <3>6
    <2>2. /\ run' \in [Runners -> RunType]
          /\ run'[r].pc \in {"find", "copy", "done", "restart"}
      <3>1. Moves(r, {"find", "copy", "done", "restart"})
        BY <1>7, FailMoves DEF Created, Moves
      <3>2. QED
        BY <3>1, MoveType DEF Steps, IInv
    <2>3. TypeOK'
      <3>1. {hubUp, cookie, enabled}' \subseteq BOOLEAN
        BY <1>2 DEF IInv, TypeOK, onHost
      <3>2. QED
        BY <1>2, <2>1, <2>2, <3>1 DEF onHost, IInv, TypeOK, RunType
    <2>4. QED
      BY <1>5, <2>1, <2>2, <2>3, OneRunner
  <1>8. QED
    BY <1>3, <1>6, <1>7

(* Finding the peer just created, which is the only one. *)
LEMMA FindIInv == ASSUME Alone, IInv, NEW r \in Runners, Find(r) PROVE IInv'
  <1>1. /\ hub \in Seq({Wanted, Other}) /\ Len(hub) = 1 /\ Len(hub) \in 0 .. MaxPeers
        /\ run \in [Runners -> RunType]
    BY DEF IInv, TypeOK, RunType, HubInv, Find
  <1>2. UNCHANGED <<onHost, hub, hubUp, cookie>> /\ Pick' = Pick /\ Pick = Len(hub)
    BY <1>1, PickOfOne DEF Find, Pick, Preferred
  <1>3. KeepsIdentity'
    BY <1>2 DEF IInv, KeepsIdentity, onHost
  <1>4. run' = [run EXCEPT ![r].pc = "download", ![r].pick = Len(hub)] /\ "download" \in Steps
    BY DEF Find, Steps
  <1>5. run' \in [Runners -> RunType] /\ run'[r].pc = "download" /\ run'[r].pick = Len(hub)
    BY <1>1, <1>4, PickType
  <1>6. TypeOK'
    BY <1>2, <1>5, HostType DEF onHost, IInv, TypeOK
  <1>7. hub' # <<>>
    BY <1>1, <1>2
  <1>8. QED
    BY <1>2, <1>3, <1>5, <1>6, <1>7, OneRunner

(* The beginning of a download: wg0.conf is torn. *)
LEMMA DownloadIInv == ASSUME Alone, IInv, NEW r \in Runners, Download(r) PROVE IInv'
  <1>1. run' \in [Runners -> RunType] /\ run'[r].pc = "writing" /\ run'[r].pick = run[r].pick
    <2>1. "writing" \in Steps
      BY DEF Steps
    <2>2. QED
      BY <2>1, GoToType DEF Download, IInv
  <1>2. hub # <<>> /\ run[r].pick = Pick /\ Pick' = Pick
    BY DEF IInv, PickInv, Download, At, Pick, Preferred
  <1>3. TypeOK'
    <2>1. conf' \in [of: Origins, raw: BOOLEAN]
      BY DEF Download
    <2>2. QED
      BY <1>1, <2>1, HostType DEF Download, IInv
  <1>4. KeepsIdentity'
    BY DEF Download, KeepsIdentity
  <1>5. QED
    BY <1>1, <1>2, <1>3, <1>4, OneRunner DEF Download

(* The end of a download: wg0.conf is of the picked peer, or it stays torn. *)
LEMMA EndDownloadIInv == ASSUME Alone, IInv, NEW r \in Runners, EndDownload(r) PROVE IInv'
  <1> USE DEF EndDownload
  <1>1. hub # <<>> /\ run[r].pick = Pick /\ Pick' = Pick /\ run[r].pick \in Origins
    <2>1. run[r].pick \in 0 .. MaxPeers
      BY DEF IInv, TypeOK
    <2>2. hub # <<>> /\ run[r].pick = Pick
      BY DEF IInv, PickInv, At
    <2>3. Pick' = Pick
      BY DEF Pick, Preferred
    <2>4. QED
      BY <2>1, <2>2, <2>3
  <1>2. CASE conf' = [of |-> run[r].pick, raw |-> FALSE] /\ GoTo(r, "endpoint")
    <2>1. "endpoint" \in Steps
      BY DEF Steps
    <2>2. run' \in [Runners -> RunType] /\ run'[r].pc = "endpoint" /\ run'[r].pick = run[r].pick
      BY <1>2, <2>1, GoToType DEF IInv
    <2>3. conf' \in [of: Origins, raw: BOOLEAN]
      <3>1. \A p \in Origins : [of |-> p, raw |-> FALSE] \in [of: Origins, raw: BOOLEAN]
        OBVIOUS
      <3>2. QED
        BY <1>1, <1>2, <3>1
    <2>4. TypeOK'
      BY <2>2, <2>3, HostType DEF IInv
    <2>5. KeepsIdentity'
      BY <1>1, <1>2 DEF KeepsIdentity
    <2>6. QED
      BY <1>1, <1>2, <2>2, <2>4, <2>5, OneRunner
  <1>3. CASE UNCHANGED conf /\ Fail(r)
    <2>1. Moves(r, {"copy", "done", "restart"})
      BY <1>3, FailMoves
    <2>2. UNCHANGED <<config, conf, hub, hubUp, wg0, cookie, enabled>>
      BY <1>3
    <2>3. QED
      BY <2>1, <2>2, MoveIInv, RaisedType DEF Idle, IInv, TypeOK
  <1>4. QED
    BY <1>2, <1>3

(* Writing the raw IP into wg0.conf, on either path. *)
LEMMA SetEndpointIInv == ASSUME Alone, IInv, NEW r \in Runners, SetEndpoint(r) PROVE IInv'
  <1> DEFINE next == IF At(r, "endpoint") THEN "raise" ELSE "failsafe"
  <1>1. next \in Steps /\ GoTo(r, next)
    BY DEF SetEndpoint, Steps
  <1> HIDE DEF next
  <1>2. run' \in [Runners -> RunType] /\ run'[r].pc = next /\ run'[r].pick = run[r].pick
    BY <1>1, GoToType DEF IInv
  <1>3. UNCHANGED <<config, wg0, enabled, hub, hubUp, cookie>> /\ Pick' = Pick
    BY DEF SetEndpoint, Pick, Preferred
  <1>4. conf \in [of: Origins, raw: BOOLEAN] /\ conf' \in [of: Origins, raw: BOOLEAN]
    BY DEF SetEndpoint, IInv, TypeOK
  <1>5. conf'.of = conf.of
    BY <1>4 DEF SetEndpoint
  <1>6. TypeOK'
    BY <1>2, <1>3, <1>4, HostType DEF IInv
  <1>7. KeepsIdentity'
    BY <1>3, <1>5 DEF IInv, KeepsIdentity
  <1>8. conf.of # Torn => conf' = [of |-> conf.of, raw |-> TRUE]
    BY <1>4 DEF SetEndpoint
  <1>9. CASE At(r, "endpoint")
    <2>1. next = "raise" /\ run[r].pick \in 0 .. MaxPeers
      BY <1>9 DEF next, IInv, TypeOK
    <2>2. hub # <<>> /\ run[r].pick = Pick /\ conf.of = run[r].pick
      BY <1>9 DEF IInv, PickInv, ConfInv, At
    <2>3. conf' = [of |-> run[r].pick, raw |-> TRUE]
      BY <1>8, <2>1, <2>2
    <2>4. QED
      BY <1>2, <1>3, <1>6, <1>7, <2>1, <2>2, <2>3, OneRunner
  <1>10. CASE At(r, "clamp")
    <2>1. next = "failsafe"
      BY <1>10 DEF next, At
    <2>2. conf' = [of |-> Fallback, raw |-> TRUE]
      BY <1>8, <1>10 DEF IInv, ConfInv
    <2>3. QED
      BY <1>2, <1>6, <1>7, <2>1, <2>2, OneRunner
  <1>11. QED
    BY <1>9, <1>10 DEF SetEndpoint, At

(* Copying the fallback over wg0.conf. *)
LEMMA CopyIInv == ASSUME Alone, IInv, NEW r \in Runners, CopyFallback(r) PROVE IInv'
  <1>1. run' \in [Runners -> RunType] /\ run'[r].pc = "clamp"
    <2>1. "clamp" \in Steps
      BY DEF Steps
    <2>2. QED
      BY <2>1, GoToType DEF CopyFallback, IInv
  <1>2. TypeOK'
    <2>1. conf' \in [of: Origins, raw: BOOLEAN]
      BY DEF CopyFallback
    <2>2. QED
      BY <1>1, <2>1, HostType DEF CopyFallback, IInv
  <1>3. KeepsIdentity' /\ conf'.of = Fallback
    BY DEF CopyFallback, KeepsIdentity
  <1>4. QED
    BY <1>1, <1>2, <1>3, OneRunner

-----------------------------------------------------------------------------
(* The user, the hub and a boot. *)
LEMMA SurroundingsIInv == ASSUME Alone, IInv, EditConfig \/ HubChanges \/ Reboot PROVE IInv'
  <1>1. CASE EditConfig \/ HubChanges
    <2>1. UNCHANGED <<conf, hub, run, wg0, enabled, cookie>> /\ Pick' = Pick
      <3>1. UNCHANGED <<conf, hub, run, wg0, enabled, cookie>>
        BY <1>1 DEF EditConfig, HubChanges, onHost
      <3>2. QED
        BY <3>1 DEF Pick, Preferred
    <2>2. TypeOK'
      <3>1. config' \in {"missing", "disabled", "enabled"} /\ hubUp' \in BOOLEAN
        BY <1>1 DEF EditConfig, HubChanges, onHost, IInv, TypeOK
      <3>2. {hubUp, cookie, enabled}' \subseteq BOOLEAN
        BY <2>1, <3>1 DEF IInv, TypeOK
      <3>3. QED
        BY <2>1, <3>1, <3>2 DEF IInv, TypeOK
    <2>3. HubInv' /\ PickInv' /\ ConfInv' /\ RaisesItsPeer' /\ KeepsIdentity'
      BY <2>1 DEF IInv, HubInv, PickInv, ConfInv, RaisesItsPeer, KeepsIdentity, At
    <2>4. QED
      BY <2>2, <2>3 DEF IInv
  <1>2. CASE Reboot
    <2>1. UNCHANGED <<config, conf, enabled, hub, hubUp>> /\ cookie' = FALSE
      BY <1>2 DEF Reboot
    <2>2. wg0' \in WgType
      <3>1. conf.of \in Origins
        BY DEF IInv, TypeOK
      <3>2. Fresh \in WgType
        BY <3>1 DEF Fresh, WgType
      <3>3. QED
        BY <1>2, <3>2, RaisedType DEF Reboot, IInv
    <2>3. NewRun \in RunType /\ NewRun.pc = "new"
      BY DEF NewRun, RunType, Steps
    <2>4. \A r \in Runners : run[r] \in RunType
      BY DEF IInv, TypeOK, RunType
    <2>5. \A r \in Runners : run'[r] = NewRun \/ (run'[r] = run[r] /\ run[r].pc = "done")
      BY <1>2 DEF Reboot, At
    <2>6. run' \in [Runners -> RunType]
      BY <1>2, <2>3, <2>4 DEF Reboot
    <2>7. \A r \in Runners : run'[r].pc \in Idle
      BY <2>3, <2>5 DEF Idle
    <2>8. TypeOK'
      <3>1. {hubUp, cookie, enabled}' \subseteq BOOLEAN
        BY <2>1 DEF IInv, TypeOK
      <3>2. QED
        BY <2>1, <2>2, <2>6, <3>1 DEF IInv, TypeOK, RunType, WgType
    <2>9. QED
      BY <2>1, <2>7, <2>8, QuietIInv
  <1>3. QED
    BY <1>1, <1>2

(* Every step of runs that follow each other keeps the invariant. *)
LEMMA NextIInv == ASSUME Alone, IInv, [Next]_vars PROVE IInv'
  <1>1. ASSUME NEW r \in Runners, Script(r) PROVE IInv'
    <2>1. CASE Start(r) \/ ReadConfig(r)
      BY <2>1, StartIInv, ReadConfigIInv
    <2>2. CASE HubAnswers(r) \/ Sleep(r) \/ StopWaiting(r) \/ StartTimesOut(r)
      BY <2>2, WaitIInv
    <2>3. CASE \/ Login(r) \/ Persist(r) \/ Verify(r)
               \/ \E pc \in {"list", "create", "recreate", "find", "download"} : Refused(r, pc)
      BY <2>3, QuietStepsIInv DEF Steps
    <2>4. CASE List(r) \/ Create(r) \/ Recreate(r) \/ Find(r)
      BY <2>4, ListIInv, CreateIInv, FindIInv
    <2>5. CASE Download(r) \/ EndDownload(r) \/ SetEndpoint(r) \/ CopyFallback(r)
      BY <2>5, DownloadIInv, EndDownloadIInv, SetEndpointIInv, CopyIInv
    <2>6. CASE Raise(r) \/ RaiseFailsafe(r)
      BY <2>6, RaiseIInv
    <2>7. QED
      BY <1>1, <2>1, <2>2, <2>3, <2>4, <2>5, <2>6 DEF Script
  <1>2. ASSUME NEW r \in Runners, Kill(r) PROVE IInv'
    BY <1>2, QuietStepsIInv
  <1>3. CASE EditConfig \/ HubChanges \/ Reboot
    BY <1>3, SurroundingsIInv
  <1>4. CASE UNCHANGED vars
    <2>1. TypeOK' /\ HubInv' /\ PickInv' /\ ConfInv'
      BY <1>4 DEF IInv, vars, TypeOK, HubInv, PickInv, ConfInv, At, Pick, Preferred
    <2>2. RaisesItsPeer' /\ KeepsIdentity'
      BY <1>4 DEF IInv, vars, RaisesItsPeer, KeepsIdentity, At, Pick, Preferred
    <2>3. QED
      BY <2>1, <2>2 DEF IInv
  <1>5. QED
    BY <1>1, <1>2, <1>3, <1>4 DEF Next

(* No step of runs that follow each other adds a peer to one that exists. *)
LEMMA NextNeverDuplicates == ASSUME IInv, [Next]_vars, hub # <<>> PROVE hub' = hub
  <1>1. ASSUME NEW r \in Runners, Script(r) PROVE hub' = hub
    <2>1. ~Create(r) /\ ~Recreate(r)
      BY DEF IInv, HubInv, Create, Recreate, At
    <2>2. CASE Start(r) \/ ReadConfig(r) \/ HubAnswers(r) \/ Sleep(r) \/ StopWaiting(r)
                 \/ StartTimesOut(r) \/ Login(r) \/ List(r) \/ Find(r)
      BY <2>2 DEF Start, ReadConfig, HubAnswers, Sleep, StopWaiting, StartTimesOut,
                  Login, List, Find
    <2>3. CASE \E pc \in {"list", "create", "recreate", "find", "download"} : Refused(r, pc)
      BY <2>3 DEF Refused
    <2>4. CASE Download(r) \/ EndDownload(r) \/ SetEndpoint(r) \/ Raise(r) \/ Persist(r)
                 \/ Verify(r) \/ CopyFallback(r) \/ RaiseFailsafe(r)
      BY <2>4 DEF Download, EndDownload, SetEndpoint, Raise, Persist, Verify,
                  CopyFallback, RaiseFailsafe
    <2>5. QED
      BY <1>1, <2>1, <2>2, <2>3, <2>4 DEF Script
  <1>2. ASSUME NEW r \in Runners, Kill(r) PROVE hub' = hub
    BY <1>2 DEF Kill
  <1>3. CASE EditConfig \/ HubChanges \/ Reboot \/ UNCHANGED vars
    BY <1>3 DEF EditConfig, HubChanges, Reboot, vars
  <1>4. QED
    BY <1>1, <1>2, <1>3 DEF Next

-----------------------------------------------------------------------------
(* For any number of peers, any waits and any faults: the invariant holds  *)
(* of runs that follow each other.                                         *)
THEOREM Inductive == Alone => (Spec => []IInv)
  <1> SUFFICES ASSUME Alone
               PROVE  Spec => []IInv
    OBVIOUS
  <1>1. Init => IInv
    BY InitIInv
  <1>2. IInv /\ [Next]_vars => IInv'
    BY NextIInv
  <1>3. QED
    BY <1>1, <1>2, PTL DEF Spec

(* In particular every variable keeps its type. *)
THEOREM TypeCorrect == Alone => (Spec => []TypeOK)
  <1>1. IInv => TypeOK
    BY DEF IInv
  <1>2. QED
    BY <1>1, Inductive, PTL

(* A box whose runs follow each other never gets a second peer on the hub, *)
(* whatever replies are lost and wherever its runs are killed.             *)
THEOREM NoDuplicates == Alone => (Spec => NeverDuplicates)
  <1> SUFFICES ASSUME Alone
               PROVE  Spec => NeverDuplicates
    OBVIOUS
  <1>1. IInv /\ [Next]_vars => [hub # <<>> => hub' = hub]_vars
    BY NextNeverDuplicates
  <1>2. Spec => []IInv
    BY Inductive
  <1>3. QED
    BY <1>1, <1>2, PTL DEF Spec, NeverDuplicates

(* What such a run raises is the peer it picked or the whole fallback,     *)
(* with a raw IP for its endpoint.                                         *)
THEOREM RaisesOnlyItsPeer == Alone => (Spec => []RaisesItsPeer)
  <1>1. IInv => RaisesItsPeer
    BY DEF IInv
  <1>2. QED
    BY <1>1, Inductive, PTL

(* And wg0.conf is only ever of the peer that the next run would pick.     *)
THEOREM IdentityIsKept == Alone => (Spec => []KeepsIdentity)
  <1>1. IInv => KeepsIdentity
    BY DEF IInv
  <1>2. QED
    BY <1>1, Inductive, PTL

=============================================================================
