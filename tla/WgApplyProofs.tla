---------------------------- MODULE WgApplyProofs ----------------------------
(***************************************************************************)
(* The proofs about WgApply: its inductive invariant, and from it that an  *)
(* "ok" is backed by a finished run of that very request, that mixing two  *)
(* requests only ever pairs an id with a newer action, that the host never *)
(* goes backwards, and that the channel implements HostCall.               *)
(***************************************************************************)
EXTENDS WgApply, TLAPS

USE MaxRequestsAssumption DEF Ids, NoId, Actions, NoAction, Blank, IdleCaller, IdleHost

(* Every initial state satisfies the invariant. *)
LEMMA InitIInv == ASSUME Init PROVE IInv
  <1> USE DEF Init
  <1>1. TypeOK
    <2> USE DEF TypeOK
    <2>1. caller \in [Callers -> [pc: {"idle", "writing", "polling"}, id: 0 .. MaxRequests]]
      OBVIOUS
    <2>2. result \in [id: 0 .. MaxRequests, status: {"none", "ok", "error"}]
      OBVIOUS
    <2>3. host \in [pc: {"idle", "read_id", "read_action", "apply", "raise", "report"},
                    id: 0 .. MaxRequests, action: Actions \cup {NoAction}, ok: BOOLEAN]
      OBVIOUS
    <2>4. QED
      BY <2>1, <2>2, <2>3
  <1>2. CallerInv
    <2>1. \A c \in Callers : caller[c].pc = "idle"
      OBVIOUS
    <2>2. QED
      BY <2>1 DEF CallerInv
  <1>3. FileInv /\ OrderInv /\ MixInv
    BY DEF FileInv, OrderInv, MixInv
  <1>4. AnswerInv
    BY DEF AnswerInv
  <1>5. OkIsBacked /\ MixOnlyWithNewer
    BY DEF OkIsBacked, MixOnlyWithNewer
  <1>6. QED
    BY <1>1, <1>2, <1>3, <1>4, <1>5 DEF IInv

(* A call that takes its id and truncates the file keeps the invariant. *)
LEMMA BeginIInv == ASSUME IInv, NEW c \in Callers, NEW a \in Actions, Begin(c, a)
                   PROVE  IInv'
  <1> USE DEF IInv, Begin, LoopFree, Notify
  <1>1. TypeOK'
    <2> USE DEF TypeOK
    <2>1. (issued \in 0 .. MaxRequests /\ act \in [Ids -> Actions \cup {NoAction}])'
      OBVIOUS
    <2>2. (caller \in [Callers -> [pc: {"idle", "writing", "polling"}, id: 0 .. MaxRequests]])'
      OBVIOUS
    <2>3. (request \in [id: 0 .. MaxRequests, action: Actions \cup {NoAction}])'
      OBVIOUS
    <2>4. (trigger \in BOOLEAN)'
      OBVIOUS
    <2>5. QED
      BY <2>1, <2>2, <2>3, <2>4
  <1>2. FileInv'
    BY DEF TypeOK, FileInv
  <1>3. CallerInv'
    <2>1. /\ caller'[c] = [pc |-> "writing", id |-> issued + 1]
          /\ \A d \in Callers \ {c} : caller'[d] = caller[d] /\ caller[d].pc # "writing"
      BY DEF TypeOK
    <2>2. \A d \in Callers : caller[d].pc # "idle" =>
            caller[d].id \in 1 .. issued /\ reply[caller[d].id] = "none"
      BY DEF CallerInv
    <2>3. issued + 1 \in Ids /\ reply[issued + 1] = "none"
      BY DEF TypeOK, AnswerInv
    <2>4. ASSUME NEW x \in Callers, NEW y \in Callers, x # y, caller'[x].pc # "idle"
          PROVE  caller'[x].id # caller'[y].id
      <3>1. CASE x = c
        BY <2>1, <2>2, <2>4, <3>1 DEF TypeOK, CallerInv
      <3>2. CASE y = c
        BY <2>1, <2>2, <2>4, <3>2 DEF TypeOK
      <3>3. CASE x # c /\ y # c
        BY <2>1, <2>4, <3>3 DEF CallerInv
      <3>4. QED
        BY <3>1, <3>2, <3>3
    <2>5. \A x \in Callers :
            /\ caller'[x].pc = "writing" => caller'[x].id = issued'
            /\ caller'[x].pc # "idle" =>
                 caller'[x].id \in 1 .. issued' /\ reply'[caller'[x].id] = "none"
            /\ caller'[x].pc = "idle" => caller'[x].id = NoId
      BY <2>1, <2>2, <2>3 DEF TypeOK, CallerInv
    <2>6. QED
      BY <2>4, <2>5 DEF CallerInv
  <1>4. OrderInv'
    BY DEF TypeOK, OrderInv
  <1>5. MixInv'
    BY DEF TypeOK, MixInv, OrderInv
  <1>6. AnswerInv'
    BY DEF TypeOK, AnswerInv, HasRun
  <1>7. OkIsBacked'
    BY DEF TypeOK, OkIsBacked
  <1>8. MixOnlyWithNewer'
    <2>1. \A j \in 1 .. issued : act'[j] = act[j]
      BY DEF TypeOK
    <2>2. \A r \in runs : r.id \in 1 .. issued
      BY DEF TypeOK, OrderInv
    <2>3. QED
      BY <2>1, <2>2 DEF TypeOK, MixOnlyWithNewer
  <1>9. QED
    BY <1>1, <1>2, <1>3, <1>4, <1>5, <1>6, <1>7, <1>8

(* The write of the whole request keeps the invariant. *)
LEMMA FinishWriteIInv == ASSUME IInv, NEW c \in Callers, FinishWrite(c)
                         PROVE  IInv'
  <1> USE DEF IInv, FinishWrite, Notify
  <1>1. TypeOK'
    <2> USE DEF TypeOK, CallerInv, FileInv
    <2>1. (caller \in [Callers -> [pc: {"idle", "writing", "polling"}, id: 0 .. MaxRequests]])'
      OBVIOUS
    <2>2. (request \in [id: 0 .. MaxRequests, action: Actions \cup {NoAction}])'
      OBVIOUS
    <2>3. (trigger \in BOOLEAN)'
      OBVIOUS
    <2>4. QED
      BY <2>1, <2>2, <2>3
  <1>2. FileInv'
    BY DEF TypeOK, FileInv, CallerInv
  <1>3. CallerInv'
    BY DEF TypeOK, CallerInv
  <1>4. OrderInv'
    BY DEF TypeOK, OrderInv, CallerInv
  <1>5. MixInv'
    BY DEF TypeOK, MixInv
  <1>6. AnswerInv'
    BY DEF TypeOK, AnswerInv, HasRun
  <1>7. OkIsBacked'
    BY DEF TypeOK, OkIsBacked
  <1>8. MixOnlyWithNewer'
    BY DEF TypeOK, MixOnlyWithNewer
  <1>9. QED
    BY <1>1, <1>2, <1>3, <1>4, <1>5, <1>6, <1>7, <1>8

(* A call may end with "ok" only if that is backed; then it keeps the invariant. *)
LEMMA LeaveIInv == ASSUME IInv, NEW c \in Callers, NEW r \in {"ok", "error", "timeout"},
                          r = "ok" => HasRun(caller[c].id), caller[c].pc # "idle",
                          Leave(c, r), trigger' \in BOOLEAN
                   PROVE  IInv'
  <1> USE DEF IInv, Leave
  <1>1. TypeOK'
    <2> USE DEF TypeOK
    <2>1. (caller \in [Callers -> [pc: {"idle", "writing", "polling"}, id: 0 .. MaxRequests]])'
      OBVIOUS
    <2>2. (reply \in [Ids -> {"none", "ok", "error", "timeout"}])'
      OBVIOUS
    <2>3. QED
      BY <2>1, <2>2
  <1>2. FileInv'
    BY DEF TypeOK, FileInv
  <1>3. CallerInv'
    BY DEF TypeOK, CallerInv
  <1>4. OrderInv'
    BY DEF TypeOK, OrderInv
  <1>5. MixInv'
    BY DEF TypeOK, MixInv
  <1>6. AnswerInv'
    BY DEF TypeOK, AnswerInv, HasRun, CallerInv
  <1>7. OkIsBacked'
    BY DEF TypeOK, OkIsBacked, HasRun
  <1>8. MixOnlyWithNewer'
    BY DEF TypeOK, MixOnlyWithNewer
  <1>9. QED
    BY <1>1, <1>2, <1>3, <1>4, <1>5, <1>6, <1>7, <1>8

(* A return, and a write that fails, end a call. *)
LEMMA ReturnIInv == ASSUME IInv, NEW c \in Callers, NEW r \in {"ok", "error", "timeout"},
                           r = "ok" => HasRun(caller[c].id), Return(c, r)
                    PROVE  IInv'
  <1>1. caller[c].pc # "idle" /\ Leave(c, r)
    BY DEF Return
  <1>2. trigger' \in BOOLEAN
    BY DEF Return, IInv, TypeOK
  <1>3. QED
    BY <1>1, <1>2, LeaveIInv

LEMMA WriteFailsIInv == ASSUME IInv, NEW c \in Callers, WriteFails(c)
                        PROVE  IInv'
  <1>1. trigger' \in BOOLEAN
    BY DEF WriteFails, Notify, IInv, TypeOK
  <1>2. QED
    BY <1>1, LeaveIInv DEF WriteFails

(* The start of the service keeps the invariant. *)
LEMMA StartServiceIInv == ASSUME IInv, StartService
                          PROVE  IInv'
  <1> USE DEF IInv, StartService, hostOnly
  <1>1. TypeOK'
    BY DEF TypeOK
  <1>2. FileInv'
    BY DEF TypeOK, FileInv
  <1>3. CallerInv'
    BY DEF TypeOK, CallerInv
  <1>4. OrderInv'
    BY DEF TypeOK, OrderInv
  <1>5. MixInv'
    BY DEF TypeOK, MixInv
  <1>6. AnswerInv'
    BY DEF TypeOK, AnswerInv, HasRun
  <1>7. OkIsBacked'
    BY DEF TypeOK, OkIsBacked
  <1>8. MixOnlyWithNewer'
    BY DEF TypeOK, MixOnlyWithNewer
  <1>9. QED
    BY <1>1, <1>2, <1>3, <1>4, <1>5, <1>6, <1>7, <1>8

(* The first read of the script keeps the invariant. *)
LEMMA ReadIdIInv == ASSUME IInv, ReadId
                    PROVE  IInv'
  <1> USE DEF IInv, ReadId, hostOnly
  <1>1. TypeOK'
    BY DEF TypeOK
  <1>2. FileInv'
    BY DEF TypeOK, FileInv
  <1>3. CallerInv'
    BY DEF TypeOK, CallerInv
  <1>4. OrderInv'
    BY DEF TypeOK, OrderInv, FileInv
  <1>5. MixInv'
    BY DEF TypeOK, MixInv
  <1>6. AnswerInv'
    BY DEF TypeOK, AnswerInv, HasRun
  <1>7. OkIsBacked'
    BY DEF TypeOK, OkIsBacked
  <1>8. MixOnlyWithNewer'
    BY DEF TypeOK, MixOnlyWithNewer
  <1>9. QED
    BY <1>1, <1>2, <1>3, <1>4, <1>5, <1>6, <1>7, <1>8

(* The second read pairs the id with its own or a newer action. *)
LEMMA ReadActionIInv == ASSUME IInv, ReadAction
                        PROVE  IInv'
  <1> USE DEF IInv, ReadAction, hostOnly
  <1>1. TypeOK'
    BY DEF TypeOK
  <1>2. FileInv'
    BY DEF TypeOK, FileInv
  <1>3. CallerInv'
    BY DEF TypeOK, CallerInv
  <1>4. OrderInv'
    BY DEF TypeOK, OrderInv
  <1>5. MixInv'
    BY DEF TypeOK, MixInv, FileInv, OrderInv
  <1>6. AnswerInv'
    BY DEF TypeOK, AnswerInv, HasRun
  <1>7. OkIsBacked'
    BY DEF TypeOK, OkIsBacked
  <1>8. MixOnlyWithNewer'
    BY DEF TypeOK, MixOnlyWithNewer
  <1>9. QED
    BY <1>1, <1>2, <1>3, <1>4, <1>5, <1>6, <1>7, <1>8

(* The tear-down before an "up" keeps the invariant. *)
LEMMA TearDownIInv == ASSUME IInv, TearDown
                      PROVE  IInv'
  <1> USE DEF IInv, TearDown, hostOnly
  <1>1. TypeOK'
    BY DEF TypeOK
  <1>2. FileInv'
    BY DEF TypeOK, FileInv
  <1>3. CallerInv'
    BY DEF TypeOK, CallerInv
  <1>4. OrderInv'
    BY DEF TypeOK, OrderInv
  <1>5. MixInv'
    BY DEF TypeOK, MixInv
  <1>6. AnswerInv'
    BY DEF TypeOK, AnswerInv, HasRun
  <1>7. OkIsBacked'
    BY DEF TypeOK, OkIsBacked
  <1>8. MixOnlyWithNewer'
    BY DEF TypeOK, MixOnlyWithNewer
  <1>9. QED
    BY <1>1, <1>2, <1>3, <1>4, <1>5, <1>6, <1>7, <1>8

(* A finished wg-quick run is recorded under the id in the script's hands. *)
LEMMA RanIInv == ASSUME IInv, host.pc \in {"apply", "raise"},
                        NEW ok \in BOOLEAN, Ran(ok), wg0' \in BOOLEAN
                 PROVE  IInv'
  <1> DEFINE r0 == [id |-> host.id, action |-> host.action, ok |-> ok]
  <1> USE DEF IInv, Ran, hostOnly
  <1>11. /\ runs' = runs \cup {r0} /\ r0 \in [id: Ids, action: Actions, ok: BOOLEAN]
        /\ r0.id = host.id /\ r0.action = host.action /\ r0.ok = ok
        /\ r0 \in runs'
    BY DEF MixInv, TypeOK
  <1>10. /\ host' \in [pc: {"report"}, id: 0 .. MaxRequests, action: Actions \cup {NoAction}, ok: BOOLEAN]
        /\ host'.id = host.id /\ host'.ok = ok /\ host'.pc = "report"
    BY DEF TypeOK
  <1> HIDE DEF r0
  <1>1. TypeOK'
    BY <1>11, <1>10 DEF TypeOK
  <1>2. FileInv'
    BY DEF TypeOK, FileInv
  <1>3. CallerInv'
    BY DEF TypeOK, CallerInv
  <1>4. OrderInv'
    BY <1>11, <1>10 DEF TypeOK, OrderInv, MixInv
  <1>5. MixInv'
    BY <1>10 DEF MixInv
  <1>6. AnswerInv'
    BY <1>11, <1>10 DEF TypeOK, AnswerInv, HasRun
  <1>7. OkIsBacked'
    BY <1>11 DEF TypeOK, OkIsBacked
  <1>8. MixOnlyWithNewer'
    BY <1>11 DEF TypeOK, MixOnlyWithNewer, MixInv
  <1>9. QED
    BY <1>1, <1>2, <1>3, <1>4, <1>5, <1>6, <1>7, <1>8

(* wg-quick up and wg-quick down keep the invariant. *)
LEMMA BringIInv == ASSUME IInv, BringUp \/ BringDown
                   PROVE  IInv'
  <1>1. wg0' \in BOOLEAN /\ host.pc \in {"apply", "raise"}
    BY DEF BringUp, BringDown, IInv, TypeOK
  <1>2. Ran(TRUE) \/ Ran(FALSE)
    BY DEF BringUp, BringDown
  <1>3. QED
    BY <1>1, <1>2, RanIInv

(* The answer the script moves into place keeps the invariant. *)
LEMMA ReportIInv == ASSUME IInv, Report
                    PROVE  IInv'
  <1> USE DEF IInv, Report, hostOnly
  <1>1. TypeOK'
    BY DEF TypeOK
  <1>2. FileInv'
    BY DEF TypeOK, FileInv
  <1>3. CallerInv'
    BY DEF TypeOK, CallerInv
  <1>4. OrderInv'
    BY DEF TypeOK, OrderInv
  <1>5. MixInv'
    BY DEF TypeOK, MixInv
  <1>6. AnswerInv'
    BY DEF TypeOK, AnswerInv, HasRun
  <1>7. OkIsBacked'
    BY DEF TypeOK, OkIsBacked
  <1>8. MixOnlyWithNewer'
    BY DEF TypeOK, MixOnlyWithNewer
  <1>9. QED
    BY <1>1, <1>2, <1>3, <1>4, <1>5, <1>6, <1>7, <1>8

(* A webui that loses its calls keeps the invariant. *)
LEMMA WebuiRestartIInv == ASSUME IInv, WebuiRestart
                          PROVE  IInv'
  <1> USE DEF IInv, WebuiRestart
  <1>1. TypeOK'
    BY DEF TypeOK
  <1>2. FileInv'
    BY DEF TypeOK, FileInv
  <1>3. CallerInv'
    BY DEF TypeOK, CallerInv
  <1>4. OrderInv'
    BY DEF TypeOK, OrderInv
  <1>5. MixInv'
    BY DEF TypeOK, MixInv
  <1>6. AnswerInv'
    BY DEF TypeOK, AnswerInv, HasRun
  <1>7. OkIsBacked'
    BY DEF TypeOK, OkIsBacked
  <1>8. MixOnlyWithNewer'
    BY DEF TypeOK, MixOnlyWithNewer
  <1>9. QED
    BY <1>1, <1>2, <1>3, <1>4, <1>5, <1>6, <1>7, <1>8

(* A reboot, which keeps the files, keeps the invariant. *)
LEMMA RebootIInv == ASSUME IInv, Reboot
                    PROVE  IInv'
  <1> USE DEF IInv, Reboot
  <1>1. TypeOK'
    <2> USE DEF TypeOK
    <2>1. (caller \in [Callers -> [pc: {"idle", "writing", "polling"}, id: 0 .. MaxRequests]])'
      OBVIOUS
    <2>2. (host \in [pc: {"idle", "read_id", "read_action", "apply", "raise", "report"},
                     id: 0 .. MaxRequests, action: Actions \cup {NoAction}, ok: BOOLEAN])'
      OBVIOUS
    <2>3. QED
      BY <2>1, <2>2
  <1>2. FileInv'
    BY DEF TypeOK, FileInv
  <1>3. CallerInv'
    BY DEF TypeOK, CallerInv
  <1>4. OrderInv'
    BY DEF TypeOK, OrderInv
  <1>5. MixInv'
    BY DEF TypeOK, MixInv
  <1>6. AnswerInv'
    BY DEF TypeOK, AnswerInv, HasRun
  <1>7. OkIsBacked'
    BY DEF TypeOK, OkIsBacked
  <1>8. MixOnlyWithNewer'
    BY DEF TypeOK, MixOnlyWithNewer
  <1>9. QED
    BY <1>1, <1>2, <1>3, <1>4, <1>5, <1>6, <1>7, <1>8

(* A stuttering step keeps the invariant. *)
LEMMA StutterIInv == ASSUME IInv, UNCHANGED vars
                     PROVE  IInv'
  BY DEF vars, IInv, TypeOK, FileInv, CallerInv, OrderInv, MixInv, AnswerInv,
         HasRun, OkIsBacked, MixOnlyWithNewer

(* Every step keeps the invariant. *)
LEMMA NextIInv == IInv /\ [Next]_vars => IInv'
  <1> SUFFICES ASSUME IInv, [Next]_vars
               PROVE  IInv'
    OBVIOUS
  <1>1. ASSUME NEW c \in Callers, WebuiStep(c)
        PROVE  IInv'
    <2>1. ASSUME NEW a \in Actions, Begin(c, a)
          PROVE  IInv'
      BY <2>1, BeginIInv
    <2>2. CASE FinishWrite(c)
      BY <2>2, FinishWriteIInv
    <2>3. CASE PollAnswer(c)
      <3>1. result.status \in {"ok", "error"} /\ (result.status = "ok" => HasRun(caller[c].id))
        BY <2>3 DEF PollAnswer, Return, Leave, IInv, TypeOK, AnswerInv, CallerInv
      <3>2. QED
        BY <2>3, <3>1, ReturnIInv DEF PollAnswer
    <2>4. CASE TimeOut(c)
      BY <2>4, ReturnIInv DEF TimeOut
    <2>5. CASE WriteFails(c)
      BY <2>5, WriteFailsIInv
    <2>6. QED
      BY <1>1, <2>1, <2>2, <2>3, <2>4, <2>5 DEF WebuiStep
  <1>2. CASE HostStep
    BY <1>2, StartServiceIInv, ReadIdIInv, ReadActionIInv, TearDownIInv, BringIInv,
       ReportIInv DEF HostStep
  <1>3. CASE WebuiRestart
    BY <1>3, WebuiRestartIInv
  <1>4. CASE Reboot
    BY <1>4, RebootIInv
  <1>5. CASE UNCHANGED vars
    BY <1>5, StutterIInv
  <1>6. QED
    BY <1>1, <1>2, <1>3, <1>4, <1>5 DEF Next

-----------------------------------------------------------------------------
(* The inductive invariant holds in every reachable state, for any number  *)
(* of callers and requests and any faults.                                 *)
THEOREM Inductive == Spec => []IInv
  <1>1. Init => IInv
    BY InitIInv
  <1>2. IInv /\ [Next]_vars => IInv'
    BY NextIInv
  <1>3. QED
    BY <1>1, <1>2, PTL DEF Spec

(* Type correctness. *)
THEOREM TypeCorrect == Spec => []TypeOK
  <1>1. IInv => TypeOK
    BY DEF IInv
  <1>2. QED
    BY <1>1, Inductive, PTL

(* A call that returns ok is backed by a successful run made for it.       *)
THEOREM OkBacked == Spec => []OkIsBacked
  <1>1. IInv => OkIsBacked
    BY DEF IInv
  <1>2. QED
    BY <1>1, Inductive, PTL

(* The two reads can only pair an id with the action of a newer request.   *)
THEOREM MixingIsForward == Spec => []MixOnlyWithNewer
  <1>1. IInv => MixOnlyWithNewer
    BY DEF IInv
  <1>2. QED
    BY <1>1, Inductive, PTL

(* The host never runs wg-quick for a request older than one it has run.   *)
THEOREM HostGoesForward == Spec => NeverBackwards
  <1>1. IInv /\ [Next]_vars => [\A r \in runs' \ runs : \A q \in runs : q.id <= r.id]_vars
    <2> SUFFICES ASSUME IInv, Next, NEW r \in runs' \ runs, NEW q \in runs
                 PROVE  q.id <= r.id
      OBVIOUS
    <2>1. BringUp \/ BringDown
      BY DEF Next, WebuiStep, HostStep, Begin, FinishWrite, WriteFails, PollAnswer, TimeOut,
             Return, Leave, StartService, ReadId, ReadAction, TearDown, Report, WebuiRestart, Reboot
    <2>2. r.id = host.id /\ host.pc \in {"apply", "raise"}
      BY <2>1 DEF BringUp, BringDown, Ran
    <2>3. QED
      BY <2>2 DEF IInv, OrderInv, MixInv
  <1>2. QED
    BY <1>1, Inductive, PTL DEF Spec, NeverBackwards

-----------------------------------------------------------------------------
(* Refinement. *)

(* What the abstract state is computed from determines it. *)
LEMMA SameMaps ==
  ASSUME UNCHANGED <<issued, reply, runs>>
  PROVE  UNCHANGED <<PhaseMap, DoneMap>>
  BY DEF PhaseMap, DoneMap, PhaseOf

(* A begun call is an Open of HostCall. *)
LEMMA BeginOpens ==
  ASSUME IInv, NEW c \in Callers, NEW a \in Actions, Begin(c, a)
  PROVE  Call!Open(issued + 1)
  <1> USE DEF IInv, Begin
  <1>1. issued + 1 \in Ids /\ issued' = issued + 1
    BY DEF TypeOK
  <1>2. reply' = reply /\ reply[issued + 1] = "none" /\ runs' = runs
    BY <1>1 DEF AnswerInv, TypeOK
  <1>3. PhaseMap[issued + 1] = "none"
    BY <1>1 DEF PhaseMap, PhaseOf, TypeOK
  <1>4. PhaseMap' = [PhaseMap EXCEPT ![issued + 1] = "open"]
    <2>1. ASSUME NEW i \in Ids
          PROVE  PhaseOf(i)' = IF i = issued + 1 THEN "open" ELSE PhaseOf(i)
      BY <1>1, <1>2 DEF PhaseOf, TypeOK
    <2>2. QED
      BY <1>1, <2>1 DEF PhaseMap
  <1>5. DoneMap' = DoneMap
    BY <1>2 DEF DoneMap
  <1>6. QED
    BY <1>3, <1>4, <1>5 DEF Call!Open

(* The end of a call is a ReturnOk of HostCall when it says "ok", else a    *)
(* ReturnFailed.                                                           *)
LEMMA LeaveReturns ==
  ASSUME IInv, NEW c \in Callers, NEW r \in {"ok", "error", "timeout"},
         r = "ok" => HasRun(caller[c].id), caller[c].pc # "idle", Leave(c, r)
  PROVE  \E i \in Ids : Call!ReturnOk(i) \/ Call!ReturnFailed(i)
  <1> DEFINE i == caller[c].id
  <1> USE DEF IInv, Leave
  <1>1. i \in Ids /\ i <= issued /\ reply[i] = "none"
    BY DEF CallerInv, TypeOK
  <1>2. issued' = issued /\ runs' = runs /\ reply' = [reply EXCEPT ![i] = r]
    OBVIOUS
  <1> HIDE DEF i
  <1>3. PhaseMap[i] = "open"
    BY <1>1 DEF PhaseMap, PhaseOf, TypeOK
  <1>4. PhaseMap' = [PhaseMap EXCEPT ![i] = IF r = "ok" THEN "ok" ELSE "failed"]
    <2>1. ASSUME NEW j \in Ids
          PROVE  PhaseOf(j)' = IF j = i THEN (IF r = "ok" THEN "ok" ELSE "failed")
                                        ELSE PhaseOf(j)
      BY <1>1, <1>2 DEF PhaseOf, TypeOK
    <2>2. QED
      BY <1>1, <2>1 DEF PhaseMap
  <1>5. DoneMap' = DoneMap
    BY <1>2 DEF DoneMap
  <1>6. r = "ok" => i \in DoneMap
    BY <1>1 DEF DoneMap, HasRun, i
  <1>7. QED
    BY <1>1, <1>3, <1>4, <1>5, <1>6 DEF Call!ReturnOk, Call!ReturnFailed

(* A wg-quick run is a CarryOut of HostCall, or nothing when it failed. *)
LEMMA RanCarriesOut ==
  ASSUME IInv, host.pc \in {"apply", "raise"}, NEW ok \in BOOLEAN, Ran(ok)
  PROVE  Call!CarryOut(host.id) \/ UNCHANGED <<PhaseMap, DoneMap>>
  <1> DEFINE r0 == [id |-> host.id, action |-> host.action, ok |-> ok]
  <1> USE DEF IInv, Ran, hostOnly
  <1>1. host.id \in Ids /\ host.id <= issued
    BY DEF MixInv, OrderInv, TypeOK
  <1>2. runs' = runs \cup {r0} /\ r0.id = host.id /\ r0.ok = ok
    OBVIOUS
  <1> HIDE DEF r0
  <1>3. PhaseMap' = PhaseMap
    BY DEF PhaseMap, PhaseOf
  <1>4. PhaseMap[host.id] # "none"
    BY <1>1 DEF PhaseMap, PhaseOf, TypeOK
  <1>5. CASE ok
    <2>1. DoneMap' = DoneMap \cup {host.id}
      BY <1>1, <1>2, <1>5 DEF DoneMap
    <2>2. QED
      BY <2>1, <1>3, <1>4 DEF Call!CarryOut
  <1>6. CASE ~ok
    <2>1. DoneMap' = DoneMap
      BY <1>2, <1>6 DEF DoneMap
    <2>2. QED
      BY <2>1, <1>3
  <1>7. QED
    BY <1>5, <1>6

(* Every step is a step of HostCall or leaves its variables alone. *)
LEMMA StepRefines ==
  ASSUME IInv, [Next]_vars
  PROVE  [Call!Next]_(Call!callVars)
  <1>1. ASSUME NEW c \in Callers, NEW a \in Actions, Begin(c, a)
        PROVE  Call!Next
    <2>1. issued + 1 \in Call!Ids
      BY <1>1 DEF Begin, IInv, TypeOK, Call!Ids
    <2>2. QED
      BY <1>1, <2>1, BeginOpens DEF Call!Next
  <1>2. ASSUME NEW c \in Callers, WriteFails(c) \/ PollAnswer(c) \/ TimeOut(c)
        PROVE  Call!Next
    <2>1. PICK r \in {"ok", "error", "timeout"} :
            /\ caller[c].pc # "idle" /\ Leave(c, r)
            /\ r = "ok" => HasRun(caller[c].id)
      <3>1. CASE PollAnswer(c)
        <4>1. result.status \in {"ok", "error"} /\ (result.status = "ok" => HasRun(caller[c].id))
          BY <3>1 DEF PollAnswer, Return, Leave, IInv, TypeOK, AnswerInv, CallerInv
        <4>2. QED
          BY <3>1, <4>1 DEF PollAnswer, Return
      <3>2. CASE TimeOut(c) \/ WriteFails(c)
        BY <3>2 DEF TimeOut, Return, WriteFails
      <3>3. QED
        BY <1>2, <3>1, <3>2
    <2>2. QED
      BY <2>1, LeaveReturns DEF Call!Next, Call!Ids
  <1>3. ASSUME BringUp \/ BringDown
        PROVE  [Call!Next]_(Call!callVars)
    <2>1. host.pc \in {"apply", "raise"} /\ (Ran(TRUE) \/ Ran(FALSE))
      BY <1>3 DEF BringUp, BringDown
    <2>2. host.id \in Call!Ids
      BY <2>1 DEF IInv, MixInv, TypeOK, Call!Ids
    <2>3. QED
      BY <2>1, <2>2, RanCarriesOut DEF Call!Next, Call!callVars
  <1>4. ASSUME \/ \E c \in Callers : FinishWrite(c)
               \/ StartService \/ ReadId \/ ReadAction \/ TearDown \/ Report
               \/ WebuiRestart \/ Reboot \/ UNCHANGED vars
        PROVE  UNCHANGED Call!callVars
    <2>1. UNCHANGED <<issued, reply, runs>>
      BY <1>4 DEF FinishWrite, StartService, ReadId, ReadAction, TearDown, Report,
                  WebuiRestart, Reboot, hostOnly, vars
    <2>2. QED
      BY <2>1, SameMaps DEF Call!callVars
  <1>5. QED
    BY <1>1, <1>2, <1>3, <1>4 DEF Next, WebuiStep, HostStep

(* The channel implements the abstract calls of HostCall.                  *)
THEOREM ChannelImplementsHostCall == Spec => ImplementsHostCall
  <1>1. Init => Call!Init
    <2>1. ASSUME Init
          PROVE  PhaseMap = [i \in Ids |-> "none"] /\ DoneMap = {}
      BY <2>1 DEF Init, PhaseMap, PhaseOf, DoneMap
    <2>2. QED
      BY <2>1 DEF Call!Init, Call!Ids
  <1>2. IInv /\ [Next]_vars => [Call!Next]_(Call!callVars)
    BY StepRefines
  <1>3. QED
    BY <1>1, <1>2, Inductive, PTL DEF Spec, ImplementsHostCall, Call!Spec

=============================================================================
