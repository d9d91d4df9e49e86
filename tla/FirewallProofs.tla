--------------------------- MODULE FirewallProofs ---------------------------
(* Proofs about module FirewallApply, for any number of calls and reboots. *)
EXTENDS FirewallApply, TLAPS

(* The type invariant holds initially and is kept by every step. *)
LEMMA TypeInit == Init => TypeOK
<1> SUFFICES ASSUME Init PROVE TypeOK
  OBVIOUS
<1> USE MaxCallsAssumption, MaxRebootsAssumption
<1>1. 0 \in Configs /\ Torn \in Configs
  BY DEF Configs, Saved
<1>2. Built(0) \in Rules
  <2>1. Built(0) = <<0, Drop>>
    BY DEF Built, Torn
  <2>2. 0 \in Saved \cup {Drop} /\ Drop \in Saved \cup {Drop}
    BY DEF Saved
  <2>3. \A S : \A a, b \in S : <<a, b>> \in Seq(S)
    OBVIOUS
  <2> QED
    BY <2>1, <2>2, <2>3 DEF Rules
<1>3. IdleJob \in [pc: Steps, ports: Configs, listed: Rules]
  BY <1>1 DEF IdleJob, Steps, Rules
<1>4. job \in [Units -> [pc: Steps, ports: Configs, listed: Rules]]
  BY <1>3 DEF Init
<1>5. webui \in [pc: {"idle", "saving", "saved", "asking", "polling"}, id: 0 .. MaxCalls]
  BY DEF Init, IdleWebui
<1>6. /\ config \in Configs /\ calls \in 0 .. MaxCalls
      /\ reply \in [Calls -> {"none", "ok", "error"}]
      /\ chain \in Rules /\ export \in Rules
      /\ reboots \in 0 .. MaxReboots /\ read \in Configs
  BY <1>1, <1>2 DEF Init
<1>7. moved = FALSE /\ trigger = FALSE /\ restored = TRUE /\ overlap = FALSE
  BY Zenon DEF Init
<1>8. {moved, trigger, restored, overlap} \subseteq BOOLEAN
  BY <1>7
<1>9. jumps \in Few /\ userDrops \in Few
  BY DEF Init, Few
<1> QED
  BY <1>4, <1>5, <1>6, <1>8, <1>9 DEF TypeOK

(* Rules may be appended to what is already in the chain. *)
LEMMA AppendRule ==
  ASSUME NEW s \in Rules, NEW r \in Saved \cup {Drop}
  PROVE  /\ Append(s, r) \in Rules
         /\ Append(s, r) # <<>>
         /\ Append(s, r)[Len(Append(s, r))] = r
  BY DEF Rules

(* Every step of the webui keeps the types. *)
LEMMA TypeWebui == TypeOK /\ Webui => TypeOK'
<1> SUFFICES ASSUME TypeOK, Webui PROVE TypeOK'
  OBVIOUS
<1> USE MaxCallsAssumption, MaxRebootsAssumption
<1>1. calls \in 0 .. MaxCalls /\ webui \in [pc: {"idle", "saving", "saved", "asking", "polling"}, id: 0 .. MaxCalls]
  BY DEF TypeOK
<1>2. config' \in Configs /\ calls' \in 0 .. MaxCalls
  <2>1. config \in Configs /\ webui.id \in Configs /\ Torn \in Configs
    BY <1>1 DEF TypeOK, Configs, Saved
  <2> QED
    BY <1>1, <2>1 DEF Webui, BeginSave, FinishSave, BeginApply, Ask, Asked, WriteFails,
       SeeExport, GiveUp, Return, NewCall
<1>6. {moved, trigger, restored, overlap}' \subseteq BOOLEAN
  BY DEF Webui, BeginSave, FinishSave, BeginApply, Ask, Asked, WriteFails, SeeExport,
         GiveUp, Return, NewCall, Notify, TypeOK, hostVars
<1>3. webui' \in [pc: {"idle", "saving", "saved", "asking", "polling"}, id: 0 .. MaxCalls]
  BY <1>1 DEF Webui, BeginSave, FinishSave, BeginApply, Ask, Asked, WriteFails,
         SeeExport, GiveUp, Return, NewCall, GoOn, IdleWebui
<1>4. reply' \in [Calls -> {"none", "ok", "error"}]
  BY DEF Webui, BeginSave, FinishSave, BeginApply, Ask, Asked, WriteFails, SeeExport,
         GiveUp, Return, NewCall, TypeOK
<1>5. UNCHANGED <<hostVars, reboots>>
  BY DEF Webui, BeginSave, FinishSave, BeginApply, Ask, Asked, WriteFails, SeeExport,
         GiveUp, Return, NewCall
<1> QED
  BY <1>2, <1>3, <1>4, <1>5, <1>6 DEF TypeOK, hostVars

(* Every step of the script keeps the types. *)
LEMMA TypeScript ==
  ASSUME TypeOK, NEW u \in Units, Script(u)
  PROVE  TypeOK'
<1> USE MaxCallsAssumption, MaxRebootsAssumption
<1>1. UNCHANGED <<webuiVars, trigger, restored, reboots, overlap>>
  BY DEF Script, Parse, Flush, Accept, Close, CheckJump, InsertJump, BlockPublished,
         OpenExport, ListChain, WriteExport, Step
<1>2. job \in [Units -> [pc: Steps, ports: Configs, listed: Rules]]
      /\ chain \in Rules /\ export \in Rules /\ config \in Configs
  BY DEF TypeOK
<1>3. job' \in [Units -> [pc: Steps, ports: Configs, listed: Rules]]
  <2>1. IdleJob \in [pc: Steps, ports: Configs, listed: Rules]
    BY DEF IdleJob, Steps, Configs, Rules
  <2> QED
    BY <1>2, <2>1 DEF Script, Parse, Flush, Accept, Close, CheckJump, InsertJump,
       BlockPublished, OpenExport, ListChain, WriteExport, Step, Steps
<1>4. chain' \in Rules
  <2>1. job[u].ports \in Configs
    BY <1>2
  <2>2. job[u].ports # Torn => Append(chain, job[u].ports) \in Rules
    BY <1>2, <2>1, AppendRule DEF Configs
  <2>3. Append(chain, Drop) \in Rules
    BY <1>2, AppendRule
  <2>4. <<>> \in Rules
    BY DEF Rules
  <2> QED
    BY <1>2, <2>2, <2>3, <2>4 DEF Script, Parse, Flush, Accept, Close, CheckJump,
       InsertJump, BlockPublished, OpenExport, ListChain, WriteExport
<1>5. export' \in Rules
  <2>1. <<>> \in Rules /\ job[u].listed \in Rules
    BY <1>2 DEF Rules
  <2> QED
    BY <1>2, <2>1 DEF Script, Parse, Flush, Accept, Close, CheckJump,
       InsertJump, BlockPublished, OpenExport, ListChain, WriteExport
<1>6. {moved, trigger, restored, overlap}' \subseteq BOOLEAN /\ read' \in Configs
  BY <1>1 DEF TypeOK, Script, Parse, Flush, Accept, Close, CheckJump, InsertJump,
         BlockPublished, OpenExport, ListChain, WriteExport
<1>7. jumps' \in Few /\ userDrops' \in Few
  <2>1. \A n \in Few : More(n) \in Few
    BY DEF Few, More
  <2>2. jumps \in Few /\ userDrops \in Few
    BY DEF TypeOK
  <2> QED
    BY <2>1, <2>2 DEF Script, Parse, Flush, Accept, Close, CheckJump, InsertJump,
       BlockPublished, OpenExport, ListChain, WriteExport
<1> QED
  BY <1>1, <1>3, <1>4, <1>5, <1>6, <1>7 DEF TypeOK, webuiVars

(* Every step keeps the types. *)
LEMMA TypeStep == TypeOK /\ [Next]_vars => TypeOK'
<1> SUFFICES ASSUME TypeOK, [Next]_vars PROVE TypeOK'
  OBVIOUS
<1> USE MaxCallsAssumption, MaxRebootsAssumption
<1>1. CASE Webui
  BY <1>1, TypeWebui
<1>2. CASE StartRequest \/ StartRestore
  <2>1. PICK u \in Units : Start(u)
    BY <1>2 DEF StartRequest, StartRestore, Units
  <2>2. job' \in [Units -> [pc: Steps, ports: Configs, listed: Rules]]
    BY <2>1 DEF Start, TypeOK, Steps
  <2>3. {moved, trigger, restored, overlap}' \subseteq BOOLEAN
    BY <1>2, <2>1 DEF StartRequest, StartRestore, Start, Alone, Idle, TypeOK
  <2> QED
    BY <2>1, <2>2, <2>3 DEF Start, TypeOK, webuiVars
<1>3. CASE \E u \in Units : Script(u)
  BY <1>3, TypeScript
<1>4. CASE ReplaceWebui
  <2>1. webui' \in [pc: {"idle", "saving", "saved", "asking", "polling"}, id: 0 .. MaxCalls]
    BY <1>4 DEF ReplaceWebui, IdleWebui
  <2> QED
    BY <1>4, <2>1 DEF ReplaceWebui, TypeOK, hostVars
<1>5. CASE Reboot
  <2>1. webui' \in [pc: {"idle", "saving", "saved", "asking", "polling"}, id: 0 .. MaxCalls]
    BY <1>5 DEF Reboot, IdleWebui
  <2>2. IdleJob \in [pc: Steps, ports: Configs, listed: Rules] /\ <<>> \in Rules
    BY DEF IdleJob, Steps, Configs, Rules
  <2>3. job' \in [Units -> [pc: Steps, ports: Configs, listed: Rules]] /\ chain' \in Rules
    BY <1>5, <2>2 DEF Reboot
  <2>4. reboots' \in 0 .. MaxReboots /\ jumps' \in Few /\ userDrops' \in Few
    BY <1>5 DEF Reboot, TypeOK, Few
  <2>5. {moved, trigger, restored, overlap}' \subseteq BOOLEAN
    BY <1>5 DEF Reboot, TypeOK
  <2> QED
    BY <1>5, <2>1, <2>3, <2>4, <2>5 DEF Reboot, TypeOK
<1>6. CASE UNCHANGED vars
  BY <1>6 DEF vars, TypeOK, webuiVars, hostVars
<1> QED
  BY <1>1, <1>2, <1>3, <1>4, <1>5, <1>6 DEF Next

(* The variables keep their types. *)
THEOREM TypeCorrect == Spec => []TypeOK
<1>1. Init => TypeOK
  BY TypeInit
<1>2. TypeOK /\ [Next]_vars => TypeOK'
  BY TypeStep
<1> QED
  BY <1>1, <1>2, PTL DEF Spec

-----------------------------------------------------------------------------
(* The closing invariant holds initially and is kept by every step. *)
LEMMA ClosedStep ==
  ASSUME TypeOK, ClosedInv, [Next]_vars
  PROVE  ClosedInv'
<1>1. CASE Webui \/ ReplaceWebui
  <2>1. UNCHANGED hostVars
    BY <1>1 DEF Webui, BeginSave, FinishSave, BeginApply, Ask, Asked, WriteFails,
       SeeExport, GiveUp, Return, NewCall, ReplaceWebui
  <2> QED
    BY <2>1 DEF hostVars, ClosedInv, Pending
<1>2. CASE StartRequest \/ StartRestore
  <2>1. PICK u \in Units : Start(u)
    BY <1>2 DEF StartRequest, StartRestore, Units
  <2>2. job'[u].pc = "parse"
    BY <2>1 DEF Start, TypeOK
  <2> QED
    BY <2>2 DEF ClosedInv, Pending
<1>3. ASSUME NEW u \in Units, Script(u)
      PROVE  ClosedInv'
  <2> DEFINE Last(s) == s # <<>> /\ s[Len(s)] = Drop
  <2>1. restored' = restored
    BY <1>3 DEF Script, Parse, Flush, Accept, Close, CheckJump, InsertJump,
       BlockPublished, OpenExport, ListChain, WriteExport, Step
  <2>2. \A v \in Units : v # u => job'[v].pc = job[v].pc
    BY <1>3 DEF TypeOK, Script, Parse, Flush, Accept, Close, CheckJump, InsertJump,
       BlockPublished, OpenExport, ListChain, WriteExport, Step
  <2>3. \/ job'[u].pc \in {"flush", "accept", "close"}
        \/ job[u].pc = "close" /\ job'[u].pc = "jump" /\ Last(chain') /\ jumps' = jumps
        \/ /\ job[u].pc \notin {"parse", "flush", "accept", "close"}
           /\ chain' = chain
           /\ \/ jumps' = jumps /\ job[u].pc # "insert"
                /\ (job[u].pc = "jump" => jumps > 0 \/ job'[u].pc = "insert")
              \/ jumps' = More(jumps) /\ job[u].pc = "insert"
    <3>1. CASE Parse(u) \/ Flush(u) \/ Accept(u)
      BY <3>1 DEF Parse, Flush, Accept, Step, TypeOK
    <3>2. CASE Close(u)
      BY <3>2, AppendRule DEF Close, Step, TypeOK
    <3>3. CASE CheckJump(u)
      BY <3>3 DEF CheckJump, Step, TypeOK, Few
    <3>4. CASE InsertJump(u)
      BY <3>4 DEF InsertJump, Step, TypeOK
    <3>5. CASE BlockPublished(u) \/ OpenExport(u) \/ ListChain(u) \/ WriteExport(u)
      BY <3>5 DEF BlockPublished, OpenExport, ListChain, WriteExport, Step, TypeOK
    <3> QED
      BY <1>3, <3>1, <3>2, <3>3, <3>4, <3>5 DEF Script
  <2>4. \A n \in Few : More(n) > 0
    BY DEF Few, More
  <2>5. jumps \in Few
    BY DEF TypeOK
  <2>6. CASE job'[u].pc \in {"flush", "accept", "close"}
    BY <2>6 DEF ClosedInv, Pending
  <2>7. CASE job[u].pc = "close" /\ job'[u].pc = "jump" /\ Last(chain') /\ jumps' = jumps
    BY <2>7 DEF ClosedInv, Pending
  <2>8. CASE /\ job[u].pc \notin {"parse", "flush", "accept", "close"}
             /\ chain' = chain
             /\ \/ jumps' = jumps /\ job[u].pc # "insert"
                  /\ (job[u].pc = "jump" => jumps > 0 \/ job'[u].pc = "insert")
                \/ jumps' = More(jumps) /\ job[u].pc = "insert"
    <3>1. (Pending({"parse", "flush", "accept", "close"}) \/ Last(chain))'
      BY <2>1, <2>2, <2>8 DEF ClosedInv, Pending
    <3>2. (Pending({"parse", "flush", "accept", "close", "jump", "insert"}) \/ jumps > 0)'
      BY <2>1, <2>2, <2>4, <2>5, <2>8 DEF ClosedInv, Pending
    <3> QED
      BY <3>1, <3>2 DEF ClosedInv
  <2> QED
    BY <2>3, <2>6, <2>7, <2>8
<1>4. CASE Reboot
  BY <1>4 DEF Reboot, ClosedInv, Pending
<1>5. CASE UNCHANGED vars
  BY <1>5 DEF vars, hostVars, ClosedInv, Pending
<1> QED
  BY <1>1, <1>2, <1>3, <1>4, <1>5 DEF Next

(* However the request unit and the restore unit overlap, the chain is     *)
(* closed by its DROP and INPUT jumps to it whenever no run is in progress.*)
THEOREM ChainIsClosed == Spec => []QuietIsClosed
<1>1. Init => ClosedInv
  BY MaxCallsAssumption DEF Init, ClosedInv, Built, Torn
<1>2. TypeOK /\ ClosedInv /\ [Next]_vars => ClosedInv'
  BY ClosedStep
<1>3. ClosedInv => QuietIsClosed
  BY DEF ClosedInv, Pending, QuietIsClosed, Quiet, Idle
<1> QED
  BY <1>1, <1>2, <1>3, TypeCorrect, PTL DEF Spec


-----------------------------------------------------------------------------
(* What a run that is alone has done so far is kept by its next step. *)
LEMMA LoneScript ==
  ASSUME TypeOK, LoneInv, NEW u \in Units, Script(u)
  PROVE  LoneInv'
<1> SUFFICES ASSUME ~overlap'
             PROVE  /\ \A v, w \in Units : ~Idle(v)' /\ ~Idle(w)' => v = w
                    /\ \A v \in Units : LoneStep(v)'
                    /\ Quiet' => chain' = Built(read') /\ export' = chain'
  BY DEF LoneInv
<1>1. ~overlap /\ ~Idle(u)
  BY DEF Script, Parse, Flush, Accept, Close, CheckJump, InsertJump,
     BlockPublished, OpenExport, ListChain, WriteExport, Step, Idle
<1>2. LoneStep(u) /\ \A v \in Units : v # u => job[v].pc = "idle"
  BY <1>1 DEF LoneInv, Idle
<1>3. \A v \in Units : v # u => job'[v] = job[v]
  BY DEF Script, Parse, Flush, Accept, Close, CheckJump, InsertJump,
     BlockPublished, OpenExport, ListChain, WriteExport, Step, TypeOK
<1>4. \A v \in Units : v # u => LoneStep(v)' /\ Idle(v)'
  BY <1>2, <1>3 DEF LoneStep, Idle
<1>5. LoneStep(u)' /\ (job'[u].pc = "idle" => chain' = Built(read') /\ export' = chain')
  <2>1. CASE Parse(u) \/ Flush(u)
    BY <2>1, <1>2 DEF Parse, Flush, Step, LoneStep, TypeOK
  <2>2. CASE Accept(u)
    <3>1. chain = <<>> /\ job[u].ports = read /\ read' = read /\ job'[u].ports = read
          /\ job'[u].pc = "close"
      BY <2>2, <1>2 DEF Accept, Step, LoneStep, TypeOK
    <3>2. chain' = IF read = Torn THEN <<>> ELSE <<read>>
      BY <2>2, <3>1 DEF Accept
    <3> QED
      BY <3>1, <3>2 DEF LoneStep
  <2>3. CASE Close(u)
    <3>1. /\ chain = IF read = Torn THEN <<>> ELSE <<read>>
          /\ job[u].ports = read /\ read' = read /\ job'[u].ports = read
          /\ job'[u].pc = "jump"
      BY <2>3, <1>2 DEF Close, Step, LoneStep, TypeOK
    <3>2. chain' = Built(read)
      BY <2>3, <3>1 DEF Close, Built
    <3> QED
      BY <3>1, <3>2 DEF LoneStep
  <2>4. CASE CheckJump(u) \/ InsertJump(u) \/ BlockPublished(u) \/ OpenExport(u)
    BY <2>4, <1>2 DEF CheckJump, InsertJump, BlockPublished, OpenExport, Step,
       LoneStep, TypeOK
  <2>5. CASE ListChain(u)
    BY <2>5, <1>2 DEF ListChain, LoneStep, TypeOK
  <2>6. CASE WriteExport(u)
    BY <2>6, <1>2 DEF WriteExport, LoneStep, TypeOK, IdleJob
  <2> QED
    BY <2>1, <2>2, <2>3, <2>4, <2>5, <2>6 DEF Script
<1> QED
  BY <1>4, <1>5 DEF Quiet, Idle

(* Every step keeps what is known of a run that is alone. *)
LEMMA LoneKept ==
  ASSUME TypeOK, LoneInv, [Next]_vars
  PROVE  LoneInv'
<1>1. CASE Webui \/ ReplaceWebui
  <2>1. UNCHANGED hostVars
    BY <1>1 DEF Webui, BeginSave, FinishSave, BeginApply, Ask, Asked, WriteFails,
       SeeExport, GiveUp, Return, NewCall, ReplaceWebui
  <2> QED
    BY <2>1 DEF hostVars, LoneInv, LoneStep, Quiet, Idle
<1>2. CASE StartRequest \/ StartRestore
  <2>1. PICK u \in Units : Start(u)
    BY <1>2 DEF StartRequest, StartRestore, Units
  <2> SUFFICES ASSUME ~overlap' PROVE LoneInv'
    BY DEF LoneInv
  <2>2. job'[u].pc = "parse" /\ \A v \in Units : v # u => job'[v].pc = "idle"
    BY <2>1 DEF Start, Alone, Idle, TypeOK
  <2> QED
    BY <2>2 DEF LoneInv, LoneStep, Quiet, Idle
<1>3. CASE \E u \in Units : Script(u)
  BY <1>3, LoneScript
<1>4. CASE Reboot
  BY <1>4 DEF Reboot, IdleJob, LoneInv, LoneStep, Quiet, Idle
<1>5. CASE UNCHANGED vars
  BY <1>5 DEF vars, hostVars, LoneInv, LoneStep, Quiet, Idle
<1> QED
  BY <1>1, <1>2, <1>3, <1>4, <1>5 DEF Next

(* A run of the script that no other run overlapped leaves exactly the     *)
(* chain of the configuration it read, and an export that shows it.        *)
THEOREM LoneRunCorrect == Spec => []LoneRunIsExact
<1>1. Init => LoneInv
  BY DEF Init, LoneInv, LoneStep, Quiet, Idle, IdleJob
<1>2. TypeOK /\ LoneInv /\ [Next]_vars => LoneInv'
  BY LoneKept
<1>3. LoneInv => LoneRunIsExact
  BY DEF LoneInv, LoneRunIsExact
<1> QED
  BY <1>1, <1>2, <1>3, TypeCorrect, PTL DEF Spec

=============================================================================
