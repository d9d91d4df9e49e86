-------------------------- MODULE SaveRestoreProofs --------------------------
(***************************************************************************)
(* The proofs about SaveRestore: that no partial archive gets as far as    *)
(* the server, that an undisturbed restore puts every file of the archive  *)
(* into place, and, with docker answering, the webui not replaced and no   *)
(* exception escaping a restore, that the server is not left down.         *)
(***************************************************************************)
EXTENDS SaveRestore, TLAPS

(* Every archive there can be is one of the type. *)
LEMMA ArchiveTypes ==
  /\ Absent \in Archives /\ Partial \in Archives /\ Foreign \in Archives
  /\ \A t \in Trees : Whole(t) \in Archives
  /\ Uploads \subseteq Archives
  <1> USE MaxSavesAssumption DEF Files, NoFile, Trees, Archives
  <1>1. [f \in Files |-> NoFile] \in Trees
    OBVIOUS
  <1>2. Absent \in Archives
    BY <1>1 DEF Absent
  <1>3. Partial \in Archives /\ Foreign \in Archives
    BY <1>1 DEF Absent, Partial, Foreign
  <1>4. \A t \in Trees : Whole(t) \in Archives
    BY DEF Whole
  <1>5. [level |-> 0, player |-> NoFile] \in Trees
    OBVIOUS
  <1>6. QED
    BY <1>2, <1>3, <1>4, <1>5 DEF Uploads

(* The handler at rest is one of the type. *)
LEMMA IdleTypes ==
  /\ IdleWebui \in [pc: {"idle", "reading", "validate", "stop", "extract", "recover"},
                    src: Names, own: BOOLEAN, todo: SUBSET Files, got: Trees]
  /\ IdleOffen \in [pc: {"idle", "tar"}, stopped: BOOLEAN]
  BY MaxSavesAssumption DEF IdleWebui, IdleOffen, Names, Files, Trees, NoFile

-----------------------------------------------------------------------------
(* Type correctness. *)
LEMMA InitType == ASSUME Init PROVE TypeOK
  <1> USE MaxSavesAssumption DEF Init
  <1>1. tree \in Trees
    <2>1. PICK p \in {1, NoFile} : tree = [level |-> 1, player |-> p]
      OBVIOUS
    <2>2. p \in 0 .. NoFile /\ 1 \in 0 .. NoFile
      BY DEF NoFile
    <2>3. QED
      BY <2>1, <2>2 DEF Trees, Files
  <1>2. archive \in [Names -> Archives]
    BY ArchiveTypes
  <1>3. saves \in 0 .. MaxSaves
    OBVIOUS
  <1>4. running \in BOOLEAN /\ booting \in BOOLEAN /\ contended \in BOOLEAN
    OBVIOUS
  <1>5. offen = IdleOffen /\ webui = IdleWebui /\ reply = "none"
    OBVIOUS
  <1>6. QED
    BY <1>1, <1>2, <1>3, <1>4, <1>5, IdleTypes DEF TypeOK

(* What the handlers of a backup do keeps the types. *)
LEMMA SaveType ==
  ASSUME TypeOK,
         BeginSave \/ EndSave \/ SaveFails \/ (\E f \in Files : ReadFile(f))
  PROVE  TypeOK'
  <1> USE DEF TypeOK
  <1>1. CASE BeginSave
    BY <1>1, IdleTypes, ArchiveTypes DEF BeginSave, IdleWebui, Names
  <1>2. CASE EndSave
    BY <1>2, IdleTypes, ArchiveTypes DEF EndSave, Names
  <1>3. CASE SaveFails
    BY <1>3, IdleTypes, ArchiveTypes DEF SaveFails, Names
  <1>4. ASSUME NEW f \in Files, ReadFile(f)
        PROVE  TypeOK'
    <2>1. [webui.got EXCEPT ![f] = tree[f]] \in Trees
      BY <1>4 DEF Trees
    <2>2. QED
      BY <1>4, <2>1 DEF ReadFile
  <1>5. QED
    BY <1>1, <1>2, <1>3, <1>4

(* An answer keeps the types. *)
LEMMA AnswerType ==
  ASSUME TypeOK, NEW r \in {"restored", "invalid", "failed"}, Answer(r),
         running' \in BOOLEAN, contended' \in BOOLEAN
  PROVE  TypeOK'
  <1>1. Cleaned \in [Names -> Archives]
    BY ArchiveTypes DEF TypeOK, Cleaned, Names
  <1>2. QED
    BY <1>1, IdleTypes DEF TypeOK, Answer

(* What the handlers of a restore do keeps the types. *)
LEMMA RestoreType ==
  ASSUME TypeOK,
         \/ \E n \in Names : Restore(n)
         \/ \E a \in Uploads : Upload(a)
         \/ Refuse \/ Accept \/ StopServer \/ StartServer \/ ExtractFails \/ Recover
         \/ \E f \in Files : ExtractFile(f)
         \/ RestartServer
  PROVE  TypeOK'
  <1>1. ASSUME NEW n \in Names, Restore(n)
        PROVE  TypeOK'
    BY <1>1, IdleTypes DEF TypeOK, Restore, IdleWebui
  <1>2. ASSUME NEW a \in Uploads, Upload(a)
        PROVE  TypeOK'
    BY <1>2, IdleTypes, ArchiveTypes DEF TypeOK, Upload, IdleWebui, Names
  <1>3. CASE Refuse
    BY <1>3, AnswerType DEF Refuse, TypeOK
  <1>4. CASE Accept
    BY <1>4 DEF Accept, TypeOK
  <1>5. CASE StopServer
    BY <1>5 DEF StopServer, Docker, TypeOK
  <1>6. CASE StartServer
    BY <1>6, AnswerType DEF StartServer, Docker, TypeOK
  <1>7. CASE ExtractFails
    BY <1>7 DEF ExtractFails, TypeOK
  <1>8. CASE Recover
    BY <1>8, AnswerType DEF Recover, Docker, TypeOK
  <1>9. ASSUME NEW f \in Files, ExtractFile(f)
        PROVE  TypeOK'
    <2>1. archive[webui.src].files \in Trees
      BY DEF TypeOK, Archives
    <2>2. tree' \in Trees
      BY <1>9, <2>1 DEF TypeOK, ExtractFile, Trees
    <2>3. QED
      BY <1>9, <2>2 DEF TypeOK, ExtractFile
  <1>10. CASE RestartServer
    BY <1>10 DEF RestartServer, Docker, TypeOK
  <1>11. QED
    BY <1>1, <1>2, <1>3, <1>4, <1>5, <1>6, <1>7, <1>8, <1>9, <1>10

(* What the game, offen, docker and the faults do keeps the types. *)
LEMMA OtherType ==
  ASSUME TypeOK,
         GameSave \/ BackupBegins \/ BackupEnds \/ ReplaceWebui \/ Reboot \/ ComposeUp
  PROVE  TypeOK'
  <1>1. CASE GameSave
    <2>1. tree' \in Trees
      BY <1>1, MaxSavesAssumption DEF GameSave, TypeOK, Trees, NoFile
    <2>2. QED
      BY <1>1, <2>1, MaxSavesAssumption DEF GameSave, TypeOK
  <1>2. CASE BackupBegins
    BY <1>2 DEF BackupBegins, TypeOK
  <1>3. CASE BackupEnds
    BY <1>3, IdleTypes DEF BackupEnds, Contend, TypeOK
  <1>4. CASE ReplaceWebui \/ Reboot
    BY <1>4, IdleTypes DEF ReplaceWebui, Reboot, TypeOK
  <1>5. CASE ComposeUp
    BY <1>5 DEF ComposeUp, Contend, TypeOK
  <1>6. QED
    BY <1>1, <1>2, <1>3, <1>4, <1>5

(* A step of the specification keeps the types. *)
LEMMA TypeStep == ASSUME TypeOK, [Next]_vars PROVE TypeOK'
  <1>1. CASE UNCHANGED vars
    BY <1>1 DEF TypeOK, vars
  <1>2. CASE Next
    BY <1>2, SaveType, RestoreType, OtherType DEF Next, Handler
  <1>3. QED
    BY <1>1, <1>2

(* The state of saving and restoring stays in its types: the handlers hold *)
(* only archives and trees that there are (main.py:736-848).               *)
THEOREM TypeCorrect == Spec => []TypeOK
  <1>1. Init => TypeOK
    BY InitType
  <1>2. TypeOK /\ [Next]_vars => TypeOK'
    BY TypeStep
  <1>3. QED
    BY <1>1, <1>2, PTL DEF Spec

-----------------------------------------------------------------------------
(* No step takes a partial archive past its validation, and none changes   *)
(* the archive that is being restored. *)
LEMMA PartialStep ==
  ASSUME TypeOK, NeverFromPartial, [Next]_vars
  PROVE  NeverFromPartial'
  <1> USE DEF NeverFromPartial
  <1>1. ASSUME webui' = IdleWebui
        PROVE  NeverFromPartial'
    BY <1>1 DEF IdleWebui
  <1>2. CASE BeginSave \/ (\E n \in Names : Restore(n)) \/ (\E a \in Uploads : Upload(a))
    BY <1>2 DEF BeginSave, Restore, Upload, IdleWebui
  <1>3. CASE \E f \in Files : ReadFile(f)
    BY <1>3 DEF ReadFile, TypeOK
  <1>4. CASE Accept
    BY <1>4 DEF Accept, TypeOK
  <1>5. CASE StopServer \/ ExtractFails \/ (\E f \in Files : ExtractFile(f))
    BY <1>5 DEF StopServer, ExtractFails, ExtractFile, TypeOK
  <1>6. CASE \/ GameSave \/ RestartServer \/ BackupBegins \/ BackupEnds \/ ComposeUp
             \/ UNCHANGED vars
    BY <1>6 DEF GameSave, RestartServer, BackupBegins, BackupEnds, ComposeUp, vars
  <1>7. CASE EndSave \/ SaveFails \/ Refuse \/ StartServer \/ Recover \/ ReplaceWebui \/ Reboot
    BY <1>7, <1>1 DEF EndSave, SaveFails, Refuse, StartServer, Recover, Answer,
                      ReplaceWebui, Reboot
  <1>8. QED
    BY <1>2, <1>3, <1>4, <1>5, <1>6, <1>7 DEF Next, Handler

(* However an archive came to be cut short, a restore from it is refused   *)
(* before the server is stopped or a save is touched (main.py:860-893).    *)
THEOREM PartialRefused == Spec => []NeverFromPartial
  <1>1. Init => NeverFromPartial
    BY DEF Init, IdleWebui, NeverFromPartial
  <1>2. TypeOK /\ NeverFromPartial /\ [Next]_vars => NeverFromPartial'
    BY PartialStep
  <1>3. QED
    BY <1>1, <1>2, TypeCorrect, PTL DEF Spec

-----------------------------------------------------------------------------
(* What an extraction has still to write, and what it has written: while   *)
(* the server is down nobody else writes the tree.                         *)
Has(f) == archive[webui.src].files[f] # NoFile

ExtractInv ==
  /\ webui.pc \in {"stop", "extract"} =>
       \A f \in Files : Has(f) =>
         \/ f \in webui.todo
         \/ webui.pc = "extract" /\ (~contended => tree[f] = archive[webui.src].files[f])
  /\ webui.pc = "extract" /\ ~contended => ~running

(* A step that leaves the handler, the archives and the tree alone, and    *)
(* tells of a server that runs, keeps the invariant. *)
LEMMA ExtractBeside ==
  ASSUME ExtractInv, UNCHANGED <<webui, archive, tree>>,
         contended' \/ (~contended /\ (webui.pc = "extract" => ~running'))
           \/ webui.pc # "extract",
         contended => contended'
  PROVE  ExtractInv'
  BY DEF ExtractInv, Has

(* Every step keeps it. *)
LEMMA ExtractStep ==
  ASSUME TypeOK, ExtractInv, [Next]_vars
  PROVE  ExtractInv'
  <1>1. ASSUME webui'.pc \notin {"stop", "extract"}
        PROVE  ExtractInv'
    BY <1>1 DEF ExtractInv
  <1>2. CASE \/ BeginSave \/ EndSave \/ SaveFails \/ (\E f \in Files : ReadFile(f))
             \/ (\E n \in Names : Restore(n)) \/ (\E a \in Uploads : Upload(a))
             \/ Refuse \/ StartServer \/ ExtractFails \/ Recover \/ ReplaceWebui \/ Reboot
    <2>1. CASE BeginSave \/ (\E n \in Names : Restore(n)) \/ (\E a \in Uploads : Upload(a))
      BY <2>1, <1>1 DEF BeginSave, Restore, Upload, IdleWebui
    <2>2. CASE (\E f \in Files : ReadFile(f)) \/ ExtractFails
      BY <2>2, <1>1 DEF ReadFile, ExtractFails, TypeOK
    <2>3. CASE \/ EndSave \/ SaveFails \/ Refuse \/ StartServer \/ Recover
               \/ ReplaceWebui \/ Reboot
      <3>1. webui' = IdleWebui
        BY <2>3 DEF EndSave, SaveFails, Refuse, StartServer, Recover, ReplaceWebui,
                    Reboot, Answer
      <3>2. QED
        BY <3>1, <1>1 DEF IdleWebui
    <2>4. QED
      BY <1>2, <2>1, <2>2, <2>3
  <1>3. CASE Accept
    BY <1>3 DEF Accept, TypeOK, ExtractInv, Has
  <1>4. CASE StopServer
    BY <1>4 DEF StopServer, TypeOK, ExtractInv, Has
  <1>5. ASSUME NEW f \in Files, ExtractFile(f)
        PROVE  ExtractInv'
    BY <1>5 DEF ExtractFile, TypeOK, ExtractInv, Has, Trees
  <1>6. CASE GameSave
    <2>1. webui.pc = "extract" => contended
      BY <1>6 DEF GameSave, ExtractInv
    <2>2. QED
      BY <1>6, <2>1 DEF GameSave, ExtractInv, Has
  <1>7. CASE RestartServer
    BY <1>7 DEF RestartServer, ExtractInv
  <1>8. CASE BackupBegins
    BY <1>8, ExtractBeside DEF BackupBegins, TypeOK
  <1>9. CASE BackupEnds \/ ComposeUp
    BY <1>9, ExtractBeside DEF BackupEnds, ComposeUp, Contend, TypeOK
  <1>10. CASE UNCHANGED vars
    BY <1>10 DEF vars, ExtractInv, Has
  <1>11. QED
    BY <1>2, <1>3, <1>4, <1>5, <1>6, <1>7, <1>8, <1>9, <1>10 DEF Next, Handler

(* A restore is reported as done by StartServer alone, and only when       *)
(* nothing is left to write. *)
LEMMA DoneMeansStarted ==
  ASSUME [Next]_vars, webui.pc # "idle", reply' = "restored", reply # "restored"
  PROVE  StartServer
  <1>1. ~(BeginSave \/ (\E n \in Names : Restore(n)) \/ (\E a \in Uploads : Upload(a))
            \/ EndSave \/ SaveFails \/ Refuse \/ Recover)
    BY DEF BeginSave, Restore, Upload, EndSave, SaveFails, Refuse, Recover, Answer
  <1>2. ~(\/ \E f \in Files : ReadFile(f) \/ ExtractFile(f)
          \/ Accept \/ StopServer \/ ExtractFails \/ RestartServer \/ GameSave
          \/ BackupBegins \/ BackupEnds \/ ReplaceWebui \/ Reboot \/ ComposeUp
          \/ UNCHANGED vars)
    BY DEF ReadFile, ExtractFile, Accept, StopServer, ExtractFails, RestartServer,
           GameSave, BackupBegins, BackupEnds, ReplaceWebui, Reboot, ComposeUp, vars
  <1>3. QED
    BY <1>1, <1>2 DEF Next, Handler

(* A restore reported as done, with the server down throughout, has put    *)
(* every file of the archive into the tree, whatever saves, backups and    *)
(* failures came before (main.py:771-795).                                 *)
THEOREM RestoreComplete == Spec => RestoredIsTheArchive
  <1>1. Init => ExtractInv
    BY DEF Init, IdleWebui, ExtractInv
  <1>2. TypeOK /\ ExtractInv /\ [Next]_vars => ExtractInv'
    BY ExtractStep
  <1>3. ExtractInv /\ [Next]_vars =>
          [ webui.pc # "idle" /\ reply' = "restored" /\ reply # "restored" /\ ~contended =>
              \A f \in Files : LET g == archive[webui.src].files[f]
                               IN  g # NoFile => tree'[f] = g ]_vars
    <2> SUFFICES ASSUME ExtractInv, [Next]_vars, webui.pc # "idle",
                        reply' = "restored", reply # "restored", ~contended,
                        NEW f \in Files, Has(f)
                 PROVE  tree'[f] = archive[webui.src].files[f]
      BY DEF Has
    <2>1. StartServer
      BY DoneMeansStarted
    <2>2. QED
      BY <2>1 DEF StartServer, Answer, ExtractInv
  <1>4. QED
    BY <1>1, <1>2, <1>3, TypeCorrect, PTL DEF Spec, RestoredIsTheArchive

-----------------------------------------------------------------------------
(* Who will start a server that is down. *)
SomeoneStarts ==
  \/ running \/ booting
  \/ webui.pc \in {"extract", "recover"}
  \/ offen.pc = "tar" /\ offen.stopped

(* With docker answering, no exception escaping a restore and the webui    *)
(* not replaced, no step leaves a server that is down to nobody.           *)
LEMMA StartsStep ==
  ASSUME TypeOK, SomeoneStarts, [Next]_vars, "webui_restart" \notin Faults,
         "docker" \notin Faults, "escape" \notin Faults
  PROVE  SomeoneStarts'
  <1> USE DEF SomeoneStarts
  <1>1. CASE BeginSave \/ EndSave \/ SaveFails \/ (\E f \in Files : ReadFile(f))
    BY <1>1 DEF BeginSave, EndSave, SaveFails, ReadFile
  <1>2. CASE (\E n \in Names : Restore(n)) \/ (\E a \in Uploads : Upload(a)) \/ Refuse \/ Accept
    BY <1>2 DEF Restore, Upload, Refuse, Answer, Accept
  <1>3. CASE StopServer
    BY <1>3 DEF StopServer, TypeOK
  <1>4. CASE ExtractFails \/ (\E f \in Files : ExtractFile(f))
    BY <1>4 DEF ExtractFails, ExtractFile, TypeOK
  <1>5. CASE StartServer \/ Recover \/ RestartServer
    BY <1>5 DEF StartServer, Recover, RestartServer, Docker
  <1>6. CASE GameSave \/ ReplaceWebui \/ Reboot \/ ComposeUp \/ UNCHANGED vars
    BY <1>6 DEF GameSave, ReplaceWebui, Reboot, ComposeUp, vars
  <1>7. CASE BackupBegins
    <2>1. CASE running
      <3>1. offen'.pc = "tar" /\ offen'.stopped = running
        BY <1>7 DEF BackupBegins
      <3>2. QED
        BY <2>1, <3>1
    <2>2. CASE ~running
      BY <2>2, <1>7 DEF BackupBegins
    <2>3. QED
      BY <2>1, <2>2
  <1>8. CASE BackupEnds
    <2>1. running' = (running \/ offen.stopped)
      BY <1>8 DEF BackupEnds
    <2>2. QED
      BY <1>8, <2>1 DEF BackupEnds
  <1>9. QED
    BY <1>1, <1>2, <1>3, <1>4, <1>5, <1>6, <1>7, <1>8 DEF Next, Handler

(* As long as docker answers, extractions fail only in the ways main.py:788*)
(* catches and the webui is not replaced, the server is up whenever no     *)
(* handler, backup or boot is under way, however restores, their failures, *)
(* backups and reboots overlapped (main.py:789).                           *)
THEOREM ServerNotLeftDown ==
  ASSUME "webui_restart" \notin Faults, "docker" \notin Faults, "escape" \notin Faults
  PROVE  Spec => []NotLeftDown
  <1>1. Init => SomeoneStarts
    BY DEF Init, SomeoneStarts
  <1>2. TypeOK /\ SomeoneStarts /\ [Next]_vars => SomeoneStarts'
    BY StartsStep
  <1>3. SomeoneStarts => NotLeftDown
    BY DEF SomeoneStarts, NotLeftDown
  <1>4. QED
    BY <1>1, <1>2, <1>3, TypeCorrect, PTL DEF Spec

=============================================================================
