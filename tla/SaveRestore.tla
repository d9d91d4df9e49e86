---------------------------- MODULE SaveRestore ----------------------------
(***************************************************************************)
(* Saving and restoring the world.  Three parties stop, start, read and    *)
(* write the same container and the same save tree: the webui's handlers   *)
(* (one at a time, they block the event loop), the offen backup container, *)
(* and the game.  A save tree is known by the save each file comes from.   *)
(***************************************************************************)
EXTENDS Naturals

CONSTANTS
  MaxSaves,     \* bound: saves the game makes in a behaviour
  Faults        \* which of "webui_restart", "reboot", "docker", "escape" (an exception
                \* the restore does not catch) may happen

ASSUME MaxSavesAssumption == MaxSaves \in Nat \ {0}

Files   == {"level", "player"}
NoFile  == MaxSaves + 1                 \* the tree or archive lacks the file
Trees   == [Files -> 0 .. NoFile]       \* 0: a world saved elsewhere
Names   == {"savefile", "upload", "nightly"}    \* the archives in BACKUP_DIR
Absent  == [state |-> "absent", files |-> [f \in Files |-> NoFile]]
Partial == [Absent EXCEPT !.state = "partial"]  \* cut short, or not a tar.gz
Foreign == [Absent EXCEPT !.state = "foreign"]  \* offen's: no SaveGames at the root
Whole(t) == [state |-> "whole", files |-> t]
Archives == [state: {"absent", "partial", "foreign", "whole"}, files: Trees]

(* What users upload: a broken file, or a world without that player.       *)
Uploads == {Partial, Whole([level |-> 0, player |-> NoFile])}

VARIABLES
  running,   \* the palworld container runs
  tree,      \* Pal/Saved/SaveGames
  saves,     \* how often the game has saved
  archive,   \* BACKUP_DIR
  webui,     \* the handler: where it is, which archive, the files to do, those done
  reply,     \* the last answer
  offen,     \* the backup container: does it tar, has it stopped palworld?
  booting,   \* ppsa-docker-compose.service has not run since the boot
  contended  \* palworld ran during this extraction (for the properties)

vars == <<running, tree, saves, archive, webui, reply, offen, booting, contended>>

IdleWebui == [pc |-> "idle", src |-> "savefile", own |-> FALSE, todo |-> {},
              got |-> [f \in Files |-> NoFile]]
IdleOffen == [pc |-> "idle", stopped |-> FALSE]

TypeOK ==
  /\ {running, booting, contended} \subseteq BOOLEAN
  /\ tree \in Trees /\ saves \in 0 .. MaxSaves
  /\ archive \in [Names -> Archives]
  /\ webui \in [pc: {"idle", "reading", "validate", "stop", "extract", "recover"},
                src: Names, own: BOOLEAN, todo: SUBSET Files, got: Trees]
  /\ reply \in {"none", "saved", "restored", "invalid", "failed"}
  /\ offen \in [pc: {"idle", "tar"}, stopped: BOOLEAN]

Init ==
  /\ running = TRUE
  /\ \E p \in {1, NoFile} : tree = [level |-> 1, player |-> p]
  /\ saves = 1
  /\ archive = [n \in Names |-> IF n = "nightly" THEN Foreign ELSE Absent]
  /\ webui = IdleWebui /\ reply = "none"
  /\ offen = IdleOffen
  /\ booting = FALSE /\ contended = FALSE

-----------------------------------------------------------------------------
(* The game saves when it likes, every file by an atomic rename.           *)
GameSave ==
  /\ running
  /\ saves < MaxSaves
  /\ saves' = saves + 1
  /\ tree' = [f \in Files |-> saves + 1]
  /\ UNCHANGED <<running, archive, webui, reply, offen, booting, contended>>

(* _run_docker turns every error into a string that no caller looks at.    *)
Docker(on) ==
  \/ running' = on
  \/ "docker" \in Faults /\ UNCHANGED running

Contend == contended' = (contended \/ (webui.pc = "extract" /\ running'))

-----------------------------------------------------------------------------
(* save_file_backup *)
BeginSave ==
  /\ webui.pc = "idle"
  /\ webui' = [IdleWebui EXCEPT !.pc = "reading", !.todo = {f \in Files : tree[f] # NoFile}]
  /\ archive' = [archive EXCEPT !["savefile"] = Partial]
  /\ reply' = "none"
  /\ UNCHANGED <<running, tree, saves, offen, booting, contended>>

ReadFile(f) ==
  /\ webui.pc = "reading"
  /\ f \in webui.todo
  /\ webui' = [webui EXCEPT !.todo = @ \ {f}, !.got[f] = tree[f]]
  /\ UNCHANGED <<running, tree, saves, archive, reply, offen, booting, contended>>

EndSave ==
  /\ webui.pc = "reading"
  /\ webui.todo = {}
  /\ archive' = [archive EXCEPT !["savefile"] = Whole(webui.got)]
  /\ webui' = IdleWebui
  /\ reply' = "saved"
  /\ UNCHANGED <<running, tree, saves, offen, booting, contended>>

(* Variant: the exception escapes the handler, the partial archive stays. *)
SaveFailsUncaught ==
  /\ webui.pc = "reading"
  /\ webui' = IdleWebui
  /\ reply' = "traceback"
  /\ UNCHANGED <<running, tree, saves, archive, offen, booting, contended>>

SaveFails ==            \* a file vanished, the disk is full: unlink and 500
  /\ webui.pc = "reading"
  /\ archive' = [archive EXCEPT !["savefile"] = Absent]
  /\ webui' = IdleWebui
  /\ reply' = "failed"
  /\ UNCHANGED <<running, tree, saves, offen, booting, contended>>

-----------------------------------------------------------------------------
(* restore_backup, restore_upload_backup and _do_restore *)
Cleaned == IF webui.own THEN [archive EXCEPT !["upload"] = Absent] ELSE archive

Answer(r) ==
  /\ webui' = IdleWebui
  /\ reply' = r
  /\ archive' = Cleaned
  /\ UNCHANGED <<tree, saves, offen, booting>>

Restore(n) ==
  /\ webui.pc = "idle"
  /\ archive[n].state # "absent"
  /\ webui' = [IdleWebui EXCEPT !.pc = "validate", !.src = n]
  /\ reply' = "none"
  /\ UNCHANGED <<running, tree, saves, archive, offen, booting, contended>>

Upload(a) ==
  /\ webui.pc = "idle"
  /\ archive' = [archive EXCEPT !["upload"] = a]
  /\ webui' = [IdleWebui EXCEPT !.pc = "validate", !.src = "upload", !.own = TRUE]
  /\ reply' = "none"
  /\ UNCHANGED <<running, tree, saves, offen, booting, contended>>

Refuse ==               \* 400; a gzip cut short escapes as an EOFError, a 500
  /\ webui.pc = "validate"
  /\ archive[webui.src].state # "whole"
  /\ \/ Answer("invalid")
     \/ archive[webui.src].state = "partial" /\ Answer("failed")
  /\ UNCHANGED <<running, contended>>

(* Variant: an archive is accepted unread. *)
AcceptAny ==
  /\ webui.pc = "validate"
  /\ webui' = [webui EXCEPT !.pc = "stop",
                            !.todo = {f \in Files : archive[webui.src].files[f] # NoFile}]
  /\ UNCHANGED <<running, tree, saves, archive, reply, offen, booting, contended>>

Accept ==
  /\ webui.pc = "validate"
  /\ archive[webui.src].state = "whole"
  /\ webui' = [webui EXCEPT !.pc = "stop",
                            !.todo = {f \in Files : archive[webui.src].files[f] # NoFile}]
  /\ UNCHANGED <<running, tree, saves, archive, reply, offen, booting, contended>>

StopServer ==
  /\ webui.pc = "stop"
  /\ Docker(FALSE)
  /\ webui' = [webui EXCEPT !.pc = "extract"]
  /\ contended' = running'
  /\ UNCHANGED <<tree, saves, archive, reply, offen, booting>>

ExtractFile(f) ==       \* extractall adds and overwrites, it removes nothing
  /\ webui.pc = "extract"
  /\ f \in webui.todo
  /\ tree' = [tree EXCEPT ![f] = archive[webui.src].files[f]]
  /\ webui' = [webui EXCEPT !.todo = @ \ {f}]
  /\ UNCHANGED <<running, saves, archive, reply, offen, booting, contended>>

(* Variant: success is reported before the last member is out. *)
StartEarly ==
  /\ webui.pc = "extract"
  /\ Docker(TRUE)
  /\ Answer("restored")
  /\ UNCHANGED contended

StartServer ==
  /\ webui.pc = "extract"
  /\ webui.todo = {}
  /\ Docker(TRUE)
  /\ Answer("restored")
  /\ UNCHANGED contended

ExtractFails ==         \* TarError, OSError, or something else
  /\ webui.pc = "extract"
  /\ webui' = [webui EXCEPT !.pc = "recover"]
  /\ UNCHANGED <<running, tree, saves, archive, reply, offen, booting, contended>>

(* Variant: the failed restore does not start the server again. *)
RecoverNothing ==
  /\ webui.pc = "recover"
  /\ Answer("failed")
  /\ UNCHANGED <<running, contended>>

Recover ==              \* anything else escapes, and the server stays down
  /\ webui.pc = "recover"
  /\ \/ Docker(TRUE)
     \/ "escape" \in Faults /\ UNCHANGED running
  /\ Answer("failed")
  /\ UNCHANGED contended

RestartServer ==        \* restart_palworld
  /\ webui.pc = "idle"
  /\ Docker(TRUE)
  /\ UNCHANGED <<tree, saves, archive, webui, reply, offen, booting, contended>>

-----------------------------------------------------------------------------
(* offen, on its schedule or by trigger_backup: stop what runs, tar, start *)
(* what it stopped.                                                        *)
BackupBegins ==
  /\ offen.pc = "idle"
  /\ offen' = [pc |-> "tar", stopped |-> running]
  /\ running' = FALSE
  /\ UNCHANGED <<tree, saves, archive, webui, reply, booting, contended>>

BackupEnds ==
  /\ offen.pc = "tar"
  /\ offen' = IdleOffen
  /\ running' = (running \/ offen.stopped)
  /\ Contend
  /\ UNCHANGED <<tree, saves, archive, webui, reply, booting>>

-----------------------------------------------------------------------------
(* Faults. *)
ReplaceWebui ==
  /\ "webui_restart" \in Faults
  /\ webui' = IdleWebui
  /\ UNCHANGED <<running, tree, saves, archive, reply, offen, booting, contended>>

Reboot ==       \* dockerd starts again what was not stopped on purpose
  /\ "reboot" \in Faults
  /\ webui' = IdleWebui /\ offen' = IdleOffen
  /\ booting' = TRUE
  /\ UNCHANGED <<running, tree, saves, archive, reply, contended>>

ComposeUp ==    \* ppsa-docker-compose.service: docker compose up -d
  /\ booting
  /\ booting' = FALSE
  /\ running' = TRUE
  /\ Contend
  /\ UNCHANGED <<tree, saves, archive, webui, reply, offen>>

Handler ==
  \/ BeginSave \/ EndSave \/ SaveFails
  \/ \E n \in Names : Restore(n)
  \/ \E a \in Uploads : Upload(a)
  \/ Refuse \/ Accept \/ StopServer \/ StartServer \/ ExtractFails \/ Recover
  \/ \E f \in Files : ReadFile(f) \/ ExtractFile(f)
  \/ RestartServer

Next ==
  \/ GameSave
  \/ Handler
  \/ BackupBegins \/ BackupEnds
  \/ ReplaceWebui \/ Reboot \/ ComposeUp

Spec == Init /\ [][Next]_vars

(* A handler that has begun runs on, a backup ends, and systemd runs the   *)
(* compose unit after a boot; users, the game and the schedule owe nothing.*)
Fairness ==
  /\ WF_vars(webui.pc # "idle" /\ Handler)
  /\ WF_vars(BackupEnds) /\ WF_vars(ComposeUp)

FairSpec == Spec /\ Fairness

-----------------------------------------------------------------------------
(* However a file in BACKUP_DIR came to be cut short (an upload, a webui   *)
(* that died while it wrote one), a restore from it is refused before the  *)
(* server is stopped or a save is touched.                                 *)
NeverFromPartial ==
  webui.pc \in {"stop", "extract", "recover"} => archive[webui.src].state = "whole"

(* A restore reported as done, with the server down throughout, has put    *)
(* every file of the archive into the tree.                                *)
RestoredIsTheArchive ==
  [][ webui.pc # "idle" /\ reply' = "restored" /\ reply # "restored" /\ ~contended =>
        \A f \in Files : LET g == archive[webui.src].files[f]
                         IN  g # NoFile => tree'[f] = g ]_vars

(* The server does not stay down, whatever restores and backups overlap.   *)
ServerReturns == ~running ~> running

(* main.py:789: palworld is started even on failure, so that the server    *)
(* isn't left down once handlers, backup and boot are over.                *)
NotLeftDown ==
  webui.pc = "idle" /\ offen.pc = "idle" /\ ~booting => running

(* index.html:1017: a restore replaces the saved games.                    *)
RestoreReplaces ==
  [][ webui.pc # "idle" /\ reply' = "restored" /\ reply # "restored" /\ ~contended =>
        tree' = archive[webui.src].files ]_vars

(* index.html:1021: when the restore is complete, palworld is restarted.   *)
RestoredMeansRestarted ==
  [][ webui.pc # "idle" /\ reply' = "restored" /\ reply # "restored" => running' ]_vars

(* main.py:779: the server is stopped, so there is no write contention     *)
(* during the extraction.                                                  *)
NoContention == webui.pc = "extract" => ~contended

(* docker-compose.yml:80-82: offen stops the server for the duration of a  *)
(* backup, so that the tree does not change under it.                      *)
BackupIsCold == [][offen.pc = "tar" /\ offen'.pc = "tar" => tree' = tree]_vars

(* main.py:740-743: what save_file reads is always in a consistent state.  *)
SnapshotIsOfOneSave ==
  archive["savefile"].state = "whole" =>
    \A f, g \in Files :
      NoFile \in {archive["savefile"].files[f], archive["savefile"].files[g]}
        \/ archive["savefile"].files[f] = archive["savefile"].files[g]

=============================================================================
