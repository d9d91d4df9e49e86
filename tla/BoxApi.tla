------------------------------- MODULE BoxApi -------------------------------
(***************************************************************************)
(* What a box answers to the reading side of its web API (main.py) and to  *)
(* `docker ps`: the containers, the game server and the backups of a box,  *)
(* which go their own ways, and the dashboard with its remembered version. *)
(***************************************************************************)
EXTENDS Naturals, FiniteSets

CONSTANTS
  Boxes,         \* the boxes: what does not change while one is looked at
  MaxArchives,   \* bound: the archives ever made
  Shown,         \* the length of backup_status's list (20)
  Faults         \* which of "lost", "webui", "game", "job", "tool" may happen

BoxType ==
  [sudo: BOOLEAN, default: BOOLEAN, down: SUBSET {"ppsa-backup", "ppsa-watchtower"},
   dashboard: {"absent", "running", "exited"}, df: BOOLEAN, chain: BOOLEAN,
   netbird: {"absent", "off", "joining", "on"},
   wg: {"no_conf", "no_snapshot", "bad_json", "down", "silent", "handshake"},
   config: {"good", "bad_json"}]

ASSUME BoxAssumption ==
  /\ Boxes \subseteq BoxType
  /\ Shown \in Nat \ {0} /\ MaxArchives \in Nat /\ MaxArchives > Shown

VARIABLES
  box,       \* one of Boxes
  webui,     \* ppsa-webui runs
  game,      \* ppsa-palworld; "held": stopped by a backup
  world,     \* the SaveGames directory exists
  logged,    \* its version line is among the last 400 of its log
  jobs,      \* backups asked for and not over
  archives,  \* BACKUP_DIR: archives, numbered by age
  made,      \* the number of the last one
  cache,     \* _VERSION_CACHE is set
  page       \* the version that the dashboard shows, if any

gameState == <<game, world, logged>>
store == <<jobs, archives, made>>
process == <<webui, cache, page>>
boxVars == <<box, gameState, store, process>>

BoxTypeOK ==
  /\ box \in Boxes /\ {webui, world, logged, cache} \subseteq BOOLEAN
  /\ game \in {"starting", "serving", "exited", "held"}
  /\ jobs \in 0 .. 2 /\ made \in 0 .. MaxArchives /\ archives \subseteq 1 .. made
  /\ page \in {"version", "unavailable"}

(* A fresh box has no world until the game is downloaded and serves; a     *)
(* used one may have more archives than are listed.                        *)
BoxInit ==
  /\ box \in Boxes /\ webui = TRUE
  /\ game \in {"starting", "serving", "exited"}
  /\ world = (game # "starting") /\ logged = (game = "serving")
  /\ jobs = 0 /\ made \in {0, Shown + 1} /\ archives = 1 .. made
  /\ cache = FALSE /\ page = "unavailable"

-----------------------------------------------------------------------------
(* docker ps, and the API's answers.                                       *)
Running ==
  ({"ppsa-palworld-rest-proxy", "ppsa-backup", "ppsa-watchtower"} \ box.down)
    \cup (IF webui THEN {"ppsa-webui"} ELSE {})
    \cup (IF game \in {"starting", "serving"} THEN {"ppsa-palworld"} ELSE {})
    \cup (IF box.dashboard = "running" THEN {"ppsa-wgdashboard"} ELSE {})

WireguardStatus ==
  CASE box.wg = "no_conf" -> "not_configured"
    [] box.wg \in {"no_snapshot", "down", "silent"} -> "inactive"
    [] box.wg = "handshake" -> "active"
    [] box.wg = "bad_json" -> "error 500"

(* netbird_status has the key netbird_ip unless the host call failed.      *)
NetbirdStatus ==
  [connected |-> box.netbird \in {"joining", "on"}, hasIpKey |-> box.netbird # "absent"]

(* backup_status: the newest ones only.                                    *)
Listing == {a \in archives : Cardinality({b \in archives : b > a}) < Shown}

Archive == made' = made + 1 /\ archives' = archives \cup {made + 1}

SaveFile ==
  /\ made < MaxArchives /\ Archive
  /\ UNCHANGED jobs

(* "triggered" is the answer whatever docker says.                         *)
TriggerBackup ==
  /\ jobs' = IF "ppsa-backup" \in Running THEN jobs + 1 ELSE jobs
  /\ UNCHANGED <<archives, made>>

-----------------------------------------------------------------------------
(* Variant: only what the log said is remembered. *)
DashboardForgetsRest ==
  /\ webui
  /\ cache' = (cache \/ logged)
  /\ \E named \in BOOLEAN :
       page' = IF cache' \/ (named /\ game = "serving") THEN "version" ELSE "unavailable"
  /\ UNCHANGED <<box, gameState, store, webui>>

(* Somebody looks at the dashboard: the version is that of the REST answer *)
(* (which may lack it), of the log, or the remembered one.                 *)
Dashboard ==
  /\ webui
  /\ \E named \in BOOLEAN :
       cache' = (cache \/ (named /\ game = "serving") \/ logged)
  /\ page' = IF cache' THEN "version" ELSE "unavailable"
  /\ UNCHANGED <<box, gameState, store, webui>>

WebuiStops ==
  /\ "webui" \in Faults /\ webui
  /\ webui' = FALSE /\ cache' = FALSE /\ page' = "unavailable"
  /\ UNCHANGED <<box, gameState, store>>

WebuiStarts ==
  /\ ~webui /\ webui' = TRUE
  /\ UNCHANGED <<box, gameState, store, cache, page>>

(* The backup container stops the game, writes an archive, prunes old ones *)
(* and starts what it has stopped.                                         *)
BackupBegins ==
  /\ jobs > 0 /\ game \in {"starting", "serving"} /\ game' = "held"
  /\ UNCHANGED <<box, world, logged, store, process>>

Release == game' = IF game = "held" THEN "starting" ELSE game

BackupEnds ==
  /\ jobs > 0 /\ game \in {"held", "exited"} /\ Release
  /\ jobs' = jobs - 1
  /\ made < MaxArchives /\ made' = made + 1
  /\ \E pruned \in SUBSET archives : archives' = (archives \ pruned) \cup {made + 1}
  /\ UNCHANGED <<box, world, logged, process>>

BackupFails ==
  /\ "job" \in Faults
  /\ jobs > 0 /\ game \in {"held", "exited"} /\ Release
  /\ jobs' = jobs - 1
  /\ UNCHANGED <<box, world, logged, archives, made, process>>

(* A server that has come up answers, and has logged its version.          *)
GameServes ==
  /\ game = "starting"
  /\ game' = "serving" /\ world' = TRUE /\ logged' = TRUE
  /\ UNCHANGED <<box, store, process>>

LogScrolls ==
  /\ logged /\ logged' = FALSE
  /\ UNCHANGED <<box, game, world, store, process>>

GameStops ==
  /\ "game" \in Faults /\ game = "serving" /\ jobs = 0
  /\ game' = "exited"
  /\ UNCHANGED <<box, world, logged, store, process>>

GameRestarts ==
  /\ "game" \in Faults /\ game = "exited" /\ jobs = 0
  /\ game' = "starting"
  /\ UNCHANGED <<box, world, logged, store, process>>

(* What the box does by itself or for its own backups; what disturbs it.   *)
Settled == BackupBegins \/ BackupEnds \/ LogScrolls \/ Dashboard
Disturbed == BackupFails \/ WebuiStops \/ GameServes \/ GameStops \/ GameRestarts

(* What a healthy box is, whatever the checks ask.                         *)
Sound ==
  /\ box.sudo /\ box.default /\ box.down = {} /\ box.dashboard # "exited"
  /\ box.df /\ box.chain /\ box.netbird = "on" /\ box.config = "good"
  /\ box.wg \notin {"bad_json", "handshake"}

Healthy == Sound /\ webui /\ game = "serving"

(* A version once shown is shown until the webui restarts, though the log  *)
(* scrolls on and the game's REST API stops answering (main.py, 422-435).  *)
VersionStays == [][page = "version" /\ webui' => page' = "version"]_page

=============================================================================
