--------------------------- MODULE SmokeTestProofs ---------------------------
(***************************************************************************)
(* The proofs about BoxApi and SmokeTest: for any boxes, numbers of        *)
(* archives and polls, and any disturbances, a version once shown stays,   *)
(* and the archive that the last guard finds is a new one; if no box is    *)
(* still joining its NetBird, none that is wrong passes, and undisturbed   *)
(* the verdict is exact; and a run makes no more calls than it has checks  *)
(* and polls for.                                                          *)
(***************************************************************************)
EXTENDS SmokeTest, FiniteSetTheorems, TLAPS

(* What the dashboard shows is remembered. *)
PageInv == page = "version" => cache = TRUE

LEMMA PageStep ==
  ASSUME PageInv, cache \in BOOLEAN, [Next]_vars
  PROVE  /\ PageInv' /\ cache' \in BOOLEAN
         /\ page = "version" /\ webui' => page' = "version"
  <1>1. ASSUME UNCHANGED process
        PROVE  /\ PageInv' /\ cache' \in BOOLEAN
               /\ page = "version" /\ webui' => page' = "version"
    BY <1>1 DEF process, PageInv
  <1>2. CASE Dashboard
    BY <1>2 DEF Dashboard, PageInv
  <1>3. CASE WebuiStops
    BY <1>3 DEF WebuiStops, PageInv
  <1>4. CASE WebuiStarts
    BY <1>4 DEF WebuiStarts, PageInv
  <1>5. CASE Settled \/ Disturbed
    <2>1. CASE BackupBegins \/ BackupEnds \/ BackupFails
      BY <2>1, <1>1 DEF BackupBegins, BackupEnds, BackupFails
    <2>2. CASE LogScrolls \/ GameServes \/ GameStops \/ GameRestarts
      BY <2>2, <1>1 DEF LogScrolls, GameServes, GameStops, GameRestarts
    <2>3. QED
      BY <1>2, <1>3, <1>5, <2>1, <2>2 DEF Settled, Disturbed
  <1>6. CASE Script
    <2>1. CASE AcceptHostKey \/ RunCheck \/ RequestLost \/ Login
      BY <2>1, <1>1 DEF AcceptHostKey, RunCheck, RequestLost, Login, boxVars
    <2>2. CASE TakeToken \/ FindWgDashboard \/ CheckWgDashboard \/ CheckDormancy
      BY <2>2, <1>1 DEF TakeToken, FindWgDashboard, CheckWgDashboard, CheckDormancy, boxVars
    <2>3. CASE Snapshot \/ Poll \/ Summary
      BY <2>3, <1>1 DEF Snapshot, SnapshotWith, Poll, Summary, boxVars
    <2>4. CASE RunActingCheck \/ Pull
      BY <2>4, <1>1 DEF RunActingCheck, Pull
    <2>5. QED
      BY <1>6, <2>1, <2>2, <2>3, <2>4 DEF Script
  <1>7. CASE UNCHANGED vars
    BY <1>7, <1>1 DEF vars, boxVars
  <1>8. QED
    BY <1>4, <1>5, <1>6, <1>7 DEF Next, Box

(* A version that was shown is shown until the webui restarts, whatever    *)
(* becomes of the log and of the game's REST API (main.py:422-435).        *)
THEOREM ShownVersionStays == Spec => VersionStays
  <1>1. Init => PageInv /\ cache \in BOOLEAN
    BY DEF Init, BoxInit, PageInv
  <1>2. PageInv /\ cache \in BOOLEAN /\ [Next]_vars => PageInv' /\ (cache \in BOOLEAN)'
    BY PageStep
  <1>3. PageInv /\ cache \in BOOLEAN /\ [Next]_vars
          => [page = "version" /\ webui' => page' = "version"]_page
    BY PageStep
  <1>4. QED
    BY <1>1, <1>2, <1>3, PTL DEF Spec, VersionStays

-----------------------------------------------------------------------------
(* As long as no archive was made since the list was read, the list is as  *)
(* it was read; before the check there is neither list nor claim.          *)
ArchiveInv ==
  /\ made \in Nat /\ snapshot \in Nat /\ snapshot <= made
  /\ at \in Nat \ {0}
  /\ step = "host_key" => at = 1
  /\ at < 24 \/ (at = 24 /\ step = "check") => ~read /\ ~claimed
  /\ read /\ made = snapshot => pre = Listing
  /\ claimed /\ read => made > snapshot

LEMMA NewArchivePlace ==
  ASSUME at \in Nat \ {0}, NEW s, On("new_archive", s)
  PROVE  at = 24
  <1>1. at \in 1 .. 27 /\ Order[at] = "new_archive"
    BY DEF On, Order
  <1>2. QED
    BY <1>1 DEF Order

(* The script's own state is as it was or on its way to the next check,    *)
(* and archives only come with a higher number.                            *)
LEMMA ArchiveMoves ==
  ASSUME ArchiveInv,
         UNCHANGED <<pre, snapshot, read, claimed>>,
         \/ UNCHANGED <<made, archives>>
         \/ made' = made + 1,
         \/ UNCHANGED <<at, step>>
         \/ at' = at + 1 /\ step' = "check"
         \/ at # 24 /\ at' = at /\ step' # "host_key"
         \/ at' = at /\ step' \notin {"check", "host_key"}
  PROVE  ArchiveInv'
  <1>1. /\ made' \in Nat /\ snapshot' \in Nat /\ snapshot' <= made'
        /\ at' \in Nat \ {0}
    BY DEF ArchiveInv
  <1>2. read' /\ made' = snapshot' => pre' = Listing'
    <2>1. CASE UNCHANGED <<made, archives>>
      BY <2>1 DEF ArchiveInv, Listing
    <2>2. CASE made' = made + 1
      BY <2>2 DEF ArchiveInv
    <2>3. QED
      BY <2>1, <2>2
  <1>3. claimed' /\ read' => made' > snapshot'
    BY DEF ArchiveInv
  <1>4. at' < 24 \/ (at' = 24 /\ step' = "check") => ~read' /\ ~claimed'
    BY DEF ArchiveInv
  <1>5. step' = "host_key" => at' = 1
    BY DEF ArchiveInv
  <1>6. QED
    BY <1>1, <1>2, <1>3, <1>4, <1>5 DEF ArchiveInv

LEMMA ArchiveStep ==
  ASSUME ArchiveInv, [Next]_vars
  PROVE  ArchiveInv'
  <1>1. CASE Box
    <2>1. UNCHANGED <<at, step, pre, snapshot, read, claimed>>
      BY <1>1 DEF Box, progress, poller
    <2>2. UNCHANGED <<made, archives>> \/ made' = made + 1
      BY <1>1 DEF Box, Settled, Disturbed, BackupBegins, BackupEnds, BackupFails, LogScrolls,
                  Dashboard, WebuiStops, WebuiStarts, GameServes, GameStops, GameRestarts,
                  store, process
    <2>3. QED
      BY <2>1, <2>2, ArchiveMoves
  <1>2. CASE AcceptHostKey
    <2>1. /\ UNCHANGED <<pre, snapshot, read, claimed, made, archives>>
          /\ at' = at /\ step' \in {"check", step}
          /\ step = "host_key"
      BY <1>2 DEF AcceptHostKey, boxVars, store, poller, ghosts
    <2>2. at # 24
      BY <2>1 DEF ArchiveInv
    <2>3. QED
      BY <2>1, <2>2, ArchiveMoves
  <1>3. CASE RunCheck \/ RequestLost
    <2>1. /\ UNCHANGED <<pre, snapshot, read, claimed, made, archives>>
          /\ at' = at + 1 /\ step' = "check"
      BY <1>3 DEF RunCheck, RequestLost, Record, boxVars, store, scriptRest, poller
    <2>2. QED
      BY <2>1, ArchiveMoves
  <1>4. CASE RunActingCheck
    <2>1. /\ UNCHANGED <<pre, snapshot, read, claimed>>
          /\ at' = at + 1 /\ step' = "check"
      BY <1>4 DEF RunActingCheck, Record, scriptRest, poller
    <2>2. UNCHANGED <<made, archives>> \/ made' = made + 1
      BY <1>4 DEF RunActingCheck, SaveFile, Archive, TriggerBackup, store
    <2>3. QED
      BY <2>1, <2>2, ArchiveMoves
  <1>5. CASE Login \/ TakeToken
    <2>1. UNCHANGED <<pre, snapshot, read, claimed, made, archives>>
      BY <1>5 DEF Login, TakeToken, boxVars, store, scriptRest, poller
    <2>2. (at' = at + 1 /\ step' = "check") \/ (at' = at /\ step' = "token")
      BY <1>5 DEF Login, TakeToken, Record, Continue
    <2>3. QED
      BY <2>1, <2>2, ArchiveMoves
  <1>6. CASE FindWgDashboard \/ CheckWgDashboard \/ CheckDormancy
    <2>1. UNCHANGED <<pre, snapshot, read, claimed, made, archives>>
      BY <1>6 DEF FindWgDashboard, CheckWgDashboard, CheckDormancy, boxVars, store,
                  scriptRest, poller
    <2>2. (at' = at + 1 /\ step' = "check") \/ (at' = at /\ step' = "state")
      BY <1>6 DEF FindWgDashboard, CheckWgDashboard, CheckDormancy, Record, Continue
    <2>3. QED
      BY <2>1, <2>2, ArchiveMoves
  <1>7. CASE Snapshot
    <2>1. at = 24 /\ step = "check" /\ ~read /\ ~claimed
      <3>1. On("new_archive", "check")
        BY <1>7 DEF Snapshot, SnapshotWith
      <3>2. QED
        BY <3>1, NewArchivePlace DEF ArchiveInv, On
    <2>2. /\ snapshot' = made /\ made' = made /\ archives' = archives
          /\ at' = at /\ step' = "pull" /\ claimed' = claimed
      BY <1>7 DEF Snapshot, SnapshotWith, Continue, boxVars, store
    <2>3. pre' = Listing \/ read' = read
      BY <1>7 DEF Snapshot, SnapshotWith
    <2>4. Listing' = Listing
      BY <2>2 DEF Listing
    <2>5. QED
      BY <2>1, <2>2, <2>3, <2>4 DEF ArchiveInv
  <1>8. CASE Pull
    <2>1. UNCHANGED <<pre, snapshot, read, claimed, made, archives>>
      BY <1>8 DEF Pull, TriggerBackup, store, scriptRest, poller
    <2>2. (at' = at + 1 /\ step' = "check") \/ (at' = at /\ step' = "poll")
      BY <1>8 DEF Pull, Record, Continue
    <2>3. QED
      BY <2>1, <2>2, ArchiveMoves
  <1>9. CASE Poll
    <2>1. at = 24 /\ UNCHANGED <<pre, snapshot, read, made, archives>>
      <3>1. On("new_archive", "poll")
        BY <1>9 DEF Poll
      <3>2. QED
        BY <1>9, <3>1, NewArchivePlace DEF ArchiveInv, Poll, boxVars, store
    <2>2. \/ claimed' = claimed
          \/ Listing \ pre # {} /\ at' = at + 1 /\ step' = "check"
      BY <1>9 DEF Poll, Record
    <2>3. (at' = at + 1 /\ step' = "check") \/ (at' = at /\ step' = "poll")
      BY <1>9 DEF Poll, Record, Continue
    <2>4. CASE claimed' = claimed
      BY <2>1, <2>3, <2>4, ArchiveMoves
    <2>5. CASE Listing \ pre # {} /\ at' = at + 1 /\ step' = "check"
      <3>1. read => made > snapshot
        BY <2>5 DEF ArchiveInv
      <3>2. Listing' = Listing
        BY <2>1 DEF Listing
      <3>3. QED
        BY <2>1, <2>5, <3>1, <3>2 DEF ArchiveInv
    <2>6. QED
      BY <2>2, <2>4, <2>5
  <1>10. CASE Summary
    <2>1. UNCHANGED <<at, step, pre, snapshot, read, claimed, made, archives>>
      BY <1>10 DEF Summary, boxVars, store, progress, poller, ghosts
    <2>2. QED
      BY <2>1, ArchiveMoves
  <1>11. CASE UNCHANGED vars
    <2>1. UNCHANGED <<at, step, pre, snapshot, read, claimed, made, archives>>
      BY <1>11 DEF vars, boxVars, store, progress, poller, ghosts
    <2>2. QED
      BY <2>1, ArchiveMoves
  <1>12. QED
    BY <1>1, <1>2, <1>3, <1>4, <1>5, <1>6, <1>7, <1>8, <1>9, <1>10, <1>11 DEF Next, Script

LEMMA ArchiveInvariant == Spec => []ArchiveInv
  <1>1. Init => ArchiveInv
    BY BoxAssumption DEF Init, BoxInit, ArchiveInv
  <1>2. ArchiveInv /\ [Next]_vars => ArchiveInv'
    BY ArchiveStep
  <1>3. QED
    BY <1>1, <1>2, PTL DEF Spec

(* A pass of the last guard is not that of an older archive, however long  *)
(* the list, whatever is pruned and whoever else makes archives meanwhile  *)
(* (script, 415-491).                                                      *)
THEOREM FoundIsNew == Spec => []NewArchiveIsNew
  <1>1. ArchiveInv => NewArchiveIsNew
    BY DEF ArchiveInv, NewArchiveIsNew
  <1>2. QED
    BY <1>1, ArchiveInvariant, PTL

-----------------------------------------------------------------------------
(* The checks by their place, and what the verdict on each is.             *)
LEMMA OrderIs ==
  /\ Len(Order) = 27
  /\ \A k \in 1 .. 27 :
       /\ (k = 2 <=> Order[k] = "sudo") /\ (k = 4 <=> Order[k] = "login")
       /\ (k = 8 <=> Order[k] = "backup") /\ (k = 9 <=> Order[k] = "watchtower")
       /\ (k = 10 <=> Order[k] = "wgdashboard") /\ (k = 13 <=> Order[k] = "disk")
       /\ (k = 14 <=> Order[k] = "chain") /\ (k = 16 <=> Order[k] = "netbird")
       /\ (k = 18 <=> Order[k] = "dormant") /\ (k = 20 <=> Order[k] = "save_file")
       /\ (k = 21 <=> Order[k] = "listed") /\ (k = 22 <=> Order[k] = "save_world")
       /\ (k = 23 <=> Order[k] = "trigger") /\ (k = 24 <=> Order[k] = "new_archive")
       /\ (k = 27 <=> Order[k] = "config")
  BY DEF Order

LEMMA VerdictOfGroup ==
  /\ (Verdict("ssh") <=> Ssh.ssh) /\ (Verdict("sudo") <=> Ssh.sudo)
  /\ (Verdict("health") <=> Auth.health)
  /\ (Verdict("count") <=> Stack.count) /\ (Verdict("webui") <=> Stack.webui)
  /\ (Verdict("palworld") <=> Stack.palworld) /\ (Verdict("backup") <=> Stack.backup)
  /\ (Verdict("watchtower") <=> Stack.watchtower)
  /\ (Verdict("cores") <=> System.cores) /\ (Verdict("memory") <=> System.memory)
  /\ (Verdict("disk") <=> System.disk)
  /\ (Verdict("chain") <=> Firewall.chain) /\ (Verdict("rules") <=> Firewall.rules)
  /\ (Verdict("netbird") <=> Netbird.netbird) /\ (Verdict("netbird_ip") <=> Netbird.netbird_ip)
  /\ (Verdict("status") <=> Backup.status) /\ (Verdict("save_file") <=> Backup.save_file)
  /\ (Verdict("listed") <=> Backup.listed)
  /\ (Verdict("save_world") <=> RegressionGuard.save_world)
  /\ (Verdict("trigger") <=> RegressionGuard.trigger)
  /\ (Verdict("dashboard") <=> Integrity.dashboard)
  /\ (Verdict("containers") <=> Integrity.containers)
  /\ (Verdict("config") <=> Integrity.config)
  BY DEF Verdict, Groups, Ssh, Auth, Stack, System, Firewall, Netbird, Backup, RegressionGuard,
         Integrity

LEMMA VerdictIs ==
  /\ Verdict("ssh") /\ (Verdict("sudo") <=> box.sudo) /\ (Verdict("health") <=> webui)
  /\ Verdict("count") <=> box.sudo /\ Cardinality(Running) >= 4
  /\ Verdict("webui") <=> box.sudo /\ "ppsa-webui" \in Running
  /\ Verdict("palworld") <=>
       box.sudo /\ Running \cap {"ppsa-palworld", "ppsa-palworld-rest-proxy"} # {}
  /\ Verdict("backup") <=> box.sudo /\ "ppsa-backup" \in Running
  /\ Verdict("watchtower") <=> box.sudo /\ "ppsa-watchtower" \in Running
  /\ \A c \in {"cores", "memory", "rules", "status", "trigger", "dashboard", "containers"} :
       Verdict(c) <=> Api
  /\ (Verdict("disk") <=> Api /\ box.df) /\ (Verdict("chain") <=> Api /\ box.chain)
  /\ Verdict("netbird") <=> Api /\ box.netbird \in {"joining", "on"}
  /\ Verdict("netbird_ip") <=> Api /\ box.netbird # "absent"
  /\ (Verdict("save_file") <=> Api /\ world) /\ (Verdict("listed") <=> Api /\ archives # {})
  /\ (Verdict("save_world") <=> Api /\ game = "serving")
  /\ (Verdict("config") <=> Api /\ box.config = "good")
  <1>1. /\ Ssh.ssh /\ (Ssh.sudo <=> box.sudo) /\ (Auth.health <=> webui)
    BY DEF Ssh, Auth
  <1>2. /\ Stack.count <=> box.sudo /\ Cardinality(Running) >= 4
        /\ Stack.webui <=> box.sudo /\ "ppsa-webui" \in Running
        /\ Stack.palworld <=>
             box.sudo /\ Running \cap {"ppsa-palworld", "ppsa-palworld-rest-proxy"} # {}
        /\ Stack.backup <=> box.sudo /\ "ppsa-backup" \in Running
        /\ Stack.watchtower <=> box.sudo /\ "ppsa-watchtower" \in Running
    BY DEF Stack
  <1>3. /\ System.cores <=> Api
        /\ System.memory <=> Api
        /\ System.disk <=> Api /\ box.df
        /\ Firewall.chain <=> Api /\ box.chain
        /\ Firewall.rules <=> Api
    BY DEF System, Firewall
  <1>4. /\ Netbird.netbird <=> Api /\ box.netbird \in {"joining", "on"}
        /\ Netbird.netbird_ip <=> Api /\ box.netbird # "absent"
    <2>1. /\ NetbirdStatus.connected <=> box.netbird \in {"joining", "on"}
          /\ NetbirdStatus.hasIpKey <=> box.netbird # "absent"
      BY DEF NetbirdStatus
    <2>2. QED
      BY <2>1 DEF Netbird
  <1>5. /\ Backup.status <=> Api
        /\ Backup.save_file <=> Api /\ world
        /\ Backup.listed <=> Api /\ archives # {}
    BY DEF Backup
  <1>6. /\ RegressionGuard.save_world <=> Api /\ game = "serving"
        /\ RegressionGuard.trigger <=> Api
    BY DEF RegressionGuard
  <1>7. /\ Integrity.dashboard <=> Api
        /\ Integrity.containers <=> Api
        /\ Integrity.config <=> Api /\ box.config = "good"
    BY DEF Integrity
  <1>8. QED
    BY <1>1, <1>2, <1>3, <1>4, <1>5, <1>6, <1>7, VerdictOfGroup

LEMMA AskedIs ==
  /\ {"login", "wgdashboard", "dormant", "new_archive"} \cap Asked = {}
  /\ Asked =
       {"ssh", "sudo", "health", "count", "webui", "palworld", "backup", "watchtower", "cores",
        "memory", "disk", "chain", "rules", "netbird", "netbird_ip", "status", "save_file",
        "listed", "save_world", "trigger", "dashboard", "containers", "config"}
  <1>1. Asked =
       {"ssh", "sudo", "health", "count", "webui", "palworld", "backup", "watchtower", "cores",
        "memory", "disk", "chain", "rules", "netbird", "netbird_ip", "status", "save_file",
        "listed", "save_world", "trigger", "dashboard", "containers", "config"}
    BY DEF Asked, Groups, Ssh, Auth, Stack, System, Firewall, Netbird, Backup,
           RegressionGuard, Integrity
  <1>2. QED
    BY <1>1

LEMMA Place ==
  ASSUME at \in Nat \ {0}, NEW check, NEW s, On(check, s)
  PROVE  at \in 1 .. 27 /\ Order[at] = check /\ step = s /\ exit = "none"
  BY OrderIs DEF On

LEMMA Places ==
  ASSUME at \in Nat \ {0}, NEW s
  PROVE  /\ On("login", s) => at = 4
         /\ On("wgdashboard", s) => at = 10
         /\ On("dormant", s) => at = 18
         /\ On("save_file", s) => at = 20
         /\ On("trigger", s) => at = 23
         /\ On("new_archive", s) => at = 24
  <1>1. ASSUME NEW check, On(check, s)
        PROVE  at \in 1 .. 27 /\ Order[at] = check
    BY <1>1, Place
  <1>2. QED
    BY <1>1, OrderIs


-----------------------------------------------------------------------------
(* Where the special checks' steps are, and how many backups the script    *)
(* can have asked for by then: none before the trigger.                    *)
PlaceInv ==
  /\ step = "host_key" => at = 1
  /\ step = "token" => at = 4
  /\ step = "state" => at = 10
  /\ step \in {"pull", "poll"} => at = 24
  /\ at < 24 => jobs = 0
  /\ at = 24 /\ step # "poll" => jobs <= 1

(* The newest archive is there: only a newer one's backup prunes.          *)
NewestInv == made = 0 \/ made \in archives

LEMMA SmokeConstants ==
  /\ MaxPolls \in Nat \ {0} /\ MaxUpsets \in Nat
  /\ Shown \in Nat \ {0} /\ MaxArchives \in Nat /\ MaxArchives > Shown
  BY BoxAssumption, SmokeAssumption

LEMMA RecordMoves ==
  ASSUME NEW passed \in BOOLEAN, Record(passed)
  PROVE  at' = at + 1 /\ step' = "check" /\ (failed' <=> failed \/ ~passed)
  BY DEF Record

(* The types, the box's and the script's. *)
BoxTypes ==
  /\ box \in Boxes
  /\ webui \in BOOLEAN /\ world \in BOOLEAN /\ logged \in BOOLEAN /\ cache \in BOOLEAN
  /\ game \in {"starting", "serving", "exited", "held"}
  /\ jobs \in 0 .. 2 /\ made \in 0 .. MaxArchives /\ archives \subseteq 1 .. made
  /\ page \in {"version", "unavailable"}

ScriptTypes ==
  /\ at \in 1 .. 28
  /\ step \in {"host_key", "check", "token", "state", "pull", "poll"}
  /\ token \in BOOLEAN /\ failed \in BOOLEAN /\ well \in BOOLEAN /\ read \in BOOLEAN
  /\ late \in BOOLEAN /\ claimed \in BOOLEAN
  /\ pre \subseteq 1 .. MaxArchives /\ polls \in 0 .. MaxPolls - 1
  /\ exit \in {"none", "pass", "fail", "no_tool"}
  /\ upsets \in 0 .. MaxUpsets
  /\ snapshot \in 0 .. MaxArchives

SmokeTypes == BoxTypes /\ ScriptTypes /\ PlaceInv /\ NewestInv

LEMMA TypesAreThose == BoxTypes /\ ScriptTypes => TypeOK
  BY OrderIs, SmokeConstants DEF TypeOK, BoxTypeOK, BoxTypes, ScriptTypes

(* The box's own steps. *)
LEMMA BoxTypesKept ==
  ASSUME SmokeTypes, Settled \/ WebuiStarts \/ Disturbed
  PROVE  BoxTypes' /\ NewestInv' /\ jobs' <= jobs
  <1> USE DEF BoxTypes, NewestInv
  <1>1. BoxTypes /\ NewestInv
    BY DEF SmokeTypes
  <1>2. CASE BackupBegins
    BY <1>1, <1>2 DEF BackupBegins, store, process
  <1>3. CASE BackupEnds
    <2>1. /\ game' \in {"starting", "serving", "exited", "held"}
          /\ jobs' = jobs - 1 /\ jobs > 0 /\ made' = made + 1 /\ made < MaxArchives
          /\ UNCHANGED <<box, world, logged, webui, cache, page>>
      BY <1>1, <1>3 DEF BackupEnds, Release, process
    <2>2. PICK pruned \in SUBSET archives : archives' = (archives \ pruned) \cup {made + 1}
      BY <1>3 DEF BackupEnds
    <2>3. archives' \subseteq 1 .. made' /\ made' \in archives'
      BY <1>1, <2>1, <2>2
    <2>4. jobs' \in 0 .. 2 /\ jobs' <= jobs /\ made' \in 0 .. MaxArchives
      BY <1>1, <2>1, SmokeConstants
    <2>5. QED
      BY <1>1, <2>1, <2>3, <2>4
  <1>4. CASE LogScrolls
    <2>1. /\ UNCHANGED <<box, webui, game, world, jobs, archives, made, cache, page>>
          /\ logged' \in BOOLEAN
      BY <1>4 DEF LogScrolls, store, process
    <2>2. QED
      BY <1>1, <2>1
  <1>5. CASE Dashboard
    BY <1>1, <1>5 DEF Dashboard, gameState, store
  <1>6. CASE BackupFails
    BY <1>1, <1>6 DEF BackupFails, Release, process
  <1>7. CASE WebuiStarts
    BY <1>1, <1>7 DEF WebuiStarts, gameState, store
  <1>8. CASE WebuiStops
    <2>1. /\ UNCHANGED <<box, game, world, logged, jobs, archives, made>>
          /\ webui' \in BOOLEAN /\ cache' \in BOOLEAN /\ page' = "unavailable"
      BY <1>8 DEF WebuiStops, gameState, store
    <2>2. QED
      BY <1>1, <2>1
  <1>9. CASE GameServes
    BY <1>1, <1>9 DEF GameServes, store, process
  <1>10. CASE GameStops \/ GameRestarts
    <2>1. /\ UNCHANGED <<box, webui, world, logged, jobs, archives, made, cache, page>>
          /\ game' \in {"exited", "starting"}
      BY <1>10 DEF GameStops, GameRestarts, store, process
    <2>2. QED
      BY <1>1, <2>1
  <1>11. QED
    BY <1>2, <1>3, <1>4, <1>5, <1>6, <1>7, <1>8, <1>9, <1>10 DEF Settled, Disturbed

(* The steps of the script that leave the box alone and record a result,   *)
(* or go on within a special check. *)
LEMMA QuietScript ==
  ASSUME SmokeTypes, UNCHANGED boxVars, upsets' \in 0 .. MaxUpsets,
         UNCHANGED <<pre, polls, well, snapshot, read, late, claimed>>,
         token' \in BOOLEAN, exit' \in {"none", "pass", "fail", "no_tool"},
         \/ at \in 1 .. 27 /\ at' = at + 1 /\ step' = "check" /\ failed' \in BOOLEAN
         \/ UNCHANGED <<at, step, failed>>
         \/ at = 1 /\ step' = "check" /\ UNCHANGED <<at, failed>>
         \/ at = 4 /\ step' = "token" /\ UNCHANGED <<at, failed>>
         \/ at = 10 /\ step' = "state" /\ UNCHANGED <<at, failed>>
  PROVE  SmokeTypes'
  <1>1. BoxTypes' /\ NewestInv' /\ jobs' = jobs
    BY DEF SmokeTypes, BoxTypes, NewestInv, boxVars, gameState, store, process
  <1>2. ScriptTypes'
    BY DEF SmokeTypes, ScriptTypes
  <1>3. PlaceInv'
    BY <1>1 DEF SmokeTypes, ScriptTypes, BoxTypes, PlaceInv
  <1>4. QED
    BY <1>1, <1>2, <1>3 DEF SmokeTypes


LEMMA UpsetsCounted ==
  ASSUME SmokeTypes, Answered \/ Lost \/ Upset
  PROVE  /\ upsets' \in 0 .. MaxUpsets
         /\ upsets' = 0 => upsets = 0 /\ Answered
         /\ Lost \/ Upset => upsets' > 0
  BY SmokeConstants DEF SmokeTypes, ScriptTypes, Answered, Lost, Upset

LEMMA RecordKept ==
  ASSUME SmokeTypes, UNCHANGED boxVars, Answered \/ Lost,
         UNCHANGED <<pre, polls, well, snapshot, read, late, claimed, exit>>,
         token' \in BOOLEAN, at \in 1 .. 27,
         NEW passed \in BOOLEAN, Record(passed)
  PROVE  SmokeTypes'
  <1>1. failed' \in BOOLEAN /\ at' = at + 1 /\ step' = "check"
    BY RecordMoves DEF Record, SmokeTypes, ScriptTypes
  <1>2. upsets' \in 0 .. MaxUpsets
    BY UpsetsCounted
  <1>3. exit' \in {"none", "pass", "fail", "no_tool"}
    BY DEF SmokeTypes, ScriptTypes
  <1>4. QED
    BY <1>1, <1>2, <1>3, QuietScript

LEMMA ContinueKept ==
  ASSUME SmokeTypes, UNCHANGED boxVars, Answered \/ Lost,
         UNCHANGED <<pre, polls, well, snapshot, read, late, claimed, exit, token>>,
         \/ at = 4 /\ Continue("token")
         \/ at = 10 /\ Continue("state")
  PROVE  SmokeTypes'
  <1>1. upsets' \in 0 .. MaxUpsets
    BY UpsetsCounted
  <1>2. token' \in BOOLEAN /\ exit' \in {"none", "pass", "fail", "no_tool"}
    BY DEF SmokeTypes, ScriptTypes
  <1>3. QED
    BY <1>1, <1>2, QuietScript DEF Continue

(* The steps of the script. *)
LEMMA QuietTypesKept ==
  ASSUME SmokeTypes,
         \/ AcceptHostKey \/ RunCheck \/ RequestLost \/ Login \/ TakeToken
         \/ FindWgDashboard \/ CheckWgDashboard \/ CheckDormancy \/ Summary
  PROVE  SmokeTypes'
  <1>1. /\ PlaceInv /\ at \in 1 .. 28 /\ upsets \in 0 .. MaxUpsets
        /\ failed \in BOOLEAN /\ token \in BOOLEAN /\ webui \in BOOLEAN
        /\ exit \in {"none", "pass", "fail", "no_tool"}
    BY DEF SmokeTypes, ScriptTypes, BoxTypes
  <1>2. CASE AcceptHostKey
    <2>1. /\ UNCHANGED boxVars /\ UNCHANGED <<upsets, token, at, failed>>
          /\ UNCHANGED <<pre, polls, well, snapshot, read, late, claimed>>
          /\ step = "host_key" /\ (step' = step \/ step' = "check")
          /\ exit' \in {"none", "pass", "fail", "no_tool"}
      BY <1>1, <1>2 DEF AcceptHostKey, poller, ghosts
    <2>2. at = 1
      BY <1>1, <2>1 DEF PlaceInv
    <2>3. QED
      BY <1>1, <2>1, <2>2, QuietScript
  <1>3. CASE RunCheck
    <2>1. /\ UNCHANGED boxVars /\ UNCHANGED <<token, exit>>
          /\ UNCHANGED <<pre, polls, well, snapshot, read, late, claimed>>
          /\ at \in 1 .. 27 /\ (Answered \/ Lost)
          /\ \E passed \in BOOLEAN : Record(passed)
      <3>1. Verdict(Order[at]) \in BOOLEAN
        BY DEF Verdict
      <3>2. at \in 1 .. 27
        BY <1>1, <1>3, OrderIs DEF RunCheck
      <3>3. QED
        BY <1>3, <3>1, <3>2 DEF RunCheck, scriptRest, poller
    <2>2. QED
      BY <1>1, <2>1, RecordKept
  <1>4. CASE RequestLost
    <2>1. /\ UNCHANGED boxVars /\ UNCHANGED <<token, exit>>
          /\ UNCHANGED <<pre, polls, well, snapshot, read, late, claimed>>
          /\ at \in 1 .. 27 /\ Lost /\ Record(FALSE)
      <3>1. at \in 1 .. 27
        BY <1>1, <1>4, Places DEF RequestLost
      <3>2. QED
        BY <1>4, <3>1 DEF RequestLost, scriptRest, poller
    <2>2. QED
      BY <1>1, <2>1, RecordKept
  <1>5. CASE Login
    <2>1. /\ UNCHANGED boxVars /\ UNCHANGED <<token, exit>>
          /\ UNCHANGED <<pre, polls, well, snapshot, read, late, claimed>>
          /\ Answered \/ Lost
          /\ Continue("token") \/ Record(FALSE)
      BY <1>5 DEF Login, scriptRest, poller
    <2>2. at = 4
      BY <1>1, <1>5, Places DEF Login
    <2>3. CASE Record(FALSE)
      <3>1. \E passed \in BOOLEAN : Record(passed)
        BY <2>3
      <3>2. QED
        BY <1>1, <2>1, <2>2, <3>1, RecordKept
    <2>4. CASE Continue("token")
      BY <1>1, <2>1, <2>2, <2>4, ContinueKept
    <2>5. QED
      BY <2>1, <2>3, <2>4
  <1>6. CASE TakeToken
    <2>1. /\ UNCHANGED boxVars /\ UNCHANGED exit /\ token' \in BOOLEAN
          /\ UNCHANGED <<pre, polls, well, snapshot, read, late, claimed>>
          /\ Answered \/ Lost
          /\ \E passed \in BOOLEAN : Record(passed)
      BY <1>1, <1>6 DEF TakeToken, poller
    <2>2. at = 4
      BY <1>1, <1>6, Places DEF TakeToken
    <2>3. QED
      BY <1>1, <2>1, <2>2, RecordKept
  <1>7. CASE FindWgDashboard
    <2>1. /\ UNCHANGED boxVars /\ UNCHANGED <<token, exit>>
          /\ UNCHANGED <<pre, polls, well, snapshot, read, late, claimed>>
          /\ Answered \/ Lost
          /\ Continue("state") \/ Record(TRUE)
      BY <1>7 DEF FindWgDashboard, scriptRest, poller
    <2>2. at = 10
      BY <1>1, <1>7, Places DEF FindWgDashboard
    <2>3. CASE Record(TRUE)
      <3>1. \E passed \in BOOLEAN : Record(passed)
        BY <2>3
      <3>2. QED
        BY <1>1, <2>1, <2>2, <3>1, RecordKept
    <2>4. CASE Continue("state")
      BY <1>1, <2>1, <2>2, <2>4, ContinueKept
    <2>5. QED
      BY <2>1, <2>3, <2>4
  <1>8. CASE CheckWgDashboard
    <2>1. /\ UNCHANGED boxVars /\ UNCHANGED <<token, exit>>
          /\ UNCHANGED <<pre, polls, well, snapshot, read, late, claimed>>
          /\ Answered \/ Lost
          /\ \E passed \in BOOLEAN : Record(passed)
      <3>1. ("ppsa-wgdashboard" \in Running) \in BOOLEAN
        OBVIOUS
      <3>2. QED
        BY <1>8, <3>1 DEF CheckWgDashboard, scriptRest, poller
    <2>2. at = 10
      BY <1>1, <1>8, Places DEF CheckWgDashboard
    <2>3. QED
      BY <1>1, <2>1, <2>2, RecordKept
  <1>9. CASE CheckDormancy
    <2>1. /\ UNCHANGED boxVars /\ UNCHANGED <<token, exit>>
          /\ UNCHANGED <<pre, polls, well, snapshot, read, late, claimed>>
          /\ Answered \/ Lost
          /\ \E passed \in BOOLEAN : Record(passed)
      <3>1. (Api /\ WireguardStatus \notin {"active", "error 500"}) \in BOOLEAN
        OBVIOUS
      <3>2. QED
        BY <1>9, <3>1 DEF CheckDormancy, scriptRest, poller
    <2>2. at = 18
      <3>1. On("dormant", "check")
        BY <1>9 DEF CheckDormancy
      <3>2. QED
        BY <1>1, <3>1, Places
    <2>3. QED
      BY <1>1, <2>1, <2>2, RecordKept
  <1>10. CASE Summary
    <2>1. /\ UNCHANGED boxVars /\ UNCHANGED <<token, upsets, at, step, failed>>
          /\ UNCHANGED <<pre, polls, well, snapshot, read, late, claimed>>
          /\ exit' \in {"none", "pass", "fail", "no_tool"}
      BY <1>10 DEF Summary, progress, poller, ghosts
    <2>2. QED
      BY <1>1, <2>1, QuietScript
  <1>11. QED
    BY <1>2, <1>3, <1>4, <1>5, <1>6, <1>7, <1>8, <1>9, <1>10

LEMMA RecordGoesOn ==
  ASSUME failed \in BOOLEAN, \E passed \in BOOLEAN : Record(passed)
  PROVE  at' = at + 1 /\ step' = "check" /\ failed' \in BOOLEAN
  BY DEF Record

LEMMA ActingTypesKept ==
  ASSUME SmokeTypes, RunActingCheck
  PROVE  SmokeTypes'
  <1>1. /\ PlaceInv /\ NewestInv /\ BoxTypes /\ ScriptTypes
    BY DEF SmokeTypes
  <1>2. /\ UNCHANGED <<box, game, world, logged, webui, cache, page>>
        /\ UNCHANGED <<pre, polls, well, token, exit, snapshot, read, late, claimed>>
        /\ Answered \/ Lost
        /\ \E passed \in BOOLEAN : Record(passed)
    <2>1. Verdict(Order[at]) \in BOOLEAN
      BY DEF Verdict
    <2>2. QED
      BY <2>1 DEF RunActingCheck, gameState, process, scriptRest, poller
  <1>3. \/ at = 20 /\ step = "check" /\ (SaveFile \/ UNCHANGED store)
        \/ at = 23 /\ step = "check" /\ (TriggerBackup \/ UNCHANGED store)
    <2>1. \/ On("save_file", "check") /\ (SaveFile \/ UNCHANGED store)
          \/ On("trigger", "check") /\ (TriggerBackup \/ UNCHANGED store)
      BY DEF RunActingCheck
    <2>2. at \in Nat \ {0}
      BY <1>1 DEF ScriptTypes
    <2>3. QED
      BY <2>1, <2>2, Places DEF On
  <1>4. /\ at' = at + 1 /\ step' = "check" /\ failed' \in BOOLEAN
    BY <1>1, <1>2, RecordMoves DEF Record, ScriptTypes
  <1>5. /\ made' \in 0 .. MaxArchives /\ archives' \subseteq 1 .. made' /\ NewestInv'
        /\ jobs' \in 0 .. 1
        /\ at = 20 => jobs' = 0
    <2>1. jobs = 0
      BY <1>1, <1>3 DEF PlaceInv
    <2>2. CASE UNCHANGED store
      BY <1>1, <2>1, <2>2 DEF store, BoxTypes, NewestInv
    <2>3. CASE SaveFile
      BY <1>1, <2>1, <2>3, SmokeConstants DEF SaveFile, Archive, BoxTypes, NewestInv
    <2>4. CASE TriggerBackup /\ at = 23
      BY <1>1, <2>1, <2>4 DEF TriggerBackup, BoxTypes, NewestInv
    <2>5. QED
      BY <1>3, <2>2, <2>3, <2>4
  <1>6. upsets' \in 0 .. MaxUpsets
    BY <1>2, UpsetsCounted
  <1>7. BoxTypes'
    BY <1>1, <1>2, <1>5 DEF BoxTypes
  <1>8. ScriptTypes'
    BY <1>1, <1>2, <1>3, <1>4, <1>6 DEF ScriptTypes
  <1>9. PlaceInv'
    BY <1>3, <1>4, <1>5 DEF PlaceInv
  <1>10. QED
    BY <1>5, <1>7, <1>8, <1>9 DEF SmokeTypes

LEMMA PollingTypesKept ==
  ASSUME SmokeTypes, Snapshot \/ Pull \/ Poll
  PROVE  SmokeTypes'
  <1>1. /\ PlaceInv /\ NewestInv /\ BoxTypes /\ ScriptTypes /\ at \in Nat \ {0}
    BY DEF SmokeTypes, ScriptTypes
  <1>2. Answered \/ Lost => upsets' \in 0 .. MaxUpsets
    BY UpsetsCounted
  <1>3. CASE Snapshot
    <2>1. /\ UNCHANGED boxVars /\ UNCHANGED <<token, polls, exit, well, late, claimed>>
          /\ snapshot' = made /\ step' = "pull" /\ UNCHANGED <<at, failed>>
          /\ On("new_archive", "check") /\ (Answered \/ Lost)
          /\ \/ pre' = Listing /\ read' = TRUE
             \/ UNCHANGED <<pre, read>>
      BY <1>3 DEF Snapshot, SnapshotWith, Continue
    <2>2. at = 24 /\ step = "check"
      BY <1>1, <2>1, Places DEF On
    <2>3. pre' \subseteq 1 .. MaxArchives /\ read' \in BOOLEAN
      <3>1. Listing \subseteq archives
        BY DEF Listing
      <3>2. archives \subseteq 1 .. MaxArchives
        BY <1>1, SmokeConstants DEF BoxTypes
      <3>3. QED
        BY <1>1, <2>1, <3>1, <3>2 DEF ScriptTypes
    <2>4. BoxTypes' /\ NewestInv' /\ jobs' = jobs
      BY <1>1, <2>1 DEF BoxTypes, NewestInv, boxVars, gameState, store, process
    <2>5. ScriptTypes'
      BY <1>1, <1>2, <2>1, <2>2, <2>3 DEF ScriptTypes, BoxTypes
    <2>6. PlaceInv'
      BY <1>1, <2>1, <2>2, <2>4 DEF PlaceInv
    <2>7. QED
      BY <2>4, <2>5, <2>6 DEF SmokeTypes
  <1>4. CASE Pull
    <2>1. /\ UNCHANGED <<box, game, world, logged, webui, cache, page>>
          /\ UNCHANGED <<pre, polls, well, token, exit, snapshot, read, late, claimed>>
          /\ On("new_archive", "pull") /\ (Answered \/ Lost)
          /\ TriggerBackup \/ UNCHANGED store
          /\ \/ Continue("poll")
             \/ \E passed \in BOOLEAN : Record(passed)
      BY <1>4 DEF Pull, gameState, process, scriptRest, poller
    <2>2. at = 24 /\ step = "pull"
      BY <1>1, <2>1, Places DEF On
    <2>3. \/ at' = 24 /\ step' = "poll" /\ failed' \in BOOLEAN
          \/ at' = 25 /\ step' = "check" /\ failed' \in BOOLEAN
      <3>1. failed \in BOOLEAN
        BY <1>1 DEF ScriptTypes
      <3>2. CASE Continue("poll")
        BY <2>2, <3>1, <3>2 DEF Continue
      <3>3. CASE \E passed \in BOOLEAN : Record(passed)
        BY <2>2, <3>1, <3>3, RecordGoesOn
      <3>4. QED
        BY <2>1, <3>2, <3>3
    <2>4. jobs \in 0 .. 1
      BY <1>1, <2>2 DEF PlaceInv, BoxTypes
    <2>5. jobs' \in 0 .. 2 /\ UNCHANGED <<made, archives>>
      BY <2>1, <2>4 DEF TriggerBackup, store
    <2>6. BoxTypes' /\ NewestInv'
      BY <1>1, <2>1, <2>5 DEF BoxTypes, NewestInv
    <2>7. ScriptTypes'
      BY <1>1, <1>2, <2>1, <2>3 DEF ScriptTypes
    <2>8. PlaceInv'
      BY <2>3 DEF PlaceInv
    <2>9. QED
      BY <2>6, <2>7, <2>8 DEF SmokeTypes
  <1>5. CASE Poll
    <2>1. /\ UNCHANGED boxVars /\ UNCHANGED <<token, pre, exit, well, snapshot, read>>
          /\ On("new_archive", "poll") /\ (Answered \/ Lost)
          /\ \/ Continue("poll")
             \/ \E passed \in BOOLEAN : Record(passed)
          /\ claimed' = TRUE \/ claimed' = claimed
          /\ late' = late \/ late' = (jobs > 0)
          /\ polls' = polls \/ (polls < MaxPolls - 1 /\ polls' = polls + 1)
      BY <1>5 DEF Poll
    <2>2. at = 24 /\ step = "poll"
      BY <1>1, <2>1, Places DEF On
    <2>3. \/ at' = 24 /\ step' = "poll" /\ failed' \in BOOLEAN
          \/ at' = 25 /\ step' = "check" /\ failed' \in BOOLEAN
      <3>1. failed \in BOOLEAN
        BY <1>1 DEF ScriptTypes
      <3>2. CASE Continue("poll")
        BY <2>2, <3>1, <3>2 DEF Continue
      <3>3. CASE \E passed \in BOOLEAN : Record(passed)
        BY <2>2, <3>1, <3>3, RecordGoesOn
      <3>4. QED
        BY <2>1, <3>2, <3>3
    <2>4. BoxTypes' /\ NewestInv'
      BY <1>1, <2>1 DEF BoxTypes, NewestInv, boxVars, gameState, store, process
    <2>5. polls' \in 0 .. MaxPolls - 1
      BY <1>1, <2>1, SmokeConstants DEF ScriptTypes
    <2>6. late' \in BOOLEAN /\ claimed' \in BOOLEAN
      <3>1. claimed \in BOOLEAN /\ late \in BOOLEAN /\ (jobs > 0) \in BOOLEAN
        BY <1>1 DEF ScriptTypes
      <3>2. claimed' \in BOOLEAN
        BY <2>1, <3>1, Zenon
      <3>3. late' \in BOOLEAN
        BY <2>1, <3>1, Zenon
      <3>4. QED
        BY <3>2, <3>3
    <2>7. ScriptTypes'
      BY <1>1, <1>2, <2>1, <2>3, <2>5, <2>6 DEF ScriptTypes
    <2>8. PlaceInv'
      BY <2>3 DEF PlaceInv
    <2>9. QED
      BY <2>4, <2>7, <2>8 DEF SmokeTypes
  <1>6. QED
    BY <1>3, <1>4, <1>5

LEMMA SmokeTypesStep ==
  ASSUME SmokeTypes, [Next]_vars
  PROVE  SmokeTypes'
  <1>1. CASE Script
    BY <1>1, QuietTypesKept, ActingTypesKept, PollingTypesKept DEF Script
  <1>2. CASE Box
    <2>1. /\ UNCHANGED <<at, step, token, failed, pre, polls, exit>>
          /\ UNCHANGED <<well, snapshot, read, late, claimed>>
          /\ Settled \/ WebuiStarts \/ Disturbed
          /\ upsets' = upsets \/ Upset
      BY <1>2 DEF Box, progress, poller
    <2>2. BoxTypes' /\ NewestInv' /\ jobs' <= jobs
      BY <2>1, BoxTypesKept
    <2>3. upsets' \in 0 .. MaxUpsets
      BY <2>1, UpsetsCounted DEF SmokeTypes, ScriptTypes
    <2>4. ScriptTypes'
      BY <2>1, <2>3 DEF SmokeTypes, ScriptTypes
    <2>5. PlaceInv'
      <3>1. jobs \in Nat /\ jobs' \in Nat
        BY <2>2 DEF SmokeTypes, BoxTypes
      <3>2. QED
        BY <2>1, <2>2, <3>1 DEF SmokeTypes, PlaceInv
    <2>6. QED
      BY <2>2, <2>4, <2>5 DEF SmokeTypes
  <1>3. CASE UNCHANGED vars
    BY <1>3 DEF vars, boxVars, gameState, store, process, progress, poller, ghosts,
                SmokeTypes, BoxTypes, ScriptTypes, PlaceInv, NewestInv
  <1>4. QED
    BY <1>1, <1>2, <1>3 DEF Next

LEMMA SmokeTypesInit == Init => SmokeTypes
  <1> SUFFICES ASSUME Init PROVE SmokeTypes
    OBVIOUS
  <1>1. BoxTypes /\ NewestInv /\ jobs = 0
    <2>1. /\ box \in Boxes /\ game \in {"starting", "serving", "exited"}
          /\ jobs = 0 /\ made \in {0, Shown + 1} /\ archives = 1 .. made
          /\ page = "unavailable"
      BY DEF Init, BoxInit
    <2>2. webui \in BOOLEAN /\ cache \in BOOLEAN
      BY Zenon DEF Init, BoxInit
    <2>3. world \in BOOLEAN /\ logged \in BOOLEAN
      BY Zenon DEF Init, BoxInit
    <2>4. made \in 0 .. MaxArchives
      BY <2>1, SmokeConstants
    <2>5. made = 0 \/ made \in archives
      BY <2>1, <2>4
    <2>6. QED
      BY <2>1, <2>2, <2>3, <2>4, <2>5 DEF BoxTypes, NewestInv
  <1>2. ScriptTypes
    <2>1. well \in BOOLEAN
      BY Zenon DEF Init, Healthy, Sound
    <2>2. /\ token \in BOOLEAN /\ failed \in BOOLEAN /\ read \in BOOLEAN
          /\ late \in BOOLEAN /\ claimed \in BOOLEAN
      BY Zenon DEF Init
    <2>3. /\ at = 1 /\ step = "host_key" /\ pre = {} /\ polls = 0
          /\ exit = "none" /\ upsets = 0 /\ snapshot = 0
      BY DEF Init
    <2>4. QED
      BY <2>1, <2>2, <2>3, SmokeConstants DEF ScriptTypes
  <1>3. PlaceInv
    BY <1>1 DEF Init, PlaceInv
  <1>4. QED
    BY <1>1, <1>2, <1>3 DEF SmokeTypes

LEMMA SmokeTypesInvariant == Spec => []SmokeTypes
  <1>1. SmokeTypes /\ [Next]_vars => SmokeTypes'
    BY SmokeTypesStep
  <1>2. QED
    BY <1>1, SmokeTypesInit, PTL DEF Spec

(* Whatever is asked, lost and disturbed, no counter of the run leaves its *)
(* range: never more than two backups at once, and each at its place.      *)
THEOREM SmokeTypeCorrect == Spec => []TypeOK
  <1>1. SmokeTypes => TypeOK
    BY TypesAreThose DEF SmokeTypes
  <1>2. QED
    BY <1>1, SmokeTypesInvariant, PTL

-----------------------------------------------------------------------------
(* What the checks before the one in hand have seen of the box, if none of *)
(* them failed.                                                            *)
Seen(k) ==
  /\ k > 2 => box.sudo
  /\ k > 4 => box.default
  /\ k > 8 => "ppsa-backup" \notin box.down
  /\ k > 9 => "ppsa-watchtower" \notin box.down
  /\ k > 10 => box.dashboard # "exited" \/ upsets > 0
  /\ k > 13 => box.df
  /\ k > 14 => box.chain
  /\ k > 16 => box.netbird \in {"joining", "on"}
  /\ k > 18 => box.wg \notin {"bad_json", "handshake"}
  /\ k > 27 => box.config = "good"

FlawInv ==
  /\ ~failed => Seen(at)
  /\ step = "token" => box.default
  /\ step = "state" => box.dashboard # "absent"
  /\ exit = "pass" => at = 28 /\ ~failed
  /\ exit = "fail" => failed

(* What the check in hand adds to that when it passes.                     *)
Learnt ==
  /\ at = 2 => box.sudo
  /\ at = 4 => box.default
  /\ at = 8 => "ppsa-backup" \notin box.down
  /\ at = 9 => "ppsa-watchtower" \notin box.down
  /\ at = 10 => box.dashboard # "exited" \/ upsets' > 0
  /\ at = 13 => box.df
  /\ at = 14 => box.chain
  /\ at = 16 => box.netbird \in {"joining", "on"}
  /\ at = 18 => box.wg \notin {"bad_json", "handshake"}
  /\ at = 27 => box.config = "good"

LEMMA BoxIsOneOfBoxes ==
  ASSUME SmokeTypes
  PROVE  /\ box \in BoxType
         /\ at \in 1 .. 28 /\ upsets \in Nat /\ webui \in BOOLEAN /\ well \in BOOLEAN
         /\ failed \in BOOLEAN /\ exit \in {"none", "pass", "fail", "no_tool"}
         /\ step \in {"host_key", "check", "token", "state", "pull", "poll"}
  BY BoxAssumption, SmokeConstants DEF SmokeTypes, BoxTypes, ScriptTypes

(* The box is the same all along, and what was upset stays so.             *)
LEMMA SameBox ==
  ASSUME SmokeTypes, [Next]_vars
  PROVE  box' = box /\ well' = well /\ (upsets > 0 => upsets' > 0) /\ upsets' \in Nat
  <1>1. upsets \in 0 .. MaxUpsets /\ MaxUpsets \in Nat
    BY SmokeConstants DEF SmokeTypes, ScriptTypes
  <1>2. Answered \/ Lost \/ Upset => (upsets > 0 => upsets' > 0) /\ upsets' \in Nat
    BY <1>1 DEF Answered, Lost, Upset
  <1>3. CASE Box
    <2>1. box' = box
      BY <1>3 DEF Box, Settled, Disturbed, BackupBegins, BackupEnds, BackupFails, LogScrolls,
                  Dashboard, WebuiStops, WebuiStarts, GameServes, GameStops, GameRestarts
    <2>2. well' = well /\ (Answered \/ Upset)
      BY <1>3 DEF Box, Answered
    <2>3. QED
      BY <1>2, <2>1, <2>2
  <1>4. CASE Script
    <2>1. CASE AcceptHostKey \/ Summary
      BY <1>1, <2>1 DEF AcceptHostKey, Summary, boxVars, ghosts
    <2>2. CASE RunCheck \/ RequestLost \/ Login
      BY <1>2, <2>2 DEF RunCheck, RequestLost, Login, boxVars, scriptRest
    <2>3. CASE TakeToken \/ FindWgDashboard \/ CheckWgDashboard
      BY <1>2, <2>3 DEF TakeToken, FindWgDashboard, CheckWgDashboard, boxVars, scriptRest
    <2>4. CASE CheckDormancy \/ Snapshot \/ Poll
      BY <1>2, <2>4 DEF CheckDormancy, Snapshot, SnapshotWith, Poll, boxVars, scriptRest
    <2>5. CASE RunActingCheck \/ Pull
      BY <1>2, <2>5 DEF RunActingCheck, Pull, scriptRest
    <2>6. QED
      BY <1>4, <2>1, <2>2, <2>3, <2>4, <2>5 DEF Script
  <1>5. CASE UNCHANGED vars
    BY <1>1, <1>5 DEF vars, boxVars, ghosts
  <1>6. QED
    BY <1>3, <1>4, <1>5 DEF Next

LEMMA FlawStays ==
  ASSUME FlawInv, box' = box, UNCHANGED <<at, failed, exit>>, upsets > 0 => upsets' > 0,
         step' = "token" => box.default,
         step' = "state" => box.dashboard # "absent"
  PROVE  FlawInv'
  BY DEF FlawInv, Seen

LEMMA FlawMoves ==
  ASSUME FlawInv, box' = box, exit = "none", exit' = exit, upsets > 0 => upsets' > 0,
         at \in 1 .. 27, NEW passed \in BOOLEAN, Record(passed), passed /\ ~failed => Learnt
  PROVE  FlawInv'
  <1>1. at' = at + 1 /\ step' = "check" /\ (failed' <=> failed \/ ~passed)
    BY RecordMoves
  <1>2. ASSUME ~failed' PROVE Seen(at)'
    <2>1. Seen(at) /\ Learnt
      BY <1>1, <1>2 DEF FlawInv
    <2>2. QED
      BY <1>1, <2>1 DEF Seen, Learnt
  <1>3. QED
    BY <1>1, <1>2 DEF FlawInv

(* A check that only asks passes if what it looks at is in order.          *)
LEMMA VerdictLearns ==
  ASSUME at \in 1 .. 27, Verdict(Order[at]), Order[at] \in Asked
  PROVE  Learnt
  <1>1. at \notin {4, 10, 18}
    BY AskedIs, OrderIs
  <1>2. /\ (at = 2 => Verdict("sudo")) /\ (at = 8 => Verdict("backup"))
        /\ (at = 9 => Verdict("watchtower")) /\ (at = 13 => Verdict("disk"))
        /\ (at = 14 => Verdict("chain")) /\ (at = 16 => Verdict("netbird"))
        /\ (at = 27 => Verdict("config"))
    BY OrderIs
  <1>3. /\ "ppsa-backup" \in Running => "ppsa-backup" \notin box.down
        /\ "ppsa-watchtower" \in Running => "ppsa-watchtower" \notin box.down
    BY DEF Running
  <1>4. QED
    BY <1>1, <1>2, <1>3, VerdictIs DEF Learnt

LEMMA FlawStep ==
  ASSUME SmokeTypes, FlawInv, [Next]_vars
  PROVE  FlawInv'
  <1>1. /\ at \in 1 .. 28 /\ at \in Nat \ {0} /\ box \in BoxType /\ webui \in BOOLEAN
        /\ box' = box /\ (upsets > 0 => upsets' > 0)
    BY SameBox, BoxIsOneOfBoxes
  <1>2. ASSUME NEW check, NEW s, On(check, s)
        PROVE  at \in 1 .. 27 /\ exit = "none" /\ step = s
    BY <1>1, <1>2, Place
  <1>3. ASSUME at \in 1 .. 27, exit = "none", exit' = exit,
               at \notin {2, 4, 8, 9, 10, 13, 14, 16, 18, 27},
               \E passed \in BOOLEAN : Record(passed)
        PROVE  FlawInv'
    <2>1. Learnt
      BY <1>3 DEF Learnt
    <2>2. QED
      BY <1>1, <1>3, <2>1, FlawMoves
  <1>4. ASSUME at \in 1 .. 27, exit = "none", exit' = exit, Record(FALSE)
        PROVE  FlawInv'
    <2>1. \E passed \in BOOLEAN : Record(passed) /\ ~passed
      BY <1>4
    <2>2. QED
      BY <1>1, <1>4, <2>1, FlawMoves
  <1>5. ASSUME UNCHANGED <<at, failed, exit>>, step' \in {step, "check", "pull", "poll"}
        PROVE  FlawInv'
    BY <1>1, <1>5, FlawStays DEF FlawInv
  <1>6. CASE Box \/ UNCHANGED vars
    BY <1>5, <1>6 DEF Box, vars, progress
  <1>7. CASE AcceptHostKey
    <2>1. UNCHANGED <<at, failed>> /\ step' \in {step, "check"} /\ exit' \in {exit, "no_tool"}
      BY <1>7 DEF AcceptHostKey
    <2>2. QED
      BY <1>1, <2>1 DEF FlawInv, Seen
  <1>8. CASE RunCheck
    <2>1. at \in 1 .. 27 /\ exit = "none" /\ exit' = exit /\ Order[at] \in Asked
      BY <1>1, <1>8, OrderIs DEF RunCheck, scriptRest
    <2>2. CASE Record(FALSE)
      BY <1>4, <2>1, <2>2
    <2>3. CASE Record(Verdict(Order[at]))
      <3>1. PICK passed \in BOOLEAN : Record(passed) /\ (passed <=> Verdict(Order[at]))
        <4>1. Verdict(Order[at]) \in BOOLEAN
          BY DEF Verdict
        <4>2. QED
          BY <2>3, <4>1
      <3>2. passed => Learnt
        BY <2>1, <3>1, VerdictLearns
      <3>3. QED
        BY <1>1, <2>1, <3>1, <3>2, FlawMoves
    <2>4. QED
      BY <1>8, <2>2, <2>3 DEF RunCheck
  <1>9. CASE RunActingCheck \/ RequestLost
    <2>1. /\ \E passed \in BOOLEAN : Record(passed)
          /\ On("save_file", "check") \/ On("trigger", "check")
          /\ exit' = exit
      <3>1. Verdict(Order[at]) \in BOOLEAN
        BY DEF Verdict
      <3>2. QED
        BY <1>9, <3>1 DEF RunActingCheck, RequestLost, scriptRest
    <2>2. at \in {20, 23}
      BY <1>1, <2>1, Places
    <2>3. QED
      BY <1>2, <1>3, <2>1, <2>2
  <1>10. CASE Login
    <2>1. On("login", "check") /\ exit' = exit
      BY <1>10 DEF Login, scriptRest
    <2>2. \/ webui /\ box.default /\ Continue("token")
          \/ Record(FALSE)
      BY <1>10 DEF Login
    <2>3. CASE Record(FALSE)
      BY <1>2, <1>4, <2>1, <2>3
    <2>4. CASE box.default /\ Continue("token")
      BY <1>1, <2>1, <2>4, FlawStays DEF Continue
    <2>5. QED
      BY <2>2, <2>3, <2>4
  <1>11. CASE TakeToken
    <2>1. On("login", "token") /\ exit' = exit /\ (\E passed \in BOOLEAN : Record(passed))
      BY <1>1, <1>11 DEF TakeToken
    <2>2. at = 4 /\ step = "token" /\ exit = "none"
      BY <1>1, <1>2, <2>1, Places
    <2>3. Learnt
      BY <2>2 DEF Learnt, FlawInv
    <2>4. QED
      BY <1>1, <2>1, <2>2, <2>3, FlawMoves
  <1>12. CASE FindWgDashboard
    <2>1. On("wgdashboard", "check") /\ exit' = exit
      BY <1>12 DEF FindWgDashboard, scriptRest
    <2>2. at = 10 /\ exit = "none"
      BY <1>1, <1>2, <2>1, Places
    <2>3. \/ box.dashboard # "absent" /\ Continue("state")
          \/ Record(TRUE) /\ ((box.sudo => box.dashboard = "absent") \/ Lost)
      BY <1>12 DEF FindWgDashboard
    <2>4. CASE box.dashboard # "absent" /\ Continue("state")
      BY <1>1, <2>1, <2>4, FlawStays DEF Continue
    <2>5. CASE Record(TRUE) /\ ((box.sudo => box.dashboard = "absent") \/ Lost)
      <3>1. Lost => upsets' > 0
        BY UpsetsCounted
      <3>2. ~failed => box.sudo
        BY <2>2 DEF FlawInv, Seen
      <3>3. ~failed => Learnt
        BY <2>2, <2>5, <3>1, <3>2 DEF Learnt
      <3>4. \E passed \in BOOLEAN : Record(passed)
        BY <2>5
      <3>5. QED
        BY <1>1, <2>1, <2>2, <3>3, <3>4, FlawMoves
    <2>6. QED
      BY <2>3, <2>4, <2>5
  <1>13. CASE CheckWgDashboard
    <2>1. On("wgdashboard", "state") /\ exit' = exit
      BY <1>13 DEF CheckWgDashboard, scriptRest
    <2>2. at = 10 /\ exit = "none"
      BY <1>1, <1>2, <2>1, Places
    <2>3. PICK passed \in BOOLEAN : Record(passed) /\ (passed => "ppsa-wgdashboard" \in Running)
      <3>1. ("ppsa-wgdashboard" \in Running) \in BOOLEAN
        OBVIOUS
      <3>2. QED
        BY <1>13, <3>1 DEF CheckWgDashboard
    <2>4. "ppsa-wgdashboard" \in Running => box.dashboard = "running"
      BY DEF Running
    <2>5. passed => Learnt
      BY <2>2, <2>3, <2>4 DEF Learnt
    <2>6. QED
      BY <1>1, <2>1, <2>2, <2>3, <2>5, FlawMoves
  <1>14. CASE CheckDormancy
    <2>1. On("dormant", "check") /\ exit' = exit
      BY <1>14 DEF CheckDormancy, scriptRest
    <2>2. at = 18 /\ exit = "none"
      BY <1>1, <1>2, <2>1, Places
    <2>3. PICK passed \in BOOLEAN :
            Record(passed) /\ (passed => box.wg \notin {"bad_json", "handshake"})
      <3>1. (Api /\ WireguardStatus \notin {"active", "error 500"}) \in BOOLEAN
        OBVIOUS
      <3>2. WireguardStatus \notin {"active", "error 500"}
              => box.wg \notin {"bad_json", "handshake"}
        BY DEF WireguardStatus
      <3>3. Record(FALSE) \/ Record(Api /\ WireguardStatus \notin {"active", "error 500"})
        BY <1>14 DEF CheckDormancy
      <3>4. QED
        BY <3>1, <3>2, <3>3
    <2>4. passed => Learnt
      BY <2>2, <2>3 DEF Learnt
    <2>5. Record(passed) /\ passed \in BOOLEAN
      BY <2>3
    <2>6. QED
      BY <1>1, <2>1, <2>2, <2>4, <2>5, FlawMoves
  <1>15. CASE Snapshot
    BY <1>5, <1>15 DEF Snapshot, SnapshotWith, Continue
  <1>16. CASE Pull \/ Poll
    <2>1. /\ On("new_archive", "pull") \/ On("new_archive", "poll")
          /\ exit' = exit
          /\ Continue("poll") \/ (\E passed \in BOOLEAN : Record(passed))
      BY <1>16 DEF Pull, Poll, scriptRest
    <2>2. at = 24 /\ exit = "none"
      BY <1>1, <1>2, <2>1, Places
    <2>3. CASE Continue("poll")
      BY <1>5, <2>1, <2>3 DEF Continue
    <2>4. CASE \E passed \in BOOLEAN : Record(passed)
      BY <1>3, <2>1, <2>2, <2>4
    <2>5. QED
      BY <2>1, <2>3, <2>4
  <1>17. CASE Summary
    <2>1. UNCHANGED <<at, step, failed, upsets>> /\ at = 28
          /\ exit' = IF failed THEN "fail" ELSE "pass"
      BY <1>17, OrderIs DEF Summary, progress, ghosts
    <2>2. QED
      BY <1>1, <2>1 DEF FlawInv, Seen
  <1>18. QED
    BY <1>6, <1>7, <1>8, <1>9, <1>10, <1>11, <1>12, <1>13, <1>14, <1>15, <1>16, <1>17
       DEF Next, Script

LEMMA FlawInvariant == Spec => []FlawInv
  <1>1. Init => FlawInv
    BY DEF Init, FlawInv, Seen
  <1>2. SmokeTypes /\ FlawInv /\ [Next]_vars => FlawInv'
    BY FlawStep
  <1>3. QED
    BY <1>1, <1>2, SmokeTypesInvariant, PTL DEF Spec

(* No box is caught while NetBird still joins: for those FlawIsSeen and    *)
(* VerdictIsExact are false, and the address is what shows it.             *)
NoneJoins == \A b \in Boxes : b.netbird # "joining"

LEMMA PassIsSound ==
  ASSUME NoneJoins, SmokeTypes, FlawInv, exit = "pass"
  PROVE  Sound \/ (box.dashboard = "exited" /\ upsets > 0)
  <1>1. Seen(28) /\ box \in BoxType /\ box.netbird # "joining"
    BY BoxIsOneOfBoxes DEF FlawInv, NoneJoins, SmokeTypes, BoxTypes
  <1>2. box.down = {}
    BY <1>1 DEF Seen, BoxType
  <1>3. QED
    BY <1>1, <1>2 DEF Seen, Sound

(* Whatever is lost or goes down and up again during a run, no box passes  *)
(* that is wrong for good in something the checks look at, but for an      *)
(* exited wgdashboard whose answer was lost (script, 600-618).             *)
THEOREM FlawsAreSeen == ASSUME NoneJoins PROVE Spec => []FlawIsSeen
  <1>1. SmokeTypes /\ FlawInv => FlawIsSeen
    BY PassIsSound DEF FlawIsSeen
  <1>2. QED
    BY <1>1, SmokeTypesInvariant, FlawInvariant, PTL

-----------------------------------------------------------------------------
(* As long as nothing is lost and nothing disturbs the box: it was healthy *)
(* if it is sound and its game serves, which no check changes before the   *)
(* last guard has its backup made, ...                                     *)
CalmInv ==
  /\ well => Sound
  /\ upsets = 0 =>
       /\ webui
       /\ at < 24 => (well <=> Sound /\ game = "serving")
       /\ at > 22 /\ ~failed => (well <=> Sound)

(* ... and then no check of a healthy one fails but the last guard, and    *)
(* that only if the backup takes too long.                                 *)
WellInv ==
  upsets = 0 /\ well =>
    /\ world
    /\ at > 4 => token
    /\ at = 21 => archives # {}
    /\ step \in {"pull", "poll"} => pre \subseteq 1 .. snapshot
    /\ step = "poll" => jobs > 0 \/ made > snapshot
    /\ failed => late

LEMMA SoundStays ==
  ASSUME box' = box
  PROVE  Sound' = Sound
  BY DEF Sound

(* The script leaves the box's programs alone, and gets past the check     *)
(* that the game's API answers only when it does.                          *)
LEMMA ScriptMoves ==
  ASSUME SmokeTypes, Script
  PROVE  /\ UNCHANGED <<webui, game, world>>
         /\ at' = at \/ at' = at + 1
         /\ failed => failed'
         /\ at = 22 /\ at' = 23 /\ ~failed' => game = "serving"
  <1>1. at \in 1 .. 28 /\ at \in Nat \ {0}
    BY BoxIsOneOfBoxes
  <1>2. ASSUME \E passed \in BOOLEAN : Record(passed), at # 22, UNCHANGED <<webui, game, world>>
        PROVE  /\ UNCHANGED <<webui, game, world>>
               /\ at' = at \/ at' = at + 1
               /\ failed => failed'
               /\ at = 22 /\ at' = 23 /\ ~failed' => game = "serving"
    BY <1>1, <1>2, RecordMoves
  <1>3. ASSUME UNCHANGED <<at, failed, webui, game, world>>
        PROVE  /\ UNCHANGED <<webui, game, world>>
               /\ at' = at \/ at' = at + 1
               /\ failed => failed'
               /\ at = 22 /\ at' = 23 /\ ~failed' => game = "serving"
    BY <1>1, <1>3
  <1>4. CASE AcceptHostKey \/ Summary \/ Snapshot
    BY <1>3, <1>4 DEF AcceptHostKey, Summary, Snapshot, SnapshotWith, Continue, boxVars,
                      gameState, process, progress
  <1>5. CASE RunCheck
    <2>1. UNCHANGED <<webui, game, world>> /\ at \in 1 .. 27
      BY <1>1, <1>5, OrderIs DEF RunCheck, boxVars, gameState, process
    <2>2. PICK passed \in BOOLEAN : Record(passed) /\ (passed => Verdict(Order[at]))
      <3>1. Verdict(Order[at]) \in BOOLEAN
        BY DEF Verdict
      <3>2. Record(FALSE) \/ Record(Verdict(Order[at]))
        BY <1>5 DEF RunCheck
      <3>3. QED
        BY <3>1, <3>2
    <2>3. at = 22 => Order[at] = "save_world"
      BY OrderIs
    <2>4. at = 22 /\ passed => game = "serving"
      BY <2>2, <2>3, VerdictIs
    <2>5. at' = at + 1 /\ (failed' <=> failed \/ ~passed)
      BY <2>2, RecordMoves
    <2>6. QED
      BY <2>1, <2>4, <2>5
  <1>6. CASE RunActingCheck \/ RequestLost
    <2>1. /\ \E passed \in BOOLEAN : Record(passed)
          /\ On("save_file", "check") \/ On("trigger", "check")
          /\ UNCHANGED <<webui, game, world>>
      <3>1. Verdict(Order[at]) \in BOOLEAN
        BY DEF Verdict
      <3>2. QED
        BY <1>6, <3>1 DEF RunActingCheck, RequestLost, boxVars, gameState, process
    <2>2. QED
      BY <1>1, <1>2, <2>1, Places
  <1>7. CASE Login \/ FindWgDashboard
    <2>1. /\ Continue("token") \/ Continue("state") \/ (\E passed \in BOOLEAN : Record(passed))
          /\ On("login", "check") \/ On("wgdashboard", "check")
          /\ UNCHANGED <<webui, game, world>>
      BY <1>7 DEF Login, FindWgDashboard, boxVars, gameState, process
    <2>2. QED
      BY <1>1, <1>2, <1>3, <2>1, Places DEF Continue
  <1>8. CASE TakeToken \/ CheckWgDashboard \/ CheckDormancy
    <2>1. /\ \E passed \in BOOLEAN : Record(passed)
          /\ On("login", "token") \/ On("wgdashboard", "state") \/ On("dormant", "check")
          /\ UNCHANGED <<webui, game, world>>
      <3>1. /\ ("ppsa-wgdashboard" \in Running) \in BOOLEAN /\ webui \in BOOLEAN
            /\ (Api /\ WireguardStatus \notin {"active", "error 500"}) \in BOOLEAN
        BY BoxIsOneOfBoxes
      <3>2. \E passed \in BOOLEAN : Record(passed)
        BY <1>8, <3>1 DEF TakeToken, CheckWgDashboard, CheckDormancy
      <3>3. QED
        BY <1>8, <3>2 DEF TakeToken, CheckWgDashboard, CheckDormancy, boxVars, gameState, process
    <2>2. QED
      BY <1>1, <1>2, <2>1, Places
  <1>9. CASE Pull \/ Poll
    <2>1. /\ Continue("poll") \/ (\E passed \in BOOLEAN : Record(passed))
          /\ On("new_archive", "pull") \/ On("new_archive", "poll")
          /\ UNCHANGED <<webui, game, world>>
      BY <1>9 DEF Pull, Poll, boxVars, gameState, process
    <2>2. QED
      BY <1>1, <1>2, <1>3, <2>1, Places DEF Continue
  <1>10. QED
    BY <1>4, <1>5, <1>6, <1>7, <1>8, <1>9 DEF Script

LEMMA CalmStep ==
  ASSUME SmokeTypes, CalmInv, [Next]_vars
  PROVE  CalmInv'
  <1>1. /\ at \in 1 .. 28 /\ upsets \in Nat /\ failed \in BOOLEAN /\ well \in BOOLEAN
        /\ box' = box /\ well' = well /\ (upsets > 0 => upsets' > 0) /\ Sound' = Sound
    BY BoxIsOneOfBoxes, SameBox, SoundStays
  <1>2. well' => Sound'
    BY <1>1 DEF CalmInv
  <1>3. SUFFICES ASSUME upsets' = 0
                 PROVE  /\ webui'
                        /\ at' < 24 => (well' <=> Sound' /\ game' = "serving")
                        /\ at' > 22 /\ ~failed' => (well' <=> Sound')
    BY <1>2 DEF CalmInv
  <1>4. /\ upsets = 0 /\ webui
        /\ at < 24 => (well <=> Sound /\ game = "serving")
        /\ at > 22 /\ ~failed => (well <=> Sound)
    BY <1>1, <1>3 DEF CalmInv
  <1>5. CASE Script
    BY <1>1, <1>4, <1>5, ScriptMoves
  <1>6. CASE Box
    <2>1. /\ UNCHANGED <<at, failed>> /\ (Settled \/ WebuiStarts)
      BY <1>3, <1>4, <1>6, UpsetsCounted DEF Box, progress
    <2>2. webui'
      BY <1>4, <2>1 DEF Settled, WebuiStarts, BackupBegins, BackupEnds, LogScrolls, Dashboard,
                        process
    <2>3. at < 24 => jobs = 0
      BY DEF SmokeTypes, PlaceInv
    <2>4. jobs = 0 => game' = game
      BY <2>1 DEF Settled, WebuiStarts, BackupBegins, BackupEnds, LogScrolls, Dashboard, gameState
    <2>5. QED
      BY <1>1, <1>4, <2>1, <2>2, <2>3, <2>4
  <1>7. CASE UNCHANGED vars
    BY <1>1, <1>4, <1>7 DEF vars, boxVars, gameState, process, progress
  <1>8. QED
    BY <1>5, <1>6, <1>7 DEF Next

(* docker ps of a healthy box lists at least four containers.              *)
LEMMA SoundRuns ==
  ASSUME box \in BoxType, Sound, webui, game = "serving"
  PROVE  /\ Cardinality(Running) \in Nat /\ Cardinality(Running) >= 4
         /\ {"ppsa-palworld-rest-proxy", "ppsa-backup", "ppsa-watchtower", "ppsa-webui",
             "ppsa-palworld"} \subseteq Running
  <1> DEFINE all == {"ppsa-palworld-rest-proxy", "ppsa-backup", "ppsa-watchtower",
                     "ppsa-webui", "ppsa-palworld"}
             more == {"ppsa-wgdashboard"}
             four == {"ppsa-palworld-rest-proxy", "ppsa-backup", "ppsa-watchtower"}
  <1>1. all \subseteq Running /\ Running \subseteq all \cup more
    BY DEF Running, Sound
  <1>2. IsFiniteSet({}) /\ Cardinality({}) = 0
    BY FS_EmptySet
  <1> DEFINE s1 == {} \cup {"ppsa-palworld-rest-proxy"}
             s2 == s1 \cup {"ppsa-backup"}
             s3 == s2 \cup {"ppsa-watchtower"}
             s4 == s3 \cup {"ppsa-webui"}
             s5 == s4 \cup {"ppsa-palworld"}
             s6 == s5 \cup {"ppsa-wgdashboard"}
  <1>3. IsFiniteSet(s1) /\ Cardinality(s1) = 1
    BY <1>2, FS_AddElement
  <1>4. IsFiniteSet(s2) /\ Cardinality(s2) = 2
    <2>1. "ppsa-backup" \notin s1
      OBVIOUS
    <2> HIDE DEF s1
    <2>2. QED
      BY <1>3, <2>1, FS_AddElement
  <1>5. IsFiniteSet(s3) /\ Cardinality(s3) = 3
    <2>1. "ppsa-watchtower" \notin s2
      OBVIOUS
    <2> HIDE DEF s2
    <2>2. QED
      BY <1>4, <2>1, FS_AddElement
  <1>6. IsFiniteSet(s4) /\ Cardinality(s4) = 4
    <2>1. "ppsa-webui" \notin s3
      OBVIOUS
    <2> HIDE DEF s3
    <2>2. QED
      BY <1>5, <2>1, FS_AddElement
  <1>7. IsFiniteSet(s6)
    <2> HIDE DEF s4
    <2>1. IsFiniteSet(s5)
      BY <1>6, FS_AddElement
    <2> HIDE DEF s5
    <2>2. QED
      BY <2>1, FS_AddElement
  <1>8. s4 \subseteq Running /\ Running \subseteq s6
    BY <1>1
  <1> HIDE DEF s4, s6
  <1>9. IsFiniteSet(Running) /\ Cardinality(s4) <= Cardinality(Running)
    BY <1>7, <1>8, FS_Subset
  <1>10. Cardinality(Running) \in Nat
    BY <1>9, FS_CardinalityType
  <1>11. QED
    BY <1>1, <1>6, <1>9, <1>10

(* No check of a healthy box that only asks fails.                         *)
LEMMA WellVerdicts ==
  ASSUME SmokeTypes, CalmInv, WellInv, upsets = 0, well
  PROVE  /\ Sound /\ webui /\ world /\ (at > 4 => Api)
         /\ at \in 1 .. 27 /\ Order[at] \in Asked => Verdict(Order[at])
  <1>1. /\ box \in BoxType /\ at \in 1 .. 28
        /\ Sound /\ webui /\ world /\ (at > 4 => Api) /\ (at < 24 => game = "serving")
        /\ at = 21 => archives # {}
    BY BoxIsOneOfBoxes DEF CalmInv, WellInv, Api
  <1>2. SUFFICES ASSUME at \in 1 .. 27, Order[at] \in Asked PROVE Verdict(Order[at])
    BY <1>1
  <1>3. CASE at < 5
    <2>1. Order[at] \in {"ssh", "sudo", "health", "login"}
      BY <1>2, <1>3 DEF Order
    <2>2. Order[at] \in {"ssh", "sudo", "health"}
      BY <1>2, <2>1, AskedIs
    <2>3. Verdict("ssh") /\ Verdict("sudo") /\ Verdict("health")
      BY <1>1, VerdictIs DEF Sound
    <2>4. QED
      BY <2>2, <2>3
  <1>4. CASE at \in 5 .. 10
    <2>1. Order[at] \in {"count", "webui", "palworld", "backup", "watchtower", "wgdashboard"}
      BY <1>4 DEF Order
    <2>2. Order[at] \in {"count", "webui", "palworld", "backup", "watchtower"}
      BY <1>2, <2>1, AskedIs
    <2>3. /\ box.sudo /\ Cardinality(Running) >= 4
          /\ {"ppsa-palworld-rest-proxy", "ppsa-backup", "ppsa-watchtower", "ppsa-webui",
              "ppsa-palworld"} \subseteq Running
      BY <1>1, <1>4, SoundRuns DEF Sound
    <2>4. Running \cap {"ppsa-palworld", "ppsa-palworld-rest-proxy"} # {}
      BY <2>3
    <2>5. /\ Verdict("count") /\ Verdict("webui") /\ Verdict("palworld")
          /\ Verdict("backup") /\ Verdict("watchtower")
      BY <2>3, <2>4, VerdictIs
    <2>6. QED
      BY <2>2, <2>5
  <1>5. CASE at \in 11 .. 18
    <2>1. Order[at] \in {"cores", "memory", "disk", "chain", "rules", "netbird", "netbird_ip",
                         "dormant"}
      BY <1>5 DEF Order
    <2>2. Order[at] \in {"cores", "memory", "disk", "chain", "rules", "netbird", "netbird_ip"}
      BY <1>2, <2>1, AskedIs
    <2>3. Api /\ box.df /\ box.chain /\ box.netbird = "on"
      BY <1>1, <1>5 DEF Sound
    <2>4. /\ Verdict("cores") /\ Verdict("memory") /\ Verdict("disk") /\ Verdict("chain")
          /\ Verdict("rules") /\ Verdict("netbird") /\ Verdict("netbird_ip")
      BY <2>3, VerdictIs
    <2>5. QED
      BY <2>2, <2>4
  <1>6. CASE at \in 19 .. 24
    <2>1. Order[at] \in {"status", "save_file", "listed", "save_world", "trigger", "new_archive"}
      BY <1>6 DEF Order
    <2>2. Order[at] \in {"status", "save_file", "listed", "save_world", "trigger"}
      BY <1>2, <2>1, AskedIs
    <2>3. /\ Order[at] = "listed" => at = 21
          /\ Order[at] # "new_archive" => at < 24
      BY <1>2, <1>6, OrderIs
    <2>4. Api /\ world /\ game = "serving" /\ (Order[at] = "listed" => archives # {})
      BY <1>1, <1>6, <2>2, <2>3
    <2>5. /\ Verdict("status") /\ Verdict("save_file") /\ Verdict("save_world")
          /\ Verdict("trigger") /\ (Order[at] = "listed" => Verdict("listed"))
      BY <2>4, VerdictIs
    <2>6. QED
      BY <2>2, <2>5
  <1>7. CASE at \in 25 .. 27
    <2>1. Order[at] \in {"dashboard", "containers", "config"}
      BY <1>7 DEF Order
    <2>2. Verdict("dashboard") /\ Verdict("containers") /\ Verdict("config")
      BY <1>1, <1>7, VerdictIs DEF Sound
    <2>3. QED
      BY <2>1, <2>2
  <1>8. QED
    BY <1>2, <1>3, <1>4, <1>5, <1>6, <1>7

LEMMA RecordPasses ==
  ASSUME Record(TRUE), failed \in BOOLEAN
  PROVE  at' = at + 1 /\ step' = "check" /\ failed' = failed
  BY DEF Record

(* Once its backup is over, the archive is in every list: it is the newest *)
(* one, and was not there when the list before the trigger was read.       *)
LEMMA NewestIsListed ==
  ASSUME SmokeTypes, made > snapshot, pre \subseteq 1 .. snapshot
  PROVE  Listing \ pre # {}
  <1>1. /\ made \in Nat /\ snapshot \in Nat /\ archives \subseteq 1 .. made /\ made \in archives
        /\ Shown \in Nat \ {0}
    BY SmokeConstants DEF SmokeTypes, BoxTypes, ScriptTypes, NewestInv
  <1>2. {b \in archives : b > made} = {}
    <2>1. ASSUME NEW b \in archives PROVE ~(b > made)
      BY <1>1
    <2>2. QED
      BY <2>1
  <1>3. Cardinality({b \in archives : b > made}) = 0
    BY <1>2, FS_EmptySet
  <1>4. made \in Listing
    BY <1>1, <1>3 DEF Listing
  <1>5. made \notin pre
    BY <1>1
  <1>6. QED
    BY <1>4, <1>5

(* The conclusion for the steps that lose nothing of a healthy box's run.  *)
LEMMA WellStays ==
  ASSUME SmokeTypes, WellInv, upsets = 0, well, world', token' = token \/ token',
         at' = at \/ (at' = at + 1 /\ at # 4 /\ at # 20), step' \notin {"pull", "poll"},
         at' = 21 => archives' = archives,
         failed' = failed, late' = late
  PROVE  WellInv'
  BY BoxIsOneOfBoxes DEF WellInv

LEMMA WellScript ==
  ASSUME SmokeTypes, FlawInv, CalmInv, WellInv, upsets' = 0, well', Script
  PROVE  WellInv'
  <1>1. /\ upsets = 0 /\ Answered
    <2>1. Answered \/ Lost
      BY DEF Script, AcceptHostKey, RunCheck, RequestLost, Login, TakeToken, FindWgDashboard,
             CheckWgDashboard, CheckDormancy, Snapshot, SnapshotWith, Poll, RunActingCheck, Pull,
             Summary, ghosts, Answered
    <2>2. QED
      BY <2>1, UpsetsCounted
  <1>2. ~Lost
    BY UpsetsCounted
  <1>3. /\ well /\ world' /\ (at > 4 => token) /\ at \in 1 .. 28 /\ at \in Nat \ {0}
        /\ failed \in BOOLEAN
    <2>1. /\ well' = well /\ world' = world
      BY SameBox, ScriptMoves DEF Next
    <2>2. /\ at \in 1 .. 28 /\ at \in Nat \ {0} /\ failed \in BOOLEAN /\ well \in BOOLEAN
      BY BoxIsOneOfBoxes
    <2>3. well
      BY <2>1, <2>2
    <2>4. world /\ (at > 4 => token)
      BY <1>1, <2>3 DEF WellInv
    <2>5. world \in BOOLEAN
      BY DEF SmokeTypes, BoxTypes
    <2>6. world'
      BY <2>1, <2>4, <2>5
    <2>7. QED
      BY <2>2, <2>3, <2>4, <2>6
  <1>4. /\ Sound /\ webui /\ world /\ (at > 4 => Api)
        /\ at \in 1 .. 27 /\ Order[at] \in Asked => Verdict(Order[at])
        /\ box \in BoxType
    BY <1>1, <1>3, WellVerdicts, BoxIsOneOfBoxes
  <1>5. CASE AcceptHostKey \/ Summary
    <2>1. /\ UNCHANGED <<at, failed, token, archives, late, pre, snapshot, jobs, made>>
          /\ step' \in {"check", step}
      BY <1>5 DEF AcceptHostKey, Summary, boxVars, store, ghosts, progress, poller
    <2>2. QED
      BY <1>1, <1>3, <2>1 DEF WellInv
  <1>6. CASE RunCheck
    <2>1. at \in 1 .. 27 /\ Order[at] \in Asked
      BY <1>3, <1>6, OrderIs DEF RunCheck
    <2>2. Record(TRUE) /\ UNCHANGED <<token, archives, late>>
      <3>1. Verdict(Order[at]) = TRUE
        <4>1. Verdict(Order[at]) \in BOOLEAN
          BY DEF Verdict
        <4>2. QED
          BY <1>4, <2>1, <4>1
      <3>2. QED
        BY <1>2, <1>6, <3>1 DEF RunCheck, boxVars, store, scriptRest
    <2>3. at # 4 /\ at # 20
      BY <1>3, <1>6, <2>1, AskedIs, OrderIs DEF RunCheck
    <2>4. QED
      BY <1>1, <1>3, <2>1, <2>2, <2>3, RecordPasses, WellStays
  <1>7. CASE RunActingCheck
    <2>1. \/ at = 20 /\ Order[at] = "save_file"
          \/ at = 23 /\ Order[at] = "trigger"
      <3>1. On("save_file", "check") \/ On("trigger", "check")
        BY <1>7 DEF RunActingCheck
      <3>2. \/ at = 20 /\ On("save_file", "check")
            \/ at = 23 /\ On("trigger", "check")
        BY <1>3, <3>1, Places
      <3>3. QED
        BY <3>2 DEF On
    <2>2. Verdict(Order[at]) = TRUE
      <3>1. Verdict(Order[at]) \in BOOLEAN
        BY DEF Verdict
      <3>2. QED
        BY <1>4, <2>1, <3>1, AskedIs
    <2>3. Record(TRUE) /\ UNCHANGED <<token, late>>
      BY <1>2, <1>7, <2>2 DEF RunActingCheck, scriptRest
    <2>4. at' = at + 1 /\ step' = "check" /\ failed' = failed
      BY <1>3, <2>3, RecordPasses
    <2>5. at = 20 => archives' # {}
      <3>1. at = 20 => SaveFile
        BY <1>3, <1>7, <2>1, <2>2, Places DEF RunActingCheck, On
      <3>2. QED
        BY <3>1 DEF SaveFile, Archive
    <2>6. QED
      BY <1>1, <1>3, <2>1, <2>3, <2>4, <2>5 DEF WellInv
  <1>8. CASE RequestLost
    BY <1>2, <1>8 DEF RequestLost
  <1>9. CASE Login
    <2>1. On("login", "check") /\ box.default
      BY <1>4, <1>9 DEF Login, Sound
    <2>2. Continue("token") /\ UNCHANGED <<token, archives, late>>
      BY <1>2, <1>4, <1>9, <2>1 DEF Login, boxVars, store, scriptRest
    <2>3. QED
      BY <1>1, <1>3, <2>2, WellStays DEF Continue
  <1>10. CASE TakeToken
    <2>1. at = 4
      BY <1>3, <1>10, Places DEF TakeToken
    <2>2. token' = webui /\ Record(webui) /\ UNCHANGED late
      BY <1>2, <1>10 DEF TakeToken
    <2>3. webui = TRUE
      BY <1>4, BoxIsOneOfBoxes
    <2>4. at' = 5 /\ step' = "check" /\ failed' = failed
      BY <1>3, <2>1, <2>2, <2>3, RecordPasses
    <2>5. token'
      BY <2>2, <2>3
    <2>6. QED
      BY <1>1, <1>3, <2>2, <2>4, <2>5 DEF WellInv
  <1>11. CASE FindWgDashboard
    <2>1. at = 10 /\ UNCHANGED <<token, archives, late>>
      BY <1>3, <1>11, Places DEF FindWgDashboard, boxVars, store, scriptRest
    <2>2. Continue("state") \/ Record(TRUE)
      BY <1>11 DEF FindWgDashboard
    <2>3. /\ at' = at \/ at' = at + 1
          /\ step' \in {"state", "check"} /\ failed' = failed
      BY <1>3, <2>2, RecordPasses DEF Continue
    <2>4. QED
      BY <1>1, <1>3, <2>1, <2>3, WellStays
  <1>12. CASE CheckWgDashboard
    <2>1. /\ at = 10 /\ step = "state" /\ UNCHANGED <<token, archives, late>>
          /\ Record("ppsa-wgdashboard" \in Running)
      BY <1>2, <1>3, <1>12, Places DEF CheckWgDashboard, On, boxVars, store, scriptRest
    <2>2. box.dashboard = "running"
      BY <1>4, <2>1 DEF FlawInv, Sound, BoxType
    <2>3. ("ppsa-wgdashboard" \in Running) = TRUE
      BY <2>2 DEF Running
    <2>4. Record(TRUE)
      BY <2>1, <2>3
    <2>5. QED
      BY <1>1, <1>3, <2>1, <2>4, RecordPasses, WellStays
  <1>13. CASE CheckDormancy
    <2>1. /\ at = 18 /\ UNCHANGED <<token, archives, late>>
      <3>1. On("dormant", "check")
        BY <1>13 DEF CheckDormancy
      <3>2. QED
        BY <1>3, <1>13, <3>1, Places DEF CheckDormancy, boxVars, store, scriptRest
    <2>2. WireguardStatus \notin {"active", "error 500"}
      BY <1>4 DEF WireguardStatus, Sound, BoxType
    <2>3. Api
      BY <1>4, <2>1
    <2>4. Record(Api /\ WireguardStatus \notin {"active", "error 500"})
      BY <1>2, <1>13 DEF CheckDormancy
    <2>5. at' = at + 1 /\ step' = "check" /\ failed' = failed
      BY <1>3, <2>2, <2>3, <2>4 DEF Record
    <2>6. QED
      BY <1>1, <1>3, <2>1, <2>5, WellStays
  <1>14. CASE Snapshot
    <2>1. at = 24 /\ Api
      <3>1. On("new_archive", "check")
        BY <1>14 DEF Snapshot, SnapshotWith
      <3>2. QED
        BY <1>3, <1>4, <3>1, Places
    <2>2. /\ snapshot' = made /\ pre' = Listing /\ step' = "pull"
          /\ UNCHANGED <<at, failed, token, archives, late>>
      BY <1>2, <1>14, <2>1 DEF Snapshot, SnapshotWith, Continue, boxVars, store
    <2>3. pre' \subseteq 1 .. snapshot'
      BY <2>2 DEF Listing, SmokeTypes, BoxTypes
    <2>4. QED
      BY <1>1, <1>3, <2>1, <2>2, <2>3 DEF WellInv
  <1>15. CASE Pull
    <2>1. at = 24 /\ step = "pull" /\ Api
      <3>1. On("new_archive", "pull")
        BY <1>15 DEF Pull
      <3>2. QED
        BY <1>3, <1>4, <3>1, Places DEF On
    <2>2. /\ TriggerBackup /\ Continue("poll")
          /\ UNCHANGED <<token, late, pre, snapshot>>
      BY <1>2, <1>15, <2>1 DEF Pull, scriptRest, poller
    <2>3. "ppsa-backup" \in Running
      BY <1>4 DEF Sound, Running
    <2>4. jobs' > 0 /\ made' = made
      BY <2>2, <2>3 DEF TriggerBackup, SmokeTypes, BoxTypes
    <2>5. QED
      BY <1>1, <1>3, <2>1, <2>2, <2>4 DEF WellInv, Continue
  <1>16. CASE Poll
    <2>1. at = 24 /\ step = "poll" /\ Api
      <3>1. On("new_archive", "poll")
        BY <1>16 DEF Poll
      <3>2. QED
        BY <1>3, <1>4, <3>1, Places DEF On
    <2>2. /\ jobs \in Nat /\ made \in Nat /\ UNCHANGED <<token, pre, snapshot, jobs, made>>
      BY <1>16 DEF Poll, SmokeTypes, BoxTypes, boxVars, store
    <2>3. CASE Record(TRUE) /\ UNCHANGED late
      BY <1>1, <1>3, <2>1, <2>2, <2>3, RecordPasses DEF WellInv
    <2>4. CASE Continue("poll") /\ UNCHANGED late
      BY <1>1, <1>3, <2>1, <2>2, <2>4 DEF WellInv, Continue
    <2>5. CASE Listing \ pre = {} /\ Record(FALSE) /\ (late' <=> jobs > 0)
      <3>1. jobs > 0 \/ made > snapshot
        BY <1>1, <1>3, <2>1 DEF WellInv
      <3>2. pre \subseteq 1 .. snapshot
        BY <1>1, <1>3, <2>1 DEF WellInv
      <3>3. late'
        BY <2>5, <3>1, <3>2, NewestIsListed
      <3>4. at' = 25 /\ step' = "check"
        BY <2>1, <2>5 DEF Record
      <3>5. QED
        BY <1>1, <1>3, <2>1, <2>2, <3>3, <3>4 DEF WellInv
    <2>6. QED
      <3>1. \/ Record(TRUE) /\ UNCHANGED late
            \/ /\ Listing \ pre = {}
               /\ \/ Continue("poll") /\ UNCHANGED late
                  \/ Record(FALSE) /\ late' = (jobs > 0)
        BY <1>2, <1>16, <2>1 DEF Poll
      <3>2. late' = (jobs > 0) => (late' <=> jobs > 0)
        OBVIOUS
      <3>3. QED
        BY <2>3, <2>4, <2>5, <3>1, <3>2
  <1>17. QED
    BY <1>5, <1>6, <1>7, <1>8, <1>9, <1>10, <1>11, <1>12, <1>13, <1>14, <1>15, <1>16 DEF Script

LEMMA WellStep ==
  ASSUME SmokeTypes, ArchiveInv, FlawInv, CalmInv, WellInv, [Next]_vars
  PROVE  WellInv'
  <1>1. SUFFICES ASSUME upsets' = 0, well' PROVE WellInv'
    BY DEF WellInv
  <1>2. upsets = 0 /\ well /\ upsets \in Nat
    <2>1. /\ well' = well /\ (upsets > 0 => upsets' > 0)
          /\ upsets \in Nat /\ well \in BOOLEAN
      BY SameBox, BoxIsOneOfBoxes
    <2>2. well
      BY <1>1, <2>1
    <2>3. QED
      BY <1>1, <2>1, <2>2
  <1>3. CASE Script
    BY <1>1, <1>3, WellScript
  <1>4. CASE Box
    <2>1. /\ UNCHANGED <<at, step, token, failed, pre, snapshot, late>>
          /\ Settled \/ WebuiStarts
      BY <1>1, <1>2, <1>4, UpsetsCounted DEF Box, progress, poller
    <2>2. jobs \in Nat /\ made \in Nat /\ snapshot \in Nat /\ snapshot <= made
      BY DEF SmokeTypes, BoxTypes, ArchiveInv
    <2>3. /\ world' = world
          /\ \/ UNCHANGED <<jobs, archives, made>>
             \/ jobs > 0 /\ made' = made + 1
      BY <2>1 DEF Settled, WebuiStarts, BackupBegins, BackupEnds, LogScrolls, Dashboard,
                  gameState, store
    <2>4. at < 24 => jobs = 0
      BY DEF SmokeTypes, PlaceInv
    <2>5. QED
      BY <1>2, <2>1, <2>2, <2>3, <2>4 DEF WellInv
  <1>5. CASE UNCHANGED vars
    BY <1>2, <1>5 DEF WellInv, vars, boxVars, gameState, store, process, progress, poller, ghosts
  <1>6. QED
    BY <1>3, <1>4, <1>5 DEF Next

LEMMA WellInvariant == Spec => [](CalmInv /\ WellInv)
  <1>1. Init => CalmInv /\ WellInv
    <2> SUFFICES ASSUME Init PROVE CalmInv /\ WellInv
      OBVIOUS
    <2>1. /\ webui /\ (world <=> game # "starting") /\ (well <=> Healthy) /\ ~failed
          /\ upsets = 0 /\ at = 1 /\ step = "host_key"
      BY DEF Init, BoxInit
    <2>2. /\ well <=> Sound /\ game = "serving"
          /\ well => world
      BY <2>1 DEF Healthy
    <2>3. QED
      BY <2>1, <2>2 DEF CalmInv, WellInv
  <1>2. SmokeTypes /\ ArchiveInv /\ FlawInv /\ CalmInv /\ WellInv /\ [Next]_vars
          => CalmInv' /\ WellInv'
    BY CalmStep, WellStep
  <1>3. QED
    BY <1>1, <1>2, SmokeTypesInvariant, ArchiveInvariant, FlawInvariant, PTL DEF Spec

(* On a box that nothing disturbs the verdict is exact: PASS if it was     *)
(* healthy, FAIL if not, unless a backup outlasts the last poll (script,   *)
(* 512-539 and 649-670).                                                   *)
THEOREM VerdictsAreExact == ASSUME NoneJoins PROVE Spec => []VerdictIsExact
  <1>1. SmokeTypes /\ FlawInv /\ CalmInv /\ WellInv => VerdictIsExact
    <2> SUFFICES ASSUME SmokeTypes, FlawInv, CalmInv, WellInv, upsets = 0
                 PROVE  /\ exit = "pass" => well
                        /\ exit = "fail" /\ ~late => ~well
      BY DEF VerdictIsExact
    <2>1. exit = "pass" => at = 28 /\ ~failed /\ Sound
      BY PassIsSound DEF FlawInv
    <2>2. exit = "fail" => failed
      BY DEF FlawInv
    <2>3. well /\ failed => late
      BY DEF WellInv
    <2>4. at > 22 /\ ~failed => (well <=> Sound)
      BY DEF CalmInv
    <2>5. QED
      BY <2>1, <2>2, <2>3, <2>4
  <1>2. QED
    BY <1>1, SmokeTypesInvariant, FlawInvariant, WellInvariant, PTL

(* A healthy box fails a run in which nothing is lost or disturbed only if *)
(* its backup outlasts the last poll, joining boxes among Boxes or not     *)
(* (script, 415-491).                                                      *)
THEOREM HealthyOnlyLate == Spec => [](upsets = 0 /\ exit = "fail" /\ well => late)
  <1>1. FlawInv /\ WellInv => (upsets = 0 /\ exit = "fail" /\ well => late)
    BY DEF FlawInv, WellInv
  <1>2. QED
    BY <1>1, FlawInvariant, WellInvariant, PTL

-----------------------------------------------------------------------------
(* The calls that a run has still to make at most, and its first and last  *)
(* step: one for each check, one more for the login and for wgdashboard,   *)
(* and for the last guard the list, the trigger and the polls.             *)
CallsLeft ==
  LET guard == IF at > 24 THEN 0
               ELSE CASE step = "poll" -> MaxPolls - 1 - polls
                      [] step = "pull" -> MaxPolls
                      [] OTHER -> MaxPolls + 1
  IN  IF exit # "none" THEN 0
      ELSE 29 - at + guard + (IF step = "host_key" THEN 1 ELSE 0)
             + (IF at < 4 \/ (at = 4 /\ step # "token") THEN 1 ELSE 0)
             + (IF at < 10 \/ (at = 10 /\ step # "state") THEN 1 ELSE 0)

LEMMA CallsLeftBounded ==
  ASSUME SmokeTypes
  PROVE  /\ CallsLeft \in 0 .. MaxPolls + 32
         /\ exit = "none" => CallsLeft > 0
  BY SmokeConstants DEF SmokeTypes, ScriptTypes, PlaceInv, CallsLeft

LEMMA RecordCounts ==
  ASSUME SmokeTypes, exit = "none", exit' = exit, at \in 1 .. 27, at' = at + 1, step' = "check",
         polls' = polls
  PROVE  CallsLeft' < CallsLeft
  BY SmokeConstants DEF SmokeTypes, ScriptTypes, PlaceInv, CallsLeft

LEMMA ContinueCounts ==
  ASSUME SmokeTypes, exit = "none", exit' = exit, at' = at,
         \/ step = "host_key" /\ step' = "check" /\ polls' = polls
         \/ at = 4 /\ step = "check" /\ step' = "token" /\ polls' = polls
         \/ at = 10 /\ step = "check" /\ step' = "state" /\ polls' = polls
         \/ at = 24 /\ step = "check" /\ step' = "pull" /\ polls' = polls
         \/ at = 24 /\ step = "pull" /\ step' = "poll" /\ polls' = polls
         \/ at = 24 /\ step = "poll" /\ step' = "poll" /\ polls' = polls + 1
  PROVE  CallsLeft' < CallsLeft
  BY SmokeConstants DEF SmokeTypes, ScriptTypes, PlaceInv, CallsLeft

LEMMA ScriptCounts ==
  ASSUME SmokeTypes, Script
  PROVE  CallsLeft' < CallsLeft
  <1>1. at \in 1 .. 28 /\ at \in Nat \ {0} /\ webui \in BOOLEAN
    BY BoxIsOneOfBoxes
  <1>2. ASSUME NEW check, NEW s, On(check, s)
        PROVE  at \in 1 .. 27 /\ exit = "none" /\ step = s
    BY <1>1, <1>2, Place
  <1>3. ASSUME exit = "none", exit' = exit, at \in 1 .. 27, polls' = polls,
               \E passed \in BOOLEAN : Record(passed)
        PROVE  CallsLeft' < CallsLeft
    BY <1>3, RecordMoves, RecordCounts
  <1>4. CASE AcceptHostKey
    <2>1. /\ exit = "none" /\ at' = at /\ polls' = polls
          /\ \/ step = "host_key" /\ step' = "check" /\ exit' = exit
             \/ exit' = "no_tool"
      BY <1>4 DEF AcceptHostKey, poller
    <2>2. CASE exit' = "no_tool"
      <3>1. CallsLeft > 0 /\ CallsLeft' = 0
        BY <2>1, <2>2, CallsLeftBounded DEF CallsLeft
      <3>2. QED
        BY <3>1
    <2>3. QED
      BY <2>1, <2>2, ContinueCounts
  <1>5. CASE RunCheck
    <2>1. exit = "none" /\ exit' = exit /\ at \in 1 .. 27 /\ polls' = polls
      BY <1>1, <1>5, OrderIs DEF RunCheck, scriptRest, poller
    <2>2. \E passed \in BOOLEAN : Record(passed)
      <3>1. Verdict(Order[at]) \in BOOLEAN
        BY DEF Verdict
      <3>2. QED
        BY <1>5, <3>1 DEF RunCheck
    <2>3. QED
      BY <1>3, <2>1, <2>2
  <1>6. CASE RunActingCheck \/ RequestLost
    <2>1. /\ On("save_file", "check") \/ On("trigger", "check")
          /\ exit' = exit /\ polls' = polls
      BY <1>6 DEF RunActingCheck, RequestLost, scriptRest, poller
    <2>2. \E passed \in BOOLEAN : Record(passed)
      <3>1. Verdict(Order[at]) \in BOOLEAN
        BY DEF Verdict
      <3>2. QED
        BY <1>6, <3>1 DEF RunActingCheck, RequestLost
    <2>3. QED
      BY <1>2, <1>3, <2>1, <2>2
  <1>7. CASE Login \/ FindWgDashboard
    <2>1. /\ \/ On("login", "check") /\ (Continue("token") \/ Record(FALSE))
             \/ On("wgdashboard", "check") /\ (Continue("state") \/ Record(TRUE))
          /\ exit' = exit /\ polls' = polls
      BY <1>7 DEF Login, FindWgDashboard, scriptRest, poller
    <2>2. Record(TRUE) \/ Record(FALSE) => \E passed \in BOOLEAN : Record(passed)
      OBVIOUS
    <2>3. /\ at \in 1 .. 27 /\ exit = "none" /\ step = "check"
          /\ On("login", "check") => at = 4
          /\ On("wgdashboard", "check") => at = 10
      BY <1>1, <1>2, <2>1, Places
    <2>4. CASE Record(TRUE) \/ Record(FALSE)
      BY <1>3, <2>1, <2>2, <2>3, <2>4
    <2>5. CASE \/ at = 4 /\ Continue("token")
               \/ at = 10 /\ Continue("state")
      BY <2>1, <2>3, <2>5, ContinueCounts DEF Continue
    <2>6. QED
      BY <2>1, <2>3, <2>4, <2>5
  <1>8. CASE TakeToken \/ CheckWgDashboard \/ CheckDormancy
    <2>1. /\ On("login", "token") \/ On("wgdashboard", "state") \/ On("dormant", "check")
          /\ exit' = exit /\ polls' = polls
      BY <1>8 DEF TakeToken, CheckWgDashboard, CheckDormancy, scriptRest, poller
    <2>2. \E passed \in BOOLEAN : Record(passed)
      <3>1. /\ ("ppsa-wgdashboard" \in Running) \in BOOLEAN
            /\ (Api /\ WireguardStatus \notin {"active", "error 500"}) \in BOOLEAN
        OBVIOUS
      <3>2. QED
        BY <1>1, <1>8, <3>1 DEF TakeToken, CheckWgDashboard, CheckDormancy
    <2>3. QED
      BY <1>2, <1>3, <2>1, <2>2
  <1>9. CASE Snapshot
    <2>1. On("new_archive", "check") /\ Continue("pull") /\ exit' = exit /\ polls' = polls
      BY <1>9 DEF Snapshot, SnapshotWith
    <2>2. at = 24 /\ step = "check" /\ exit = "none"
      BY <1>1, <1>2, <2>1, Places
    <2>3. QED
      BY <2>1, <2>2, ContinueCounts DEF Continue
  <1>10. CASE Pull
    <2>1. /\ On("new_archive", "pull") /\ exit' = exit /\ polls' = polls
          /\ Continue("poll") \/ (\E passed \in BOOLEAN : Record(passed))
      BY <1>10 DEF Pull, scriptRest, poller
    <2>2. at = 24 /\ step = "pull" /\ exit = "none"
      BY <1>1, <1>2, <2>1, Places
    <2>3. CASE Continue("poll")
      BY <2>1, <2>2, <2>3, ContinueCounts DEF Continue
    <2>4. QED
      BY <1>3, <2>1, <2>2, <2>3
  <1>11. CASE Poll
    <2>1. /\ On("new_archive", "poll") /\ exit' = exit
          /\ \/ Continue("poll") /\ polls' = polls + 1
             \/ (\E passed \in BOOLEAN : Record(passed)) /\ polls' = polls
      BY <1>11 DEF Poll
    <2>2. at = 24 /\ step = "poll" /\ exit = "none"
      BY <1>1, <1>2, <2>1, Places
    <2>3. CASE Continue("poll") /\ polls' = polls + 1
      BY <2>1, <2>2, <2>3, ContinueCounts DEF Continue
    <2>4. QED
      BY <1>3, <2>1, <2>2, <2>3
  <1>12. CASE Summary
    <2>1. exit = "none" /\ exit' # "none"
      BY <1>12 DEF Summary
    <2>2. CallsLeft > 0 /\ CallsLeft' = 0
      BY <2>1, CallsLeftBounded DEF CallsLeft
    <2>3. QED
      BY <2>2
  <1>13. QED
    BY <1>4, <1>5, <1>6, <1>7, <1>8, <1>9, <1>10, <1>11, <1>12 DEF Script

(* Each step of the script counts down what it has left, and nothing that  *)
(* the box does adds to it: a run makes at most MaxPolls + 32 of them, and *)
(* ends, whatever is lost (script, 361-539).                               *)
ScriptCountsDown ==
  [][ (Script => CallsLeft' < CallsLeft) /\ (Box => CallsLeft' = CallsLeft) ]_vars

THEOREM CallsAreBounded ==
  Spec => [](CallsLeft \in 0 .. MaxPolls + 32) /\ ScriptCountsDown
  <1>1. SmokeTypes => CallsLeft \in 0 .. MaxPolls + 32
    BY CallsLeftBounded
  <1>2. SmokeTypes /\ [Next]_vars
          => [(Script => CallsLeft' < CallsLeft) /\ (Box => CallsLeft' = CallsLeft)]_vars
    <2>1. Box => CallsLeft' = CallsLeft
      BY DEF Box, CallsLeft, progress, poller
    <2>2. QED
      BY <2>1, ScriptCounts
  <1>3. QED
    BY <1>1, <1>2, SmokeTypesInvariant, PTL DEF Spec, ScriptCountsDown

=============================================================================
