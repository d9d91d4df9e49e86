------------------------------ MODULE SmokeTest ------------------------------
(***************************************************************************)
(* ppsa-smoke-test.py: 27 checks of a box over SSH, one after the other,   *)
(* each by a call whose answer may be lost, and the verdict.               *)
(***************************************************************************)
EXTENDS BoxApi, Sequences

CONSTANTS
  MaxPolls,    \* run_polling_check: max_polls
  MaxUpsets    \* bound: lost calls and disturbances of one run

ASSUME SmokeAssumption == MaxPolls \in Nat \ {0} /\ MaxUpsets \in Nat

VARIABLES
  at,       \* the check in hand
  step,     \* where in it the script is
  token,    \* it has a token
  failed,   \* some check has failed
  pre,      \* the archives listed before the trigger
  polls,
  exit,
  well,     \* the box was healthy at the start (for the properties)
  upsets,   \* lost calls and disturbances so far (for the properties)
  snapshot, \* the last archive before the trigger (for the properties)
  read,     \* and the list of then was read
  late,     \* a backup outlasted the last poll
  claimed   \* the check for a new archive has passed

progress == <<at, step>>
poller == <<pre, polls>>
ghosts == <<well, upsets, snapshot, read, late, claimed>>
vars == <<boxVars, progress, token, failed, poller, exit, ghosts>>

(* CHECK_GROUPS: the names in order ...                                    *)
Order ==
  <<"ssh", "sudo", "health", "login",
    "count", "webui", "palworld", "backup", "watchtower", "wgdashboard",
    "cores", "memory", "disk", "chain", "rules", "netbird", "netbird_ip", "dormant",
    "status", "save_file", "listed", "save_world", "trigger", "new_archive",
    "dashboard", "containers", "config">>

(* ... and what each group's assertions come to, of an answer now.         *)
Ssh == [ssh |-> TRUE, sudo |-> box.sudo]

Auth == [health |-> webui]

(* docker ps --filter name=N lists every name that contains N.             *)
Stack ==
  [count |-> box.sudo /\ Cardinality(Running) >= 4,
   webui |-> box.sudo /\ "ppsa-webui" \in Running,
   palworld |-> box.sudo /\ Running \cap {"ppsa-palworld", "ppsa-palworld-rest-proxy"} # {},
   backup |-> box.sudo /\ "ppsa-backup" \in Running,
   watchtower |-> box.sudo /\ "ppsa-watchtower" \in Running]

(* curl -sf with the token; without one $TOKEN goes out as it is.          *)
Api == webui /\ token

System == [cores |-> Api, memory |-> Api, disk |-> Api /\ box.df]

Firewall == [chain |-> Api /\ box.chain, rules |-> Api]

Netbird ==
  [netbird |-> Api /\ NetbirdStatus.connected, netbird_ip |-> Api /\ NetbirdStatus.hasIpKey]

Backup ==
  [status |-> Api, save_file |-> Api /\ world, listed |-> Api /\ archives # {}]

RegressionGuard == [save_world |-> Api /\ game = "serving", trigger |-> Api]

Integrity == [dashboard |-> Api, containers |-> Api, config |-> Api /\ box.config = "good"]

Groups == {Ssh, Auth, Stack, System, Firewall, Netbird, Backup, RegressionGuard, Integrity}

Asked == UNION {DOMAIN g : g \in Groups}
Verdict(check) == \E g \in Groups : check \in DOMAIN g /\ g[check]

TypeOK ==
  /\ BoxTypeOK
  /\ at \in 1 .. Len(Order) + 1
  /\ step \in {"host_key", "check", "token", "state", "pull", "poll"}
  /\ {token, failed, well, read, late, claimed} \subseteq BOOLEAN
  /\ pre \subseteq 1 .. MaxArchives /\ polls \in 0 .. MaxPolls
  /\ exit \in {"none", "pass", "fail", "no_tool"}
  /\ upsets \in 0 .. MaxUpsets
  /\ snapshot \in 0 .. MaxArchives

Init ==
  /\ BoxInit
  /\ at = 1 /\ step = "host_key" /\ token = FALSE /\ failed = FALSE
  /\ pre = {} /\ polls = 0 /\ exit = "none"
  /\ well = Healthy /\ upsets = 0
  /\ snapshot = 0 /\ read = FALSE /\ late = FALSE /\ claimed = FALSE

-----------------------------------------------------------------------------
On(check, s) == exit = "none" /\ at <= Len(Order) /\ Order[at] = check /\ step = s

(* A call is answered, or lost (timeout, ssh error).                       *)
Answered == UNCHANGED upsets
Upset == upsets < MaxUpsets /\ upsets' = upsets + 1
Lost == "lost" \in Faults /\ Upset

(* Variant: only the last result counts. *)
RecordLast(passed) ==
  /\ at' = at + 1 /\ step' = "check"
  /\ failed' = ~passed

(* The check is over: results.append; the next one.                        *)
Record(passed) ==
  /\ at' = at + 1 /\ step' = "check"
  /\ failed' = (failed \/ ~passed)

Continue(s) == step' = s /\ UNCHANGED <<at, failed>>

scriptRest == <<well, token, poller, exit, snapshot, read, late, claimed>>

(* accept_host_key, and the tool it does not find.                         *)
AcceptHostKey ==
  /\ exit = "none" /\ step = "host_key"
  /\ \/ step' = "check" /\ UNCHANGED exit
     \/ "tool" \in Faults /\ exit' = "no_tool" /\ UNCHANGED step
  /\ UNCHANGED <<boxVars, at, token, failed, poller, ghosts>>

(* run_check, of a check that only reads.                                  *)
RunCheck ==
  /\ exit = "none" /\ at <= Len(Order) /\ step = "check"
  /\ Order[at] \in Asked \ {"save_file", "trigger"}
  /\ \/ Answered /\ Record(Verdict(Order[at]))
     \/ Lost /\ Record(FALSE)
  /\ UNCHANGED <<boxVars, scriptRest>>

(* run_check, of one that changes the box: also when the answer is lost.   *)
RunActingCheck ==
  /\ \/ On("save_file", "check") /\ (IF Verdict("save_file") THEN SaveFile ELSE UNCHANGED store)
     \/ On("trigger", "check") /\ (IF Verdict("trigger") THEN TriggerBackup ELSE UNCHANGED store)
  /\ \/ Answered /\ Record(Verdict(Order[at]))
     \/ Lost /\ Record(FALSE)
  /\ UNCHANGED <<box, gameState, process, scriptRest>>

RequestLost ==
  /\ On("save_file", "check") \/ On("trigger", "check")
  /\ Lost /\ Record(FALSE)
  /\ UNCHANGED <<boxVars, scriptRest>>

(* run_login_check: log in, and once more for the token.                   *)
Login ==
  /\ On("login", "check")
  /\ \/ Answered /\ (IF webui /\ box.default THEN Continue("token") ELSE Record(FALSE))
     \/ Lost /\ Record(FALSE)
  /\ UNCHANGED <<boxVars, scriptRest>>

(* Variant: the token is not kept. *)
TakeTokenDropped ==
  /\ On("login", "token")
  /\ \/ Answered /\ Record(webui)
     \/ Lost /\ Record(FALSE)
  /\ UNCHANGED <<boxVars, scriptRest>>

TakeToken ==
  /\ On("login", "token")
  /\ \/ Answered /\ token' = webui /\ Record(webui)
     \/ Lost /\ Record(FALSE) /\ UNCHANGED token
  /\ UNCHANGED <<boxVars, poller, exit, well, snapshot, read, late, claimed>>

(* run_soft_container_check: no output is no container.                    *)
FindWgDashboard ==
  /\ On("wgdashboard", "check")
  /\ \/ Answered /\ (IF box.sudo /\ box.dashboard # "absent" THEN Continue("state")
                     ELSE Record(TRUE))
     \/ Lost /\ Record(TRUE)
  /\ UNCHANGED <<boxVars, scriptRest>>

CheckWgDashboard ==
  /\ On("wgdashboard", "state")
  /\ \/ Answered /\ Record("ppsa-wgdashboard" \in Running)
     \/ Lost /\ Record(FALSE)
  /\ UNCHANGED <<boxVars, scriptRest>>

(* run_wg_dormancy_check: only "active" and no answer fail.                *)
CheckDormancy ==
  /\ On("dormant", "check")
  /\ \/ Answered /\ Record(Api /\ WireguardStatus \notin {"active", "error 500"})
     \/ Lost /\ Record(FALSE)
  /\ UNCHANGED <<boxVars, scriptRest>>

-----------------------------------------------------------------------------
(* run_polling_check: the list before, the trigger, and up to max_polls    *)
(* looks at the list.                                                      *)
SnapshotWith(listed) ==
  /\ On("new_archive", "check") /\ Continue("pull")
  /\ snapshot' = made
  /\ \/ Api /\ Answered /\ pre' = listed /\ read' = TRUE
     \/ ((~Api /\ Answered) \/ Lost) /\ UNCHANGED <<pre, read>>
  /\ UNCHANGED <<boxVars, token, polls, exit, well, late, claimed>>

(* Variant: the list is not read. *)
SnapshotNothing == SnapshotWith({})

Snapshot == SnapshotWith(Listing)

Pull ==
  /\ On("new_archive", "pull")
  /\ \/ /\ Api /\ TriggerBackup
        /\ (Answered /\ Continue("poll")) \/ (Lost /\ Record(FALSE))
     \/ /\ (~Api /\ Answered) \/ Lost
        /\ Record(FALSE) /\ UNCHANGED store
  /\ UNCHANGED <<box, gameState, process, scriptRest>>

(* The archives of a poll that is answered are compared with pre.          *)
Poll ==
  /\ On("new_archive", "poll")
  /\ \/ /\ Api /\ Listing \ pre # {} /\ Answered
        /\ claimed' = TRUE /\ Record(TRUE) /\ UNCHANGED <<polls, late>>
     \/ /\ ((Api => Listing \ pre = {}) /\ Answered) \/ Lost
        /\ UNCHANGED claimed
        /\ IF polls < MaxPolls - 1
           THEN polls' = polls + 1 /\ Continue("poll") /\ UNCHANGED late
           ELSE Record(FALSE) /\ late' = (jobs > 0) /\ UNCHANGED polls
  /\ UNCHANGED <<boxVars, token, pre, exit, well, snapshot, read>>

-----------------------------------------------------------------------------
(* _print_summary.                                                         *)
Summary ==
  /\ exit = "none" /\ at = Len(Order) + 1
  /\ exit' = IF failed THEN "fail" ELSE "pass"
  /\ UNCHANGED <<boxVars, progress, token, failed, poller, ghosts>>

Script ==
  \/ AcceptHostKey \/ RunCheck \/ RunActingCheck \/ RequestLost \/ Login \/ TakeToken
  \/ FindWgDashboard \/ CheckWgDashboard \/ CheckDormancy
  \/ Snapshot \/ Pull \/ Poll \/ Summary

Box ==
  /\ exit = "none"
  /\ \/ (Settled \/ WebuiStarts) /\ UNCHANGED upsets
     \/ Disturbed /\ Upset
  /\ UNCHANGED <<progress, token, failed, poller, exit, well, snapshot, read, late, claimed>>

Next == Script \/ Box

Spec == Init /\ [][Next]_vars

-----------------------------------------------------------------------------
(* On a box that nothing disturbs the verdict is exact: PASS (exit code 0) *)
(* if it was healthy, FAIL if not, unless a backup outlasts the last poll  *)
(* (script, 512-539 and 649-670).                                          *)
VerdictIsExact ==
  upsets = 0 =>
    /\ exit = "pass" => well
    /\ exit = "fail" /\ ~late => ~well

(* Whatever is lost or goes down and up again during a run, no box passes  *)
(* that is wrong for good in something the checks look at, but for an      *)
(* exited wgdashboard whose answer was lost (script, 600-618).             *)
FlawIsSeen == exit = "pass" => Sound \/ (box.dashboard = "exited" /\ upsets > 0)

(* The archive that the last guard found was made after the list before    *)
(* the trigger, if that was read, though lists are cut and archives are    *)
(* pruned meanwhile (script, 415-491).                                     *)
NewArchiveIsNew == claimed /\ read => made > snapshot

(* The docstring (script, 418-420): it fails if no new archive appears.    *)
NoNewArchiveFails == claimed => made > snapshot

(* "verify a fresh PPSA install" (script, 1064), whose download is    *)
(* "expected" (764-767): one that only downloads its game passes.           *)
FreshInstallPasses == exit = "fail" /\ upsets = 0 => world \/ ~Sound

(* "the container is running" (script, 764-767).                           *)
PalworldRuns ==
  [][On("palworld", "check") /\ at' # at /\ ~failed' => game \in {"starting", "serving"}]_at

=============================================================================
