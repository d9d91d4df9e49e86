# PPSA in TLA+

PPSA turns a USB stick into a Palworld server appliance: a Debian image whose
first boot installs a Docker stack (game, web UI, backups), joins an overlay
network and closes the LAN off with a firewall. This directory holds TLA+
modules of the parts of it in which several programs share files, containers and
kernel state, the TLC configurations that check them on small instances, and
TLAPS proofs of what matters most for every instance.

Paths below are relative to the repository. `main.py` is
`docker/webui/app/main.py`, `index.html` is `docker/webui/app/static/index.html`,
*register.sh* is `scripts/ppsa-wireguard-register.sh`, *apply.sh* is
`scripts/ppsa-firewall-apply.sh`, *e2e* is `scripts/ppsa-installer-e2e.py`, *smoke* is
`scripts/ppsa-smoke-test.py`.

## 1. Inventory

The appliance is not one program. Its parts are a FastAPI process in a container
(asyncio, one event loop), shell scripts run by systemd units on the host, and
containers that docker restarts. They talk through files in `/etc/ppsa`,
`/etc/wireguard` and a backup directory, through the docker socket, and through
the kernel's interfaces and iptables chains. Hardly anything is locked, and most
of it may die at any moment: the webui is replaced by an update, the box is
switched off at the wall.

| Component | State it keeps | Operations | Interacts with | What makes it correct |
|---|---|---|---|---|
| WireGuard apply channel (`main.py:_wg_apply`, `ppsa-wg-manual-apply.*`) | request file, result file, the unit's trigger, `wg0` | write a request, poll the result, time out; read id, read action, `wg-quick`, report | several coroutines on one side, a oneshot unit on the other | an ok means work done for that very call; requests are never carried out backwards; calls return |
| WireGuard tunnel control (`main.py` connect, upload, disconnect, lifespan, monitor; status snapshot) | `wg0.conf`, snapshot, failure counter | connect, disconnect, upload, monitor round, snapshot | the apply channel, the far peer | what is raised is the newest configuration; a tunnel that is down is attended to |
| WireGuard registration (*register.sh*, its unit, `install.sh` step 7) | cookie file, `wg0.conf`, `wg0`, the hub's peers | wait, log in, find or create a peer, download, raise, persist, fall back | `install.sh` and the unit run it; the hub answers or not | one peer per box; one identity; the fallback connects |
| Firewall (`main.py` firewall handlers, *apply.sh*, request and restore units) | `firewall.json`, request file, WG_FRIENDS chain, jumps, DOCKER-USER, export | save, apply, reset; parse, rebuild, export | webui and two units | never open at rest; the chain is the configuration that was read; what is saved is applied |
| Saving and restoring (`main.py` backup handlers, `offen`, dockerd, compose unit) | save tree, archives, is palworld running | snapshot, restore, upload, restart; scheduled backup | three parties stop, start, read and write the same things | the server comes back; no broken archive is restored; a restore is complete |
| First boot (`install.sh`, `ppsa-firstboot.*`, getty's drop-in) | `.installed`, `.stack-down`, enabled units, SSH rule, activity file, tty1 | nine steps under `set -e`, retries, progress display, handover to getty | the units above are installed here; *e2e* watches it | the flag means a whole run; a stack that is down is marked; tty1 has one owner and gets a login; every run ends |
| End-to-end tester (*e2e*) | the VM of its name, elapsed time, contact, last heartbeat, reason, exit code | create, configure, boot, type, discover, poll marker and heartbeat, smoke test, destroy | VBoxManage, the guest over SSH, other runs with the same VM name | no false timeout, true reasons, no VM left, every run ends |
| Box as the API shows it (`main.py` dashboard, status, list and trigger handlers; docker) | containers, backups, cached version | dashboard, trigger, save-file, listing; the game, the backup container and the webui going their ways | browser and *smoke* | a version once shown stays |
| Smoke test (*smoke*) | check in hand, token, results, list before the trigger | 27 checks, polling, verdict | the box over SSH | the verdict is that of the box |
| Build queue (`modules/Queue.psm1`, `Start-PpsaBuilder.ps1`) | queue, current job, handled ids | add, next, complete, clear, reset | GitHub comments, WSL build | a trigger is built once; the queue never sticks |
| NetBird enrolment (`ppsa-netbird-up.*`) | daemon, back-off | enrol, retry | `install.sh`, unit, webui | ends within its callers' limits |
| Wi-Fi onboarding (`ppsa-wifi-onboard.*`, `main.py` Wi-Fi handlers) | hotspot or station, saved network | start, stop, connect | webui | the box is never left without either |
| Accounts, `.env`, mods (`main.py`) | `users.json`, tokens, `.env`, mods directory | log in, change, upload | browser | no lost update, no torn file |
| USB installer, image build, monitoring, cloud scripts | — | — | — | see section 7 |

Which behaviours are hard: calls of several coroutines on one file; a script that
reads a file twice; two units on one chain; answers recognised by an mtime;
containers stopped by one party and started by another; files written in place
and a power failure; two runs that both check before they create; waits that add
up to more than a limit; an install cut off at any step and run again; a deadline that
is checked after a sleep; a verdict over a box that changes while it is looked at. `PROJECT.json` lists each of them as a hazard at its line.

## 2. Plan

1. (done) `WgApply`, refining `HostCall`; `WgTunnel` composed over it.
2. (done) `FirewallApply`. 3. (done) `SaveRestore`. 4. (done) `WgRegister`.
5. (done) `InstallPromise` and `FirstBoot`, which implements it.
6. (done) `InstallerE2E` over a guest that keeps `InstallPromise`.
7. (done) `BoxApi` and `SmokeTest` over it.
8. (done) Proofs about each of them.
9. Left: `Settings` (users.json and `.env`, read, changed and written in place, and the
   containers that read `.env` only when they are created); the build queue with "each
   trigger is built at most once" and the orchestrator's tick as its client; NetBird's
   back-off, Wi-Fi onboarding, the USB installer.

## 3. Modules

| Module | Models | Extends |
|---|---|---|
| `HostCall` | what `_wg_apply` promises its callers | |
| `WgApply` | the apply channel, file by file and read by read; states that it implements `HostCall` (`Call == INSTANCE HostCall WITH ...`) | |
| `WgTunnel` | handlers, startup, monitor, snapshot and far peer over the channel | `WgApply` |
| `FirewallApply` | the firewall, command by command | |
| `SaveRestore` | game, handlers, backup container, dockerd, compose unit | |
| `WgRegister` | registration, its callers and the hub | |
| `InstallPromise` | what a first boot promises those who watch it from outside | |
| `FirstBoot` | `install.sh`, progress display and getty through power cuts; states that it implements `InstallPromise` | |
| `InstallerE2E` | runs of *e2e* over one VM name; the guest in the VM is an instance of `InstallPromise` | |
| `BoxApi` | what a box answers to the reading side of the API and to `docker ps`, and how it changes | |
| `SmokeTest` | *smoke* over that box | `BoxApi` |
| `MC...` | instances for TLC | the module of the name |
| `WgApplyProofs`, `FirewallProofs`, `WgRegisterProofs`, `SaveRestoreProofs`, `FirstBootProofs`, `InstallerE2EProofs`, `SmokeTestProofs` | theorems | the module, `TLAPS` |
| `WgTunnelProofs` | theorems | `WgTunnel`, `WgApplyProofs` |

In every module the actions are named for the code they stand for, and
definitions named *Variant* in a comment are not part of the specification: each
is a plausible slip in that code (a dropped guard, a missing write, a swapped
order) with which TLC shows that a property can be broken.

**WgApply.** A request id (a uuid4) is a number handed out in order. `Begin` is
`_wg_apply` up to the truncation by `write_text`, `FinishWrite` the rest of it: the
event loop is held in between, so other coroutines do not run (`LoopFree`) and the
host does. `PollAnswer` and `TimeOut` are the two ways out of the polling loop;
`TimeOut` is possible at any time, because the 15 s are not measured. On the host,
`ReadId` and `ReadAction` are lines 47 and 48 of the script, two reads of a file
that may change in between; `TearDown`, `BringUp`, `BringDown` are its `wg-quick`
calls, each of which may fail; `Report` is the `mv` over the result file. `WriteFails`
is an `OSError` of `write_text` after its truncation: the call is left with an error
and the file stays blank (a failure before the truncation changes nothing). The path
unit queues a start when the file changes; whether it notices a change made during
a run is left open. `runs` only records, for the properties; being a set, it does not
show that a request is run twice, which is allowed.

**WgTunnel.** Every action is an action of `WgApply` with its effect on the state
the channel does not know: `conf` numbers the writings of `wg0.conf`, `linked` says
that `wg show` lists a handshake, `snap` is the status file as the monitor reads it.
`watching` says that the monitor's task is alive: it catches only `HTTPException`
(`main.py:1024-1028`), so a failed write (`WriteFailed`) ends it until the webui is replaced.
A half-written `wg0.conf` counts as new. Handlers write it in the same step as they
begin the request: nothing awaits in between.

**FirewallApply.** A configuration is the number of the call that saved it, its
ACCEPT rules one element of the chain, the DROP another. The webui's
`_fw_trigger_apply` polls with `time.sleep`, which holds the event loop: one call at a
time. Each command of the script is a step (`set -u` only: no command's failure ends
it), so the two units interleave freely; the same unit is never started twice at once.
`OpenExport`, `ListChain`, `WriteExport` are the one line `iptables -S > file`: the
shell truncates, iptables lists, and writes. The two jumps from INPUT (NetBird and
WireGuard) are one, and iptables is taken to succeed.

**SaveRestore.** A save tree maps each of two files to the save it comes from; an
archive is absent, partial, foreign (offen's, with another root) or whole. The
backup handlers do not await once they have begun, so one runs at a time; the game,
offen and docker run beside them. `_run_docker` never raises, so `Docker(on)` may
leave things as they are when `"docker"` is among the faults. An exception that
`main.py:788` does not catch leaves the restore without the start of the server
(`Recover`, fault `"escape"`). Reboot keeps `running`:
dockerd starts what was not stopped on purpose, and the compose unit then starts all.

**WgRegister.** One process per caller. A step is a call to the hub, a file
written, or an interface raised, in the script's order. `waited` and `delay` are the
seconds of `wait_for_api`, so its sum of delays meets the unit's `TimeoutStartSec` as
in the code. `Raised` is `wg syncconf` on an interface that exists (key and peer
change, address stays) and `wg-quick up` on one that does not. Either may fail, certainly on
a torn file, and with the fault `"wg"` on a sound one as well (`NotRaised`): the run then
takes the fallback, and if that is refused too, it ends without `wg0` (`refused`). The limit
of 300 s around `install.sh`'s run is a kill. The LAN endpoint that is
tried after a missing handshake, and the files holding the assigned address, decide
nothing here and are left out; both ends of `Verify` succeed in the code.

**FirstBoot.** `disk` outlives a power cut, `memory` does not. A boot evaluates the
conditions of the three units once. `Abort` is a command without `|| true` that fails in
the step in hand: `set -e` ends the run, and the next boot starts from the first step.
The image pulls, `up -d` and their two attempts each are steps; what the steps from Wi-Fi
to the restore unit leave behind is the unit they enable, if the image has its files
(`Shipped`: otherwise the script says "not found, skipping" and goes on). The script
tolerates a failing `ufw --force enable || true` (line 394), which `refused` records, and a
failing touch of the marker (line 206, fault `"disk"`; `DownIsMarked` is about boxes without
it). ufw is enabled (`EnableUfw`) before
the rule for SSH is added (`AllowSsh`), and a run may be cut between the two; `lan`, that
sshd answers on the LAN, is "ufw is off, or the rule is there". The display's end starts the
getty through `ExecStopPost`, whose condition is then evaluated anew.

**InstallPromise** is what of that can be seen from outside: an install runs at every
boot until one has finished, an image built to expose SSH on the LAN does so when it has
finished, the activity file is touched while one runs. That any other image closes the LAN
is not part of it: line 394 does not see to that (`StockIsClosed`, known divergences).

**InstallerE2E.** Time is counted in the iterations of a polling loop: one tick is the
sleep and the calls around it. A call to VBoxManage succeeds, or fails and takes the run
to its summary; an SSH command is run, refused (255) or timed out (-1). The guest moves by
itself, by the actions of `InstallPromise`. The VM belongs to a name, not to a run. Ctrl-C
passes through the atexit handler, a kill does not; a Ctrl-C in `destroy_vm` is none of the
exceptions it catches (line 653) and ends the cleanup where it is (`InterruptCleanup`, `cut`).
A `createvm` or `unregistervm` may fail after it has done its work. `lost` says that a call
of the last round was not answered. Taken for granted: `--ssh-target` names the guest of this
VM, and guest and host have the same time (line 731 compares the two clocks). The
keystrokes into the TUI may or may not have been understood. `--skip-identity-check` (which answers as a safe hub does), the
content of the log file and the `--verbose` diagnostics are left out.

**BoxApi and SmokeTest.** What of a box does not change while it is looked at is a record
(`Boxes`); its game, webui and backups change by themselves. Each check is one call; what
its assertion comes to is a function of the box (`Verdict`), which looks it up among the
check groups (`Groups`). Checks that need more than one call (login, wgdashboard, dormancy, the polling
guard) are taken step by step. `upsets` bounds lost calls and disturbances.

## 4. Runs

All constants are small sets or bounds; every bound is a CONSTANT of its module.

| Run | Instance | Checks |
|---|---|---|
| `wg_apply` | 2 callers (symmetric), 3 requests, failed writes, webui restarts and reboots | `TypeOK`, `OkIsBacked`, `MixOnlyWithNewer`, `NeverBackwards`, `ImplementsHostCall` |
| `wg_apply_live` | 2 callers, 2 requests, webui restarts, fair | `CallsReturn`, `NoticedIsRun` |
| `wg_tunnel` | a user and the monitor, 2 requests, the same faults | `TunnelTypeOK`, `RaisedIsCurrent` |
| `wg_tunnel_live` | the same, no faults, fair | `DownIsAttended` |
| `firewall` | 1 call, 1 reboot, webui may die, fair | `TypeOK`, `QuietIsClosed`, `LoneRunIsExact`, `SavedIsRead` |
| `save_restore` | 3 saves, webui restarts, reboots, docker errors, uncaught exceptions | `TypeOK`, `NeverFromPartial`, `RestoredIsTheArchive` |
| `save_returns` | 2 saves, reboots, fair | `NotLeftDown`, `ServerReturns` |
| `wg_register` | the unit, 2 peers, kills, reboots, a failing `wg-quick` | `TypeOK`, `RaisesItsPeer`, `KeepsIdentity`, `NeverDuplicates` |
| `wg_register_live` | `install.sh`'s run with a fallback, a failing `wg-quick`, fair | `FailsafeConnects` |
| `first_boot` | SSH exposed, one unit not shipped; power cuts, aborts, a stack that fails, a ufw that is not enabled, Ctrl-C; fair | `TypeOK`, `FlagMeansComplete`, `DownIsMarked`, `OneOwner`, `ConsoleHandedOver`, `RunEnds`, `KeepsPromise` |
| `e2e` | 2 runs one after the other, timeout 3, discovery 1, stale after 1; VBoxManage and SSH fail, Ctrl-C (in the cleanup, too), kills; fair | `CompleteIsInstalled`, `NoFalseTimeout`, `HangIsStale`, `RunEnds`, `NothingLeft` |
| `smoke` | 12 boxes, 5 archives, a list of 1, 2 polls, 1 lost call or disturbance | `VerdictIsExact`, `FlawIsSeen`, `NewArchiveIsNew`, `VersionStays` |

Why the bounds are enough. Two callers give every overlap of two calls, and a third
request lets a late answer, a lost request and a newer one meet; the proofs below
remove both bounds. In the tunnel the monitor is the second caller, and its
request is the one that must not raise an old configuration. In the firewall the
first call and the boot's restore already overlap in every way; a configuration
changes under a running script because the initial one differs from the call's.
Three saves tell a file of the archive, of the tree before and of a save during the
restore apart. Two peers, one with the preferred address, make the choice
between duplicates; a creation beyond the one peer would show at once. The first boot
has the code's own bounds (two pulls, two attempts) and any number of boots; SSH is exposed
there because the rule, and with it the order of enabling and allowing, is then in play. The
tester's second run finds what the first has left; a heartbeat can go stale and come back
within three ticks, as 300 s of 600 s let it; the proofs remove the bounds. Of the smoke
test's boxes one is sound and each of the others wrong in one thing that a group of checks
looks at; a list of one archive is cut as one of 20 is; a second disturbance adds
nothing for `FlawIsSeen`, which is about what is wrong for good.

Deadlock is checked, except for the firewall, the tester and the smoke test: there
the calls, the runs and the script come to an end and the system may rest.

Fairness. `FairSpec` assumes only that what has been started goes on: systemd starts a
queued unit and boots, a script's next command is run and returns, the asyncio timer of a
polling call fires, the monitor's and the snapshot's timers fire, a backup ends, the
compose unit runs after a boot, the display's polls and its 30 s end. Of the tester only
its own steps are fair: every call it makes has a timeout of its own, while guest and
network owe nothing. `docker pull` (`install.sh:136`) has no limit of its own, nor has the
installing unit: that a pull ends, well or not, is asked of docker. The 120 s limit of the
unit is not in `wg_register_live`, whose run is `install.sh`'s; with it the fallback is not
reached (`RestartMeansNoFallback`). Users, the game, the schedule, the hub and the far peer owe nothing,
and nobody owes a key or a power cut. `SavedIsRead` rests on
`ppsa-firewall-restore.service` being enabled (`install.sh:443`), `ServerReturns` on the
compose unit (`install.sh:385`). The smoke test's specification has no fairness.

### Known divergences

The configurations below are not among the listed runs; each makes TLC show a behaviour of
the code that a comment, a docstring, a message or the page says does not happen. TLC stops at
the first violation: of a `...Diverges` configuration, keep one property at a time.

| Configuration | Refuted | The code | What is said of it |
|---|---|---|---|
| `MCWgApplyMixed` | `OkMeansMyAction` | two reads of the request file, `ppsa-wg-manual-apply.sh:47-48`: an id is answered for a newer request's action | `main.py:970-976`, `:1266` |
| `MCWgTunnelShown` | `DisconnectedIsDown` | the page ignores `status: error` of a disconnect | `index.html:1390` "Tunnel disconnected." |
| `MCWgTunnelStays` | `StaysDown` | the monitor raises again what a confirmed disconnect stopped, `main.py:1024` | `main.py:1266` "Stop the WireGuard tunnel" |
| `MCWgTunnelDead` | `DeadPeerIsNoticed` | any handshake ever counts as alive, `main.py:1017` | `main.py:999` "reconnect after 3 consecutive failures" |
| `MCFirewallTwice` | `Idempotent` | each run inserts into DOCKER-USER, *apply.sh*:133 | *apply.sh*:5 "Idempotent." |
| `MCFirewallExport` | `ExportInSync` | overlapping runs, *apply.sh*:161 | *apply.sh*:158-159 "it stays in sync" |
| `MCSaveDiverges` | `RestoreReplaces` | `extractall` removes nothing, `main.py:787` | `index.html:1017` "replace Saved games" |
| `MCSaveRestarted` | `RestoredMeansRestarted` | errors of docker are not looked at, `main.py:793` | `index.html:1021` "Palworld restarted." |
| `MCSaveDiverges` | `NoContention` | offen starts the server during an extraction | `main.py:779` "so no write contention" |
| `MCSaveDiverges` | `BackupIsCold` | a restart during offen's tar, `main.py:656` | `compose/docker-compose.yml:80-81` |
| `MCSaveDiverges` | `SnapshotIsOfOneSave` | the tree is read file by file, `main.py:752` | `main.py:741-742` |
| `MCWgRegisterLoop` | `RestartMeansNoFallback` | the waits end at 124 s, the unit at 120 s | `ppsa-wireguard-register.service:43-48` |
| `MCWgRegisterAddress` | `TunnelIsOfOnePeer` | `wg syncconf` leaves the address, *register.sh*:523 | *register.sh*:57-59 |
| `MCFirewallFalseOk` | `OkMeansApplied` | any new mtime of the export ends the wait, `main.py:1522` | `main.py:1507-1508` |
| `MCSaveCrash` | `NotLeftDown` | the webui is replaced between stop and start, `main.py:780`, `:789` | `main.py:789` "so server isn't left down" |
| `MCWgRegisterTwice` | `NeverDuplicates` | `install.sh` and the unit both check, then create, *register.sh*:376 | `ppsa-wireguard-register.service:10` |
| `MCFirstBootDiverges` | `CtrlCGivesShell` | a display ended before the flag is there starts a getty whose condition fails, `ppsa-firstboot.service:53` | `ppsa-firstboot.sh:211-212` "Press Ctrl-C to drop to a shell" |
| `MCFirstBootDiverges` | `MarkedIsDown` | the marker of a failed run is never removed by a later good one, `install.sh:206` | `install.sh:196-205` |
| `MCFirstBootDiverges` | `StockIsClosed` | `ufw --force enable` may fail and the run goes on to its flag, `install.sh:394` | `install.sh:412-416` "a stock build broadcasts nothing on the LAN" |
| `MCInstallerE2EDiverges` | `NeverMeansNever` | contact is set by the marker poll only (*e2e*:703), not by a heartbeat that was read (721-726) | *e2e*:665 "never reachable at all during the whole run" |
| `MCInstallerE2EDiverges` | `CleanupWarns` | Ctrl-C in `destroy_vm` passes `except Exception`, *e2e*:640-653: the VM stays without a warning | *e2e*:626-629 "Never raises -- cleanup failures are logged as warnings" |
| `MCWgTunnelDisk` | `DownIsAttended` | an `OSError` of the monitor's own write ends its task, `main.py:981`, `:1024-1028` | `main.py:999` "reconnect after 3 consecutive failures" |
| `MCInstallerE2EDiverges` | `KeptIsLeft` | the next run's cleanup destroys the kept VM of the same name, *e2e*:622-654 | *e2e*:1066-1070 `--keep-vm` |
| `MCInstallerE2EDiverges` | `ReachedMeansRan` | 255 from ssh counts as contact, *e2e*:701 | *e2e*:665-675 |
| `MCInstallerE2EDiverges` | `HangIsAHang` | the install closes SSH on the LAN before its flag is there, and its last heartbeat grows old, *e2e*:734-753 | *e2e*:659-664 |
| `MCSmokeDiverges` | `FreshInstallPasses` | checks that need a world fail while the game downloads | *smoke*:1064, 764-767 |
| `MCSmokeDiverges` | `NoNewArchiveFails` | the first list was lost and is taken for an empty one, *smoke*:435 | *smoke*:418-420 |
| `MCSmokeDiverges` | `PalworldRuns` | `docker ps --filter name=` matches the REST proxy too, *smoke*:759-767 | *smoke*:764-767 |
| `MCSmokeAddress` | `VerdictIsExact` | an empty `netbird_ip` passes | the check's name "NetBird has IP" |
| `MCWgRegisterTorn` | `PersistedIsWhole` | `curl -o wg0.conf`, *register.sh*:461 | `ppsa-wireguard-register.service:26-27` |

## 5. Proofs

The theorems hold for any number of callers, requests, calls, saves, peers, boots, runs,
boxes and archives, any timeouts and any set of faults; the only assumptions are those on
the constants, and those that a theorem names itself.

**`WgApplyProofs`.** `OkIsBacked` is not inductive: an ok may be on its way back in the
result file or in the script's hands. `IInv` adds where it can be (`AnswerInv`), that
the file holds one whole request or none (`FileInv`), that a call that writes is the newest
(`CallerInv`), that nothing that has run is newer than what can still be read
(`OrderInv`), and what action the script may hold (`MixInv`). One lemma per action
proves that `IInv` is kept (`Inductive`); `OkBacked`, `MixingIsForward` and
`HostGoesForward` follow. `ChannelImplementsHostCall` maps each step: `Begin` opens
a call, a finished `wg-quick` carries it out, a return or a failed write answers it, everything else
stutters; that an ok is returned only for a call carried out is `AnswerInv`.

**`FirewallProofs`.** `TypeCorrect` first (the chain is a sequence of any length: two
runs may append without limit). `ChainIsClosed` uses `ClosedInv`: either a run that has
still to close the chain is under way, or its last element is the DROP; and the same
for the jump. `LoneRunCorrect` uses `LoneInv`: while only one run is in progress, the
chain is as far as that run's step says, and nobody else touches it.

**`WgRegisterProofs`.** Under `Alone` (at most one runner: every boot after the first),
`IInv` says that a peer is created only while the hub has none (`HubInv`), that the peer
in the script's hands is the one any run would pick (`PickInv`), and that `wg0.conf` is as far
as the run is (`ConfInv`). A `wg-quick` that fails leaves the file and the hub alone and sends
the run to the fallback, which `ConfInv` covers. `Inductive`, `NoDuplicates`, `RaisesOnlyItsPeer` and
`IdentityIsKept` follow. Without `Alone` the statement is false: `MCWgRegisterTwice`.

**`WgTunnelProofs`.** `UsesTheChannel` shows that every step of the tunnel is a step of the
channel or none, so `IInv` and all that follows from it hold in the tunnel too.
`TunnelTypeCorrect` needs `CounterInv`: the monitor's counter is at three only while its own
call is under way, else a fourth count would follow. `RaisesTheCurrent` combines `ConfInv`
(`wg0.conf` is as new as every connect so far) with the channel's `OrderInv`: the host's
request is one that was issued.

**`SaveRestoreProofs`.** `PartialRefused` is inductive with the types. `RestoreComplete`
uses `ExtractInv`: in an extraction that nobody disturbed the server is down, and every file
of the archive is in place or still to do. `ServerNotLeftDown` uses `SomeoneStarts`: the
server is up, or a boot, a handler or the backup container that stopped it is under way. It
assumes that the webui is not replaced, docker answers and no exception escapes the handler;
without the first `MCSaveCrash` refutes it.

**`FirstBootProofs`.** `ProgressInv` says which units are enabled, whether ufw is on or has
refused, and whether the rule for SSH is there, at each step, whatever earlier runs had done, so that the flag is written over a complete box
(`InstalledIsComplete`); `MarkerInv` carries "seen up or marked" from the last attempt to
the end (`FailureIsMarked`, which assumes that the touch of the marker does not fail). `TtyHasOneOwner` is inductive by itself. `PromiseKept` maps the
steps: `Env`, `Pull` and `Up` touch, `EnableUfw` and `AllowSsh` change SSH on the LAN or leave it
as it is, the flag finishes (here `ProgressInv` is needed: the rule is there if the image
wants it, with ufw on or off), the rest stutters. `InstallIsBounded` ranks each step by what `install.sh` has still
to do; `AttemptInv` (a run counts its attempts and pulls from the start, whatever an earlier
boot left in the counters) makes the rank fall with each step, from 19.

**`InstallerE2EProofs`.** `E2EInv` says of each run where it may be, given its counter, the
guest and what it knows: what every run knows of itself (`OwnInv`: its contact, what its
last round lost, the reason it gives), and that a guest is on only in a running VM (`GuestInv`), hold also
when runs overlap; what a run knows of the guest (`KnowsInv`: the age of the last heartbeat
it has seen, the flag at its last poll) and that only one is not idle (`AloneInv`) hold for
runs that do not (`~Concurrent`). One lemma per action. So `E2ETypeCorrect` and
`NeverIsUnanswered` need no hypothesis. `NoFalseTimeout` holds because a run whose last poll
was answered had a guest without flag at the last tick, and only its own sleep ticks; what
earlier polls had lost does not matter. `SuspectsRightly`: a run suspects a hang from the age it has read, and until it has said so
the guest's heartbeat can only have grown older or have come again. `StepsAreBounded` needs
only `OwnInv`: the rank of a run, from its place and its counter, falls with each of its steps,
and no other run, guest or network moves it.

**`SmokeTestProofs`.** `ArchiveInv`: until an archive has been made, the list is what was
read before the trigger, so that a new entry means a new archive (`FoundIsNew`), however the
list is cut. `ShownVersionStays` uses that what is shown is remembered. `SmokeTypes` adds to
the types where each special check's steps are (`PlaceInv`: only thus are there never more
than two backups) and that the newest archive is there (`NewestInv`: a backup prunes only what is
older than its own archive). `VerdictIs` says what every check comes to on the box as it is. On these rest:

- `FlawsAreSeen`, by `FlawInv`: if no check has failed so far, each check that is over has
  seen its part of the box (`Seen`), and the box's lasting part does not change. An exited
  wgdashboard is the exception that the property names.
- `VerdictsAreExact`, by `CalmInv` and `WellInv` on undisturbed runs. The box was healthy if
  it is sound and its game serves, which nothing changes before the last guard has its
  backup made (`CalmInv`). On a healthy box every check passes (`WellInv`): the token is there
  once it is needed, `docker ps` lists at least four containers (`SoundRuns`), and after the
  guard's own backup the newest archive is in the list however short that is and was not
  in it before (`NewestIsListed`); so only a backup that outlasts the last poll fails it
  (`HealthyOnlyLate`).

Both assume that NetBird is not still joining on any of the boxes (`NoneJoins`): on such a
box both properties are false, since an empty address passes (`MCSmokeAddress`). The
constants are assumed to leave room for more archives than a list shows (`MaxArchives >
Shown`), as a used box needs one more to start with. `CallsAreBounded` (no hypothesis) counts
the calls the script can still make: its 27 checks, the second halves of some, the guard's polls, the verdict.

## 6. Only model-checked

Every liveness property: the prover does not do liveness under fairness. Of "it ends" in the
first boot (`RunEnds`), the tester (`RunEnds`) and the smoke test, the safety half is proved
(`InstallIsBounded`, `StepsAreBounded`, `CallsAreBounded`: only finitely many steps can be
taken); that a step which can be taken is taken needs the fairness and ENABLED. All safety
properties and action properties that a run checks are also proved, those of the tester,
of registration and of the smoke test under the hypotheses that section 5 names. The
properties of the configurations under "Known divergences" are false of the code.

## 7. Not modelled

- Build queue and orchestrator, NetBird's back-off, Wi-Fi onboarding, the USB installer:
  planned (section 2), each a component that shares no state with those modelled.
- Accounts (`users.json`, tokens), the editing of `.env`, mods and the player commands:
  planned. A restart from the page does not make a container read `.env` again
  (`main.py:655`), which the page says it does (`index.html:321`); this is outside the
  modules here.
- Of the modelled parts: the key files and the fields of the WireGuard status; the LAN
  endpoint tried after a missing handshake; iptables commands that fail (a failing
  `-A DROP`, *apply.sh*:104, leaves the chain open until the next run); a request whose change
  the path unit does not notice is never run, and nothing is claimed of it; the box's own
  scheduled backups while the smoke test runs; clocks that differ between guest and host and an
  `--ssh-target` of another guest; the content of the
  tester's log file and its `--verbose` diagnostics; the smoke test's Ctrl-C (exit code 130) and its log file.
- Left out for good: the image build and the cloud scripts (straight-line provisioning that
  keeps no state between runs), Prometheus and Grafana (configuration), wording and layout
  of the pages.

iptables, docker, VirtualBox and ssh are modelled by what the code asks of them.
