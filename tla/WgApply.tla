------------------------------- MODULE WgApply -------------------------------
(***************************************************************************)
(* The WireGuard apply channel between the webui container and the host.   *)
(*                                                                         *)
(* main.py:_wg_apply overwrites ONE request file and polls ONE result file *)
(* for its own id; ppsa-wg-manual-apply.path starts a oneshot service on   *)
(* the host, whose script reads the id and the action of the request file  *)
(* with two separate reads, runs wg-quick and replaces the result file.    *)
(* Several calls are open at a time: HTTP handlers and the health monitor. *)
(***************************************************************************)
EXTENDS Naturals

CONSTANTS
  Callers,      \* the coroutines that may be inside _wg_apply at one time
  MaxRequests,  \* bound: the number of uuid4 request ids handed out
  Faults        \* which of "webui_restart", "reboot", "disk" (a write fails) may happen

ASSUME MaxRequestsAssumption == MaxRequests \in Nat \ {0}

Ids      == 1 .. MaxRequests
NoId     == 0               \* the empty id the script falls back to
Actions  == {"up", "down"}
NoAction == "none"
Blank    == [id |-> NoId, action |-> NoAction]  \* a file open(.., "w") has truncated

VARIABLES
  issued,   \* how many request ids have been handed out, in order
  act,      \* act[i]: the action request i asked for
  caller,   \* the coroutines: where each is and which id it waits for
  request,  \* what the request file holds
  result,   \* what the result file holds
  trigger,  \* the path unit has queued a start of the service
  host,     \* the script: where it is, REQ_ID, ACTION and RC = 0
  wg0,      \* does the interface exist on the host?
  reply,    \* reply[i]: what call i returned
  runs      \* every wg-quick run the script has made, for the properties

vars == <<issued, act, caller, request, result, trigger, host, wg0, reply, runs>>

TypeOK ==
  /\ issued \in 0 .. MaxRequests
  /\ act \in [Ids -> Actions \cup {NoAction}]
  /\ caller \in [Callers -> [pc: {"idle", "writing", "polling"}, id: 0 .. MaxRequests]]
  /\ request \in [id: 0 .. MaxRequests, action: Actions \cup {NoAction}]
  /\ result \in [id: 0 .. MaxRequests, status: {"none", "ok", "error"}]
  /\ trigger \in BOOLEAN
  /\ host \in [pc: {"idle", "read_id", "read_action", "apply", "raise", "report"},
               id: 0 .. MaxRequests, action: Actions \cup {NoAction}, ok: BOOLEAN]
  /\ wg0 \in BOOLEAN
  /\ reply \in [Ids -> {"none", "ok", "error", "timeout"}]
  /\ runs \subseteq [id: Ids, action: Actions, ok: BOOLEAN]

IdleCaller == [pc |-> "idle", id |-> NoId]
IdleHost   == [pc |-> "idle", id |-> NoId, action |-> NoAction, ok |-> FALSE]

Init ==
  /\ issued = 0
  /\ act = [i \in Ids |-> NoAction]
  /\ caller = [c \in Callers |-> IdleCaller]
  /\ request = Blank
  /\ result = [id |-> NoId, status |-> "none"]
  /\ trigger = FALSE
  /\ host = IdleHost
  /\ wg0 \in BOOLEAN
  /\ reply = [i \in Ids |-> "none"]
  /\ runs = {}

-----------------------------------------------------------------------------
(* The path unit.  A change of the file while the service is inactive      *)
(* queues a start; while it is active the path unit has stopped watching,  *)
(* and whether the change is noticed is left open.                         *)
Notify ==
  IF host.pc = "idle" THEN trigger' = TRUE ELSE trigger' \in {trigger, TRUE}

(* The webui.  write_text truncates, then writes, and the event loop is    *)
(* held in between: the host can see the blank file, other coroutines not. *)
LoopFree == \A c \in Callers : caller[c].pc # "writing"

Begin(c, a) ==
  /\ LoopFree
  /\ caller[c].pc = "idle"
  /\ issued < MaxRequests
  /\ issued' = issued + 1
  /\ act' = [act EXCEPT ![issued + 1] = a]
  /\ caller' = [caller EXCEPT ![c] = [pc |-> "writing", id |-> issued + 1]]
  /\ request' = Blank
  /\ Notify
  /\ UNCHANGED <<result, host, wg0, reply, runs>>

(* Variant: the action of the first request is written under every id. *)
FinishWriteStale(c) ==
  /\ caller[c].pc = "writing"
  /\ request' = [id |-> caller[c].id, action |-> act[1]]
  /\ caller' = [caller EXCEPT ![c].pc = "polling"]
  /\ Notify
  /\ UNCHANGED <<issued, act, result, host, wg0, reply, runs>>

FinishWrite(c) ==
  /\ caller[c].pc = "writing"
  /\ request' = [id |-> caller[c].id, action |-> act[caller[c].id]]
  /\ caller' = [caller EXCEPT ![c].pc = "polling"]
  /\ Notify
  /\ UNCHANGED <<issued, act, result, host, wg0, reply, runs>>

Leave(c, r) ==
  /\ reply' = [reply EXCEPT ![caller[c].id] = r]
  /\ caller' = [caller EXCEPT ![c] = IdleCaller]
  /\ UNCHANGED <<issued, act, request, result, host, wg0, runs>>

(* write_text raises an OSError, which leaves the call; the file is blank. *)
WriteFails(c) ==
  /\ "disk" \in Faults
  /\ caller[c].pc = "writing"
  /\ Leave(c, "error")
  /\ Notify

Return(c, r) ==
  /\ LoopFree
  /\ caller[c].pc = "polling"
  /\ Leave(c, r)
  /\ UNCHANGED trigger

(* Variant: whatever the result file says is taken for the own answer. *)
PollAnyAnswer(c) ==
  /\ result.status # "none"
  /\ Return(c, result.status)

PollAnswer(c) ==
  /\ result.id = caller[c].id
  /\ Return(c, result.status)

(* Variants: a call that waits for ever, one that takes silence for       *)
(* success, and one that writes its request again instead of giving up.   *)
TimeOutNever(c) == result.id = caller[c].id /\ Return(c, "timeout")

TimeOutAsOk(c) == Return(c, "ok")

TimeOutRetry(c) ==
  /\ LoopFree
  /\ caller[c].pc = "polling"
  /\ request' = [id |-> caller[c].id, action |-> act[caller[c].id]]
  /\ Notify
  /\ UNCHANGED <<issued, act, caller, result, host, wg0, reply, runs>>

(* 15 s have passed; an answer that arrived since the last poll is not read. *)
TimeOut(c) == Return(c, "timeout")

-----------------------------------------------------------------------------
(* The host. *)
hostOnly == <<issued, act, caller, request, reply>>

(* Variant: the start is dropped, as by a unit start limit. *)
StartServiceDropped ==
  /\ trigger
  /\ host.pc = "idle"
  /\ trigger' = FALSE
  /\ UNCHANGED <<hostOnly, host, result, wg0, runs>>

StartService ==
  /\ trigger
  /\ host.pc = "idle"
  /\ trigger' = FALSE
  /\ host' = [host EXCEPT !.pc = "read_id"]
  /\ UNCHANGED <<hostOnly, result, wg0, runs>>

ReadId ==
  /\ host.pc = "read_id"
  /\ host' = [host EXCEPT !.pc = "read_action", !.id = request.id]
  /\ UNCHANGED <<hostOnly, result, trigger, wg0, runs>>

(* An empty id or action is reported as a malformed request. *)
ReadAction ==
  /\ host.pc = "read_action"
  /\ host' = [host EXCEPT
                !.action = request.action,
                !.pc = IF host.id = NoId \/ request.action = NoAction
                       THEN "report" ELSE "apply"]
  /\ UNCHANGED <<hostOnly, result, trigger, wg0, runs>>

Ran(ok) ==
  /\ host' = [host EXCEPT !.pc = "report", !.ok = ok]
  /\ runs' = runs \cup {[id |-> host.id, action |-> host.action, ok |-> ok]}
  /\ UNCHANGED <<hostOnly, result, trigger>>

(* "up" first takes an existing interface down and ignores how that went. *)
TearDown ==
  /\ host.pc = "apply"
  /\ host.action = "up"
  /\ host' = [host EXCEPT !.pc = "raise"]
  /\ wg0' \in {FALSE, wg0}
  /\ UNCHANGED <<hostOnly, result, trigger, runs>>

BringUp ==
  /\ host.pc = "raise"
  /\ \/ ~wg0 /\ wg0' = TRUE /\ Ran(TRUE)
     \/ wg0' = wg0 /\ Ran(FALSE)        \* wg-quick failed and cleaned up

BringDown ==
  /\ host.pc = "apply"
  /\ host.action = "down"
  /\ \/ wg0 /\ wg0' = FALSE /\ Ran(TRUE)
     \/ wg0' = wg0 /\ Ran(FALSE)

(* Variant: the exit code itself is written as the status. *)
ReportRaw ==
  /\ host.pc = "report"
  /\ result' = [id |-> host.id, status |-> IF host.ok THEN "0" ELSE "1"]
  /\ host' = IdleHost
  /\ UNCHANGED <<hostOnly, trigger, wg0, runs>>

(* write_result: the finished file is moved over the old one. *)
Report ==
  /\ host.pc = "report"
  /\ result' = [id |-> host.id, status |-> IF host.ok THEN "ok" ELSE "error"]
  /\ host' = IdleHost
  /\ UNCHANGED <<hostOnly, trigger, wg0, runs>>

-----------------------------------------------------------------------------
(* Faults.  The webui process is replaced, and its coroutines with it; or  *)
(* the host loses power: the files stay, the unit does not start by itself *)
(* at boot, and wg-quick@wg0 may be enabled or not.                        *)
WebuiRestart ==
  /\ "webui_restart" \in Faults
  /\ caller' = [c \in Callers |-> IdleCaller]
  /\ UNCHANGED <<issued, act, request, result, trigger, host, wg0, reply, runs>>

Reboot ==
  /\ "reboot" \in Faults
  /\ caller' = [c \in Callers |-> IdleCaller]
  /\ trigger' = FALSE
  /\ host' = IdleHost
  /\ wg0' \in BOOLEAN
  /\ UNCHANGED <<issued, act, request, result, reply, runs>>

WebuiStep(c) ==
  \/ \E a \in Actions : Begin(c, a)
  \/ FinishWrite(c) \/ WriteFails(c)
  \/ PollAnswer(c)
  \/ TimeOut(c)

HostStep ==
  \/ StartService \/ ReadId \/ ReadAction
  \/ TearDown \/ BringUp \/ BringDown \/ Report

Next ==
  \/ \E c \in Callers : WebuiStep(c)
  \/ HostStep
  \/ WebuiRestart
  \/ Reboot

Spec == Init /\ [][Next]_vars

(* Users call when they like.  A started write finishes or fails, the      *)
(* asyncio timer of a polling call fires, systemd and the script go on.    *)
Fairness ==
  /\ WF_vars(HostStep)
  /\ \A c \in Callers : WF_vars(FinishWrite(c)) /\ WF_vars(TimeOut(c))

FairSpec == Spec /\ Fairness

-----------------------------------------------------------------------------
(* A call never reports success for work the host has not finished for     *)
(* that very call: not for another caller's, not for an earlier one's      *)
(* (main.py:991-994, one shared result file).                              *)
OkIsBacked ==
  \A i \in Ids : reply[i] = "ok" => \E r \in runs : r.id = i /\ r.ok

(* The two reads of the script can pair the id of one request with the     *)
(* action of another, but only of a LATER one: what the host runs under an *)
(* id is what that call asked for, or what a newer call asks for.          *)
MixOnlyWithNewer ==
  \A r \in runs :
    \/ r.action = act[r.id]
    \/ \E j \in (r.id + 1) .. issued : act[j] = r.action

(* The host never goes back: once it has run wg-quick for a request it     *)
(* does not run it for an older one, whatever is lost or overwritten.      *)
NeverBackwards ==
  [][\A r \in runs' \ runs : \A q \in runs : q.id <= r.id]_vars

(* What the docstrings of main.py:970-976 and :1266 say: a call that       *)
(* returns normally had ITS action applied on the host.                    *)
OkMeansMyAction ==
  \A i \in Ids : reply[i] = "ok" => \E r \in runs : r.id = i /\ r.ok /\ r.action = act[i]

(* Every call returns, even when its request or its answer is lost.        *)
CallsReturn ==
  \A c \in Callers : caller[c].pc = "polling" ~> caller[c].pc = "idle"

(* A request the path unit has noticed is run, unless a newer one comes.   *)
NoticedIsRun ==
  \A i \in Ids :
    (trigger /\ request.id = i) ~> (issued > i \/ \E r \in runs : r.id = i)

-----------------------------------------------------------------------------
(* The channel implements the calls of module HostCall. *)
PhaseOf(i) ==
  IF i > issued THEN "none"
  ELSE IF reply[i] = "none" THEN "open"
  ELSE IF reply[i] = "ok" THEN "ok" ELSE "failed"

PhaseMap == [i \in Ids |-> PhaseOf(i)]
DoneMap  == {i \in Ids : \E r \in runs : r.id = i /\ r.ok}

Call == INSTANCE HostCall WITH phase <- PhaseMap, done <- DoneMap

(* Seen from its callers, the channel is a HostCall. *)
ImplementsHostCall == Call!Spec

-----------------------------------------------------------------------------
(* The inductive invariant. *)
HasRun(i) == \E r \in runs : r.id = i /\ r.ok

FileInv ==      \* the file holds one whole request, or none
  /\ request.id = NoId => request.action = NoAction
  /\ request.id # NoId => request.action = act[request.id] /\ request.id <= issued
  /\ \A i \in 1 .. issued : act[i] \in Actions

CallerInv ==    \* the call that writes is the newest; open calls have an id
  \A c \in Callers :
    /\ caller[c].pc = "idle" => caller[c].id = NoId
    /\ caller[c].pc = "writing" => caller[c].id = issued
    /\ caller[c].pc # "idle" =>
         /\ caller[c].id \in 1 .. issued
         /\ reply[caller[c].id] = "none"
    /\ \A d \in Callers : c # d /\ caller[c].pc # "idle" => caller[c].id # caller[d].id

OrderInv ==     \* nothing that has run is newer than what can still be read
  /\ host.id <= issued
  /\ \A r \in runs : r.id <= issued
  /\ request.id # NoId =>
       /\ \A r \in runs : r.id <= request.id
       /\ host.id <= request.id
  /\ host.pc \in {"read_action", "apply", "raise"} /\ host.id # NoId =>
       \A r \in runs : r.id <= host.id

MixInv ==       \* the action in the script's hands
  host.pc \in {"apply", "raise"} =>
    /\ host.id # NoId
    /\ host.action \in Actions
    /\ \/ host.action = act[host.id]
       \/ \E j \in (host.id + 1) .. issued : act[j] = host.action

AnswerInv ==    \* an "ok" on its way back stands for a finished run
  /\ host.ok => host.pc = "report" /\ HasRun(host.id)
  /\ result.status = "ok" => HasRun(result.id)
  /\ result.id # NoId => result.status # "none"
  /\ \A i \in Ids : i > issued => reply[i] = "none"

IInv ==
  /\ TypeOK /\ FileInv /\ CallerInv /\ OrderInv
  /\ MixInv /\ AnswerInv /\ OkIsBacked /\ MixOnlyWithNewer

=============================================================================
