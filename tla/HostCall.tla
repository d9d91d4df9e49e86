------------------------------ MODULE HostCall ------------------------------
(***************************************************************************)
(* What the webui promises the caller of _wg_apply, without the files: the *)
(* host carries a request out, perhaps late and perhaps more than once,    *)
(* and a call that returns normally was carried out before it returned.    *)
(***************************************************************************)
EXTENDS Naturals

CONSTANT MaxRequests        \* how many calls are made in a behaviour

Ids == 1 .. MaxRequests

VARIABLES
  phase,    \* phase[i]: how far call i is, seen from the caller
  done      \* the calls the host has carried out successfully

callVars == <<phase, done>>

Phases == {"none", "open", "ok", "failed"}

Init ==
  /\ phase = [i \in Ids |-> "none"]
  /\ done = {}

Open(i) ==
  /\ phase[i] = "none"
  /\ phase' = [phase EXCEPT ![i] = "open"]
  /\ UNCHANGED done

CarryOut(i) ==          \* the host may do so after the caller has given up
  /\ phase[i] # "none"
  /\ done' = done \cup {i}
  /\ UNCHANGED phase

ReturnOk(i) ==
  /\ phase[i] = "open"
  /\ i \in done
  /\ phase' = [phase EXCEPT ![i] = "ok"]
  /\ UNCHANGED done

ReturnFailed(i) ==
  /\ phase[i] = "open"
  /\ phase' = [phase EXCEPT ![i] = "failed"]
  /\ UNCHANGED done

Next == \E i \in Ids : Open(i) \/ CarryOut(i) \/ ReturnOk(i) \/ ReturnFailed(i)

Spec == Init /\ [][Next]_callVars

=============================================================================
