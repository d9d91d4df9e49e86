--------------------------- MODULE InstallPromise ---------------------------
(***************************************************************************)
(* What a box's first boot promises those who watch it from outside: an    *)
(* install runs at every boot until one has finished, the marker is there  *)
(* from then on, and an image built to expose SSH on the LAN does when it  *)
(* is.  That another image does not is not promised: install.sh goes on    *)
(* when ufw cannot be enabled (394).                                       *)
(***************************************************************************)
CONSTANT ExposeSsh          \* network-policy.json: expose_ssh_lan

VARIABLES
  phase,     \* what the box is doing
  flag,      \* /opt/ppsa/.installed
  lan,       \* sshd answers on the LAN (on the disk: it outlives a boot)
  touched    \* /run/ppsa-install.activity exists (in memory)

promiseVars == <<phase, flag, lan, touched>>

Phases == {"off", "installing", "aborted", "installed"}

Init ==
  /\ phase = "off"
  /\ flag = FALSE /\ lan = TRUE /\ touched = FALSE

PowerOn ==
  /\ phase = "off"
  /\ phase' = IF flag THEN "installed" ELSE "installing"
  /\ UNCHANGED <<flag, lan, touched>>

Touch ==
  /\ phase = "installing"
  /\ touched' = TRUE
  /\ UNCHANGED <<phase, flag, lan>>

(* ufw closes the LAN; the rule for SSH, if the image wants it, opens it.  *)
SetLan ==
  /\ phase = "installing"
  /\ lan' \in {FALSE, ExposeSsh}
  /\ UNCHANGED <<phase, flag, touched>>

Abort ==
  /\ phase = "installing"
  /\ phase' = "aborted"
  /\ UNCHANGED <<flag, lan, touched>>

Finish ==
  /\ phase = "installing"
  /\ ExposeSsh => lan
  /\ phase' = "installed" /\ flag' = TRUE
  /\ UNCHANGED <<lan, touched>>

PowerOff ==
  /\ phase # "off"
  /\ phase' = "off" /\ touched' = FALSE
  /\ UNCHANGED <<flag, lan>>

Next == PowerOn \/ Touch \/ SetLan \/ Abort \/ Finish \/ PowerOff

Spec == Init /\ [][Next]_promiseVars

=============================================================================
