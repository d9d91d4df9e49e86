--------------------------- MODULE MCFirewallApply ---------------------------
(* One call and one reboot put the request unit, late or not, beside the    *)
(* restore unit; MCFirewallFalseOk.cfg has two calls and no reboot.         *)
EXTENDS FirewallApply
=============================================================================
