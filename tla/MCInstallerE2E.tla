--------------------------- MODULE MCInstallerE2E ---------------------------
(* Two runs meet through the VM's name; a heartbeat can go stale and come  *)
(* back before --timeout-seconds are over, as 300 s of 600 s let it.       *)
EXTENDS InstallerE2E
=============================================================================
