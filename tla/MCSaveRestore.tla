---------------------------- MODULE MCSaveRestore ----------------------------
(* Three saves tell the running world, a saved one and a foreign one apart. *)
EXTENDS SaveRestore
=============================================================================
