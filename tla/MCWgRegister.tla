---------------------------- MODULE MCWgRegister ----------------------------
(* Two peers: a duplicate needs no third.  The waits are the code's.        *)
EXTENDS WgRegister
=============================================================================
