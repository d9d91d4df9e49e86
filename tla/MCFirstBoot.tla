---------------------------- MODULE MCFirstBoot ----------------------------
(* The code's own bounds: two pulls, two attempts, nine steps.             *)
EXTENDS FirstBoot
=============================================================================
