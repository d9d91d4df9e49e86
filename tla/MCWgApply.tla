------------------------------ MODULE MCWgApply ------------------------------
(* Two concurrent calls suffice for every overlap; three ids let a late     *)
(* answer, a newer request and a lost one meet.                             *)
EXTENDS WgApply, TLC

CallerSymmetry == Permutations(Callers)

=============================================================================
