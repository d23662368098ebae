---------------------------- MODULE MCAppCommand ----------------------------
(* Instances of AppCommand for TLC.                                        *)
EXTENDS AppCommand, TLC

CONSTANTS p1, p2, p3

ProcSymmetry == Permutations({p1, p2, p3})
=============================================================================
