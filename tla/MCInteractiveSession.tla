------------------------ MODULE MCInteractiveSession ------------------------
(* Instances of InteractiveSession for TLC.                                *)
EXTENDS InteractiveSession, TLC

CONSTANTS c1, t1, t2

\* Two directories of one connection.
Shared == [t \in Targets |-> c1]

Directories == Permutations(Targets)
=============================================================================
