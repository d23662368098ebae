--------------------------- MODULE MCMountRuntime ---------------------------
(* A small instance of MountRuntime for TLC.                               *)
EXTENDS MountRuntime, TLC

\* Actors, connections, mountpoints and PIDs are only compared for equality.
Symmetry ==
  Permutations(Actors) \cup Permutations(Servers) \cup Permutations(Mps)
    \cup Permutations(Pids)
=============================================================================
