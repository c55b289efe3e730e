------------------------- MODULE MCNormalThreadPool -------------------------
(***************************************************************************)
(* NormalThreadPool on small instances.  Tasks and producers are model     *)
(* values that no definition tells apart, so permuting them is a symmetry  *)
(* of the runs that check safety only.                                     *)
(***************************************************************************)
EXTENDS NormalThreadPoolProps, TLC

Symmetry == Permutations(Tasks) \cup Permutations(Producers)
=============================================================================
