-------------------------- MODULE MCNumaThreadPool --------------------------
(***************************************************************************)
(* NumaThreadPool on small instances; tasks and producers are              *)
(* interchangeable, nodes are not (loops visit them in order).             *)
(***************************************************************************)
EXTENDS NumaThreadPoolProps, TLC

Symmetry == Permutations(Tasks) \cup Permutations(Producers)
=============================================================================
