-------------------------- MODULE MCFunctionTrace --------------------------
(***************************************************************************)
(* FunctionTrace for TLC.                                                  *)
(***************************************************************************)
EXTENDS FunctionTrace, TLC

\* Threads are interchangeable: no action and no property names one.
Symmetry == Permutations(Threads)

=============================================================================
