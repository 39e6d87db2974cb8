--------------------------- MODULE MCEventDispatch ---------------------------
(* EventDispatch.tla for TLC: enough registrations for a list to shrink,    *)
(* grow and be replaced under one dispatch.                                 *)
EXTENDS EventDispatch, TLC

Symmetry == Permutations(Names) \union Permutations(Callbacks)
==============================================================================
