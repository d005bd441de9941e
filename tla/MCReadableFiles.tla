--------------------------- MODULE MCReadableFiles ---------------------------
(***************************************************************************)
(* ReadableFiles on small instances.  Paths and downloads are              *)
(* interchangeable: nothing in the module orders them.                     *)
(***************************************************************************)
EXTENDS ReadableFiles, TLC

Symmetry == Permutations(Paths) \cup Permutations(Downloads)
=============================================================================
