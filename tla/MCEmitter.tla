------------------------------ MODULE MCEmitter ------------------------------
(***************************************************************************)
(* Small instances of Emitter for TLC: with three items a handler can      *)
(* remove the item before it, itself and the item after it, and a fourth   *)
(* one can be registered meanwhile; three nested dispatches let one work   *)
(* on an item of another.                                                  *)
(***************************************************************************)
EXTENDS Emitter, TLC

\* Items are interchangeable memory, and so are the tags.
Symmetry == Permutations(Items) \cup Permutations(Tags)
=============================================================================
