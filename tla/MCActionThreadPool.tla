------------------------- MODULE MCActionThreadPool -------------------------
(***************************************************************************)
(* Small instances of ActionThreadPool for TLC.  Two actions fill the      *)
(* queue, and a third makes exec create one thread more than min_idle_nr.  *)
(* Bound: there are as many names for thread objects as the pool has       *)
(* slots, or one more, so that a new thread may have to wait until one     *)
(* that has cleared its slot is done.                                      *)
(***************************************************************************)
EXTENDS ActionThreadPool
=============================================================================
