----------------------- MODULE MCWaitableActionQueue ------------------------
(***************************************************************************)
(* Small instances of WaitableActionQueue for TLC.  The threads, the       *)
(* actions and NULL are model values of the configuration.  With Capacity  *)
(* 2, three actions are enough to fill the ring while another sender is    *)
(* refused, and the indices wrap around after two sends.                   *)
(***************************************************************************)
EXTENDS WaitableActionQueue
=============================================================================
