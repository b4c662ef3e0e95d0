---------------------------- MODULE BoundedQueue ----------------------------
(***************************************************************************)
(* What a waitable action queue promises to the threads that share it: an  *)
(* atomic FIFO of at most Capacity action objects.  An object put in by    *)
(* one thread is handed to exactly one receiver, in the order of the puts. *)
(* There is no code for this module; WaitableActionQueue implements it.    *)
(***************************************************************************)
EXTENDS Integers, Sequences

CONSTANTS
  Capacity,   \* number of slots
  Threads,    \* the threads that share the queue
  Actions,    \* the action objects that can exist
  NULL        \* no action

VARIABLES
  q,          \* the queued actions, oldest first
  got         \* got[t]: the action thread t has received and not yet let go

vars == <<q, got>>

\* The actions that are queued or in the hands of a receiver.
Owned == {q[i] : i \in 1..Len(q)} \cup {got[t] : t \in Threads}

Init == q = <<>> /\ got = [t \in Threads |-> NULL]

\* A put is atomic, needs a free slot, and never queues an object twice.
Put(a) ==
  /\ Len(q) < Capacity
  /\ a \notin Owned
  /\ q' = Append(q, a)
  /\ UNCHANGED got

\* A get hands the oldest action to one thread.
Get(t) ==
  /\ q # <<>>
  /\ got[t] = NULL
  /\ got' = [got EXCEPT ![t] = Head(q)]
  /\ q' = Tail(q)

\* The receiver is done with the action it got.
Release(t) ==
  /\ got[t] # NULL
  /\ got' = [got EXCEPT ![t] = NULL]
  /\ UNCHANGED q

\* The queue is torn down when no thread holds one of its actions.
Clear ==
  /\ \A t \in Threads : got[t] = NULL
  /\ q' = <<>>
  /\ UNCHANGED got

Next ==
  \/ \E a \in Actions : Put(a)
  \/ \E t \in Threads : Get(t) \/ Release(t)
  \/ Clear

Spec == Init /\ [][Next]_vars
=============================================================================
