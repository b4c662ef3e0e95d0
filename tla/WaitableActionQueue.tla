------------------------ MODULE WaitableActionQueue -------------------------
(***************************************************************************)
(* The waitable action queue (tkc/waitable_action_queue.c): a ring of      *)
(* action pointers (tkc/action_queue.c) guarded by one mutex and two       *)
(* counting semaphores, shared by any number of sending and receiving      *)
(* threads.  Every call of the platform layer that another thread can      *)
(* observe (semaphore wait, semaphore post, lock, unlock) is a step of its *)
(* own; the ring is only touched under the mutex.                          *)
(***************************************************************************)
EXTENDS Integers, FiniteSets

CONSTANTS
  Capacity,    \* q->capacity
  Producers,   \* the threads that call waitable_action_queue_send
  Consumers,   \* the threads that call waitable_action_queue_recv
  Actions,     \* the qaction_t objects that can be alive at a time
  NULL

\* action_queue_create refuses a capacity that is not greater than one.
ASSUME CapacityAssumption == Capacity \in Nat /\ Capacity > 1

\* It computes the size of the queue, on a 64-bit platform 16 bytes and 8 for
\* each action, in 16 bits; a ring that does not fit is larger than its memory.
ASSUME SizeAssumption == 16 + 8 * Capacity < 65536
ASSUME ThreadsAssumption == IsFiniteSet(Producers) /\ IsFiniteSet(Consumers)
ASSUME NULLAssumption == NULL \notin Actions /\ NULL \notin Producers \cup Consumers

VARIABLES
  actions,     \* queue->actions: slot -> action or NULL
  r, w, full,  \* queue->r, queue->w, queue->full
  sema_send,   \* value of the semaphore that counts free slots
  sema_recv,   \* value of the semaphore that counts queued actions
  mutex,       \* the thread that holds q->mutex, or NULL
  pc,          \* pc[t]: where thread t is
  held,        \* held[t]: the action t is sending, or has received
  ret,         \* ret[t]: the variable ret of the call t is in
  live         \* the actions that are allocated and not yet destroyed

ring == <<actions, r, w, full>>
vars == <<ring, sema_send, sema_recv, mutex, pc, held, ret, live>>

Threads == Producers \cup Consumers
Slots == 0..(Capacity - 1)

Labels == {"idle", "returned",
           "send_wait", "send_lock", "send_op", "send_post", "send_unlock",
           "recv_wait", "recv_lock", "recv_op", "recv_post", "recv_unlock"}

-----------------------------------------------------------------------------
(* The ring: action_queue.c. *)

\* Mistaken: wraps one slot too late.
NextIndexLate(i) == IF i + 1 <= Capacity THEN i + 1 ELSE 0

\* The index after i, wrapping at the capacity.
NextIndex(i) == IF i + 1 < Capacity THEN i + 1 ELSE 0

\* action_queue_recv finds something when...
CanRecv == r # w \/ full

\* action_queue_send finds room when...
CanSend == r # w \/ ~full

\* Mistaken: leaves the pointer in the slot.
RecvFromRingUncleared ==
  /\ UNCHANGED <<actions, w>>
  /\ r' = NextIndex(r)
  /\ full' = FALSE

\* The body of action_queue_recv when CanRecv: the slot is cleared.
RecvFromRing ==
  /\ actions' = [actions EXCEPT ![r] = NULL]
  /\ r' = NextIndex(r)
  /\ full' = FALSE
  /\ w' = w

\* Mistaken: never notes that the ring has become full.
SendToRingNotFull(a) ==
  /\ actions' = [actions EXCEPT ![w] = a]
  /\ w' = NextIndex(w)
  /\ UNCHANGED <<r, full>>

\* The body of action_queue_send when CanSend.
SendToRing(a) ==
  /\ actions' = [actions EXCEPT ![w] = a]
  /\ w' = NextIndex(w)
  /\ full' = IF r = NextIndex(w) THEN TRUE ELSE full
  /\ r' = r

\* action_queue_create: the memory of the ring is zeroed.
EmptySlots == [i \in Slots |-> NULL]

\* What action_queue_destroy destroys: all that the slots point to.
InRing == {actions[i] : i \in Slots} \ {NULL}

\* Number of queued actions, as r, w and full encode it.
Count == IF full THEN Capacity
         ELSE IF r <= w THEN w - r ELSE w - r + Capacity

\* The slot of the (i+1)-th oldest queued action.
SlotOf(i) == IF r + i < Capacity THEN r + i ELSE r + i - Capacity

\* The queued actions, oldest first.
Contents == [i \in 1..Count |-> actions[SlotOf(i - 1)]]

-----------------------------------------------------------------------------
(* waitable_action_queue_create: the ring is zeroed, all slots are free. *)
Init ==
  /\ actions = EmptySlots /\ r = 0 /\ w = 0 /\ full = FALSE
  /\ sema_send = Capacity
  /\ sema_recv = 0
  /\ mutex = NULL
  /\ pc = [t \in Threads |-> "idle"]
  /\ held = [t \in Threads |-> NULL]
  /\ ret = [t \in Threads |-> "RET_FAIL"]
  /\ live = {}

Goto(t, from, to) == pc[t] = from /\ pc' = [pc EXCEPT ![t] = to]

(* waitable_action_queue_send *)

\* A thread creates an action and calls send: ret = RET_FAIL.
SendCall(t, a) ==
  /\ a \notin live
  /\ Goto(t, "idle", "send_wait")
  /\ held' = [held EXCEPT ![t] = a]
  /\ ret' = [ret EXCEPT ![t] = "RET_FAIL"]
  /\ live' = live \cup {a}
  /\ UNCHANGED <<ring, sema_send, sema_recv, mutex>>

\* tk_semaphore_wait(q->sema_send, timeout_ms) takes a token...
SendWait(t) ==
  /\ sema_send > 0
  /\ Goto(t, "send_wait", "send_lock")
  /\ sema_send' = sema_send - 1
  /\ UNCHANGED <<ring, sema_recv, mutex, held, ret, live>>

\* Mistaken: goes on to the ring after a timeout.
SendTimeoutIgnored(t) ==
  /\ sema_send = 0
  /\ Goto(t, "send_wait", "send_lock")
  /\ UNCHANGED <<ring, sema_send, sema_recv, mutex, held, ret, live>>

\* ... or times out, which it only does when there is no token to take.
SendTimeout(t) ==
  /\ sema_send = 0
  /\ Goto(t, "send_wait", "returned")
  /\ UNCHANGED <<ring, sema_send, sema_recv, mutex, held, ret, live>>

Lock(t, from, to) ==
  /\ mutex = NULL
  /\ Goto(t, from, to)
  /\ mutex' = t
  /\ UNCHANGED <<ring, sema_send, sema_recv, held, ret, live>>

SendLock(t) == Lock(t, "send_lock", "send_op")

\* ret = action_queue_send(q->queue, action): on success the queue owns it.
SendOp(t) ==
  /\ Goto(t, "send_op", "send_post")
  /\ \/ /\ CanSend
        /\ SendToRing(held[t])
        /\ ret' = [ret EXCEPT ![t] = "RET_OK"]
        /\ held' = [held EXCEPT ![t] = NULL]
     \/ /\ ~CanSend
        /\ UNCHANGED <<ring, ret, held>>
  /\ UNCHANGED <<sema_send, sema_recv, mutex, live>>

\* Mistaken: does not wake a receiver.
SendPostMissing(t) ==
  /\ Goto(t, "send_post", "send_unlock")
  /\ UNCHANGED <<ring, sema_send, sema_recv, mutex, held, ret, live>>

SendPost(t) ==
  /\ Goto(t, "send_post", "send_unlock")
  /\ sema_recv' = sema_recv + 1
  /\ UNCHANGED <<ring, sema_send, mutex, held, ret, live>>

Unlock(t, from) ==
  /\ Goto(t, from, "returned")
  /\ mutex' = NULL
  /\ UNCHANGED <<ring, sema_send, sema_recv, held, ret, live>>

SendUnlock(t) == Unlock(t, "send_unlock")

(* waitable_action_queue_recv *)

RecvCall(t) ==
  /\ Goto(t, "idle", "recv_wait")
  /\ ret' = [ret EXCEPT ![t] = "RET_FAIL"]
  /\ UNCHANGED <<ring, sema_send, sema_recv, mutex, held, live>>

RecvWait(t) ==
  /\ sema_recv > 0
  /\ Goto(t, "recv_wait", "recv_lock")
  /\ sema_recv' = sema_recv - 1
  /\ UNCHANGED <<ring, sema_send, mutex, held, ret, live>>

\* Mistaken: goes on to the ring after a timeout.
RecvTimeoutIgnored(t) ==
  /\ sema_recv = 0
  /\ Goto(t, "recv_wait", "recv_lock")
  /\ UNCHANGED <<ring, sema_send, sema_recv, mutex, held, ret, live>>

RecvTimeout(t) ==
  /\ sema_recv = 0
  /\ Goto(t, "recv_wait", "returned")
  /\ UNCHANGED <<ring, sema_send, sema_recv, mutex, held, ret, live>>

RecvLock(t) == Lock(t, "recv_lock", "recv_op")

\* ret = action_queue_recv(q->queue, action); only RET_OK frees a slot.
RecvOp(t) ==
  /\ \/ /\ CanRecv
        /\ Goto(t, "recv_op", "recv_post")
        /\ held' = [held EXCEPT ![t] = actions[r]]
        /\ RecvFromRing
        /\ ret' = [ret EXCEPT ![t] = "RET_OK"]
     \/ /\ ~CanRecv
        /\ Goto(t, "recv_op", "recv_unlock")
        /\ UNCHANGED <<ring, ret, held>>
  /\ UNCHANGED <<sema_send, sema_recv, mutex, live>>

\* Mistaken: does not give the slot back.
RecvPostMissing(t) ==
  /\ Goto(t, "recv_post", "recv_unlock")
  /\ UNCHANGED <<ring, sema_send, sema_recv, mutex, held, ret, live>>

RecvPost(t) ==
  /\ Goto(t, "recv_post", "recv_unlock")
  /\ sema_send' = sema_send + 1
  /\ UNCHANGED <<ring, sema_recv, mutex, held, ret, live>>

RecvUnlock(t) == Unlock(t, "recv_unlock")

\* The caller is done: the received action has been executed and destroyed
\* (qaction_destroy), or the action that could not be sent is disposed of.
Finish(t) ==
  /\ Goto(t, "returned", "idle")
  /\ live' = live \ {held[t]}
  /\ held' = [held EXCEPT ![t] = NULL]
  /\ UNCHANGED <<ring, sema_send, sema_recv, mutex, ret>>

\* waitable_action_queue_destroy, which its owner only calls when no thread
\* is in the queue any more, destroys what every slot that is not NULL points
\* to; the queue created next starts afresh.
Destroy ==
  /\ \A t \in Threads : pc[t] = "idle"
  /\ live' = live \ InRing
  /\ actions' = EmptySlots /\ r' = 0 /\ w' = 0 /\ full' = FALSE
  /\ sema_send' = Capacity
  /\ sema_recv' = 0
  /\ UNCHANGED <<mutex, pc, held, ret>>

Send(t) == SendWait(t) \/ SendLock(t) \/ SendOp(t) \/ SendPost(t) \/ SendUnlock(t)
Recv(t) == RecvWait(t) \/ RecvLock(t) \/ RecvOp(t) \/ RecvPost(t) \/ RecvUnlock(t)

Next ==
  \/ \E t \in Producers : Send(t) \/ SendTimeout(t) \/ \E a \in Actions : SendCall(t, a)
  \/ \E t \in Consumers : Recv(t) \/ RecvTimeout(t) \/ RecvCall(t)
  \/ \E t \in Threads : Finish(t)
  \/ Destroy

Spec == Init /\ [][Next]_vars

\* A thread that is in a call goes on with it (the platform schedules every
\* runnable thread), and a consumer calls recv in a loop, as the entry of an
\* action thread does.  Nobody is obliged to send, to destroy the queue, or to
\* time out: a caller may wait for ever.
Fairness ==
  /\ \A t \in Producers : WF_vars(Send(t))
  /\ \A t \in Consumers : WF_vars(Recv(t))
  /\ \A t \in Threads : WF_vars(Finish(t))
  /\ \A t \in Consumers \ Producers : WF_vars(RecvCall(t))

FairSpec == Spec /\ Fairness

-----------------------------------------------------------------------------
(* Properties. *)

\* Every variable has its type; the semaphores never go below zero.
TypeOK ==
  /\ actions \in [Slots -> Actions \cup {NULL}]
  /\ r \in Slots /\ w \in Slots /\ full \in BOOLEAN
  /\ sema_send \in Nat
  /\ sema_recv \in Nat
  /\ mutex \in Threads \cup {NULL}
  /\ pc \in [Threads -> Labels]
  /\ held \in [Threads -> Actions \cup {NULL}]
  /\ ret \in [Threads -> {"RET_OK", "RET_FAIL"}]
  /\ live \subseteq Actions

\* assert(ret == RET_OK) in waitable_action_queue_send: a sender that got a
\* token finds a free slot, whatever the other threads have done since.
SendAssertHolds == \A t \in Threads : pc[t] \in {"send_post", "send_unlock"} => ret[t] = "RET_OK"

\* The same for waitable_action_queue_recv: a receiver that got a token comes
\* back with an action (its token is never lost on an empty ring).
RecvTokenIsHonoured ==
  \A t \in Threads : pc[t] \in {"recv_post", "recv_unlock"} => ret[t] = "RET_OK" /\ held[t] # NULL

\* Threads at one of the labels L.
At(L) == {t \in Threads : pc[t] \in L}

\* The labels of a thread that has taken a token and not yet used it on the
\* ring, and of one that has used the ring and not yet posted.
SendClaim == {"send_lock", "send_op"}
RecvClaim == {"recv_lock", "recv_op"}
SendDue == {"send_post"}
RecvDue == {"recv_post"}

\* The two semaphores account for every slot: the free ones, the queued ones
\* and those promised to a thread that is between its wait and the ring, or
\* between the ring and its post.
TokensAccountForSlots ==
  /\ sema_send + Cardinality(At(SendClaim)) + Count + Cardinality(At(RecvDue)) = Capacity
  /\ sema_recv + Cardinality(At(RecvClaim)) + Cardinality(At(SendDue)) = Count

\* Every allocated action has exactly one owner: one slot of the ring or one
\* thread.  So a received action is never destroyed a second time with the
\* queue, and none is leaked (action_queue_recv clears the slot it empties,
\* action_queue_destroy destroys what the slots still point to).
OneOwner ==
  /\ live = InRing \cup ({held[t] : t \in Threads} \ {NULL})
  /\ \A i, j \in Slots : i # j /\ actions[i] # NULL => actions[i] # actions[j]
  /\ \A t, u \in Threads : t # u /\ held[t] # NULL => held[t] # held[u]
  /\ \A i \in Slots, t \in Threads : actions[i] # NULL => actions[i] # held[t]

\* The queue behaves as an atomic bounded FIFO.
Receiving == {"recv_post", "recv_unlock", "returned"}
AbstractQueue == INSTANCE BoundedQueue WITH
  q <- Contents,
  got <- [t \in Threads |-> IF pc[t] \in Receiving /\ ret[t] = "RET_OK" THEN held[t] ELSE NULL]
FIFO == AbstractQueue!Spec

\* No wake-up is lost: a queued action leaves the queue (FairSpec; at least
\* one thread receives in a loop).
QueuedIsReceived ==
  \A a \in Actions : (\E i \in Slots : actions[i] = a) ~> ~(\E i \in Slots : actions[i] = a)

=============================================================================
