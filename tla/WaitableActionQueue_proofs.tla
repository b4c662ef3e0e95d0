-------------------- MODULE WaitableActionQueue_proofs ----------------------
(***************************************************************************)
(* Proofs about WaitableActionQueue, for every capacity and every finite   *)
(* set of threads.  The argument: the mutex makes the steps on the ring    *)
(* exclusive, and the two semaphores together with the threads that are    *)
(* between a wait and a post account for every slot, so that a token       *)
(* always stands for a free slot or for a queued action.                   *)
(*                                                                         *)
(* From that invariant the queue implements the atomic bounded FIFO of     *)
(* BoundedQueue, and each action has one owner: a thread with a token      *)
(* finds the slot or the action it was promised, so that a step on the     *)
(* ring is a put or a get.  r, w and full encode a sequence; writing at w  *)
(* appends to it and clearing the slot at r takes its head (RingPut,       *)
(* RingGet).  What a put needs of the abstract queue, that the action is   *)
(* not queued yet, is OneOwner, which is inductive together with what the  *)
(* variables held and ret of a thread say at each place (Hands).           *)
(***************************************************************************)
EXTENDS WaitableActionQueue, Sequences, FiniteSetTheorems, TLAPS

-----------------------------------------------------------------------------
(* How a move of one thread changes the number of threads at some labels. *)

\* The threads that f puts at one of the labels L.
AtOf(f, L) == {u \in Threads : f[u] \in L}

\* The threads are finitely many.
LEMMA ThreadsFinite == IsFiniteSet(Threads)
BY ThreadsAssumption, FS_Union DEF Threads

\* A set of threads at given labels is finite and has a natural cardinality.
LEMMA AtFinite ==
  ASSUME NEW f, NEW L
  PROVE  IsFiniteSet(AtOf(f, L)) /\ Cardinality(AtOf(f, L)) \in Nat
<1>1. AtOf(f, L) \subseteq Threads
  BY DEF AtOf
<1> QED BY <1>1, ThreadsFinite, FS_Subset, FS_CardinalityType

\* A thread that moves into L adds one.
LEMMA MoveIn ==
  ASSUME NEW f \in [Threads -> Labels], NEW t \in Threads, NEW lbl \in Labels, NEW L,
         f[t] \notin L, lbl \in L
  PROVE  Cardinality(AtOf([f EXCEPT ![t] = lbl], L)) = Cardinality(AtOf(f, L)) + 1
<1>1. AtOf([f EXCEPT ![t] = lbl], L) = AtOf(f, L) \cup {t}
  BY DEF AtOf
<1>2. t \notin AtOf(f, L)
  BY DEF AtOf
<1> QED BY <1>1, <1>2, AtFinite, FS_AddElement

\* A thread that moves out of L takes one away.
LEMMA MoveOut ==
  ASSUME NEW f \in [Threads -> Labels], NEW t \in Threads, NEW lbl \in Labels, NEW L,
         f[t] \in L, lbl \notin L
  PROVE  Cardinality(AtOf([f EXCEPT ![t] = lbl], L)) = Cardinality(AtOf(f, L)) - 1
<1>1. AtOf([f EXCEPT ![t] = lbl], L) = AtOf(f, L) \ {t}
  BY DEF AtOf
<1>2. t \in AtOf(f, L)
  BY DEF AtOf
<1> QED BY <1>1, <1>2, AtFinite, FS_RemoveElement

\* Any other move changes nothing.
LEMMA MoveAside ==
  ASSUME NEW f \in [Threads -> Labels], NEW t \in Threads, NEW lbl \in Labels, NEW L,
         f[t] \in L <=> lbl \in L
  PROVE  Cardinality(AtOf([f EXCEPT ![t] = lbl], L)) = Cardinality(AtOf(f, L))
<1>1. AtOf([f EXCEPT ![t] = lbl], L) = AtOf(f, L)
  BY DEF AtOf
<1> QED BY <1>1

-----------------------------------------------------------------------------
(* Type correctness. *)

\* The type invariant holds initially and every step of the queue keeps it.
LEMMA TypeInit == Init => TypeOK
<1> SUFFICES ASSUME Init PROVE TypeOK
  OBVIOUS
<1>1. full \in BOOLEAN
  BY DEF Init, EmptySlots
<1>2. r \in Slots /\ sema_send \in Nat
  BY CapacityAssumption DEF Init, EmptySlots, Slots
<1> QED BY <1>1, <1>2 DEF Init, EmptySlots, TypeOK, Labels

LEMMA TypeNext == TypeOK /\ [Next]_vars => TypeOK'
<1> SUFFICES ASSUME TypeOK, [Next]_vars PROVE TypeOK'
  OBVIOUS
<1> USE CapacityAssumption DEF TypeOK, Threads, Slots, Labels, ring, Goto
<1>1. ASSUME NEW t \in Producers, Send(t) PROVE TypeOK'
  <2>1. CASE SendWait(t) BY <2>1 DEF SendWait
  <2>2. CASE SendLock(t) BY <2>2 DEF SendLock, Lock
  <2>3. CASE SendOp(t)
    <3>1. full' \in BOOLEAN
      <4>1. full \in BOOLEAN OBVIOUS
      <4>2. full' \in {TRUE, full} BY <2>3, Zenon DEF SendOp, SendToRing
      <4> QED BY <4>1, <4>2, Zenon
    <3>2. CASE CanSend /\ SendToRing(held[t])
      <4>1. actions' \in [Slots -> Actions \cup {NULL}] BY <3>2 DEF SendToRing
      <4>2. r' \in Slots /\ w' \in Slots BY <3>2 DEF SendToRing, NextIndex
      <4> QED BY <2>3, <3>1, <4>1, <4>2 DEF SendOp
    <3>3. CASE ~CanSend BY <2>3, <3>3 DEF SendOp
    <3> QED BY <2>3, <3>2, <3>3 DEF SendOp
  <2>4. CASE SendPost(t) BY <2>4 DEF SendPost
  <2>5. CASE SendUnlock(t) BY <2>5 DEF SendUnlock, Unlock
  <2> QED BY <1>1, <2>1, <2>2, <2>3, <2>4, <2>5 DEF Send
<1>2. ASSUME NEW t \in Producers, NEW a \in Actions, SendCall(t, a) PROVE TypeOK'
  BY <1>2 DEF SendCall
<1>3. ASSUME NEW t \in Producers, SendTimeout(t) PROVE TypeOK'
  BY <1>3 DEF SendTimeout
<1>4. ASSUME NEW t \in Consumers, Recv(t) PROVE TypeOK'
  <2>1. CASE RecvWait(t) BY <2>1 DEF RecvWait
  <2>2. CASE RecvLock(t) BY <2>2 DEF RecvLock, Lock
  <2>3. CASE RecvOp(t)
    <3>1. full' \in BOOLEAN
      <4>1. full \in BOOLEAN OBVIOUS
      <4>2. full' \in {FALSE, full} BY <2>3, Zenon DEF RecvOp, RecvFromRing
      <4> QED BY <4>1, <4>2, Zenon
    <3>2. CASE CanRecv /\ RecvFromRing
      <4>1. actions' \in [Slots -> Actions \cup {NULL}] BY <3>2 DEF RecvFromRing
      <4>2. r' \in Slots /\ w' \in Slots BY <3>2 DEF RecvFromRing, NextIndex
      <4> QED BY <2>3, <3>1, <3>2, <4>1, <4>2 DEF RecvOp
    <3>3. CASE ~CanRecv BY <2>3, <3>3 DEF RecvOp
    <3> QED BY <2>3, <3>2, <3>3 DEF RecvOp
  <2>4. CASE RecvPost(t) BY <2>4 DEF RecvPost
  <2>5. CASE RecvUnlock(t) BY <2>5 DEF RecvUnlock, Unlock
  <2> QED BY <1>4, <2>1, <2>2, <2>3, <2>4, <2>5 DEF Recv
<1>5. ASSUME NEW t \in Consumers, RecvCall(t) PROVE TypeOK'
  BY <1>5 DEF RecvCall
<1>6. ASSUME NEW t \in Consumers, RecvTimeout(t) PROVE TypeOK'
  BY <1>6 DEF RecvTimeout
<1>7. ASSUME NEW t \in Threads, Finish(t) PROVE TypeOK'
  BY <1>7 DEF Finish
<1>8. CASE Destroy
  <2>1. full' \in BOOLEAN
    BY <1>8 DEF Destroy, EmptySlots
  <2>2. r' \in Slots /\ w' \in Slots /\ sema_send' \in Nat
    BY <1>8 DEF Destroy, EmptySlots
  <2> QED BY <1>8, <2>1, <2>2 DEF Destroy, EmptySlots
<1>9. CASE UNCHANGED vars
  BY <1>9 DEF vars
<1> QED
  BY <1>1, <1>2, <1>3, <1>4, <1>5, <1>6, <1>7, <1>8, <1>9 DEF Next

\* Type correctness of the waitable action queue.
THEOREM TypeCorrect == Spec => []TypeOK
BY TypeInit, TypeNext, PTL DEF Spec

-----------------------------------------------------------------------------
(* The inductive invariant. *)

\* The labels between lock and unlock.
Critical == {"send_op", "send_post", "send_unlock", "recv_op", "recv_post", "recv_unlock"}

\* The mutex is held by the one thread that is between lock and unlock.
LockInv == \A t \in Threads : pc[t] \in Critical <=> mutex = t

\* Slot i is one of the Count slots that start at r.
InWindow(i) == \/ full
               \/ r <= w /\ r <= i /\ i < w
               \/ w < r /\ (r <= i \/ i < w)

\* A full ring has r = w; exactly the slots of the window hold an action.
RingInv ==
  /\ full => r = w
  /\ \A i \in Slots : actions[i] # NULL <=> InWindow(i)

\* A sender holds its action until the ring has taken it.
SenderInv == \A t \in Threads : pc[t] \in {"send_wait"} \cup SendClaim => held[t] # NULL

IInv ==
  /\ TypeOK
  /\ LockInv
  /\ RingInv
  /\ SenderInv
  /\ TokensAccountForSlots
  /\ SendAssertHolds
  /\ RecvTokenIsHonoured

\* How a step of one thread changes the four counts of TokensAccountForSlots.
Delta(from, to, L) == (IF to \in L THEN 1 ELSE 0) - (IF from \in L THEN 1 ELSE 0)

LEMMA Move ==
  ASSUME TypeOK, NEW t \in Threads, NEW from \in Labels, NEW to \in Labels,
         Goto(t, from, to), NEW L
  PROVE  /\ Cardinality(At(L)) \in Nat
         /\ Cardinality(At(L)') = Cardinality(At(L)) + Delta(from, to, L)
<1>1. At(L) = AtOf(pc, L) /\ At(L)' = AtOf([pc EXCEPT ![t] = to], L)
  BY DEF At, AtOf, Goto
<1>2. pc \in [Threads -> Labels] /\ pc[t] = from
  BY DEF TypeOK, Goto
<1>3. Cardinality(AtOf(pc, L)) \in Nat
  BY AtFinite
<1> DEFINE n == Cardinality(AtOf(pc, L))
           m == Cardinality(AtOf([pc EXCEPT ![t] = to], L))
<1>4. ASSUME from \notin L, to \in L PROVE m = n + 1
  BY <1>2, <1>4, MoveIn, ZenonT(60)
<1>5. ASSUME from \in L, to \notin L PROVE m = n - 1
  BY <1>2, <1>5, MoveOut, ZenonT(60)
<1>6. ASSUME from \in L <=> to \in L PROVE m = n
  BY <1>2, <1>6, MoveAside, ZenonT(60)
<1> HIDE DEF n, m
<1>7. n \in Nat /\ m = n + Delta(from, to, L)
  BY <1>3, <1>4, <1>5, <1>6 DEF Delta, n
<1> QED BY <1>1, <1>7 DEF n, m

\* A thread at one of the labels L is counted.
LEMMA AtLeastOne ==
  ASSUME NEW L, NEW t \in Threads, pc[t] \in L
  PROVE  Cardinality(At(L)) \in Nat /\ Cardinality(At(L)) >= 1
<1>1. t \in At(L) /\ At(L) = AtOf(pc, L)
  BY DEF At, AtOf
<1>2. IsFiniteSet(At(L)) /\ Cardinality(At(L)) \in Nat
  BY <1>1, AtFinite
<1>3. Cardinality(At(L)) # 0
  BY <1>1, <1>2, FS_EmptySet
<1> QED BY <1>2, <1>3

\* Count stays between zero and the capacity.
LEMMA CountRange == ASSUME TypeOK PROVE Count \in 0..Capacity
BY CapacityAssumption DEF TypeOK, Count, Slots

\* The accounting after a step of t that leaves Count as it is: the four
\* counts move with t's label, the semaphores by the given amounts.
LEMMA TokensMove ==
  ASSUME TypeOK, TokensAccountForSlots,
         NEW t \in Threads, NEW from \in Labels, NEW to \in Labels, Goto(t, from, to),
         Count' \in Int, sema_send' \in Int, sema_recv' \in Int,
         sema_send' - sema_send + Delta(from, to, SendClaim) + (Count' - Count)
           + Delta(from, to, RecvDue) = 0,
         sema_recv' - sema_recv + Delta(from, to, RecvClaim) + Delta(from, to, SendDue)
           - (Count' - Count) = 0
  PROVE  TokensAccountForSlots'
<1>1. /\ Cardinality(At(SendClaim)) \in Nat
      /\ Cardinality(At(SendClaim)') = Cardinality(At(SendClaim)) + Delta(from, to, SendClaim)
  BY Move
<1>2. /\ Cardinality(At(RecvDue)) \in Nat
      /\ Cardinality(At(RecvDue)') = Cardinality(At(RecvDue)) + Delta(from, to, RecvDue)
  BY Move
<1>3. /\ Cardinality(At(RecvClaim)) \in Nat
      /\ Cardinality(At(RecvClaim)') = Cardinality(At(RecvClaim)) + Delta(from, to, RecvClaim)
  BY Move
<1>4. /\ Cardinality(At(SendDue)) \in Nat
      /\ Cardinality(At(SendDue)') = Cardinality(At(SendDue)) + Delta(from, to, SendDue)
  BY Move
<1>5. /\ Delta(from, to, SendClaim) \in Int /\ Delta(from, to, RecvDue) \in Int
      /\ Delta(from, to, RecvClaim) \in Int /\ Delta(from, to, SendDue) \in Int
  BY DEF Delta
<1>6. Count \in Int /\ Capacity \in Int /\ sema_send \in Int /\ sema_recv \in Int
  BY CountRange, CapacityAssumption DEF TypeOK
<1>7. /\ sema_send + Cardinality(At(SendClaim)) + Count + Cardinality(At(RecvDue)) = Capacity
      /\ sema_recv + Cardinality(At(RecvClaim)) + Cardinality(At(SendDue)) = Count
  BY DEF TokensAccountForSlots
<1>8. sema_send' + Cardinality(At(SendClaim)') + Count' + Cardinality(At(RecvDue)') = Capacity
  BY <1>1, <1>2, <1>5, <1>6, <1>7
<1>9. sema_recv' + Cardinality(At(RecvClaim)') + Cardinality(At(SendDue)') = Count'
  <2>1. sema_recv + Cardinality(At(RecvClaim)) + (0 - Count) + Cardinality(At(SendDue)) = 0
    BY <1>3, <1>4, <1>6, <1>7
  <2>2. sema_recv' - sema_recv + Delta(from, to, RecvClaim) + ((0 - Count') - (0 - Count))
          + Delta(from, to, SendDue) = 0
    BY <1>5, <1>6
  <2>3. sema_recv' + Cardinality(At(RecvClaim)') + (0 - Count') + Cardinality(At(SendDue)') = 0
    BY <1>3, <1>4, <1>5, <1>6, <2>1, <2>2
  <2> QED BY <2>3, <1>3, <1>4, <1>5
<1> QED BY <1>8, <1>9 DEF TokensAccountForSlots

\* Every step of the queue keeps the invariant, one action at a time.
LEMMA InvNext == IInv /\ [Next]_vars => IInv'
<1> SUFFICES ASSUME IInv, [Next]_vars PROVE IInv'
  OBVIOUS
<1>0. TypeOK'
  BY TypeNext DEF IInv
<1> USE <1>0 DEF IInv
<1>1. ASSUME NEW t \in Producers, NEW a \in Actions, SendCall(t, a) PROVE IInv'
  <2>0. t \in Threads /\ Goto(t, "idle", "send_wait") BY <1>1 DEF SendCall, Threads
  <2>1. TokensAccountForSlots'
    <3>1. Count' = Count BY <1>1 DEF SendCall, Count, ring
    <3>2. sema_send' = sema_send /\ sema_recv' = sema_recv BY <1>1 DEF SendCall
    <3> QED BY <2>0, <3>1, <3>2, TokensMove, CountRange
         DEF Delta, SendClaim, RecvClaim, SendDue, RecvDue, Labels, TypeOK
  <2>2. LockInv' BY <1>1, <2>0 DEF SendCall, LockInv, Critical, Goto, TypeOK
  <2>3. RingInv' BY <1>1 DEF SendCall, RingInv, InWindow, ring
  <2>4. SenderInv' /\ SendAssertHolds' /\ RecvTokenIsHonoured'
    BY <1>1, <2>0, NULLAssumption DEF SendCall, SenderInv, SendAssertHolds, RecvTokenIsHonoured, Goto, TypeOK, SendClaim
  <2> QED BY <2>1, <2>2, <2>3, <2>4
<1>2. ASSUME NEW t \in Producers, SendWait(t) PROVE IInv'
  <2>0. t \in Threads /\ Goto(t, "send_wait", "send_lock") BY <1>2 DEF SendWait, Threads
  <2>1. TokensAccountForSlots'
    <3>1. Count' = Count BY <1>2 DEF SendWait, Count, ring
    <3>2. sema_send' = sema_send - 1 /\ sema_recv' = sema_recv BY <1>2 DEF SendWait
    <3> QED BY <2>0, <3>1, <3>2, TokensMove, CountRange
         DEF Delta, SendClaim, RecvClaim, SendDue, RecvDue, Labels, TypeOK
  <2>2. LockInv' BY <1>2, <2>0 DEF SendWait, LockInv, Critical, Goto, TypeOK
  <2>3. RingInv' BY <1>2 DEF SendWait, RingInv, InWindow, ring
  <2>4. SenderInv' /\ SendAssertHolds' /\ RecvTokenIsHonoured'
    BY <1>2, <2>0 DEF SendWait, SenderInv, SendAssertHolds, RecvTokenIsHonoured, Goto, TypeOK, SendClaim
  <2> QED BY <2>1, <2>2, <2>3, <2>4
<1>3. ASSUME NEW t \in Producers, SendTimeout(t) PROVE IInv'
  <2>0. t \in Threads /\ Goto(t, "send_wait", "returned") BY <1>3 DEF SendTimeout, Threads
  <2>1. TokensAccountForSlots'
    <3>1. Count' = Count BY <1>3 DEF SendTimeout, Count, ring
    <3>2. sema_send' = sema_send /\ sema_recv' = sema_recv BY <1>3 DEF SendTimeout
    <3> QED BY <2>0, <3>1, <3>2, TokensMove, CountRange
         DEF Delta, SendClaim, RecvClaim, SendDue, RecvDue, Labels, TypeOK
  <2>2. LockInv' BY <1>3, <2>0 DEF SendTimeout, LockInv, Critical, Goto, TypeOK
  <2>3. RingInv' BY <1>3 DEF SendTimeout, RingInv, InWindow, ring
  <2>4. SenderInv' /\ SendAssertHolds' /\ RecvTokenIsHonoured'
    BY <1>3, <2>0 DEF SendTimeout, SenderInv, SendAssertHolds, RecvTokenIsHonoured, Goto, TypeOK, SendClaim
  <2> QED BY <2>1, <2>2, <2>3, <2>4
<1>4. ASSUME NEW t \in Producers, SendLock(t) PROVE IInv'
  <2>0. t \in Threads /\ Goto(t, "send_lock", "send_op") BY <1>4 DEF SendLock, Lock, Threads
  <2>1. TokensAccountForSlots'
    <3>1. Count' = Count BY <1>4 DEF SendLock, Lock, Count, ring
    <3>2. sema_send' = sema_send /\ sema_recv' = sema_recv BY <1>4 DEF SendLock, Lock
    <3> QED BY <2>0, <3>1, <3>2, TokensMove, CountRange
         DEF Delta, SendClaim, RecvClaim, SendDue, RecvDue, Labels, TypeOK
  <2>2. LockInv' BY <1>4, <2>0, NULLAssumption DEF SendLock, Lock, LockInv, Critical, Goto, TypeOK, Threads
  <2>3. RingInv' BY <1>4 DEF SendLock, Lock, RingInv, InWindow, ring
  <2>4. SenderInv' /\ SendAssertHolds' /\ RecvTokenIsHonoured'
    BY <1>4, <2>0 DEF SendLock, Lock, SenderInv, SendAssertHolds, RecvTokenIsHonoured, Goto, TypeOK, SendClaim
  <2> QED BY <2>1, <2>2, <2>3, <2>4
<1>6. ASSUME NEW t \in Producers, SendPost(t) PROVE IInv'
  <2>0. t \in Threads /\ Goto(t, "send_post", "send_unlock") BY <1>6 DEF SendPost, Threads
  <2>1. TokensAccountForSlots'
    <3>1. Count' = Count BY <1>6 DEF SendPost, Count, ring
    <3>2. sema_send' = sema_send /\ sema_recv' = sema_recv + 1 BY <1>6 DEF SendPost
    <3> QED BY <2>0, <3>1, <3>2, TokensMove, CountRange
         DEF Delta, SendClaim, RecvClaim, SendDue, RecvDue, Labels, TypeOK
  <2>2. LockInv' BY <1>6, <2>0 DEF SendPost, LockInv, Critical, Goto, TypeOK
  <2>3. RingInv' BY <1>6 DEF SendPost, RingInv, InWindow, ring
  <2>4. SenderInv' /\ SendAssertHolds' /\ RecvTokenIsHonoured'
    BY <1>6, <2>0 DEF SendPost, SenderInv, SendAssertHolds, RecvTokenIsHonoured, Goto, TypeOK, SendClaim
  <2> QED BY <2>1, <2>2, <2>3, <2>4
<1>7. ASSUME NEW t \in Producers, SendUnlock(t) PROVE IInv'
  <2>0. t \in Threads /\ Goto(t, "send_unlock", "returned") BY <1>7 DEF SendUnlock, Unlock, Threads
  <2>1. TokensAccountForSlots'
    <3>1. Count' = Count BY <1>7 DEF SendUnlock, Unlock, Count, ring
    <3>2. sema_send' = sema_send /\ sema_recv' = sema_recv BY <1>7 DEF SendUnlock, Unlock
    <3> QED BY <2>0, <3>1, <3>2, TokensMove, CountRange
         DEF Delta, SendClaim, RecvClaim, SendDue, RecvDue, Labels, TypeOK
  <2>2. LockInv' BY <1>7, <2>0, NULLAssumption DEF SendUnlock, Unlock, LockInv, Critical, Goto, TypeOK, Threads
  <2>3. RingInv' BY <1>7 DEF SendUnlock, Unlock, RingInv, InWindow, ring
  <2>4. SenderInv' /\ SendAssertHolds' /\ RecvTokenIsHonoured'
    BY <1>7, <2>0 DEF SendUnlock, Unlock, SenderInv, SendAssertHolds, RecvTokenIsHonoured, Goto, TypeOK, SendClaim
  <2> QED BY <2>1, <2>2, <2>3, <2>4
<1>8. ASSUME NEW t \in Consumers, RecvCall(t) PROVE IInv'
  <2>0. t \in Threads /\ Goto(t, "idle", "recv_wait") BY <1>8 DEF RecvCall, Threads
  <2>1. TokensAccountForSlots'
    <3>1. Count' = Count BY <1>8 DEF RecvCall, Count, ring
    <3>2. sema_send' = sema_send /\ sema_recv' = sema_recv BY <1>8 DEF RecvCall
    <3> QED BY <2>0, <3>1, <3>2, TokensMove, CountRange
         DEF Delta, SendClaim, RecvClaim, SendDue, RecvDue, Labels, TypeOK
  <2>2. LockInv' BY <1>8, <2>0 DEF RecvCall, LockInv, Critical, Goto, TypeOK
  <2>3. RingInv' BY <1>8 DEF RecvCall, RingInv, InWindow, ring
  <2>4. SenderInv' /\ SendAssertHolds' /\ RecvTokenIsHonoured'
    BY <1>8, <2>0 DEF RecvCall, SenderInv, SendAssertHolds, RecvTokenIsHonoured, Goto, TypeOK, SendClaim
  <2> QED BY <2>1, <2>2, <2>3, <2>4
<1>9. ASSUME NEW t \in Consumers, RecvWait(t) PROVE IInv'
  <2>0. t \in Threads /\ Goto(t, "recv_wait", "recv_lock") BY <1>9 DEF RecvWait, Threads
  <2>1. TokensAccountForSlots'
    <3>1. Count' = Count BY <1>9 DEF RecvWait, Count, ring
    <3>2. sema_send' = sema_send /\ sema_recv' = sema_recv - 1 BY <1>9 DEF RecvWait
    <3> QED BY <2>0, <3>1, <3>2, TokensMove, CountRange
         DEF Delta, SendClaim, RecvClaim, SendDue, RecvDue, Labels, TypeOK
  <2>2. LockInv' BY <1>9, <2>0 DEF RecvWait, LockInv, Critical, Goto, TypeOK
  <2>3. RingInv' BY <1>9 DEF RecvWait, RingInv, InWindow, ring
  <2>4. SenderInv' /\ SendAssertHolds' /\ RecvTokenIsHonoured'
    BY <1>9, <2>0 DEF RecvWait, SenderInv, SendAssertHolds, RecvTokenIsHonoured, Goto, TypeOK, SendClaim
  <2> QED BY <2>1, <2>2, <2>3, <2>4
<1>10. ASSUME NEW t \in Consumers, RecvTimeout(t) PROVE IInv'
  <2>0. t \in Threads /\ Goto(t, "recv_wait", "returned") BY <1>10 DEF RecvTimeout, Threads
  <2>1. TokensAccountForSlots'
    <3>1. Count' = Count BY <1>10 DEF RecvTimeout, Count, ring
    <3>2. sema_send' = sema_send /\ sema_recv' = sema_recv BY <1>10 DEF RecvTimeout
    <3> QED BY <2>0, <3>1, <3>2, TokensMove, CountRange
         DEF Delta, SendClaim, RecvClaim, SendDue, RecvDue, Labels, TypeOK
  <2>2. LockInv' BY <1>10, <2>0 DEF RecvTimeout, LockInv, Critical, Goto, TypeOK
  <2>3. RingInv' BY <1>10 DEF RecvTimeout, RingInv, InWindow, ring
  <2>4. SenderInv' /\ SendAssertHolds' /\ RecvTokenIsHonoured'
    BY <1>10, <2>0 DEF RecvTimeout, SenderInv, SendAssertHolds, RecvTokenIsHonoured, Goto, TypeOK, SendClaim
  <2> QED BY <2>1, <2>2, <2>3, <2>4
<1>11. ASSUME NEW t \in Consumers, RecvLock(t) PROVE IInv'
  <2>0. t \in Threads /\ Goto(t, "recv_lock", "recv_op") BY <1>11 DEF RecvLock, Lock, Threads
  <2>1. TokensAccountForSlots'
    <3>1. Count' = Count BY <1>11 DEF RecvLock, Lock, Count, ring
    <3>2. sema_send' = sema_send /\ sema_recv' = sema_recv BY <1>11 DEF RecvLock, Lock
    <3> QED BY <2>0, <3>1, <3>2, TokensMove, CountRange
         DEF Delta, SendClaim, RecvClaim, SendDue, RecvDue, Labels, TypeOK
  <2>2. LockInv' BY <1>11, <2>0, NULLAssumption DEF RecvLock, Lock, LockInv, Critical, Goto, TypeOK, Threads
  <2>3. RingInv' BY <1>11 DEF RecvLock, Lock, RingInv, InWindow, ring
  <2>4. SenderInv' /\ SendAssertHolds' /\ RecvTokenIsHonoured'
    BY <1>11, <2>0 DEF RecvLock, Lock, SenderInv, SendAssertHolds, RecvTokenIsHonoured, Goto, TypeOK, SendClaim
  <2> QED BY <2>1, <2>2, <2>3, <2>4
<1>13. ASSUME NEW t \in Consumers, RecvPost(t) PROVE IInv'
  <2>0. t \in Threads /\ Goto(t, "recv_post", "recv_unlock") BY <1>13 DEF RecvPost, Threads
  <2>1. TokensAccountForSlots'
    <3>1. Count' = Count BY <1>13 DEF RecvPost, Count, ring
    <3>2. sema_send' = sema_send + 1 /\ sema_recv' = sema_recv BY <1>13 DEF RecvPost
    <3> QED BY <2>0, <3>1, <3>2, TokensMove, CountRange
         DEF Delta, SendClaim, RecvClaim, SendDue, RecvDue, Labels, TypeOK
  <2>2. LockInv' BY <1>13, <2>0 DEF RecvPost, LockInv, Critical, Goto, TypeOK
  <2>3. RingInv' BY <1>13 DEF RecvPost, RingInv, InWindow, ring
  <2>4. SenderInv' /\ SendAssertHolds' /\ RecvTokenIsHonoured'
    BY <1>13, <2>0 DEF RecvPost, SenderInv, SendAssertHolds, RecvTokenIsHonoured, Goto, TypeOK, SendClaim
  <2> QED BY <2>1, <2>2, <2>3, <2>4
<1>14. ASSUME NEW t \in Consumers, RecvUnlock(t) PROVE IInv'
  <2>0. t \in Threads /\ Goto(t, "recv_unlock", "returned") BY <1>14 DEF RecvUnlock, Unlock, Threads
  <2>1. TokensAccountForSlots'
    <3>1. Count' = Count BY <1>14 DEF RecvUnlock, Unlock, Count, ring
    <3>2. sema_send' = sema_send /\ sema_recv' = sema_recv BY <1>14 DEF RecvUnlock, Unlock
    <3> QED BY <2>0, <3>1, <3>2, TokensMove, CountRange
         DEF Delta, SendClaim, RecvClaim, SendDue, RecvDue, Labels, TypeOK
  <2>2. LockInv' BY <1>14, <2>0, NULLAssumption DEF RecvUnlock, Unlock, LockInv, Critical, Goto, TypeOK, Threads
  <2>3. RingInv' BY <1>14 DEF RecvUnlock, Unlock, RingInv, InWindow, ring
  <2>4. SenderInv' /\ SendAssertHolds' /\ RecvTokenIsHonoured'
    BY <1>14, <2>0 DEF RecvUnlock, Unlock, SenderInv, SendAssertHolds, RecvTokenIsHonoured, Goto, TypeOK, SendClaim
  <2> QED BY <2>1, <2>2, <2>3, <2>4
<1>15. ASSUME NEW t \in Threads, Finish(t) PROVE IInv'
  <2>0. t \in Threads /\ Goto(t, "returned", "idle") BY <1>15 DEF Finish, Threads
  <2>1. TokensAccountForSlots'
    <3>1. Count' = Count BY <1>15 DEF Finish, Count, ring
    <3>2. sema_send' = sema_send /\ sema_recv' = sema_recv BY <1>15 DEF Finish
    <3> QED BY <2>0, <3>1, <3>2, TokensMove, CountRange
         DEF Delta, SendClaim, RecvClaim, SendDue, RecvDue, Labels, TypeOK
  <2>2. LockInv' BY <1>15, <2>0 DEF Finish, LockInv, Critical, Goto, TypeOK
  <2>3. RingInv' BY <1>15 DEF Finish, RingInv, InWindow, ring
  <2>4. SenderInv' /\ SendAssertHolds' /\ RecvTokenIsHonoured'
    BY <1>15, <2>0 DEF Finish, SenderInv, SendAssertHolds, RecvTokenIsHonoured, Goto, TypeOK, SendClaim
  <2> QED BY <2>1, <2>2, <2>3, <2>4
<1>5. ASSUME NEW t \in Producers, SendOp(t) PROVE IInv'
  <2>0. t \in Threads /\ Goto(t, "send_op", "send_post")
    BY <1>5 DEF SendOp, Threads
  <2>1. Count < Capacity
    <3>1. Cardinality(At(SendClaim)) \in Nat /\ Cardinality(At(SendClaim)) >= 1
      BY <2>0, AtLeastOne DEF Goto, SendClaim
    <3>2. Cardinality(At(RecvDue)) \in Nat
      BY <2>0, Move DEF Labels
    <3> QED BY <3>1, <3>2, CountRange, CapacityAssumption DEF TokensAccountForSlots, TypeOK
  <2>2. ~full /\ CanSend
    BY <2>1, CapacityAssumption DEF Count, CanSend
  <2>3. SendToRing(held[t]) /\ ret' = [ret EXCEPT ![t] = "RET_OK"]
        /\ held' = [held EXCEPT ![t] = NULL]
    BY <1>5, <2>2 DEF SendOp
  <2>4. held[t] # NULL
    BY <2>0 DEF SenderInv, Goto, SendClaim
  <2>5. Count' = Count + 1
    BY <2>1, <2>2, <2>3, CapacityAssumption DEF SendToRing, NextIndex, Count, TypeOK, Slots
  <2>6. TokensAccountForSlots'
    <3>1. sema_send' = sema_send /\ sema_recv' = sema_recv
      BY <1>5 DEF SendOp
    <3> QED BY <2>0, <2>5, <3>1, TokensMove, CountRange
         DEF Delta, SendClaim, RecvClaim, SendDue, RecvDue, Labels, TypeOK
  <2>7. LockInv' BY <1>5, <2>0 DEF SendOp, LockInv, Critical, Goto, TypeOK
  <2>8. RingInv'
    <3>1. full' => r' = w'
      BY <2>2, <2>3 DEF SendToRing
    <3>2. ASSUME NEW i \in Slots PROVE actions'[i] # NULL <=> InWindow(i)'
      <4>1. actions[i] # NULL <=> InWindow(i)
        BY DEF RingInv
      <4>2. actions'[i] # NULL <=> (i = w \/ actions[i] # NULL)
        BY <2>3, <2>4 DEF SendToRing, TypeOK
      <4>3. InWindow(i)' <=> (i = w \/ InWindow(i))
        BY <2>2, <2>3, CapacityAssumption DEF SendToRing, NextIndex, InWindow, TypeOK, Slots
      <4> QED BY <4>1, <4>2, <4>3
    <3> QED BY <3>1, <3>2 DEF RingInv
  <2>9. SenderInv' /\ SendAssertHolds' /\ RecvTokenIsHonoured'
    BY <2>0, <2>3 DEF SenderInv, SendAssertHolds, RecvTokenIsHonoured, Goto, TypeOK, SendClaim
  <2> QED BY <2>6, <2>7, <2>8, <2>9
<1>12. ASSUME NEW t \in Consumers, RecvOp(t) PROVE IInv'
  <2>0. t \in Threads /\ pc[t] = "recv_op"
    BY <1>12 DEF RecvOp, Threads, Goto
  <2>1. Count > 0
    <3>1. Cardinality(At(RecvClaim)) \in Nat /\ Cardinality(At(RecvClaim)) >= 1
      BY <2>0, AtLeastOne DEF RecvClaim
    <3>2. Cardinality(At(SendDue)) \in Nat
      BY AtFinite DEF At, AtOf
    <3> QED BY <3>1, <3>2, CountRange, CapacityAssumption DEF TokensAccountForSlots, TypeOK
  <2>2. CanRecv
    BY <2>1, CapacityAssumption DEF Count, CanRecv, TypeOK, Slots
  <2>3. /\ Goto(t, "recv_op", "recv_post")
        /\ held' = [held EXCEPT ![t] = actions[r]]
        /\ RecvFromRing
        /\ ret' = [ret EXCEPT ![t] = "RET_OK"]
    BY <1>12, <2>2 DEF RecvOp
  <2>4. actions[r] # NULL
    <3>1. InWindow(r)
      BY <2>2 DEF CanRecv, InWindow, TypeOK, Slots
    <3> QED BY <3>1 DEF RingInv, TypeOK
  <2>5. Count' = Count - 1
    BY <2>1, <2>2, <2>3, CapacityAssumption DEF RecvFromRing, NextIndex, Count, TypeOK, Slots, RingInv
  <2>6. TokensAccountForSlots'
    <3>1. sema_send' = sema_send /\ sema_recv' = sema_recv
      BY <1>12 DEF RecvOp
    <3> QED BY <2>0, <2>3, <2>5, <3>1, TokensMove, CountRange
         DEF Delta, SendClaim, RecvClaim, SendDue, RecvDue, Labels, TypeOK
  <2>7. LockInv' BY <1>12, <2>3, <2>0 DEF RecvOp, LockInv, Critical, Goto, TypeOK
  <2>8. RingInv'
    <3>1. full' => r' = w'
      BY <2>3 DEF RecvFromRing
    <3>2. ASSUME NEW i \in Slots PROVE actions'[i] # NULL <=> InWindow(i)'
      <4>1. actions[i] # NULL <=> InWindow(i)
        BY DEF RingInv
      <4>2. actions'[i] # NULL <=> (i # r /\ actions[i] # NULL)
        BY <2>3 DEF RecvFromRing, TypeOK
      <4>3. InWindow(i)' <=> (i # r /\ InWindow(i))
        BY <2>2, <2>3, CapacityAssumption DEF RecvFromRing, NextIndex, InWindow, CanRecv, RingInv, TypeOK, Slots
      <4> QED BY <4>1, <4>2, <4>3
    <3> QED BY <3>1, <3>2 DEF RingInv
  <2>9. SenderInv' /\ SendAssertHolds' /\ RecvTokenIsHonoured'
    BY <2>0, <2>3, <2>4 DEF SenderInv, SendAssertHolds, RecvTokenIsHonoured, Goto, TypeOK, SendClaim
  <2> QED BY <2>6, <2>7, <2>8, <2>9
<1>16. ASSUME Destroy PROVE IInv'
  <2>1. RingInv'
    BY <1>16 DEF Destroy, EmptySlots, RingInv, InWindow, Slots
  <2>2. TokensAccountForSlots'
    <3>1. ASSUME NEW L, "idle" \notin L PROVE Cardinality(At(L)') = 0
      <4>1. At(L)' = {} BY <1>16, <3>1 DEF Destroy, EmptySlots, At
      <4> QED BY <4>1, FS_EmptySet
    <3>2. /\ Cardinality(At(SendClaim)') = 0 /\ Cardinality(At(RecvDue)') = 0
          /\ Cardinality(At(RecvClaim)') = 0 /\ Cardinality(At(SendDue)') = 0
      BY <3>1 DEF SendClaim, RecvClaim, SendDue, RecvDue
    <3>3. Count' = 0
      BY <1>16 DEF Destroy, EmptySlots, Count
    <3> QED BY <1>16, <3>2, <3>3, CapacityAssumption DEF Destroy, EmptySlots, TokensAccountForSlots
  <2>3. LockInv' /\ SenderInv' /\ SendAssertHolds' /\ RecvTokenIsHonoured'
    BY <1>16 DEF Destroy, EmptySlots, LockInv, SenderInv, SendAssertHolds, RecvTokenIsHonoured
  <2> QED BY <2>1, <2>2, <2>3
<1>17. CASE UNCHANGED vars
  BY <1>17 DEF vars, ring, LockInv, RingInv, InWindow, SenderInv, TokensAccountForSlots, At, Count,
     SendAssertHolds, RecvTokenIsHonoured
<1> QED
  BY <1>1, <1>2, <1>3, <1>4, <1>5, <1>6, <1>7, <1>8, <1>9, <1>10, <1>11, <1>12,
     <1>13, <1>14, <1>15, <1>16, <1>17 DEF Next, Send, Recv

\* The invariant holds initially: no thread is in the queue, every slot is free.
LEMMA InvInit == Init => IInv
<1> SUFFICES ASSUME Init PROVE IInv
  OBVIOUS
<1>1. TypeOK BY TypeInit
<1>2. ASSUME NEW L, "idle" \notin L PROVE Cardinality(At(L)) = 0
  <2>1. At(L) = {} BY <1>2 DEF Init, EmptySlots, At
  <2> QED BY <2>1, FS_EmptySet
<1>3. TokensAccountForSlots
  <2>1. /\ Cardinality(At(SendClaim)) = 0 /\ Cardinality(At(RecvDue)) = 0
        /\ Cardinality(At(RecvClaim)) = 0 /\ Cardinality(At(SendDue)) = 0
    BY <1>2 DEF SendClaim, RecvClaim, SendDue, RecvDue
  <2> QED BY <2>1, CapacityAssumption DEF Init, EmptySlots, TokensAccountForSlots, Count
<1>4. LockInv
  BY NULLAssumption DEF Init, EmptySlots, LockInv, Critical, Threads
<1>5. RingInv
  BY DEF Init, EmptySlots, RingInv, InWindow, Slots
<1>6. SenderInv /\ SendAssertHolds /\ RecvTokenIsHonoured
  BY DEF Init, EmptySlots, SenderInv, SendAssertHolds, RecvTokenIsHonoured, SendClaim
<1> QED BY <1>1, <1>3, <1>4, <1>5, <1>6 DEF IInv

\* The invariant holds in every state of every behaviour.
THEOREM Invariance == Spec => []IInv
BY InvInit, InvNext, PTL DEF Spec

\* The assertion in waitable_action_queue_send never fails, whatever the
\* capacity and however many threads share the queue.
THEOREM SendAssertCorrect == Spec => []SendAssertHolds
BY Invariance, PTL DEF IInv

\* A receiver that has taken a token always comes back with an action.
THEOREM RecvTokenCorrect == Spec => []RecvTokenIsHonoured
BY Invariance, PTL DEF IInv

\* The semaphores account for every slot in every reachable state.
THEOREM TokensCorrect == Spec => []TokensAccountForSlots
BY Invariance, PTL DEF IInv

-----------------------------------------------------------------------------
(* The ring as a sequence. *)

Elems == Actions \cup {NULL}

\* The sequence that r, w and full encode.
Encoded ==
  /\ Contents \in Seq(Elems) /\ Len(Contents) = Count
  /\ \A i \in 1..Count : Contents[i] = actions[SlotOf(i - 1)]

\* It is there in every state...
LEMMA ContentsIs == TypeOK => Encoded
<1> SUFFICES ASSUME TypeOK PROVE Encoded
  OBVIOUS
<1>1. Count \in Nat /\ Count <= Capacity
  BY CountRange, CapacityAssumption
<1>2. \A i \in 1..Count : SlotOf(i - 1) \in Slots
  BY <1>1, CapacityAssumption DEF TypeOK, SlotOf, Slots
<1>3. \A i \in 1..Count : actions[SlotOf(i - 1)] \in Elems
  BY <1>2 DEF TypeOK, Elems
<1> HIDE DEF Count, SlotOf
<1>4. Contents = [i \in 1..Count |-> actions[SlotOf(i - 1)]]
  BY DEF Contents
<1> QED
  BY <1>1, <1>3, <1>4 DEF Encoded

\* ... before and after a step.
LEMMA ContentsIsNext == TypeOK' => Encoded'
BY ContentsIs, PTL

\* Where the ring is read and written.
LEMMA Ends ==
  ASSUME TypeOK, full => r = w
  PROVE  /\ CanSend => Count < Capacity
         /\ CanRecv <=> Count # 0
         /\ Count # Capacity => SlotOf(Count) = w
         /\ SlotOf(0) = r
         /\ \A i, j \in 0..(Capacity - 1) : SlotOf(i) = SlotOf(j) => i = j
BY CapacityAssumption DEF TypeOK, Count, CanSend, CanRecv, SlotOf, Slots

\* action_queue_send appends.
LEMMA RingPut ==
  ASSUME TypeOK, TypeOK', full => r = w, CanSend, NEW a \in Actions, SendToRing(a)
  PROVE  Contents' = Append(Contents, a) /\ Len(Contents) < Capacity
<1>1. Count \in Nat /\ Count < Capacity /\ SlotOf(Count) = w
  BY Ends, CountRange, CapacityAssumption
<1>2. Count' = Count + 1
  BY CapacityAssumption DEF TypeOK, SendToRing, NextIndex, Count, CanSend, Slots
<1>3. r' = r /\ actions' = [actions EXCEPT ![w] = a] /\ w \in Slots /\ actions \in [Slots -> Elems]
  BY DEF SendToRing, TypeOK, Elems
<1>4. \A i \in 1..Count : SlotOf(i - 1) # w /\ SlotOf(i - 1) \in Slots
  <2>1. \A i \in 1..Count : i - 1 \in 0..(Capacity - 1) /\ i - 1 # Count /\ Count \in 0..(Capacity - 1)
    BY <1>1, CapacityAssumption
  <2>2. \A i \in 1..Count : SlotOf(i - 1) \in Slots
    BY <2>1, CapacityAssumption DEF SlotOf, Slots, TypeOK
  <2> QED
    BY <1>1, <2>1, <2>2, Ends
<1>5. \A i \in Int : SlotOf(i)' = SlotOf(i)
  BY <1>3 DEF SlotOf
<1>6. /\ Contents \in Seq(Elems) /\ Len(Contents) = Count
      /\ \A i \in 1..Count : Contents[i] = actions[SlotOf(i - 1)]
  BY ContentsIs DEF Encoded
<1>7. /\ Contents' \in Seq(Elems) /\ Len(Contents') = Count'
      /\ \A i \in 1..Count' : Contents'[i] = actions'[SlotOf(i - 1)']
  BY ContentsIsNext DEF Encoded
<1> HIDE DEF Count, SlotOf, Contents
<1>8. \A i \in 1..Count : Contents'[i] = Contents[i]
  BY <1>1, <1>2, <1>3, <1>4, <1>5, <1>6, <1>7
<1>9. Contents'[Count + 1] = a
  BY <1>1, <1>2, <1>3, <1>5, <1>7
<1> QED
  BY <1>1, <1>2, <1>6, <1>7, <1>8, <1>9 DEF Elems

\* action_queue_recv takes the head.
LEMMA RingGet ==
  ASSUME TypeOK, TypeOK', full => r = w, CanRecv, RecvFromRing
  PROVE  /\ Contents # <<>> /\ Contents' = Tail(Contents) /\ Head(Contents) = actions[r]
<1>1. Count \in 1..Capacity /\ SlotOf(0) = r
  BY Ends, CountRange, CapacityAssumption
<1>2. Count' = Count - 1
  BY CapacityAssumption DEF TypeOK, RecvFromRing, NextIndex, Count, CanRecv, Slots
<1>3. actions' = [actions EXCEPT ![r] = NULL] /\ r \in Slots /\ actions \in [Slots -> Elems]
  BY DEF RecvFromRing, TypeOK, Elems
<1>4. \A i \in 1..(Count - 1) : SlotOf(i - 1)' = SlotOf(i) /\ SlotOf(i) # r /\ SlotOf(i) \in Slots
  <2>1. \A i \in 1..(Count - 1) : i \in 1..(Capacity - 1)
    BY <1>1, CapacityAssumption
  <2> HIDE DEF Count
  <2>2. r' = IF r + 1 < Capacity THEN r + 1 ELSE 0
    BY DEF RecvFromRing, NextIndex
  <2> QED
    BY <2>1, <2>2, CapacityAssumption DEF SlotOf, Slots, TypeOK
<1>6. /\ Contents \in Seq(Elems) /\ Len(Contents) = Count
      /\ \A i \in 1..Count : Contents[i] = actions[SlotOf(i - 1)]
  BY ContentsIs DEF Encoded
<1>7. /\ Contents' \in Seq(Elems) /\ Len(Contents') = Count'
      /\ \A i \in 1..Count' : Contents'[i] = actions'[SlotOf(i - 1)']
  BY ContentsIsNext DEF Encoded
<1> HIDE DEF Count, SlotOf, Contents
<1>8. \A i \in 1..(Count - 1) : Contents'[i] = Contents[i + 1]
  <2> SUFFICES ASSUME NEW i \in 1..(Count - 1) PROVE Contents'[i] = Contents[i + 1]
    OBVIOUS
  <2>1. Contents'[i] = actions[SlotOf(i)]
    BY <1>2, <1>3, <1>4, <1>7
  <2>2. i + 1 \in 1..Count /\ (i + 1) - 1 = i
    BY <1>1, CapacityAssumption
  <2> QED
    BY <2>1, <2>2, <1>6
<1>9. Contents[1] = actions[r] /\ Contents # <<>>
  BY <1>1, <1>6, CapacityAssumption
<1>10. Tail(Contents) \in Seq(Elems) /\ Len(Tail(Contents)) = Count - 1
       /\ \A i \in 1..(Count - 1) : Tail(Contents)[i] = Contents[i + 1]
  BY <1>1, <1>6, <1>9
<1>11. Contents' = Tail(Contents)
  BY <1>2, <1>7, <1>8, <1>10
<1> QED
  BY <1>6, <1>9, <1>11

-----------------------------------------------------------------------------
(* The inductive invariant. *)

Sending == {"send_wait", "send_lock", "send_op"}

\* A thread has an action in hand only where the call has one, and a send has
\* not succeeded before it has used the ring.
Hands ==
  \A t \in Threads :
    /\ held[t] # NULL => pc[t] \in Sending \cup Receiving
    /\ pc[t] \in Sending => ret[t] = "RET_FAIL"

RInv == IInv /\ Hands /\ OneOwner

\* What the threads have received: got of the abstract queue.
GotAt(p, x, h) == IF p \in Receiving /\ x = "RET_OK" THEN h ELSE NULL
Got == [t \in Threads |-> GotAt(pc[t], ret[t], held[t])]

\* The abstract step, or none.
Step == AbstractQueue!Next \/ UNCHANGED <<Contents, Got>>

-----------------------------------------------------------------------------
(* The steps. *)

\* waitable_action_queue_create
LEMMA RInit == Init => RInv /\ AbstractQueue!Init
<1> SUFFICES ASSUME Init PROVE RInv /\ AbstractQueue!Init
  OBVIOUS
<1>1. IInv
  BY InvInit
<1>2. Hands /\ OneOwner
  BY DEF Init, Hands, OneOwner, EmptySlots, InRing, Sending
<1>3. Count = 0 /\ Contents = <<>>
  <2>1. Count = 0
    BY DEF Init, Count
  <2>2. Contents \in Seq(Elems) /\ Len(Contents) = 0
    BY <1>1, <2>1, ContentsIs DEF IInv, Encoded
  <2> QED
    BY <2>1, <2>2
<1>4. \A t \in Threads : pc[t] \notin Receiving
  BY DEF Init, Receiving
<1>5. AbstractQueue!Init
  BY <1>3, <1>4 DEF AbstractQueue!Init
<1> QED
  BY <1>1, <1>2, <1>5 DEF RInv

\* A step of one thread that touches neither the ring nor an action.
LEMMA Quiet ==
  ASSUME RInv, NEW t \in Threads, NEW from, NEW to, Goto(t, from, to),
         UNCHANGED <<ring, held, live>>,
         NEW x, ret' = [ret EXCEPT ![t] = x],
         held[t] # NULL => to \in Sending \cup Receiving,
         to \in Sending => x = "RET_FAIL",
         GotAt(to, x, held[t]) = GotAt(from, ret[t], held[t])
  PROVE  Hands' /\ OneOwner' /\ UNCHANGED <<Contents, Got>>
<1> USE DEF RInv, IInv
<1>1. pc[t] = from /\ \A u \in Threads : pc'[u] = (IF u = t THEN to ELSE pc[u])
      /\ ret'[u] = (IF u = t THEN x ELSE ret[u])
  BY DEF Goto, TypeOK
<1>2. Hands'
  BY <1>1 DEF Hands
<1>3. OneOwner'
  BY DEF OneOwner, ring, InRing
<1>4. Contents' = Contents
  BY DEF Contents, Count, SlotOf, ring
<1>5. \A u \in Threads : GotAt(pc'[u], ret'[u], held'[u]) = GotAt(pc[u], ret[u], held[u])
  BY <1>1
<1>6. Got' = Got
  BY <1>5 DEF Got
<1> QED
  BY <1>2, <1>3, <1>4, <1>6

\* A step of one thread on its action a, that leaves Got alone.
LEMMA GotStays ==
  ASSUME TypeOK, NEW t \in Threads, NEW from, NEW to, Goto(t, from, to), NEW a, NEW x,
         held' = [held EXCEPT ![t] = a], ret' = [ret EXCEPT ![t] = x],
         GotAt(to, x, a) = GotAt(from, ret[t], held[t])
  PROVE  Got' = Got
<1>1. pc[t] = from /\ \A u \in Threads : /\ pc'[u] = (IF u = t THEN to ELSE pc[u])
                                         /\ ret'[u] = (IF u = t THEN x ELSE ret[u])
                                         /\ held'[u] = (IF u = t THEN a ELSE held[u])
  BY DEF Goto, TypeOK
<1>2. \A u \in Threads : GotAt(pc'[u], ret'[u], held'[u]) = GotAt(pc[u], ret[u], held[u])
  BY <1>1
<1> QED
  BY <1>2 DEF Got

\* A new action.
LEMMA SendCallStep ==
  ASSUME RInv, NEW t \in Threads, NEW a \in Actions, SendCall(t, a)
  PROVE  Hands' /\ OneOwner' /\ UNCHANGED <<Contents, Got>>
<1> USE DEF RInv, IInv
<1>1. /\ pc[t] = "idle" /\ Goto(t, "idle", "send_wait") /\ held' = [held EXCEPT ![t] = a]
      /\ ret' = [ret EXCEPT ![t] = "RET_FAIL"] /\ live' = live \cup {a} /\ a \notin live
      /\ UNCHANGED <<actions, r, w, full>>
  BY DEF SendCall, Goto, ring
<1>2. held[t] = NULL
  BY <1>1 DEF Hands, Sending, Receiving
<1>3. Got' = Got
  BY <1>1, GotStays DEF GotAt, Receiving
<1>4. Contents' = Contents
  BY <1>1 DEF Contents, Count, SlotOf
<1>5. \A u \in Threads : held'[u] = IF u = t THEN a ELSE held[u]
  BY <1>1 DEF TypeOK
<1>6. Hands'
  BY <1>1, <1>5 DEF Hands, Goto, TypeOK, Sending
<1>7. OneOwner'
  <2>1. \A i \in Slots : actions[i] # a
    BY <1>1, NULLAssumption DEF OneOwner, InRing
  <2>2. \A u \in Threads : held[u] # a
    BY <1>1, NULLAssumption DEF OneOwner
  <2>3. live' = InRing' \cup ({held'[u] : u \in Threads} \ {NULL})
    <3>1. {held'[u] : u \in Threads} \ {NULL} = ({held[u] : u \in Threads} \ {NULL}) \cup {a}
      BY <1>2, <1>5, NULLAssumption
    <3> QED
      BY <1>1, <3>1 DEF OneOwner, InRing
  <2> QED
    BY <1>1, <1>5, <2>1, <2>2, <2>3 DEF OneOwner
<1> QED
  BY <1>3, <1>4, <1>6, <1>7

\* The ring takes the action of the sender: a put.
LEMMA SendOpStep ==
  ASSUME RInv, IInv', NEW t \in Threads, SendOp(t)
  PROVE  Hands' /\ OneOwner' /\ AbstractQueue!Put(held[t]) /\ held[t] \in Actions
<1> USE DEF RInv, IInv
<1>1. pc[t] = "send_op" /\ Goto(t, "send_op", "send_post") /\ live' = live
  BY DEF SendOp, Goto
<1>2. ret[t] = "RET_FAIL" /\ held[t] # NULL /\ held[t] \in Actions
  BY <1>1 DEF Hands, Sending, SenderInv, SendClaim, TypeOK
<1>3. ret'[t] = "RET_OK"
  BY <1>1 DEF SendAssertHolds, Goto, TypeOK
<1>4. /\ CanSend /\ SendToRing(held[t])
      /\ ret' = [ret EXCEPT ![t] = "RET_OK"] /\ held' = [held EXCEPT ![t] = NULL]
  BY <1>2, <1>3 DEF SendOp
<1>5. Contents' = Append(Contents, held[t]) /\ Len(Contents) < Capacity
  BY <1>2, <1>4, RingPut DEF RingInv
<1>6. \A u \in Threads : held'[u] = IF u = t THEN NULL ELSE held[u]
  BY <1>4 DEF TypeOK
<1>7. Got' = Got
  BY <1>1, <1>4, GotStays DEF GotAt, Receiving
<1>8. Hands'
  BY <1>1, <1>4, <1>6 DEF Hands, Goto, TypeOK, Sending
<1>9. actions[w] = NULL /\ w \in Slots
  <2>1. w \in Slots /\ ~full
    BY <1>4 DEF RingInv, CanSend, TypeOK
  <2>2. ~InWindow(w)
    BY <2>1, CapacityAssumption DEF InWindow, TypeOK, Slots
  <2> QED
    BY <2>1, <2>2 DEF RingInv
<1>10. \A i \in Slots : actions'[i] = IF i = w THEN held[t] ELSE actions[i]
  BY <1>4 DEF SendToRing, TypeOK
<1>11. OneOwner'
  <2>1. InRing' = InRing \cup {held[t]}
    BY <1>2, <1>9, <1>10 DEF InRing
  <2>2. {held[u] : u \in Threads} \ {NULL} = ({held'[u] : u \in Threads} \ {NULL}) \cup {held[t]}
    BY <1>2, <1>6
  <2>3. live' = InRing' \cup ({held'[u] : u \in Threads} \ {NULL})
    BY <1>1, <2>1, <2>2 DEF OneOwner
  <2>4. \A i, j \in Slots : i # j /\ actions'[i] # NULL => actions'[i] # actions'[j]
    BY <1>2, <1>10 DEF OneOwner
  <2>5. \A u, v \in Threads : u # v /\ held'[u] # NULL => held'[u] # held'[v]
    BY <1>6 DEF OneOwner
  <2>6. \A i \in Slots, u \in Threads : actions'[i] # NULL => actions'[i] # held'[u]
    BY <1>2, <1>6, <1>10 DEF OneOwner
  <2> QED
    BY <2>3, <2>4, <2>5, <2>6 DEF OneOwner
<1>12. held[t] \notin AbstractQueue!Owned
  <2>1. ASSUME NEW i \in 1..Len(Contents) PROVE Contents[i] # held[t]
    <3>1. Contents[i] = actions[SlotOf(i - 1)] /\ i \in 1..Count /\ Count \in 0..Capacity
      BY ContentsIs, CountRange DEF Encoded
    <3>2. SlotOf(i - 1) \in Slots
      BY <3>1, CapacityAssumption DEF SlotOf, Slots, TypeOK
    <3> QED
      BY <1>2, <3>1, <3>2 DEF OneOwner
  <2>2. ASSUME NEW u \in Threads PROVE GotAt(pc[u], ret[u], held[u]) # held[t]
    BY <1>1, <1>2 DEF GotAt, OneOwner, Receiving
  <2> QED
    BY <2>1, <2>2 DEF AbstractQueue!Owned, GotAt
<1>13. AbstractQueue!Put(held[t])
  BY <1>5, <1>7, <1>12 DEF AbstractQueue!Put, Got, GotAt
<1> QED
  BY <1>2, <1>8, <1>11, <1>13

\* The receiver takes the oldest action out of the ring: a get.
LEMMA RecvOpStep ==
  ASSUME RInv, IInv', NEW t \in Threads, RecvOp(t)
  PROVE  Hands' /\ OneOwner' /\ AbstractQueue!Get(t)
<1> USE DEF RInv, IInv
<1>1. pc[t] = "recv_op" /\ live' = live /\ held[t] = NULL
  BY DEF RecvOp, Goto, Hands, Sending, Receiving
<1>2. CASE ~CanRecv
  <2>1. Goto(t, "recv_op", "recv_unlock") /\ held' = held
    BY <1>2 DEF RecvOp
  <2>2. held'[t] # NULL
    BY <2>1 DEF RecvTokenIsHonoured, Goto, TypeOK
  <2> QED
    BY <1>1, <2>1, <2>2
<1>3. CASE CanRecv
  <2> DEFINE a == actions[r]
  <2>1. /\ Goto(t, "recv_op", "recv_post") /\ RecvFromRing
        /\ ret' = [ret EXCEPT ![t] = "RET_OK"] /\ held' = [held EXCEPT ![t] = a]
    BY <1>3 DEF RecvOp
  <2>2. a # NULL /\ r \in Slots
    <3>1. InWindow(r)
      BY <1>3, CapacityAssumption DEF RingInv, InWindow, CanRecv, TypeOK, Slots
    <3> QED
      BY <3>1 DEF RingInv, TypeOK
  <2>3. /\ Contents # <<>> /\ Contents' = Tail(Contents) /\ Head(Contents) = a
    BY <1>3, <2>1, RingGet DEF RingInv
  <2>4. \A i \in Slots : actions'[i] = IF i = r THEN NULL ELSE actions[i]
    BY <2>1 DEF RecvFromRing, TypeOK
  <2> HIDE DEF a
  <2>5. \A u \in Threads : /\ held'[u] = (IF u = t THEN a ELSE held[u])
                          /\ pc'[u] = (IF u = t THEN "recv_post" ELSE pc[u])
                          /\ ret'[u] = (IF u = t THEN "RET_OK" ELSE ret[u])
    BY <2>1 DEF TypeOK, Goto
  <2>6. Hands'
    BY <2>5 DEF Hands, Sending, Receiving
  <2>7. actions[r] = a
    BY DEF a
  <2>8. InRing = InRing' \cup {a}
    BY <2>2, <2>4, <2>7 DEF InRing
  <2>9. {held'[u] : u \in Threads} \ {NULL} = ({held[u] : u \in Threads} \ {NULL}) \cup {a}
    BY <1>1, <2>2, <2>5
  <2>10. live' = InRing' \cup ({held'[u] : u \in Threads} \ {NULL})
    BY <1>1, <2>8, <2>9 DEF OneOwner
  <2>11. \A i, j \in Slots : i # j /\ actions'[i] # NULL => actions'[i] # actions'[j]
    BY <2>4 DEF OneOwner
  <2>12. \A u, v \in Threads : u # v /\ held'[u] # NULL => held'[u] # held'[v]
    BY <2>2, <2>5, <2>7 DEF OneOwner
  <2>13. \A i \in Slots, u \in Threads : actions'[i] # NULL => actions'[i] # held'[u]
    BY <2>2, <2>4, <2>5, <2>7 DEF OneOwner
  <2>14. OneOwner'
    BY <2>10, <2>11, <2>12, <2>13 DEF OneOwner
  <2>15. GotAt(pc[t], ret[t], held[t]) = NULL
    BY <1>1 DEF GotAt
  <2>16. Got' = [Got EXCEPT ![t] = a]
    <3>1. \A u \in Threads : GotAt(pc'[u], ret'[u], held'[u])
                              = IF u = t THEN a ELSE GotAt(pc[u], ret[u], held[u])
      BY <2>5 DEF GotAt, Receiving
    <3> QED
      BY <3>1 DEF Got
  <2>17. AbstractQueue!Get(t)
    BY <2>3, <2>15, <2>16 DEF AbstractQueue!Get, Got, GotAt
  <2> QED
    BY <2>6, <2>14, <2>17
<1> QED
  BY <1>2, <1>3

\* The action is executed and destroyed, or what could not be sent is disposed of.
LEMMA FinishStep ==
  ASSUME RInv, NEW t \in Threads, Finish(t)
  PROVE  Hands' /\ OneOwner' /\ (AbstractQueue!Release(t) \/ UNCHANGED <<Contents, Got>>)
<1> USE DEF RInv, IInv
<1>1. /\ Goto(t, "returned", "idle") /\ live' = live \ {held[t]}
      /\ held' = [held EXCEPT ![t] = NULL] /\ UNCHANGED <<actions, r, w, full, ret>>
  BY DEF Finish, ring
<1>2. \A u \in Threads : /\ held'[u] = (IF u = t THEN NULL ELSE held[u])
                        /\ pc'[u] = (IF u = t THEN "idle" ELSE pc[u]) /\ ret'[u] = ret[u]
  BY <1>1 DEF TypeOK, Goto
<1>3. Hands'
  BY <1>2 DEF Hands, Sending
<1>4. OneOwner'
  <2>1. live' = InRing' \cup ({held'[u] : u \in Threads} \ {NULL})
    <3>1. {held'[u] : u \in Threads} \ {NULL} = ({held[u] : u \in Threads} \ {NULL}) \ {held[t]}
      BY <1>2 DEF OneOwner
    <3>2. InRing' = InRing \ {held[t]}
      BY <1>1 DEF OneOwner, InRing
    <3> QED
      BY <1>1, <3>1, <3>2 DEF OneOwner
  <2> QED
    BY <1>1, <1>2, <2>1 DEF OneOwner
<1>5. Contents' = Contents
  BY <1>1 DEF Contents, Count, SlotOf
<1>6. \A u \in Threads : GotAt(pc'[u], ret'[u], held'[u])
                         = IF u = t THEN NULL ELSE GotAt(pc[u], ret[u], held[u])
  BY <1>2 DEF GotAt, Receiving
<1>7. CASE GotAt(pc[t], ret[t], held[t]) # NULL
  <2>1. Got' = [Got EXCEPT ![t] = NULL] /\ Got[t] # NULL
    BY <1>6, <1>7 DEF Got
  <2>2. AbstractQueue!Release(t)
    BY <1>5, <2>1 DEF AbstractQueue!Release, Got, GotAt
  <2> QED
    BY <1>3, <1>4, <2>2
<1>8. CASE GotAt(pc[t], ret[t], held[t]) = NULL
  <2>1. \A u \in Threads : GotAt(pc'[u], ret'[u], held'[u]) = GotAt(pc[u], ret[u], held[u])
    BY <1>6, <1>8
  <2>2. UNCHANGED <<Contents, Got>>
    BY <1>5, <2>1 DEF Got
  <2> QED
    BY <1>3, <1>4, <2>2
<1> QED
  BY <1>3, <1>4, <1>7, <1>8

\* waitable_action_queue_destroy, and the queue created next.
LEMMA DestroyStep ==
  ASSUME RInv, IInv', Destroy
  PROVE  Hands' /\ OneOwner' /\ AbstractQueue!Clear
<1> USE DEF RInv, IInv
<1>1. /\ \A t \in Threads : pc[t] = "idle"
      /\ live' = live \ InRing /\ UNCHANGED <<pc, held, ret>>
      /\ actions' = EmptySlots /\ r' = 0 /\ w' = 0 /\ full' = FALSE
  BY DEF Destroy
<1>2. \A t \in Threads : held[t] = NULL
  BY <1>1 DEF Hands, Sending, Receiving
<1>3. Hands'
  BY <1>1 DEF Hands
<1>4. InRing' = {} /\ \A i \in Slots : actions'[i] = NULL
  BY <1>1 DEF InRing, EmptySlots
<1>5. OneOwner'
  BY <1>1, <1>2, <1>4 DEF OneOwner
<1>6. Contents' = <<>>
  <2>1. Count' = 0
    BY <1>1 DEF Count
  <2>2. Contents' \in Seq(Elems) /\ Len(Contents') = 0
    BY <2>1, ContentsIsNext DEF Encoded
  <2> QED
    BY <2>2
<1>7. \A t \in Threads : GotAt(pc[t], ret[t], held[t]) = NULL
  BY <1>2 DEF GotAt
<1>8. Got' = Got
  BY <1>1 DEF Got
<1> QED
  BY <1>3, <1>5, <1>6, <1>7, <1>8 DEF AbstractQueue!Clear, Got, GotAt

\* Every step keeps the invariant, and is a step of the abstract queue or none.
LEMMA RNext == RInv /\ [Next]_vars => RInv' /\ Step
<1> SUFFICES ASSUME RInv, [Next]_vars PROVE RInv' /\ Step
  OBVIOUS
<1>0. IInv'
  BY InvNext DEF RInv
<1> DEFINE Goal == Hands' /\ OneOwner' /\ Step
<1>1. SUFFICES Goal
  BY <1>0 DEF RInv
<1>2. \A t \in Threads : held[t] # NULL => pc[t] \in Sending \cup Receiving
  BY DEF RInv, Hands
<1>3. ret \in [Threads -> {"RET_OK", "RET_FAIL"}] /\ \A t \in Threads : pc[t] \in Sending => ret[t] = "RET_FAIL"
  BY DEF RInv, IInv, TypeOK, Hands
<1>4. \A t \in Threads : ret = [ret EXCEPT ![t] = ret[t]]
  BY <1>3
<1> USE DEF Step, Goto
<1>5. ASSUME NEW t \in Threads, NEW from, NEW to, Goto(t, from, to),
             UNCHANGED <<ring, held, ret, live>>,
             held[t] # NULL => to \in Sending \cup Receiving,
             to \in Sending => from \in Sending,
             GotAt(to, ret[t], held[t]) = GotAt(from, ret[t], held[t])
      PROVE  Goal
  BY <1>3, <1>4, <1>5, Quiet
<1>6. ASSUME NEW t \in Producers, NEW a \in Actions, SendCall(t, a) PROVE Goal
  BY <1>6, SendCallStep DEF Threads
<1>7. ASSUME NEW t \in Producers, Send(t) PROVE Goal
  <2>1. t \in Threads
    BY DEF Threads
  <2>2. CASE SendWait(t)
    BY <1>5, <2>1, <2>2 DEF SendWait, GotAt, Sending, Receiving
  <2>3. CASE SendLock(t)
    BY <1>5, <2>1, <2>3 DEF SendLock, Lock, GotAt, Sending, Receiving
  <2>4. CASE SendOp(t)
    <3>1. Hands' /\ OneOwner' /\ AbstractQueue!Put(held[t]) /\ held[t] \in Actions
      BY <1>0, <2>1, <2>4, SendOpStep
    <3> QED
      BY <3>1, ZenonT(60) DEF AbstractQueue!Next
  <2>5. CASE SendPost(t)
    BY <1>2, <1>5, <2>1, <2>5, ZenonT(60) DEF SendPost, GotAt, Sending, Receiving
  <2>6. CASE SendUnlock(t)
    BY <1>2, <1>5, <2>1, <2>6 DEF SendUnlock, Unlock, GotAt, Sending, Receiving
  <2> QED
    BY <1>7, <2>2, <2>3, <2>4, <2>5, <2>6, ZenonT(60) DEF Send
<1>8. ASSUME NEW t \in Producers, SendTimeout(t) PROVE Goal
  <2>1. t \in Threads /\ ret[t] = "RET_FAIL"
    BY <1>3, <1>8 DEF Threads, SendTimeout, Sending
  <2> QED
    BY <1>5, <1>8, <2>1 DEF SendTimeout, GotAt, Sending, Receiving
<1>9. ASSUME NEW t \in Consumers, RecvCall(t) PROVE Goal
  <2>1. t \in Threads /\ held[t] = NULL
    BY <1>2, <1>9 DEF Threads, RecvCall, Sending, Receiving
  <2> QED
    BY <1>9, <2>1, Quiet DEF RecvCall, GotAt, Sending
<1>10. ASSUME NEW t \in Consumers, Recv(t) PROVE Goal
  <2>1. t \in Threads
    BY DEF Threads
  <2>2. CASE RecvWait(t)
    BY <1>2, <1>5, <2>1, <2>2, ZenonT(60) DEF RecvWait, GotAt, Sending, Receiving
  <2>3. CASE RecvLock(t)
    BY <1>2, <1>5, <2>1, <2>3, ZenonT(60) DEF RecvLock, Lock, GotAt, Sending, Receiving
  <2>4. CASE RecvOp(t)
    <3>1. Hands' /\ OneOwner' /\ AbstractQueue!Get(t)
      BY <1>0, <2>1, <2>4, RecvOpStep
    <3> QED
      BY <2>1, <3>1 DEF AbstractQueue!Next
  <2>5. CASE RecvPost(t)
    BY <1>5, <2>1, <2>5, ZenonT(60) DEF RecvPost, GotAt, Sending, Receiving
  <2>6. CASE RecvUnlock(t)
    BY <1>5, <2>1, <2>6, ZenonT(60) DEF RecvUnlock, Unlock, GotAt, Sending, Receiving
  <2> QED
    BY <1>10, <2>2, <2>3, <2>4, <2>5, <2>6, ZenonT(60) DEF Recv
<1>11. ASSUME NEW t \in Consumers, RecvTimeout(t) PROVE Goal
  <2>1. t \in Threads /\ held[t] = NULL
    BY <1>2, <1>11 DEF Threads, RecvTimeout, Sending, Receiving
  <2> QED
    BY <1>5, <1>11, <2>1, ZenonT(60) DEF RecvTimeout, GotAt, Sending
<1>12. ASSUME NEW t \in Threads, Finish(t) PROVE Goal
  <2>1. Hands' /\ OneOwner' /\ (AbstractQueue!Release(t) \/ UNCHANGED <<Contents, Got>>)
    BY <1>12, FinishStep
  <2> QED
    BY <2>1 DEF AbstractQueue!Next
<1>13. CASE Destroy
  <2>1. Hands' /\ OneOwner' /\ AbstractQueue!Clear
    BY <1>0, <1>13, DestroyStep
  <2> QED
    BY <2>1 DEF AbstractQueue!Next
<1>14. CASE UNCHANGED vars
  <2>1. Hands' /\ OneOwner'
    BY <1>14 DEF vars, ring, RInv, Hands, OneOwner, InRing
  <2>2. UNCHANGED <<Contents, Got>>
    BY <1>14 DEF vars, ring, Contents, Count, SlotOf, Got
  <2> QED
    BY <2>1, <2>2
<1> HIDE DEF Goal
<1> QED
  BY <1>6, <1>7, <1>8, <1>9, <1>10, <1>11, <1>12, <1>13, <1>14 DEF Next

\* Every allocated action is in one slot of the ring or in the hands of one thread,
\* so that action_queue_destroy and the receivers never destroy one twice.
THEOREM ActionsHaveOneOwner == Spec => []OneOwner
<1>1. RInv => OneOwner
  BY DEF RInv
<1> QED
  BY <1>1, RInit, RNext, PTL DEF Spec

\* waitable_action_queue_send and _recv work as if they were atomic: what the
\* threads see is a bounded FIFO.
THEOREM ImplementsBoundedQueue == Spec => FIFO
<1>1. Step => [AbstractQueue!Next]_(AbstractQueue!vars)
  BY DEF Step, AbstractQueue!vars, Got, GotAt
<1> QED
  BY <1>1, RInit, RNext, PTL DEF Spec, FIFO, AbstractQueue!Spec

=============================================================================
