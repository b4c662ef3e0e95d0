---------------------- MODULE ActionThreadPool_proofs ----------------------
(***************************************************************************)
(* action_thread_pool_destroy leaves no worker behind that uses the queue, *)
(* for any number of slots, workers and callers, and whatever the flags    *)
(* quit and quited, which are shared without a lock, say.                  *)
(*                                                                         *)
(* The argument: a worker that has not decided to leave is in the table,   *)
(* or its creator, who holds the mutex (Mutex) and an empty slot           *)
(* (Creating), still has to enter it (Entered); only the worker itself, or *)
(* a destroy that has joined it, takes it out.  While one caller destroys, *)
(* no other is in the pool (Alone), so that slots stay empty once they     *)
(* are, and destroy empties them all (Emptied).                            *)
(* Neither the queue nor the flags play a part: they decide whether        *)
(* destroy ends, not what it leaves.                                       *)
(*                                                                         *)
(* The rest is about the queue: only a worker that executes holds an       *)
(* action (Hands), and what is sent is new to the queue (Fresh), because a *)
(* thread object stands in one slot of the table, and destroy has it out   *)
(* of the table after it has sent the quit action.                         *)
(***************************************************************************)
EXTENDS ActionThreadPool, FiniteSetTheorems, WellFoundedInduction, TLAPS

-----------------------------------------------------------------------------
(* The inductive invariant. *)

Leaving == {"none", "leaving", "done"}
InDestroySlot == {"quit", "send_quit", "join"}
InDestroy == InDestroySlot \cup {"slot", "next"}

Types ==
  /\ threads \in [Slots -> Workers \cup {NULL}]
  /\ wpc \in [Workers -> Leaving \cup {"created", "outer", "inner", "recv", "exec", "on_idle", "decide"}]
  /\ cpc \in [Callers -> InExec \cup InDestroy \cup {"idle"}]
  /\ slot \in [Callers -> Nat \ {0}]
  /\ made \in [Callers -> Workers \cup {NULL}]
  /\ arg \in [Callers -> Jobs \cup Workers \cup {NULL}]
  /\ destroyed \in BOOLEAN

\* Nobody else is in a call while a caller destroys the pool.
Alone == \A c, d \in Callers : cpc[c] \in InDestroy /\ c # d => cpc[d] = "idle"

\* The slots that destroy has behind it are empty, and the one it is at holds
\* the worker it has found there, until that worker has left.
Emptied ==
  \A c \in Callers : cpc[c] \in InDestroy =>
    /\ \A i \in Slots : i < slot[c] => threads[i] = NULL
    /\ cpc[c] = "next" => slot[c] \in Slots /\ threads[slot[c]] = NULL
    /\ cpc[c] \in InDestroySlot => slot[c] \in Slots /\ threads[slot[c]] \in {arg[c], NULL}

\* One creator at a time.
Mutex == \A c, d \in Callers : cpc[c] \in Holding /\ cpc[d] \in Holding => c = d

\* A creator has started a thread for a slot that is still empty.
Creating ==
  \A c \in Callers : cpc[c] \in Entering =>
    made[c] \in Workers /\ slot[c] \in Slots /\ threads[slot[c]] = NULL

\* Who works is entered in the table, or is going to be: OnlyRegisteredWork, by slots.
IsEntered(t) ==
  \/ \E i \in Slots : threads[i] = t
  \/ \E c \in Callers : cpc[c] \in Entering /\ made[c] = t

Entered == \A t \in Workers : wpc[t] \in Leaving \/ IsEntered(t)

\* After destroy nothing is left.
Over == destroyed => (\A c \in Callers : cpc[c] = "idle") /\ (\A t \in Workers : wpc[t] \in Leaving)

IInv == Types /\ Alone /\ Emptied /\ Mutex /\ Creating /\ Entered /\ Over

-----------------------------------------------------------------------------
(* The first free slot. *)

\* action_thread_pool_create_thread finds it.
LEMMA SmallestIsIn ==
  ASSUME NEW S \in SUBSET Nat, S # {}
  PROVE  (CHOOSE i \in S : \A j \in S : i <= j) \in S
<1> DEFINE Less == {ss \in Nat \X Nat : ss[1] < ss[2]}
<1>1. IsWellFoundedOn(Less, Nat)
  BY NatLessThanWellFounded DEF OpToRel
<1> HIDE DEF Less
<1>2. PICK i \in S : \A j \in S : <<j, i>> \notin Less
  BY <1>1, WFMin
<1>3. ASSUME NEW j \in S PROVE i <= j
  <2>1. i \in Nat /\ j \in Nat /\ <<j, i>> \in Nat \X Nat
    OBVIOUS
  <2>2. ~(j < i)
    BY <1>2, <2>1 DEF Less
  <2> QED
    BY <2>1, <2>2
<1> QED
  BY <1>3

-----------------------------------------------------------------------------
(* The steps. *)

\* action_thread_pool_create
LEMMA InitIInv == Init => IInv
<1> SUFFICES ASSUME Init PROVE IInv
  OBVIOUS
<1>1. threads \in [Slots -> Workers \cup {NULL}]
  BY DEF Init
<1>2. wpc \in [Workers -> {"none"}] /\ cpc \in [Callers -> {"idle"}] /\ arg \in [Callers -> {NULL}]
  BY DEF Init
<1>3. slot \in [Callers -> Nat \ {0}] /\ destroyed \in BOOLEAN
  <2>1. slot = [c \in Callers |-> 1] /\ 1 \in Nat \ {0}
    BY DEF Init
  <2>2. slot \in [Callers -> Nat \ {0}]
    BY <2>1
  <2>3. destroyed = FALSE
    BY DEF Init
  <2> QED
    BY <2>2, <2>3
<1>4. Types
  <2>1. made \in [Callers -> {NULL}]
    BY DEF Init
  <2> QED
    BY <1>1, <1>2, <1>3, <2>1 DEF Types, Leaving
<1> QED
  BY <1>4 DEF Init, IInv, Alone, Emptied, Mutex, Creating, Entered, Over, Leaving, InDestroy, InDestroySlot,
     Holding, Entering

\* A worker goes on in the table.
LEMMA WorkerGoesOn ==
  ASSUME IInv, NEW t \in Workers, NEW from, NEW to, WGoto(t, from, to),
         from \notin {"none", "leaving", "done"}, UNCHANGED <<threads, cpc, slot, made, arg, destroyed>>,
         to \in {"outer", "inner", "recv", "exec", "on_idle", "decide"}
  PROVE  IInv'
<1> USE DEF IInv, Types, Leaving, WGoto
<1>1. wpc' = [wpc EXCEPT ![t] = to] /\ wpc[t] \notin Leaving
  OBVIOUS
<1>2. Types'
  BY <1>1
<1>3. Alone' /\ Emptied' /\ Mutex' /\ Creating'
  BY DEF Alone, Emptied, Mutex, Creating
<1>4. Entered' /\ Over'
  BY <1>1 DEF Entered, IsEntered, Over
<1> QED
  BY <1>2, <1>3, <1>4

\* A worker leaves, and has cleared its slots unless it did so before.
LEMMA WorkerLeaves ==
  ASSUME IInv, NEW t \in Workers, NEW to \in {"leaving", "done"},
         wpc' = [wpc EXCEPT ![t] = to], UNCHANGED <<cpc, slot, made, arg, destroyed>>,
         \A i \in Slots : threads'[i] = threads[i] \/ (threads[i] = t /\ threads'[i] = NULL),
         threads' \in [Slots -> Workers \cup {NULL}]
  PROVE  IInv'
<1> USE DEF IInv, Types, Leaving
<1>1. Types'
  OBVIOUS
<1>2. Alone'
  BY DEF Alone
<1>3. Emptied' /\ Mutex' /\ Creating'
  BY DEF Emptied, Mutex, Creating
<1>4. ASSUME NEW u \in Workers
      PROVE  wpc'[u] \in Leaving \/ IsEntered(u)'
  <2>1. CASE u = t
    BY <2>1
  <2>2. CASE u # t
    BY <2>2 DEF Entered, IsEntered
  <2> QED
    BY <2>1, <2>2
<1>5. Over'
  BY DEF Over
<1> QED
  BY <1>1, <1>2, <1>3, <1>4, <1>5 DEF Entered

\* action_thread_entry
LEMMA WorkerKeeps == ASSUME IInv, NEW t \in Workers, WorkerStep(t) PROVE IInv'
<1> USE DEF pool, worker, caller
<1>1. CASE Entry(t)
  BY <1>1, WorkerGoesOn DEF Entry
<1>2. CASE Outer(t)
  <2>1. CASE WGoto(t, "outer", "inner")
    BY <1>2, <2>1, WorkerGoesOn DEF Outer
  <2>2. CASE WGoto(t, "outer", "leaving")
    BY <1>2, <2>2, WorkerLeaves DEF Outer, WGoto, IInv, Types
  <2> QED
    BY <1>2, <2>1, <2>2 DEF Outer
<1>3. CASE Inner(t)
  BY <1>3, WorkerGoesOn DEF Inner
<1>4. CASE Recv(t)
  BY <1>4, WorkerGoesOn DEF Recv
<1>5. CASE RecvTimeout(t)
  BY <1>5, WorkerGoesOn DEF RecvTimeout
<1>6. CASE Exec(t)
  BY <1>6, WorkerGoesOn DEF Exec
<1>7. CASE OnIdle(t)
  BY <1>7, WorkerGoesOn DEF OnIdle
<1>8. CASE Decide(t)
  <2>1. CASE WGoto(t, "decide", "outer") /\ UNCHANGED threads
    BY <1>8, <2>1, WorkerGoesOn DEF Decide
  <2>2. CASE WGoto(t, "decide", "leaving")
             /\ threads' = [i \in Slots |-> IF threads[i] = t THEN NULL ELSE threads[i]]
    BY <1>8, <2>2, WorkerLeaves DEF Decide, WGoto, IInv, Types
  <2> QED
    BY <1>8, <2>1, <2>2 DEF Decide
<1>9. CASE Leave(t)
  BY <1>9, WorkerLeaves DEF Leave, WGoto, IInv, Types
<1> QED
  BY <1>1, <1>2, <1>3, <1>4, <1>5, <1>6, <1>7, <1>8, <1>9 DEF WorkerStep

\* A caller goes on in exec, or enters it.
LEMMA ExecGoesOn ==
  ASSUME IInv, NEW c \in Callers, UNCHANGED destroyed,
         NEW to \in InExec \cup {"idle"}, cpc' = [cpc EXCEPT ![c] = to],
         NEW x \in Jobs \cup {NULL}, arg' = [arg EXCEPT ![c] = x] \/ arg' = arg,
         cpc[c] \in InExec \/ (~destroyed /\ \A d \in Callers : cpc[d] \in {"idle"} \cup InExec),
         threads' \in [Slots -> Workers \cup {NULL}],
         wpc' \in [Workers -> Leaving \cup {"created", "outer", "inner", "recv", "exec", "on_idle", "decide"}],
         slot' \in [Callers -> Nat \ {0}], made' \in [Callers -> Workers \cup {NULL}],
         Mutex', Creating', Entered'
  PROVE  IInv'
<1> USE DEF IInv
<1>1. InExec \cap InDestroy = {} /\ "idle" \notin InExec \cup InDestroy
  BY DEF InExec, InDestroy, InDestroySlot, Holding, Entering
<1>2. \A d \in Callers : cpc'[d] \notin InDestroy
  BY <1>1 DEF Types, Alone
<1>3. Types'
  <2>1. cpc' \in [Callers -> InExec \cup InDestroy \cup {"idle"}]
    BY DEF Types
  <2>2. arg' \in [Callers -> Jobs \cup Workers \cup {NULL}]
    BY DEF Types
  <2> QED
    BY <2>1, <2>2 DEF Types
<1>4. Alone' /\ Emptied'
  BY <1>2 DEF Alone, Emptied
<1>5. ~destroyed
  BY <1>1 DEF Over
<1>6. Over'
  BY <1>5 DEF Over
<1> QED
  BY <1>3, <1>4, <1>6

\* A caller goes on in exec, or enters or leaves it, without the mutex or giving
\* it back; the table and the workers stay.
LEMMA ExecMoves ==
  ASSUME IInv, NEW c \in Callers, UNCHANGED <<threads, wpc, slot, destroyed>>,
         NEW to \in (InExec \cup {"idle"}) \ Holding, cpc' = [cpc EXCEPT ![c] = to],
         NEW x \in Jobs \cup {NULL}, arg' = [arg EXCEPT ![c] = x] \/ arg' = arg,
         cpc[c] \in InExec \/ (~destroyed /\ \A d \in Callers : cpc[d] \in {"idle"} \cup InExec),
         cpc[c] \notin Entering,
         made' = made \/ made' = [made EXCEPT ![c] = NULL]
  PROVE  IInv'
<1> USE DEF IInv
<1>1. Entering \subseteq Holding
  BY DEF Holding
<1>2. \A d \in Callers : cpc'[d] \in Holding => cpc'[d] = cpc[d]
  BY DEF Types
<1>3. \A d \in Callers : cpc[d] \in Entering => cpc'[d] = cpc[d] /\ made'[d] = made[d]
  BY DEF Types
<1>4. Mutex' /\ Creating'
  BY <1>1, <1>2, <1>3 DEF Mutex, Creating
<1>5. \A t \in Workers : IsEntered(t) => IsEntered(t)'
  BY <1>3 DEF IsEntered
<1>6. Entered'
  BY <1>5 DEF Entered
<1>7. made' \in [Callers -> Workers \cup {NULL}]
  BY DEF Types
<1> QED
  BY <1>4, <1>6, <1>7, ExecGoesOn DEF Types

\* action_thread_pool_create_thread starts a thread, with the mutex.
LEMMA CreateThreadKeeps ==
  ASSUME IInv, NEW c \in Callers, NEW from \in InExec \ Holding, NEW enter \in Entering,
         NEW to \in InExec \ Holding, CreateThread(c, from, enter, to)
  PROVE  IInv'
<1> DEFINE free == {i \in Slots : threads[i] = NULL}
           k == CHOOSE i \in free : \A j \in free : i <= j
<1> USE DEF IInv
<1>1. Entering \subseteq Holding /\ Holding \subseteq InExec
  BY DEF Holding, InExec
<1>2. cpc[c] = from /\ UNCHANGED <<threads, arg, destroyed>>
      /\ \A d \in Callers : cpc[d] \notin Holding
  BY DEF CreateThread, CGoto, MutexFree
<1>3. CASE free = {}
  <2>1. UNCHANGED <<wpc, slot, made>> /\ cpc' = [cpc EXCEPT ![c] = to]
    BY <1>3 DEF CreateThread, CGoto
  <2> QED
    BY <1>1, <1>2, <2>1, ExecMoves DEF Types
<1>4. CASE free # {}
  <2>1. PICK t \in Workers : StartThread(t) /\ made' = [made EXCEPT ![c] = t]
    BY <1>4 DEF CreateThread
  <2>2. k \in free
    <3>1. free \in SUBSET Nat
      BY PoolAssumption DEF Slots
    <3> HIDE DEF free
    <3> QED
      BY <3>1, <1>4, SmallestIsIn
  <2>3. cpc' = [cpc EXCEPT ![c] = enter] /\ slot' = [slot EXCEPT ![c] = k]
    BY <1>4 DEF CreateThread, CGoto
  <2> HIDE DEF k
  <2>4. k \in Slots /\ threads[k] = NULL /\ k \in Nat \ {0}
    BY <2>2, PoolAssumption DEF Slots
  <2> HIDE DEF free
  <2>5. wpc' = [wpc EXCEPT ![t] = "created"]
    BY <2>1 DEF StartThread
  <2>6. cpc'[c] = enter /\ slot'[c] = k /\ made'[c] = t
        /\ \A d \in Callers : d # c => cpc'[d] = cpc[d]
    BY <2>1, <2>3 DEF Types
  <2>7. Mutex' /\ Creating'
    BY <1>1, <1>2, <2>4, <2>6 DEF Mutex, Creating
  <2>8. ASSUME NEW u \in Workers
        PROVE  wpc'[u] \in Leaving \/ IsEntered(u)'
    <3>1. CASE u = t
      BY <3>1, <2>6 DEF IsEntered
    <3>2. CASE u # t
      <4>1. wpc'[u] = wpc[u]
        BY <3>2, <2>5 DEF Types
      <4> QED
        BY <4>1, <1>1, <1>2 DEF Entered, IsEntered
    <3> QED
      BY <3>1, <3>2
  <2>9. /\ wpc' \in [Workers -> Leaving \cup {"created", "outer", "inner", "recv", "exec", "on_idle", "decide"}]
        /\ slot' \in [Callers -> Nat \ {0}] /\ made' \in [Callers -> Workers \cup {NULL}]
        /\ threads' \in [Slots -> Workers \cup {NULL}]
    BY <1>2, <2>1, <2>3, <2>4, <2>5 DEF Types
  <2>10. Entered'
    BY <2>8 DEF Entered
  <2>11. enter \in InExec /\ NULL \in Jobs \cup {NULL}
    BY <1>1
  <2> QED
    BY <1>2, <2>3, <2>7, <2>9, <2>10, <2>11, ExecGoesOn
<1> QED
  BY <1>3, <1>4

\* ... and enters it in the table.
LEMMA EnterThreadKeeps ==
  ASSUME IInv, NEW c \in Callers, NEW from \in Entering, NEW to \in Holding \ Entering, EnterThread(c, from, to)
  PROVE  IInv'
<1> USE DEF IInv
<1>1. Entering \subseteq Holding /\ Holding \subseteq InExec
  BY DEF Holding, InExec
<1>2. /\ cpc[c] = from /\ cpc' = [cpc EXCEPT ![c] = to]
      /\ threads' = [threads EXCEPT ![slot[c]] = made[c]]
      /\ UNCHANGED <<wpc, arg, slot, made, destroyed>>
  BY DEF EnterThread, CGoto, worker
<1>3. /\ made[c] \in Workers /\ slot[c] \in Slots /\ threads[slot[c]] = NULL
      /\ \A d \in Callers : d # c => cpc[d] \notin Holding
  BY <1>1, <1>2 DEF Creating, Mutex
<1>4. cpc'[c] = to /\ \A d \in Callers : d # c => cpc'[d] = cpc[d]
  BY <1>2 DEF Types
<1>5. threads' \in [Slots -> Workers \cup {NULL}] /\ threads'[slot[c]] = made[c]
      /\ \A i \in Slots : threads[i] # NULL => threads'[i] = threads[i]
  BY <1>2, <1>3 DEF Types
<1>6. Mutex' /\ Creating'
  BY <1>1, <1>3, <1>4 DEF Mutex, Creating
<1>7. ASSUME NEW u \in Workers, IsEntered(u)
      PROVE  IsEntered(u)'
  <2>1. CASE \E i \in Slots : threads[i] = u
    BY <2>1, <1>5, NamesAssumption DEF IsEntered
  <2>2. CASE \E d \in Callers : cpc[d] \in Entering /\ made[d] = u
    <3>1. made[c] = u
      BY <2>2, <1>1, <1>3
    <3> QED
      BY <3>1, <1>3, <1>5 DEF IsEntered
  <2> QED
    BY <1>7, <2>1, <2>2 DEF IsEntered
<1>8. Entered'
  BY <1>2, <1>7 DEF Entered
<1>9. to \in InExec /\ cpc[c] \in InExec /\ NULL \in Jobs \cup {NULL}
  BY <1>1, <1>2
<1> QED
  BY <1>2, <1>5, <1>6, <1>8, <1>9, ExecGoesOn DEF Types

\* The thread gets its on_idle, and the mutex is free.
LEMMA SetOnIdleKeeps ==
  ASSUME IInv, NEW c \in Callers, NEW from \in Holding \ Entering, NEW to \in InExec \ Holding, SetOnIdle(c, from, to)
  PROVE  IInv'
<1>1. /\ cpc[c] = from /\ cpc' = [cpc EXCEPT ![c] = to] /\ made' = [made EXCEPT ![c] = NULL]
      /\ UNCHANGED <<threads, wpc, arg, slot, destroyed>>
  BY DEF SetOnIdle, CGoto, pool, worker
<1>2. from \in InExec
  BY DEF InExec
<1> QED
  BY <1>1, <1>2, ExecMoves

\* action_thread_pool_create_thread, all of it.
LEMMA CreateKeeps == ASSUME IInv, NEW c \in Callers, Create(c) \/ CreateMore(c) PROVE IInv'
<1>1. /\ {"enter", "enter_more"} = Entering
      /\ {"set_on_idle", "set_on_idle_more"} \subseteq Holding \ Entering
      /\ {"create", "create_more", "full", "send"} \subseteq InExec \ Holding
  BY DEF Entering, Holding, InExec
<1> QED
  BY <1>1, CreateThreadKeeps, EnterThreadKeeps, SetOnIdleKeeps DEF Create, CreateMore

\* A caller goes on in destroy; it has not left a worker in a slot it is done with.
LEMMA DestroyGoesOn ==
  ASSUME IInv, NEW c \in Callers, cpc[c] \in InDestroy,
         NEW to \in InDestroy, cpc' = [cpc EXCEPT ![c] = to],
         UNCHANGED <<wpc, made, destroyed>>,
         NEW n \in Nat \ {0}, slot' = [slot EXCEPT ![c] = n],
         NEW x \in Jobs \cup Workers \cup {NULL}, arg' = [arg EXCEPT ![c] = x],
         threads' \in [Slots -> Workers \cup {NULL}],
         \A i \in Slots : \/ threads'[i] = threads[i]
                          \/ /\ threads'[i] = NULL
                             /\ threads[i] # NULL => wpc[threads[i]] \in Leaving,
         \A i \in Slots : i < n => threads'[i] = NULL,
         to = "next" => n \in Slots /\ threads'[n] = NULL,
         to \in InDestroySlot => n \in Slots /\ threads'[n] \in {x, NULL}
  PROVE  IInv'
<1> USE DEF IInv
<1>1. Types'
  <2>1. cpc' \in [Callers -> InExec \cup InDestroy \cup {"idle"}]
    BY DEF Types
  <2>2. arg' \in [Callers -> Jobs \cup Workers \cup {NULL}] /\ slot' \in [Callers -> Nat \ {0}]
    BY DEF Types
  <2> QED
    BY <2>1, <2>2 DEF Types
<1>2. \A d \in Callers : d # c => cpc'[d] = "idle" /\ cpc[d] = "idle"
  BY DEF Types, Alone
<1>2a. InDestroy \cap Holding = {} /\ "idle" \notin Holding /\ Entering \subseteq Holding
  BY DEF InDestroy, InDestroySlot, Holding, Entering
<1>2b. \A d \in Callers : cpc[d] \notin Holding /\ cpc'[d] \notin Holding
  BY <1>2, <1>2a DEF Types
<1>2c. Mutex' /\ Creating'
  BY <1>2a, <1>2b DEF Mutex, Creating
<1>3. Alone'
  BY <1>2 DEF Alone, InDestroy, InDestroySlot
<1>4. cpc'[c] = to /\ slot'[c] = n /\ arg'[c] = x
  BY DEF Types
<1>5. Emptied'
  BY <1>2, <1>4 DEF Emptied, InDestroy, InDestroySlot
<1>6. ASSUME NEW t \in Workers
      PROVE  wpc'[t] \in Leaving \/ IsEntered(t)'
  <2>1. \A i \in Slots : threads[i] = t /\ wpc[t] \notin Leaving => threads'[i] = t
    BY NamesAssumption
  <2>2. wpc[t] \in Leaving \/ \E i \in Slots : threads[i] = t
    BY <1>2a, <1>2b DEF Entered, IsEntered
  <2> QED
    BY <2>1, <2>2 DEF IsEntered
<1>7. Over'
  BY DEF Over, InDestroy, InDestroySlot
<1> QED
  BY <1>1, <1>2c, <1>3, <1>5, <1>6, <1>7 DEF Entered

\* A caller takes a step of exec or destroy.
LEMMA CallerKeeps == ASSUME IInv, NEW c \in Callers, CallerStep(c) PROVE IInv'
<1> USE DEF IInv, pool, worker
<1>2. arg[c] \in Jobs \cup Workers \cup {NULL} /\ slot[c] \in Nat \ {0}
      /\ arg = [arg EXCEPT ![c] = arg[c]] /\ slot = [slot EXCEPT ![c] = slot[c]]
  BY DEF Types
<1>2a. /\ {"ensure", "create", "full", "create_more", "send"} \subseteq InExec \ Holding
       /\ "idle" \notin Holding /\ Entering \subseteq Holding
  BY DEF InExec, Holding, Entering
<1>3. CASE Ensure(c)
  BY <1>3, <1>2a, ExecMoves DEF Ensure, CGoto
<1>4. CASE Create(c)
  BY <1>4, CreateKeeps
<1>5. CASE TestFull(c)
  BY <1>5, <1>2a, ExecMoves DEF TestFull, CGoto
<1>6. CASE CreateMore(c)
  BY <1>6, CreateKeeps
<1>7. CASE Send(c)
  BY <1>7, <1>2a, ExecMoves DEF Send, CGoto
<1>8. CASE SendTimeout(c)
  BY <1>8, <1>2a, ExecMoves DEF SendTimeout, CGoto
<1>9. CASE DestroySlot(c)
  <2> DEFINE x == threads[slot[c]]
             to == IF threads[slot[c]] = NULL THEN "next" ELSE "quit"
  <2>1. cpc[c] \in InDestroy /\ to \in InDestroy /\ slot[c] \in Slots
    BY <1>9 DEF DestroySlot, InDestroy, InDestroySlot
  <2>2. cpc' = [cpc EXCEPT ![c] = to] /\ arg' = [arg EXCEPT ![c] = x]
        /\ UNCHANGED <<threads, wpc, slot, made, destroyed>>
    BY <1>9 DEF DestroySlot
  <2>3. x \in Workers \cup {NULL} /\ threads' \in [Slots -> Workers \cup {NULL}]
    BY <2>1, <2>2 DEF Types
  <2>4. \A i \in Slots : i < slot[c] => threads'[i] = NULL
    BY <2>1, <2>2 DEF Emptied
  <2>5. (to = "next" => threads'[slot[c]] = NULL) /\ threads'[slot[c]] = x
    BY <2>2
  <2> HIDE DEF x, to
  <2> QED
    BY <1>2, <2>1, <2>2, <2>3, <2>4, <2>5, DestroyGoesOn
<1>10. ASSUME cpc[c] \in InDestroySlot, NEW to \in InDestroySlot, cpc' = [cpc EXCEPT ![c] = to],
              UNCHANGED <<threads, wpc, slot, made, arg, destroyed>>
       PROVE  IInv'
  <2>1. slot[c] \in Slots /\ threads'[slot[c]] \in {arg[c], NULL}
        /\ (\A i \in Slots : i < slot[c] => threads'[i] = NULL)
    BY <1>10 DEF Emptied, InDestroy
  <2>2. threads' \in [Slots -> Workers \cup {NULL}] /\ to # "next"
    BY <1>10 DEF Types, InDestroySlot
  <2>3. cpc[c] \in InDestroy /\ to \in InDestroy
    BY <1>10 DEF InDestroy
  <2> QED
    BY <1>2, <1>10, <2>1, <2>2, <2>3, DestroyGoesOn
<1>11. CASE SkipQuit(c)
  BY <1>11, <1>10 DEF SkipQuit, CGoto, InDestroySlot
<1>12. CASE SetQuit(c)
  BY <1>12, <1>10 DEF SetQuit, CGoto, InDestroySlot
<1>13. CASE SendQuit(c)
  BY <1>13, <1>10 DEF SendQuit, CGoto, InDestroySlot
<1>14. CASE SendQuitTimeout(c)
  BY <1>14, <1>10 DEF SendQuitTimeout, CGoto, InDestroySlot
<1>15. CASE Join(c)
  <2>1. cpc[c] = "join" /\ cpc' = [cpc EXCEPT ![c] = "next"] /\ wpc[arg[c]] = "done"
        /\ threads' = [threads EXCEPT ![slot[c]] = NULL] /\ UNCHANGED <<wpc, arg, slot, made, destroyed>>
    BY <1>15 DEF Join, CGoto
  <2>2. cpc[c] \in InDestroy /\ cpc[c] \in InDestroySlot /\ "next" \in InDestroy
    BY <2>1 DEF InDestroy, InDestroySlot
  <2>3. slot[c] \in Slots /\ threads[slot[c]] \in {arg[c], NULL}
        /\ (\A i \in Slots : i < slot[c] => threads[i] = NULL)
    BY <2>2 DEF Emptied
  <2>4. threads' \in [Slots -> Workers \cup {NULL}] /\ threads'[slot[c]] = NULL
    BY <2>1, <2>3 DEF Types
  <2>5. \A i \in Slots : \/ threads'[i] = threads[i]
                         \/ /\ threads'[i] = NULL
                            /\ threads[i] # NULL => wpc[threads[i]] \in Leaving
    BY <2>1, <2>3 DEF Types, Leaving
  <2>6. \A i \in Slots : i < slot[c] => threads'[i] = NULL
    BY <2>1, <2>3 DEF Types
  <2>7. "next" \notin InDestroySlot
    BY DEF InDestroySlot
  <2> QED
    BY <1>2, <2>1, <2>2, <2>3, <2>4, <2>5, <2>6, <2>7, DestroyGoesOn
<1>16. CASE NextSlot(c)
  <2>1. cpc[c] = "next" /\ cpc' = [cpc EXCEPT ![c] = "slot"]
        /\ slot' = [slot EXCEPT ![c] = slot[c] + 1] /\ arg' = [arg EXCEPT ![c] = NULL]
        /\ UNCHANGED <<threads, wpc, made, destroyed>>
    BY <1>16 DEF NextSlot, CGoto
  <2>2. cpc[c] \in InDestroy /\ "slot" \in InDestroy /\ "slot" \notin InDestroySlot
    BY <2>1 DEF InDestroy, InDestroySlot
  <2>3. threads[slot[c]] = NULL /\ (\A i \in Slots : i < slot[c] => threads[i] = NULL)
    BY <2>1, <2>2 DEF Emptied
  <2>4. \A i \in Slots : i < slot[c] + 1 => i < slot[c] \/ i = slot[c]
    BY <1>2, PoolAssumption DEF Slots
  <2>5. \A i \in Slots : i < slot[c] + 1 => threads'[i] = NULL
    BY <2>1, <2>3, <2>4
  <2>6. slot[c] + 1 \in Nat \ {0} /\ threads' \in [Slots -> Workers \cup {NULL}]
    BY <1>2, <2>1 DEF Types
  <2> QED
    BY <2>1, <2>2, <2>5, <2>6, DestroyGoesOn
<1>17. CASE Free(c)
  <2>1. cpc[c] = "slot" /\ cpc' = [cpc EXCEPT ![c] = "idle"] /\ slot[c] \notin Slots
        /\ destroyed' = TRUE /\ UNCHANGED <<threads, wpc, arg, slot, made>>
    BY <1>17 DEF Free, CGoto
  <2>2. cpc[c] \in InDestroy
    BY <2>1 DEF InDestroy
  <2>3. \A d \in Callers : cpc'[d] = "idle" /\ cpc[d] \notin Holding
    BY <2>1, <2>2 DEF Types, Alone, Holding, Entering
  <2>4. \A i \in Slots : i < slot[c]
    BY <1>2, <2>1, PoolAssumption DEF Slots
  <2>5. \A i \in Slots : threads[i] = NULL
    BY <2>2, <2>4 DEF Emptied
  <2>6. \A t \in Workers : wpc[t] \in Leaving
    BY <2>3, <2>5, NamesAssumption DEF Entered, IsEntered, Holding
  <2>7. Types'
    BY <2>1 DEF Types
  <2>8. Alone' /\ Emptied' /\ Mutex' /\ Creating'
    BY <2>3 DEF Alone, Emptied, Mutex, Creating, InDestroy, InDestroySlot, Holding, Entering
  <2>9. Entered' /\ Over'
    BY <2>1, <2>3, <2>6 DEF Entered, Over
  <2> QED
    BY <2>7, <2>8, <2>9
<1> QED
  BY <1>3, <1>4, <1>5, <1>6, <1>7, <1>8, <1>9, <1>11, <1>12, <1>13, <1>14, <1>15, <1>16, <1>17 DEF CallerStep

\* A call of action_thread_pool_exec, while nobody destroys the pool.
LEMMA ExecCallKeeps == ASSUME IInv, NEW c \in Callers, NEW j \in Jobs, ExecCall(c, j) PROVE IInv'
<1>1. /\ ~destroyed /\ \A d \in Callers : cpc[d] \in {"idle"} \cup InExec
      /\ cpc' = [cpc EXCEPT ![c] = "ensure"] /\ arg' = [arg EXCEPT ![c] = j]
  BY DEF ExecCall, CGoto
<1>2. UNCHANGED <<threads, wpc, slot, made, destroyed>> /\ cpc[c] = "idle"
  BY DEF ExecCall, pool, worker, CGoto
<1>3. "ensure" \in InExec \ Holding /\ "idle" \notin Entering
  BY DEF InExec, Holding, Entering
<1> QED
  BY <1>1, <1>2, <1>3, ExecMoves

\* A call of action_thread_pool_destroy, while nobody is in the pool.
LEMMA DestroyCallKeeps == ASSUME IInv, NEW c \in Callers, DestroyCall(c) PROVE IInv'
<1> USE DEF IInv
<1>1. /\ ~destroyed /\ \A d \in Callers : cpc[d] = "idle"
      /\ cpc' = [cpc EXCEPT ![c] = "slot"] /\ slot' = [slot EXCEPT ![c] = 1]
  BY DEF DestroyCall
<1>2. UNCHANGED <<threads, wpc, made, arg, destroyed>>
  BY DEF DestroyCall, pool, worker
<1>3. Types'
  <2>1. "slot" \in InDestroy /\ 1 \in Nat \ {0}
    BY DEF InDestroy
  <2> QED
    BY <1>1, <1>2, <2>1 DEF Types
<1>4. \A d \in Callers : cpc'[d] = IF d = c THEN "slot" ELSE "idle"
  BY <1>1 DEF Types
<1>5. Alone'
  BY <1>4 DEF Alone, InDestroy, InDestroySlot
<1>6. slot'[c] = 1 /\ \A i \in Slots : ~(i < 1)
  BY <1>1, PoolAssumption DEF Types, Slots
<1>7. Emptied'
  BY <1>4, <1>6 DEF Emptied, InDestroy, InDestroySlot
<1>8. "idle" \notin Holding /\ "slot" \notin Holding /\ Entering \subseteq Holding
  BY DEF Holding, Entering
<1>9. Mutex' /\ Creating'
  BY <1>4, <1>8 DEF Mutex, Creating
<1>10. Entered' /\ Over'
  BY <1>1, <1>2, <1>8 DEF Entered, IsEntered, Over
<1> QED
  BY <1>3, <1>5, <1>7, <1>9, <1>10

\* Every step keeps the invariant.
LEMMA NextIInv == IInv /\ [Next]_vars => IInv'
<1> SUFFICES ASSUME IInv, [Next]_vars PROVE IInv'
  OBVIOUS
<1>1. CASE UNCHANGED vars
  BY <1>1 DEF vars, pool, worker, caller, IInv, Types, Alone, Emptied, Mutex, Creating, Entered, IsEntered, Over
<1> QED
  BY <1>1, WorkerKeeps, CallerKeeps, DestroyCallKeeps, ExecCallKeeps DEF Next

\* The inductive invariant holds always.
LEMMA Invariance == Spec => []IInv
<1> QED
  BY InitIInv, NextIInv, PTL DEF Spec

\* A worker that still receives actions is in thread_pool->threads.
THEOREM WorkersAreRegistered == Spec => []OnlyRegisteredWork
<1>1. IInv => OnlyRegisteredWork
  BY NamesAssumption DEF IInv, Entered, IsEntered, OnlyRegisteredWork, Registered, Leaving
<1> QED
  BY <1>1, Invariance, PTL

\* When action_thread_pool_destroy has freed the queue and the pool, no worker
\* has still to use them.
THEOREM NothingIsUsedAfterDestroy == Spec => []NoUseAfterDestroy
<1>1. IInv => NoUseAfterDestroy
  BY DEF IInv, Over, NoUseAfterDestroy, Leaving
<1> QED
  BY <1>1, Invariance, PTL
-----------------------------------------------------------------------------
(* What is in whose hands, and the queue between them. *)

Acts == Jobs \cup QuitActions

\* What is in the queue, and what the workers hold: only one that executes
\* holds anything.
WorkerHands ==
  /\ quit \in [Workers -> BOOLEAN] /\ quited \in [Workers -> BOOLEAN]
  /\ nr \in [Workers -> 0..max_thread_nr]
  /\ queue \in Seq(Acts) /\ Len(queue) <= QueueCapacity
  /\ got \in [Workers -> Acts \cup {NULL}]
  /\ \A t \in Workers : got[t] # NULL => wpc[t] = "exec"

\* What a caller has in arg where it sends it, and where it is in the table.
CallerHands ==
  \A c \in Callers : /\ cpc[c] \in InExec => arg[c] \in Jobs
                     /\ cpc[c] \in InDestroySlot => arg[c] \in Workers
                     /\ slot[c] \in 1..(max_thread_nr + 1)

Hands == WorkerHands /\ CallerHands

\* A step of the pool, seen by the queue.
QueueStep == Q!Next \/ UNCHANGED <<queue, got>>

\* action_thread_pool_create leaves everybody with empty hands.
LEMMA InitHands == Init => Hands
<1> SUFFICES ASSUME Init PROVE Hands
  OBVIOUS
<1>1. quit = [t \in Workers |-> FALSE] /\ quited = [t \in Workers |-> FALSE] /\ nr = [t \in Workers |-> 0]
      /\ queue = <<>> /\ got = [t \in Workers |-> NULL]
  BY DEF Init, Q!Init
<1>2. \A c \in Callers : cpc[c] = "idle" /\ slot[c] = 1
  BY DEF Init
<1>3. 0 \in 0..max_thread_nr /\ 1 \in 1..(max_thread_nr + 1) /\ 0 <= QueueCapacity
  BY PoolAssumption
<1>4. WorkerHands
  BY <1>1, <1>3 DEF WorkerHands
<1>5. CallerHands
  BY <1>2, <1>3 DEF CallerHands, InExec, InDestroySlot, Holding, Entering
<1> QED
  BY <1>4, <1>5 DEF Hands

\* action_thread_pool_get_thread_nr counts as many threads as there are slots, at most.
LEMMA ThreadNrRange == ThreadNr \in 0..max_thread_nr
<1> DEFINE used == {i \in Slots : threads[i] # NULL}
<1>1. IsFiniteSet(Slots) /\ Cardinality(Slots) = max_thread_nr
  BY PoolAssumption, FS_Interval DEF Slots
<1>2. used \subseteq Slots
  OBVIOUS
<1>3. Cardinality(used) \in Nat /\ Cardinality(used) <= max_thread_nr
  BY <1>1, <1>2, FS_Subset, FS_CardinalityType
<1> QED
  BY <1>3, PoolAssumption DEF ThreadNr

\* The new end of the queue.
LEMMA Appended ==
  ASSUME queue \in Seq(Acts), Len(queue) < QueueCapacity, NEW a \in Acts, queue' = Append(queue, a)
  PROVE  queue' \in Seq(Acts) /\ Len(queue') <= QueueCapacity
<1>1. queue' \in Seq(Acts) /\ Len(queue') = Len(queue) + 1 /\ Len(queue) \in Nat
  OBVIOUS
<1> QED
  BY <1>1, PoolAssumption

\* What a worker takes leaves the queue.
LEMMA Taken ==
  ASSUME queue \in Seq(Acts), Len(queue) <= QueueCapacity, queue # <<>>
  PROVE  Head(queue) \in Acts /\ Tail(queue) \in Seq(Acts) /\ Len(Tail(queue)) <= QueueCapacity
<1>1. Len(queue) \in Nat /\ Len(Tail(queue)) = Len(queue) - 1
  OBVIOUS
<1>2. Len(Tail(queue)) <= QueueCapacity
  BY <1>1, PoolAssumption
<1> QED
  BY <1>2

\* A worker that goes elsewhere than to exec leaves the queue and what the others
\* hold alone.
LEMMA WorkerMoves ==
  ASSUME IInv, Hands, NEW t \in Workers, NEW from, NEW to, WGoto(t, from, to), from # "exec",
         UNCHANGED <<queue, got, cpc, arg, slot>>,
         quit' \in [Workers -> BOOLEAN], quited' \in [Workers -> BOOLEAN],
         nr' \in [Workers -> 0..max_thread_nr]
  PROVE  Hands' /\ QueueStep
<1>1. \A u \in Workers : wpc[u] = "exec" => wpc'[u] = "exec"
  BY DEF WGoto, IInv, Types
<1>2. WorkerHands'
  BY <1>1 DEF Hands, WorkerHands
<1>3. CallerHands'
  BY DEF Hands, CallerHands
<1> QED
  BY <1>2, <1>3 DEF Hands, QueueStep

\* action_thread_entry
LEMMA WorkerHandsKept == ASSUME IInv, Hands, NEW t \in Workers, WorkerStep(t) PROVE Hands' /\ QueueStep
<1> USE DEF pool, worker, caller
<1>1. quit \in [Workers -> BOOLEAN] /\ quited \in [Workers -> BOOLEAN] /\ nr \in [Workers -> 0..max_thread_nr]
  BY DEF Hands, WorkerHands
<1>2. CASE Entry(t)
  BY <1>1, <1>2, WorkerMoves DEF Entry
<1>3. CASE Outer(t)
  BY <1>1, <1>3, WorkerMoves DEF Outer
<1>4. CASE Inner(t)
  BY <1>1, <1>4, WorkerMoves DEF Inner
<1>5. CASE Recv(t)
  <2>1. /\ WGoto(t, "recv", "exec") /\ UNCHANGED <<quit, quited, nr, cpc, arg, slot>>
        /\ queue # <<>> /\ got' = [got EXCEPT ![t] = Head(queue)] /\ queue' = Tail(queue)
    BY <1>5 DEF Recv, Q!Get
  <2>2. Head(queue) \in Acts /\ queue' \in Seq(Acts) /\ Len(queue') <= QueueCapacity
    BY <2>1, Taken DEF Hands, WorkerHands
  <2>3. got' \in [Workers -> Acts \cup {NULL}]
    BY <2>1, <2>2 DEF Hands, WorkerHands
  <2>4. \A u \in Workers : got'[u] # NULL => wpc'[u] = "exec"
    BY <2>1 DEF WGoto, IInv, Types, Hands, WorkerHands
  <2>5. WorkerHands'
    BY <1>1, <2>1, <2>2, <2>3, <2>4 DEF WorkerHands
  <2>6. CallerHands'
    BY <2>1 DEF Hands, CallerHands
  <2>7. Q!Next
    BY <1>5 DEF Recv, Q!Next
  <2> QED
    BY <2>5, <2>6, <2>7 DEF Hands, QueueStep
<1>6. CASE RecvTimeout(t)
  BY <1>1, <1>6, WorkerMoves DEF RecvTimeout
<1>7. CASE Exec(t)
  <2>1. /\ WGoto(t, "exec", "inner") /\ UNCHANGED <<quited, nr, cpc, arg, slot, queue>>
        /\ got' = [got EXCEPT ![t] = NULL] /\ quit' \in [Workers -> BOOLEAN]
    BY <1>1, <1>7 DEF Exec, Q!Release
  <2>2. got' \in [Workers -> Acts \cup {NULL}]
    BY <2>1 DEF Hands, WorkerHands
  <2>3. \A u \in Workers : got'[u] # NULL => wpc'[u] = "exec"
    BY <2>1 DEF WGoto, IInv, Types, Hands, WorkerHands
  <2>4. WorkerHands'
    BY <1>1, <2>1, <2>2, <2>3 DEF Hands, WorkerHands
  <2>5. CallerHands'
    BY <2>1 DEF Hands, CallerHands
  <2>6. Q!Next
    BY <1>7 DEF Exec, Q!Next
  <2> QED
    BY <2>4, <2>5, <2>6 DEF Hands, QueueStep
<1>8. CASE OnIdle(t)
  BY <1>1, <1>8, ThreadNrRange, WorkerMoves DEF OnIdle
<1>9. CASE Decide(t)
  BY <1>1, <1>9, WorkerMoves DEF Decide
<1>10. CASE Leave(t)
  BY <1>1, <1>10, WorkerMoves DEF Leave
<1> QED
  BY <1>2, <1>3, <1>4, <1>5, <1>6, <1>7, <1>8, <1>9, <1>10 DEF WorkerStep

\* A caller goes on without the queue.
LEMMA CallerMoves ==
  ASSUME IInv, Hands, NEW c \in Callers, NEW to, cpc' = [cpc EXCEPT ![c] = to],
         UNCHANGED <<queue, got>>, quit' \in [Workers -> BOOLEAN],
         quited' \in [Workers -> BOOLEAN], nr' \in [Workers -> 0..max_thread_nr],
         \A t \in Workers : wpc[t] = "exec" => wpc'[t] = "exec",
         NEW x, arg' = [arg EXCEPT ![c] = x] \/ (arg' = arg /\ x = arg[c]),
         to \in InExec => x \in Jobs,
         to \in InDestroySlot => x \in Workers,
         NEW n \in 1..(max_thread_nr + 1), slot' = [slot EXCEPT ![c] = n]
  PROVE  Hands' /\ QueueStep
<1>1. WorkerHands'
  BY DEF Hands, WorkerHands
<1>2. \A d \in Callers : d # c => cpc'[d] = cpc[d] /\ arg'[d] = arg[d] /\ slot'[d] = slot[d]
  BY DEF IInv, Types
<1>3. cpc'[c] = to /\ arg'[c] = x /\ slot'[c] = n
  BY DEF IInv, Types
<1>4. CallerHands'
  BY <1>2, <1>3 DEF Hands, CallerHands
<1> QED
  BY <1>1, <1>4 DEF Hands, QueueStep

\* A caller puts an action into the queue.
LEMMA CallerPuts ==
  ASSUME IInv, Hands, NEW c \in Callers, NEW to \in {"idle", "join"}, cpc' = [cpc EXCEPT ![c] = to],
         UNCHANGED <<quit, quited, wpc, nr, slot>>,
         NEW a \in Acts, Q!Put(a), arg' = [arg EXCEPT ![c] = NULL] \/ arg' = arg,
         to = "join" => arg' = arg /\ arg[c] \in Workers
  PROVE  Hands' /\ QueueStep
<1>1. Len(queue) < QueueCapacity /\ queue' = Append(queue, a) /\ got' = got
  BY DEF Q!Put
<1>2. queue' \in Seq(Acts) /\ Len(queue') <= QueueCapacity
  BY <1>1, Appended DEF Hands, WorkerHands
<1>3. WorkerHands'
  BY <1>1, <1>2 DEF Hands, WorkerHands
<1>4. \A d \in Callers : d # c => cpc'[d] = cpc[d] /\ arg'[d] = arg[d]
  BY DEF IInv, Types
<1>5. cpc'[c] = to
  BY DEF IInv, Types
<1>6. CallerHands'
  BY <1>4, <1>5 DEF Hands, CallerHands, InExec, InDestroySlot, Holding, Entering
<1>7. Q!Next
  BY DEF Q!Next, Acts
<1> QED
  BY <1>3, <1>6, <1>7 DEF Hands, QueueStep

\* action_thread_pool_create_thread starts a thread that did not run, for a slot.
LEMMA CreateHands ==
  ASSUME IInv, Hands, NEW c \in Callers, Create(c) \/ CreateMore(c)
  PROVE  Hands' /\ QueueStep
<1>1. /\ Entering \cup {"set_on_idle", "set_on_idle_more", "create", "create_more", "full", "send"} \subseteq InExec
      /\ InExec \cap InDestroySlot = {}
  BY DEF InExec, InDestroySlot, Holding, Entering
<1>2. /\ quit \in [Workers -> BOOLEAN] /\ quited \in [Workers -> BOOLEAN] /\ nr \in [Workers -> 0..max_thread_nr]
      /\ slot[c] \in 1..(max_thread_nr + 1) /\ slot = [slot EXCEPT ![c] = slot[c]]
      /\ cpc[c] \in InExec => arg[c] \in Jobs
      /\ 0 \in 0..max_thread_nr
  BY PoolAssumption DEF Hands, WorkerHands, CallerHands, IInv, Types
<1>3. ASSUME NEW from \in InExec, NEW enter \in InExec, NEW to \in InExec, CreateThread(c, from, enter, to)
      PROVE  Hands' /\ QueueStep
  <2> DEFINE free == {i \in Slots : threads[i] = NULL}
             k == CHOOSE i \in free : \A j \in free : i <= j
  <2>1. cpc[c] = from /\ UNCHANGED <<queue, got, arg>>
    BY <1>3 DEF CreateThread, CGoto
  <2>2. CASE UNCHANGED <<quit, quited, wpc, nr, slot>> /\ cpc' = [cpc EXCEPT ![c] = to]
    BY <1>1, <1>2, <2>1, <2>2, CallerMoves
  <2>3. ASSUME NEW t \in Workers, StartThread(t), free # {}, slot' = [slot EXCEPT ![c] = k],
               cpc' = [cpc EXCEPT ![c] = enter]
        PROVE  Hands' /\ QueueStep
    <3>1. k \in 1..(max_thread_nr + 1)
      <4>1. free \in SUBSET Nat
        BY PoolAssumption DEF Slots
      <4>2. k \in free
        BY <2>3, <4>1, SmallestIsIn
      <4> QED
        BY <4>2, PoolAssumption DEF Slots
    <3>2. \A u \in Workers : wpc[u] = "exec" => wpc'[u] = "exec"
      BY <2>3 DEF StartThread, IInv, Types
    <3>3. quit' \in [Workers -> BOOLEAN] /\ quited' \in [Workers -> BOOLEAN] /\ nr' \in [Workers -> 0..max_thread_nr]
      BY <1>2, <2>3 DEF StartThread
    <3> HIDE DEF k, free
    <3> QED
      BY <1>1, <1>2, <2>1, <2>3, <3>1, <3>2, <3>3, CallerMoves
  <2> QED
    BY <1>3, <2>2, <2>3 DEF CreateThread, CGoto
<1>4. ASSUME NEW from \in InExec, NEW to \in InExec, EnterThread(c, from, to) \/ SetOnIdle(c, from, to)
      PROVE  Hands' /\ QueueStep
  <2>1. cpc[c] = from /\ cpc' = [cpc EXCEPT ![c] = to] /\ UNCHANGED <<quit, quited, wpc, nr, queue, got, arg, slot>>
    BY <1>4 DEF EnterThread, SetOnIdle, CGoto, pool, worker
  <2> QED
    BY <1>1, <1>2, <2>1, CallerMoves
<1> QED
  BY <1>1, <1>3, <1>4 DEF Create, CreateMore, Entering

\* A caller takes a step of exec or destroy.
LEMMA CallerHandsKept == ASSUME IInv, Hands, NEW c \in Callers, CallerStep(c) PROVE Hands' /\ QueueStep
<1> USE DEF pool, worker
<1>1. /\ slot[c] \in 1..(max_thread_nr + 1) /\ slot = [slot EXCEPT ![c] = slot[c]]
      /\ cpc[c] \in InExec => arg[c] \in Jobs
      /\ cpc[c] \in InDestroySlot => arg[c] \in Workers
      /\ quit \in [Workers -> BOOLEAN] /\ quited \in [Workers -> BOOLEAN] /\ nr \in [Workers -> 0..max_thread_nr]
  BY DEF Hands, CallerHands, WorkerHands, IInv, Types
<1>1a. {"ensure", "create", "full", "create_more", "send"} \subseteq InExec
  BY DEF InExec
<1>2. ASSUME UNCHANGED <<quited, nr, queue, got, wpc, slot>>, quit' \in [Workers -> BOOLEAN], NEW to,
             cpc' = [cpc EXCEPT ![c] = to],
             NEW x, arg' = [arg EXCEPT ![c] = x] \/ (arg' = arg /\ x = arg[c]),
             to \in InExec => x \in Jobs, to \in InDestroySlot => x \in Workers
      PROVE  Hands' /\ QueueStep
  BY <1>1, <1>2, CallerMoves
<1>2a. ASSUME UNCHANGED <<quited, nr, queue, got, wpc, arg, slot>>, quit' \in [Workers -> BOOLEAN],
              cpc[c] \in InDestroySlot, NEW to \in InDestroySlot, cpc' = [cpc EXCEPT ![c] = to]
       PROVE  Hands' /\ QueueStep
  <2>1. to \notin InExec /\ arg[c] \in Workers
    BY <1>1, <1>2a DEF InExec, InDestroySlot, Holding, Entering
  <2> QED
    BY <1>2, <1>2a, <2>1
<1>3. CASE Ensure(c)
  BY <1>1, <1>1a, <1>2, <1>3 DEF Ensure, CGoto, InDestroySlot
<1>4. CASE Create(c)
  BY <1>4, CreateHands
<1>5. CASE TestFull(c)
  BY <1>1, <1>1a, <1>2, <1>5 DEF TestFull, CGoto, InDestroySlot
<1>6. CASE CreateMore(c)
  BY <1>6, CreateHands
<1>7. CASE Send(c)
  <2>1. arg[c] \in Acts
    BY <1>1, <1>1a, <1>7 DEF Send, CGoto, Acts
  <2> QED
    BY <1>7, <2>1, CallerPuts DEF Send, CGoto
<1>8. CASE SendTimeout(c)
  <2>1. cpc' = [cpc EXCEPT ![c] = "idle"] /\ arg' = [arg EXCEPT ![c] = NULL]
        /\ UNCHANGED <<quit, quited, nr, queue, got, wpc, slot>>
    BY <1>8 DEF SendTimeout, CGoto
  <2>2. "idle" \notin InExec /\ "idle" \notin InDestroySlot
    BY DEF InExec, InDestroySlot, Holding, Entering
  <2> QED
    BY <1>1, <1>2, <2>1, <2>2
<1>9. CASE DestroySlot(c)
  <2> DEFINE x == threads[slot[c]]
             to == IF threads[slot[c]] = NULL THEN "next" ELSE "quit"
  <2>1. cpc' = [cpc EXCEPT ![c] = to] /\ arg' = [arg EXCEPT ![c] = x] /\ slot[c] \in Slots
        /\ UNCHANGED <<quit, quited, nr, queue, got, wpc, slot>>
    BY <1>9 DEF DestroySlot
  <2>2. to \notin InExec /\ (to \in InDestroySlot => x \in Workers)
    BY <2>1 DEF InExec, InDestroySlot, Holding, Entering, IInv, Types
  <2> HIDE DEF x, to
  <2> QED
    BY <1>1, <1>2, <2>1, <2>2
<1>10. CASE SkipQuit(c)
  BY <1>1, <1>2a, <1>10 DEF SkipQuit, CGoto, InDestroySlot
<1>11. CASE SetQuit(c)
  <2>1. quit' \in [Workers -> BOOLEAN]
    BY <1>1, <1>11 DEF SetQuit
  <2> QED
    BY <1>2a, <1>11, <2>1 DEF SetQuit, CGoto, InDestroySlot
<1>12. CASE SendQuit(c)
  <2>1. arg[c] \in Workers /\ QuitAction(arg[c]) \in Acts
    BY <1>1, <1>12 DEF SendQuit, CGoto, InDestroySlot, Acts, QuitActions
  <2> QED
    BY <1>12, <2>1, CallerPuts DEF SendQuit, CGoto
<1>13. CASE SendQuitTimeout(c)
  BY <1>1, <1>2a, <1>13 DEF SendQuitTimeout, CGoto, InDestroySlot
<1>14. CASE Join(c)
  <2>1. cpc' = [cpc EXCEPT ![c] = "next"] /\ UNCHANGED <<quit, quited, nr, queue, got, wpc, arg, slot>>
    BY <1>14 DEF Join, CGoto
  <2>2. "next" \notin InExec /\ "next" \notin InDestroySlot
    BY DEF InExec, InDestroySlot, Holding, Entering
  <2> QED
    BY <1>1, <1>2, <2>1, <2>2
<1>15. CASE NextSlot(c)
  <2>1. cpc[c] = "next" /\ cpc' = [cpc EXCEPT ![c] = "slot"]
        /\ slot' = [slot EXCEPT ![c] = slot[c] + 1] /\ arg' = [arg EXCEPT ![c] = NULL]
        /\ UNCHANGED <<quit, quited, nr, queue, got, wpc>>
    BY <1>15 DEF NextSlot, CGoto
  <2>2. slot[c] \in Slots
    BY <2>1 DEF IInv, Emptied, InDestroy
  <2>3. slot[c] + 1 \in 1..(max_thread_nr + 1)
    BY <2>2, PoolAssumption DEF Slots
  <2>4. "slot" \notin InExec /\ "slot" \notin InDestroySlot
    BY DEF InExec, InDestroySlot, Holding, Entering
  <2>5. quit' \in [Workers -> BOOLEAN] /\ quited' \in [Workers -> BOOLEAN] /\ nr' \in [Workers -> 0..max_thread_nr]
    BY <1>1, <2>1
  <2> QED
    BY <2>1, <2>3, <2>4, <2>5, CallerMoves
<1>16. CASE Free(c)
  <2>1. cpc[c] = "slot" /\ cpc' = [cpc EXCEPT ![c] = "idle"] /\ slot[c] \notin Slots
        /\ queue' = <<>> /\ UNCHANGED <<quit, quited, nr, got, wpc, arg, slot>> /\ destroyed'
    BY <1>16 DEF Free, CGoto
  <2>2. \A t \in Workers : wpc'[t] \in Leaving
    <3>1. IInv'
      BY CallerKeeps
    <3> QED
      BY <2>1, <3>1 DEF IInv, Over
  <2>3. \A t \in Workers : got[t] = NULL
    BY <2>1, <2>2 DEF Hands, WorkerHands, Leaving
  <2>4. Q!Next
    BY <2>1, <2>3 DEF Q!Next, Q!Clear
  <2>5. WorkerHands'
    BY <2>1, PoolAssumption DEF Hands, WorkerHands
  <2>6. \A d \in Callers : d # c => cpc'[d] = cpc[d]
    BY <2>1 DEF IInv, Types
  <2>7. cpc'[c] = "idle"
    BY <2>1 DEF IInv, Types
  <2>8. CallerHands'
    BY <2>1, <2>6, <2>7 DEF Hands, CallerHands, InExec, InDestroySlot, Holding, Entering
  <2> QED
    BY <2>4, <2>5, <2>8 DEF Hands, QueueStep
<1> QED
  BY <1>3, <1>4, <1>5, <1>6, <1>7, <1>8, <1>9, <1>10, <1>11, <1>12, <1>13, <1>14, <1>15, <1>16 DEF CallerStep

\* Every step keeps what everybody holds, and is a step of the queue or leaves it alone.
LEMMA NextHands == IInv /\ Hands /\ [Next]_vars => Hands' /\ QueueStep
<1> SUFFICES ASSUME IInv, Hands, [Next]_vars PROVE Hands' /\ QueueStep
  OBVIOUS
<1> USE DEF pool, worker, caller
<1>1. ASSUME NEW c \in Callers, NEW j \in Jobs, ExecCall(c, j) PROVE Hands' /\ QueueStep
  <2>1. cpc' = [cpc EXCEPT ![c] = "ensure"] /\ arg' = [arg EXCEPT ![c] = j]
        /\ UNCHANGED <<quit, quited, wpc, queue, got, slot, nr>>
    BY <1>1 DEF ExecCall, CGoto
  <2>2. slot[c] \in 1..(max_thread_nr + 1) /\ slot' = [slot EXCEPT ![c] = slot[c]]
        /\ quit' \in [Workers -> BOOLEAN] /\ quited' \in [Workers -> BOOLEAN] /\ nr' \in [Workers -> 0..max_thread_nr]
    BY <2>1 DEF Hands, CallerHands, WorkerHands, IInv, Types
  <2>3. "ensure" \notin InDestroySlot
    BY DEF InDestroySlot
  <2> QED
    BY <2>1, <2>2, <2>3, CallerMoves
<1>2. ASSUME NEW c \in Callers, DestroyCall(c) PROVE Hands' /\ QueueStep
  <2>1. cpc' = [cpc EXCEPT ![c] = "slot"] /\ slot' = [slot EXCEPT ![c] = 1]
        /\ UNCHANGED <<quit, quited, wpc, queue, got, arg, nr>>
    BY <1>2 DEF DestroyCall
  <2>2. 1 \in 1..(max_thread_nr + 1) /\ quit' \in [Workers -> BOOLEAN]
        /\ quited' \in [Workers -> BOOLEAN] /\ nr' \in [Workers -> 0..max_thread_nr]
    BY <2>1, PoolAssumption DEF Hands, WorkerHands
  <2>3. "slot" \notin InDestroySlot /\ "slot" \notin InExec
    BY DEF InDestroySlot, InExec, Holding, Entering
  <2> QED
    BY <2>1, <2>2, <2>3, CallerMoves
<1>3. CASE UNCHANGED vars
  BY <1>3 DEF vars, Hands, WorkerHands, CallerHands, QueueStep
<1> QED
  BY <1>1, <1>2, <1>3, WorkerHandsKept, CallerHandsKept DEF Next

\* Hands holds always, with the invariant it needs.
LEMMA HandsInvariance == Spec => [](IInv /\ Hands)
<1> QED
  BY InitIInv, NextIInv, InitHands, NextHands, PTL DEF Spec

\* Every variable of the pool keeps its type: thread_nr and the loop variable of
\* destroy stay within the table, and the queue within its capacity.
THEOREM TypeCorrect == Spec => []TypeOK
<1>1. IInv /\ Hands => TypeOK
  <2> SUFFICES ASSUME IInv, Hands PROVE TypeOK
    OBVIOUS
  <2>1. slot \in [Callers -> 1..(max_thread_nr + 1)]
    BY DEF IInv, Types, Hands, CallerHands
  <2> QED
    BY <2>1 DEF IInv, Types, Hands, WorkerHands, TypeOK, Acts, Leaving, InDestroy, InDestroySlot
<1> QED
  BY <1>1, HandsInvariance, PTL

\* What exec, the workers and destroy do with the queue they share is what
\* BoundedQueue allows, which waitable_action_queue.c implements: they put nothing
\* that is already in it, no worker takes a second action before it has let the
\* first go, and destroy tears the queue down when no worker holds an action.
THEOREM UsesBoundedQueue == Spec => Q!Spec
<1>1. Init => Q!Init
  BY DEF Init
<1>2. IInv /\ Hands /\ [Next]_vars => [Q!Next]_(Q!vars)
  BY NextHands DEF QueueStep, Q!vars
<1> QED
  BY <1>1, <1>2, HandsInvariance, PTL DEF Spec, Q!Spec

-----------------------------------------------------------------------------
(* What is sent is new to the queue.                                       *)

\* A thread object stands in one slot at most, and its quit action is queued once,
\* in destroy, when that has it out of the table or waits for it to end; a job that
\* exec still has to send is neither queued nor sent by another caller.
Fresh ==
  /\ \A i, j \in Slots : threads[i] = threads[j] => i = j \/ threads[i] = NULL
  /\ \A c \in Callers : cpc[c] \in Entering => \A i \in Slots : threads[i] # made[c]
  /\ \A c \in Callers : cpc[c] \in InDestroySlot => \A i \in Slots : threads[i] = arg[c] => i = slot[c]
  /\ \A c \in Callers : cpc[c] \in InExec =>
       arg[c] \notin Q!Owned /\ \A d \in Callers : d # c /\ cpc[d] \in InExec => arg[d] # arg[c]
  /\ \A c \in Callers : cpc[c] \in {"quit", "send_quit"} => QuitAction(arg[c]) \notin Q!Owned
  /\ \A t \in Workers : QuitAction(t) \in Q!Owned =>
       /\ destroyed \/ \E c \in Callers : cpc[c] \in InDestroy
       /\ (\A i \in Slots : threads[i] # t) \/ \E c \in Callers : cpc[c] = "join" /\ arg[c] = t
  /\ \A t \in Workers : wpc[t] = "exec" => got[t] # NULL

\* The actions are distinct objects.
LEMMA ActionsAre ==
  /\ NULL \notin Acts /\ NULL \notin Jobs
  /\ \A t \in Workers : QuitAction(t) \in Acts /\ QuitAction(t) \notin Jobs /\ QuitAction(t) # NULL
  /\ \A t, u \in Workers : QuitAction(t) = QuitAction(u) => t = u
<1>1. \A t, u \in Workers : QuitAction(t).quit = t
  BY DEF QuitAction
<1> QED
  BY <1>1, NamesAssumption, ActionsAssumption DEF Acts, QuitActions

\* A worker that takes a step adds nothing to the queue or to what is held.
LEMMA WorkerOwned ==
  ASSUME IInv, Hands, Fresh, NEW t \in Workers, WorkerStep(t)
  PROVE  /\ Q!Owned' \subseteq Q!Owned \cup {NULL}
         /\ \A u \in Workers : wpc'[u] = "exec" => got'[u] # NULL
         /\ \A i \in Slots : threads'[i] \in {threads[i], NULL}
         /\ UNCHANGED <<cpc, arg, slot, made, destroyed>>
<1> USE DEF pool, worker, caller
<1>1. /\ got \in [Workers -> Acts \cup {NULL}] /\ queue \in Seq(Acts)
      /\ wpc \in [Workers -> Leaving \cup {"created", "outer", "inner", "recv", "exec", "on_idle", "decide"}]
      /\ threads \in [Slots -> Workers \cup {NULL}]
  BY DEF IInv, Types, Hands, WorkerHands
<1>2. \A i \in Slots : threads'[i] \in {threads[i], NULL}
  BY <1>1 DEF WorkerStep, Entry, Outer, Inner, Recv, RecvTimeout, Exec, OnIdle, Decide, Leave
<1>3. UNCHANGED <<cpc, arg, slot, made, destroyed>>
  BY DEF WorkerStep, Entry, Outer, Inner, Recv, RecvTimeout, Exec, OnIdle, Decide, Leave
<1>6. CASE Recv(t)
  <2>1. /\ WGoto(t, "recv", "exec") /\ queue # <<>>
        /\ got' = [got EXCEPT ![t] = Head(queue)] /\ queue' = Tail(queue)
    BY <1>6 DEF Recv, Q!Get
  <2>2. Head(queue) \in Acts /\ Head(queue) = queue[1] /\ 1 \in 1..Len(queue)
    BY <1>1, <2>1
  <2>3. ASSUME NEW i \in 1..Len(queue') PROVE queue'[i] = queue[i + 1] /\ i + 1 \in 1..Len(queue)
    BY <1>1, <2>1
  <2>4. Q!Owned' \subseteq Q!Owned
    BY <1>1, <2>1, <2>2, <2>3 DEF Q!Owned
  <2>5. \A u \in Workers : wpc'[u] = "exec" => got'[u] # NULL
    BY <1>1, <2>1, <2>2, ActionsAre DEF WGoto, Fresh
  <2> QED
    BY <1>2, <1>3, <2>4, <2>5
<1>7. CASE Exec(t)
  <2>1. WGoto(t, "exec", "inner") /\ got' = [got EXCEPT ![t] = NULL] /\ queue' = queue
    BY <1>7 DEF Exec, Q!Release
  <2>2. Q!Owned' \subseteq Q!Owned \cup {NULL}
    BY <1>1, <2>1 DEF Q!Owned
  <2>3. \A u \in Workers : wpc'[u] = "exec" => got'[u] # NULL
    BY <1>1, <2>1 DEF WGoto, Fresh
  <2> QED
    BY <1>2, <1>3, <2>2, <2>3
<1>8. ASSUME UNCHANGED <<queue, got>>, NEW from, NEW to, WGoto(t, from, to), to # "exec"
      PROVE  /\ Q!Owned' \subseteq Q!Owned \cup {NULL}
             /\ \A u \in Workers : wpc'[u] = "exec" => got'[u] # NULL
  BY <1>1, <1>8 DEF Q!Owned, WGoto, Fresh
<1> QED
  BY <1>2, <1>3, <1>6, <1>7, <1>8
  DEF WorkerStep, Entry, Outer, Inner, RecvTimeout, OnIdle, Decide, Leave

\* So a worker keeps all this.
LEMMA WorkerFresh == ASSUME IInv, Hands, Fresh, NEW t \in Workers, WorkerStep(t) PROVE Fresh'
<1>1. \A c \in Callers : (cpc[c] \in InExec => arg[c] \in Jobs) /\ (cpc[c] \in InDestroySlot => arg[c] \in Workers)
  BY DEF Hands, CallerHands
<1>2. /\ Q!Owned' \subseteq Q!Owned \cup {NULL}
      /\ \A u \in Workers : wpc'[u] = "exec" => got'[u] # NULL
      /\ \A i \in Slots : threads'[i] \in {threads[i], NULL}
      /\ UNCHANGED <<cpc, arg, slot, made, destroyed>>
  BY WorkerOwned
<1>3. \A i \in Slots : threads[i] \in Workers \cup {NULL}
  BY DEF IInv, Types
<1>4. {"quit", "send_quit"} \subseteq InDestroySlot /\ NULL \notin Workers
  BY NamesAssumption DEF InDestroySlot
<1>5. \A c \in Callers : cpc'[c] \in Entering => \A i \in Slots : threads'[i] # made'[c]
  BY <1>2, <1>4 DEF Fresh, IInv, Creating
<1>6. \A i, j \in Slots : threads'[i] = threads'[j] => i = j \/ threads'[i] = NULL
  BY <1>2 DEF Fresh
<1>7. \A c \in Callers : cpc'[c] \in InDestroySlot => \A i \in Slots : threads'[i] = arg'[c] => i = slot'[c]
  BY <1>1, <1>2, <1>4 DEF Fresh
<1>8. \A c \in Callers : cpc'[c] \in InExec =>
        arg'[c] \notin Q!Owned' /\ \A d \in Callers : d # c /\ cpc'[d] \in InExec => arg'[d] # arg'[c]
  BY <1>1, <1>2, ActionsAre DEF Fresh
<1>9. \A c \in Callers : cpc'[c] \in {"quit", "send_quit"} => QuitAction(arg'[c]) \notin Q!Owned'
  BY <1>1, <1>2, <1>4, ActionsAre DEF Fresh
<1>10. ASSUME NEW u \in Workers, QuitAction(u) \in Q!Owned'
       PROVE  /\ destroyed' \/ \E c \in Callers : cpc'[c] \in InDestroy
              /\ (\A i \in Slots : threads'[i] # u) \/ \E c \in Callers : cpc'[c] = "join" /\ arg'[c] = u
  <2>1. QuitAction(u) \in Q!Owned
    BY <1>2, <1>10, ActionsAre
  <2> QED
    BY <2>1, <1>2, <1>4 DEF Fresh
<1> QED
  BY <1>2, <1>5, <1>6, <1>7, <1>8, <1>9, <1>10 DEF Fresh

\* A caller that leaves the table and the queue alone, or empties the queue, and
\* that has no more in its hands than before.
LEMMA CallerQuiet ==
  ASSUME IInv, Hands, Fresh, NEW c \in Callers, NEW to, cpc' = [cpc EXCEPT ![c] = to],
         UNCHANGED <<threads, wpc, got>>, Q!Owned' \subseteq Q!Owned,
         to \notin Entering, cpc[c] \in InDestroy => to \in InDestroy \/ destroyed', destroyed => destroyed',
         \A d \in Callers : d # c => made'[d] = made[d],
         to \in InExec => cpc[c] \in InExec /\ arg'[c] = arg[c],
         to \in InDestroySlot => cpc[c] \in InDestroySlot /\ arg'[c] = arg[c] /\ slot'[c] = slot[c],
         to \in {"quit", "send_quit"} => cpc[c] \in {"quit", "send_quit"},
         cpc[c] # "join",
         \A d \in Callers : d # c => arg'[d] = arg[d] /\ slot'[d] = slot[d]
  PROVE  Fresh'
<1>1. cpc'[c] = to /\ \A d \in Callers : d # c => cpc'[d] = cpc[d]
  BY DEF IInv, Types
<1>2. {"quit", "send_quit", "join"} = InDestroySlot
  BY DEF InDestroySlot
<1>3. \A d \in Callers : cpc'[d] \in InDestroySlot => \A i \in Slots : threads'[i] = arg'[d] => i = slot'[d]
  BY <1>1 DEF Fresh
<1>3a. \A d \in Callers : cpc'[d] \in Entering => \A i \in Slots : threads'[i] # made'[d]
  BY <1>1 DEF Fresh
<1>4. \A d \in Callers : cpc'[d] \in InExec => cpc[d] \in InExec /\ arg'[d] = arg[d]
  BY <1>1
<1>5. \A d \in Callers : cpc'[d] \in {"quit", "send_quit"} => cpc[d] \in {"quit", "send_quit"} /\ arg'[d] = arg[d]
  BY <1>1, <1>2
<1>6. ASSUME NEW t \in Workers, QuitAction(t) \in Q!Owned'
      PROVE  /\ destroyed' \/ \E d \in Callers : cpc'[d] \in InDestroy
             /\ (\A i \in Slots : threads'[i] # t) \/ \E d \in Callers : cpc'[d] = "join" /\ arg'[d] = t
  BY <1>1, <1>6 DEF Fresh
<1> QED
  BY <1>3, <1>3a, <1>4, <1>5, <1>6 DEF Fresh

\* The queue gets an action.
LEMMA OwnedPut ==
  ASSUME Hands, NEW a, Q!Put(a)
  PROVE  Q!Owned' = Q!Owned \cup {a} /\ a \notin Q!Owned /\ got' = got
<1>1. queue \in Seq(Acts) /\ queue' = Append(queue, a) /\ got' = got /\ a \notin Q!Owned
  BY DEF Q!Put, Hands, WorkerHands
<1>2. /\ Len(queue) \in Nat /\ Len(queue') = Len(queue) + 1 /\ queue'[Len(queue) + 1] = a
      /\ \A i \in 1..Len(queue) : queue'[i] = queue[i]
  BY <1>1
<1>3. {queue'[i] : i \in 1..Len(queue')} = {queue[i] : i \in 1..Len(queue)} \cup {a}
  <2>1. 1..Len(queue') = (1..Len(queue)) \cup {Len(queue) + 1}
    BY <1>2
  <2> QED
    BY <1>2, <2>1
<1> QED
  BY <1>1, <1>3 DEF Q!Owned

\* Nobody destroys the pool while a caller is in exec, and it is not destroyed.
LEMMA NoDestroyInExec ==
  ASSUME IInv, Fresh, NEW c \in Callers, cpc[c] \in InExec
  PROVE  /\ ~destroyed /\ \A d \in Callers : cpc[d] \notin InDestroy
         /\ \A t \in Workers : QuitAction(t) \notin Q!Owned
<1>1. InExec \cap InDestroy = {} /\ "idle" \notin InExec
  BY DEF InExec, InDestroy, InDestroySlot, Holding, Entering
<1>2. ~destroyed /\ \A d \in Callers : cpc[d] \notin InDestroy
  BY <1>1 DEF IInv, Alone, Over
<1> QED
  BY <1>2 DEF Fresh

\* A thread is started that is not in the table, and put into a free slot.
LEMMA CreateFresh ==
  ASSUME IInv, Hands, Fresh, NEW c \in Callers, Create(c) \/ CreateMore(c)
  PROVE  Fresh'
<1>1. /\ Entering \cup {"set_on_idle", "set_on_idle_more", "create", "create_more", "full", "send"} \subseteq InExec
      /\ InExec \cap InDestroy = {} /\ InDestroySlot \subseteq InDestroy
      /\ "join" \in InDestroySlot /\ {"quit", "send_quit"} \subseteq InDestroySlot
      /\ Entering \subseteq Holding
      /\ {"set_on_idle", "set_on_idle_more", "full", "send"} \cap Entering = {}
      /\ {"enter", "enter_more"} = Entering
  BY DEF InExec, InDestroy, InDestroySlot, Holding, Entering
<1>2. cpc[c] \in InExec
  BY <1>1 DEF Create, CreateMore, CreateThread, EnterThread, SetOnIdle, CGoto
<1>3. ~destroyed /\ (\A d \in Callers : cpc[d] \notin InDestroy) /\ \A t \in Workers : QuitAction(t) \notin Q!Owned
  BY <1>2, NoDestroyInExec
<1>4. threads \in [Slots -> Workers \cup {NULL}]
  BY DEF IInv, Types
<1>5. ASSUME NEW to \in InExec, cpc' = [cpc EXCEPT ![c] = to], UNCHANGED <<queue, got, arg>>,
             \A i, j \in Slots : threads'[i] = threads'[j] => i = j \/ threads'[i] = NULL,
             \A d \in Callers : cpc'[d] \in Entering => \A i \in Slots : threads'[i] # made'[d],
             \A t \in Workers : wpc'[t] = "exec" => wpc[t] = "exec"
      PROVE  Fresh'
  <2>1. cpc'[c] = to /\ \A d \in Callers : d # c => cpc'[d] = cpc[d]
    BY <1>5 DEF IInv, Types
  <2>2. Q!Owned' = Q!Owned
    BY <1>5 DEF Q!Owned
  <2>3. \A d \in Callers : cpc'[d] \notin InDestroySlot
    BY <1>1, <1>3, <2>1
  <2>4. \A d \in Callers : cpc'[d] \in InExec => cpc[d] \in InExec
    BY <1>2, <2>1
  <2>5. \A d \in Callers : cpc'[d] \in InExec =>
          arg'[d] \notin Q!Owned' /\ \A e \in Callers : e # d /\ cpc'[e] \in InExec => arg'[e] # arg'[d]
    BY <1>5, <2>2, <2>4 DEF Fresh
  <2>6. \A t \in Workers : wpc'[t] = "exec" => got'[t] # NULL
    BY <1>5 DEF Fresh
  <2> QED
    BY <1>1, <1>3, <1>5, <2>2, <2>3, <2>5, <2>6 DEF Fresh
<1>6. ASSUME NEW from \in InExec, NEW enter \in Entering, NEW to \in InExec \ Entering, CreateThread(c, from, enter, to)
      PROVE  Fresh'
  <2>1. UNCHANGED <<threads, queue, got, arg>> /\ \A d \in Callers : cpc[d] \notin Entering
    BY <1>1, <1>6 DEF CreateThread, MutexFree
  <2>2. CASE cpc' = [cpc EXCEPT ![c] = to] /\ UNCHANGED wpc
    <3>1. \A d \in Callers : cpc'[d] \notin Entering
      BY <2>1, <2>2 DEF IInv, Types
    <3> QED
      BY <1>5, <2>1, <2>2, <3>1 DEF Fresh
  <2>3. ASSUME NEW t \in Workers, StartThread(t), cpc' = [cpc EXCEPT ![c] = enter], made' = [made EXCEPT ![c] = t]
        PROVE  Fresh'
    <3>1. \A d \in Callers : cpc'[d] \in Entering => d = c
      BY <2>1, <2>3 DEF IInv, Types
    <3>2. made'[c] = t /\ \A i \in Slots : threads'[i] # t
      BY <2>1, <2>3, NamesAssumption DEF StartThread, Registered, IInv, Types
    <3>3. \A u \in Workers : wpc'[u] = "exec" => wpc[u] = "exec"
      BY <2>3 DEF StartThread, IInv, Types
    <3>4. \A i, j \in Slots : threads'[i] = threads'[j] => i = j \/ threads'[i] = NULL
      BY <2>1 DEF Fresh
    <3>5. enter \in InExec
      BY <1>1
    <3> QED
      BY <1>5, <2>1, <2>3, <3>1, <3>2, <3>3, <3>4, <3>5
  <2> QED
    BY <1>6, <2>2, <2>3 DEF CreateThread, CGoto
<1>7. ASSUME NEW from \in Entering, NEW to \in InExec \ Entering, EnterThread(c, from, to)
      PROVE  Fresh'
  <2>1. /\ cpc[c] = from /\ cpc' = [cpc EXCEPT ![c] = to]
        /\ threads' = [threads EXCEPT ![slot[c]] = made[c]]
        /\ UNCHANGED <<wpc, queue, got, arg>>
    BY <1>7 DEF EnterThread, CGoto, worker
  <2>2. \A d \in Callers : d # c => cpc[d] \notin Entering
    BY <1>1, <2>1 DEF IInv, Mutex
  <2>3. \A d \in Callers : cpc'[d] \notin Entering
    BY <2>1, <2>2 DEF IInv, Types
  <2>4. \A i \in Slots : threads'[i] = IF i = slot[c] THEN made[c] ELSE threads[i]
    BY <1>4, <2>1
  <2>5. \A i \in Slots : threads[i] # made[c]
    BY <2>1 DEF Fresh
  <2>6. \A i, j \in Slots : threads'[i] = threads'[j] => i = j \/ threads'[i] = NULL
    BY <2>4, <2>5 DEF Fresh
  <2> QED
    BY <1>5, <2>1, <2>3, <2>6
<1>8. ASSUME NEW from \in InExec, NEW to \in InExec \ Entering, SetOnIdle(c, from, to)
      PROVE  Fresh'
  <2>1. /\ cpc' = [cpc EXCEPT ![c] = to] /\ made' = [made EXCEPT ![c] = NULL]
        /\ UNCHANGED <<threads, wpc, queue, got, arg>>
    BY <1>8 DEF SetOnIdle, CGoto, pool, worker
  <2>2. \A d \in Callers : cpc'[d] \in Entering => cpc[d] \in Entering /\ made'[d] = made[d]
    BY <2>1 DEF IInv, Types
  <2>3. \A i, j \in Slots : threads'[i] = threads'[j] => i = j \/ threads'[i] = NULL
    BY <2>1 DEF Fresh
  <2>4. \A d \in Callers : cpc'[d] \in Entering => \A i \in Slots : threads'[i] # made'[d]
    BY <2>1, <2>2 DEF Fresh
  <2> QED
    BY <1>5, <2>1, <2>3, <2>4
<1> QED
  BY <1>1, <1>6, <1>7, <1>8 DEF Create, CreateMore

\* A caller begins to submit a new job.
LEMMA ExecFresh ==
  ASSUME IInv, Hands, Fresh, NEW c \in Callers, NEW j \in Jobs, ExecCall(c, j)
  PROVE  Fresh'
<1> USE DEF pool, worker
<1>1. /\ cpc[c] = "idle" /\ cpc' = [cpc EXCEPT ![c] = "ensure"] /\ arg' = [arg EXCEPT ![c] = j]
      /\ UNCHANGED <<threads, wpc, queue, got, slot, made, destroyed>> /\ ~destroyed
      /\ j \notin Q!Owned /\ \A d \in Callers : arg[d] # j /\ cpc[d] \in {"idle"} \cup InExec
  BY DEF ExecCall, CGoto
<1>2. /\ \A d \in Callers : d # c => cpc'[d] = cpc[d] /\ arg'[d] = arg[d]
      /\ cpc'[c] = "ensure" /\ arg'[c] = j
  BY <1>1 DEF IInv, Types
<1>3. "ensure" \in InExec /\ InExec \cap InDestroy = {} /\ "idle" \notin InDestroy /\ "idle" \notin InExec
      /\ "join" \in InDestroySlot /\ {"quit", "send_quit"} \subseteq InDestroySlot /\ InDestroySlot \subseteq InDestroy
      /\ "ensure" \notin Entering
  BY DEF InExec, InDestroy, InDestroySlot, Holding, Entering
<1>4. \A d \in Callers : cpc[d] \notin InDestroy /\ cpc'[d] \notin InDestroy
  BY <1>1, <1>2, <1>3
<1>5. Q!Owned' = Q!Owned
  BY <1>1 DEF Q!Owned
<1>6. \A d \in Callers : cpc'[d] \in InExec =>
        arg'[d] \notin Q!Owned' /\ \A e \in Callers : e # d /\ cpc'[e] \in InExec => arg'[e] # arg'[d]
  BY <1>1, <1>2, <1>5 DEF Fresh
<1>7. \A d \in Callers : cpc'[d] \in Entering => \A i \in Slots : threads'[i] # made'[d]
  BY <1>1, <1>2, <1>3 DEF Fresh
<1>8. \A t \in Workers : QuitAction(t) \notin Q!Owned'
  BY <1>1, <1>4, <1>5 DEF Fresh
<1> QED
  BY <1>1, <1>3, <1>4, <1>5, <1>6, <1>7, <1>8 DEF Fresh

\* A caller takes a step of exec or destroy.
LEMMA CallerFresh == ASSUME IInv, Hands, Fresh, NEW c \in Callers, CallerStep(c) PROVE Fresh'
<1> USE DEF pool, worker
<1>1. /\ \A d \in Callers : cpc[d] \in InExec => arg[d] \in Jobs
      /\ \A d \in Callers : cpc[d] \in InDestroySlot => arg[d] \in Workers
      /\ cpc \in [Callers -> InExec \cup InDestroy \cup {"idle"}]
      /\ threads \in [Slots -> Workers \cup {NULL}]
      /\ \A x : arg' = [arg EXCEPT ![c] = x] => arg'[c] = x /\ \A d \in Callers : d # c => arg'[d] = arg[d]
      /\ \A x : slot' = [slot EXCEPT ![c] = x] => slot'[c] = x /\ \A d \in Callers : d # c => slot'[d] = slot[d]
  BY DEF Hands, CallerHands, IInv, Types
<1>2. UNCHANGED <<queue, got>> => Q!Owned' = Q!Owned
  BY DEF Q!Owned
<1>3. InExec \cap InDestroy = {} /\ "idle" \notin InExec \cup InDestroy /\ InDestroySlot = {"quit", "send_quit", "join"}
      /\ InDestroySlot \subseteq InDestroy /\ {"slot", "next"} \subseteq InDestroy
      /\ InDestroy \cap Entering = {} /\ {"idle", "ensure", "create", "full", "create_more", "send"} \cap Entering = {}
      /\ {"ensure", "create", "full", "create_more", "send"} \subseteq InExec /\ Entering \subseteq InExec
  BY DEF InExec, InDestroy, InDestroySlot, Holding, Entering
<1>4. cpc[c] \in InDestroy => \A d \in Callers : d # c => cpc[d] = "idle"
  BY DEF IInv, Alone
<1>5. CASE Ensure(c)
  BY <1>2, <1>3, <1>5, CallerQuiet DEF Ensure, CGoto
<1>6. CASE Create(c)
  BY <1>6, CreateFresh
<1>7. CASE TestFull(c)
  BY <1>2, <1>3, <1>7, CallerQuiet DEF TestFull, CGoto
<1>8. CASE CreateMore(c)
  BY <1>8, CreateFresh
<1>9. CASE Send(c)
  <2>1. /\ cpc[c] = "send" /\ cpc' = [cpc EXCEPT ![c] = "idle"] /\ arg' = [arg EXCEPT ![c] = NULL]
        /\ Q!Put(arg[c]) /\ UNCHANGED <<threads, wpc, slot, made, destroyed>> /\ "send" \in InExec
    BY <1>3, <1>9 DEF Send, CGoto
  <2>2. Q!Owned' = Q!Owned \cup {arg[c]} /\ got' = got
    BY <2>1, OwnedPut
  <2>3. cpc'[c] = "idle" /\ \A d \in Callers : d # c => cpc'[d] = cpc[d] /\ arg'[d] = arg[d]
    BY <1>1, <2>1
  <2>4. arg[c] \in Jobs /\ \A t \in Workers : QuitAction(t) # arg[c]
    BY <1>1, <2>1, ActionsAre
  <2>5. \A d \in Callers : cpc'[d] \in InExec \cup InDestroySlot => d # c /\ cpc'[d] = cpc[d] /\ arg'[d] = arg[d]
    BY <1>3, <2>3
  <2>6. \A d \in Callers : cpc'[d] \in InExec =>
          arg'[d] \notin Q!Owned' /\ \A e \in Callers : e # d /\ cpc'[e] \in InExec => arg'[e] # arg'[d]
    BY <2>1, <2>2, <2>5 DEF Fresh
  <2>7. \A d \in Callers : cpc'[d] \in {"quit", "send_quit"} => QuitAction(arg'[d]) \notin Q!Owned'
    BY <1>1, <1>3, <2>2, <2>4, <2>5 DEF Fresh
  <2>8. ASSUME NEW t \in Workers, QuitAction(t) \in Q!Owned'
        PROVE  FALSE
    <3>1. QuitAction(t) \in Q!Owned
      BY <2>2, <2>4, <2>8
    <3> QED
      BY <3>1, <2>1, NoDestroyInExec
  <2>9. \A d \in Callers : cpc'[d] \in InDestroySlot => \A i \in Slots : threads'[i] = arg'[d] => i = slot'[d]
    BY <2>1, <2>5 DEF Fresh
  <2>10. \A d \in Callers : cpc'[d] \in Entering => \A i \in Slots : threads'[i] # made'[d]
    BY <1>3, <2>1, <2>5 DEF Fresh
  <2> QED
    BY <2>1, <2>2, <2>6, <2>7, <2>8, <2>9, <2>10 DEF Fresh
<1>10. CASE SendTimeout(c)
  <2>1. /\ cpc[c] = "send" /\ cpc' = [cpc EXCEPT ![c] = "idle"] /\ arg' = [arg EXCEPT ![c] = NULL]
        /\ UNCHANGED <<threads, wpc, queue, got, slot, made, destroyed>>
    BY <1>10 DEF SendTimeout, CGoto
  <2>2. Q!Owned' = Q!Owned /\ \A d \in Callers : d # c => arg'[d] = arg[d] /\ slot'[d] = slot[d]
    BY <1>1, <1>2, <2>1
  <2>3. cpc[c] \notin InDestroy /\ cpc[c] # "join" /\ "idle" \notin InExec \cup InDestroySlot \cup Entering
    BY <1>3, <2>1
  <2> QED
    BY <1>3, <2>1, <2>2, <2>3, CallerQuiet
<1>11. CASE DestroySlot(c)
  <2> DEFINE x == threads[slot[c]]
             to == IF x = NULL THEN "next" ELSE "quit"
  <2>1. /\ cpc[c] = "slot" /\ cpc' = [cpc EXCEPT ![c] = to] /\ arg' = [arg EXCEPT ![c] = x] /\ slot[c] \in Slots
        /\ UNCHANGED <<threads, wpc, queue, got, slot, made, destroyed>>
    BY <1>11 DEF DestroySlot
  <2>2. Q!Owned' = Q!Owned /\ arg'[c] = x /\ cpc'[c] = to /\ \A d \in Callers : d # c => cpc'[d] = "idle"
    BY <1>1, <1>2, <1>3, <1>4, <2>1
  <2>3. \A d \in Callers : cpc[d] # "join"
    BY <1>3, <1>4, <2>1
  <2>4. ASSUME x # NULL
        PROVE  /\ QuitAction(x) \notin Q!Owned'
               /\ \A i \in Slots : threads'[i] = x => i = slot'[c]
    BY <1>1, <2>1, <2>2, <2>3, <2>4 DEF Fresh
  <2>5. \A d \in Callers : cpc'[d] \in InExec \cup InDestroySlot => d = c /\ x # NULL /\ cpc'[d] = "quit"
    BY <1>3, <2>2
  <2>6. "quit" \notin InExec /\ \A d \in Callers : cpc'[d] \notin Entering
    BY <1>3, <2>2
  <2>7. cpc[c] \in InDestroy /\ cpc'[c] \in InDestroy
    BY <1>3, <2>1, <2>2
  <2> HIDE DEF x, to
  <2>8. \A t \in Workers : QuitAction(t) \in Q!Owned' => \A i \in Slots : threads'[i] # t
    BY <2>1, <2>2, <2>3 DEF Fresh
  <2> QED
    BY <1>3, <2>1, <2>2, <2>4, <2>5, <2>6, <2>7, <2>8 DEF Fresh
<1>12. CASE SkipQuit(c)
  <2>1. cpc[c] = "quit" /\ cpc' = [cpc EXCEPT ![c] = "join"] /\ UNCHANGED <<threads, wpc, queue, got, arg, slot, made, destroyed>>
    BY <1>12 DEF SkipQuit, CGoto
  <2> QED
    BY <1>2, <1>3, <2>1, CallerQuiet
<1>13. CASE SetQuit(c)
  <2>1. cpc[c] = "quit" /\ cpc' = [cpc EXCEPT ![c] = "send_quit"] /\ UNCHANGED <<threads, wpc, queue, got, arg, slot, made, destroyed>>
    BY <1>13 DEF SetQuit, CGoto
  <2> QED
    BY <1>2, <1>3, <2>1, CallerQuiet
<1>14. CASE SendQuit(c)
  <2> DEFINE t == arg[c]
  <2>1. /\ cpc[c] = "send_quit" /\ cpc' = [cpc EXCEPT ![c] = "join"]
        /\ Q!Put(QuitAction(t)) /\ UNCHANGED <<threads, wpc, arg, slot, made>>
    BY <1>14 DEF SendQuit, CGoto
  <2>2. Q!Owned' = Q!Owned \cup {QuitAction(t)} /\ got' = got
    BY <2>1, OwnedPut
  <2>3. cpc'[c] = "join" /\ \A d \in Callers : d # c => cpc'[d] = "idle"
    BY <1>1, <1>3, <1>4, <2>1
  <2>4. t \in Workers /\ \A i \in Slots : threads[i] = t => i = slot[c]
    BY <1>1, <1>3, <2>1 DEF Fresh
  <2> HIDE DEF t
  <2>5. ASSUME NEW u \in Workers, QuitAction(u) \in Q!Owned'
        PROVE  (\A i \in Slots : threads'[i] # u) \/ \E d \in Callers : cpc'[d] = "join" /\ arg'[d] = u
    <3>1. CASE u = t
      BY <2>1, <2>3, <2>4, <3>1 DEF t
    <3>2. CASE u # t
      <4>1. QuitAction(u) \in Q!Owned
        BY <2>2, <2>4, <2>5, <3>2, ActionsAre
      <4>2. \A d \in Callers : cpc[d] # "join"
        BY <1>3, <1>4, <2>1
      <4> QED
        BY <4>1, <4>2, <2>1 DEF Fresh
    <3> QED
      BY <3>1, <3>2
  <2>6. \A d \in Callers : cpc'[d] \notin InExec /\ cpc'[d] \notin {"quit", "send_quit"} /\ cpc'[d] \notin Entering
    BY <1>3, <2>3
  <2>6a. cpc'[c] \in InDestroy
    BY <1>3, <2>3
  <2>7. \A d \in Callers : cpc'[d] \in InDestroySlot => \A i \in Slots : threads'[i] = arg'[d] => i = slot'[d]
    BY <1>3, <2>1, <2>3, <2>4 DEF t
  <2> QED
    BY <2>1, <2>2, <2>5, <2>6, <2>6a, <2>7 DEF Fresh
<1>15. CASE SendQuitTimeout(c)
  <2>1. cpc[c] = "send_quit" /\ cpc' = [cpc EXCEPT ![c] = "join"]
        /\ UNCHANGED <<threads, wpc, queue, got, arg, slot, made, destroyed>>
    BY <1>15 DEF SendQuitTimeout, CGoto
  <2> QED
    BY <1>2, <1>3, <2>1, CallerQuiet
<1>16. CASE Join(c)
  <2>1. /\ cpc[c] = "join" /\ cpc' = [cpc EXCEPT ![c] = "next"] /\ threads' = [threads EXCEPT ![slot[c]] = NULL]
        /\ UNCHANGED <<wpc, queue, got, arg, slot, made>>
    BY <1>16 DEF Join, CGoto
  <2>2. Q!Owned' = Q!Owned /\ cpc'[c] = "next" /\ \A d \in Callers : d # c => cpc'[d] = "idle"
    BY <1>1, <1>2, <1>3, <1>4, <2>1
  <2>3. arg[c] \in Workers /\ \A i \in Slots : threads[i] = arg[c] => i = slot[c]
    BY <1>1, <1>3, <2>1 DEF Fresh
  <2>4. \A i \in Slots : threads'[i] = IF i = slot[c] THEN NULL ELSE threads[i]
    BY <1>1, <2>1
  <2>5. \A d \in Callers : cpc'[d] \notin InExec /\ cpc'[d] \notin InDestroySlot /\ cpc'[d] \notin Entering
    BY <1>3, <2>2
  <2>6. ASSUME NEW u \in Workers, QuitAction(u) \in Q!Owned' PROVE \A i \in Slots : threads'[i] # u
    <3>1. ((\A i \in Slots : threads[i] # u) \/ u = arg[c])
      BY <1>3, <1>4, <2>1, <2>2, <2>6 DEF Fresh
    <3> QED
      BY <2>1, <2>3, <2>4, <3>1, NamesAssumption
  <2>7. cpc'[c] \in InDestroy
    BY <1>3, <2>2
  <2>8. \A i, j \in Slots : threads'[i] = threads'[j] => i = j \/ threads'[i] = NULL
    BY <2>4 DEF Fresh
  <2>9. \A u \in Workers : wpc'[u] = "exec" => got'[u] # NULL
    BY <2>1 DEF Fresh
  <2> QED
    BY <1>3, <2>5, <2>6, <2>7, <2>8, <2>9 DEF Fresh
<1>17. CASE NextSlot(c)
  <2>1. /\ cpc[c] = "next" /\ cpc' = [cpc EXCEPT ![c] = "slot"] /\ slot' = [slot EXCEPT ![c] = slot[c] + 1]
        /\ arg' = [arg EXCEPT ![c] = NULL] /\ UNCHANGED <<threads, wpc, queue, got, made, destroyed>>
    BY <1>17 DEF NextSlot, CGoto
  <2> QED
    BY <1>1, <1>2, <1>3, <2>1, CallerQuiet
<1>18. CASE Free(c)
  <2>1. /\ cpc[c] = "slot" /\ cpc' = [cpc EXCEPT ![c] = "idle"] /\ queue' = <<>>
        /\ UNCHANGED <<threads, wpc, got, arg, slot, made>> /\ destroyed'
    BY <1>18 DEF Free, CGoto
  <2>2. Q!Owned' \subseteq Q!Owned
    BY <2>1 DEF Q!Owned
  <2> QED
    BY <1>3, <2>1, <2>2, CallerQuiet
<1> QED
  BY <1>5, <1>6, <1>7, <1>8, <1>9, <1>10, <1>11, <1>12, <1>13, <1>14, <1>15, <1>16, <1>17, <1>18 DEF CallerStep

\* A caller begins to destroy the pool.
LEMMA DestroyFresh == ASSUME IInv, Hands, Fresh, NEW c \in Callers, DestroyCall(c) PROVE Fresh'
<1>1. /\ cpc[c] = "idle" /\ cpc' = [cpc EXCEPT ![c] = "slot"] /\ slot' = [slot EXCEPT ![c] = 1]
      /\ UNCHANGED <<threads, wpc, queue, got, arg, made, destroyed>>
  BY DEF DestroyCall, pool, worker
<1>2. Q!Owned' = Q!Owned /\ \A d \in Callers : d # c => arg'[d] = arg[d] /\ slot'[d] = slot[d]
  BY <1>1 DEF Q!Owned, IInv, Types
<1>3. "slot" \notin InExec /\ "slot" \notin InDestroySlot /\ "slot" \in InDestroy /\ "slot" \notin Entering
  BY DEF InExec, InDestroy, InDestroySlot, Holding, Entering
<1> QED
  BY <1>1, <1>2, <1>3, CallerQuiet

\* Fresh holds always, with the invariants it needs.
LEMMA FreshInvariance == Spec => [](IInv /\ Hands /\ Fresh)
<1>1. Init => Fresh
  <2> SUFFICES ASSUME Init PROVE Fresh
    OBVIOUS
  <2>1. Q!Owned \subseteq {NULL}
    BY DEF Init, Q!Init, Q!Owned
  <2>2. \A t \in Workers : QuitAction(t) \notin Q!Owned
    BY <2>1, ActionsAre
  <2>3. \A c \in Callers : cpc[c] = "idle"
    BY DEF Init
  <2> QED
    BY <2>2, <2>3 DEF Init, Fresh, InExec, InDestroySlot, Holding, Entering
<1>2. IInv /\ Hands /\ Fresh /\ [Next]_vars => IInv' /\ Hands' /\ Fresh'
  <2> SUFFICES ASSUME IInv, Hands, Fresh, [Next]_vars PROVE IInv' /\ Hands' /\ Fresh'
    OBVIOUS
  <2>1. IInv' /\ Hands'
    BY NextIInv, NextHands
  <2>2. UNCHANGED vars => Fresh'
    BY DEF vars, pool, worker, caller, Fresh, Q!Owned
  <2>3. Fresh'
    BY <2>2, WorkerFresh, CallerFresh, ExecFresh, DestroyFresh DEF Next
  <2> QED
    BY <2>1, <2>3
<1> QED
  BY InitIInv, InitHands, <1>1, <1>2, PTL DEF Spec

\* What the pool does with the queue needs nothing of it but room, or an action:
\* what is sent is not in the queue yet, who receives has nothing in its hands,
\* and who executes has an action.
OnlyRoomIsNeeded ==
  /\ \A c \in Callers : cpc[c] = "send" => arg[c] \notin Q!Owned
  /\ \A c \in Callers : cpc[c] = "send_quit" => QuitAction(arg[c]) \notin Q!Owned
  /\ \A t \in Workers : wpc[t] = "recv" => got[t] = NULL
  /\ \A t \in Workers : wpc[t] = "exec" => got[t] # NULL

\* No quit action is queued twice for one worker and no job while it is queued or
\* executed, so that an exec or a destroy at the queue waits for room only, and a
\* worker for an action only, as in the code.
THEOREM QueueNeverRefuses == Spec => []OnlyRoomIsNeeded
<1>1. IInv /\ Hands /\ Fresh => OnlyRoomIsNeeded
  BY DEF Hands, WorkerHands, Fresh, OnlyRoomIsNeeded, InExec
<1> QED
  BY <1>1, FreshInvariance, PTL

=============================================================================
