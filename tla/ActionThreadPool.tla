-------------------------- MODULE ActionThreadPool --------------------------
(***************************************************************************)
(* The action thread pool (tkc/action_thread_pool.c) and the threads it    *)
(* creates (tkc/action_thread.c), which share one waitable action queue.   *)
(* The queue is the atomic FIFO of BoundedQueue, which the waitable queue  *)
(* implements; a receiver times out only when there is nothing for it.     *)
(* The flags quit and quited are read and written without a lock; every    *)
(* such access is a step of its own.  The mutex of the pool guards the     *)
(* loops over threads[] that count and that create, not those of a worker  *)
(* that leaves and of destroy; each loop is one step, but a creator holds  *)
(* the mutex from the start of a thread until it has entered the thread in *)
(* the table and given it its on_idle.                                     *)
(*                                                                         *)
(* A thread object that leaves the pool by itself is never freed and not   *)
(* used again; its name in Workers stands for the next object then.        *)
(***************************************************************************)
EXTENDS Integers, Sequences, FiniteSets

CONSTANTS
  max_thread_nr,   \* slots of the pool
  min_idle_nr,     \* threads the pool keeps
  QueueCapacity,   \* capacity of the queue (max_thread_nr * 5 in the code, 8189 at most)
  Workers,         \* the action_thread_t objects that can be created
  Callers,         \* application threads that call exec and destroy
  Jobs,            \* the actions they submit
  QuitJobs,        \* those of them whose exec returns RET_QUIT
  NULL

ASSUME PoolAssumption ==
  /\ max_thread_nr \in Nat \ {0} /\ min_idle_nr \in Nat \ {0}
  /\ QueueCapacity \in Nat \ {0, 1}
ASSUME NamesAssumption == NULL \notin Workers \cup Jobs
ASSUME JobsAssumption == QuitJobs \subseteq Jobs

VARIABLES
  threads,     \* thread_pool->threads: slot -> worker or NULL
  quit,        \* thread->quit
  quited,      \* thread->quited
  wpc,         \* where a worker is
  nr,          \* nr[t]: the thread_nr that worker t has read
  queue,       \* the queued actions
  got,         \* got[t]: the action worker t executes
  cpc,         \* where a caller is
  arg,         \* arg[c]: the action caller c submits, or the worker it destroys
  slot,        \* slot[c]: the loop variable i of create_thread and destroy
  made,        \* made[c]: the thread c has created and not given its on_idle yet
  destroyed    \* the pool has been freed

pool == <<threads, quit, quited>>
worker == <<wpc, queue, got>>
caller == <<cpc, arg, slot, made>>
vars == <<pool, worker, caller, nr, destroyed>>

Slots == 1..max_thread_nr

\* The action that action_thread_quit sends to end worker t.
QuitAction(t) == [quit |-> t]
QuitActions == {QuitAction(t) : t \in Workers}

\* A quit action is an object of its own.
ASSUME ActionsAssumption == NULL \notin QuitActions /\ Jobs \cap QuitActions = {}

Q == INSTANCE BoundedQueue WITH
  Capacity <- QueueCapacity, Threads <- Workers,
  Actions <- Jobs \cup QuitActions, q <- queue

Registered == {threads[i] : i \in Slots} \ {NULL}

\* Where a creator holds the pool's mutex.
Entering == {"enter", "enter_more"}
Holding == Entering \cup {"set_on_idle", "set_on_idle_more"}
MutexFree == \A d \in Callers : cpc[d] \notin Holding

\* The worker has its on_idle callback, with the pool as its context.
HasOnIdle(t) == \A c \in Callers : made[c] # t

\* action_thread_pool_get_thread_nr.  Workers only ever clear slots
\* concurrently, so that the loop counts what some instant of it holds.
ThreadNr == Cardinality({i \in Slots : threads[i] # NULL})

-----------------------------------------------------------------------------
(* action_thread_pool_create *)
Init ==
  /\ threads = [i \in Slots |-> NULL]
  /\ quit = [t \in Workers |-> FALSE]
  /\ quited = [t \in Workers |-> FALSE]
  /\ wpc = [t \in Workers |-> "none"]
  /\ nr = [t \in Workers |-> 0]
  /\ Q!Init
  /\ cpc = [c \in Callers |-> "idle"]
  /\ arg = [c \in Callers |-> NULL]
  /\ slot = [c \in Callers |-> 1]
  /\ made = [c \in Callers |-> NULL]
  /\ destroyed = FALSE

WGoto(t, from, to) == wpc[t] = from /\ wpc' = [wpc EXCEPT ![t] = to]
CGoto(c, from, to) == cpc[c] = from /\ cpc' = [cpc EXCEPT ![c] = to]

-----------------------------------------------------------------------------
(* A worker: action_thread_entry. *)

\* The entry resets the flags, whoever may have set them since the creation.
Entry(t) ==
  /\ WGoto(t, "created", "outer")
  /\ quit' = [quit EXCEPT ![t] = FALSE]
  /\ quited' = [quited EXCEPT ![t] = FALSE]
  /\ UNCHANGED <<threads, queue, got, caller, nr, destroyed>>

\* while (!(thread->quit)), the outer loop.
Outer(t) ==
  /\ \/ ~quit[t] /\ WGoto(t, "outer", "inner")
     \/ quit[t] /\ WGoto(t, "outer", "leaving")
  /\ UNCHANGED <<pool, queue, got, caller, nr, destroyed>>

\* while (!(thread->quit) && ..., the inner loop.
Inner(t) ==
  /\ \/ ~quit[t] /\ WGoto(t, "inner", "recv")
     \/ quit[t] /\ WGoto(t, "inner", "on_idle")
  /\ UNCHANGED <<pool, queue, got, caller, nr, destroyed>>

\* waitable_action_queue_recv succeeds...
Recv(t) ==
  /\ WGoto(t, "recv", "exec")
  /\ Q!Get(t)
  /\ UNCHANGED <<pool, caller, nr, destroyed>>

\* ... or times out after wait_timeout.
RecvTimeout(t) ==
  /\ queue = <<>>
  /\ WGoto(t, "recv", "on_idle")
  /\ UNCHANGED <<pool, queue, got, caller, nr, destroyed>>

\* qaction_exec, notification and destruction of the action.  Whatever returns
\* RET_QUIT ends the thread, an action of the application as well.
Exec(t) ==
  /\ WGoto(t, "exec", "inner")
  /\ quit' = [quit EXCEPT ![t] = @ \/ got[t] \in QuitActions \cup QuitJobs]
  /\ Q!Release(t)
  /\ UNCHANGED <<threads, quited, caller, nr, destroyed>>

(* action_thread_pool_on_thread_idle *)

\* thread_nr = action_thread_pool_get_thread_nr(thread_pool), under the mutex; a
\* thread whose on_idle is not set, or whose on_idle_ctx is NULL, goes on.
OnIdle(t) ==
  /\ \/ /\ HasOnIdle(t) /\ MutexFree
        /\ WGoto(t, "on_idle", "decide")
        /\ nr' = [nr EXCEPT ![t] = ThreadNr]
     \/ /\ ~HasOnIdle(t)
        /\ WGoto(t, "on_idle", "outer")
        /\ UNCHANGED nr
  /\ UNCHANGED <<pool, queue, got, caller, destroyed>>

\* Mistaken: clears the slot before it has decided to go.
DecideClearsFirst(t) ==
  /\ \/ (nr[t] > min_idle_nr \/ quit[t]) /\ WGoto(t, "decide", "leaving")
     \/ ~(nr[t] > min_idle_nr \/ quit[t]) /\ WGoto(t, "decide", "outer")
  /\ threads' = [i \in Slots |-> IF threads[i] = t THEN NULL ELSE threads[i]]
  /\ UNCHANGED <<quit, quited, queue, got, caller, nr, destroyed>>

\* Mistaken: goes without clearing its slot.
DecideKeepsSlot(t) ==
  /\ \/ /\ nr[t] > min_idle_nr \/ quit[t]
        /\ WGoto(t, "decide", "leaving")
        /\ quit' = [quit EXCEPT ![t] = TRUE]
     \/ /\ ~(nr[t] > min_idle_nr \/ quit[t])
        /\ WGoto(t, "decide", "outer")
        /\ UNCHANGED quit
  /\ UNCHANGED <<threads, quited, queue, got, caller, nr, destroyed>>

\* The worker goes if it counted more than min_idle_nr threads or is to quit:
\* it clears its slot, and the entry sets quit.
Decide(t) ==
  /\ \/ /\ nr[t] > min_idle_nr \/ quit[t]
        /\ WGoto(t, "decide", "leaving")
        /\ threads' = [i \in Slots |-> IF threads[i] = t THEN NULL ELSE threads[i]]
        /\ quit' = [quit EXCEPT ![t] = TRUE]
     \/ /\ ~(nr[t] > min_idle_nr \/ quit[t])
        /\ WGoto(t, "decide", "outer")
        /\ UNCHANGED <<threads, quit>>
  /\ UNCHANGED <<quited, queue, got, caller, nr, destroyed>>

\* thread->quited = TRUE, and the entry returns.
Leave(t) ==
  /\ WGoto(t, "leaving", "done")
  /\ quited' = [quited EXCEPT ![t] = TRUE]
  /\ UNCHANGED <<threads, quit, queue, got, caller, nr, destroyed>>

WorkerStep(t) ==
  \/ Entry(t) \/ Outer(t) \/ Inner(t) \/ Recv(t) \/ RecvTimeout(t) \/ Exec(t)
  \/ OnIdle(t) \/ Decide(t) \/ Leave(t)

-----------------------------------------------------------------------------
(* A caller: action_thread_pool_exec. *)

InExec == {"ensure", "create", "full", "create_more", "send"} \cup Holding

\* A call of exec with a new action, while nobody destroys the pool.
ExecCall(c, j) ==
  /\ ~destroyed
  /\ \A d \in Callers : cpc[d] \in {"idle"} \cup InExec
  /\ j \notin Q!Owned
  /\ \A d \in Callers : arg[d] # j
  /\ CGoto(c, "idle", "ensure")
  /\ arg' = [arg EXCEPT ![c] = j]
  /\ UNCHANGED <<pool, worker, slot, made, nr, destroyed>>

\* action_thread_pool_ensure_threads reads the number of threads...
Ensure(c) ==
  /\ MutexFree
  /\ \/ ThreadNr < min_idle_nr /\ CGoto(c, "ensure", "create")
     \/ ThreadNr >= min_idle_nr /\ CGoto(c, "ensure", "full")
  /\ UNCHANGED <<pool, worker, arg, slot, made, nr, destroyed>>

\* action_thread_create_with_queue_ex: a zeroed thread object is started; its
\* entry may run from now on.
StartThread(t) ==
  /\ wpc[t] \in {"none", "done"} /\ t \notin Registered
  /\ wpc' = [wpc EXCEPT ![t] = "created"]
  /\ quit' = [quit EXCEPT ![t] = FALSE]
  /\ quited' = [quited EXCEPT ![t] = FALSE]
  /\ nr' = [nr EXCEPT ![t] = 0]

\* ... and action_thread_pool_create_thread takes the mutex and starts a new one
\* for the first free slot, if there is one (enter), or returns (to).
CreateThread(c, from, enter, to) ==
  /\ MutexFree
  /\ LET free == {i \in Slots : threads[i] = NULL} IN
     \/ /\ free = {}
        /\ CGoto(c, from, to)
        /\ UNCHANGED <<quit, quited, wpc, nr, slot, made>>
     \/ /\ free # {}
        /\ CGoto(c, from, enter)
        /\ slot' = [slot EXCEPT ![c] = CHOOSE i \in free : \A j \in free : i <= j]
        /\ \E t \in Workers : StartThread(t) /\ made' = [made EXCEPT ![c] = t]
  /\ UNCHANGED <<threads, queue, got, arg, destroyed>>

\* Only then it assigns thread_pool->threads[i] ...
EnterThread(c, from, to) ==
  /\ CGoto(c, from, to)
  /\ threads' = [threads EXCEPT ![slot[c]] = made[c]]
  /\ UNCHANGED <<quit, quited, worker, arg, slot, made, nr, destroyed>>

\* ... calls action_thread_set_on_idle, and unlocks the mutex.
SetOnIdle(c, from, to) ==
  /\ CGoto(c, from, to)
  /\ made' = [made EXCEPT ![c] = NULL]
  /\ UNCHANGED <<pool, worker, arg, slot, nr, destroyed>>

Create(c) ==
  \/ CreateThread(c, "create", "enter", "full")
  \/ EnterThread(c, "enter", "set_on_idle")
  \/ SetOnIdle(c, "set_on_idle", "full")

\* if (thread_pool->queue->queue->full), read without the queue's mutex.
TestFull(c) ==
  /\ \/ Len(queue) = QueueCapacity /\ CGoto(c, "full", "create_more")
     \/ Len(queue) < QueueCapacity /\ CGoto(c, "full", "send")
  /\ UNCHANGED <<pool, worker, arg, slot, made, nr, destroyed>>

CreateMore(c) ==
  \/ CreateThread(c, "create_more", "enter_more", "send")
  \/ EnterThread(c, "enter_more", "set_on_idle_more")
  \/ SetOnIdle(c, "set_on_idle_more", "send")

\* waitable_action_queue_send(thread_pool->queue, action, 1000)
Send(c) ==
  /\ CGoto(c, "send", "idle")
  /\ Q!Put(arg[c])
  /\ arg' = [arg EXCEPT ![c] = NULL]
  /\ UNCHANGED <<pool, wpc, slot, made, nr, destroyed>>

\* Mistaken: queues the action although there is no room.
SendTimeoutQueues(c) ==
  /\ Len(queue) = QueueCapacity
  /\ CGoto(c, "send", "idle")
  /\ queue' = Append(queue, arg[c])
  /\ arg' = [arg EXCEPT ![c] = NULL]
  /\ UNCHANGED <<pool, wpc, got, slot, made, nr, destroyed>>

SendTimeout(c) ==
  /\ Len(queue) = QueueCapacity
  /\ CGoto(c, "send", "idle")
  /\ arg' = [arg EXCEPT ![c] = NULL]
  /\ UNCHANGED <<pool, worker, slot, made, nr, destroyed>>

(* action_thread_pool_destroy, called when no caller is in exec *)

DestroyCall(c) ==
  /\ ~destroyed
  /\ \A d \in Callers : cpc[d] = "idle"
  /\ cpc' = [cpc EXCEPT ![c] = "slot"]
  /\ slot' = [slot EXCEPT ![c] = 1]
  /\ UNCHANGED <<pool, worker, arg, made, nr, destroyed>>

\* thread = thread_pool->threads[i], kept in arg[c].
DestroySlot(c) ==
  /\ cpc[c] = "slot"
  /\ slot[c] \in Slots
  /\ arg' = [arg EXCEPT ![c] = threads[slot[c]]]
  /\ cpc' = [cpc EXCEPT ![c] = IF threads[slot[c]] = NULL THEN "next" ELSE "quit"]
  /\ UNCHANGED <<pool, worker, slot, made, nr, destroyed>>

\* action_thread_quit does nothing to a thread that has quited, ...
SkipQuit(c) ==
  /\ CGoto(c, "quit", "join")
  /\ quited[arg[c]]
  /\ UNCHANGED <<pool, worker, arg, slot, made, nr, destroyed>>

\* ... and otherwise sets quit ...
SetQuit(c) ==
  /\ CGoto(c, "quit", "send_quit")
  /\ ~quited[arg[c]]
  /\ quit' = [quit EXCEPT ![arg[c]] = TRUE]
  /\ UNCHANGED <<threads, quited, worker, arg, slot, made, nr, destroyed>>

\* Mistaken: trusts the flag alone.
NoSendQuit(c) ==
  /\ CGoto(c, "send_quit", "join")
  /\ UNCHANGED <<pool, worker, arg, slot, made, nr, destroyed>>

\* ... and sends an action that returns RET_QUIT, for at most three seconds.
SendQuit(c) ==
  /\ CGoto(c, "send_quit", "join")
  /\ Q!Put(QuitAction(arg[c]))
  /\ UNCHANGED <<pool, wpc, arg, slot, made, nr, destroyed>>

SendQuitTimeout(c) ==
  /\ Len(queue) = QueueCapacity
  /\ CGoto(c, "send_quit", "join")
  /\ UNCHANGED <<pool, worker, arg, slot, made, nr, destroyed>>

\* Mistaken: does not wait for the thread.
NoJoin(c) ==
  /\ CGoto(c, "join", "next")
  /\ threads' = [threads EXCEPT ![slot[c]] = NULL]
  /\ UNCHANGED <<quit, quited, worker, arg, slot, made, nr, destroyed>>

\* tk_thread_join waits for the entry to return; the thread is freed and
\* thread_pool->threads[i] = NULL.
Join(c) ==
  /\ CGoto(c, "join", "next")
  /\ wpc[arg[c]] = "done"
  /\ threads' = [threads EXCEPT ![slot[c]] = NULL]
  /\ UNCHANGED <<quit, quited, worker, arg, slot, made, nr, destroyed>>

NextSlot(c) ==
  /\ CGoto(c, "next", "slot")
  /\ slot' = [slot EXCEPT ![c] = @ + 1]
  /\ arg' = [arg EXCEPT ![c] = NULL]
  /\ UNCHANGED <<pool, worker, made, nr, destroyed>>

\* The queue is destroyed with the actions that are still in it.
Free(c) ==
  /\ slot[c] \notin Slots
  /\ CGoto(c, "slot", "idle")
  /\ destroyed' = TRUE
  /\ queue' = <<>>
  /\ UNCHANGED <<pool, wpc, got, arg, slot, made, nr>>

CallerStep(c) ==
  \/ Ensure(c) \/ Create(c) \/ TestFull(c) \/ CreateMore(c) \/ Send(c) \/ SendTimeout(c)
  \/ DestroySlot(c) \/ SkipQuit(c) \/ SetQuit(c) \/ SendQuit(c) \/ SendQuitTimeout(c)
  \/ Join(c) \/ NextSlot(c) \/ Free(c)

Next ==
  \/ \E t \in Workers : WorkerStep(t)
  \/ \E c \in Callers : CallerStep(c) \/ DestroyCall(c) \/ \E j \in Jobs : ExecCall(c, j)

Spec == Init /\ [][Next]_vars

\* Every thread that can take a step eventually does (the platform schedules
\* it), actions return, and waits with a timeout end.  Nobody is obliged to
\* call exec or destroy.
Fairness ==
  /\ \A t \in Workers : WF_vars(WorkerStep(t))
  /\ \A c \in Callers : WF_vars(CallerStep(c))

FairSpec == Spec /\ Fairness

-----------------------------------------------------------------------------
(* Properties. *)

TypeOK ==
  /\ threads \in [Slots -> Workers \cup {NULL}]
  /\ quit \in [Workers -> BOOLEAN]
  /\ quited \in [Workers -> BOOLEAN]
  /\ wpc \in [Workers -> {"none", "created", "outer", "inner", "recv", "exec",
                          "on_idle", "decide", "leaving", "done"}]
  /\ nr \in [Workers -> 0..max_thread_nr]
  /\ queue \in Seq(Jobs \cup QuitActions) /\ Len(queue) <= QueueCapacity
  /\ got \in [Workers -> Jobs \cup QuitActions \cup {NULL}]
  /\ cpc \in [Callers -> InExec \cup {"idle", "slot", "quit", "send_quit", "join", "next"}]
  /\ arg \in [Callers -> Jobs \cup Workers \cup {NULL}]
  /\ slot \in [Callers -> 1..(max_thread_nr + 1)]
  /\ made \in [Callers -> Workers \cup {NULL}]
  /\ destroyed \in BOOLEAN

\* action_thread_pool_destroy frees the queue and the pool: no worker, not
\* even one that left the pool by itself and was never joined, still has to
\* use them.
NoUseAfterDestroy ==
  destroyed => \A t \in Workers : wpc[t] \in {"none", "leaving", "done"}

\* A worker that still receives actions is in the table of the pool, or the call
\* of exec that has started it still has to enter it; destroy, which begins when
\* no exec is in progress, finds it.  One that has cleared its slot takes no
\* further action.
OnlyRegisteredWork ==
  \A t \in Workers :
    \/ wpc[t] \in {"none", "leaving", "done"}
    \/ t \in Registered
    \/ \E c \in Callers : cpc[c] \in Entering /\ made[c] = t

\* action_thread_pool_destroy returns.
DestroyReturns == (\E c \in Callers : cpc[c] = "slot") ~> destroyed

\* A thread that an action has ended before it got its on_idle: it could not clear
\* its slot, and stands in the table for good.
DeadInTable == \E t \in Registered : wpc[t] = "done" /\ nr[t] = 0

\* An action that action_thread_pool_exec has queued may be left behind, because
\* the workers that were counted then all go on that same count.  As long as the
\* pool is used later calls make up for it: the action is executed, unless the
\* pool is destroyed or an action that returned RET_QUIT has left a dead thread
\* in the table.
QueuedIsExecuted ==
  []<>(\E c \in Callers : cpc[c] = "ensure") =>
    \A j \in Jobs : (\E i \in 1..Len(queue) : queue[i] = j)
                      ~> (destroyed \/ (\E t \in Workers : got[t] = j) \/ DeadInTable)

=============================================================================
