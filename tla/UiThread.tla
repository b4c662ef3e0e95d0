------------------------------- MODULE UiThread -------------------------------
(***************************************************************************)
(* Calls from background threads into the UI thread: the functions of the  *)
(* tk_run_in_ui_thread family (awtk_global.c) post a request to the event  *)
(* queue of the main loop (base/event_queue.c, main_loop_simple.c); the    *)
(* main loop turns it into an idle function (base/idle.c), and             *)
(* idle_manager_dispatch runs it.  The same queue carries input and other  *)
(* events, without end.  Application code that the main loop calls may run *)
(* a main loop of its own, in a modal dialog; the stack holds the main     *)
(* loops in progress.  After the outermost one tk_exit dispatches the idle *)
(* functions twice more.                                                   *)
(* The mutex of the queue makes a send and a receive one step each.  The   *)
(* fields of idle_callback_info_t are shared without any lock; each access *)
(* that the other side can see is a step.                                  *)
(*                                                                         *)
(* Each dispatch of the idle functions has a new number, dispatch_times.   *)
(* Only whether an idle function was last called by a dispatch that is     *)
(* still in progress matters; such a dispatch is named by its depth.       *)
(***************************************************************************)
EXTENDS Integers, Sequences

CONSTANTS
  Callers,       \* background threads
  Calls,         \* their calls, each made once at most
  CallsOf,       \* CallsOf[t]: those that thread t makes
  SyncCalls,     \* those with wait_until_done
  DestroyCalls,  \* those with an on_destroy function
  EnsureCalls,   \* those made through tk_run_in_ui_thread_ensure_queue_with_opt
  Events,        \* other events; bound: each is in the queue once at a time
  Local,         \* idle functions that code in the UI thread adds by idle_add
  Capacity,      \* MAIN_LOOP_QUEUE_SIZE
  MaxRetries,    \* timeout_ms / IDLE_QUEUE_RETRY_INTERVAL_MS
  MaxDepth,      \* bound: main loops inside each other
  NULL

ASSUME CallsAssumption ==
  /\ CallsOf \in [Callers -> SUBSET Calls]
  /\ SyncCalls \cup DestroyCalls \cup EnsureCalls \subseteq Calls
  /\ DestroyCalls \subseteq EnsureCalls
  /\ NULL \notin Calls /\ Calls \cap Local = {} /\ Events \cap (Calls \cup Local) = {}
ASSUME UiBoundsAssumption ==
  Capacity \in Nat \ {0, 1} /\ MaxRetries \in Nat /\ MaxDepth \in Nat \ {0}

VARIABLES
  queue,        \* loop->queue: requests to add an idle function, and events
  idles,        \* idle_manager->idles
  busy,         \* the idle functions with idle->busy
  dispatch_id,  \* idle->dispatch_id: depth of the dispatch that called it last, or 0
  stack,        \* the main loops in progress, innermost last
  quited,       \* the outermost main loop has ended, and tk_exit destroyed it
  cpc,          \* where a caller is
  call,         \* call[t]: the call that t makes
  retries,      \* retries[t]: retry_count
  info,         \* info[c]: whether the idle_callback_info_t of c is allocated
  done,         \* the calls with info->done
  result,       \* info->result; zeroed memory is RET_OK
  func_ret,     \* what func has returned last, "none" before
  returned,     \* what the caller has got, "none" before
  destroyed,    \* how often on_destroy has been called
  pending,      \* not in the code: the calls that the queue has taken and that
                \* have not been called, in the order in which it took them
  lost          \* not in the code: the calls whose requests tk_exit has
                \* destroyed with the queue; they stay in pending

ui == <<idles, busy, dispatch_id, stack, quited, lost>>
caller == <<cpc, call, retries>>
vars == <<ui, caller, queue, info, done, result, func_ret, returned, destroyed, pending>>

Idles == Calls \cup Local
Rets == {"RET_OK", "RET_FAIL"}

\* A main loop: where its step is ("exit" is the second dispatch of tk_exit),
\* whether it has received an event in this step, the idle function that runs,
\* and the code that runs: "other" is the handler of an event, the rest says how
\* far idle_func_of_callback is.
Frame == [phase : {"events", "idles", "exit"}, some : BOOLEAN, running : SUBSET Idles,
          at : {"-", "other", "func", "done", "result"}]
NewLoop == [phase |-> "events", some |-> FALSE, running |-> {}, at |-> "-"]

Depth == Len(stack)
Top == stack[Depth]
Listed == {idles[i] : i \in 1..Len(idles)}
Running == UNION {stack[k].running : k \in 1..Depth}
Pending == {pending[i] : i \in 1..Len(pending)}
Queued == {queue[i] : i \in 1..Len(queue)}

\* The sequence q when x has been taken out, if it is in q: slist_remove_ex
\* unlinks one item.
Without(q, x) ==
  IF \E k \in 1..Len(q) : q[k] = x
  THEN LET k == CHOOSE k \in 1..Len(q) : q[k] = x
       IN  SubSeq(q, 1, k - 1) \o SubSeq(q, k + 1, Len(q))
  ELSE q

\* The number of times on_destroy has been called when the idles S are freed,
\* or callers give the calls S up.
Destroys(S) == [c \in Calls |-> destroyed[c] + (IF c \in S \cap DestroyCalls THEN 1 ELSE 0)]

Init ==
  /\ queue = <<>> /\ idles = <<>> /\ busy = {}
  /\ dispatch_id = [i \in Idles |-> 0]
  /\ stack = <<NewLoop>> /\ quited = FALSE /\ lost = {}
  /\ cpc = [t \in Callers |-> "idle"]
  /\ call = [t \in Callers |-> NULL]
  /\ retries = [t \in Callers |-> 0]
  /\ info = [c \in Calls |-> "none"]
  /\ done = {}
  /\ result = [c \in Calls |-> "RET_OK"]
  /\ func_ret = [c \in Calls |-> "none"]
  /\ returned = [c \in Calls |-> "none"]
  /\ destroyed = [c \in Calls |-> 0]
  /\ pending = <<>>

-----------------------------------------------------------------------------
(* A background thread. *)

Call(t, c) ==
  /\ c \in CallsOf[t] /\ ~quited
  /\ cpc[t] = "idle"
  /\ info[c] = "none" /\ returned[c] = "none" /\ \A u \in Callers : call[u] # c
  /\ cpc' = [cpc EXCEPT ![t] = "queue"]
  /\ call' = [call EXCEPT ![t] = c]
  /\ UNCHANGED <<ui, queue, retries, info, done, result, func_ret, returned, destroyed, pending>>

Return(t, ret) ==
  /\ cpc' = [cpc EXCEPT ![t] = "idle"]
  /\ call' = [call EXCEPT ![t] = NULL]
  /\ returned' = [returned EXCEPT ![call[t]] = ret]
  /\ retries' = [retries EXCEPT ![t] = 0]

\* Mistaken: takes a full queue for an empty one.
CanSendMore == Len(queue) <= Capacity /\ ~quited

\* event_queue_send finds room.
CanSend == Len(queue) < Capacity /\ ~quited

\* idle_callback_info_create: zeroed memory.
InfoCreated(c) == done' = done

\* idle_func_queue: the request is queued; a synchronous call goes on to wait.
Queue(t) ==
  /\ cpc[t] = "queue"
  /\ CanSend
  /\ queue' = Append(queue, call[t])
  /\ pending' = Append(pending, call[t])
  /\ info' = [info EXCEPT ![call[t]] = "live"]
  /\ InfoCreated(call[t])
  /\ IF call[t] \in SyncCalls
     THEN /\ cpc' = [cpc EXCEPT ![t] = "wait"]
          /\ UNCHANGED <<call, retries, returned>>
     ELSE Return(t, "RET_OK")
  /\ UNCHANGED <<ui, result, func_ret, destroyed>>

\* tk_run_in_ui_thread finds the queue full (with assertions, idle_queue_impl
\* ends the program instead).
Refused(t) ==
  /\ cpc[t] = "queue"
  /\ ~CanSend
  /\ call[t] \notin EnsureCalls
  /\ Return(t, "RET_FAIL")
  /\ UNCHANGED <<ui, queue, info, done, result, func_ret, destroyed, pending>>

\* Mistaken: every attempt that fails destroys the context.
RetryDestroys(t) ==
  /\ cpc[t] = "queue"
  /\ ~CanSend
  /\ call[t] \in EnsureCalls /\ retries[t] < MaxRetries
  /\ retries' = [retries EXCEPT ![t] = @ + 1]
  /\ destroyed' = Destroys({call[t]})
  /\ UNCHANGED <<ui, queue, cpc, call, info, done, result, func_ret, returned, pending>>

\* tk_run_in_ui_thread_ensure_queue_with_opt sleeps and tries again...
Retry(t) ==
  /\ cpc[t] = "queue"
  /\ ~CanSend
  /\ call[t] \in EnsureCalls /\ retries[t] < MaxRetries
  /\ retries' = [retries EXCEPT ![t] = @ + 1]
  /\ UNCHANGED <<ui, queue, cpc, call, info, done, result, func_ret, returned, destroyed, pending>>

\* ... until it gives up.
GiveUp(t) ==
  /\ cpc[t] = "queue"
  /\ ~CanSend
  /\ call[t] \in EnsureCalls /\ retries[t] = MaxRetries
  /\ Return(t, "RET_TIMEOUT")
  /\ destroyed' = Destroys({call[t]})
  /\ UNCHANGED <<ui, queue, info, done, result, func_ret, pending>>

\* while (!(info->done)) sleep_ms(...)
SeeDone(t) ==
  /\ cpc[t] = "wait"
  /\ call[t] \in done
  /\ cpc' = [cpc EXCEPT ![t] = "read"]
  /\ UNCHANGED <<ui, queue, call, retries, info, done, result, func_ret, returned, destroyed, pending>>

\* ret.func_ret = info->result, kept in returned.
ReadResult(t) ==
  /\ cpc[t] = "read"
  /\ cpc' = [cpc EXCEPT ![t] = "free"]
  /\ returned' = [returned EXCEPT ![call[t]] = result[call[t]]]
  /\ UNCHANGED <<ui, queue, call, retries, info, done, result, func_ret, destroyed, pending>>

\* idle_callback_info_destroy(info), and the call returns.
FreeInfo(t) ==
  /\ cpc[t] = "free"
  /\ info' = [info EXCEPT ![call[t]] = "freed"]
  /\ Return(t, returned[call[t]])
  /\ UNCHANGED <<ui, queue, done, result, func_ret, destroyed, pending>>

CallerStep(t) ==
  \/ Queue(t) \/ Refused(t) \/ Retry(t) \/ GiveUp(t)
  \/ SeeDone(t) \/ ReadResult(t) \/ FreeInfo(t)

-----------------------------------------------------------------------------
(* The UI thread: main_loop_simple_run and its steps. *)

SetTop(f) == stack' = [stack EXCEPT ![Depth] = f]

\* A main loop between two steps, where it looks at quit_num.
AtLoopHead == stack # <<>> /\ Top = NewLoop

\* Code of the application runs.
InCallback == stack # <<>> /\ Top.at \in {"other", "func"}

\* The main loop looks at the time and at the queue.
Receiving == stack # <<>> /\ Top.phase = "events" /\ Top.at = "-"

\* Mistaken: puts the new idle function before the others.
LinkedFirst(i) == idles' = <<i>> \o idles

\* idle_manager_append
Linked(i) == idles' = Append(idles, i)

\* main_loop_dispatch_events: REQ_ADD_IDLE, then idle_add and
\* idle_set_on_destroy.
ReceiveRequest ==
  /\ Receiving
  /\ queue # <<>> /\ Head(queue) \in Calls
  /\ queue' = Tail(queue)
  /\ Linked(Head(queue))
  /\ SetTop([Top EXCEPT !.some = TRUE])
  /\ UNCHANGED <<busy, dispatch_id, quited, lost, caller, info, done, result, func_ret, returned,
                 destroyed, pending>>

\* main_loop_dispatch_events: any other event; its handler begins.  (The function
\* of a timer, called later in the step, can do what the handler of an event that
\* comes last can do.)
ReceiveEvent ==
  /\ Receiving
  /\ queue # <<>> /\ Head(queue) \in Events
  /\ queue' = Tail(queue)
  /\ SetTop([Top EXCEPT !.some = TRUE, !.at = "other"])
  /\ UNCHANGED <<idles, busy, dispatch_id, quited, lost, caller, info, done, result, func_ret, returned,
                 destroyed,
                 pending>>

\* Mistaken: receives events for as long as there are any.
EventsEndEmpty ==
  /\ Receiving
  /\ queue = <<>>
  /\ SetTop([Top EXCEPT !.phase = "idles", !.some = FALSE])
  /\ UNCHANGED <<queue, idles, busy, dispatch_id, quited, lost, caller, info, done, result, func_ret,
                 returned,
                 destroyed, pending>>

\* The queue is empty, or 20 ms have passed since the first event; the step
\* goes on to the idle functions.
EventsEnd ==
  /\ Receiving
  /\ queue = <<>> \/ Top.some
  /\ SetTop([Top EXCEPT !.phase = "idles", !.some = FALSE])
  /\ UNCHANGED <<queue, idles, busy, dispatch_id, quited, lost, caller, info, done, result, func_ret,
                 returned,
                 destroyed, pending>>

\* Mistaken: an idle function whose callback runs can be dispatched again.
AvailableBusy(i) == dispatch_id[i] # Depth

\* idle_info_is_available
Available(i) == i \notin busy /\ dispatch_id[i] # Depth

Dispatching == stack # <<>> /\ Top.phase # "events" /\ Top.at = "-" /\ Top.running = {}
Candidates == {k \in 1..Len(idles) : Available(idles[k])}
Chosen == idles[CHOOSE k \in Candidates : \A m \in Candidates : k <= m]

\* idle_manager_dispatch_one: the first that is available is called.
CallIdle(i) ==
  /\ Dispatching
  /\ Candidates # {}
  /\ i = Chosen
  /\ busy' = busy \cup {i}
  /\ dispatch_id' = [dispatch_id EXCEPT ![i] = Depth]
  /\ SetTop([Top EXCEPT !.running = {i}, !.at = "func"])
  /\ pending' = Without(pending, i)
  /\ UNCHANGED <<queue, idles, quited, lost, caller, info, done, result, func_ret, returned, destroyed>>

\* What is neither in the list lst nor referred to by a dispatch is freed, and
\* its on_destroy function called.
Free(lst, st) ==
  LET kept == {lst[i] : i \in 1..Len(lst)} \cup UNION {st[k].running : k \in 1..Len(st)}
      gone == (Listed \cup Running) \ kept IN
  /\ destroyed' = Destroys(gone)
  /\ dispatch_id' = [i \in Idles |-> IF i \in gone THEN 0 ELSE dispatch_id[i]]

Returned == [Top EXCEPT !.running = {}, !.at = "-"]

\* idle_info_on_idle returns RET_REPEAT: the idle function stays.
StaysInList(i) ==
  /\ Top.running = {i}
  /\ busy' = busy \ {i}
  /\ SetTop(Returned)
  /\ idles' = idles
  /\ Free(idles, stack')

\* idle_info_on_idle returns something else: the idle function goes.
LeavesList(i) ==
  /\ Top.running = {i}
  /\ busy' = busy \ {i}
  /\ SetTop(Returned)
  /\ idles' = Without(idles, i)
  /\ Free(idles', stack')

\* The callback of an idle function that the UI thread has added returns.
ReturnLocal(i) ==
  /\ InCallback
  /\ StaysInList(i) \/ LeavesList(i)
  /\ UNCHANGED <<queue, quited, lost, caller, info, done, result, func_ret, returned, pending>>

\* The handler of an event returns.
OtherReturns ==
  /\ stack # <<>> /\ Top.at = "other"
  /\ SetTop([Top EXCEPT !.at = "-"])
  /\ UNCHANGED <<queue, idles, busy, dispatch_id, quited, lost, caller, info, done, result, func_ret,
                 returned,
                 destroyed, pending>>

\* idle_func_of_callback, not sync: func returns RET_REPEAT...
Repeat(c) ==
  /\ InCallback
  /\ c \notin SyncCalls
  /\ StaysInList(c)
  /\ func_ret' = [func_ret EXCEPT ![c] = "RET_REPEAT"]
  /\ UNCHANGED <<queue, quited, lost, caller, info, done, result, returned, pending>>

\* ... or anything else: the UI thread frees the info.
Finish(c) ==
  /\ InCallback
  /\ c \notin SyncCalls
  /\ LeavesList(c)
  /\ func_ret' = [func_ret EXCEPT ![c] = "RET_OK"]
  /\ info' = [info EXCEPT ![c] = "freed"]
  /\ UNCHANGED <<queue, quited, lost, caller, done, result, returned, pending>>

\* sync: func returns, ...
FinishSync(c, ret) ==
  /\ InCallback
  /\ Top.running = {c} /\ c \in SyncCalls
  /\ func_ret' = [func_ret EXCEPT ![c] = ret]
  /\ SetTop([Top EXCEPT !.at = "done"])
  /\ UNCHANGED <<queue, idles, busy, dispatch_id, quited, lost, caller, info, done, result, returned,
                 destroyed,
                 pending>>

\* Mistaken: forgets to tell the caller.
SetDoneNever(c) ==
  /\ stack # <<>> /\ Top.at = "done" /\ Top.running = {c}
  /\ SetTop([Top EXCEPT !.at = "result"])
  /\ UNCHANGED <<queue, idles, busy, dispatch_id, quited, lost, caller, info, done, result, func_ret,
                 returned,
                 destroyed, pending>>

\* ... cinfo->done = TRUE, ...
SetDone(c) ==
  /\ stack # <<>> /\ Top.at = "done" /\ Top.running = {c}
  /\ done' = done \cup {c}
  /\ SetTop([Top EXCEPT !.at = "result"])
  /\ UNCHANGED <<queue, idles, busy, dispatch_id, quited, lost, caller, info, result, func_ret, returned,
                 destroyed,
                 pending>>

\* ... cinfo->result = ret, whether or not the caller has freed cinfo.
SetResult(c) ==
  /\ stack # <<>> /\ Top.at = "result"
  /\ LeavesList(c)
  /\ result' = [result EXCEPT ![c] = func_ret[c]]
  /\ UNCHANGED <<queue, quited, lost, caller, info, done, func_ret, returned, pending>>

\* idle_manager_dispatch ends, and with it the step; tk_deinit_internal closes
\* the windows and dispatches once more.
IdlesEnd ==
  /\ Dispatching /\ Top.phase = "idles"
  /\ Candidates = {}
  /\ SetTop(IF quited THEN [NewLoop EXCEPT !.phase = "exit"] ELSE NewLoop)
  /\ dispatch_id' = [i \in Idles |-> IF dispatch_id[i] = Depth THEN 0 ELSE dispatch_id[i]]
  /\ UNCHANGED <<queue, idles, busy, quited, lost, caller, info, done, result, func_ret, returned,
                 destroyed, pending>>

\* The callback opens a modal dialog: main_loop_run.
OpenLoop ==
  /\ InCallback
  /\ ~quited
  /\ Depth < MaxDepth
  /\ stack' = Append(stack, NewLoop)
  /\ UNCHANGED <<queue, idles, busy, dispatch_id, quited, lost, caller, info, done, result, func_ret,
                 returned,
                 destroyed, pending>>

\* The dialog has been quit.
CloseLoop ==
  /\ AtLoopHead
  /\ Depth > 1
  /\ stack' = SubSeq(stack, 1, Depth - 1)
  /\ UNCHANGED <<queue, idles, busy, dispatch_id, quited, lost, caller, info, done, result, func_ret,
                 returned,
                 destroyed, pending>>

\* idle_add and idle_remove by code that runs in a callback.
AddLocal(i) ==
  /\ InCallback
  /\ i \notin Listed \cup Running
  /\ Linked(i)
  /\ UNCHANGED <<queue, busy, dispatch_id, stack, quited, lost, caller, info, done, result, func_ret,
                 returned,
                 destroyed, pending>>

RemoveLocal(i) ==
  /\ InCallback
  /\ i \in Listed
  /\ idles' = Without(idles, i)
  /\ Free(idles', stack)
  /\ UNCHANGED <<queue, busy, stack, quited, lost, caller, info, done, result, func_ret, returned, pending>>

\* The outermost loop ends; tk_exit destroys the main loop, and its queue with
\* what is in it, and dispatches the idle functions.
Quit ==
  /\ AtLoopHead
  /\ Depth = 1 /\ ~quited
  /\ quited' = TRUE
  /\ queue' = <<>> /\ lost' = Queued \cap Calls
  /\ SetTop([NewLoop EXCEPT !.phase = "idles"])
  /\ UNCHANGED <<idles, busy, dispatch_id, caller, info, done, result, func_ret, returned, destroyed,
                 pending>>

\* idle_manager_destroy: on_destroy of what has stayed in the list is called.
Deinit ==
  /\ Dispatching /\ Top.phase = "exit" /\ Depth = 1 /\ quited
  /\ Candidates = {}
  /\ stack' = <<>>
  /\ idles' = <<>>
  /\ Free(<<>>, <<>>)
  /\ UNCHANGED <<queue, busy, quited, lost, caller, info, done, result, func_ret, returned, pending>>

-----------------------------------------------------------------------------
(* Other threads and drivers. *)

\* main_loop_queue_event
PostEvent(e) ==
  /\ CanSend
  /\ e \notin Queued
  /\ queue' = Append(queue, e)
  /\ UNCHANGED <<ui, caller, info, done, result, func_ret, returned, destroyed, pending>>

CallbackReturns ==
  \/ OtherReturns \/ \E i \in Local : ReturnLocal(i)
  \/ \E c \in Calls : Repeat(c) \/ Finish(c) \/ \E ret \in Rets : FinishSync(c, ret)

LoopStep ==
  \/ ReceiveRequest \/ ReceiveEvent \/ EventsEnd
  \/ (\E i \in Idles : CallIdle(i)) \/ IdlesEnd \/ Deinit
  \/ \E c \in Calls : SetDone(c) \/ SetResult(c)

Next ==
  \/ \E t \in Callers : CallerStep(t) \/ \E c \in Calls : Call(t, c)
  \/ LoopStep
  \/ CallbackReturns
  \/ OpenLoop
  \/ CloseLoop
  \/ \E i \in Local : AddLocal(i) \/ RemoveLocal(i)
  \/ Quit
  \/ \E e \in Events : PostEvent(e)

Spec == Init /\ [][Next]_vars

\* Threads inside a call go on, and so does the main loop; each callback
\* returns and each dialog is closed in the end, whatever code in the callback
\* and in other main loops does first.  Receiving events takes time: however
\* many come, 20 ms pass.
Fairness ==
  /\ \A t \in Callers : WF_vars(CallerStep(t))
  /\ WF_vars(LoopStep)
  /\ \A d \in 1..MaxDepth : SF_vars(Depth = d /\ EventsEnd)
  /\ \A d \in 1..MaxDepth : SF_vars(Depth = d /\ CallbackReturns)
  /\ \A d \in 2..MaxDepth : SF_vars(Depth = d /\ CloseLoop)

FairSpec == Spec /\ Fairness

-----------------------------------------------------------------------------
(* Properties. *)

\* In addition to the types: no idle function is in the list twice.
TypeOK ==
  /\ queue \in Seq(Calls \cup Events) /\ Len(queue) <= Capacity
  /\ idles \in Seq(Idles) /\ \A i, j \in 1..Len(idles) : i # j => idles[i] # idles[j]
  /\ busy \subseteq Idles
  /\ dispatch_id \in [Idles -> 0..MaxDepth]
  /\ stack \in Seq(Frame) /\ Depth <= MaxDepth
  /\ quited \in BOOLEAN
  /\ cpc \in [Callers -> {"idle", "queue", "wait", "read", "free"}]
  /\ call \in [Callers -> Calls \cup {NULL}]
  /\ retries \in [Callers -> 0..MaxRetries]
  /\ info \in [Calls -> {"none", "live", "freed"}]
  /\ done \subseteq SyncCalls
  /\ result \in [Calls -> Rets]
  /\ func_ret \in [Calls -> Rets \cup {"none", "RET_REPEAT"}]
  /\ returned \in [Calls -> Rets \cup {"none", "RET_TIMEOUT"}]
  /\ destroyed \in [Calls -> Nat]
  /\ pending \in Seq(Calls)
  /\ lost \subseteq Calls

\* An idle function never runs inside itself, although the main loop of a
\* dialog it has opened dispatches the idle functions again: busy is set
\* exactly for those that run, and each runs in one place.
NoReentry ==
  /\ \A k, m \in 1..Depth : k # m => stack[k].running \cap stack[m].running = {}
  /\ busy = Running

\* The functions are first called in the order in which the queue has taken
\* them, through the queue, the idle list and the main loops of dialogs.
OrderKept ==
  [][\A c \in Pending : CallIdle(c) => c = Head(pending)]_vars

\* on_destroy is called at most once, by the UI thread or by the caller who
\* gives up, and after that func is not called any more.
DestroyOnce ==
  \A c \in DestroyCalls : destroyed[c] # 0 =>
    destroyed[c] = 1 /\ c \notin Queued \cup Listed \cup Running

\* A call that waits comes back only after its function has ended.
SyncWaits ==
  \A t \in Callers : cpc[t] \in {"read", "free"} => func_ret[call[t]] # "none"

\* idle_manager_dispatch goes on as long as an idle function is left that it has
\* not called, those that idle functions add meanwhile included.
DispatchesEnd ==
  \A d \in 1..MaxDepth : []<>(Depth < d \/ stack[d].phase = "events")

\* A function whose request was queued is called, however many events come,
\* unless tk_exit finds the request still in the queue.  A dispatch in which idle
\* functions add idle functions for ever would keep it from being called.
AcceptedIsCalled ==
  DispatchesEnd =>
    \A c \in Calls : c \in Queued ~> (func_ret[c] # "none" \/ c \in Running \/ c \in lost)

\* A call that waits comes back, on the same conditions.
SyncReturns ==
  DispatchesEnd =>
    \A c \in SyncCalls :
      (\E t \in Callers : call[t] = c /\ cpc[t] = "wait") ~> (info[c] = "freed" \/ c \in lost)

\* A call that waits returns what its function has returned.
ReturnsResult ==
  \A t \in Callers : cpc[t] = "free" => returned[call[t]] = func_ret[call[t]]

=============================================================================
