# A TLA+ model of the core of AWTK

AWTK is a GUI toolkit in C. This directory holds TLA+ specifications of the
parts of it whose correctness depends on order: threads that share a queue,
callbacks that re-enter the code that calls them, frames that are lost on a
line, and clocks that move while they are compared. Paths below are relative to
the repository; `tkc/x.c` is short for `src/tkc/x.c`.

The modules are written by hand from the C code. `PROJECT.json` names, for each
definition, the lines it stands for.

## 1. The system

### Parts, their state, and how they interact

| part | state | operations | used by |
|---|---|---|---|
| action queue, waitable action queue (`tkc/action_queue.c`, `tkc/waitable_action_queue.c`) | a ring of pointers (`r`, `w`, `full`), a mutex, two counting semaphores | create, send, recv, destroy | threads, pool |
| action thread (`tkc/action_thread.c`) | flags `quit`, `quited`; its queue | entry loop, exec, quit, destroy | pool, application |
| action thread pool (`tkc/action_thread_pool.c`) | table of threads, mutex, shared queue | exec, on_thread_idle, destroy | async calls, application |
| emitter (`tkc/emitter.c`) | linked list of handlers, each with `working` and `pending_remove`; `disable` count | on, off (by id, tag, ctx, function), enable, disable, dispatch | every widget and object |
| timers (`tkc/timer_manager.c`, `tkc/timer_info.c`, `base/timer.c`) | list of timers with `start`, `duration`, `now`, `busy`, `suspend` | add, remove, reset, suspend, resume, modify, dispatch, next_time | main loop, widgets, animations |
| idle functions (`tkc/idle_manager.c`, `tkc/idle_info.c`) | list of functions, each with `busy` and the number of the dispatch that called it last | add, remove, dispatch | main loop, calls from threads, window manager |
| calls into the UI thread (`awtk_global.c`, `base/idle.c`) | one `idle_callback_info_t` per call, shared by two threads without a lock | `tk_run_in_ui_thread` and its variants that retry | application threads |
| event sources (`tkc/event_source_manager*.c`) | list of sources, shared array of sources being dispatched | add, remove, prepare, dispatch, wakeup time | main loop |
| main loop and event queue (`main_loop/main_loop_simple.c`, `base/event_queue.c`) | ring of events, pointer and key state, quit counters | queue_event from any thread, step, run, quit | everything |
| SHDLC streams (`streams/shdlc/`) | sequence numbers of both directions, a ring buffer | write (send, wait for the ACK, resend), read | remote UI, services |
| services and clients (`service/`) | one stream, one request at a time | send_req, read_resp, dispatch, notifications | remote UI, debugger |
| objects (`tkc/object.c`) | reference count, properties | ref, unref, set_prop | everything |
| modal dialogs (`base/dialog.c`, `base/main_loop.c`) | `quit_num` of the main loop and what each dialog has put aside of it, `quited`, the stage of the window | `dialog_modal`, `dialog_quit`, `tk_quit` | application |
| widgets, windows (`base/widget.c`, `window_manager/`) | tree, focus, grab, window animation | open, close, dispatch of input | application |
| images, fonts, assets (`base/image_manager.c`, `base/assets_manager.c`) | caches with reference counts | get, unref, eviction | widgets |
| allocators (`tkc/mem*.c`) | free lists | alloc, realloc, free | everything |
| fscript, conf_io, ubjson, xml, csv, UI loader, layouters, lcd, vgcanvas | data | parse, write, draw | application |

One thread runs the main loop. It dispatches events, timers, idle functions and
event sources one after the other; each of them calls application code, and that
code may do anything to the list being walked, or open a modal dialog, which
runs the main loop again inside the callback. Other threads reach the main loop
through its event queue, and do their own work through action threads and pools.

### What is hard here

- *Threads*: a semaphore is taken, then a mutex; a table is counted under a
  mutex and used without it; two flags are shared without any lock
  (`action_thread.c:31`, `action_thread_pool.c:90`, `:136`).
- *Re-entrance*: a handler removes itself, its neighbours, or dispatches again
  (`emitter.c`), a timer's callback dispatches the timers (`timer_manager.c`).
- *Stale values*: the time of a dispatch is read once and compared with times
  that callbacks have set since; a timer is removed by its id after its callback;
  the set of readable descriptors is older than the walk that uses it.
- *Nested main loops*: a modal dialog runs the main loop again, inside an idle
  function, a timer or an event source. Timers, idle functions, event sources
  and the counter of quits are shared by all the loops in progress.
- *Unreliable delivery*: frames and answers of SHDLC are lost, damaged, late or
  repeated; a write that gave up may have been delivered.
- *Boundaries*: `r == w` is both empty and full; sequence numbers have three
  bits; times have 32 bits in some places and 64 in others.

`PROJECT.json` lists these under `hazards`, each at its line.

### What makes each part correct

- Queue: the assertion in `send` never fails; no token and no slot is lost; an
  action has one owner; actions leave in the order in which they came; no
  wake-up is lost.
- Pool: what `exec` has queued is executed; `destroy` returns, and frees nothing
  that a thread still uses.
- Emitter: a dispatch never follows a freed pointer; it calls exactly the
  handlers that were registered when it began and are still there; a removal
  that was put off is carried out.
- Timers: a callback is not re-entered; no timer runs early; periods are kept;
  a dispatch ends; the wake-up time is the earliest deadline.
- SHDLC: payloads arrive in order and once; a write that reports success has
  delivered; a write returns.
- Calls into the UI thread: the functions are called in order, those that wait
  come back, and only after their function; `on_destroy` is called once.
- Modal dialogs: a quit out of turn is refused; each quit ends the loop it is
  for; the program ends only when it has been quit; the innermost dialog can
  be quit.
- Event sources: a source is not freed while it is used, is not called without
  data, and is called when it has data.

## 2. The modules

| module | models | status |
|---|---|---|
| `BoundedQueue` | abstract: an atomic bounded FIFO (`Put`, `Get`, `Release`, `Clear`) | used by two modules |
| `WaitableActionQueue` | the ring, mutex and semaphores, step by step | checked, proved |
| `ActionThreadPool` | pool and worker threads over `BoundedQueue` | checked, safety proved |
| `Emitter` | `emitter_dispatch` and all that changes the list | checked, proved |
| `OrderedStream` | abstract: what arrives is a subsequence of what was written | used by `Shdlc` |
| `Shdlc` | both peers' write and read, and the line | checked, safety proved |
| `TimerManager` | the timers, the clock, nested dispatches | checked, safety proved |
| `UiThread` | calls from threads through the event queue and the idle functions, nested main loops | checked, safety proved |
| `ModalDialogs` | modal dialogs, their loops and the window manager's idle functions | checked, safety proved |
| `EventSources` | the manager's arrays and nested dispatches | checked, safety proved |
| `..._proofs` | theorems about the module they are named after | |
| `MC...` | constants and symmetry for TLC | |

`ActionThreadPool` is modelled over the abstract queue that `WaitableActionQueue`
implements. `TimerManager`, the idle functions of `UiThread`, `EventSources` and
`ModalDialogs` are four views of one main loop: each has the stack of nested
loops or dispatches, one frame for each that is in progress, and one of the
things that the loops share; in each the callbacks of the other three are part
of what the application may do at any time.

**WaitableActionQueue.** Each of the platform calls that another thread can see
is a step: the semaphore wait, the lock, the operation on the ring (under the
mutex, so one step), the post, the unlock. `pc[t]` says where a thread is;
`held[t]` is the action it sends or has received. A timed wait fails only while
the semaphore is zero. A thread may both send and receive. `live`, the set of
allocated actions, makes ownership visible: `Destroy` destroys what the slots
point to, as `action_queue_destroy` does.

**ActionThreadPool.** A worker goes through the two loops of
`action_thread_entry`; every read and write of `quit` and `quited` is a step of
its own. A caller goes through `exec` or `destroy`. The loops over `threads[]`
are one step each: they run under the mutex, and workers only clear slots
concurrently. The queue is `BoundedQueue`, which `WaitableActionQueue` is shown
to implement (`FIFO`). That its guards never keep a caller or a worker from what
the code lets them do is `QueueNeverRefuses`. A new worker is started, entered in
`threads[]` and given its `on_idle` in three steps (`CreateThread`,
`EnterThread`, `SetOnIdle`), all under the mutex; `made[c]` is the worker that
`c` has started and not yet given its callback. The worker runs meanwhile: it may
execute actions before it is in the table, and until it has a callback an idle
one only loops. `QuitJobs` are actions of the application that return
`RET_QUIT`, as those of `tkc/async.c` may; like a quit action they end the worker
that executes them.

**Emitter.** The list is a set of items with, for each, the set of items after
it. `stack` holds the `emitter_dispatch` frames whose handler is running, with
`iter`, `is_working` and the type; `due` is added: the calls the dispatch still
owes. Any operation may come between the call of a handler and its return.

**Shdlc.** `line[p]` holds the frames on their way to peer `p`. A frame is its
kind, its sequence number and the number of its write call. A peer takes a frame
and does what the code does with it (send the ACK, save, discard, count a retry)
in one step. `Faults` says what the line does: lose or damage frames, be late
(a read times out), fail to write a frame while it is still OK, break for good.
A frame that is damaged is found out by its checksum, unless its type has become
that of an answer: those are accepted unchecked (`Damaged`). The bytes of a
frame, compression and the properties of the streams are left out, and the seqno
of an answer too, which no code reads.

**UiThread.** `event_queue_send` and the receive of an event are under the
queue's mutex and one step each. `info[c]`, `done` and `result[c]` are the fields
of `idle_callback_info_t` that both threads use; each access is a step, in the
code's order. `stack` holds the main loops in progress; the phase of a frame says
whether its step dispatches events or idle functions, and `at` what runs: the
handler of an event (`"other"`), the function of an idle function, or how far
`idle_func_of_callback` has come. Both handlers and functions may open a dialog
and add or remove idle functions; what the function of a timer does, a handler of
the last event could do, so timers have no steps of their own here.
`dispatch_times`, a counter, is replaced by the depth of the dispatch that called
the idle function last: a number is only ever compared with that of the innermost
dispatch. After the outermost loop `tk_exit` destroys the queue (`Quit`), and
`tk_deinit_internal` dispatches the idle functions, dispatches them once more and
frees those that are left (`Deinit`). `pending` is added: the calls accepted and
not made yet, for `OrderKept`; and `lost`, those whose request went with the
queue.

**ModalDialogs.** A frame of `stack` is a loop, of a dialog or of `tk_run`.
`under[d]` is the order of the window manager's children; `idles` holds the idle
functions that open, close and destroy dialogs. A step of a loop calls all idle
functions before it goes on to the timers, which is where
`tk_quit_in_timer` runs. Any callback may call `dialog_quit` for any dialog, and
`tk_quit` once, at any time; what `dialog_quit` refuses is what the code refuses.
`early` is added: the loops that were quit out of turn, that is, while a loop
inside them had not been quit (`InTurn`).

**EventSources.** `dispatching` is the one array that all dispatches share;
`refs` counts references. A frame has the index `i` and the set `fdsr` that
`select` returned. `Remove` takes a set of sources, since the removal by tag
takes all that share it; data arrives (`Arrive`) at any time. A source may be
removed and added again while dispatches refer to it; a source is not added while
it is registered, which `event_source_manager_add` would accept. `ran` is added:
whether a dispatch has come and gone inside the one that a source is in.

**TimerManager.** `info` holds the fields of each `timer_info_t`; memory that is
neither in the list nor referred to by a dispatch is zeroed and can be used
again. Differences of times are taken modulo `Wrap`, 2^32 in the code.

## 3. Runs

| run | what it checks | instance |
|---|---|---|
| `waq` | assertion, tokens, ownership, FIFO refinement, no lost wake-up | 2 slots, 3 threads (one sends, one receives, one does both), 4 actions |
| `pool_safety` | destroy frees nothing in use; workers work between their entry in the table and their leaving it; queued actions are executed while the pool is used | 2 slots, 1 thread kept, queue of 2, 2 worker objects, 1 caller, 3 actions, one of which ends its worker |
| `pool_single_liveness` | destroy returns | 1 slot, queue of 3, 2 worker objects, 2 callers, 2 actions, one of which ends its worker |
| `pool_destroy_hangs` | *violation*: destroy waits for ever | 2 slots, `min_idle_nr` 2 |
| `emitter_safety` | no dangling frame, delayed removals, exact dispatch | 4 items, 2 types, 2 tags, 3 nested dispatches |
| `shdlc` | order, no duplicates, write returns | 3 writes against 1, sequence numbers modulo 2, ring buffer of 1, 2 retries, all faults but damaged answers |
| `shdlc_stale_ack` | *violation*: a reported payload is lost | 2 writes one way, damaged frames and answers only |
| `timer_safety` | no re-entry, wake-up time, periods, a dispatch ends | 2 timers, durations 0 and 2, nested dispatch, clock up to 3 |
| `ui_thread` | order of the calls, waiting calls, `on_destroy`, nested loops, `tk_exit` | 2 threads, one call that waits and one that does not, an event that comes again and again, queue of 2, one dialog inside a callback, 2 idle functions of the application |
| `ui_thread_result` | *violation*: the caller gets another result than its function's | the same |
| `modal_dialogs` | quits out of turn are refused, each quit ends its loop, dialogs can be quit, `dialog_modal` returns | 3 dialogs, opened again and again, any quits |
| `event_sources` | references, no use after free, no call without data, no source forgotten | 2 sources with a descriptor and 1 without, 2 registered at a time, dispatches 2 deep |

Each property has a mutant: an operator next to the definition it replaces (its
comment begins with "Mistaken:") that changes it as a plausible bug would, and
under which TLC finds the property violated.

### Bounds, and why they are enough

- Queue: two slots make the ring empty, half full and full, and wrap; three
  threads let one overtake another between its wait and its lock. The theorems
  remove the bound for all but `QueuedIsReceived`.
- Pool: two slots and a queue of two reach the full queue, the extra thread, two
  workers that leave on one count, and their replacement in the same slots; the
  memory of a thread that has ended is used for the next. A second caller adds
  nothing to `pool_safety` that one does not reach but two creators, which the
  mutex excludes; `pool_single_liveness` has two. The pool's real queue holds
  five times as many actions as the pool has threads. `pool_single_liveness` has a
  queue in which the quit action finds room: after a drop destroy depends on the
  flag alone, which the entry may overwrite.
- Emitter: four items are an item before, at, and after the walk, and one that
  is registered meanwhile in memory that may just have been freed. Three nested
  dispatches are needed for a frame between the one that works on an item and
  the one that removes it.
- SHDLC: modulo 2 is the smallest number of sequence numbers that tells a
  retransmission from the next frame, so every reuse of a number comes early;
  with three writes a number is used again. Damaged answers are left to
  `shdlc_stale_ack`: to a waiting writer a damaged answer is a missing one that
  is noticed at once, and a reader answers it as it answers a timeout.
- Timers: duration 0 is special in `timer_manager_add`; duration 2 lets the
  clock stop before, at and after a deadline. The clock stays below `Wrap`, so
  this is the behaviour in the first 49.7 days of uptime.
- UI thread: a queue of two is empty, partly filled and full with two calls and
  the event, which is in the queue once at a time and without end; one dialog
  inside a callback has an idle function of the outer loop in the list that the
  inner loop walks. The idle functions `l1` and `l2` stand for those of the
  application: they come, go, repeat, and can add each other for ever. Each
  thread makes one call.
- Dialogs: three nested dialogs are the least in which one lies between the one
  that is quit and the innermost; all orders of opening and quitting occur, and
  memory of a destroyed dialog is used again. `tk_quit` is called once, since a
  second one is a quit of nothing.
- Event sources: two descriptors let one be read by a nested dispatch while the
  outer one still has it in `fdsr`; two nested dispatches share the array. With
  two of three registered at a time (`MaxSources`) each is at some time first,
  last, removed, and replaced.

Deadlock is not checked where the model stops for its bounds or because the
program ends: when all worker objects or all write calls are used up, and after
`tk_exit` or the end of `tk_run`.

### Fairness

- Queue: a thread inside a call goes on with it (the platform schedules runnable
  threads); a thread that only receives calls `recv` again and again, which is
  the loop of `action_thread_entry`. Nothing obliges a thread to send, to time
  out or to destroy the queue.
- Pool: workers and callers inside a call go on, actions return, waits with a
  timeout end. Nobody is obliged to call `exec` or `destroy`.
- SHDLC: a thread inside `write` or `read` goes on, and the application reads
  again and again. Nothing is assumed of the line: it may lose every frame.
- Timers: a dispatch goes on, and callbacks return at each depth of dispatches,
  whatever they do before. (Strong fairness: the return is not possible while a
  dispatch inside the callback is in progress.)
- UI thread: threads inside a call and the main loop go on; each callback returns
  and each dialog inside one is closed in the end. Receiving an event takes time,
  so that however many come, the 20 ms of `main_loop_dispatch_events` pass
  (strong fairness of `EventsEnd` at each depth: a dialog in a handler suspends
  it). Nobody is obliged to call anything, or to quit. `AcceptedIsCalled` and
  `SyncReturns` have a premise besides, `DispatchesEnd`, which the code does not
  guarantee: see section 5.
- Dialogs: the main loop goes on. Nobody is obliged to quit a dialog.
- Event sources: the main loop dispatches again and again, a dispatch goes on,
  and the dispatch of a source returns, as for timers.

## 4. Proofs

Every invariant and every safety property of a step that a run checks is also a
theorem, for every value of the constants that the named assumptions allow. The
liveness properties are only model-checked.

`WaitableActionQueue_proofs` proves, for every capacity greater than one and all
finite sets of threads (the assumptions `CapacityAssumption`,
`ThreadsAssumption` and `NULLAssumption`; the first is the test in
`action_queue_create`, which computes the size in 16 bits: `SizeAssumption` says
that it does not overflow, and no proof uses it):

- `TypeCorrect`: `Spec => []TypeOK`;
- `Invariance`: the inductive invariant below holds always;
- `SendAssertCorrect`: the assertion in `waitable_action_queue_send` holds;
- `RecvTokenCorrect`: a receiver with a token comes back with an action;
- `TokensCorrect`: the semaphores account for every slot.

`SendAssertHolds` is not inductive: that the ring has room when a sender reaches
it depends on what all the threads between a wait and a post have claimed. The
invariant adds (1) the mutex: a thread at one of the labels between lock and
unlock is the one that holds it; (2) the ring: `full` implies `r = w`, and a slot
holds an action exactly if it lies among the `Count` slots from `r` on; (3) the
tokens: `TokensAccountForSlots`; (4) a sender holds its
action until the ring has taken it. From (3), a sender at the ring is counted in
`Capacity`, so `Count` is below `Capacity` and there is room; likewise for a
receiver. Lemmas about cardinality say how a move of one thread changes the number of threads at
a set of labels, and lemmas about the ring say how `Count` changes.

The second part goes on from that invariant:

- `ActionsHaveOneOwner`: `Spec => []OneOwner`;
- `ImplementsBoundedQueue`: `Spec => FIFO`, the specification of `BoundedQueue`
  under the mapping that reads `r`, `w` and `full` as a sequence.

A step on the ring appends to that sequence (`RingPut`) or takes its head
(`RingGet`), because a thread with a token finds what it was promised. The
abstract `Put` needs an action that is not queued yet: this is `OneOwner`, which
is inductive together with what `held` and `ret` mean at each label (`Hands`).

`Emitter_proofs` proves all four invariants of `emitter_safety`
(`TypeCorrect`, `FramesAreInTheList`, `PutOffRemovalsHaveFrames`,
`DispatchesAreExact`) for any items, types, tags and bounds (`DomainAssumption`,
`BoundsAssumption`). None is inductive alone. The invariant says that `rest` is a
strict order in which every set of items has a first one (`ListOrder`); that
`working` is set exactly for the items of frames, and `is_working` of a frame
exactly when a frame below it has the same item (`FramesOK`); and that an item
with `pending_remove` works (`PutOff`). So the frame that clears `working` is the
outermost one of its item, and what is unlinked has no frame.

`ActionThreadPool_proofs` is for any number of slots, workers and callers.

- `WorkersAreRegistered` and `NothingIsUsedAfterDestroy`: a worker that has not
  decided to leave is in the table, or the caller that has started it holds the
  mutex and enters it next; the slot it is to enter stays free, because nobody
  else fills slots meanwhile. While one caller destroys the pool no other is in
  it (`Alone`, the precondition of destroy), so no worker is still to be entered;
  the slots that destroy has passed are empty and stay so (`Emptied`). The flags,
  which the code shares without a lock, are arbitrary in this argument: they
  decide whether destroy returns, not what it leaves.
- `TypeCorrect` and `UsesBoundedQueue`: only a worker that executes holds an
  action (`Hands`), so each step of the pool is a step of the abstract queue or
  leaves it alone. Together with `ImplementsBoundedQueue` this joins the two
  levels.
- `QueueNeverRefuses`: a `Put` of the abstract queue wants an action that is not
  queued, a `Get` an empty hand. The code does not ask. The theorem shows that
  nothing is lost by it: what is sent is always new and who receives holds
  nothing. A quit action is sent once for each worker, because a worker object
  enters the table once and destroy takes it out of the table after it has sent
  the action (`Fresh`; quit actions are objects of their own,
  `ActionsAssumption`).

`TimerManager_proofs` is for any timers, durations and times.

- `CallbacksDoNotNest`: `busy` is set exactly for what the frames refer to, and
  each frame refers to something else. Neither the list nor the clock plays a
  part.
- `TypeCorrect`: a timer is in the list once, and no two in the list have the
  same id (`ListOK`).
- `PeriodKept`: `start` is never later than the clock, and the last call of a
  timer that is not busy never later than its `start` (`TimesOK`), so that a
  timer is due a whole duration after its last call at the earliest. A
  difference taken modulo `Wrap` is no larger than the difference itself
  (`Remainder`), so this holds after a wrap too.
- `NextTimeIsEarliest`, assuming `ShortDurations`: a duration and the horizon of
  `timer_manager_next_time` (0xffff ms) together stay below `Wrap`, that is,
  durations are below 49.7 days less a minute. With longer ones a difference
  may wrap, and the earliest deadline is overlooked.

`UiThread_proofs` is for any threads, calls, idle functions, capacity of the
queue and depth of main loops, in three layers.

- `IdlesDoNotNest` and `WaitsForFunc` rest on the frames alone: `busy` is what
  they run, `done` is set only in a frame that has gone past `func`, and a caller
  goes on only when `done` is set. No run checks `WaitsForFunc`.
- `TypeCorrect`, `DestroyedOnce` and `CalledInOrder` need to know where the calls
  are (`FullInv`): nothing is in the queue or the idle list twice or in both
  (`Lists`); after `tk_exit` the queue is empty, and what was in it is in no list
  (`LostOK`); the calls to come stand in the list and then the queue in the order
  in which they came, or are lost, behind all that are not; none of them is busy
  or marked by a dispatch, so that the first of them is the first that is
  available (`InOrder`); a call is nowhere before its request is queued and
  nowhere after `on_destroy` (`Life`).
- `NoRequestIsLost` and `OnlyTheResultIsLate` are about the memory that two
  threads share (`Told`): a call that is waited for is in the queue or the list,
  runs, is done, or was lost when `tk_exit` destroyed the queue; and while the UI
  thread uses a call its `idle_callback_info_t` is
  allocated, except after `done` is set. The write that `ui_thread_result` is
  about is therefore the only one that may come too late. No run checks these
  two; they are the safety half of `SyncReturns` and the reverse of the finding.

`EventSources_proofs` is for any sources and any nesting of main loops.

- `TypeCorrect`: the references of a source are those of the two arrays, and the
  manager's array holds each source once (`ArraysOK`), whatever callbacks remove.
- `UsedSourcesLive`: a source whose dispatch runs is in `dispatching_sources`, and
  so referred to, until a dispatch inside its own has ended (`NestOK`); after that
  only the manager's array keeps it, as long as nobody removes it. The exception
  is what the code does; see section 5.
- `OutermostCallsWithData`: the outermost dispatch walks over each source once,
  and data that `select` has found is read by that source's own call or by a
  nested dispatch, which leaves nothing ahead of the outer walk (`WalkOK`).

`ModalDialogs_proofs` is for any dialogs and any application: it may quit what it
likes, when it likes. It proves `TypeCorrect`, `QuitsReachTheirLoop`,
`OutOfTurnIsRefused`, `EndsWhenQuit` and `InnermostCanBeQuit`. As long as nothing
has been quit out of turn, that a quit is for the innermost loop that has not
been quit follows from what `is_dialog_opened` accepts, and that depends on
stages which change later, in idle functions. The invariant says that a dialog
which is not hidden has above it only dialogs that have been quit or still wait
to be opened (`HiddenBelow`), that these idle functions are called in the order
of the dialogs (`OpenInOrder`), and what waits for which window (`IdleStage`,
`IdleOrder`). After a quit out of turn the quits no longer stand where their
loops are, but none is made up: `Owed` counts them, and therefore the outermost
loop still needs the one of `tk_quit`.

`Shdlc_proofs` proves `TypeCorrect` and `ArriveInOrder`, that `Shdlc` implements
`OrderedStream`, for any two peers, any number of sequence numbers from two on
(`SeqAssumption`), any bounds (`BoundsAssumption`) and any set of faults. The
invariant speaks of one direction at a time (`Direction`): along what a peer has
been given and what is on its way to it payloads never go back, frames of one
payload have one sequence number, that of the last payload saved is
`last_seqno`, and that of the call in progress is `seqno`. A frame that is not
discarded as a duplicate therefore belongs to a later call than all that were
saved. The answers play no part in this: an ACK for another frame ends a write
call early, which loses a payload (`shdlc_stale_ack`) but never repeats one or
changes the order. What keeps the order is that the line does not reorder
frames (a serial line or TCP), which the model has in common with the code.

Only model-checked are the liveness properties: `QueuedIsReceived`,
`DestroyReturns`, `QueuedIsExecuted`, `WriteReturns`, `DispatchEnds`,
`AcceptedIsCalled`, `SyncReturns`, `QuitReturns` and `ReadableIsCalled`. They
rest on fairness, and so on `ENABLED`, which the proof system does not handle.

Two notes on how the proofs are done. The removal of an item from a list,
`Without`, is a recursive function or is put together with `SubSeq`: the provers
do not look into an operator that is passed as an argument, as `SelectSeq` wants
it. For the same reason induction over a list is not available; where it is
needed (`FilterIs`, `RecursionExists`) the set of places where a claim fails has
a least element, which is shown not to exist (`NoFirstFailure`, from
`WFMin` of the library). These lemmas are repeated in `TimerManager_proofs` and
`EventSources_proofs`, which have no module in common.

## 5. What the runs found

Each of these is a run that ends in a counterexample, and an entry under
`findings` with the line of the code and of the text it disagrees with.

- `action_thread_pool_destroy` may wait for ever (`pool_destroy_hangs`). A thread
  that is scheduled late overwrites the `quit` flag that destroy has set, and
  another thread takes its quit action from the shared queue.
- SHDLC does not look at the sequence number of an ACK and acknowledges a
  duplicate twice; the surplus ACK is accepted for the next frame
  (`shdlc_stale_ack`).
- `tk_run_in_ui_thread` returns `RET_OK` for a function that has failed
  (`ui_thread_result`): `done` is written before `result`, and a caller that
  looks in between reads a result of zero, and frees the memory that the UI
  thread then writes to.

Further observations, which TLC shows when the constants named are used, or
which follow from the definitions named:

- An action for which `action_thread_pool_exec` returned `RET_OK` may stay in
  the queue until the next `exec`, because the workers it counted were about to
  leave: `QueuedIsExecuted` fails in `pool_safety` without its premise that
  `exec` is called again and again.
- An action that returns `RET_QUIT` ends its worker. If the worker executes it
  before `action_thread_set_on_idle`, nobody clears its slot: the dead thread
  stays in the table, `exec` counts it, and a pool of one slot executes nothing
  any more. This is `DeadInTable`, the exception of `QueuedIsExecuted`.
- `action_thread_pool_on_thread_idle` compares a count it read before the mutex
  was released, so two workers leave where one should (`Decide`); this is how
  the stuck action above comes about.
- A handler that has been turned off while it runs is called again by a nested
  dispatch of the same event (2 items, `MaxDepth = 2`): the walk does not look
  at `pending_remove`.
- SHDLC acknowledges a data frame before it knows that the ring buffer has room
  (`Save`): with `Faults = {}` and both peers writing twice,
  `ReportedIsDelivered` fails.
- A write that gave up keeps its sequence number (`Retry`); if the frame had
  arrived, the next payload is discarded as a duplicate: `ReportedIsDelivered`
  fails with `Faults = {"timeout"}`.
- `tk_ostream_shdlc_write` returns `RET_IO`, a positive number, as the number of
  bytes written when the stream is broken or does not take the frame
  (`SendFails`).
- `tk_istream_shdlc_read_ack` does not count the data frames it meets: a write
  may not return as long as the other peer goes on writing. This is the exception
  in `WriteReturns`.
- After 2^32 ms the time noted by `timer_manager_add` is truncated, and a
  dispatch whose callbacks add timers need not end: `DispatchEnds` fails with
  `Wrap = 4` and `StartTime = 4`. With duration 0 it need not end either.
- A timer that another callback resets, after the clock has moved on, is called
  at once: `now - start` is negative and wraps (durations 1 and 2,
  `MaxClock = 4`).
- `timer_manager_next_time` returns a later deadline when an overdue timer
  precedes one that was started afterwards (`Earlier`); hence the condition in
  `NextTimeWhenNoneOverdue`.
- A timer is removed by its id after its callback (`ReturnRemove`): if the
  callback has removed it and added another with the same id, that one goes.
- A dialog that is quit while a later one still waits to be opened is accepted
  (`RefusedOutOfTurn` says that this is the only such time), and the quit ends
  the loop of the later one; `dialog_modal` says that it blocks until its dialog
  is quit (`base/dialog.h:288`). The dialog that was quit goes on, quited and
  without a quit, until another comes. This is the exception in `QuitsAccounted`
  and `QuitReturns`, and in `ReturnsWhenQuit` for dialogs.
- `tk_quit` while a dialog is modal ends the dialog's loop and not the program,
  which goes on until another quit comes (`docs/manual/global_t.md:281` says that
  it quits the main loop): the same exceptions. What remains true is the other
  half: `tk_run` returns only after `tk_quit` (`ReturnsWhenQuit`, without
  exception for it).
- A source that is removed in a dispatch that has also run a main loop is freed
  while its own dispatch is on the stack: the nested `darray_clear` has dropped
  the reference that kept it, and `event_source_manager_remove` and the walk use
  it afterwards. A service can get there: `tk_service_on_data` returns
  `RET_REMOVE` (`service/service.c:80`) from a dispatch that may have opened a
  dialog (`remote_ui/service/remote_ui_service.c:450`). This is the exception in
  `AliveWhileUsed`.
- The array of a nested dispatch holds the sources of the outer one too, so its
  walk may call a source twice, the second time without data; hence `Depth = 1`
  in `CalledWithData`.
- A thread that waits for a call when `tk_exit` destroys the queue waits for
  ever, and `on_destroy` of a request that is still queued is not called: `lost`
  in `SyncReturns` and `AcceptedIsCalled`. What has become an idle function by
  then is still called.
- Idle functions that add each other and return `RET_REMOVE` keep
  `idle_manager_dispatch` (`tkc/idle_manager.c:192`) going for ever: each new one
  has not been called by this dispatch, and the note in the loop about sub main
  loops does not end it. No event is received meanwhile. `AcceptedIsCalled` and
  `SyncReturns` fail in `ui_thread` without their premise `DispatchesEnd`.
- SHDLC accepts an ACK or a NACK without its checksum when the closing flag is
  damaged (`streams/shdlc/shdlc_helper.c:168`), and a data frame whose type bits
  have turned into those of an answer (`Damaged`).

## 6. Not modelled

- Allocation failure, failure of a lock, and misuse (a call on a destroyed
  object) in all modules.
- Names, priorities and stack sizes of threads; `on_quit`; an action thread with
  a queue of its own.
- Bytes: escaping, checksums, compression, and partial reads of a payload.
- What `tk_deinit_internal` does between its dispatches of the idle functions,
  `window_manager_close_all` with its callbacks in particular; timers in
  `UiThread`.
- `on_destroy` callbacks of emitter items that change the emitter.
- What follows a data frame that is taken for an answer: its other bytes are
  skipped as one more damaged frame.
- A source that is added to the event sources while it is registered.
- Window animations, windows other than dialogs, handlers of `EVT_WINDOW_OPEN`,
  and the return code of a dialog.
- Sleep times and wake-ups of the main loop, a `select` that fails, a source
  whose descriptor changes, `event_queue_replace_last` and the merging of
  pointer events.
- Parsers, writers, drawing, layout and scripts: conversions of large data, to
  be tested by example. Platform wrappers are modelled where they are used.
- The repository is mostly vendored code, widgets, drawing and data (`src/3rd`
  alone is most of its lines), so the models stand for a small share of its
  lines: the part in which the order of steps decides.

## 7. Plan

Done, in this order: `WaitableActionQueue` over `BoundedQueue` with proofs and
the refinement, `ActionThreadPool`, `Emitter`, `Shdlc` over `OrderedStream`,
`TimerManager`, `UiThread`, `ModalDialogs`, `EventSources`.

Next:

1. `WaitableRingBuffer` over the same abstraction as the queue.
2. `MutexNest` and `CondVar`: exclusion and wake-ups; `ActionDArray`: delayed
   actions.
3. `ServiceClient`: request, response and notification over `OrderedStream`.
4. Caches and allocators: reference counts and eviction of images, free lists.
5. Window animations on top of `ModalDialogs`.

Theorems to come: the safety halves of the other liveness properties (that what
is to happen still can), as `NoRequestIsLost` is for `SyncReturns`; and that a
reported payload of `Shdlc` is delivered, under the faults for which
`ReportedIsDelivered` holds.
