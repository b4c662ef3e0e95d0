---------------------------- MODULE TimerManager ----------------------------
(***************************************************************************)
(* The timers of the main loop (tkc/timer_manager.c, tkc/timer_info.c,     *)
(* base/timer.c): a list that timer_manager_dispatch walks while the       *)
(* callbacks it runs add, remove, reset or change timers, take their time, *)
(* or run a main loop of their own that dispatches again.  It all happens  *)
(* in one thread; the stack holds the dispatch calls in progress.          *)
(*                                                                         *)
(* A timer is a piece of memory that is given back when it is neither in   *)
(* the list nor referred to by a dispatch.  The clock counts milliseconds  *)
(* in 64 bits and is bounded here; a difference of times, and the time     *)
(* that timer_manager_add notes, have 32 bits: 2^32 is the constant Wrap.  *)
(***************************************************************************)
EXTENDS Integers, Sequences, FiniteSets

CONSTANTS
  Timers,      \* the memory that timer_info_t objects can live in
  Ids,         \* timer ids, 0 (TK_INVALID_ID) excluded
  Durations,   \* the durations that the application uses
  Wrap,        \* 2^32 in the code
  StartTime,   \* the clock when the manager is created
  MaxClock,    \* bound: the clock stops here
  ClockRuns,   \* whether time passes while a callback runs
  MaxDepth,    \* bound: nested dispatch calls
  Horizon      \* 0xffff of timer_manager_next_time

ASSUME DomainAssumption ==
  /\ Ids \subseteq Nat \ {0} /\ Durations \subseteq Nat
  /\ Wrap \in Nat \ {0} /\ \A d \in Durations : d < Wrap
ASSUME BoundsAssumption ==
  /\ StartTime \in Nat \ {0} /\ MaxClock \in Nat /\ StartTime <= MaxClock
  /\ ClockRuns \in BOOLEAN /\ MaxDepth \in Nat /\ Horizon \in Nat

VARIABLES
  clock,      \* get_time()
  timers,     \* timer_manager->timers: the list, first element first
  info,       \* the fields of each timer_info_t
  stack,      \* the dispatch calls in progress, innermost last
  called_at   \* not in the code: the dispatch time of a timer's last call, 0 for none

vars == <<clock, timers, info, stack, called_at>>

Info == [id : Ids \cup {0}, start : Nat, duration : Nat, now : Nat, suspend : BOOLEAN, busy : BOOLEAN]
Zeroed == [id |-> 0, start |-> 0, duration |-> 0, now |-> 0, suspend |-> FALSE, busy |-> FALSE]

\* A dispatch: its time and, while a callback runs, the timer it refers to.
Frame == [now : Nat, running : SUBSET Timers]

Listed == {timers[i] : i \in 1..Len(timers)}
Depth == Len(stack)
Top == stack[Depth]
Referred(st) == UNION {st[i].running : i \in 1..Len(st)}

\* The application runs: a callback, or the main loop outside of dispatch.
InApp == stack # <<>> => Top.running # {}

\* The list without the timers in S, whose order stays.
Without(S) ==
  LET kept[i \in 0..Len(timers)] ==
        IF i = 0 THEN <<>>
        ELSE IF timers[i] \in S THEN kept[i - 1] ELSE Append(kept[i - 1], timers[i])
  IN  kept[Len(timers)]

\* What is neither in the list lst nor referred to by a frame of st is freed.
Free(inf, lst, st) ==
  LET kept == {lst[i] : i \in 1..Len(lst)} \cup Referred(st) IN
  /\ info' = [t \in Timers |-> IF t \in kept THEN inf[t] ELSE Zeroed]
  /\ called_at' = [t \in Timers |-> IF t \in kept THEN called_at[t] ELSE 0]

-----------------------------------------------------------------------------
(* timer_manager_init *)
Init ==
  /\ clock = StartTime
  /\ timers = <<>>
  /\ info = [t \in Timers |-> Zeroed]
  /\ stack = <<>>
  /\ called_at = [t \in Timers |-> 0]

Tick ==
  /\ clock < MaxClock
  /\ stack # <<>> => (ClockRuns /\ InApp)
  /\ clock' = clock + 1
  /\ UNCHANGED <<timers, info, stack, called_at>>

\* Mistaken: every new timer counts as not dispatched yet.
NoticedNever(d) == 0

\* The time that timer_manager_add_with_type_and_id notes in the new timer,
\* in a uint32_t: a dispatch in progress passes over it unless d is 0.
Noticed(d) == IF d # 0 THEN clock % Wrap ELSE 0

\* timer_info_create
Created(i, d) ==
  [Zeroed EXCEPT !.id = i, !.start = clock, !.duration = d, !.now = Noticed(d)]

\* Mistaken: the id may be in use.
AddUnchecked(t, i, d) ==
  /\ InApp
  /\ t \notin Listed \cup Referred(stack)
  /\ timers' = Append(timers, t)
  /\ info' = [info EXCEPT ![t] = Created(i, d)]
  /\ UNCHANGED <<clock, stack, called_at>>

\* timer_manager_add and timer_manager_add_with_id: an id that no timer in the
\* list has.  timer_info_create appends the timer.
Add(t, i, d) ==
  /\ InApp
  /\ t \notin Listed \cup Referred(stack)
  /\ \A u \in Listed : info[u].id # i
  /\ timers' = Append(timers, t)
  /\ info' = [info EXCEPT ![t] = Created(i, d)]
  /\ UNCHANGED <<clock, stack, called_at>>

\* timer_manager_remove, and timer_manager_all_remove_by_ctx and _by_ctx_and_type
\* for the timers S that share a ctx.
Remove(S) ==
  /\ InApp
  /\ timers' = Without(S)
  /\ Free(info, timers', stack)
  /\ UNCHANGED <<clock, stack>>

\* timer_manager_reset
Reset(t) ==
  /\ InApp
  /\ t \in Listed
  /\ info' = [info EXCEPT ![t].start = clock]
  /\ UNCHANGED <<clock, timers, stack, called_at>>

Suspend(t) ==
  /\ InApp
  /\ t \in Listed
  /\ info' = [info EXCEPT ![t].suspend = TRUE]
  /\ UNCHANGED <<clock, timers, stack, called_at>>

Resume(t) ==
  /\ InApp
  /\ t \in Listed
  /\ info' = [info EXCEPT ![t].suspend = FALSE, ![t].start = clock]
  /\ UNCHANGED <<clock, timers, stack, called_at>>

\* timer_modify_ex
Modify(t, d, reset_timer) ==
  /\ InApp
  /\ t \in Listed
  /\ info' = [info EXCEPT ![t].duration = d, ![t].start = IF reset_timer THEN clock ELSE @]
  /\ UNCHANGED <<clock, timers, stack, called_at>>

-----------------------------------------------------------------------------
(* timer_manager_dispatch *)

Dispatch ==
  /\ InApp
  /\ Depth < MaxDepth
  /\ timers # <<>>
  /\ stack' = Append(stack, [now |-> clock, running |-> {}])
  /\ UNCHANGED <<clock, timers, info, called_at>>

\* Mistaken: a timer whose callback runs can be dispatched again.
AvailableBusy(t, now) == info[t].now < now

\* timer_info_is_available
Available(t, now) == ~info[t].busy /\ info[t].now < now

Walking == stack # <<>> /\ Top.running = {}
Candidates == {i \in 1..Len(timers) : Available(timers[i], Top.now)}
FirstOf(S) == CHOOSE i \in S : \A j \in S : i <= j
Chosen == timers[FirstOf(Candidates)]

\* timer_manager_dispatch_one: the timer is due; the difference has 32 bits.
Due(t, now) == ~info[t].suspend /\ info[t].duration <= (now - info[t].start) % Wrap

\* It finds a timer that is not due.
Skip ==
  /\ Walking
  /\ Candidates # {}
  /\ ~Due(Chosen, Top.now)
  /\ info' = [info EXCEPT ![Chosen].now = Top.now]
  /\ UNCHANGED <<clock, timers, stack, called_at>>

\* It finds one that is: the dispatch takes a reference and calls on_timer.
Call(t) ==
  /\ Walking
  /\ Candidates # {}
  /\ t = Chosen
  /\ Due(t, Top.now)
  /\ info' = [info EXCEPT ![t].now = Top.now, ![t].busy = TRUE]
  /\ stack' = [stack EXCEPT ![Depth].running = {t}]
  /\ called_at' = [called_at EXCEPT ![t] = Top.now]
  /\ UNCHANGED <<clock, timers>>

\* Mistaken: the period of a repeated timer begins when it was created.
RestartedNever(t) == [info[t] EXCEPT !.busy = FALSE]

\* The callback has returned RET_REPEAT: the next period begins at the time
\* of the dispatch.
Restarted(t) == [info[t] EXCEPT !.busy = FALSE, !.start = Top.now]

ReturnRepeat ==
  /\ stack # <<>>
  /\ \E t \in Top.running :
       /\ stack' = [stack EXCEPT ![Depth].running = {}]
       /\ Free([info EXCEPT ![t] = Restarted(t)], timers, stack')
  /\ UNCHANGED <<clock, timers>>

\* The callback has returned something else: the timer with its id goes.
ReturnRemove ==
  /\ stack # <<>>
  /\ \E t \in Top.running :
       /\ stack' = [stack EXCEPT ![Depth].running = {}]
       /\ timers' = Without({u \in Listed : info[u].id = info[t].id})
       /\ Free([info EXCEPT ![t].busy = FALSE], timers', stack')
  /\ UNCHANGED clock

\* timer_manager_dispatch_one finds no timer.
EndDispatch ==
  /\ Walking
  /\ Candidates = {}
  /\ stack' = SubSeq(stack, 1, Depth - 1)
  /\ UNCHANGED <<clock, timers, info, called_at>>

InDispatch == Skip \/ (\E t \in Timers : Call(t)) \/ EndDispatch

Next ==
  \/ Tick
  \/ \E t \in Timers, i \in Ids, d \in Durations : Add(t, i, d)
  \/ \E S \in (SUBSET Listed) \ {{}} : Remove(S)
  \/ \E t \in Timers : Reset(t) \/ Suspend(t) \/ Resume(t)
  \/ \E t \in Timers, d \in Durations, reset_timer \in BOOLEAN : Modify(t, d, reset_timer)
  \/ Dispatch
  \/ Skip
  \/ \E t \in Timers : Call(t)
  \/ ReturnRepeat
  \/ ReturnRemove
  \/ EndDispatch

Spec == Init /\ [][Next]_vars

\* A dispatch goes on, and callbacks return, however often they dispatch before.
FairSpec ==
  /\ Spec
  /\ WF_vars(InDispatch)
  /\ \A k \in 1..MaxDepth : SF_vars(Depth = k /\ (ReturnRepeat \/ ReturnRemove))

-----------------------------------------------------------------------------
(* timer_manager_next_time *)

\* Mistaken: takes each timer's time, earlier or later.
EarlierAny(t, at) == info[t].start + info[t].duration

\* One pass of its loop: at is the earliest time so far.
Earlier(t, at) ==
  IF info[t].duration < (at - info[t].start) % Wrap THEN info[t].start + info[t].duration ELSE at

NextTime ==
  LET at[i \in 0..Len(timers)] ==
        IF i = 0 THEN clock + Horizon ELSE Earlier(timers[i], at[i - 1])
  IN  at[Len(timers)]

Deadlines == {info[t].start + info[t].duration : t \in Listed}
Earliest == CHOOSE d \in Deadlines \cup {clock + Horizon} : \A e \in Deadlines \cup {clock + Horizon} : d <= e

-----------------------------------------------------------------------------
(* Properties. *)

\* In addition to the types: no timer is in the list twice, and no id names
\* two of its timers.
TypeOK ==
  /\ clock \in StartTime..MaxClock
  /\ timers \in Seq(Timers)
  /\ info \in [Timers -> Info]
  /\ stack \in Seq(Frame) /\ Depth <= MaxDepth
  /\ called_at \in [Timers -> Nat]
  /\ \A i, j \in 1..Len(timers) : i # j => info[timers[i]].id # info[timers[j]].id

\* The callback of a timer never runs twice at a time, not even when it runs a
\* main loop that dispatches, is suspended, changed or removed meanwhile: busy
\* is set exactly for the timers that some dispatch refers to, and no two
\* dispatches refer to the same one.
NoReentry ==
  /\ \A i, j \in 1..Depth : i # j => stack[i].running \cap stack[j].running = {}
  /\ \A t \in Timers : info[t].busy <=> t \in Referred(stack)

\* A repeated timer keeps its period: two calls of its callback are at least
\* its duration apart, whatever other callbacks do between the two and however
\* long they take.  Left out are timers that a callback has started again
\* after the dispatch in progress had read the clock (see NeverEarly).
PeriodIsKept ==
  [][\A t \in Timers : Call(t) /\ called_at[t] # 0 /\ info[t].start <= Top.now
        => Top.now - called_at[t] >= info[t].duration]_vars

\* As long as no timer is overdue, timer_manager_next_time returns the time
\* at which the next one is due, although it compares in 32 bits and replaces
\* its result as it goes.
NextTimeWhenNoneOverdue ==
  (\A d \in Deadlines : d >= clock) => NextTime = Earliest

\* A timer is called only when its duration has passed since it was started or
\* reset.
NeverEarly ==
  [][\A t \in Timers : Call(t) => clock - info[t].start >= info[t].duration]_vars

\* A dispatch ends although its callbacks add timers and dispatch again: what
\* they add is left to the next dispatch, unless it has duration 0.
DispatchEnds ==
  \/ []<><<\E t \in Timers, i \in Ids : Add(t, i, 0)>>_vars
  \/ (stack # <<>>) ~> (stack = <<>>)

=============================================================================
