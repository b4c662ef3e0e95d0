------------------------ MODULE TimerManager_proofs ------------------------
(***************************************************************************)
(* For any timers, ids, durations, clock and nesting of dispatches: the    *)
(* callback of a timer never runs twice at a time, a repeated timer keeps  *)
(* its period, and timer_manager_next_time finds the earliest deadline.    *)
(*                                                                         *)
(* The first argument, for IInv: a dispatch chooses only a timer that is   *)
(* not busy, and busy is set exactly for the timers that the frames refer  *)
(* to.  What the application does in between (it removes timers, also one  *)
(* whose callback runs, and gives their memory to new ones) leaves that    *)
(* alone: a timer that a frame refers to is neither freed nor made anew.   *)
(* Neither the list nor the times play a part, and whatever may wrap.      *)
(*                                                                         *)
(* The second, for FullInv, is about the list (no timer is in it twice,    *)
(* nor an id) and the times: while the callback of a timer runs, its last  *)
(* call has the time of the frame, and the period that begins when it      *)
(* returns begins at that time or later.  The remainder that the code      *)
(* compares is at most the time that has passed.                           *)
(*                                                                         *)
(* What a recursion over the list calculates (Without, NextTime) is proved *)
(* by looking at the first place where it would be wrong (NoFirstFailure). *)
(***************************************************************************)
EXTENDS TimerManager, WellFoundedInduction, TLAPS

-----------------------------------------------------------------------------
(* The inductive invariant. *)

\* The dispatch calls st, each with one timer at most and no two with the same,
\* and the flags of the timers in inf.
FramesOK(st, inf) ==
  /\ st \in Seq(Frame)
  /\ inf \in [Timers -> Info]
  /\ \A i \in 1..Len(st) : \A t, u \in st[i].running : t = u
  /\ \A i, j \in 1..Len(st) : i # j => st[i].running \cap st[j].running = {}
  /\ \A t \in Timers : inf[t].busy <=> \E i \in 1..Len(st) : t \in st[i].running

IInv == clock \in Nat /\ FramesOK(stack, info)

-----------------------------------------------------------------------------
(* The walk over the list. *)

\* The dispatch takes a timer from the list that is there.
LEMMA FirstOfIsIn ==
  ASSUME NEW S \in SUBSET Nat, S # {}
  PROVE  FirstOf(S) \in S /\ \A j \in S : FirstOf(S) <= j
<1> DEFINE Less == {ss \in Nat \X Nat : ss[1] < ss[2]}
<1>1. IsWellFoundedOn(Less, Nat)
  BY NatLessThanWellFounded DEF OpToRel
<1> HIDE DEF Less
<1>2. PICK i \in S : \A j \in S : <<j, i>> \notin Less
  BY <1>1, WFMin
<1>3. ASSUME NEW j \in S PROVE i <= j
  <2>1. i \in Nat /\ j \in Nat /\ <<j, i>> \in Nat \X Nat
    OBVIOUS
  <2>2. ~(j < i)
    BY <1>2, <2>1 DEF Less
  <2> QED
    BY <2>1, <2>2
<1> QED
  BY <1>3 DEF FirstOf

-----------------------------------------------------------------------------
(* What the steps do to the frames. *)

\* The timers that dispatches refer to.
LEMMA ReferredIs ==
  ASSUME NEW st \in Seq(Frame), NEW t
  PROVE  t \in Referred(st) <=> \E i \in 1..Len(st) : t \in st[i].running
BY DEF Referred

\* The innermost dispatch.
LEMMA TopIs ==
  ASSUME FramesOK(stack, info), stack # <<>>
  PROVE  /\ Len(stack) \in 1..Len(stack) /\ Len(stack) \in Nat /\ Top = stack[Len(stack)]
         /\ Top \in Frame /\ Top.now \in Nat /\ Top.running \in SUBSET Timers
<1>1. Len(stack) \in 1..Len(stack) /\ Len(stack) \in Nat
  BY DEF FramesOK
<1>2. Top = stack[Len(stack)] /\ Top \in Frame
  BY <1>1 DEF FramesOK, Top, Depth
<1> QED
  BY <1>1, <1>2 DEF Frame

\* Freed memory is that of timers that no dispatch refers to.
LEMMA Freed ==
  ASSUME NEW inf, NEW lst, NEW st, FramesOK(st, inf), Free(inf, lst, st)
  PROVE  FramesOK(st, info')
<1> USE DEF FramesOK
<1>1. Zeroed \in Info /\ ~Zeroed.busy
  BY DEF Zeroed, Info
<1> DEFINE kept == {lst[i] : i \in 1..Len(lst)} \cup Referred(st)
<1>2. info' = [t \in Timers |-> IF t \in kept THEN inf[t] ELSE Zeroed]
  BY DEF Free
<1>3. \A t \in Timers : t \notin kept => ~inf[t].busy
  BY ReferredIs
<1> HIDE DEF kept
<1>4. info' \in [Timers -> Info]
  BY <1>1, <1>2
<1>5. \A t \in Timers : info'[t].busy <=> inf[t].busy
  BY <1>1, <1>2, <1>3
<1> QED
  BY <1>4, <1>5

\* A change of other fields of one timer.
LEMMA Changed ==
  ASSUME FramesOK(stack, info), NEW t, NEW x \in Info, t \in Timers => x.busy = info[t].busy,
         info' = [info EXCEPT ![t] = x]
  PROVE  FramesOK(stack, info')
<1> USE DEF FramesOK
<1>1. info' \in [Timers -> Info]
  OBVIOUS
<1>2. \A u \in Timers : info'[u].busy <=> info[u].busy
  OBVIOUS
<1> QED
  BY <1>1, <1>2

\* The innermost callback returns: its frame refers to nothing any more.
LEMMA Returned ==
  ASSUME FramesOK(stack, info), stack # <<>>, NEW t \in Top.running, NEW x \in Info, ~x.busy
  PROVE  t \in Timers /\ FramesOK([stack EXCEPT ![Depth].running = {}], [info EXCEPT ![t] = x])
<1> DEFINE st == [stack EXCEPT ![Depth].running = {}]
           inf == [info EXCEPT ![t] = x]
<1> USE DEF FramesOK, Depth, Top
<1>1. Len(stack) \in 1..Len(stack) /\ stack[Len(stack)] \in Frame
  OBVIOUS
<1>2. t \in Timers
  BY <1>1 DEF Frame
<1>3. [stack[Len(stack)] EXCEPT !.running = {}] \in Frame
  BY <1>1 DEF Frame
<1>4. st \in Seq(Frame) /\ Len(st) = Len(stack)
  BY <1>1, <1>3
<1>5. \A i \in 1..Len(stack) : st[i].running = IF i = Len(stack) THEN {} ELSE stack[i].running
  BY <1>1 DEF Frame
<1>6. inf \in [Timers -> Info] /\ \A u \in Timers : inf[u] = IF u = t THEN x ELSE info[u]
  BY <1>2
<1> HIDE DEF st, inf
<1>7. ASSUME NEW u \in Timers
      PROVE  inf[u].busy <=> \E i \in 1..Len(st) : u \in st[i].running
  <2>1. CASE u = t
    BY <2>1, <1>1, <1>4, <1>5, <1>6
  <2>2. CASE u # t
    <3>1. u \notin stack[Len(stack)].running
      BY <2>2, <1>1
    <3>2. inf[u].busy <=> \E i \in 1..Len(stack) : u \in stack[i].running
      BY <2>2, <1>6
    <3> QED
      BY <3>1, <3>2, <1>4, <1>5
  <2> QED
    BY <2>1, <2>2
<1>8. FramesOK(st, inf)
  BY <1>4, <1>5, <1>6, <1>7
<1> QED
  BY <1>2, <1>8 DEF st, inf

-----------------------------------------------------------------------------
(* The steps. *)

\* In the initial state there are no timers and no dispatch.
LEMMA InitIInv == Init => IInv
<1> SUFFICES ASSUME Init PROVE IInv
  OBVIOUS
<1>1. Zeroed \in Info /\ ~Zeroed.busy
  BY DEF Zeroed, Info
<1> QED
  BY <1>1, BoundsAssumption DEF Init, IInv, FramesOK

\* timer_manager_add: the memory is in no frame.
LEMMA AddStep ==
  ASSUME IInv, NEW t \in Timers, NEW i \in Ids, NEW d \in Durations, Add(t, i, d)
  PROVE  IInv'
<1> USE DEF IInv
<1>1. Noticed(d) \in Nat
  BY DomainAssumption DEF Noticed
<1>2. Created(i, d) \in Info /\ ~Created(i, d).busy
  BY <1>1, DomainAssumption DEF Created, Zeroed, Info
<1>3. ~info[t].busy
  BY ReferredIs DEF Add, FramesOK
<1>4. info[t].busy \in BOOLEAN /\ Created(i, d).busy \in BOOLEAN
  BY <1>2 DEF FramesOK, Info
<1>5. FramesOK(stack, info')
  BY <1>2, <1>3, <1>4, Changed DEF Add
<1> QED
  BY <1>5 DEF Add, FramesOK

\* timer_manager_reset, timer_suspend, timer_resume and timer_modify
LEMMA FieldStep ==
  ASSUME IInv, NEW t \in Timers, NEW x \in Info, x.busy = info[t].busy,
         info' = [info EXCEPT ![t] = x], stack' = stack, clock' = clock
  PROVE  IInv'
<1>1. FramesOK(stack, info')
  BY Changed DEF IInv
<1> QED
  BY <1>1 DEF IInv, FramesOK

\* timer_manager_dispatch begins.
LEMMA DispatchStep == ASSUME IInv, Dispatch PROVE IInv'
<1> DEFINE f == [now |-> clock, running |-> {}]
<1> USE DEF IInv, FramesOK
<1>1. f \in Frame
  BY DEF Frame
<1>2. stack' = Append(stack, f) /\ info' = info /\ clock' = clock
  BY DEF Dispatch
<1>3. f.running = {}
  OBVIOUS
<1> HIDE DEF f
<1>4. /\ stack' \in Seq(Frame) /\ Len(stack') = Len(stack) + 1
      /\ \A i \in 1..Len(stack) : stack'[i] = stack[i]
      /\ stack'[Len(stack) + 1] = f
  BY <1>1, <1>2
<1>5. ASSUME NEW i \in 1..Len(stack') PROVE i \in 1..Len(stack) \/ stack'[i].running = {}
  <2>1. Len(stack) \in Nat /\ i \in Nat /\ 1 <= i /\ i <= Len(stack) + 1
    BY <1>4
  <2>2. i \in 1..Len(stack) \/ i = Len(stack) + 1
    BY <2>1
  <2>3. CASE i = Len(stack) + 1
    BY <2>3, <1>3, <1>4
  <2> QED
    BY <2>2, <2>3
<1>6. \A t : (\E i \in 1..Len(stack') : t \in stack'[i].running)
          <=> (\E i \in 1..Len(stack) : t \in stack[i].running)
  BY <1>4, <1>5
<1> QED
  BY <1>2, <1>4, <1>5, <1>6

\* It passes over a timer.
LEMMA SkipStep == ASSUME IInv, Skip PROVE IInv'
<1> USE DEF IInv
<1> DEFINE x == [info[Chosen] EXCEPT !.now = Top.now]
<1>1. Top.now \in Nat
  BY TopIs DEF Skip, Walking
<1>2. stack' = stack /\ clock' = clock /\ info' = [info EXCEPT ![Chosen] = x]
  BY DEF Skip
<1>3. FramesOK(stack, info')
  <2>1. CASE Chosen \in Timers
    <3>1. info[Chosen] \in Info
      BY <2>1 DEF FramesOK
    <3> HIDE DEF Chosen
    <3>2. x \in Info /\ x.busy = info[Chosen].busy
      BY <3>1, <1>1 DEF Info
    <3> HIDE DEF x
    <3> QED
      BY <3>2, <1>2, Changed
  <2>2. CASE Chosen \notin Timers
    <3>1. info' = info
      BY <2>2, <1>2 DEF FramesOK
    <3> QED
      BY <3>1
  <2> QED
    BY <2>1, <2>2
<1> QED
  BY <1>2, <1>3 DEF FramesOK

\* It calls one that is not busy.
LEMMA CallStep == ASSUME IInv, NEW t \in Timers, Call(t) PROVE IInv'
<1> USE DEF IInv, FramesOK, Depth, Top
<1>1. stack # <<>> /\ stack[Len(stack)].running = {}
  BY DEF Call, Walking
<1>2. /\ Len(stack) \in 1..Len(stack) /\ stack[Len(stack)] \in Frame
      /\ stack[Len(stack)].now \in Nat /\ Len(stack) \in Nat
  BY <1>1, TopIs
<1>3. ~info[t].busy
  <2>1. FirstOf(Candidates) \in Candidates
    <3>1. Candidates \in SUBSET Nat /\ Candidates # {}
      BY DEF Candidates, Call
    <3> QED
      BY <3>1, FirstOfIsIn
  <2> QED
    BY <2>1 DEF Call, Chosen, Candidates, Available
<1> DEFINE f == [stack[Len(stack)] EXCEPT !.running = {t}]
           x == [info[t] EXCEPT !.now = stack[Len(stack)].now, !.busy = TRUE]
<1>4. f \in Frame /\ f.running = {t} /\ x \in Info /\ x.busy
  <2>1. info[t] \in Info
    OBVIOUS
  <2>2. x \in Info /\ x.busy
    BY <1>2, <2>1 DEF Info
  <2>3. f \in Frame /\ f.running = {t}
    BY <1>2 DEF Frame
  <2> QED
    BY <2>2, <2>3
<1>5. stack' = [stack EXCEPT ![Len(stack)] = f] /\ info' = [info EXCEPT ![t] = x] /\ clock' = clock
  BY DEF Call
<1> HIDE DEF f, x
<1>6. stack' \in Seq(Frame) /\ Len(stack') = Len(stack) /\ info' \in [Timers -> Info]
  BY <1>2, <1>4, <1>5
<1>7. ASSUME NEW i \in 1..Len(stack)
      PROVE  stack'[i].running = IF i = Len(stack) THEN {t} ELSE stack[i].running
  <2>1. stack'[i] = IF i = Len(stack) THEN f ELSE stack[i]
    BY <1>2, <1>5
  <2> QED
    BY <2>1, <1>4
<1>8. \A i \in 1..Len(stack) : t \notin stack[i].running
  BY <1>3
<1>9. \A u \in Timers : info'[u].busy <=> (u = t \/ info[u].busy)
  BY <1>4, <1>5
<1>10. \A i, j \in 1..Len(stack') : i # j => stack'[i].running \cap stack'[j].running = {}
  BY <1>1, <1>6, <1>7, <1>8
<1>11. \A i \in 1..Len(stack') : \A u, v \in stack'[i].running : u = v
  BY <1>6, <1>7
<1>12. ASSUME NEW u \in Timers
       PROVE  info'[u].busy <=> \E i \in 1..Len(stack') : u \in stack'[i].running
  <2>1. CASE u = t
    BY <2>1, <1>2, <1>6, <1>7, <1>9
  <2>2. CASE u # t
    <3>1. info'[u].busy <=> \E i \in 1..Len(stack) : u \in stack[i].running
      BY <2>2, <1>9
    <3>2. \A i \in 1..Len(stack) : u \in stack'[i].running <=> u \in stack[i].running
      BY <2>2, <1>1, <1>7
    <3> QED
      BY <3>1, <3>2, <1>6
  <2> QED
    BY <2>1, <2>2
<1> QED
  BY <1>5, <1>6, <1>10, <1>11, <1>12

\* The callback returns.
LEMMA ReturnStep ==
  ASSUME IInv, stack # <<>>, NEW t \in Top.running, NEW x \in Info, ~x.busy, NEW lst,
         stack' = [stack EXCEPT ![Depth].running = {}],
         Free([info EXCEPT ![t] = x], lst, stack'), clock' = clock
  PROVE  IInv'
<1>1. FramesOK([stack EXCEPT ![Depth].running = {}], [info EXCEPT ![t] = x])
  BY Returned DEF IInv
<1> DEFINE st == stack'
<1>2. FramesOK(st, [info EXCEPT ![t] = x]) /\ Free([info EXCEPT ![t] = x], lst, st)
  BY <1>1
<1> HIDE DEF st
<1>3. FramesOK(st, info')
  BY <1>2, Freed
<1> QED
  BY <1>3 DEF IInv, FramesOK, st

\* timer_manager_dispatch ends.
LEMMA EndStep == ASSUME IInv, EndDispatch PROVE IInv'
<1> USE DEF IInv, FramesOK, Depth, Top
<1>1. stack # <<>> /\ stack[Len(stack)].running = {}
  BY DEF EndDispatch, Walking
<1>2. stack' = SubSeq(stack, 1, Len(stack) - 1) /\ info' = info /\ clock' = clock
  BY DEF EndDispatch
<1>3. stack' \in Seq(Frame) /\ Len(stack') = Len(stack) - 1
      /\ \A i \in 1..Len(stack') : stack'[i] = stack[i]
  <2>1. Len(stack) \in Nat /\ Len(stack) - 1 \in 0..Len(stack)
    BY <1>1, TopIs
  <2>2. stack' = [i \in 1..(Len(stack) - 1) |-> stack[i]]
    BY <1>2, <2>1
  <2>3. \A i \in 1..(Len(stack) - 1) : stack[i] \in Frame
    BY <2>1
  <2>4. Len(stack) - 1 \in Nat
    BY <2>1
  <2> HIDE DEF IInv, FramesOK, Depth, Top
  <2> QED
    BY <2>2, <2>3, <2>4
<1>4. \A i \in 1..Len(stack) : i \in 1..Len(stack') \/ stack[i].running = {}
  BY <1>1, <1>3, TopIs
<1>5. \A t : (\E i \in 1..Len(stack') : t \in stack'[i].running)
          <=> (\E i \in 1..Len(stack) : t \in stack[i].running)
  BY <1>3, <1>4
<1>6. \A i \in 1..Len(stack') : i \in 1..Len(stack)
  BY <1>1, <1>3, TopIs
<1>7. \A i \in 1..Len(stack') : \A t, u \in stack'[i].running : t = u
  BY <1>3, <1>6
<1>8. \A i, j \in 1..Len(stack') : i # j => stack'[i].running \cap stack'[j].running = {}
  BY <1>3, <1>6
<1>9. \A t \in Timers : info'[t].busy <=> \E i \in 1..Len(stack') : t \in stack'[i].running
  BY <1>2, <1>5
<1> QED
  BY <1>2, <1>3, <1>7, <1>8, <1>9

\* Every step keeps the invariant.
LEMMA NextIInv == IInv /\ [Next]_vars => IInv'
<1> SUFFICES ASSUME IInv, [Next]_vars PROVE IInv'
  OBVIOUS
<1>1. \A t \in Timers : info[t] \in Info
  BY DEF IInv, FramesOK
<1>2. CASE Tick
  BY <1>2 DEF Tick, IInv, FramesOK
<1>3. ASSUME NEW t \in Timers, NEW i \in Ids, NEW d \in Durations, Add(t, i, d) PROVE IInv'
  BY <1>3, AddStep
<1>4. ASSUME NEW S \in SUBSET Listed, Remove(S) PROVE IInv'
  <2>1. FramesOK(stack, info) /\ Free(info, timers', stack) /\ stack' = stack /\ clock' = clock
    BY <1>4 DEF IInv, Remove
  <2>2. FramesOK(stack, info')
    BY <2>1, Freed
  <2> QED
    BY <2>1, <2>2 DEF IInv, FramesOK
<1>5. ASSUME NEW t \in Timers, Reset(t) PROVE IInv'
  <2> DEFINE x == [info[t] EXCEPT !.start = clock]
  <2>1. x \in Info /\ x.busy = info[t].busy
    BY <1>1 DEF Info, IInv
  <2>2. info' = [info EXCEPT ![t] = x] /\ stack' = stack /\ clock' = clock
    BY <1>5 DEF Reset
  <2> QED
    BY <2>1, <2>2, FieldStep
<1>6. ASSUME NEW t \in Timers, Suspend(t) PROVE IInv'
  <2> DEFINE x == [info[t] EXCEPT !.suspend = TRUE]
  <2>1. x \in Info /\ x.busy = info[t].busy
    BY <1>1 DEF Info
  <2>2. info' = [info EXCEPT ![t] = x] /\ stack' = stack /\ clock' = clock
    BY <1>6 DEF Suspend
  <2> QED
    BY <2>1, <2>2, FieldStep
<1>7. ASSUME NEW t \in Timers, Resume(t) PROVE IInv'
  <2> DEFINE x == [info[t] EXCEPT !.suspend = FALSE, !.start = clock]
  <2>1. x \in Info /\ x.busy = info[t].busy
    BY <1>1 DEF Info, IInv
  <2>2. info' = [info EXCEPT ![t] = x] /\ stack' = stack /\ clock' = clock
    BY <1>1, <1>7 DEF Resume
  <2> QED
    BY <2>1, <2>2, FieldStep
<1>8. ASSUME NEW t \in Timers, NEW d \in Durations, NEW r \in BOOLEAN, Modify(t, d, r) PROVE IInv'
  <2> DEFINE x == [info[t] EXCEPT !.duration = d, !.start = IF r THEN clock ELSE @]
  <2>1. x \in Info /\ x.busy = info[t].busy
    BY <1>1, DomainAssumption DEF Info, IInv
  <2>2. info' = [info EXCEPT ![t] = x] /\ stack' = stack /\ clock' = clock
    BY <1>1, <1>8 DEF Modify
  <2> QED
    BY <2>1, <2>2, FieldStep
<1>9. CASE Dispatch
  BY <1>9, DispatchStep
<1>10. CASE Skip
  BY <1>10, SkipStep
<1>11. ASSUME NEW t \in Timers, Call(t) PROVE IInv'
  BY <1>11, CallStep
<1>12. ASSUME stack # <<>> PROVE \A t \in Top.running : t \in Timers /\ Top.now \in Nat
  BY <1>12, TopIs DEF IInv
<1>13. CASE ReturnRepeat
  <2>1. PICK t \in Top.running :
          /\ stack' = [stack EXCEPT ![Depth].running = {}]
          /\ Free([info EXCEPT ![t] = Restarted(t)], timers, stack')
    BY <1>13 DEF ReturnRepeat
  <2>2. stack # <<>> /\ clock' = clock
    BY <1>13 DEF ReturnRepeat
  <2>3. Restarted(t) \in Info /\ ~Restarted(t).busy
    BY <1>1, <1>12, <2>2 DEF Restarted, Info
  <2> QED
    BY <2>1, <2>2, <2>3, ReturnStep
<1>14. CASE ReturnRemove
  <2>1. PICK t \in Top.running :
          /\ stack' = [stack EXCEPT ![Depth].running = {}]
          /\ Free([info EXCEPT ![t].busy = FALSE], timers', stack')
    BY <1>14 DEF ReturnRemove
  <2>2. stack # <<>> /\ clock' = clock
    BY <1>14 DEF ReturnRemove
  <2> DEFINE x == [info[t] EXCEPT !.busy = FALSE]
  <2>3. x \in Info /\ ~x.busy
    BY <1>1, <1>12, <2>2 DEF Info
  <2>4. Free([info EXCEPT ![t] = x], timers', stack')
    BY <2>1
  <2> HIDE DEF x
  <2> QED
    BY <2>1, <2>2, <2>3, <2>4, ReturnStep
<1>15. CASE EndDispatch
  BY <1>15, EndStep
<1>16. CASE UNCHANGED vars
  BY <1>16 DEF vars, IInv, FramesOK
<1> QED
  BY <1>2, <1>3, <1>4, <1>5, <1>6, <1>7, <1>8, <1>9, <1>10, <1>11, <1>13, <1>14, <1>15, <1>16 DEF Next

\* The inductive invariant holds always.
LEMMA Invariance == Spec => []IInv
<1> QED
  BY InitIInv, NextIInv, PTL DEF Spec

\* timer_manager_dispatch_one never calls a timer whose callback runs.
THEOREM CallbacksDoNotNest == Spec => []NoReentry
<1>1. IInv => NoReentry
  BY ReferredIs DEF IInv, FramesOK, NoReentry, Depth
<1> QED
  BY <1>1, Invariance, PTL

-----------------------------------------------------------------------------
(* Recursive functions on an initial part of Nat.                          *)

\* A property that is handed on from each number to the next holds up to n.
\* (The set B is where it fails.)
LEMMA NoFirstFailure ==
  ASSUME NEW n \in Nat, NEW B \in SUBSET (0..n), 0 \notin B,
         \A i \in 1..n : i - 1 \notin B => i \notin B
  PROVE  B = {}
<1> SUFFICES ASSUME B # {} PROVE FALSE
  OBVIOUS
<1>1. B \in SUBSET Nat
  OBVIOUS
<1>2. PICK m \in B : \A j \in B : m <= j
  BY <1>1, FirstOfIsIn
<1>3. m \in 1..n
  BY <1>2
<1>4. m - 1 \notin B
  BY <1>2, <1>3
<1> QED
  BY <1>3, <1>4

\* f is defined by recursion: a is its first value, and step gives the next one.
Follows(f, a, n, step) == f[0] = a /\ \A i \in 1..n : f[i] = step[<<i, f[i - 1]>>]

\* Such a function exists.
LEMMA RecursionExists ==
  ASSUME NEW V, NEW a \in V, NEW n \in Nat, NEW step \in [(1..n) \X V -> V]
  PROVE  \E f \in [0..n -> V] : Follows(f, a, n, step)
<1> DEFINE B == {k \in 0..n : ~\E f \in [0..n -> V] : Follows(f, a, k, step)}
<1>1. 0 \notin B
  <2>1. [i \in 0..n |-> a] \in [0..n -> V] /\ Follows([i \in 0..n |-> a], a, 0, step)
    BY DEF Follows
  <2> QED
    BY <2>1
<1>2. ASSUME NEW k \in 1..n, k - 1 \notin B PROVE k \notin B
  <2>1. k - 1 \in 0..n
    OBVIOUS
  <2>2. PICK f \in [0..n -> V] : Follows(f, a, k - 1, step)
    BY <1>2, <2>1
  <2> DEFINE g == [f EXCEPT ![k] = step[<<k, f[k - 1]>>]]
  <2>3. f[k - 1] \in V /\ step[<<k, f[k - 1]>>] \in V
    BY <2>1
  <2>4. g \in [0..n -> V]
    BY <2>3
  <2>5. \A i \in 0..n : g[i] = IF i = k THEN step[<<k, f[k - 1]>>] ELSE f[i]
    OBVIOUS
  <2> HIDE DEF g
  <2>6. g[0] = a
    BY <2>2, <2>5 DEF Follows
  <2>7. ASSUME NEW i \in 1..k PROVE g[i] = step[<<i, g[i - 1]>>]
    <3>1. i \in 0..n /\ i - 1 \in 0..n /\ i - 1 # k /\ (i # k => i \in 1..(k - 1))
      OBVIOUS
    <3> QED
      BY <2>2, <2>5, <3>1 DEF Follows
  <2> QED
    BY <2>4, <2>6, <2>7 DEF Follows
<1> HIDE DEF B
<1>3. B = {}
  <2>1. B \in SUBSET (0..n)
    BY DEF B
  <2> QED
    BY <2>1, <1>1, <1>2, NoFirstFailure
<1>4. n \in 0..n
  OBVIOUS
<1> QED
  BY <1>3, <1>4 DEF B

-----------------------------------------------------------------------------
(* The list.                                                               *)

Elems(q) == {q[i] : i \in 1..Len(q)}
Distinct(q) == \A i, j \in 1..Len(q) : i # j => q[i] # q[j]

\* A timer is appended.
LEMMA AppendIs ==
  ASSUME NEW S, NEW q \in Seq(S), NEW x \in S
  PROVE  /\ Append(q, x) \in Seq(S)
         /\ Elems(Append(q, x)) = Elems(q) \cup {x}
         /\ Distinct(q) /\ x \notin Elems(q) => Distinct(Append(q, x))
<1> DEFINE r == Append(q, x)
           n == Len(q)
<1>1. /\ n \in Nat /\ r \in Seq(S) /\ Len(r) = n + 1
      /\ \A i \in 1..n : r[i] = q[i]
      /\ r[n + 1] = x
  OBVIOUS
<1> HIDE DEF r, n
<1>2. \A i \in 1..Len(r) : i \in 1..n \/ i = n + 1
  BY <1>1
<1>3. 1..n \subseteq 1..Len(r) /\ n + 1 \in 1..Len(r)
  BY <1>1
<1>4. Elems(r) = Elems(q) \cup {x}
  BY <1>1, <1>2, <1>3 DEF Elems, n
<1>5. Distinct(q) /\ x \notin Elems(q) => Distinct(r)
  BY <1>1, <1>2, <1>3 DEF Elems, Distinct, n
<1> QED
  BY <1>1, <1>4, <1>5 DEF r

\* The sequence q without the members of S.
Filter(q, S) ==
  LET kept[i \in 0..Len(q)] ==
        IF i = 0 THEN <<>> ELSE IF q[i] \in S THEN kept[i - 1] ELSE Append(kept[i - 1], q[i])
  IN  kept[Len(q)]

\* The function that Filter is defined by exists.
Filters(f, q, S) ==
  f = [i \in 0..Len(q) |->
         IF i = 0 THEN <<>> ELSE IF q[i] \in S THEN f[i - 1] ELSE Append(f[i - 1], q[i])]

LEMMA FilterStep ==
  ASSUME NEW T, NEW q \in Seq(T), NEW S
  PROVE  \E f : Filters(f, q, S)
<1> DEFINE n == Len(q)
           V == Seq(T)
           none == <<>>
           step == [p \in (1..n) \X V |-> IF q[p[1]] \in S THEN p[2] ELSE Append(p[2], q[p[1]])]
<1>1. n \in Nat /\ \A i \in 1..n : q[i] \in T
  OBVIOUS
<1>2. none \in V /\ \A s \in V : \A t \in T : Append(s, t) \in V
  OBVIOUS
<1> HIDE DEF V, none, n
<1>3. /\ step \in [(1..n) \X V -> V]
      /\ \A i \in 1..n, s \in V : step[<<i, s>>] = IF q[i] \in S THEN s ELSE Append(s, q[i])
  BY <1>1, <1>2
<1> HIDE DEF step
<1>4. PICK f \in [0..n -> V] : Follows(f, none, n, step)
  BY <1>1, <1>2, <1>3, RecursionExists
<1>5. ASSUME NEW i \in 0..n
      PROVE  f[i] = IF i = 0 THEN <<>> ELSE IF q[i] \in S THEN f[i - 1] ELSE Append(f[i - 1], q[i])
  <2>1. CASE i = 0
    BY <2>1, <1>4 DEF none, Follows
  <2>2. CASE i # 0
    <3>1. i \in 1..n /\ i - 1 \in 0..n
      BY <2>2, <1>1
    <3>2. f[i - 1] \in V
      BY <3>1
    <3> QED
      BY <2>2, <3>1, <3>2, <1>3, <1>4 DEF Follows
  <2> QED
    BY <2>1, <2>2
<1>6. f = [i \in 0..n |-> f[i]]
  OBVIOUS
<1> QED
  BY <1>5, <1>6 DEF n, Filters

\* It has the members of q that are not in S, each once if q has.
LEMMA FilterIs ==
  ASSUME NEW T, NEW q \in Seq(T), NEW S, Distinct(q)
  PROVE  /\ Filter(q, S) \in Seq(T)
         /\ Elems(Filter(q, S)) = Elems(q) \ S
         /\ Distinct(Filter(q, S))
<1> DEFINE n == Len(q)
           kept == CHOOSE f : Filters(f, q, S)
<1>1. n \in Nat /\ \A i \in 1..n : q[i] \in T
  OBVIOUS
<1>2. Filter(q, S) = kept[n]
  BY DEF Filter, Filters
<1>3. Filters(kept, q, S)
  BY FilterStep
<1> HIDE DEF kept, n
<1>4. /\ kept[0] = <<>>
      /\ \A i \in 1..n : kept[i] = IF q[i] \in S THEN kept[i - 1] ELSE Append(kept[i - 1], q[i])
  <2>1. \A i \in 0..n : kept[i] =
          IF i = 0 THEN <<>> ELSE IF q[i] \in S THEN kept[i - 1] ELSE Append(kept[i - 1], q[i])
    BY <1>3 DEF Filters, n
  <2>2. 0 \in 0..n /\ \A i \in 1..n : i \in 0..n /\ i # 0
    BY <1>1
  <2> QED
    BY <2>1, <2>2
<1> DEFINE Upto(i) == {q[j] : j \in 1..i}
           Good(i) == kept[i] \in Seq(T) /\ Elems(kept[i]) = Upto(i) \ S /\ Distinct(kept[i])
           B == {i \in 0..n : ~Good(i)}
<1>5. 0 \notin B
  <2>1. kept[0] \in Seq(T) /\ Len(kept[0]) = 0
    BY <1>4
  <2>2. Elems(kept[0]) = {} /\ Distinct(kept[0])
    BY <2>1 DEF Elems, Distinct
  <2>3. Upto(0) = {}
    OBVIOUS
  <2> QED
    BY <2>1, <2>2, <2>3
<1>6. ASSUME NEW i \in 1..n, i - 1 \notin B PROVE i \notin B
  <2>1. i - 1 \in 0..n /\ Good(i - 1)
    BY <1>1, <1>6
  <2>2. Upto(i) = Upto(i - 1) \cup {q[i]}
    <3>1. \A j : j \in 1..i <=> j \in 1..(i - 1) \/ j = i
      BY <1>1
    <3> QED
      BY <3>1
  <2>3. q[i] \notin Upto(i - 1)
    <3>1. \A j \in 1..(i - 1) : j \in 1..n /\ j # i
      BY <1>1
    <3> QED
      BY <3>1 DEF Distinct, n
  <2> HIDE DEF Upto
  <2>4. CASE q[i] \in S
    <3>1. kept[i] = kept[i - 1]
      BY <2>4, <1>4
    <3> QED
      BY <2>1, <2>2, <2>4, <3>1
  <2>5. CASE q[i] \notin S
    <3>1. kept[i] = Append(kept[i - 1], q[i])
      BY <2>5, <1>4
    <3>2. q[i] \notin Elems(kept[i - 1])
      BY <2>1, <2>3
    <3>3. /\ kept[i - 1] \in Seq(T) /\ Distinct(kept[i - 1]) /\ q[i] \in T
          /\ Elems(kept[i - 1]) = Upto(i - 1) \ S
      BY <2>1, <1>1
    <3>4. /\ Append(kept[i - 1], q[i]) \in Seq(T)
          /\ Elems(Append(kept[i - 1], q[i])) = Elems(kept[i - 1]) \cup {q[i]}
          /\ Distinct(Append(kept[i - 1], q[i]))
      BY <3>2, <3>3, AppendIs
    <3>5. Elems(kept[i - 1]) \cup {q[i]} = Upto(i) \ S
      BY <2>2, <2>5, <3>3
    <3>6. Good(i)
      BY <3>1, <3>4, <3>5
    <3> QED
      BY <3>6
  <2> QED
    BY <2>4, <2>5
<1>7. B = {}
  <2>1. B \in SUBSET (0..n)
    OBVIOUS
  <2> HIDE DEF B
  <2> QED
    BY <2>1, <1>1, <1>5, <1>6, NoFirstFailure
<1>8. Good(n)
  <2>1. n \in 0..n
    BY <1>1
  <2> QED
    BY <1>7, <2>1
<1>9. Upto(n) = Elems(q)
  BY DEF Elems, n
<1> QED
  BY <1>2, <1>8, <1>9

\* Timers are removed; no other timer gets into the list or is in it twice.
LEMMA WithoutIs ==
  ASSUME NEW S, timers \in Seq(Timers), Distinct(timers)
  PROVE  /\ Without(S) \in Seq(Timers)
         /\ Elems(Without(S)) = Listed \ S
         /\ Distinct(Without(S))
<1>1. Without(S) = Filter(timers, S)
  BY DEF Without, Filter
<1>2. Listed = Elems(timers)
  BY DEF Listed, Elems
<1> QED
  BY <1>1, <1>2, FilterIs

-----------------------------------------------------------------------------
(* The list and its ids.                                                   *)

ListOK ==
  /\ timers \in Seq(Timers) /\ Distinct(timers)
  /\ \A t, u \in Listed : info[t].id = info[u].id => t = u

\* A change that leaves the list and its ids alone.
LEMMA ListStays ==
  ASSUME ListOK, timers' = timers, \A t \in Listed : info'[t].id = info[t].id
  PROVE  ListOK'
BY DEF ListOK, Listed

\* Timers leave the list.
LEMMA ListShrinks ==
  ASSUME ListOK, NEW S, timers' = Without(S),
         \A t \in Listed' : info'[t].id = info[t].id
  PROVE  ListOK' /\ Listed' = Listed \ S
<1>1. Elems(timers') = Listed'
  BY DEF Elems, Listed
<1>2. timers' \in Seq(Timers) /\ Listed' = Listed \ S /\ Distinct(timers')
  BY <1>1, WithoutIs DEF ListOK
<1> QED
  BY <1>2 DEF ListOK

\* What is freed is not in the list lst nor referred to by a frame of st.
LEMMA FreeIs ==
  ASSUME NEW inf, NEW lst, NEW st, Free(inf, lst, st)
  PROVE  LET kept == Elems(lst) \cup Referred(st) IN
         \A t \in Timers :
           /\ t \in kept => info'[t] = inf[t] /\ called_at'[t] = called_at[t]
           /\ t \notin kept => info'[t] = Zeroed /\ called_at'[t] = 0
<1> DEFINE kept == Elems(lst) \cup Referred(st)
<1>1. /\ info' = [t \in Timers |-> IF t \in kept THEN inf[t] ELSE Zeroed]
      /\ called_at' = [t \in Timers |-> IF t \in kept THEN called_at[t] ELSE 0]
  BY DEF Free, Elems
<1> HIDE DEF kept
<1>2. \A t \in Timers :
        /\ t \in kept => info'[t] = inf[t] /\ called_at'[t] = called_at[t]
        /\ t \notin kept => info'[t] = Zeroed /\ called_at'[t] = 0
  BY <1>1
<1> QED
  BY <1>2 DEF kept

\* No step puts a timer into the list twice or gives an id to two of its timers.
LEMMA ListKeeps ==
  ASSUME IInv, ListOK, [Next]_vars
  PROVE  ListOK'
<1>1. info \in [Timers -> Info] /\ Listed \subseteq Timers
  BY DEF IInv, FramesOK, ListOK, Listed
<1>2. ASSUME NEW t, NEW x \in Info, t \in Timers => x.id = info[t].id,
             info' = [info EXCEPT ![t] = x], timers' = timers
      PROVE  ListOK'
  <2>1. \A u \in Timers : info'[u].id = info[u].id
    BY <1>1, <1>2
  <2> QED
    BY <1>1, <1>2, <2>1, ListStays
<1>3. ASSUME NEW t \in Timers, NEW i \in Ids, NEW d \in Durations, Add(t, i, d) PROVE ListOK'
  <2>1. /\ timers' = Append(timers, t) /\ info' = [info EXCEPT ![t] = Created(i, d)]
        /\ t \notin Listed /\ \A u \in Listed : info[u].id # i
    BY <1>3 DEF Add
  <2>2. Elems(timers) = Listed /\ Elems(timers') = Listed'
    BY DEF Elems, Listed
  <2>3. timers' \in Seq(Timers) /\ Distinct(timers') /\ Listed' = Listed \cup {t}
    BY <2>1, <2>2, AppendIs DEF ListOK
  <2>4. info'[t].id = i /\ \A u \in Listed : info'[u] = info[u]
    BY <1>1, <2>1 DEF Created, Zeroed
  <2> QED
    BY <2>1, <2>3, <2>4 DEF ListOK
<1>4. ASSUME NEW S \in SUBSET Listed, Remove(S) PROVE ListOK'
  <2>1. Free(info, timers', stack) /\ timers' = Without(S)
    BY <1>4 DEF Remove
  <2>2. Elems(timers') = Listed'
    BY DEF Elems, Listed
  <2>3. Listed' \subseteq Timers
    BY <1>1, <2>1, <2>2, WithoutIs DEF ListOK
  <2>4. \A t \in Listed' : info'[t] = info[t]
    BY <2>1, <2>2, <2>3, FreeIs
  <2> QED
    BY <2>1, <2>4, ListShrinks
<1>5. ASSUME NEW t \in Timers, Reset(t) \/ Suspend(t) \/ Resume(t) PROVE ListOK'
  <2>1. timers' = timers /\ \A u \in Timers : info'[u].id = info[u].id
    <3>1. CASE Reset(t)
      BY <1>1, <3>1 DEF Reset
    <3>2. CASE Suspend(t)
      BY <1>1, <3>2 DEF Suspend
    <3>3. CASE Resume(t)
      <4>1. timers' = timers /\ info' = [info EXCEPT ![t] = [info[t] EXCEPT !.suspend = FALSE, !.start = clock]]
        BY <1>1, <3>3 DEF Resume
      <4>2. [info[t] EXCEPT !.suspend = FALSE, !.start = clock].id = info[t].id
        BY <1>1 DEF Info
      <4> QED
        BY <1>1, <4>1, <4>2
    <3> QED
      BY <1>5, <3>1, <3>2, <3>3
  <2> QED
    BY <1>1, <2>1, ListStays
<1>6. ASSUME NEW t \in Timers, NEW d \in Durations, NEW r \in BOOLEAN, Modify(t, d, r) PROVE ListOK'
  <2>1. timers' = timers /\ \A u \in Timers : info'[u].id = info[u].id
    BY <1>1, <1>6 DEF Modify
  <2> QED
    BY <1>1, <2>1, ListStays
<1>7. CASE Skip
  <2>1. timers' = timers /\ info' = [info EXCEPT ![Chosen].now = Top.now]
    BY <1>7 DEF Skip
  <2> HIDE DEF Chosen
  <2>2. \A u \in Timers : info'[u].id = info[u].id
    BY <1>1, <2>1
  <2> QED
    BY <1>1, <2>1, <2>2, ListStays
<1>8. ASSUME NEW t \in Timers, Call(t) PROVE ListOK'
  <2>1. timers' = timers /\ \A u \in Timers : info'[u].id = info[u].id
    BY <1>1, <1>8 DEF Call
  <2> QED
    BY <1>1, <2>1, ListStays
<1>9. CASE ReturnRepeat
  <2>1. PICK t \in Top.running : Free([info EXCEPT ![t] = Restarted(t)], timers, stack')
    BY <1>9 DEF ReturnRepeat
  <2> DEFINE inf == [info EXCEPT ![t] = Restarted(t)]
  <2>2. \A u \in Timers : inf[u].id = info[u].id
    BY <1>1 DEF Restarted
  <2> HIDE DEF inf
  <2> DEFINE st == stack'
  <2>3. Free(inf, timers, st)
    BY <2>1 DEF inf
  <2> HIDE DEF st
  <2>4. \A u \in Listed : info'[u] = inf[u]
    BY <1>1, <2>3, FreeIs DEF Elems, Listed
  <2>5. timers' = timers
    BY <1>9 DEF ReturnRepeat
  <2> QED
    BY <1>1, <2>2, <2>4, <2>5, ListStays
<1>10. CASE ReturnRemove
  <2>1. PICK t \in Top.running :
          /\ timers' = Without({u \in Listed : info[u].id = info[t].id})
          /\ Free([info EXCEPT ![t].busy = FALSE], timers', stack')
    BY <1>10 DEF ReturnRemove
  <2> DEFINE inf == [info EXCEPT ![t].busy = FALSE]
             st == stack'
             S == {u \in Listed : info[u].id = info[t].id}
  <2>2. \A u \in Timers : inf[u].id = info[u].id
    BY <1>1
  <2>3. Free(inf, timers', st) /\ timers' = Without(S)
    BY <2>1
  <2> HIDE DEF inf, st, S
  <2>4. Elems(timers') = Listed'
    BY DEF Elems, Listed
  <2>5. Listed' \subseteq Timers
    BY <1>1, <2>3, <2>4, WithoutIs DEF ListOK
  <2>6. \A u \in Listed' : info'[u] = inf[u]
    BY <2>3, <2>4, <2>5, FreeIs
  <2>7. \A u \in Listed' : info'[u].id = info[u].id
    BY <2>2, <2>5, <2>6
  <2> QED
    BY <2>3, <2>7, ListShrinks
<1>11. UNCHANGED <<timers, info>> => ListOK'
  BY ListStays
<1> QED
  BY <1>3, <1>4, <1>5, <1>6, <1>7, <1>8, <1>9, <1>10, <1>11
  DEF Next, Tick, Dispatch, EndDispatch, vars

-----------------------------------------------------------------------------
(* The times.                                                              *)

\* Timers are started, and called, in the past; a timer whose callback is not
\* running was called before its present period began.
TimesOK ==
  /\ clock \in StartTime..MaxClock
  /\ Len(stack) <= MaxDepth
  /\ called_at \in [Timers -> Nat]
  /\ \A t \in Timers : called_at[t] <= clock /\ info[t].start <= clock
  /\ \A t \in Timers : ~info[t].busy => called_at[t] <= info[t].start
  /\ \A i \in 1..Len(stack) : stack[i].now <= clock
  /\ \A i \in 1..Len(stack) : \A t \in stack[i].running : called_at[t] = stack[i].now

\* A remainder is no larger than what is divided, and small numbers have none.
LEMMA Remainder ==
  ASSUME NEW n \in Nat, NEW w \in Nat \ {0}
  PROVE  n % w <= n /\ (n < w => n % w = n)
OBVIOUS

\* The memory of timers is freed; the frames st have been there before.
LEMMA TimesFreed ==
  ASSUME IInv, TimesOK, IInv', clock' = clock, NEW inf \in [Timers -> Info], NEW lst,
         Len(stack') = Len(stack),
         \A i \in 1..Len(stack) : stack'[i].now = stack[i].now /\ stack'[i].running \subseteq stack[i].running,
         Free(inf, lst, stack'),
         \A t \in Timers : inf[t].start <= clock,
         \A t \in Timers : t \in Elems(lst) \cup Referred(stack') /\ ~inf[t].busy => called_at[t] <= inf[t].start
  PROVE  TimesOK'
<1> DEFINE st == stack'
           kept == Elems(lst) \cup Referred(st)
<1>1. st \in Seq(Frame) /\ clock \in Nat
  BY DEF IInv, FramesOK
<1> HIDE DEF st
<1>2. Free(inf, lst, st)
  BY DEF st
<1>3. \A t \in Timers :
           /\ t \in kept => info'[t] = inf[t] /\ called_at'[t] = called_at[t]
           /\ t \notin kept => info'[t] = Zeroed /\ called_at'[t] = 0
  BY <1>2, FreeIs
<1>4. called_at' \in [Timers -> Nat]
  <2>1. called_at' = [t \in Timers |-> IF t \in {lst[i] : i \in 1..Len(lst)} \cup Referred(st) THEN called_at[t] ELSE 0]
    BY <1>2 DEF Free
  <2> QED
    BY <2>1 DEF TimesOK
<1>5. Zeroed.start = 0 /\ Zeroed.busy = FALSE
  BY DEF Zeroed
<1>6. \A t \in Timers : called_at'[t] <= clock /\ info'[t].start <= clock
  BY <1>1, <1>3, <1>5 DEF TimesOK
<1>7. \A t \in Timers : ~info'[t].busy => called_at'[t] <= info'[t].start
  <2> SUFFICES ASSUME NEW t \in Timers, ~info'[t].busy PROVE called_at'[t] <= info'[t].start
    OBVIOUS
  <2>1. CASE t \in kept
    BY <2>1, <1>3 DEF st
  <2>2. CASE t \notin kept
    BY <2>2, <1>3, <1>5
  <2> QED
    BY <2>1, <2>2
<1>8. \A i \in 1..Len(st) : st[i].now <= clock
  BY DEF TimesOK, st
<1>9. \A i \in 1..Len(st) : \A t \in st[i].running : called_at'[t] = st[i].now
  <2> SUFFICES ASSUME NEW i \in 1..Len(st), NEW t \in st[i].running PROVE called_at'[t] = st[i].now
    OBVIOUS
  <2>1. t \in Timers
    <3>1. st[i] \in Frame
      BY <1>1
    <3> QED
      BY <3>1 DEF Frame
  <2>2. t \in kept
    BY <1>1, ReferredIs
  <2>3. i \in 1..Len(stack) /\ t \in stack[i].running /\ st[i].now = stack[i].now
    BY DEF st
  <2> QED
    BY <2>1, <2>2, <2>3, <1>3 DEF TimesOK
<1> QED
  BY <1>4, <1>6, <1>7, <1>8, <1>9 DEF TimesOK, st

\* timer_manager_add, timer_manager_reset and the like: a period begins now, or
\* the start is left alone.
LEMMA TimesField ==
  ASSUME IInv, TimesOK, NEW t \in Timers, NEW x \in Info,
         x.start \in {clock, info[t].start}, x.busy = info[t].busy,
         info' = [info EXCEPT ![t] = x], UNCHANGED <<clock, stack, called_at>>
  PROVE  TimesOK'
<1>1. info \in [Timers -> Info] /\ clock \in Nat
  BY DEF IInv, FramesOK
<1>2. \A u \in Timers : info'[u] = IF u = t THEN x ELSE info[u]
  BY <1>1
<1>3. \A u \in Timers : info'[u].start \in {clock, info[u].start} /\ info'[u].busy = info[u].busy
  BY <1>2
<1>4. \A u \in Timers : called_at[u] <= clock /\ info'[u].start <= clock
  BY <1>1, <1>3 DEF TimesOK
<1>5. \A u \in Timers : ~info'[u].busy => called_at[u] <= info'[u].start
  BY <1>3, <1>4 DEF TimesOK
<1> QED
  BY <1>4, <1>5 DEF TimesOK

\* timer_manager_dispatch_one chooses a timer of the list that is not busy.
LEMMA ChosenIs ==
  ASSUME NEW t, Call(t)
  PROVE  t \in Listed /\ ~info[t].busy
<1>1. Candidates \in SUBSET Nat /\ Candidates # {}
  BY DEF Candidates, Call
<1>2. FirstOf(Candidates) \in Candidates
  BY <1>1, FirstOfIsIn
<1> QED
  BY <1>2 DEF Call, Chosen, Candidates, Available, Listed

\* Every step keeps the times in order.
LEMMA TimesKeeps ==
  ASSUME IInv, ListOK, TimesOK, [Next]_vars, IInv', ListOK'
  PROVE  TimesOK'
<1>1. /\ info \in [Timers -> Info] /\ clock \in Nat /\ stack \in Seq(Frame) /\ Len(stack) \in Nat
      /\ called_at \in [Timers -> Nat] /\ \A t \in Timers : info[t] \in Info
  BY DEF IInv, FramesOK, TimesOK
<1>2. stack # <<>> => /\ Top = stack[Len(stack)] /\ Len(stack) \in 1..Len(stack)
                      /\ Top \in Frame /\ Top.now \in Nat /\ Top.now <= clock
                      /\ Top.running \in SUBSET Timers
                      /\ \A t \in Top.running : called_at[t] = Top.now
  BY TopIs DEF IInv, TimesOK
<1>3. CASE Tick
  <2>1. clock' = clock + 1 /\ clock < MaxClock /\ UNCHANGED <<timers, info, stack, called_at>>
    BY <1>3 DEF Tick
  <2>2. clock' \in StartTime..MaxClock
    BY <2>1, <1>1, BoundsAssumption DEF TimesOK
  <2>3. \A t \in Timers : called_at[t] \in Nat /\ info[t].start \in Nat
    BY <1>1 DEF Info
  <2>4. ASSUME NEW i \in 1..Len(stack) PROVE stack[i].now \in Nat
    <3>1. stack[i] \in Frame
      BY <1>1
    <3> QED
      BY <3>1 DEF Frame
  <2>5. \A n \in Nat : n <= clock => n <= clock'
    BY <2>1, <1>1
  <2> QED
    BY <2>1, <2>2, <2>3, <2>4, <2>5 DEF TimesOK
<1>4. ASSUME NEW t \in Timers, NEW i \in Ids, NEW d \in Durations, Add(t, i, d) PROVE TimesOK'
  <2>1. Noticed(d) \in Nat
    BY <1>1, DomainAssumption DEF Noticed
  <2>2. Created(i, d) \in Info /\ ~Created(i, d).busy /\ Created(i, d).start = clock
    BY <1>1, <2>1, DomainAssumption DEF Created, Zeroed, Info
  <2>3. ~info[t].busy /\ info[t].busy \in BOOLEAN /\ Created(i, d).busy \in BOOLEAN
    BY <1>1, <1>4, <2>2, ReferredIs DEF Add, IInv, FramesOK, Info
  <2>4. Created(i, d).busy = info[t].busy
    BY <2>2, <2>3
  <2> QED
    BY <1>4, <2>2, <2>4, TimesField DEF Add
<1>5. ASSUME NEW S \in SUBSET Listed, Remove(S) PROVE TimesOK'
  <2>1. Free(info, timers', stack) /\ stack' = stack /\ clock' = clock
    BY <1>5 DEF Remove
  <2>2. Free(info, timers', stack')
    BY <2>1
  <2>3. \A t \in Timers : info[t].start <= clock /\ (~info[t].busy => called_at[t] <= info[t].start)
    BY DEF TimesOK
  <2> QED
    BY <1>1, <2>1, <2>2, <2>3, TimesFreed
<1>6. ASSUME NEW t \in Timers, Reset(t) PROVE TimesOK'
  <2> DEFINE x == [info[t] EXCEPT !.start = clock]
  <2>1. x \in Info /\ x.busy = info[t].busy /\ x.start = clock
    BY <1>1 DEF Info
  <2>2. info' = [info EXCEPT ![t] = x] /\ UNCHANGED <<stack, clock, called_at>>
    BY <1>6 DEF Reset
  <2> QED
    BY <2>1, <2>2, TimesField
<1>7. ASSUME NEW t \in Timers, Suspend(t) PROVE TimesOK'
  <2> DEFINE x == [info[t] EXCEPT !.suspend = TRUE]
  <2>1. x \in Info /\ x.busy = info[t].busy /\ x.start = info[t].start
    BY <1>1 DEF Info
  <2>2. info' = [info EXCEPT ![t] = x] /\ UNCHANGED <<stack, clock, called_at>>
    BY <1>7 DEF Suspend
  <2> QED
    BY <2>1, <2>2, TimesField
<1>8. ASSUME NEW t \in Timers, Resume(t) PROVE TimesOK'
  <2> DEFINE x == [info[t] EXCEPT !.suspend = FALSE, !.start = clock]
  <2>1. x \in Info /\ x.busy = info[t].busy /\ x.start = clock
    BY <1>1 DEF Info
  <2>2. info' = [info EXCEPT ![t] = x] /\ UNCHANGED <<stack, clock, called_at>>
    BY <1>1, <1>8 DEF Resume
  <2> QED
    BY <2>1, <2>2, TimesField
<1>9. ASSUME NEW t \in Timers, NEW d \in Durations, NEW r \in BOOLEAN, Modify(t, d, r) PROVE TimesOK'
  <2> DEFINE x == [info[t] EXCEPT !.duration = d, !.start = IF r THEN clock ELSE @]
  <2>1. x \in Info /\ x.busy = info[t].busy /\ x.start \in {clock, info[t].start}
    BY <1>1, DomainAssumption DEF Info
  <2>2. info' = [info EXCEPT ![t] = x] /\ UNCHANGED <<stack, clock, called_at>>
    BY <1>1, <1>9 DEF Modify
  <2> QED
    BY <2>1, <2>2, TimesField
<1>10. CASE Dispatch
  <2> DEFINE f == [now |-> clock, running |-> {}]
  <2>1. /\ stack' = Append(stack, f) /\ UNCHANGED <<clock, info, called_at>> /\ Len(stack) < MaxDepth
    BY <1>10 DEF Dispatch, Depth
  <2>2. f \in Frame /\ f.now = clock /\ f.running = {}
    BY <1>1 DEF Frame
  <2> HIDE DEF f
  <2>3. /\ Len(stack') = Len(stack) + 1
        /\ \A i \in 1..Len(stack) : stack'[i] = stack[i]
        /\ stack'[Len(stack) + 1] = f
    BY <2>1, <2>2, <1>1
  <2>4. \A i \in 1..Len(stack') : i \in 1..Len(stack) \/ i = Len(stack) + 1
    BY <2>3, <1>1
  <2>5. Len(stack') <= MaxDepth
    BY <2>1, <2>3, <1>1, BoundsAssumption
  <2>6. \A i \in 1..Len(stack') : stack'[i].now <= clock
    BY <2>2, <2>3, <2>4, <1>1 DEF TimesOK
  <2>7. ASSUME NEW i \in 1..Len(stack'), NEW t \in stack'[i].running PROVE called_at[t] = stack'[i].now
    BY <2>2, <2>3, <2>4 DEF TimesOK
  <2> QED
    BY <2>1, <2>5, <2>6, <2>7 DEF TimesOK
<1>11. CASE Skip
  <2>1. stack # <<>> /\ info' = [info EXCEPT ![Chosen].now = Top.now] /\ UNCHANGED <<clock, stack, called_at>>
    BY <1>11 DEF Skip, Walking
  <2>2. \A t \in Timers : info'[t].start = info[t].start /\ info'[t].busy = info[t].busy
    <3> HIDE DEF Chosen
    <3> QED
      BY <1>1, <2>1
  <2> QED
    BY <2>1, <2>2 DEF TimesOK
<1>12. ASSUME NEW t \in Timers, Call(t) PROVE TimesOK'
  <2>1. /\ stack # <<>> /\ clock' = clock
        /\ info' = [info EXCEPT ![t].now = Top.now, ![t].busy = TRUE]
        /\ called_at' = [called_at EXCEPT ![t] = Top.now]
        /\ stack' = [stack EXCEPT ![Len(stack)] = [Top EXCEPT !.running = {t}]]
    BY <1>12 DEF Call, Walking, Depth, Top
  <2>2. info' = [info EXCEPT ![t] = [info[t] EXCEPT !.now = Top.now, !.busy = TRUE]]
    BY <1>1, <2>1
  <2>3. [info[t] EXCEPT !.now = Top.now, !.busy = TRUE].start = info[t].start
        /\ [info[t] EXCEPT !.now = Top.now, !.busy = TRUE].busy = TRUE
    BY <1>1 DEF Info
  <2>4. \A u \in Timers : info'[u].start = info[u].start /\ (info'[u].busy <=> info[u].busy \/ u = t)
    BY <1>1, <2>2, <2>3
  <2>5. called_at' \in [Timers -> Nat] /\ \A u \in Timers : called_at'[u] = IF u = t THEN Top.now ELSE called_at[u]
    BY <1>1, <1>2, <2>1
  <2>6. [Top EXCEPT !.running = {t}] \in Frame /\ [Top EXCEPT !.running = {t}].now = Top.now
        /\ [Top EXCEPT !.running = {t}].running = {t}
    BY <1>2, <2>1 DEF Frame
  <2>7. /\ Len(stack') = Len(stack)
        /\ \A i \in 1..Len(stack) : /\ stack'[i].now = stack[i].now
                                    /\ stack'[i].running = IF i = Len(stack) THEN {t} ELSE stack[i].running
    <3>1. \A i \in 1..Len(stack) : stack'[i] = IF i = Len(stack) THEN [Top EXCEPT !.running = {t}] ELSE stack[i]
      BY <1>1, <1>2, <2>1
    <3> QED
      BY <1>1, <1>2, <2>1, <2>6, <3>1
  <2>8. \A i \in 1..Len(stack) : t \notin stack[i].running
    BY <1>12, ChosenIs DEF IInv, FramesOK
  <2>9. \A i \in 1..Len(stack') : stack'[i].now <= clock
    BY <2>7 DEF TimesOK
  <2>10. ASSUME NEW i \in 1..Len(stack'), NEW u \in stack'[i].running PROVE called_at'[u] = stack'[i].now
    <3>1. CASE i = Len(stack)
      <4>1. u = t /\ stack'[i].now = Top.now
        BY <3>1, <1>2, <2>1, <2>7
      <4> QED
        BY <4>1, <2>5
    <3>2. CASE i # Len(stack)
      <4>1. i \in 1..Len(stack) /\ u \in stack[i].running /\ stack[i] \in Frame
        BY <3>2, <2>7, <1>1
      <4>2. u \in Timers /\ u # t
        BY <4>1, <2>8 DEF Frame
      <4> QED
        BY <4>1, <4>2, <2>5, <2>7 DEF TimesOK
    <3> QED
      BY <3>1, <3>2
  <2>11. \A u \in Timers : called_at'[u] <= clock /\ info'[u].start <= clock
    BY <1>2, <2>1, <2>4, <2>5 DEF TimesOK
  <2>12. \A u \in Timers : ~info'[u].busy => called_at'[u] <= info'[u].start
    BY <2>4, <2>5 DEF TimesOK
  <2>13. clock' \in StartTime..MaxClock /\ Len(stack') <= MaxDepth
    BY <2>1, <2>7 DEF TimesOK
  <2>14. \A u \in Timers : called_at'[u] <= clock' /\ info'[u].start <= clock'
    BY <2>1, <2>11
  <2>15. \A i \in 1..Len(stack') : stack'[i].now <= clock'
    BY <2>1, <2>9
  <2> QED
    BY <2>5, <2>10, <2>12, <2>13, <2>14, <2>15 DEF TimesOK
<1>13. ASSUME stack # <<>>, stack' = [stack EXCEPT ![Depth].running = {}]
       PROVE  /\ Len(stack') = Len(stack)
              /\ \A i \in 1..Len(stack) :
                   stack'[i].now = stack[i].now
                   /\ stack'[i].running = IF i = Len(stack) THEN {} ELSE stack[i].running
  <2> DEFINE f == [Top EXCEPT !.running = {}]
  <2>1. stack' = [stack EXCEPT ![Len(stack)] = f]
    BY <1>13, <1>2 DEF Depth
  <2>2. f.now = Top.now /\ f.running = {}
    BY <1>2, <1>13 DEF Frame
  <2> HIDE DEF f
  <2>3. \A i \in 1..Len(stack) : stack'[i] = IF i = Len(stack) THEN f ELSE stack[i]
    BY <1>1, <2>1
  <2>4. Len(stack') = Len(stack)
    BY <1>1, <2>1
  <2>5. ASSUME NEW i \in 1..Len(stack)
        PROVE  /\ stack'[i].now = stack[i].now
               /\ stack'[i].running = IF i = Len(stack) THEN {} ELSE stack[i].running
    <3>1. CASE i = Len(stack)
      BY <1>2, <1>13, <2>2, <2>3, <3>1
    <3>2. CASE i # Len(stack)
      BY <2>3, <3>2
    <3> QED
      BY <3>1, <3>2
  <2> QED
    BY <2>4, <2>5
<1>14. CASE ReturnRepeat
  <2>1. PICK t \in Top.running :
          /\ stack' = [stack EXCEPT ![Depth].running = {}]
          /\ Free([info EXCEPT ![t] = Restarted(t)], timers, stack')
    BY <1>14 DEF ReturnRepeat
  <2>2. stack # <<>> /\ clock' = clock
    BY <1>14 DEF ReturnRepeat
  <2> DEFINE inf == [info EXCEPT ![t] = Restarted(t)]
  <2>3. t \in Timers /\ Restarted(t) \in Info /\ Restarted(t).start = Top.now /\ called_at[t] = Top.now
    BY <1>1, <1>2, <2>2 DEF Restarted, Info
  <2>4. inf \in [Timers -> Info] /\ \A u \in Timers : inf[u] = IF u = t THEN Restarted(t) ELSE info[u]
    BY <1>1, <2>3
  <2> HIDE DEF inf
  <2>5. \A u \in Timers : inf[u].start <= clock
    BY <1>2, <2>2, <2>3, <2>4 DEF TimesOK
  <2>6. \A u \in Timers : ~inf[u].busy => called_at[u] <= inf[u].start
    BY <1>1, <1>2, <2>2, <2>3, <2>4 DEF TimesOK
  <2>7. Free(inf, timers, stack')
    BY <2>1 DEF inf
  <2>8. Len(stack') = Len(stack) /\ \A i \in 1..Len(stack) :
          stack'[i].now = stack[i].now /\ stack'[i].running \subseteq stack[i].running
    BY <1>13, <2>1, <2>2
  <2> QED
    BY <2>2, <2>4, <2>5, <2>6, <2>7, <2>8, TimesFreed
<1>15. CASE ReturnRemove
  <2>1. PICK t \in Top.running :
          /\ stack' = [stack EXCEPT ![Depth].running = {}]
          /\ timers' = Without({u \in Listed : info[u].id = info[t].id})
          /\ Free([info EXCEPT ![t].busy = FALSE], timers', stack')
    BY <1>15 DEF ReturnRemove
  <2>2. stack # <<>> /\ clock' = clock
    BY <1>15 DEF ReturnRemove
  <2> DEFINE x == [info[t] EXCEPT !.busy = FALSE]
             inf == [info EXCEPT ![t] = x]
             S == {u \in Listed : info[u].id = info[t].id}
             st == stack'
  <2>3. t \in Timers /\ x \in Info /\ x.start = info[t].start
    BY <1>1, <1>2, <2>2 DEF Info
  <2>4. inf \in [Timers -> Info] /\ \A u \in Timers : inf[u] = IF u = t THEN x ELSE info[u]
    BY <1>1, <2>3
  <2>5. Free(inf, timers', stack')
    BY <2>1
  <2> HIDE DEF x, inf
  <2>6. Elems(timers') = Listed \ S
    BY <2>1, WithoutIs DEF ListOK
  <2>7. t \notin Elems(timers')
    BY <2>6
  <2>8. Len(st) = Len(stack) /\ \A i \in 1..Len(stack) :
          st[i].now = stack[i].now /\ st[i].running = IF i = Len(stack) THEN {} ELSE stack[i].running
    BY <1>13, <2>1, <2>2
  <2>9. t \notin Referred(stack')
    <3>1. \A i \in 1..Len(stack) : i # Len(stack) => t \notin stack[i].running
      BY <1>2, <2>2 DEF IInv, FramesOK
    <3>2. \A i \in 1..Len(st) : t \notin st[i].running
      BY <2>8, <3>1
    <3>3. st \in Seq(Frame)
      BY DEF IInv, FramesOK
    <3> HIDE DEF st
    <3>4. t \notin Referred(st)
      BY <3>2, <3>3, ReferredIs
    <3> QED
      BY <3>4 DEF st
  <2>10. \A u \in Timers : inf[u].start <= clock
    BY <2>3, <2>4 DEF TimesOK
  <2>11. \A u \in Timers : u \in Elems(timers') \cup Referred(stack') /\ ~inf[u].busy => called_at[u] <= inf[u].start
    BY <2>4, <2>7, <2>9 DEF TimesOK
  <2> QED
    BY <2>2, <2>4, <2>5, <2>8, <2>10, <2>11, TimesFreed
<1>16. CASE EndDispatch
  <2>1. stack # <<>> /\ stack' = SubSeq(stack, 1, Len(stack) - 1) /\ UNCHANGED <<clock, info, called_at>>
    BY <1>16 DEF EndDispatch, Walking, Depth
  <2>2. PICK n \in Nat : n = Len(stack) - 1
    BY <1>2, <2>1
  <2>3. stack' = [i \in 1..n |-> stack[i]]
    BY <2>1, <2>2
  <2>4. Len(stack') = n /\ \A i \in 1..n : stack'[i] = stack[i] /\ i \in 1..Len(stack)
    BY <2>2, <2>3
  <2>5. n <= MaxDepth
    BY <2>2, <1>1, BoundsAssumption DEF TimesOK
  <2>6. \A i \in 1..Len(stack') : stack'[i].now <= clock
    BY <2>4 DEF TimesOK
  <2>7. ASSUME NEW i \in 1..Len(stack'), NEW t \in stack'[i].running PROVE called_at[t] = stack'[i].now
    BY <2>4 DEF TimesOK
  <2> QED
    BY <2>1, <2>4, <2>5, <2>6, <2>7 DEF TimesOK
<1>17. CASE UNCHANGED vars
  BY <1>17 DEF vars, TimesOK
<1> QED
  BY <1>3, <1>4, <1>5, <1>6, <1>7, <1>8, <1>9, <1>10, <1>11, <1>12, <1>14, <1>15, <1>16, <1>17 DEF Next

-----------------------------------------------------------------------------
(* The next time.                                                          *)

\* The durations that timer_manager_next_time can deal with: the difference of
\* two times it compares stays below 2^32.
ShortDurations == \A d \in Durations \cup {0} : d + Horizon < Wrap

\* The duration of a timer is one that the application has asked for.
DurationsOK == \A t \in Timers : info[t].duration \in Durations \cup {0}

\* What NextTime calculates is the smallest of the deadlines, and the horizon.
LEMMA NextTimeIs ==
  ASSUME IInv, ListOK, TimesOK, DurationsOK, ShortDurations, \A d \in Deadlines : d >= clock
  PROVE  NextTime = Earliest
<1> DEFINE n == Len(timers)
           h == clock + Horizon
           due(t) == info[t].start + info[t].duration
           Is(f) == f = [i \in 0..n |-> IF i = 0 THEN h ELSE Earlier(timers[i], f[i - 1])]
           at == CHOOSE f : Is(f)
           step == [p \in (1..n) \X Nat |-> Earlier(timers[p[1]], p[2])]
           Dues(i) == {due(timers[j]) : j \in 1..i} \cup {h}
<1>1. /\ n \in Nat /\ clock \in Nat /\ Horizon \in Nat /\ h \in Nat /\ Wrap \in Nat \ {0}
      /\ \A i \in 1..n : timers[i] \in Timers /\ timers[i] \in Listed
  BY BoundsAssumption, DomainAssumption DEF IInv, ListOK, Listed
<1>2. \A i \in 1..n :
        /\ info[timers[i]].start \in Nat /\ info[timers[i]].duration \in Nat
        /\ info[timers[i]].start <= clock /\ due(timers[i]) \in Nat /\ due(timers[i]) >= clock
        /\ info[timers[i]].duration + Horizon < Wrap
  <2> SUFFICES ASSUME NEW i \in 1..n
               PROVE  /\ info[timers[i]].start \in Nat /\ info[timers[i]].duration \in Nat
                      /\ info[timers[i]].start <= clock /\ due(timers[i]) \in Nat /\ due(timers[i]) >= clock
                      /\ info[timers[i]].duration + Horizon < Wrap
    OBVIOUS
  <2>1. timers[i] \in Timers /\ timers[i] \in Listed
    BY <1>1
  <2>2. info[timers[i]] \in Info
    BY <2>1 DEF IInv, FramesOK
  <2>3. info[timers[i]].start \in Nat /\ info[timers[i]].duration \in Nat
    BY <2>2 DEF Info
  <2>4. info[timers[i]].start <= clock
    BY <2>1 DEF TimesOK
  <2>5. due(timers[i]) \in Deadlines
    BY <2>1 DEF Deadlines
  <2>6. info[timers[i]].duration + Horizon < Wrap
    BY <2>1 DEF ShortDurations, DurationsOK
  <2> QED
    BY <2>3, <2>4, <2>5, <2>6
<1>3. NextTime = at[n]
  BY DEF NextTime
<1>4. \A i \in 1..n, a \in Nat : Earlier(timers[i], a) \in Nat
  BY <1>2 DEF Earlier
<1>5. step \in [(1..n) \X Nat -> Nat] /\ \A i \in 1..n, a \in Nat : step[<<i, a>>] = Earlier(timers[i], a)
  BY <1>4
<1> HIDE DEF step, n, h
<1>6. PICK f \in [0..n -> Nat] : Follows(f, h, n, step)
  BY <1>1, <1>5, RecursionExists
<1>7. Is(f)
  <2>1. ASSUME NEW i \in 0..n PROVE f[i] = IF i = 0 THEN h ELSE Earlier(timers[i], f[i - 1])
    <3>1. CASE i = 0
      BY <3>1, <1>6 DEF Follows
    <3>2. CASE i # 0
      <4>1. i \in 1..n /\ i - 1 \in 0..n
        BY <3>2, <1>1
      <4> QED
        BY <3>2, <4>1, <1>5, <1>6 DEF Follows
    <3> QED
      BY <3>1, <3>2
  <2>2. f = [i \in 0..n |-> f[i]]
    OBVIOUS
  <2> QED
    BY <2>1, <2>2
<1>8. Is(at)
  <2> HIDE DEF Is
  <2> QED
    BY <1>7
<1> HIDE DEF at
<1>9. at[0] = h /\ \A i \in 1..n : at[i] = Earlier(timers[i], at[i - 1])
  <2>1. \A i \in 0..n : at[i] = IF i = 0 THEN h ELSE Earlier(timers[i], at[i - 1])
    BY <1>8
  <2>2. 0 \in 0..n /\ \A i \in 1..n : i \in 0..n /\ i # 0
    BY <1>1
  <2> QED
    BY <2>1, <2>2
<1> HIDE DEF Is
<1> DEFINE Good(i) == at[i] \in Dues(i) /\ \A d \in Dues(i) : at[i] <= d
           B == {i \in 0..n : ~Good(i)}
<1>10. 0 \notin B
  <2>1. Dues(0) = {h}
    OBVIOUS
  <2> QED
    BY <2>1, <1>1, <1>9
<1>11. ASSUME NEW i \in 1..n, i - 1 \notin B PROVE i \notin B
  <2> DEFINE t == timers[i]
             a == at[i - 1]
  <2>1. i - 1 \in 0..n /\ Good(i - 1)
    BY <1>1, <1>11
  <2>2. Dues(i) = Dues(i - 1) \cup {due(t)}
    <3>1. \A j : j \in 1..i <=> j \in 1..(i - 1) \/ j = i
      BY <1>1
    <3> QED
      BY <3>1
  <2>3. \A d \in Dues(i) : d \in Nat /\ clock <= d
    <3>1. clock <= h
      BY <1>1 DEF h
    <3>2. \A j \in 1..i : j \in 1..n
      BY <1>1
    <3> HIDE DEF due
    <3> QED
      BY <3>1, <3>2, <1>1, <1>2
  <2>4. a \in Nat /\ clock <= a /\ a <= clock + Horizon
    <3>1. a \in Dues(i - 1) /\ h \in Dues(i - 1) /\ a <= h
      BY <2>1
    <3> HIDE DEF Dues
    <3> QED
      BY <3>1, <2>2, <2>3 DEF h
  <2>5. (a - info[t].start) % Wrap = a - info[t].start
    <3> DEFINE s == info[t].start
               d == info[t].duration
    <3>1. s \in Nat /\ d \in Nat /\ s <= clock /\ clock <= s + d /\ d + Horizon < Wrap
      BY <1>2
    <3>2. a \in Nat /\ clock <= a /\ a <= clock + Horizon /\ clock \in Nat /\ Horizon \in Nat /\ Wrap \in Nat
      BY <2>4, <1>1
    <3> HIDE DEF s, d, a
    <3>3. a - s \in Nat /\ a - s < Wrap
      BY <3>1, <3>2
    <3> USE DEF s
    <3> QED
      BY <3>3, <1>1, Remainder
  <2>6. at[i] = Earlier(t, a)
    BY <1>9
  <2>7. CASE info[t].duration < a - info[t].start
    <3>1. at[i] = due(t)
      BY <2>5, <2>6, <2>7 DEF Earlier
    <3>2. due(t) < a
      BY <2>4, <2>7, <1>2
    <3>3. \A d \in Dues(i - 1) : a <= d /\ d \in Nat
      BY <2>1, <2>2, <2>3
    <3> DEFINE e == due(t)
    <3>4. e \in Nat /\ e < a /\ at[i] = e /\ Dues(i) = Dues(i - 1) \cup {e}
      BY <3>1, <3>2, <2>2, <1>2
    <3> HIDE DEF Dues, e, a
    <3>5. \A d \in Dues(i - 1) : e <= d
      BY <3>3, <3>4, <2>4
    <3>6. Good(i)
      BY <3>4, <3>5
    <3> QED
      BY <3>6
  <2>8. CASE ~(info[t].duration < a - info[t].start)
    <3>1. at[i] = a
      BY <2>5, <2>6, <2>8 DEF Earlier
    <3>2. a <= due(t)
      BY <2>4, <2>8, <1>2
    <3>3. a \in Dues(i - 1) /\ \A d \in Dues(i - 1) : a <= d
      BY <2>1
    <3> HIDE DEF Dues, due
    <3>4. Good(i)
      BY <3>1, <3>2, <3>3, <2>2
    <3> QED
      BY <3>4
  <2> QED
    BY <2>7, <2>8
<1>12. B = {}
  <2>1. B \in SUBSET (0..n)
    OBVIOUS
  <2> HIDE DEF B
  <2> QED
    BY <2>1, <1>1, <1>10, <1>11, NoFirstFailure
<1>13. Good(n)
  <2>1. n \in 0..n
    BY <1>1
  <2> QED
    BY <1>12, <2>1
<1>14. Dues(n) = Deadlines \cup {clock + Horizon}
  BY DEF Deadlines, Listed, n, h
<1>15. \A d \in Dues(n) : d \in Nat
  BY <1>1, <1>2
<1> HIDE DEF Dues
<1>16. \A d \in Dues(n) : (\A e \in Dues(n) : d <= e) => d = at[n]
  BY <1>13, <1>15
<1>17. at[n] = CHOOSE d \in Dues(n) : \A e \in Dues(n) : d <= e
  BY <1>13, <1>16
<1> QED
  BY <1>3, <1>14, <1>17 DEF Earliest

\* Every step keeps the durations.
LEMMA DurationsKeep ==
  ASSUME IInv, DurationsOK, [Next]_vars
  PROVE  DurationsOK'
<1>1. info \in [Timers -> Info] /\ \A t \in Timers : info[t] \in Info
  BY DEF IInv, FramesOK
<1>2. ASSUME NEW t, NEW x, t \in Timers => x.duration \in Durations \cup {0}, info' = [info EXCEPT ![t] = x]
      PROVE  DurationsOK'
  BY <1>1, <1>2 DEF DurationsOK
<1>3. ASSUME NEW inf \in [Timers -> Info], NEW lst, Free(inf, lst, stack'),
             \A t \in Timers : inf[t].duration = info[t].duration
      PROVE  DurationsOK'
  <2> DEFINE st == stack'
  <2>1. Free(inf, lst, st)
    BY <1>3
  <2> HIDE DEF st
  <2>2. \A t \in Timers : info'[t] = inf[t] \/ info'[t] = Zeroed
    BY <2>1, FreeIs
  <2> QED
    BY <1>3, <2>2 DEF DurationsOK, Zeroed
<1>4. ASSUME NEW t \in Timers, NEW i \in Ids, NEW d \in Durations, Add(t, i, d) PROVE DurationsOK'
  <2>1. Created(i, d).duration = d
    BY DEF Created, Zeroed
  <2> QED
    BY <1>2, <1>4, <2>1 DEF Add
<1>5. ASSUME NEW S \in SUBSET Listed, Remove(S) PROVE DurationsOK'
  BY <1>1, <1>3, <1>5 DEF Remove
<1>6. ASSUME NEW t \in Timers, Reset(t) \/ Suspend(t) \/ Resume(t) PROVE DurationsOK'
  <2>1. \A u \in Timers : info'[u].duration = info[u].duration
    <3>1. CASE Reset(t)
      BY <1>1, <3>1 DEF Reset
    <3>2. CASE Suspend(t)
      BY <1>1, <3>2 DEF Suspend
    <3>3. CASE Resume(t)
      <4>1. info' = [info EXCEPT ![t] = [info[t] EXCEPT !.suspend = FALSE, !.start = clock]]
        BY <1>1, <3>3 DEF Resume
      <4>2. [info[t] EXCEPT !.suspend = FALSE, !.start = clock].duration = info[t].duration
        BY <1>1 DEF Info
      <4> QED
        BY <1>1, <4>1, <4>2
    <3> QED
      BY <1>6, <3>1, <3>2, <3>3
  <2> QED
    BY <2>1 DEF DurationsOK
<1>7. ASSUME NEW t \in Timers, NEW d \in Durations, NEW r \in BOOLEAN, Modify(t, d, r) PROVE DurationsOK'
  <2> DEFINE x == [info[t] EXCEPT !.duration = d, !.start = IF r THEN clock ELSE @]
  <2>1. info' = [info EXCEPT ![t] = x]
    BY <1>1, <1>7 DEF Modify
  <2>2. x.duration = d
    BY <1>1 DEF Info
  <2> QED
    BY <1>2, <2>1, <2>2
<1>8. CASE Skip
  <2>1. info' = [info EXCEPT ![Chosen].now = Top.now]
    BY <1>8 DEF Skip
  <2> HIDE DEF Chosen
  <2>2. \A u \in Timers : info'[u].duration = info[u].duration
    BY <1>1, <2>1
  <2> QED
    BY <2>2 DEF DurationsOK
<1>9. ASSUME NEW t \in Timers, Call(t) PROVE DurationsOK'
  <2>1. \A u \in Timers : info'[u].duration = info[u].duration
    BY <1>1, <1>9 DEF Call
  <2> QED
    BY <2>1 DEF DurationsOK
<1>10. ASSUME stack # <<>>, NEW t \in Top.running PROVE t \in Timers /\ Top.now \in Nat
  BY <1>10, TopIs DEF IInv
<1>11. CASE ReturnRepeat
  <2>1. PICK t \in Top.running : Free([info EXCEPT ![t] = Restarted(t)], timers, stack')
    BY <1>11 DEF ReturnRepeat
  <2>2. t \in Timers /\ Top.now \in Nat
    BY <1>10, <1>11 DEF ReturnRepeat
  <2>3. Restarted(t) \in Info /\ Restarted(t).duration = info[t].duration
    BY <1>1, <2>2 DEF Restarted, Info
  <2> DEFINE inf == [info EXCEPT ![t] = Restarted(t)]
  <2>4. inf \in [Timers -> Info] /\ \A u \in Timers : inf[u].duration = info[u].duration
    BY <1>1, <2>3
  <2> QED
    BY <1>3, <2>1, <2>4
<1>12. CASE ReturnRemove
  <2>1. PICK t \in Top.running : Free([info EXCEPT ![t].busy = FALSE], timers', stack')
    BY <1>12 DEF ReturnRemove
  <2>2. t \in Timers
    BY <1>10, <1>12 DEF ReturnRemove
  <2> DEFINE x == [info[t] EXCEPT !.busy = FALSE]
             inf == [info EXCEPT ![t] = x]
  <2>3. x \in Info /\ x.duration = info[t].duration
    BY <1>1, <2>2 DEF Info
  <2>4. inf \in [Timers -> Info] /\ \A u \in Timers : inf[u].duration = info[u].duration
    BY <1>1, <2>3
  <2> QED
    BY <1>3, <2>1, <2>4
<1>13. info' = info => DurationsOK'
  BY DEF DurationsOK
<1> QED
  BY <1>4, <1>5, <1>6, <1>7, <1>8, <1>9, <1>11, <1>12, <1>13
  DEF Next, Tick, Dispatch, EndDispatch, vars

-----------------------------------------------------------------------------
(* The theorems about the list and the times. *)

FullInv == IInv /\ ListOK /\ TimesOK /\ DurationsOK

\* In the initial state the list is empty and no time is noted.
LEMMA InitFullInv == Init => FullInv
<1> SUFFICES ASSUME Init PROVE ListOK /\ TimesOK /\ DurationsOK
  BY InitIInv DEF FullInv
<1>1. timers = <<>> /\ Len(timers) = 0 /\ stack = <<>> /\ Len(stack) = 0
  BY DEF Init
<1>2. \A t \in Timers : info[t] = Zeroed /\ called_at[t] = 0
  BY DEF Init
<1>3. ListOK
  BY <1>1 DEF ListOK, Distinct, Listed
<1>4. TimesOK
  BY <1>1, <1>2, BoundsAssumption DEF Init, TimesOK, Zeroed
<1>5. DurationsOK
  BY <1>2 DEF DurationsOK, Zeroed
<1> QED
  BY <1>3, <1>4, <1>5

\* The whole invariant holds always.
LEMMA FullInvariance == Spec => []FullInv
<1>1. FullInv /\ [Next]_vars => FullInv'
  <2> SUFFICES ASSUME FullInv, [Next]_vars PROVE FullInv'
    OBVIOUS
  <2>1. IInv' /\ ListOK'
    BY NextIInv, ListKeeps DEF FullInv
  <2>2. TimesOK' /\ DurationsOK'
    BY <2>1, TimesKeeps, DurationsKeep DEF FullInv
  <2> QED
    BY <2>1, <2>2 DEF FullInv
<1> QED
  BY <1>1, InitFullInv, PTL DEF Spec

\* timer_manager_t holds what its fields' types say, no timer is in the list
\* twice and no id names two timers of the list.
THEOREM TypeCorrect == Spec => []TypeOK
<1>1. FullInv => TypeOK
  <2> SUFFICES ASSUME FullInv PROVE TypeOK
    OBVIOUS
  <2>1. ASSUME NEW i \in 1..Len(timers), NEW j \in 1..Len(timers), i # j
        PROVE  info[timers[i]].id # info[timers[j]].id
    BY <2>1 DEF FullInv, ListOK, Distinct, Listed
  <2> QED
    BY <2>1 DEF FullInv, IInv, FramesOK, ListOK, TimesOK, TypeOK, Depth
<1> QED
  BY <1>1, FullInvariance, PTL

\* timer_manager_dispatch_one calls a repeated timer no sooner than its duration
\* after the call before.
THEOREM PeriodKept == Spec => PeriodIsKept
<1>1. FullInv /\ [Next]_vars =>
        [\A t \in Timers : Call(t) /\ called_at[t] # 0 /\ info[t].start <= Top.now
            => Top.now - called_at[t] >= info[t].duration]_vars
  <2> SUFFICES ASSUME FullInv, NEW t \in Timers, Call(t), info[t].start <= Top.now
               PROVE  Top.now - called_at[t] >= info[t].duration
    OBVIOUS
  <2> DEFINE n == Top.now
             s == info[t].start
             c == called_at[t]
             d == info[t].duration
  <2>1. stack # <<>> /\ ~info[t].busy /\ d <= (n - s) % Wrap
    BY ChosenIs DEF Call, Walking, Due
  <2>2. n \in Nat
    BY <2>1, TopIs DEF FullInv, IInv
  <2>3. info[t] \in Info
    BY DEF FullInv, IInv, FramesOK
  <2>4. s \in Nat /\ d \in Nat
    BY <2>3 DEF Info
  <2>5. c \in Nat /\ c <= s
    BY <2>1 DEF FullInv, TimesOK
  <2>6. s <= n
    OBVIOUS
  <2> HIDE DEF n, s, c, d
  <2>7. n - s \in Nat /\ Wrap \in Nat \ {0}
    BY <2>2, <2>4, <2>6, DomainAssumption
  <2>8. (n - s) % Wrap <= n - s /\ (n - s) % Wrap \in Nat
    BY <2>7, Remainder
  <2>9. n - c >= d
    BY <2>1, <2>2, <2>4, <2>5, <2>8
  <2> QED
    BY <2>9 DEF n, c, d
<1> QED
  BY <1>1, FullInvariance, PTL DEF Spec, PeriodIsKept

\* timer_manager_next_time finds the earliest deadline, while none has passed.
THEOREM NextTimeIsEarliest == ASSUME ShortDurations PROVE Spec => []NextTimeWhenNoneOverdue
<1>1. FullInv => NextTimeWhenNoneOverdue
  BY NextTimeIs DEF FullInv, NextTimeWhenNoneOverdue
<1> QED
  BY <1>1, FullInvariance, PTL

=============================================================================
