--------------------------- MODULE UiThread_proofs ---------------------------
(***************************************************************************)
(* What holds for any threads, calls, idle functions, capacity of the      *)
(* queue and depth of main loops: no idle function runs inside itself, no  *)
(* waiting call comes back before its function has ended or is lost, calls *)
(* are called in the order in which the queue took them, each is destroyed *)
(* once, and its info is allocated until done is set.                      *)
(*                                                                         *)
(* The argument has two tiers.  IInv: the main loops in progress are a     *)
(* stack that changes in its last frame only; busy is set exactly for the  *)
(* idle functions that the frames run (FramesOK), and the dispatch chooses *)
(* one that is not busy.  A frame that has gone past func of a call has    *)
(* its result, which nobody takes away; done is set only there, and a      *)
(* caller goes past its wait only when done is set (Ended).                *)
(* FullInv adds where the calls are: no item is in the queue or the list   *)
(* twice, or in both (Lists); after tk_exit the queue is empty, and what   *)
(* was in it is in no list (LostOK); the calls to come are in the list and *)
(* the queue, in this order, or lost, not busy and not marked by a         *)
(* dispatch, so the first of them is the first that is available           *)
(* (InOrder); a call is nowhere before its request is queued and nowhere   *)
(* after on_destroy (Life).  Told, at the end, is about the info that two  *)
(* threads share: a call that waits is on its way, runs, is done, or has   *)
(* been lost.                                                              *)
(***************************************************************************)
EXTENDS UiThread, WellFoundedInduction, TLAPS

-----------------------------------------------------------------------------
(* The inductive invariant. *)

PastFunc == {"done", "result"}
FuncRets == Rets \cup {"none", "RET_REPEAT"}

\* The main loops st, when the idle functions b are busy and the functions have
\* returned fr.
FramesOK(st, b, fr) ==
  /\ st \in Seq(Frame)
  /\ b \subseteq Idles
  /\ fr \in [Calls -> FuncRets]
  /\ \A k \in 1..Len(st) : \A x, y \in st[k].running : x = y
  /\ \A k, m \in 1..Len(st) : k # m => st[k].running \cap st[m].running = {}
  /\ \A x \in Idles : x \in b <=> \E k \in 1..Len(st) : x \in st[k].running
  /\ \A k \in 1..Len(st) : st[k].at \in PastFunc =>
       \A c \in st[k].running \cap Calls : fr[c] # "none"

\* Whose function has ended, as the callers see it.
Ended ==
  /\ cpc \in [Callers -> {"idle", "queue", "wait", "read", "free"}]
  /\ call \in [Callers -> Calls \cup {NULL}]
  /\ done \subseteq Calls
  /\ \A c \in done : func_ret[c] # "none"
  /\ \A t \in Callers : cpc[t] \in {"read", "free"} =>
       call[t] \in Calls /\ func_ret[call[t]] # "none"

IInv == FramesOK(stack, busy, func_ret) /\ Ended

-----------------------------------------------------------------------------
(* What the steps do to the frames. *)

\* idle_manager_dispatch takes an idle function from the list that is there.
LEMMA SmallestIsIn ==
  ASSUME NEW S \in SUBSET Nat, S # {}
  PROVE  LET k == CHOOSE i \in S : \A j \in S : i <= j
         IN  k \in S /\ \A j \in S : k <= j
<1> DEFINE Less == {ss \in Nat \X Nat : ss[1] < ss[2]}
<1>1. IsWellFoundedOn(Less, Nat)
  BY NatLessThanWellFounded DEF OpToRel
<1> HIDE DEF Less
<1>2. PICK i \in S : \A j \in S : <<j, i>> \notin Less
  BY <1>1, WFMin
<1>3. ASSUME NEW j \in S PROVE i <= j
  <2>1. i \in Nat /\ j \in Nat /\ <<j, i>> \in Nat \X Nat
    OBVIOUS
  <2>2. ~(j < i)
    BY <1>2, <2>1 DEF Less
  <2> QED
    BY <2>1, <2>2
<1> QED
  BY <1>3

\* The innermost main loop.
LEMMA TopIs ==
  ASSUME FramesOK(stack, busy, func_ret), stack # <<>>
  PROVE  /\ Len(stack) \in 1..Len(stack) /\ Len(stack) \in Nat /\ Top = stack[Len(stack)]
         /\ Top \in Frame /\ Top.running \in SUBSET Idles
<1>1. Len(stack) \in 1..Len(stack) /\ Len(stack) \in Nat
  BY DEF FramesOK
<1>2. Top = stack[Len(stack)] /\ Top \in Frame
  BY <1>1 DEF FramesOK, Top, Depth
<1> QED
  BY <1>1, <1>2 DEF Frame

\* It changes to f: what f runs is not busy, or was run before.
LEMMA TopSet ==
  ASSUME FramesOK(stack, busy, func_ret), stack # <<>>,
         NEW f \in Frame, SetTop(f),
         \A x, y \in f.running : x = y,
         busy' = (busy \ Top.running) \cup f.running,
         f.running \cap (busy \ Top.running) = {},
         func_ret' \in [Calls -> FuncRets],
         \A c \in Calls : func_ret[c] # "none" => func_ret'[c] # "none",
         f.at \in PastFunc => \A c \in f.running \cap Calls : func_ret'[c] # "none"
  PROVE  FramesOK(stack', busy', func_ret')
<1> USE DEF FramesOK
<1>1. /\ Len(stack) \in 1..Len(stack) /\ Top = stack[Len(stack)]
      /\ Top \in Frame /\ Top.running \in SUBSET Idles
  BY TopIs
<1>2. stack' = [stack EXCEPT ![Len(stack)] = f]
  BY DEF SetTop, Depth
<1>3. stack' \in Seq(Frame) /\ Len(stack') = Len(stack)
  BY <1>1, <1>2
<1>4. \A k \in 1..Len(stack) : stack'[k] = IF k = Len(stack) THEN f ELSE stack[k]
  BY <1>1, <1>2
<1>5. f.running \subseteq Idles
  BY DEF Frame
<1>6. busy' \subseteq Idles
  BY <1>5
<1>7. \A k \in 1..Len(stack) : k # Len(stack) => stack[k].running \subseteq busy \ Top.running
  <2> SUFFICES ASSUME NEW k \in 1..Len(stack), k # Len(stack)
               PROVE  stack[k].running \subseteq busy \ Top.running
    OBVIOUS
  <2>1. stack[k].running \cap Top.running = {}
    BY <1>1
  <2>2. stack[k] \in Frame
    OBVIOUS
  <2>3. stack[k].running \subseteq Idles
    BY <2>2 DEF Frame
  <2> QED
    BY <2>1, <2>3
<1>8. \A k \in 1..Len(stack') : \A x, y \in stack'[k].running : x = y
  BY <1>3, <1>4
<1>9. \A k, m \in 1..Len(stack') : k # m => stack'[k].running \cap stack'[m].running = {}
  BY <1>3, <1>4, <1>7
<1>10. ASSUME NEW x \in Idles
       PROVE  x \in busy' <=> \E k \in 1..Len(stack') : x \in stack'[k].running
  <2>1. CASE x \in f.running
    BY <2>1, <1>1, <1>3, <1>4
  <2>2. CASE x \notin f.running /\ x \in Top.running
    BY <2>2, <1>1, <1>3, <1>4, <1>7
  <2>3. CASE x \notin f.running /\ x \notin Top.running
    <3>1. x \in busy' <=> x \in busy
      BY <2>3
    <3>2. \A k \in 1..Len(stack) : x \in stack'[k].running <=> x \in stack[k].running
      BY <2>3, <1>1, <1>4
    <3> QED
      BY <3>1, <3>2, <1>3
  <2> QED
    BY <2>1, <2>2, <2>3
<1>11. ASSUME NEW k \in 1..Len(stack'), stack'[k].at \in PastFunc
       PROVE  \A c \in stack'[k].running \cap Calls : func_ret'[c] # "none"
  BY <1>3, <1>4, <1>11
<1> QED
  BY <1>3, <1>6, <1>8, <1>9, <1>10, <1>11

\* A main loop begins inside the callback.
LEMMA Pushed ==
  ASSUME FramesOK(stack, busy, func_ret), stack' = Append(stack, NewLoop)
  PROVE  FramesOK(stack', busy, func_ret)
<1> USE DEF FramesOK
<1>1. NewLoop \in Frame /\ NewLoop.running = {} /\ NewLoop.at \notin PastFunc
  BY DEF NewLoop, Frame, PastFunc
<1>2. Len(stack) \in Nat
  OBVIOUS
<1>3. /\ stack' \in Seq(Frame) /\ Len(stack') = Len(stack) + 1
      /\ \A k \in 1..Len(stack) : stack'[k] = stack[k]
      /\ stack'[Len(stack) + 1] = NewLoop
  BY <1>1
<1>4. ASSUME NEW k \in 1..Len(stack')
      PROVE  k \in 1..Len(stack) \/ (stack'[k].running = {} /\ stack'[k].at \notin PastFunc)
  <2>1. k \in 1..Len(stack) \/ k = Len(stack) + 1
    BY <1>2, <1>3
  <2>2. CASE k = Len(stack) + 1
    BY <2>2, <1>1, <1>3
  <2> QED
    BY <2>1, <2>2
<1>5. \A x : (\E k \in 1..Len(stack') : x \in stack'[k].running)
          <=> (\E k \in 1..Len(stack) : x \in stack[k].running)
  BY <1>2, <1>3, <1>4
<1>6. \A k \in 1..Len(stack') : \A x, y \in stack'[k].running : x = y
  BY <1>3, <1>4
<1>7. \A k, m \in 1..Len(stack') : k # m => stack'[k].running \cap stack'[m].running = {}
  BY <1>3, <1>4
<1>8. \A k \in 1..Len(stack') : stack'[k].at \in PastFunc =>
        \A c \in stack'[k].running \cap Calls : func_ret[c] # "none"
  BY <1>3, <1>4
<1> QED
  BY <1>3, <1>5, <1>6, <1>7, <1>8

\* A main loop ends between two of its steps.
LEMMA Popped ==
  ASSUME FramesOK(stack, busy, func_ret), AtLoopHead, stack' = SubSeq(stack, 1, Depth - 1)
  PROVE  FramesOK(stack', busy, func_ret)
<1> USE DEF FramesOK, Depth
<1>1. /\ Len(stack) \in 1..Len(stack) /\ Len(stack) \in Nat
      /\ stack[Len(stack)].running = {}
  BY TopIs DEF AtLoopHead, NewLoop
<1>2. /\ stack' \in Seq(Frame) /\ Len(stack') = Len(stack) - 1
      /\ \A k \in 1..Len(stack') : stack'[k] = stack[k]
  <2>1. PICK n \in Nat : n = Len(stack) - 1
    BY <1>1
  <2>2. stack' = [k \in 1..n |-> stack[k]]
    BY <2>1
  <2>3. \A k \in 1..n : stack[k] \in Frame
    BY <2>1, <1>1
  <2> HIDE DEF FramesOK, Depth
  <2>4. n \in Nat
    BY <2>1
  <2>5. [k \in 1..n |-> stack[k]] \in Seq(Frame) /\ Len([k \in 1..n |-> stack[k]]) = n
    BY <2>4, <2>3
  <2> QED
    BY <2>1, <2>2, <2>5
<1>3. \A k \in 1..Len(stack') : k \in 1..Len(stack)
  BY <1>1, <1>2
<1>4. \A k \in 1..Len(stack) : k \in 1..Len(stack') \/ stack[k].running = {}
  BY <1>1, <1>2
<1>5. \A x : (\E k \in 1..Len(stack') : x \in stack'[k].running)
          <=> (\E k \in 1..Len(stack) : x \in stack[k].running)
  BY <1>2, <1>3, <1>4
<1>6. \A k \in 1..Len(stack') : \A x, y \in stack'[k].running : x = y
  BY <1>2, <1>3
<1>7. \A k, m \in 1..Len(stack') : k # m => stack'[k].running \cap stack'[m].running = {}
  BY <1>2, <1>3
<1>8. \A k \in 1..Len(stack') : stack'[k].at \in PastFunc =>
        \A c \in stack'[k].running \cap Calls : func_ret[c] # "none"
  BY <1>2, <1>3
<1> QED
  BY <1>2, <1>5, <1>6, <1>7, <1>8

-----------------------------------------------------------------------------
(* The steps. *)

\* Only the main loop of the program runs, and nothing in it.
LEMMA InitIInv == Init => IInv
<1> SUFFICES ASSUME Init PROVE IInv
  OBVIOUS
<1>1. NewLoop \in Frame /\ NewLoop.running = {} /\ NewLoop.at \notin PastFunc
  BY DEF NewLoop, Frame, PastFunc
<1>2. stack = <<NewLoop>> /\ busy = {} /\ func_ret = [c \in Calls |-> "none"]
  BY DEF Init
<1>3. stack \in Seq(Frame) /\ Len(stack) = 1 /\ stack[1] = NewLoop
  BY <1>1, <1>2
<1>4. func_ret \in [Calls -> FuncRets]
  BY <1>2 DEF FuncRets
<1>5. FramesOK(stack, busy, func_ret)
  BY <1>1, <1>2, <1>3, <1>4 DEF FramesOK
<1>6. Ended
  BY DEF Init, Ended
<1> QED
  BY <1>5, <1>6 DEF IInv

\* A caller takes a step, or the UI thread one that no caller sees.
LEMMA EndedStays ==
  ASSUME Ended, UNCHANGED <<cpc, call>>, done' = done,
         \A c \in Calls : func_ret[c] # "none" => func_ret'[c] # "none"
  PROVE  Ended'
BY DEF Ended

\* A background thread.
LEMMA CallerKeeps == ASSUME IInv, NEW t \in Callers, CallerStep(t) PROVE IInv'
<1> USE DEF IInv, ui
<1>1. UNCHANGED <<stack, busy, func_ret>>
  BY DEF CallerStep, Queue, Refused, Retry, GiveUp, SeeDone, ReadResult, FreeInfo
<1>2. FramesOK(stack', busy', func_ret')
  BY <1>1
<1>3. Ended'
  <2> USE DEF Ended
  <2>1. CASE Queue(t)
    BY <2>1, <1>1 DEF Queue, InfoCreated, Return
  <2>2. CASE Refused(t)
    BY <2>2, <1>1 DEF Refused, Return
  <2>3. CASE Retry(t)
    BY <2>3, <1>1 DEF Retry
  <2>4. CASE GiveUp(t)
    BY <2>4, <1>1 DEF GiveUp, Return
  <2>5. CASE SeeDone(t)
    BY <2>5, <1>1 DEF SeeDone
  <2>6. CASE ReadResult(t)
    BY <2>6, <1>1 DEF ReadResult
  <2>7. CASE FreeInfo(t)
    BY <2>7, <1>1 DEF FreeInfo, Return
  <2> QED
    BY <2>1, <2>2, <2>3, <2>4, <2>5, <2>6, <2>7 DEF CallerStep
<1> QED
  BY <1>2, <1>3 DEF FramesOK

\* tk_run_in_ui_thread is called.
LEMMA CallKeeps == ASSUME IInv, NEW t \in Callers, NEW c \in Calls, Call(t, c) PROVE IInv'
<1>1. Ended'
  BY DEF IInv, Call, Ended, ui
<1>2. UNCHANGED <<stack, busy, func_ret>>
  BY DEF Call, ui
<1> QED
  BY <1>1, <1>2 DEF IInv, FramesOK

\* The innermost main loop goes on, outside of idle functions or inside one.
LEMMA LoopGoesOn ==
  ASSUME IInv, stack # <<>>, NEW f \in Frame, SetTop(f), f.running = Top.running,
         UNCHANGED <<busy, cpc, call, done>>,
         func_ret' \in [Calls -> FuncRets],
         \A c \in Calls : func_ret[c] # "none" => func_ret'[c] # "none",
         f.at \in PastFunc => \A c \in f.running \cap Calls : func_ret'[c] # "none"
  PROVE  IInv'
<1> USE DEF IInv
<1>1. Top.running \in SUBSET busy /\ \A x, y \in Top.running : x = y
  BY TopIs DEF FramesOK
<1>2. busy' = (busy \ Top.running) \cup f.running
  BY <1>1
<1>3. f.running \cap (busy \ Top.running) = {} /\ \A x, y \in f.running : x = y
  BY <1>1
<1> HIDE DEF IInv
<1>4. FramesOK(stack, busy, func_ret)
  BY DEF IInv
<1>5. FramesOK(stack', busy', func_ret')
  BY <1>2, <1>3, <1>4, TopSet
<1>6. Ended'
  BY EndedStays DEF IInv
<1> QED
  BY <1>5, <1>6 DEF IInv, FramesOK

\* An idle function returns, and stays in the list or not.
LEMMA CallbackReturned ==
  ASSUME IInv, stack # <<>>, NEW i, Top.running = {i}, SetTop(Returned), busy' = busy \ {i},
         UNCHANGED <<cpc, call, done>>,
         func_ret' \in [Calls -> FuncRets],
         \A c \in Calls : func_ret[c] # "none" => func_ret'[c] # "none"
  PROVE  IInv'
<1>1. FramesOK(stack, busy, func_ret) /\ Ended
  BY DEF IInv
<1>2. Returned \in Frame /\ Returned.running = {} /\ Returned.at \notin PastFunc
  BY <1>1, TopIs DEF Returned, Frame, PastFunc
<1>3. busy' = (busy \ Top.running) \cup Returned.running
  BY <1>2
<1>4. FramesOK(stack', busy', func_ret')
  BY <1>1, <1>2, <1>3, TopSet
<1>5. Ended'
  BY <1>1, EndedStays
<1> QED
  BY <1>4, <1>5 DEF IInv, FramesOK

\* idle_manager_dispatch_one calls an idle function.
LEMMA CallIdleKeeps == ASSUME IInv, NEW i \in Idles, CallIdle(i) PROVE IInv'
<1> DEFINE f == [Top EXCEPT !.running = {i}, !.at = "func"]
<1>1. FramesOK(stack, busy, func_ret) /\ Ended
  BY DEF IInv
<1>2. stack # <<>> /\ Top.running = {} /\ SetTop(f) /\ busy' = busy \cup {i}
      /\ UNCHANGED <<cpc, call, done, func_ret>>
  BY DEF CallIdle, Dispatching, caller
<1>3. i \notin busy
  <2>1. Candidates \in SUBSET Nat /\ Candidates # {}
    BY DEF CallIdle, Candidates
  <2>2. (CHOOSE k \in Candidates : \A m \in Candidates : k <= m) \in Candidates
    BY <2>1, SmallestIsIn
  <2> QED
    BY <2>2 DEF CallIdle, Chosen, Candidates, Available
<1>4. f \in Frame /\ f.running = {i} /\ f.at \notin PastFunc
  BY <1>1, <1>2, TopIs DEF Frame, PastFunc
<1> HIDE DEF f
<1>5. busy' = (busy \ Top.running) \cup f.running /\ f.running \cap (busy \ Top.running) = {}
  BY <1>2, <1>3, <1>4
<1>6. func_ret' \in [Calls -> FuncRets]
  BY <1>1, <1>2 DEF FramesOK
<1>7. FramesOK(stack', busy', func_ret')
  BY <1>1, <1>2, <1>4, <1>5, <1>6, TopSet
<1>8. Ended'
  BY <1>1, <1>2, EndedStays
<1> QED
  BY <1>7, <1>8 DEF IInv, FramesOK

\* A step of the innermost main loop.
LEMMA LoopStepKeeps == ASSUME IInv, LoopStep PROVE IInv'
<1> USE DEF caller
<1>1. func_ret \in [Calls -> FuncRets]
  BY DEF IInv, FramesOK
<1>2. stack # <<>> => Top \in Frame /\ NewLoop \in Frame
  BY TopIs DEF IInv, NewLoop, Frame
<1>3. stack # <<>> /\ Top.at \in PastFunc => \A c \in Top.running \cap Calls : func_ret[c] # "none"
  BY TopIs DEF IInv, FramesOK
<1>4. ASSUME stack # <<>>, NEW f \in Frame, SetTop(f), f.running = Top.running,
             UNCHANGED <<busy, cpc, call, done, func_ret>>, f.at = Top.at
      PROVE  IInv'
  BY <1>1, <1>3, <1>4, LoopGoesOn
<1>5. CASE ReceiveRequest
  <2> DEFINE f == [Top EXCEPT !.some = TRUE]
  <2>1. stack # <<>> /\ SetTop(f) /\ UNCHANGED <<busy, cpc, call, done, func_ret>>
    BY <1>5 DEF ReceiveRequest, Receiving
  <2>2. f \in Frame /\ f.running = Top.running /\ f.at = Top.at
    BY <1>2, <2>1 DEF Frame
  <2> QED
    BY <1>4, <2>1, <2>2
<1>6. CASE EventsEnd
  <2> DEFINE f == [Top EXCEPT !.phase = "idles", !.some = FALSE]
  <2>1. stack # <<>> /\ SetTop(f) /\ UNCHANGED <<busy, cpc, call, done, func_ret>>
    BY <1>6 DEF EventsEnd, Receiving
  <2>2. f \in Frame /\ f.running = Top.running /\ f.at = Top.at
    BY <1>2, <2>1 DEF Frame
  <2> QED
    BY <1>4, <2>1, <2>2
<1>7. CASE IdlesEnd
  <2> DEFINE f == IF quited THEN [NewLoop EXCEPT !.phase = "exit"] ELSE NewLoop
  <2>1. stack # <<>> /\ SetTop(f) /\ Top.running = {}
        /\ UNCHANGED <<busy, cpc, call, done, func_ret>>
    BY <1>7 DEF IdlesEnd, Dispatching
  <2>2. f \in Frame /\ f.running = Top.running /\ f.at \notin PastFunc
    BY <2>1 DEF NewLoop, PastFunc, Frame
  <2> HIDE DEF f
  <2> QED
    BY <1>1, <2>1, <2>2, LoopGoesOn
<1>8. ASSUME NEW i \in Idles, CallIdle(i) PROVE IInv'
  BY <1>8, CallIdleKeeps
<1>9. ASSUME NEW c \in Calls, SetDone(c) PROVE IInv'
  <2> DEFINE f == [Top EXCEPT !.at = "result"]
  <2>1. stack # <<>> /\ Top.at = "done" /\ Top.running = {c} /\ SetTop(f)
        /\ done' = done \cup {c} /\ UNCHANGED <<busy, cpc, call, func_ret>>
    BY <1>9 DEF SetDone
  <2>2. func_ret[c] # "none"
    BY <1>3, <2>1 DEF PastFunc
  <2>3. f \in Frame /\ f.running = Top.running
    BY <1>2, <2>1 DEF Frame
  <2> HIDE DEF f
  <2>4. /\ \A x, y \in f.running : x = y
        /\ busy' = (busy \ Top.running) \cup f.running
        /\ f.running \cap (busy \ Top.running) = {}
    <3>1. c \in busy
      BY <2>1, TopIs DEF IInv, FramesOK
    <3> QED
      BY <2>1, <2>3, <3>1
  <2>5. \A d \in f.running \cap Calls : func_ret'[d] # "none"
    BY <2>1, <2>2, <2>3
  <2>6. FramesOK(stack', busy', func_ret')
    BY <1>1, <2>1, <2>3, <2>4, <2>5, TopSet DEF IInv
  <2>7. Ended'
    BY <2>1, <2>2 DEF IInv, Ended
  <2> QED
    BY <2>6, <2>7 DEF IInv, FramesOK
<1>10. ASSUME NEW c \in Calls, SetResult(c) PROVE IInv'
  BY <1>1, <1>10, CallbackReturned DEF SetResult, LeavesList
<1>11. CASE ReceiveEvent
  <2> DEFINE f == [Top EXCEPT !.some = TRUE, !.at = "other"]
  <2>1. stack # <<>> /\ SetTop(f) /\ UNCHANGED <<busy, cpc, call, done, func_ret>>
    BY <1>11 DEF ReceiveEvent, Receiving
  <2>2. f \in Frame /\ f.running = Top.running /\ f.at \notin PastFunc
    BY <1>2, <2>1 DEF Frame, PastFunc
  <2> HIDE DEF f
  <2> QED
    BY <1>1, <2>1, <2>2, LoopGoesOn
<1>12. CASE Deinit
  <2>1. /\ stack' = <<>> /\ UNCHANGED <<busy, cpc, call, done, func_ret>>
        /\ stack # <<>> /\ Len(stack) = 1 /\ Top.running = {}
    BY <1>12 DEF Deinit, Dispatching, Depth
  <2>2. \A k \in 1..Len(stack) : stack[k].running = {}
    BY <2>1, TopIs DEF IInv
  <2>3. busy = {}
    BY <2>2 DEF IInv, FramesOK
  <2> QED
    BY <2>1, <2>3 DEF IInv, FramesOK, Ended
<1> QED
  BY <1>5, <1>6, <1>7, <1>8, <1>9, <1>10, <1>11, <1>12 DEF LoopStep

\* The callback of an idle function, or func of a call, returns.
LEMMA CallbackKeeps == ASSUME IInv, CallbackReturns PROVE IInv'
<1> USE DEF caller
<1>1. func_ret \in [Calls -> FuncRets]
  BY DEF IInv, FramesOK
<1>2. ASSUME NEW c \in Calls, NEW r \in Rets \cup {"RET_REPEAT"},
             func_ret' = [func_ret EXCEPT ![c] = r]
      PROVE  /\ func_ret' \in [Calls -> FuncRets]
             /\ \A d \in Calls : func_ret[d] # "none" => func_ret'[d] # "none"
             /\ func_ret'[c] # "none"
  BY <1>1, <1>2 DEF FuncRets, Rets
<1>3. ASSUME NEW i \in Local, ReturnLocal(i) PROVE IInv'
  BY <1>1, <1>3, CallbackReturned DEF ReturnLocal, InCallback, StaysInList, LeavesList
<1>4. ASSUME NEW c \in Calls, Repeat(c) PROVE IInv'
  <2>1. func_ret' = [func_ret EXCEPT ![c] = "RET_REPEAT"]
    BY <1>4 DEF Repeat
  <2> QED
    BY <1>2, <1>4, <2>1, CallbackReturned DEF Repeat, InCallback, StaysInList
<1>5. ASSUME NEW c \in Calls, Finish(c) PROVE IInv'
  <2>1. func_ret' = [func_ret EXCEPT ![c] = "RET_OK"] /\ "RET_OK" \in Rets
    BY <1>5 DEF Finish, Rets
  <2> QED
    BY <1>2, <1>5, <2>1, CallbackReturned DEF Finish, InCallback, LeavesList
<1>6. ASSUME NEW c \in Calls, NEW ret \in Rets, FinishSync(c, ret) PROVE IInv'
  <2> DEFINE f == [Top EXCEPT !.at = "done"]
  <2>1. stack # <<>> /\ Top.running = {c} /\ SetTop(f)
        /\ func_ret' = [func_ret EXCEPT ![c] = ret] /\ UNCHANGED <<busy, cpc, call, done>>
    BY <1>6 DEF FinishSync, InCallback
  <2>2. f \in Frame /\ f.running = {c}
    BY <2>1, TopIs DEF IInv, Frame
  <2>3. /\ func_ret' \in [Calls -> FuncRets]
        /\ \A d \in Calls : func_ret[d] # "none" => func_ret'[d] # "none"
        /\ func_ret'[c] # "none"
    BY <1>2, <2>1
  <2> HIDE DEF f
  <2> QED
    BY <2>1, <2>2, <2>3, LoopGoesOn
<1>7. CASE OtherReturns
  <2> DEFINE f == [Top EXCEPT !.at = "-"]
  <2>1. stack # <<>> /\ SetTop(f) /\ UNCHANGED <<busy, cpc, call, done, func_ret>>
    BY <1>7 DEF OtherReturns
  <2>2. f \in Frame /\ f.running = Top.running /\ f.at \notin PastFunc
    BY <2>1, TopIs DEF IInv, Frame, PastFunc
  <2> HIDE DEF f
  <2> QED
    BY <1>1, <2>1, <2>2, LoopGoesOn
<1> QED
  BY <1>3, <1>4, <1>5, <1>6, <1>7 DEF CallbackReturns

\* Every step keeps the invariant.
LEMMA NextIInv == IInv /\ [Next]_vars => IInv'
<1> SUFFICES ASSUME IInv, [Next]_vars PROVE IInv'
  OBVIOUS
<1> USE DEF caller
<1>1. FramesOK(stack, busy, func_ret) /\ Ended
  BY DEF IInv
<1>2. ASSUME FramesOK(stack', busy', func_ret'), UNCHANGED <<cpc, call, done, func_ret>> PROVE IInv'
  BY <1>1, <1>2 DEF IInv, Ended, FramesOK
<1>3. CASE OpenLoop
  BY <1>1, <1>2, <1>3, Pushed DEF OpenLoop
<1>4. CASE CloseLoop
  BY <1>1, <1>2, <1>4, Popped DEF CloseLoop
<1>5. ASSUME NEW i \in Local, AddLocal(i) \/ RemoveLocal(i) PROVE IInv'
  BY <1>1, <1>2, <1>5 DEF AddLocal, RemoveLocal
<1>6. CASE Quit
  <2> DEFINE f == [NewLoop EXCEPT !.phase = "idles"]
  <2>1. stack # <<>> /\ SetTop(f) /\ Top = NewLoop /\ UNCHANGED <<busy, cpc, call, done, func_ret>>
    BY <1>6 DEF Quit, AtLoopHead
  <2>2. f \in Frame /\ f.running = Top.running /\ f.at \notin PastFunc
    BY <2>1 DEF NewLoop, Frame, PastFunc
  <2>3. func_ret' \in [Calls -> FuncRets]
    BY <1>1, <2>1 DEF FramesOK
  <2> HIDE DEF f
  <2> QED
    BY <2>1, <2>2, <2>3, LoopGoesOn
<1>7. CASE UNCHANGED vars
  BY <1>1, <1>2, <1>7 DEF vars, ui
<1>8. ASSUME NEW e \in Events, PostEvent(e) PROVE IInv'
  BY <1>1, <1>2, <1>8 DEF PostEvent, ui
<1> QED
  BY <1>3, <1>4, <1>5, <1>6, <1>7, <1>8, CallerKeeps, CallKeeps, LoopStepKeeps, CallbackKeeps DEF Next

\* The inductive invariant holds always.
LEMMA Invariance == Spec => []IInv
<1> QED
  BY InitIInv, NextIInv, PTL DEF Spec

\* idle_manager_dispatch never calls an idle function that runs, and busy is set
\* for those that do.
THEOREM IdlesDoNotNest == Spec => []NoReentry
<1>1. IInv => NoReentry
  <2> SUFFICES ASSUME IInv PROVE NoReentry
    OBVIOUS
  <2>1. \A k \in 1..Len(stack) : stack[k] \in Frame
    BY DEF IInv, FramesOK
  <2>2. \A k \in 1..Len(stack) : stack[k].running \subseteq Idles
    BY <2>1 DEF Frame
  <2>3. \A x : x \in Running <=> \E k \in 1..Len(stack) : x \in stack[k].running
    BY DEF Running, Depth
  <2>4. \A x : x \in busy <=> x \in Running
    BY <2>2, <2>3 DEF IInv, FramesOK
  <2> QED
    BY <2>4 DEF IInv, FramesOK, NoReentry, Depth
<1> QED
  BY <1>1, Invariance, PTL

\* A call of the tk_run_in_ui_thread family that waits comes back only after func
\* has returned.
THEOREM WaitsForFunc == Spec => []SyncWaits
<1>1. IInv => SyncWaits
  BY DEF IInv, Ended, SyncWaits
<1> QED
  BY <1>1, Invariance, PTL

-----------------------------------------------------------------------------
(* The queue, the idle list and the calls to come as sequences.            *)

Elems(q) == {q[i] : i \in 1..Len(q)}
Distinct(q) == \A i, j \in 1..Len(q) : i # j => q[i] # q[j]
Before(q, y, z) == \E i, j \in 1..Len(q) : i < j /\ q[i] = y /\ q[j] = z

\* A queue or list gets an item at its end.
LEMMA AppendIs ==
  ASSUME NEW S, NEW q \in Seq(S), NEW x \in S
  PROVE  /\ Append(q, x) \in Seq(S) /\ Len(Append(q, x)) = Len(q) + 1
         /\ Elems(Append(q, x)) = Elems(q) \cup {x}
         /\ Distinct(q) /\ x \notin Elems(q) => Distinct(Append(q, x))
         /\ \A y, z : Before(q, y, z) => Before(Append(q, x), y, z)
         /\ \A y \in Elems(q) : Before(Append(q, x), y, x)
         /\ \A y, z : Before(Append(q, x), y, z) => Before(q, y, z) \/ (y \in Elems(q) /\ z = x)
<1> DEFINE r == Append(q, x)
           n == Len(q)
<1>1. /\ n \in Nat /\ r \in Seq(S) /\ Len(r) = n + 1
      /\ \A i \in 1..n : r[i] = q[i]
      /\ r[n + 1] = x
  OBVIOUS
<1> HIDE DEF r, n
<1>2. \A i \in 1..Len(r) : i \in 1..n \/ i = n + 1
  BY <1>1
<1>3. 1..n \subseteq 1..Len(r) /\ n + 1 \in 1..Len(r) /\ \A i \in 1..n : i < n + 1
  BY <1>1
<1>4. Elems(r) = Elems(q) \cup {x}
  BY <1>1, <1>2, <1>3 DEF Elems, n
<1>5. Distinct(q) /\ x \notin Elems(q) => Distinct(r)
  BY <1>1, <1>2, <1>3 DEF Elems, Distinct, n
<1>6. \A y, z : Before(q, y, z) => Before(r, y, z)
  BY <1>1, <1>3 DEF Before, n
<1>7. \A y \in Elems(q) : Before(r, y, x)
  BY <1>1, <1>3 DEF Before, Elems, n
<1>8. ASSUME NEW y, NEW z, Before(r, y, z) PROVE Before(q, y, z) \/ (y \in Elems(q) /\ z = x)
  <2>1. PICK i, j \in 1..Len(r) : i < j /\ r[i] = y /\ r[j] = z
    BY <1>8 DEF Before
  <2>2. i \in 1..n
    BY <2>1, <1>1, <1>2
  <2>3. CASE j \in 1..n
    BY <2>1, <2>2, <2>3, <1>1 DEF Before, n
  <2>4. CASE j = n + 1
    BY <2>1, <2>2, <2>4, <1>1 DEF Elems, n
  <2> QED
    BY <2>3, <2>4, <1>2
<1> QED
  BY <1>1, <1>4, <1>5, <1>6, <1>7, <1>8 DEF r, n

\* The first item is taken.
LEMMA TailIs ==
  ASSUME NEW S, NEW q \in Seq(S), q # <<>>
  PROVE  /\ Head(q) \in S /\ Tail(q) \in Seq(S) /\ Len(Tail(q)) = Len(q) - 1
         /\ Elems(q) = Elems(Tail(q)) \cup {Head(q)}
         /\ Distinct(q) => Distinct(Tail(q)) /\ Head(q) \notin Elems(Tail(q))
         /\ \A y, z : Before(q, y, z) =>
              Before(Tail(q), y, z) \/ (y = Head(q) /\ z \in Elems(Tail(q)))
         /\ \A z \in Elems(Tail(q)) : Before(q, Head(q), z)
<1> DEFINE r == Tail(q)
           n == Len(q)
<1>1. /\ n \in Nat \ {0} /\ r \in Seq(S) /\ Len(r) = n - 1 /\ Head(q) = q[1] /\ q[1] \in S
      /\ \A i \in 1..(n - 1) : r[i] = q[i + 1]
  OBVIOUS
<1> HIDE DEF r, n
<1>2. ASSUME NEW i \in 1..n, i # 1 PROVE i - 1 \in 1..Len(r) /\ r[i - 1] = q[i]
  <2>1. i - 1 \in 1..(n - 1) /\ (i - 1) + 1 = i
    BY <1>1, <1>2
  <2> QED
    BY <2>1, <1>1
<1>3. ASSUME NEW i \in 1..Len(r) PROVE i + 1 \in 1..n /\ i + 1 # 1 /\ r[i] = q[i + 1]
  BY <1>1
<1>4. 1 \in 1..n
  BY <1>1
<1>5. Elems(q) = Elems(r) \cup {Head(q)}
  <2>1. ASSUME NEW i \in 1..n PROVE q[i] \in Elems(r) \cup {Head(q)}
    <3>1. CASE i = 1
      BY <3>1, <1>1
    <3>2. CASE i # 1
      BY <3>2, <1>2 DEF Elems
    <3> QED
      BY <3>1, <3>2
  <2>2. Elems(r) \subseteq Elems(q)
    BY <1>3 DEF Elems, n
  <2>3. Head(q) \in Elems(q)
    BY <1>1, <1>4 DEF Elems, n
  <2> QED
    BY <2>1, <2>2, <2>3 DEF Elems, n
<1>6. Distinct(q) => Distinct(r) /\ Head(q) \notin Elems(r)
  <2> SUFFICES ASSUME Distinct(q) PROVE Distinct(r) /\ Head(q) \notin Elems(r)
    OBVIOUS
  <2>1. ASSUME NEW i \in 1..Len(r), NEW j \in 1..Len(r), i # j PROVE r[i] # r[j]
    <3>1. i + 1 # j + 1
      BY <2>1, <1>1
    <3> QED
      BY <3>1, <1>3 DEF Distinct, n
  <2>2. Head(q) \notin Elems(r)
    BY <1>1, <1>3, <1>4 DEF Distinct, Elems, n
  <2> QED
    BY <2>1, <2>2 DEF Distinct
<1>7. ASSUME NEW y, NEW z, Before(q, y, z) PROVE Before(r, y, z) \/ (y = Head(q) /\ z \in Elems(r))
  <2>1. PICK i, j \in 1..n : i < j /\ q[i] = y /\ q[j] = z
    BY <1>7 DEF Before, n
  <2>2. j - 1 \in 1..Len(r) /\ r[j - 1] = z
    BY <2>1, <1>2
  <2>3. CASE i = 1
    BY <2>1, <2>2, <2>3, <1>1 DEF Elems
  <2>4. CASE i # 1
    <3>1. i - 1 \in 1..Len(r) /\ r[i - 1] = y /\ i - 1 < j - 1
      BY <2>1, <2>4, <1>2
    <3> QED
      BY <3>1, <2>2 DEF Before
  <2> QED
    BY <2>3, <2>4
<1>8. ASSUME NEW z \in Elems(r) PROVE Before(q, Head(q), z)
  <2>1. PICK i \in 1..Len(r) : z = r[i]
    BY DEF Elems
  <2>2. i + 1 \in 1..n /\ 1 < i + 1 /\ q[i + 1] = z
    BY <2>1, <1>3, <1>1
  <2> QED
    BY <2>2, <1>1, <1>4 DEF Before, n
<1> QED
  BY <1>1, <1>5, <1>6, <1>7, <1>8 DEF r, n

\* slist_remove_ex unlinks an item; the others stay in their order.
LEMMA WithoutIs ==
  ASSUME NEW S, NEW q \in Seq(S), Distinct(q), NEW x
  PROVE  /\ Without(q, x) \in Seq(S) /\ Len(Without(q, x)) <= Len(q)
         /\ Elems(Without(q, x)) = Elems(q) \ {x}
         /\ Distinct(Without(q, x))
         /\ \A y, z : Before(q, y, z) /\ y # x /\ z # x => Before(Without(q, x), y, z)
         /\ \A y, z : Before(Without(q, x), y, z) => Before(q, y, z)
<1>1. CASE ~\E k \in 1..Len(q) : q[k] = x
  <2>1. Without(q, x) = q /\ x \notin Elems(q)
    BY <1>1 DEF Without, Elems
  <2> QED
    BY <2>1
<1>2. CASE \E k \in 1..Len(q) : q[k] = x
  <2> DEFINE k == CHOOSE i \in 1..Len(q) : q[i] = x
             r == Without(q, x)
             n == Len(q)
             To(i) == IF i < k THEN i ELSE i + 1
             From(i) == IF i < k THEN i ELSE i - 1
  <2>1. k \in 1..n /\ q[k] = x
    BY <1>2
  <2>2. r = SubSeq(q, 1, k - 1) \o SubSeq(q, k + 1, n)
    BY <1>2 DEF Without
  <2> HIDE DEF k, r
  <2>3. /\ n \in Nat /\ r \in Seq(S) /\ Len(r) = n - 1
        /\ \A i \in 1..Len(r) : r[i] = q[To(i)]
    <3> DEFINE a == SubSeq(q, 1, k - 1)
               b == SubSeq(q, k + 1, n)
    <3>1. n \in Nat /\ k \in Nat /\ k - 1 \in Nat /\ n - k \in Nat
      BY <2>1
    <3>2. a \in Seq(S) /\ Len(a) = k - 1 /\ \A i \in 1..(k - 1) : a[i] = q[i]
      BY <3>1, <2>1
    <3>3. b \in Seq(S) /\ Len(b) = n - k /\ \A i \in 1..(n - k) : b[i] = q[i + k]
      BY <3>1, <2>1
    <3> HIDE DEF a, b, n
    <3>4. r = a \o b
      BY <2>2 DEF a, b
    <3>5. r \in Seq(S) /\ Len(r) = n - 1
      <4>1. r \in Seq(S) /\ Len(r) = Len(a) + Len(b)
        <5>1. a \in Seq(S) /\ b \in Seq(S)
          BY <3>2, <3>3
        <5>2. a \o b \in Seq(S) /\ Len(a \o b) = Len(a) + Len(b)
          BY <5>1
        <5> QED
          BY <5>2, <3>4
      <4>2. (k - 1) + (n - k) = n - 1
        BY <3>1
      <4> QED
        BY <4>1, <4>2, <3>2, <3>3
    <3>6. \A i \in 1..Len(r) : r[i] = IF i < k THEN a[i] ELSE b[i - (k - 1)]
      BY <3>1, <3>2, <3>3, <3>4
    <3>7. ASSUME NEW i \in 1..Len(r) PROVE r[i] = q[To(i)]
      <4>1. CASE i < k
        BY <4>1, <3>1, <3>2, <3>5, <3>6
      <4>2. CASE ~(i < k)
        <5>1. i - (k - 1) \in 1..(n - k) /\ (i - (k - 1)) + k = i + 1
          BY <4>2, <3>1, <3>5
        <5> QED
          BY <4>2, <5>1, <3>3, <3>6
      <4> QED
        BY <4>1, <4>2
    <3> QED
      BY <3>1, <3>5, <3>7
  <2>4. \A i \in 1..Len(r) : To(i) \in 1..n /\ To(i) # k
    BY <2>1, <2>3
  <2>5. \A i, j \in 1..Len(r) : i < j => To(i) < To(j)
    BY <2>1, <2>3
  <2>6. \A i \in 1..n : i # k => From(i) \in 1..Len(r) /\ To(From(i)) = i
    BY <2>1, <2>3
  <2>7. \A i, j \in 1..n : i # k /\ j # k /\ i < j => From(i) < From(j)
    BY <2>1, <2>3
  <2> HIDE DEF n, To, From
  <2>8. \A i \in 1..n : i # k => q[i] # x
    BY <2>1 DEF Distinct, n
  <2>9. \A i \in 1..n : i # k => r[From(i)] = q[i]
    BY <2>3, <2>6
  <2>10. Elems(r) = Elems(q) \ {x}
    <3>1. Elems(r) \subseteq Elems(q) \ {x}
      BY <2>3, <2>4, <2>8 DEF Elems, n
    <3>2. Elems(q) \ {x} \subseteq Elems(r)
      BY <2>1, <2>6, <2>9 DEF Elems, n
    <3> QED
      BY <3>1, <3>2
  <2>11. Distinct(r)
    <3>1. ASSUME NEW i \in 1..Len(r), NEW j \in 1..Len(r), i # j PROVE r[i] # r[j]
      <4>1. i < j \/ j < i
        BY <3>1, <2>3
      <4>2. To(i) # To(j)
        <5>1. To(i) \in 1..n /\ To(j) \in 1..n
          BY <2>4
        <5> QED
          BY <4>1, <5>1, <2>3, <2>5
      <4> QED
        BY <4>2, <2>3, <2>4 DEF Distinct, n
    <3> QED
      BY <3>1 DEF Distinct
  <2>12. ASSUME NEW y, NEW z, Before(q, y, z), y # x, z # x PROVE Before(r, y, z)
    <3>1. PICK i, j \in 1..n : i < j /\ q[i] = y /\ q[j] = z
      BY <2>12 DEF Before, n
    <3>2. i # k /\ j # k
      BY <3>1, <2>1, <2>12
    <3> QED
      BY <3>1, <3>2, <2>6, <2>7, <2>9 DEF Before
  <2>13. ASSUME NEW y, NEW z, Before(r, y, z) PROVE Before(q, y, z)
    <3>1. PICK i, j \in 1..Len(r) : i < j /\ r[i] = y /\ r[j] = z
      BY <2>13 DEF Before
    <3> QED
      BY <3>1, <2>3, <2>4, <2>5 DEF Before, n
  <2>14. Len(r) <= Len(q)
    BY <2>3 DEF n
  <2> QED
    BY <2>3, <2>10, <2>11, <2>12, <2>13, <2>14 DEF r
<1> QED
  BY <1>1, <1>2

-----------------------------------------------------------------------------
(* The rest of the inductive invariant.                                    *)

Lists ==
  /\ queue \in Seq(Calls \cup Events) /\ Len(queue) <= Capacity /\ Distinct(queue)
  /\ idles \in Seq(Idles) /\ Distinct(idles)
  /\ pending \in Seq(Calls) /\ Distinct(pending)
  /\ Queued \cap Listed = {}

\* The queue comes after the idle list, and what tk_exit destroys with it last.
LineBefore(y, z) ==
  \/ Before(idles, y, z) \/ Before(queue, y, z)
  \/ y \in Listed /\ z \in Queued
  \/ z \in lost

\* The queue is empty once tk_exit has destroyed it; no call is lost before.
LostOK ==
  /\ quited => Queued = {}
  /\ lost # {} => quited
  /\ lost \subseteq Calls /\ lost \cap Listed = {}

\* The calls to come are in the list and the queue, in this order.
InOrder ==
  /\ Pending \subseteq Listed \cup Queued \cup lost
  /\ Pending \cap busy = {}
  /\ \A c \in Pending : dispatch_id[c] = 0
  /\ \A y, z \in Pending : Before(pending, y, z) => LineBefore(y, z)

Values ==
  /\ Len(stack) <= MaxDepth
  /\ \A k \in 1..Len(stack) : stack[k].at \in PastFunc => stack[k].running \subseteq SyncCalls
  /\ dispatch_id \in [Idles -> 0..MaxDepth]
  /\ quited \in BOOLEAN
  /\ retries \in [Callers -> 0..MaxRetries]
  /\ info \in [Calls -> {"none", "live", "freed"}]
  /\ result \in [Calls -> Rets]
  /\ returned \in [Calls -> Rets \cup {"none", "RET_TIMEOUT"}]
  /\ destroyed \in [Calls -> Nat]
  /\ done \subseteq SyncCalls
  /\ \A c \in SyncCalls : func_ret[c] \in Rets \cup {"none"}

InUse == Queued \cup Listed \cup busy

\* A call is made by one caller at most, and is nowhere before its request is
\* queued; it is destroyed once and then used no more.
Life ==
  /\ \A t, u \in Callers : t # u /\ call[t] = call[u] => call[t] = NULL
  /\ \A t \in Callers : cpc[t] = "queue" =>
       call[t] \in Calls /\ info[call[t]] = "none" /\ destroyed[call[t]] = 0
  /\ \A c \in Calls : info[c] = "none" =>
       c \notin InUse /\ dispatch_id[c] = 0 /\ (returned[c] = "none" => destroyed[c] = 0)
  /\ \A c \in Calls : destroyed[c] # 0 => destroyed[c] = 1 /\ c \notin InUse
  /\ Queued \cap busy = {}

FullInv == IInv /\ Lists /\ InOrder /\ Values /\ Life /\ LostOK

-----------------------------------------------------------------------------
(* What the steps do to the sequences.                                     *)

UiStep ==
  \/ LoopStep \/ CallbackReturns \/ OpenLoop \/ CloseLoop \/ Quit
  \/ \E i \in Local : AddLocal(i) \/ RemoveLocal(i)

Unlinks(i) == idles' = Without(idles, i) /\ UNCHANGED <<queue, pending>>
Links(i) == i \notin Listed /\ idles' = Append(idles, i) /\ UNCHANGED <<queue, pending>>
UiLineStep ==
  \/ UNCHANGED <<queue, idles, pending>>
  \/ ReceiveRequest \/ ReceiveEvent
  \/ \E i \in Idles : CallIdle(i)
  \/ \E i \in Local \cup busy : Unlinks(i)
  \/ \E i \in Local : Links(i)
  \/ Quit \/ Deinit

\* The idle functions that a frame runs are those with busy.
LEMMA RunIs ==
  ASSUME NEW st, NEW b, NEW fr, FramesOK(st, b, fr)
  PROVE  b = UNION {st[k].running : k \in 1..Len(st)}
<1>1. \A k \in 1..Len(st) : st[k] \in Frame
  BY DEF FramesOK
<1>2. \A k \in 1..Len(st) : st[k].running \subseteq Idles
  BY <1>1 DEF Frame
<1>3. \A x : x \in UNION {st[k].running : k \in 1..Len(st)}
          <=> \E k \in 1..Len(st) : x \in st[k].running
  OBVIOUS
<1>4. \A x : x \in b <=> x \in UNION {st[k].running : k \in 1..Len(st)}
  BY <1>2, <1>3 DEF FramesOK
<1> QED
  BY <1>4

\* The idle function that the innermost main loop runs.
LEMMA TopIsBusy ==
  ASSUME IInv, stack # <<>>, NEW i, Top.running = {i}
  PROVE  i \in busy /\ i \in Idles
<1>1. /\ Len(stack) \in 1..Len(stack) /\ Top = stack[Len(stack)]
      /\ Top.running \in SUBSET Idles
  BY TopIs DEF IInv
<1>2. i \in Idles /\ i \in stack[Len(stack)].running
  BY <1>1
<1> QED
  BY <1>1, <1>2 DEF IInv, FramesOK

\* The choice of idle_manager_dispatch: the first one that is available.
LEMMA ChosenIs ==
  ASSUME IInv, Lists, NEW i \in Idles, CallIdle(i)
  PROVE  \E k \in 1..Len(idles) :
           /\ i = idles[k] /\ Available(i)
           /\ \A m \in 1..Len(idles) : Available(idles[m]) => k <= m
<1>1. Candidates \in SUBSET Nat /\ Candidates # {}
  BY DEF CallIdle, Candidates
<1> DEFINE k == CHOOSE k \in Candidates : \A m \in Candidates : k <= m
<1>2. k \in Candidates /\ \A m \in Candidates : k <= m
  BY <1>1, SmallestIsIn
<1>3. i = idles[k]
  BY DEF CallIdle, Chosen
<1> QED
  BY <1>2, <1>3 DEF Candidates

\* A step of the UI thread does one of these to the queue and the lists.
LEMMA UiLine == ASSUME IInv, UiStep PROVE UiLineStep
<1> USE DEF UiLineStep
<1>1. ASSUME NEW i, stack # <<>>, LeavesList(i), UNCHANGED <<queue, pending>> PROVE UiLineStep
  BY <1>1, TopIsBusy DEF LeavesList, Unlinks
<1>2. CASE LoopStep
  BY <1>1, <1>2 DEF LoopStep, EventsEnd, IdlesEnd, SetDone, SetResult
<1>3. CASE CallbackReturns
  BY <1>1, <1>3 DEF CallbackReturns, OtherReturns, ReturnLocal, Repeat, Finish, FinishSync, StaysInList, InCallback
<1>4. CASE OpenLoop \/ CloseLoop
  BY <1>4 DEF OpenLoop, CloseLoop
<1>5. CASE Quit
  BY <1>5
<1>6. ASSUME NEW i \in Local, AddLocal(i) \/ RemoveLocal(i) PROVE UiLineStep
  BY <1>6 DEF AddLocal, RemoveLocal, Linked, Links, Unlinks
<1> QED
  BY <1>2, <1>3, <1>4, <1>5, <1>6 DEF UiStep

\* Requests only leave the queue, for the idle list, and what runs was in it.
LEMMA UiWhere ==
  ASSUME IInv, Lists, UiStep
  PROVE  /\ Queued' \subseteq Queued
         /\ Listed' \subseteq Listed \cup Queued \cup Local
<1>1. UiLineStep
  BY UiLine
<1> USE DEF Lists, Idles
<1>2. Elems(queue) = Queued /\ Elems(queue') = Queued' /\ Elems(idles) = Listed /\ Elems(idles') = Listed'
  BY DEF Elems, Queued, Listed
<1>3. CASE UNCHANGED <<queue, idles, pending>>
  BY <1>2, <1>3
<1>4. CASE ReceiveRequest
  <2>1. queue # <<>> /\ queue' = Tail(queue) /\ idles' = Append(idles, Head(queue)) /\ Head(queue) \in Calls
    BY <1>4 DEF ReceiveRequest, Linked
  <2>2. Head(queue) \in Idles /\ Elems(queue) = Elems(queue') \cup {Head(queue)}
    BY <2>1, TailIs
  <2>3. Elems(idles') = Elems(idles) \cup {Head(queue)}
    BY <2>1, <2>2, AppendIs
  <2> QED
    BY <2>2, <2>3, <1>2
<1>5. CASE \E i \in Idles : CallIdle(i)
  BY <1>2, <1>5 DEF CallIdle
<1>6. CASE \E i \in Local \cup busy : Unlinks(i)
  BY <1>2, <1>6, WithoutIs DEF Unlinks
<1>7. CASE \E i \in Local : Links(i)
  BY <1>2, <1>7, AppendIs DEF Links
<1>8. CASE Quit
  BY <1>2, <1>8 DEF Quit, Queued
<1>9. CASE Deinit
  BY <1>2, <1>9 DEF Deinit, Listed
<1>10. CASE ReceiveEvent
  <2>1. queue # <<>> /\ queue' = Tail(queue) /\ idles' = idles
    BY <1>10 DEF ReceiveEvent
  <2>2. Elems(queue) = Elems(queue') \cup {Head(queue)}
    BY <2>1, TailIs
  <2> QED
    BY <2>1, <2>2, <1>2
<1> QED
  BY <1>1, <1>3, <1>4, <1>5, <1>6, <1>7, <1>8, <1>9, <1>10 DEF UiLineStep

\* A caller puts a call that is new at the end of the queue, or leaves it alone.
LEMMA CallerLine ==
  ASSUME NEW t \in Callers, CallerStep(t)
  PROVE  Queue(t) \/ UNCHANGED <<queue, idles, pending>>
BY DEF CallerStep, Refused, Retry, GiveUp, SeeDone, ReadResult, FreeInfo, ui

\* The queue never holds more than Capacity requests, and no request is in the
\* queue and the list, or in one of them twice.
LEMMA ListsKeeps ==
  ASSUME FullInv, [Next]_vars, IInv'
  PROVE  Lists'
<1> USE DEF FullInv, Lists, Idles
<1>1. Elems(queue) = Queued /\ Elems(idles) = Listed /\ Elems(pending) = Pending
      /\ Elems(queue') = Queued' /\ Elems(idles') = Listed' /\ Elems(pending') = Pending'
  BY DEF Elems, Queued, Listed, Pending
<1>2. Len(queue) \in Nat /\ Len(Tail(queue)) \in Nat /\ Capacity \in Nat
  BY UiBoundsAssumption
<1>3. CASE UNCHANGED <<queue, idles, pending>>
  BY <1>1, <1>3
<1>4. ASSUME NEW t \in Callers, Queue(t) PROVE Lists'
  <2> DEFINE c == call[t]
  <2>1. c \in Calls /\ c \notin Queued \cup Listed \cup Pending
    BY <1>4 DEF Queue, CanSend, LostOK, Life, InUse, InOrder
  <2>2. /\ queue' = Append(queue, c) /\ pending' = Append(pending, c) /\ idles' = idles
        /\ Len(queue) < Capacity
    BY <1>4 DEF Queue, CanSend, ui
  <2> HIDE DEF c
  <2>3. queue' \in Seq(Calls \cup Events) /\ Distinct(queue') /\ Queued' = Queued \cup {c}
        /\ Len(queue') = Len(queue) + 1
    BY <2>1, <2>2, <1>1, AppendIs
  <2>4. pending' \in Seq(Calls) /\ Distinct(pending')
    BY <2>1, <2>2, <1>1, AppendIs
  <2>5. Len(queue') <= Capacity
    BY <2>2, <2>3, <1>2
  <2> QED
    BY <2>1, <2>2, <2>3, <2>4, <2>5, <1>1
<1>5. CASE ReceiveRequest
  <2> DEFINE c == Head(queue)
  <2>1. /\ queue # <<>> /\ queue' = Tail(queue) /\ idles' = Append(idles, c) /\ pending' = pending
        /\ c \in Calls
    BY <1>5 DEF ReceiveRequest, Linked
  <2>2. /\ queue' \in Seq(Calls \cup Events) /\ Distinct(queue') /\ Len(queue') = Len(queue) - 1
        /\ Queued = Queued' \cup {c} /\ c \notin Queued'
    BY <2>1, <1>1, TailIs
  <2> HIDE DEF c
  <2>3. c \notin Listed /\ c \in Idles
    BY <2>1, <2>2
  <2>4. idles' \in Seq(Idles) /\ Distinct(idles') /\ Listed' = Listed \cup {c}
    BY <2>1, <2>3, <1>1, AppendIs
  <2>5. Len(queue') <= Capacity
    BY <2>2, <1>2
  <2> QED
    BY <2>1, <2>2, <2>3, <2>4, <2>5
<1>6. ASSUME NEW i \in Idles, CallIdle(i) PROVE Lists'
  <2>1. pending' = Without(pending, i) /\ UNCHANGED <<queue, idles>>
    BY <1>6 DEF CallIdle
  <2>2. pending' \in Seq(Calls) /\ Distinct(pending')
    BY <2>1, WithoutIs
  <2> QED
    BY <2>1, <2>2, <1>1
<1>7. ASSUME NEW i, Unlinks(i) PROVE Lists'
  <2>1. idles' = Without(idles, i) /\ UNCHANGED <<queue, pending>>
    BY <1>7 DEF Unlinks
  <2>2. idles' \in Seq(Idles) /\ Distinct(idles') /\ Listed' \subseteq Listed
    BY <2>1, <1>1, WithoutIs
  <2> QED
    BY <2>1, <2>2, <1>1
<1>8. ASSUME NEW i \in Local, Links(i) PROVE Lists'
  <2>1. i \in Idles /\ i \notin Listed /\ idles' = Append(idles, i) /\ UNCHANGED <<queue, pending>>
    BY <1>8 DEF Links
  <2>2. idles' \in Seq(Idles) /\ Distinct(idles') /\ Listed' = Listed \cup {i}
    BY <2>1, <1>1, AppendIs
  <2>3. i \notin Queued
    <3>1. i \notin Calls \cup Events
      BY CallsAssumption
    <3> QED
      BY <3>1, <1>1 DEF Elems
  <2> QED
    BY <2>1, <2>2, <2>3, <1>1
<1>9. CASE Quit
  <2>1. queue' = <<>> /\ UNCHANGED <<idles, pending>>
    BY <1>9 DEF Quit
  <2> QED
    BY <2>1, <1>1, <1>2 DEF Distinct, Elems
<1>10. ASSUME NEW t \in Callers, NEW c \in Calls, Call(t, c) PROVE UNCHANGED <<queue, idles, pending>>
  BY <1>10 DEF Call, ui
<1>11. UNCHANGED vars => UNCHANGED <<queue, idles, pending>>
  BY DEF vars, ui
<1>12. CASE Deinit
  <2>1. idles' = <<>> /\ UNCHANGED <<queue, pending>>
    BY <1>12 DEF Deinit
  <2> QED
    BY <2>1, <1>1, <1>2 DEF Distinct, Elems
<1>13. CASE ReceiveEvent
  <2>1. queue # <<>> /\ queue' = Tail(queue) /\ UNCHANGED <<idles, pending>>
    BY <1>13 DEF ReceiveEvent
  <2>2. /\ queue' \in Seq(Calls \cup Events) /\ Distinct(queue') /\ Len(queue') = Len(queue) - 1
        /\ Queued' \subseteq Queued
    BY <2>1, <1>1, TailIs
  <2>3. Len(queue') <= Capacity
    BY <2>2, <1>2
  <2> QED
    BY <2>1, <2>2, <2>3, <1>1
<1>14. ASSUME NEW e \in Events, PostEvent(e) PROVE Lists'
  <2>1. queue' = Append(queue, e) /\ e \notin Queued /\ Len(queue) < Capacity /\ UNCHANGED <<idles, pending>>
    BY <1>14 DEF PostEvent, CanSend, ui
  <2>2. queue' \in Seq(Calls \cup Events) /\ Distinct(queue') /\ Queued' = Queued \cup {e}
        /\ Len(queue') = Len(queue) + 1
    BY <2>1, <1>1, AppendIs
  <2>3. e \notin Listed
    <3>1. e \notin Idles
      BY CallsAssumption
    <3> QED
      BY <3>1, <1>1 DEF Elems
  <2>4. Len(queue') <= Capacity
    BY <2>1, <2>2, <1>2
  <2> QED
    BY <2>1, <2>2, <2>3, <2>4, <1>1
<1> QED
  BY <1>3, <1>4, <1>5, <1>6, <1>7, <1>8, <1>9, <1>10, <1>11, <1>12, <1>13, <1>14, UiLine, CallerLine DEF Next, UiStep, UiLineStep

\* Only tk_exit loses calls, those in the queue.
LEMMA LostStays ==
  ASSUME FullInv, [Next]_vars, Lists'
  PROVE  /\ \/ UNCHANGED <<quited, lost>>
            \/ Quit /\ ~quited /\ quited' /\ lost' = Queued \cap Calls /\ Listed' = Listed
         /\ lost \subseteq lost'
<1>1. CASE Quit
  BY <1>1 DEF Quit, FullInv, LostOK, Listed
<1>2. CASE ~Quit
  BY <1>2 DEF Next, LoopStep, CallbackReturns, ReceiveRequest, ReceiveEvent, EventsEnd, CallIdle, IdlesEnd, Deinit,
       SetDone, SetResult, OtherReturns, ReturnLocal, Repeat, Finish, FinishSync, OpenLoop, CloseLoop, AddLocal,
       RemoveLocal, PostEvent, CallerStep, Queue, Refused, Retry, GiveUp, SeeDone, ReadResult, FreeInfo, Call,
       ui, vars
<1> QED
  BY <1>1, <1>2

LEMMA LostKeeps ==
  ASSUME FullInv, [Next]_vars, Lists'
  PROVE  LostOK'
<1> USE DEF FullInv, LostOK
<1>1. Calls \cap Local = {} /\ Queued \cap Listed = {}
  BY CallsAssumption DEF Lists
<1>2. CASE Quit
  <2>1. quited' /\ queue' = <<>> /\ lost' = Queued \cap Calls /\ Listed' = Listed
    BY <1>2 DEF Quit, Listed
  <2>2. Queued' = {}
    BY <2>1 DEF Queued
  <2> QED
    BY <2>1, <2>2, <1>1
<1>3. CASE ~Quit /\ UiStep
  <2>1. UNCHANGED <<quited, lost>>
    BY <1>3, LostStays
  <2>2. Queued' \subseteq Queued /\ Listed' \subseteq Listed \cup Queued \cup Local
    BY <1>3, UiWhere
  <2> QED
    BY <2>1, <2>2, <1>1
<1>4. CASE ~Quit /\ ~UiStep
  <2>1. UNCHANGED <<quited, lost, idles>> /\ (queue' = queue \/ ~quited)
    BY <1>4 DEF Next, UiStep, PostEvent, CallerStep, Queue, CanSend, Refused, Retry, GiveUp, SeeDone, ReadResult,
         FreeInfo, Call, ui, vars
  <2>2. Listed' = Listed /\ (quited => Queued' = Queued)
    BY <2>1 DEF Listed, Queued
  <2> QED
    BY <2>1, <2>2
<1> QED
  BY <1>2, <1>3, <1>4

-----------------------------------------------------------------------------
(* The order of the calls to come.                                         *)

\* tk_exit destroys the idle functions when all in the list have been called.
LEMMA DeinitIs ==
  ASSUME FullInv, Deinit
  PROVE  Pending \cap Listed = {}
<1> SUFFICES ASSUME NEW k \in 1..Len(idles), idles[k] \in Pending PROVE FALSE
  BY DEF Listed
<1>1. Depth = 1 /\ k \notin Candidates
  BY DEF Deinit
<1> QED
  BY <1>1 DEF Candidates, Available, FullInv, InOrder

\* Calls keep their order in the list and the queue.
LEMMA LineKept ==
  ASSUME FullInv, [Next]_vars, Lists', NEW y \in Pending', NEW z \in Pending',
         LineBefore(y, z), y \notin busy, z \notin busy
  PROVE  LineBefore(y, z)'
<1> USE DEF FullInv, Lists, Idles
<1>1. Elems(queue) = Queued /\ Elems(idles) = Listed /\ Elems(pending) = Pending
      /\ Elems(queue') = Queued' /\ Elems(idles') = Listed' /\ Elems(pending') = Pending'
  BY DEF Elems, Queued, Listed, Pending
<1>2. Before(queue, y, z) => z \in Queued
  BY DEF Before, Queued
<1>3. lost \subseteq lost'
  BY LostStays
<1>4. CASE z \in lost
  BY <1>3, <1>4 DEF LineBefore
<1>5. CASE UNCHANGED <<queue, idles>>
  BY <1>5, <1>1, <1>3 DEF LineBefore
<1>6. ASSUME NEW t \in Callers, Queue(t) PROVE LineBefore(y, z)'
  <2>1. call[t] \in Calls \cup Events /\ queue' = Append(queue, call[t]) /\ idles' = idles
    BY <1>6 DEF Queue, Life, ui
  <2>2. Queued \subseteq Queued' /\ (Before(queue, y, z) => Before(queue', y, z))
    BY <2>1, <1>1, AppendIs
  <2> QED
    BY <2>1, <2>2, <1>1, <1>3 DEF LineBefore
<1>7. CASE ReceiveRequest
  <2> DEFINE c == Head(queue)
  <2>1. queue # <<>> /\ queue' = Tail(queue) /\ idles' = Append(idles, c) /\ c \in Calls
    BY <1>7 DEF ReceiveRequest, Linked
  <2>2. /\ c \in Idles /\ Queued = Queued' \cup {c}
        /\ Before(queue, y, z) => Before(queue', y, z) \/ (y = c /\ z \in Queued')
    BY <2>1, <1>1, TailIs
  <2> HIDE DEF c
  <2>3. /\ Listed' = Listed \cup {c}
        /\ Before(idles, y, z) => Before(idles', y, z)
        /\ y \in Listed => Before(idles', y, c)
    BY <2>1, <2>2, <1>1, AppendIs
  <2>4. CASE Before(idles, y, z)
    BY <2>3, <2>4 DEF LineBefore
  <2>5. CASE Before(queue, y, z)
    BY <2>2, <2>3, <2>5 DEF LineBefore
  <2>6. CASE y \in Listed /\ z \in Queued
    BY <2>2, <2>3, <2>6 DEF LineBefore
  <2> QED
    BY <2>4, <2>5, <2>6, <1>4 DEF LineBefore
<1>8. ASSUME NEW i \in Local \cup busy, Unlinks(i) PROVE LineBefore(y, z)'
  <2>1. idles' = Without(idles, i) /\ UNCHANGED <<queue, pending>>
    BY <1>8 DEF Unlinks
  <2>2. y \in Calls /\ z \in Calls
    BY <2>1, <1>1 DEF Elems
  <2>3. y # i /\ z # i
    BY <2>2, CallsAssumption
  <2>4. Listed' = Listed \ {i} /\ (Before(idles, y, z) => Before(idles', y, z))
    BY <2>1, <2>3, <1>1, WithoutIs
  <2> QED
    BY <2>1, <2>3, <2>4, <1>1, <1>3 DEF LineBefore
<1>9. ASSUME NEW i \in Local, Links(i) PROVE LineBefore(y, z)'
  <2>1. idles' = Append(idles, i) /\ UNCHANGED <<queue, pending>>
    BY <1>9 DEF Links
  <2>2. Listed \subseteq Listed' /\ (Before(idles, y, z) => Before(idles', y, z))
    BY <2>1, <1>1, AppendIs
  <2> QED
    BY <2>1, <2>2, <1>1, <1>3 DEF LineBefore
<1>10. CASE Quit
  <2>1. lost' = Queued \cap Calls /\ idles' = idles /\ z \in Calls
    BY <1>10, <1>1 DEF Quit, Elems, InOrder
  <2> QED
    BY <2>1, <1>2, <1>4 DEF LineBefore
<1>11. CASE Deinit
  <2>1. Pending \cap Listed = {}
    BY <1>11, DeinitIs
  <2>2. UNCHANGED <<queue, pending>> /\ Pending' = Pending
    BY <1>11 DEF Deinit, Pending
  <2>3. y \notin Listed /\ z \notin Listed
    BY <2>1, <2>2
  <2>4. Before(queue, y, z) \/ z \in lost
    BY <2>3 DEF LineBefore, Before, Listed
  <2> QED
    BY <2>2, <2>4, <1>4 DEF LineBefore
<1>12. CASE ReceiveEvent
  <2>1. queue # <<>> /\ queue' = Tail(queue) /\ UNCHANGED <<idles, pending>> /\ Head(queue) \in Events
    BY <1>12 DEF ReceiveEvent
  <2>2. y \in Calls /\ z \in Calls /\ Calls \cap Events = {}
    BY <2>1, <1>1, CallsAssumption DEF Elems
  <2>3. /\ Queued = Queued' \cup {Head(queue)}
        /\ Before(queue, y, z) => Before(queue', y, z) \/ y = Head(queue)
    BY <2>1, <1>1, TailIs
  <2> QED
    BY <2>1, <2>2, <2>3, <1>1, <1>3 DEF LineBefore
<1>13. ASSUME NEW e \in Events, PostEvent(e) PROVE LineBefore(y, z)'
  <2>1. /\ e \in Calls \cup Events /\ queue \in Seq(Calls \cup Events)
        /\ queue' = Append(queue, e) /\ idles' = idles
    BY <1>13 DEF PostEvent, ui
  <2>2. /\ Elems(queue') = Elems(queue) \cup {e}
        /\ Before(queue, y, z) => Before(queue', y, z)
    BY <2>1, AppendIs
  <2>3. Queued \subseteq Queued' /\ (Before(queue, y, z) => Before(queue', y, z))
    BY <2>2, <1>1
  <2> QED
    BY <2>1, <2>3, <1>1, <1>3 DEF LineBefore
<1>14. CASE \E i \in Idles : CallIdle(i)
  BY <1>14, <1>5 DEF CallIdle
<1>15. ASSUME NEW t \in Callers, NEW c \in Calls, Call(t, c) PROVE UNCHANGED <<queue, idles>>
  BY <1>15 DEF Call, ui
<1>16. UNCHANGED vars => UNCHANGED <<queue, idles>>
  BY DEF vars, ui
<1> QED
  BY <1>5, <1>6, <1>7, <1>8, <1>9, <1>10, <1>14, <1>15, <1>16, <1>11, <1>12, <1>13, UiLine, CallerLine
  DEF Next, UiStep, UiLineStep

\* What an idle function's removal frees: what is no more in the list or busy.
Gone == (Listed \cup busy) \ (Listed' \cup busy')
Frees ==
  /\ destroyed' = Destroys(Gone)
  /\ dispatch_id' = [i \in Idles |-> IF i \in Gone THEN 0 ELSE dispatch_id[i]]

LEMMA FreeIs ==
  ASSUME IInv, IInv', Free(idles', stack')
  PROVE  Frees
<1>1. busy = Running
  BY RunIs DEF IInv, Running, Depth
<1>2. busy' = UNION {stack'[k].running : k \in 1..Len(stack')}
  BY RunIs DEF IInv
<1>3. Listed' = {idles'[i] : i \in 1..Len(idles')}
  BY DEF Listed
<1> DEFINE kept == {idles'[i] : i \in 1..Len(idles')} \cup UNION {stack'[k].running : k \in 1..Len(stack')}
<1>4. (Listed \cup Running) \ kept = Gone
  BY <1>1, <1>2, <1>3 DEF Gone
<1> HIDE DEF kept
<1> QED
  BY <1>4 DEF Free, Frees, kept

\* The callers do not notice a step of the UI thread, and what a step frees is
\* freed for good.
LEMMA UiSummary ==
  ASSUME IInv, IInv', Lists, Values, UiStep
  PROVE  /\ UNCHANGED <<cpc, call, retries, returned>>
         /\ busy' \subseteq busy \/ \E i \in Idles : CallIdle(i)
         /\ \/ info' = info
            \/ \E c \in Calls : c \in busy /\ info' = [info EXCEPT ![c] = "freed"]
         /\ \/ /\ destroyed' = destroyed
               /\ dispatch_id' \in [Idles -> 0..MaxDepth]
               /\ \A i \in Idles : dispatch_id'[i] \in {0, dispatch_id[i]} \/ CallIdle(i)
            \/ Frees
<1> DEFINE Quiet == /\ destroyed' = destroyed
                    /\ dispatch_id' \in [Idles -> 0..MaxDepth]
                    /\ \A i \in Idles : dispatch_id'[i] \in {0, dispatch_id[i]} \/ CallIdle(i)
<1> USE DEF caller
<1>1. dispatch_id \in [Idles -> 0..MaxDepth]
  BY DEF Values
<1>2. ASSUME UNCHANGED <<destroyed, dispatch_id>> PROVE Quiet
  BY <1>1, <1>2
<1>3. ASSUME NEW i, StaysInList(i) \/ LeavesList(i) PROVE Frees /\ busy' \subseteq busy
  BY <1>3, FreeIs DEF StaysInList, LeavesList
<1> HIDE DEF Quiet
<1>4. CASE ReceiveRequest
  BY <1>2, <1>4 DEF ReceiveRequest, Quiet
<1>5. CASE EventsEnd
  BY <1>2, <1>5 DEF EventsEnd, Quiet
<1>6. ASSUME NEW i \in Idles, CallIdle(i) PROVE Quiet /\ UNCHANGED <<cpc, call, retries, returned, info>>
  <2>1. dispatch_id' = [dispatch_id EXCEPT ![i] = Depth] /\ destroyed' = destroyed
    BY <1>6 DEF CallIdle
  <2>2. Depth \in 0..MaxDepth
    BY TopIs, UiBoundsAssumption DEF IInv, Values, Depth, CallIdle, FramesOK
  <2> QED
    BY <1>1, <1>6, <2>1, <2>2 DEF Quiet, CallIdle
<1>7. CASE IdlesEnd
  <2>1. dispatch_id' = [i \in Idles |-> IF dispatch_id[i] = Depth THEN 0 ELSE dispatch_id[i]]
        /\ destroyed' = destroyed
    BY <1>7 DEF IdlesEnd
  <2>2. 0 \in 0..MaxDepth
    BY UiBoundsAssumption
  <2>3. Quiet
    BY <1>1, <2>1, <2>2 DEF Quiet
  <2> QED
    BY <1>7, <2>3 DEF IdlesEnd, Quiet
<1>8. ASSUME NEW c \in Calls, SetDone(c)
      PROVE  Quiet /\ UNCHANGED <<cpc, call, retries, returned, info, busy>>
  BY <1>2, <1>8 DEF SetDone
<1>9. ASSUME NEW c \in Calls, SetResult(c)
      PROVE  Frees /\ UNCHANGED <<cpc, call, retries, returned, info>> /\ busy' \subseteq busy
  BY <1>3, <1>9 DEF SetResult
<1>10. ASSUME NEW i \in Local, ReturnLocal(i)
       PROVE  Frees /\ UNCHANGED <<cpc, call, retries, returned, info>> /\ busy' \subseteq busy
  BY <1>3, <1>10 DEF ReturnLocal
<1>11. ASSUME NEW c \in Calls, Repeat(c)
       PROVE  Frees /\ UNCHANGED <<cpc, call, retries, returned, info>> /\ busy' \subseteq busy
  BY <1>3, <1>11 DEF Repeat
<1>12. ASSUME NEW c \in Calls, Finish(c)
       PROVE  Frees /\ UNCHANGED <<cpc, call, retries, returned>> /\ busy' \subseteq busy
              /\ c \in busy /\ info' = [info EXCEPT ![c] = "freed"]
  BY <1>3, <1>12, TopIsBusy DEF Finish, InCallback, LeavesList
<1>13. ASSUME NEW c \in Calls, NEW ret \in Rets, FinishSync(c, ret)
       PROVE  Quiet /\ UNCHANGED <<cpc, call, retries, returned, info, busy>>
  BY <1>2, <1>13 DEF FinishSync
<1>14. CASE OpenLoop
  BY <1>2, <1>14 DEF OpenLoop, Quiet
<1>15. CASE CloseLoop
  BY <1>2, <1>15 DEF CloseLoop, Quiet
<1>16. CASE Quit
  BY <1>2, <1>16 DEF Quit, Quiet
<1>17. CASE Deinit
  <2>1. Free(idles', stack')
    BY <1>17 DEF Deinit
  <2> QED
    BY <1>17, <2>1, FreeIs DEF Deinit
<1>18. CASE ReceiveEvent \/ OtherReturns
  BY <1>2, <1>18 DEF ReceiveEvent, OtherReturns, Quiet
<1>19. ASSUME NEW i \in Local, AddLocal(i)
       PROVE  Quiet /\ UNCHANGED <<cpc, call, retries, returned, info, busy>>
  BY <1>2, <1>19 DEF AddLocal
<1>20. ASSUME NEW i \in Local, RemoveLocal(i)
       PROVE  Frees /\ UNCHANGED <<cpc, call, retries, returned, info, busy>>
  <2>1. Free(idles', stack')
    BY <1>20 DEF RemoveLocal
  <2> QED
    BY <1>20, <2>1, FreeIs DEF RemoveLocal
<1>21. CASE LoopStep
  BY <1>4, <1>5, <1>6, <1>7, <1>8, <1>9, <1>21, <1>17, <1>18
  DEF LoopStep, ReceiveRequest, ReceiveEvent, EventsEnd, IdlesEnd, Deinit, Quiet
<1>22. CASE CallbackReturns
  BY <1>10, <1>11, <1>12, <1>13, <1>22, <1>18 DEF CallbackReturns, OtherReturns, Quiet
<1> QED
  BY <1>14, <1>15, <1>16, <1>19, <1>20, <1>21, <1>22 DEF UiStep, OpenLoop, CloseLoop, Quit, Quiet

\* The invariant of the order is kept.
LEMMA OrderKeeps ==
  ASSUME FullInv, [Next]_vars, IInv', Lists'
  PROVE  InOrder'
<1>1. /\ lost \subseteq lost'
      /\ UNCHANGED <<quited, lost>> \/ (Quit /\ lost' = Queued \cap Calls /\ Listed' = Listed)
  BY LostStays
<1> USE DEF FullInv, Lists, Idles
<1>2. Elems(queue) = Queued /\ Elems(idles) = Listed /\ Elems(pending) = Pending
      /\ Elems(queue') = Queued' /\ Elems(idles') = Listed' /\ Elems(pending') = Pending'
  BY DEF Elems, Queued, Listed, Pending
<1>3. \A y, z : Before(pending, y, z) => y \in Pending /\ z \in Pending
  BY DEF Before, Pending
<1>4. ASSUME NEW t \in Callers, Queue(t) PROVE InOrder'
  <2> DEFINE c == call[t]
  <2>1. c \in Calls /\ c \notin busy /\ dispatch_id[c] = 0 /\ c \notin Pending
    BY <1>4 DEF Queue, CanSend, LostOK, Life, InUse, InOrder
  <2>2. queue' = Append(queue, c) /\ pending' = Append(pending, c) /\ UNCHANGED <<idles, busy, dispatch_id>>
    BY <1>4 DEF Queue, ui
  <2> HIDE DEF c
  <2>3. Queued' = Queued \cup {c} /\ \A y \in Queued : Before(queue', y, c)
    BY <2>1, <2>2, <1>2, AppendIs
  <2>4. /\ Pending' = Pending \cup {c}
        /\ \A y, z : Before(pending', y, z) => Before(pending, y, z) \/ (y \in Pending /\ z = c)
    BY <2>1, <2>2, <1>2, AppendIs
  <2>5. ASSUME NEW y \in Pending', NEW z \in Pending', Before(pending', y, z) PROVE LineBefore(y, z)'
    <3>1. CASE Before(pending, y, z)
      <4>1. y \in Pending /\ z \in Pending
        BY <3>1, <1>3
      <4>2. LineBefore(y, z) /\ y \notin busy /\ z \notin busy
        BY <3>1, <4>1 DEF InOrder
      <4> QED
        BY <4>2, LineKept
    <3>2. CASE y \in Pending /\ z = c
      <4>1. y \in Listed \/ y \in Queued
        <5>1. lost = {}
          BY <1>4 DEF Queue, CanSend, LostOK
        <5> QED
          BY <3>2, <5>1 DEF InOrder
      <4>2. Listed' = Listed /\ z \in Queued'
        BY <3>2, <2>2, <2>3, <1>2
      <4> QED
        BY <3>2, <4>1, <4>2, <2>3 DEF LineBefore
    <3> QED
      BY <2>4, <2>5, <3>1, <3>2
  <2>6. Pending' \subseteq Listed' \cup Queued' \cup lost'
    BY <2>2, <2>3, <2>4, <1>2, <1>1 DEF InOrder
  <2>7. Pending' \cap busy' = {} /\ \A d \in Pending' : dispatch_id'[d] = 0
    BY <2>1, <2>2, <2>4 DEF InOrder
  <2> QED
    BY <2>5, <2>6, <2>7 DEF InOrder
<1>5. ASSUME UNCHANGED <<queue, idles, pending, busy, dispatch_id>> PROVE InOrder'
  BY <1>5, <1>2, <1>1 DEF InOrder, LineBefore
<1>6. ASSUME UiStep PROVE InOrder'
  <2>1. UiLineStep
    BY <1>6, UiLine
  <2>2. ASSUME NEW i \in Idles, CallIdle(i)
        PROVE  pending' = Without(pending, i) /\ UNCHANGED <<queue, idles>> /\ busy' = busy \cup {i}
    BY <2>2 DEF CallIdle
  <2>3. ASSUME NEW i \in Idles, CallIdle(i)
        PROVE  Pending' = Pending \ {i} /\ \A y, z : Before(pending', y, z) => Before(pending, y, z)
    BY <2>2, <2>3, <1>2, WithoutIs
  <2>4. Pending' \subseteq Pending /\ \A y, z : Before(pending', y, z) => Before(pending, y, z)
    <3>1. CASE UNCHANGED pending
      BY <3>1, <1>2
    <3>2. CASE \E i \in Idles : CallIdle(i)
      BY <3>2, <2>3
    <3> QED
      BY <2>1, <3>1, <3>2 DEF UiLineStep, ReceiveRequest, ReceiveEvent, Unlinks, Links, Quit, Deinit
  <2>5. \A c \in Pending' : c \notin busy /\ dispatch_id[c] = 0 /\ c \in Listed \cup Queued \cup lost /\ c \in Calls
    BY <2>4, <1>2 DEF InOrder, Elems
  <2>6. ASSUME NEW c \in Pending' PROVE c \notin busy'
    BY <2>2, <2>3, <2>5, <1>6, UiSummary
  <2>7. ASSUME NEW c \in Pending' PROVE dispatch_id'[c] = 0
    <3>1. ~CallIdle(c)
      BY <2>3, <2>5
    <3>2. c \in Idles
      BY <2>5
    <3>3. dispatch_id'[c] \in {0, dispatch_id[c]} \/ Frees
      BY <3>1, <3>2, <1>6, UiSummary
    <3> QED
      BY <3>2, <3>3, <2>5 DEF Frees
  <2>8. ASSUME NEW c \in Pending' PROVE c \in Listed' \cup Queued' \cup lost'
    <3>0. CASE c \in lost
      BY <3>0, <1>1
    <3>1. CASE UNCHANGED <<queue, idles>>
      BY <3>1, <2>5, <1>2, <1>1
    <3>2. CASE ReceiveRequest
      <4>1. queue # <<>> /\ queue' = Tail(queue) /\ idles' = Append(idles, Head(queue)) /\ Head(queue) \in Calls
        BY <3>2 DEF ReceiveRequest, Linked
      <4>2. Head(queue) \in Idles /\ Queued = Queued' \cup {Head(queue)}
        BY <4>1, <1>2, TailIs
      <4>3. Listed' = Listed \cup {Head(queue)}
        <5>1. Elems(Append(idles, Head(queue))) = Elems(idles) \cup {Head(queue)}
          BY <4>2, AppendIs
        <5> QED
          BY <5>1, <4>1, <1>2
      <4> QED
        BY <4>2, <4>3, <2>5, <1>1
    <3>3. ASSUME NEW i \in Local \cup busy, Unlinks(i) PROVE c \in Listed' \cup Queued' \cup lost'
      <4>1. idles' = Without(idles, i) /\ queue' = queue /\ c # i
        BY <3>3, <2>5, CallsAssumption DEF Unlinks
      <4>2. Listed' = Listed \ {i}
        BY <4>1, <1>2, WithoutIs
      <4> QED
        BY <4>1, <4>2, <2>5, <1>2, <1>1
    <3>4. ASSUME NEW i \in Local, Links(i) PROVE c \in Listed' \cup Queued' \cup lost'
      <4>1. idles' = Append(idles, i) /\ queue' = queue
        BY <3>4 DEF Links
      <4>2. Listed' = Listed \cup {i}
        <5>1. Elems(Append(idles, i)) = Elems(idles) \cup {i}
          BY AppendIs
        <5> QED
          BY <5>1, <4>1, <1>2
      <4> QED
        BY <4>1, <4>2, <2>5, <1>2, <1>1
    <3>5. CASE Quit
      <4>1. lost' = Queued \cap Calls /\ idles' = idles
        BY <3>5 DEF Quit
      <4> QED
        BY <4>1, <3>0, <2>5, <1>2
    <3>6. CASE Deinit
      <4>1. Pending \cap Listed = {} /\ queue' = queue
        BY <3>6, DeinitIs DEF Deinit
      <4> QED
        BY <4>1, <3>0, <2>4, <2>5, <1>2
    <3>7. CASE ReceiveEvent
      <4>1. queue # <<>> /\ queue' = Tail(queue) /\ idles' = idles /\ Head(queue) \in Events
        BY <3>7 DEF ReceiveEvent
      <4>2. Queued = Queued' \cup {Head(queue)} /\ c # Head(queue)
        BY <4>1, <2>5, <1>2, TailIs, CallsAssumption
      <4> QED
        BY <4>1, <4>2, <3>0, <2>5, <1>2
    <3> QED
      BY <2>1, <2>2, <3>1, <3>2, <3>3, <3>4, <3>5, <3>6, <3>7 DEF UiLineStep
  <2>9. ASSUME NEW y \in Pending', NEW z \in Pending', Before(pending', y, z) PROVE LineBefore(y, z)'
    <3>1. LineBefore(y, z) /\ y \notin busy /\ z \notin busy
      BY <2>9, <2>4, <2>5 DEF InOrder
    <3> QED
      BY <3>1, LineKept
  <2> QED
    BY <2>6, <2>7, <2>8, <2>9 DEF InOrder
<1>7. ASSUME NEW t \in Callers, CallerStep(t) PROVE InOrder'
  BY <1>4, <1>5, <1>7 DEF CallerStep, Refused, Retry, GiveUp, SeeDone, ReadResult, FreeInfo, ui
<1>8. ASSUME NEW t \in Callers, NEW c \in Calls, Call(t, c) PROVE InOrder'
  BY <1>5, <1>8 DEF Call, ui
<1>9. UNCHANGED vars => InOrder'
  BY <1>5 DEF vars, ui
<1>10. ASSUME NEW e \in Events, PostEvent(e) PROVE InOrder'
  <2>1. queue' = Append(queue, e) /\ UNCHANGED <<idles, pending, busy, dispatch_id>>
    BY <1>10 DEF PostEvent, ui
  <2>2. Queued \subseteq Queued' /\ \A y, z : Before(queue, y, z) => Before(queue', y, z)
    BY <2>1, <1>2, AppendIs
  <2> QED
    BY <2>1, <2>2, <1>2, <1>1 DEF InOrder, LineBefore
<1> QED
  BY <1>6, <1>7, <1>8, <1>9, <1>10 DEF Next, UiStep

-----------------------------------------------------------------------------
(* The life of a call.                                                     *)

\* A caller gives its call to the queue, gives it up, or goes on with it.
LEMMA CallerLife ==
  ASSUME FullInv, NEW t \in Callers, CallerStep(t) \/ \E c \in Calls : Call(t, c)
  PROVE  Life'
<1> USE DEF FullInv, IInv, Ended
<1>1. /\ info \in [Calls -> {"none", "live", "freed"}] /\ destroyed \in [Calls -> Nat]
      /\ returned \in [Calls -> Rets \cup {"none", "RET_TIMEOUT"}]
  BY DEF Values
<1>2. NULL \notin Calls
  BY CallsAssumption
<1>3. ASSUME NEW c \in Calls, Call(t, c) PROVE Life'
  BY <1>1, <1>2, <1>3 DEF Call, Life, InUse, Queued, Listed, ui
<1>4. CASE Queue(t)
  <2> DEFINE c == call[t]
  <2>1. c \in Calls /\ info[c] = "none" /\ destroyed[c] = 0 /\ c \notin InUse /\ cpc[t] = "queue"
    BY <1>4 DEF Queue, Life
  <2>2. /\ queue' = Append(queue, c) /\ UNCHANGED <<idles, busy, dispatch_id, destroyed>>
        /\ info' = [info EXCEPT ![c] = "live"]
        /\ cpc' = [cpc EXCEPT ![t] = IF c \in SyncCalls THEN "wait" ELSE "idle"]
        /\ call' = IF c \in SyncCalls THEN call ELSE [call EXCEPT ![t] = NULL]
        /\ returned' = IF c \in SyncCalls THEN returned ELSE [returned EXCEPT ![c] = "RET_OK"]
    BY <1>4 DEF Queue, Return, ui
  <2> HIDE DEF c
  <2>3. Queued' = Queued \cup {c}
    <3>1. Elems(queue') = Elems(queue) \cup {c}
      BY <2>1, <2>2, AppendIs DEF Lists
    <3> QED
      BY <3>1 DEF Elems, Queued
  <2>4. Listed' = Listed
    BY <2>2 DEF Listed
  <2>5. InUse' = InUse \cup {c}
    BY <2>2, <2>3, <2>4 DEF InUse
  <2>6. \A u \in Callers : u # t => call'[u] = call[u] /\ cpc'[u] = cpc[u] /\ (call[u] \in Calls => call[u] # c)
    BY <2>1, <2>2, <1>2 DEF Life, c
  <2>7. cpc'[t] # "queue" /\ call'[t] \in {c, NULL}
    BY <2>2 DEF c
  <2>8. \A d \in Calls : info'[d] = "none" => d # c /\ info[d] = "none" /\ returned'[d] = returned[d]
    BY <2>2, <1>1
  <2>9. \A u, v \in Callers : u # v /\ call'[u] = call'[v] => call'[u] = NULL
    BY <2>1, <2>2, <2>6, <2>7 DEF Life
  <2>10. \A u \in Callers : cpc'[u] = "queue" =>
           call'[u] \in Calls /\ info'[call'[u]] = "none" /\ destroyed'[call'[u]] = 0
    BY <2>2, <2>6, <2>7, <1>1 DEF Life
  <2>11. \A d \in Calls : info'[d] = "none" =>
           d \notin InUse' /\ dispatch_id'[d] = 0 /\ (returned'[d] = "none" => destroyed'[d] = 0)
    BY <2>2, <2>5, <2>8 DEF Life
  <2>12. \A d \in Calls : destroyed'[d] # 0 => destroyed'[d] = 1 /\ d \notin InUse'
    BY <2>1, <2>2, <2>5 DEF Life
  <2>13. Queued' \cap busy' = {}
    BY <2>1, <2>2, <2>3 DEF Life, InUse
  <2> QED
    BY <2>9, <2>10, <2>11, <2>12, <2>13 DEF Life
<1>5. ASSUME UNCHANGED <<queue, idles, busy, dispatch_id>> PROVE InUse' = InUse /\ Queued' = Queued
  BY <1>5 DEF InUse, Queued, Listed
<1>6. CASE Refused(t)
  BY <1>1, <1>2, <1>5, <1>6 DEF Refused, Return, Life, ui
<1>7. CASE Retry(t)
  BY <1>5, <1>7 DEF Retry, Life, ui
<1>8. CASE GiveUp(t)
  <2> DEFINE c == call[t]
  <2>1. c \in Calls /\ info[c] = "none" /\ destroyed[c] = 0 /\ c \notin InUse /\ cpc[t] = "queue"
    BY <1>8 DEF GiveUp, Life
  <2>2. /\ UNCHANGED <<queue, idles, busy, dispatch_id, info>>
        /\ destroyed' = Destroys({c}) /\ returned' = [returned EXCEPT ![c] = "RET_TIMEOUT"]
        /\ cpc' = [cpc EXCEPT ![t] = "idle"] /\ call' = [call EXCEPT ![t] = NULL]
    BY <1>8 DEF GiveUp, Return, ui
  <2> HIDE DEF c
  <2>3. /\ destroyed'[c] \in {0, 1} /\ returned'[c] # "none"
        /\ \A d \in Calls : d # c => destroyed'[d] = destroyed[d] /\ returned'[d] = returned[d]
    BY <2>1, <2>2, <1>1 DEF Destroys
  <2>4. \A u \in Callers : u # t => call'[u] = call[u] /\ cpc'[u] = cpc[u] /\ (call[u] \in Calls => call[u] # c)
    BY <2>1, <2>2, <1>2 DEF Life, c
  <2>5. cpc'[t] # "queue" /\ call'[t] = NULL
    BY <2>2
  <2>6. \A u, v \in Callers : u # v /\ call'[u] = call'[v] => call'[u] = NULL
    BY <2>4, <2>5 DEF Life
  <2>7. \A u \in Callers : cpc'[u] = "queue" =>
           call'[u] \in Calls /\ info'[call'[u]] = "none" /\ destroyed'[call'[u]] = 0
    <3> SUFFICES ASSUME NEW u \in Callers, cpc'[u] = "queue"
                 PROVE  call'[u] \in Calls /\ info'[call'[u]] = "none" /\ destroyed'[call'[u]] = 0
      OBVIOUS
    <3>1. u # t
      BY <2>5
    <3>2. call'[u] = call[u] /\ call[u] \in Calls /\ info[call[u]] = "none" /\ destroyed[call[u]] = 0
      BY <3>1, <2>4 DEF Life
    <3>3. call[u] # c
      BY <3>1, <3>2, <2>4
    <3> QED
      BY <3>2, <3>3, <2>2, <2>3
  <2> InUse' = InUse
    BY <2>2, <1>5
  <2>8. \A d \in Calls : info'[d] = "none" =>
           d \notin InUse' /\ dispatch_id'[d] = 0 /\ (returned'[d] = "none" => destroyed'[d] = 0)
    <3> SUFFICES ASSUME NEW d \in Calls, info[d] = "none"
                 PROVE  d \notin InUse /\ dispatch_id[d] = 0 /\ (returned'[d] = "none" => destroyed'[d] = 0)
      BY <2>2
    <3>1. d \notin InUse /\ dispatch_id[d] = 0 /\ (returned[d] = "none" => destroyed[d] = 0)
      BY DEF Life
    <3> QED
      BY <3>1, <2>3
  <2>9. \A d \in Calls : destroyed'[d] # 0 => destroyed'[d] = 1 /\ d \notin InUse'
    BY <2>1, <2>3 DEF Life
  <2> QED
    BY <2>2, <2>6, <2>7, <2>8, <2>9, <1>5 DEF Life
<1>9. CASE SeeDone(t)
  BY <1>5, <1>9 DEF SeeDone, Life, ui
<1>10. CASE ReadResult(t)
  <2>1. cpc[t] = "read" /\ call[t] \in Calls /\ result[call[t]] \in Rets
    BY <1>10 DEF ReadResult, Values
  <2> QED
    BY <1>1, <1>5, <1>10, <2>1 DEF ReadResult, Life, ui, Rets
<1>11. CASE FreeInfo(t)
  <2> DEFINE c == call[t]
  <2>1. cpc[t] = "free" /\ c \in Calls
    BY <1>11 DEF FreeInfo
  <2>2. /\ UNCHANGED <<queue, idles, busy, dispatch_id, destroyed>>
        /\ info' = [info EXCEPT ![c] = "freed"] /\ returned' = returned
        /\ cpc' = [cpc EXCEPT ![t] = "idle"] /\ call' = [call EXCEPT ![t] = NULL]
    BY <1>1, <1>11, <2>1 DEF FreeInfo, Return, ui
  <2> HIDE DEF c
  <2>3. \A u \in Callers : u # t => call'[u] = call[u] /\ cpc'[u] = cpc[u] /\ (call[u] \in Calls => call[u] # c)
    BY <2>1, <2>2, <1>2 DEF Life, c
  <2>4. cpc'[t] # "queue" /\ call'[t] = NULL
    BY <2>2
  <2>5. \A d \in Calls : (info'[d] = "none" => info[d] = "none") /\ (d # c => info'[d] = info[d])
    BY <2>2, <1>1
  <2>6. \A u, v \in Callers : u # v /\ call'[u] = call'[v] => call'[u] = NULL
    BY <2>3, <2>4 DEF Life
  <2>7. \A u \in Callers : cpc'[u] = "queue" =>
           call'[u] \in Calls /\ info'[call'[u]] = "none" /\ destroyed'[call'[u]] = 0
    BY <2>2, <2>3, <2>4, <2>5 DEF Life
  <2> QED
    BY <2>2, <2>5, <2>6, <2>7, <1>5 DEF Life
<1> QED
  BY <1>3, <1>4, <1>6, <1>7, <1>8, <1>9, <1>10, <1>11 DEF CallerStep

\* An event is no call.
LEMMA EventLife ==
  ASSUME FullInv, NEW e \in Events, PostEvent(e)
  PROVE  Life' /\ Queued' = Queued \cup {e}
<1>1. queue' = Append(queue, e) /\ e \notin Calls /\ e \notin Idles
  BY CallsAssumption DEF PostEvent, Idles
<1>2. Queued' = Queued \cup {e}
  <2>1. Elems(queue') = Elems(queue) \cup {e}
    BY <1>1, AppendIs DEF FullInv, Lists
  <2> QED
    BY <2>1 DEF Elems, Queued
<1>3. UNCHANGED <<idles, busy, dispatch_id, cpc, call, info, returned, destroyed>> /\ Listed' = Listed
  BY DEF PostEvent, ui, caller, Listed
<1>4. busy \subseteq Idles
  BY DEF FullInv, IInv, FramesOK
<1> QED
  BY <1>1, <1>2, <1>3, <1>4 DEF FullInv, Life, InUse

\* The UI thread takes the requests up and frees what it removes.
LEMMA UiLife ==
  ASSUME FullInv, IInv', UiStep
  PROVE  Life'
<1> USE DEF FullInv
<1>1. /\ UNCHANGED <<cpc, call, retries, returned>>
      /\ \/ info' = info
         \/ \E c \in Calls : c \in busy /\ info' = [info EXCEPT ![c] = "freed"]
  BY UiSummary
<1>2. \A c \in Calls : info'[c] = "none" <=> info[c] = "none"
  BY <1>1 DEF Life, InUse, Values
<1>3. ASSUME NEW i \in Idles, CallIdle(i) PROVE i \in Listed /\ busy' = busy \cup {i}
  BY <1>3, ChosenIs DEF CallIdle, Listed
<1>4. busy' \subseteq busy \cup Listed
  BY <1>3, UiSummary
<1>5. Queued' \subseteq Queued /\ Listed' \subseteq Listed \cup Queued \cup Local
  BY UiWhere
<1>6. Calls \cap Local = {}
  BY CallsAssumption
<1>7. \A c \in Calls : c \in InUse' => c \in InUse
  BY <1>4, <1>5, <1>6 DEF InUse
<1>8. Queued' \cap busy' = {} /\ Queued' \cap (busy \cup Listed) = {}
  BY <1>4, <1>5 DEF Life, Lists
<1>9. ASSUME NEW c \in Calls
      PROVE  \/ destroyed'[c] = destroyed[c]
             \/ destroyed'[c] = destroyed[c] + 1 /\ c \in InUse /\ c \notin InUse'
  <2>1. CASE destroyed' = destroyed
    BY <2>1
  <2>2. CASE destroyed' = Destroys(Gone)
    <3>1. destroyed'[c] = destroyed[c] + (IF c \in Gone \cap DestroyCalls THEN 1 ELSE 0) /\ destroyed[c] \in Nat
      BY <2>2 DEF Destroys, Values
    <3>2. c \in Gone => c \in InUse /\ c \notin InUse'
      BY <1>8 DEF Gone, InUse
    <3> QED
      BY <3>1, <3>2
  <2> QED
    BY <2>1, <2>2, UiSummary DEF Frees
<1>10. ASSUME NEW c \in Calls, info[c] = "none" PROVE dispatch_id'[c] = 0 /\ destroyed'[c] = destroyed[c]
  <2>1. c \in Idles /\ c \notin InUse /\ dispatch_id[c] = 0
    BY <1>10 DEF Life, Idles
  <2>2. ~CallIdle(c)
    BY <2>1, <1>3 DEF InUse
  <2>3. dispatch_id'[c] \in {0, dispatch_id[c]} \/ Frees
    BY <2>1, <2>2, UiSummary
  <2> QED
    BY <2>1, <2>3, <1>9 DEF Frees
<1>11. \A c \in Calls : destroyed'[c] # 0 => destroyed'[c] = 1 /\ c \notin InUse'
  <2> SUFFICES ASSUME NEW c \in Calls, destroyed'[c] # 0 PROVE destroyed'[c] = 1 /\ c \notin InUse'
    OBVIOUS
  <2>1. CASE destroyed'[c] = destroyed[c]
    BY <2>1, <1>7 DEF Life
  <2>2. CASE destroyed'[c] = destroyed[c] + 1 /\ c \in InUse /\ c \notin InUse'
    <3>1. destroyed[c] = 0
      BY <2>2 DEF Life
    <3> QED
      BY <2>2, <3>1
  <2> QED
    BY <2>1, <2>2, <1>9
<1>12. \A t, u \in Callers : t # u /\ call'[t] = call'[u] => call'[t] = NULL
  BY <1>1 DEF Life
<1>13. \A t \in Callers : cpc'[t] = "queue" =>
         call'[t] \in Calls /\ info'[call'[t]] = "none" /\ destroyed'[call'[t]] = 0
  BY <1>1, <1>2, <1>10 DEF Life
<1>14. \A c \in Calls : info'[c] = "none" =>
         c \notin InUse' /\ dispatch_id'[c] = 0 /\ (returned'[c] = "none" => destroyed'[c] = 0)
  BY <1>1, <1>2, <1>7, <1>10 DEF Life
<1> QED
  BY <1>8, <1>11, <1>12, <1>13, <1>14 DEF Life

-----------------------------------------------------------------------------
(* The types.                                                              *)

\* The main loops in progress, as far as FramesOK does not say it.
StackVals(st) ==
  /\ Len(st) <= MaxDepth
  /\ \A k \in 1..Len(st) : st[k].at \in PastFunc => st[k].running \subseteq SyncCalls

\* A step of the innermost main loop.
LEMMA TopVals ==
  ASSUME IInv, StackVals(stack), stack # <<>>, NEW f \in Frame, SetTop(f),
         f.at \in PastFunc => f.running \subseteq SyncCalls
  PROVE  StackVals(stack')
<1>1. Len(stack) \in 1..Len(stack) /\ stack \in Seq(Frame)
  BY TopIs DEF IInv, FramesOK
<1>2. stack' = [stack EXCEPT ![Len(stack)] = f]
  BY DEF SetTop, Depth
<1>3. Len(stack') = Len(stack)
  BY <1>1, <1>2
<1>4. \A k \in 1..Len(stack) : stack'[k] = IF k = Len(stack) THEN f ELSE stack[k]
  BY <1>1, <1>2
<1> QED
  BY <1>3, <1>4 DEF StackVals

\* What the main loops are in stays within its type.
LEMMA StackKeeps ==
  ASSUME IInv, StackVals(stack), [Next]_vars
  PROVE  StackVals(stack')
<1>1. stack # <<>> => Top \in Frame /\ NewLoop \in Frame /\ Len(stack) \in Nat
  BY TopIs DEF IInv, NewLoop, Frame
<1>2. stack # <<>> => (Top.at \in PastFunc => Top.running \subseteq SyncCalls)
  BY TopIs DEF IInv, StackVals
<1>3. UNCHANGED stack => StackVals(stack')
  OBVIOUS
<1>4. stack # <<>> => Returned \in Frame /\ Returned.at \notin PastFunc
  BY <1>1 DEF Returned, Frame, PastFunc
<1>5. NewLoop.at \notin PastFunc /\ NewLoop.running = {}
  BY DEF NewLoop, PastFunc
<1>6. ASSUME stack # <<>>, SetTop(Returned) PROVE StackVals(stack')
  BY <1>4, <1>6, TopVals
<1>7. CASE ReceiveRequest
  <2> DEFINE f == [Top EXCEPT !.some = TRUE]
  <2>1. stack # <<>> /\ SetTop(f)
    BY <1>7 DEF ReceiveRequest, Receiving
  <2>2. f \in Frame /\ f.running = Top.running /\ f.at = Top.at
    BY <1>1, <2>1 DEF Frame
  <2> QED
    BY <1>2, <2>1, <2>2, TopVals
<1>8. CASE EventsEnd
  <2> DEFINE f == [Top EXCEPT !.phase = "idles", !.some = FALSE]
  <2>1. stack # <<>> /\ SetTop(f)
    BY <1>8 DEF EventsEnd, Receiving
  <2>2. f \in Frame /\ f.running = Top.running /\ f.at = Top.at
    BY <1>1, <2>1 DEF Frame
  <2> QED
    BY <1>2, <2>1, <2>2, TopVals
<1>9. ASSUME NEW i \in Idles, CallIdle(i) PROVE StackVals(stack')
  <2> DEFINE f == [Top EXCEPT !.running = {i}, !.at = "func"]
  <2>1. stack # <<>> /\ SetTop(f)
    BY <1>9 DEF CallIdle, Dispatching
  <2>2. f \in Frame /\ f.at \notin PastFunc
    BY <1>1, <2>1 DEF Frame, PastFunc
  <2> QED
    BY <2>1, <2>2, TopVals
<1>10. CASE IdlesEnd
  <2> DEFINE f == IF quited THEN [NewLoop EXCEPT !.phase = "exit"] ELSE NewLoop
  <2>1. stack # <<>> /\ SetTop(f)
    BY <1>10 DEF IdlesEnd, Dispatching
  <2>2. f \in Frame /\ f.at \notin PastFunc
    BY DEF NewLoop, Frame, PastFunc
  <2> HIDE DEF f
  <2> QED
    BY <2>1, <2>2, TopVals
<1>11. ASSUME NEW c \in Calls, SetDone(c) PROVE StackVals(stack')
  <2> DEFINE f == [Top EXCEPT !.at = "result"]
  <2>1. stack # <<>> /\ SetTop(f) /\ Top.at = "done"
    BY <1>11 DEF SetDone
  <2>2. f \in Frame /\ f.running = Top.running
    BY <1>1, <2>1 DEF Frame
  <2> QED
    BY <1>2, <2>1, <2>2, TopVals DEF PastFunc
<1>12. ASSUME NEW c \in Calls, NEW ret \in Rets, FinishSync(c, ret) PROVE StackVals(stack')
  <2> DEFINE f == [Top EXCEPT !.at = "done"]
  <2>1. stack # <<>> /\ SetTop(f) /\ Top.running = {c} /\ c \in SyncCalls
    BY <1>12 DEF FinishSync, InCallback
  <2>2. f \in Frame /\ f.running = {c}
    BY <1>1, <2>1 DEF Frame
  <2> QED
    BY <2>1, <2>2, TopVals
<1>13. ASSUME NEW c \in Calls, SetResult(c) PROVE StackVals(stack')
  BY <1>6, <1>13 DEF SetResult, LeavesList
<1>14. CASE ReceiveEvent \/ OtherReturns \/ Quit
  <2>1. stack # <<>>
    BY <1>14 DEF ReceiveEvent, Receiving, OtherReturns, Quit, AtLoopHead
  <2>2. \E g \in Frame : SetTop(g) /\ g.at \notin PastFunc
    <3>1. CASE ReceiveEvent
      <4>1. [Top EXCEPT !.some = TRUE, !.at = "other"] \in Frame
        BY <1>1, <2>1 DEF Frame
      <4> QED
        BY <3>1, <4>1, <1>1, <2>1 DEF ReceiveEvent, Frame, PastFunc
    <3>2. CASE OtherReturns
      <4>1. [Top EXCEPT !.at = "-"] \in Frame
        BY <1>1, <2>1 DEF Frame
      <4> QED
        BY <3>2, <4>1, <1>1, <2>1 DEF OtherReturns, Frame, PastFunc
    <3>3. CASE Quit
      <4>1. [NewLoop EXCEPT !.phase = "idles"] \in Frame /\ NewLoop.at = "-"
        BY DEF Frame, NewLoop
      <4> QED
        BY <3>3, <4>1 DEF Quit, NewLoop, PastFunc
    <3> QED
      BY <1>14, <3>1, <3>2, <3>3
  <2> QED
    BY <2>1, <2>2, TopVals
<1>15. CASE CallbackReturns
  BY <1>6, <1>12, <1>15, <1>14 DEF CallbackReturns, ReturnLocal, Repeat, Finish, StaysInList, LeavesList, InCallback
<1>16. CASE OpenLoop
  <2>1. stack' = Append(stack, NewLoop) /\ Len(stack) < MaxDepth /\ stack \in Seq(Frame) /\ stack # <<>>
    BY <1>16 DEF OpenLoop, Depth, IInv, FramesOK, InCallback
  <2>2. Len(stack') = Len(stack) + 1 /\ Len(stack) \in Nat
        /\ \A k \in 1..Len(stack') : stack'[k] = IF k = Len(stack) + 1 THEN NewLoop ELSE stack[k]
    BY <2>1, <1>1
  <2>3. \A k \in 1..Len(stack') : k = Len(stack) + 1 \/ k \in 1..Len(stack)
    BY <2>2
  <2>4. Len(stack') <= MaxDepth
    BY <2>1, <2>2, UiBoundsAssumption
  <2>5. ASSUME NEW k \in 1..Len(stack'), stack'[k].at \in PastFunc
        PROVE  stack'[k].running \subseteq SyncCalls
    BY <2>2, <2>3, <2>5, <1>5 DEF StackVals
  <2> QED
    BY <2>4, <2>5 DEF StackVals
<1>17. CASE CloseLoop
  <2>1. stack' = SubSeq(stack, 1, Len(stack) - 1) /\ stack \in Seq(Frame) /\ Len(stack) \in Nat \ {0}
    BY <1>1, <1>17 DEF CloseLoop, AtLoopHead, Depth, IInv, FramesOK
  <2>2. PICK n \in Nat : n = Len(stack) - 1
    BY <2>1
  <2>3. stack' = [k \in 1..n |-> stack[k]]
    BY <2>1, <2>2
  <2>4. Len(stack') = n /\ \A k \in 1..n : stack'[k] = stack[k] /\ k \in 1..Len(stack)
    BY <2>2, <2>3
  <2>5. n <= MaxDepth
    BY <2>1, <2>2, UiBoundsAssumption DEF StackVals
  <2> QED
    BY <2>4, <2>5 DEF StackVals
<1>18. CASE Deinit
  BY <1>18, UiBoundsAssumption DEF Deinit, StackVals
<1> QED
  BY <1>3, <1>7, <1>8, <1>9, <1>10, <1>11, <1>13, <1>15, <1>16, <1>17, <1>18, <1>14
  DEF Next, LoopStep, CallerStep, Queue, Refused, Retry, GiveUp, SeeDone, ReadResult, FreeInfo, Call, AddLocal,
      RemoveLocal, PostEvent, ui, vars

\* The state stays within its types.
LEMMA ValuesKeeps ==
  ASSUME FullInv, [Next]_vars, IInv'
  PROVE  Values'
<1> USE DEF FullInv
<1>1. StackVals(stack')
  BY StackKeeps DEF Values, StackVals
<1>2. /\ retries \in [Callers -> 0..MaxRetries] /\ 0 \in 0..MaxRetries
      /\ info \in [Calls -> {"none", "live", "freed"}]
      /\ result \in [Calls -> Rets]
      /\ returned \in [Calls -> Rets \cup {"none", "RET_TIMEOUT"}]
      /\ destroyed \in [Calls -> Nat]
      /\ quited \in BOOLEAN /\ dispatch_id \in [Idles -> 0..MaxDepth]
      /\ done \subseteq SyncCalls /\ \A c \in SyncCalls : func_ret[c] \in Rets \cup {"none"}
  BY UiBoundsAssumption DEF Values
<1>3. \A S : Destroys(S) \in [Calls -> Nat]
  BY <1>2 DEF Destroys
<1>4. func_ret \in [Calls -> FuncRets] /\ func_ret' \in [Calls -> FuncRets]
  BY DEF IInv, FramesOK
<1> DEFINE Rest == /\ retries' \in [Callers -> 0..MaxRetries]
                   /\ info' \in [Calls -> {"none", "live", "freed"}]
                   /\ returned' \in [Calls -> Rets \cup {"none", "RET_TIMEOUT"}]
                   /\ destroyed' \in [Calls -> Nat]
                   /\ dispatch_id' \in [Idles -> 0..MaxDepth]
<1>5. ASSUME Rest, quited' \in BOOLEAN, result' \in [Calls -> Rets], done' \subseteq SyncCalls,
             \A c \in SyncCalls : func_ret'[c] \in Rets \cup {"none"}
      PROVE  Values'
  BY <1>1, <1>5 DEF Values, StackVals
<1>6. ASSUME Rest, UNCHANGED <<quited, result, done, func_ret>> PROVE Values'
  BY <1>2, <1>5, <1>6
<1>7. ASSUME NEW t \in Callers, CallerStep(t) \/ \E c \in Calls : Call(t, c)
      PROVE  Rest /\ UNCHANGED <<quited, result, done, func_ret>>
  <2> USE DEF ui
  <2>1. ASSUME NEW c \in Calls, Call(t, c) PROVE Rest /\ UNCHANGED <<quited, result, done, func_ret>>
    BY <1>2, <2>1 DEF Call
  <2>2. CASE Queue(t)
    BY <1>2, <2>2 DEF Queue, Return, InfoCreated, Rets
  <2>3. CASE Refused(t)
    BY <1>2, <2>3 DEF Refused, Return, Rets
  <2>4. CASE Retry(t)
    <3>1. retries[t] + 1 \in 0..MaxRetries
      BY <1>2, <2>4, UiBoundsAssumption DEF Retry
    <3> QED
      BY <1>2, <2>4, <3>1 DEF Retry
  <2>5. CASE GiveUp(t)
    BY <1>2, <1>3, <2>5 DEF GiveUp, Return
  <2>6. CASE SeeDone(t)
    BY <1>2, <2>6 DEF SeeDone
  <2>7. CASE ReadResult(t)
    <3>1. call[t] \in Calls
      BY <2>7 DEF ReadResult, IInv, Ended
    <3> QED
      BY <1>2, <2>7, <3>1 DEF ReadResult
  <2>8. CASE FreeInfo(t)
    <3>1. call[t] \in Calls
      BY <2>8 DEF FreeInfo, IInv, Ended
    <3> QED
      BY <1>2, <2>8, <3>1 DEF FreeInfo, Return
  <2> QED
    BY <1>7, <2>1, <2>2, <2>3, <2>4, <2>5, <2>6, <2>7, <2>8 DEF CallerStep
<1>8. ASSUME UiStep PROVE Rest
  <2>1. UNCHANGED <<retries, returned>>
    BY <1>8, UiSummary
  <2>2. info' \in [Calls -> {"none", "live", "freed"}]
    BY <1>2, <1>8, UiSummary
  <2>3. destroyed' \in [Calls -> Nat]
    BY <1>2, <1>3, <1>8, UiSummary DEF Frees
  <2>4. dispatch_id' \in [Idles -> 0..MaxDepth]
    <3>1. 0 \in 0..MaxDepth
      BY UiBoundsAssumption
    <3>2. dispatch_id' \in [Idles -> 0..MaxDepth] \/ Frees
      BY <1>8, UiSummary
    <3> QED
      BY <1>2, <3>1, <3>2 DEF Frees
  <2> QED
    BY <1>2, <2>1, <2>2, <2>3, <2>4
<1> HIDE DEF Rest
<1>9. ASSUME NEW c \in Calls, SetDone(c) PROVE Values'
  <2>1. Top.at = "done" /\ Top.running = {c} /\ stack # <<>> /\ done' = done \cup {c}
        /\ UNCHANGED <<quited, result, func_ret>>
    BY <1>9 DEF SetDone
  <2>2. c \in SyncCalls
    BY <2>1, TopIs DEF Values, IInv, PastFunc
  <2>3. Rest
    BY <1>8, <1>9 DEF UiStep, LoopStep
  <2> QED
    BY <1>2, <1>5, <2>1, <2>2, <2>3
<1>10. ASSUME NEW c \in Calls, SetResult(c) PROVE Values'
  <2>1. Top.at = "result" /\ Top.running = {c} /\ stack # <<>>
        /\ result' = [result EXCEPT ![c] = func_ret[c]] /\ UNCHANGED <<quited, done, func_ret>>
    BY <1>10 DEF SetResult, LeavesList
  <2>2. c \in SyncCalls /\ func_ret[c] # "none"
    <3>1. Len(stack) \in 1..Len(stack) /\ stack[Len(stack)].at \in PastFunc
          /\ stack[Len(stack)].running = {c}
      BY <2>1, TopIs DEF IInv, PastFunc
    <3>2. c \in SyncCalls
      BY <3>1 DEF Values
    <3>3. \A d \in stack[Len(stack)].running \cap Calls : func_ret[d] # "none"
      BY <3>1 DEF IInv, FramesOK
    <3> QED
      BY <3>1, <3>2, <3>3
  <2>3. func_ret[c] \in Rets
    BY <1>2, <2>2
  <2>4. Rest
    BY <1>8, <1>10 DEF UiStep, LoopStep
  <2> QED
    BY <1>2, <1>5, <2>1, <2>3, <2>4
<1>11. CASE LoopStep
  <2>1. Rest
    BY <1>8, <1>11 DEF UiStep
  <2> QED
    BY <1>6, <1>9, <1>10, <1>11, <2>1 DEF LoopStep, ReceiveRequest, ReceiveEvent, EventsEnd, CallIdle, IdlesEnd, Deinit
<1>12. CASE CallbackReturns
  <2>1. Rest
    BY <1>8, <1>12 DEF UiStep
  <2>2. UNCHANGED <<quited, result, done>>
    BY <1>12 DEF CallbackReturns, OtherReturns, ReturnLocal, Repeat, Finish, FinishSync
  <2>3. \A c \in SyncCalls : func_ret'[c] \in Rets \cup {"none"}
    <3>1. \/ func_ret' = func_ret
          \/ \E c \in Calls \ SyncCalls, r \in FuncRets : func_ret' = [func_ret EXCEPT ![c] = r]
          \/ \E c \in Calls, r \in Rets : func_ret' = [func_ret EXCEPT ![c] = r]
      BY <1>12 DEF CallbackReturns, OtherReturns, ReturnLocal, Repeat, Finish, FinishSync, FuncRets, Rets
    <3>2. SyncCalls \subseteq Calls
      BY CallsAssumption
    <3> QED
      BY <1>2, <1>4, <3>1, <3>2
  <2> QED
    BY <1>2, <1>5, <2>1, <2>2, <2>3
<1>13. CASE Quit
  <2>1. Rest
    BY <1>8, <1>13 DEF UiStep
  <2> QED
    BY <1>2, <1>5, <1>13, <2>1 DEF Quit
<1>14. CASE OpenLoop \/ CloseLoop \/ \E i \in Local : AddLocal(i) \/ RemoveLocal(i)
  <2>1. Rest
    BY <1>8, <1>14 DEF UiStep
  <2> QED
    BY <1>6, <1>14, <2>1 DEF OpenLoop, CloseLoop, AddLocal, RemoveLocal
<1>15. CASE UNCHANGED vars \/ \E e \in Events : PostEvent(e)
  BY <1>2, <1>6, <1>15 DEF vars, PostEvent, ui, caller, Rest
<1> QED
  BY <1>6, <1>7, <1>11, <1>12, <1>13, <1>14, <1>15 DEF Next

\* No request, no idle function and no call to begin with.
LEMMA InitFull == Init => FullInv
<1> SUFFICES ASSUME Init PROVE FullInv
  OBVIOUS
<1> USE DEF Init
<1>1. IInv
  BY InitIInv
<1>2. Lists /\ Queued = {} /\ Listed = {} /\ Pending = {}
  BY UiBoundsAssumption DEF Lists, Distinct, Queued, Listed, Pending
<1>3. InOrder
  BY <1>2 DEF InOrder
<1>4. StackVals(stack)
  BY UiBoundsAssumption DEF StackVals, NewLoop, PastFunc
<1>5. Values
  <2>1. 0 \in 0..MaxDepth /\ 0 \in 0..MaxRetries /\ "RET_OK" \in Rets
    BY UiBoundsAssumption DEF Rets
  <2>2. /\ dispatch_id \in [Idles -> 0..MaxDepth] /\ retries \in [Callers -> 0..MaxRetries]
        /\ result \in [Calls -> Rets] /\ destroyed \in [Calls -> Nat]
    BY <2>1
  <2>3. \A c \in SyncCalls : func_ret[c] \in Rets \cup {"none"}
    BY CallsAssumption
  <2> QED
    BY <1>4, <2>2, <2>3 DEF Values, StackVals
<1>6. Life
  BY <1>2 DEF Life, InUse, Idles
<1>7. LostOK
  BY <1>2 DEF LostOK
<1> QED
  BY <1>1, <1>2, <1>3, <1>5, <1>6, <1>7 DEF FullInv

\* Every step keeps the whole invariant.
LEMMA NextFull == FullInv /\ [Next]_vars => FullInv'
<1> SUFFICES ASSUME FullInv, [Next]_vars PROVE FullInv'
  OBVIOUS
<1>1. IInv'
  BY NextIInv DEF FullInv
<1>2. Lists' /\ Values' /\ LostOK'
  BY <1>1, ListsKeeps, LostKeeps, ValuesKeeps
<1>3. InOrder'
  BY <1>1, <1>2, OrderKeeps
<1>4. Life'
  <2>1. UNCHANGED vars => Life'
    BY DEF FullInv, vars, ui, caller, Life, InUse, Queued, Listed
  <2> QED
    BY <1>1, <2>1, CallerLife, UiLife, EventLife DEF Next, UiStep
<1> QED
  BY <1>1, <1>2, <1>3, <1>4 DEF FullInv

\* The whole invariant holds always.
LEMMA FullInvariance == Spec => []FullInv
<1> QED
  BY InitFull, NextFull, PTL DEF Spec

\* The queue of requests stays within its capacity, no idle function is linked
\* into the list twice, and the state keeps its types.
THEOREM TypeCorrect == Spec => []TypeOK
<1>1. FullInv => TypeOK
  BY DEF FullInv, IInv, FramesOK, Ended, Lists, Distinct, Values, LostOK, TypeOK, Depth, FuncRets
<1> QED
  BY <1>1, FullInvariance, PTL

\* on_destroy of a call is called once at most, by the UI thread or by the caller
\* who gives up, and the call is not used after that.
THEOREM DestroyedOnce == Spec => []DestroyOnce
<1>1. FullInv => DestroyOnce
  <2> SUFFICES ASSUME FullInv PROVE DestroyOnce
    OBVIOUS
  <2>1. busy = Running
    BY RunIs DEF FullInv, IInv, Running, Depth
  <2> QED
    BY <2>1, CallsAssumption DEF FullInv, Life, InUse, DestroyOnce
<1> QED
  BY <1>1, FullInvariance, PTL

\* The calls are first called in the order in which the queue has taken them.
THEOREM CalledInOrder == Spec => OrderKept
<1>1. FullInv /\ [Next]_vars => [\A c \in Pending : CallIdle(c) => c = Head(pending)]_vars
  <2> SUFFICES ASSUME FullInv, NEW c \in Pending, CallIdle(c) PROVE c = Head(pending)
    OBVIOUS
  <2> USE DEF FullInv
  <2>1. pending \in Seq(Calls) /\ c \in Idles
    BY DEF Lists, Pending, Idles
  <2>2. PICK k \in 1..Len(idles) :
          /\ c = idles[k]
          /\ \A m \in 1..Len(idles) : Available(idles[m]) => k <= m
    BY <2>1, ChosenIs
  <2>3. PICK n \in 1..Len(pending) : c = pending[n]
    BY DEF Pending
  <2> DEFINE h == Head(pending)
  <2>4. h = pending[1] /\ 1 \in 1..Len(pending) /\ h \in Pending
    BY <2>1, <2>3 DEF Pending
  <2> HIDE DEF h
  <2> SUFFICES ASSUME c # h PROVE FALSE
    BY DEF h
  <2>5. Before(pending, h, c)
    <3>1. 1 < n
      BY <2>3, <2>4
    <3> QED
      BY <3>1, <2>3, <2>4 DEF Before
  <2>6. LineBefore(h, c)
    BY <2>4, <2>5 DEF InOrder
  <2>7. c \in Listed /\ c \notin Queued /\ c \notin lost
    BY <2>2 DEF Listed, Lists, LostOK
  <2>8. Before(idles, h, c)
    BY <2>6, <2>7 DEF LineBefore, Before, Queued
  <2>9. PICK i, j \in 1..Len(idles) : i < j /\ idles[i] = h /\ idles[j] = c
    BY <2>8 DEF Before
  <2>10. j = k
    BY <2>2, <2>9 DEF Lists, Distinct
  <2>11. Available(idles[i])
    <3>1. h \notin busy /\ dispatch_id[h] = 0
      BY <2>4 DEF InOrder
    <3>2. Depth # 0
      BY TopIs DEF IInv, CallIdle, Dispatching, Depth
    <3> QED
      BY <2>9, <3>1, <3>2 DEF Available
  <2> QED
    BY <2>2, <2>9, <2>10, <2>11
<1> QED
  BY <1>1, FullInvariance, PTL DEF Spec, OrderKept

-----------------------------------------------------------------------------
(* The idle_callback_info_t that two threads share.                        *)

\* The calls between cinfo->done = TRUE and the return of their idle function.
Late == {c \in Calls : \E k \in 1..Len(stack) : stack[k].at = "result" /\ c \in stack[k].running}

\* A call is done when its idle function has set done, and never in use after
\* that; a call that waits has its info, and is to be called, or called, or done.
Told ==
  /\ Late \subseteq done
  /\ done \cap InUse \subseteq Late
  /\ \A c \in done : info[c] # "none"
  /\ \A t \in Callers : cpc[t] \in {"read", "free"} => call[t] \in done
  /\ \A t \in Callers : cpc[t] = "wait" =>
       /\ call[t] \in SyncCalls /\ info[call[t]] = "live"
       /\ call[t] \in Pending \cup busy \cup done
  /\ \A c \in InUse \cap Calls : info[c] = "freed" => c \in Late

\* The innermost main loop changes to f.
LEMMA LateTop ==
  ASSUME IInv, stack # <<>>, NEW f \in Frame, SetTop(f)
  PROVE  \A c \in Calls : c \in Late' <=> \/ f.at = "result" /\ c \in f.running
                                        \/ c \in Late \ Top.running
<1>1. /\ Len(stack) \in 1..Len(stack) /\ Top = stack[Len(stack)]
      /\ \A k, m \in 1..Len(stack) : k # m => stack[k].running \cap stack[m].running = {}
      /\ stack \in Seq(Frame)
  BY TopIs DEF IInv, FramesOK
<1>2. stack' = [stack EXCEPT ![Len(stack)] = f]
  BY DEF SetTop, Depth
<1>3. Len(stack') = Len(stack)
  BY <1>1, <1>2
<1>4. \A k \in 1..Len(stack) : stack'[k] = IF k = Len(stack) THEN f ELSE stack[k]
  BY <1>1, <1>2
<1> SUFFICES ASSUME NEW c \in Calls
             PROVE  c \in Late' <=> \/ f.at = "result" /\ c \in f.running
                                    \/ c \in Late \ Top.running
  BY DEF Late
<1>5. c \in Late' <=> \E k \in 1..Len(stack) : stack'[k].at = "result" /\ c \in stack'[k].running
  BY <1>3 DEF Late
<1>6. \A k \in 1..Len(stack) : k # Len(stack) /\ c \in stack[k].running => c \notin Top.running
  BY <1>1
<1>7. c \in Late \ Top.running <=>
        \E k \in 1..Len(stack) : k # Len(stack) /\ stack[k].at = "result" /\ c \in stack[k].running
  BY <1>1, <1>6 DEF Late
<1> QED
  BY <1>1, <1>4, <1>5, <1>7

\* The call that the innermost main loop runs, when it is late.
LEMMA TopLate ==
  ASSUME IInv, stack # <<>>, NEW c \in Calls, c \in Late, c \in Top.running
  PROVE  Top.at = "result"
<1>1. /\ Len(stack) \in 1..Len(stack) /\ Top = stack[Len(stack)]
      /\ \A k, m \in 1..Len(stack) : k # m => stack[k].running \cap stack[m].running = {}
  BY TopIs DEF IInv, FramesOK
<1>2. PICK k \in 1..Len(stack) : stack[k].at = "result" /\ c \in stack[k].running
  BY DEF Late
<1>3. k = Len(stack)
  BY <1>1, <1>2
<1> QED
  BY <1>1, <1>2, <1>3

\* Only the steps of idle_func_of_callback change which calls are late.
LEMMA UiLate ==
  ASSUME IInv, UiStep
  PROVE  \/ done' = done /\ Late' = Late
         \/ \E c \in Calls : SetDone(c) /\ done' = done \cup {c} /\ Late' = Late \cup {c}
         \/ \E c \in Calls : SetResult(c) /\ done' = done /\ Late' = Late \ {c}
         \/ Deinit /\ done' = done /\ Late' = {}
<1> DEFINE Same == done' = done /\ Late' = Late
<1>1. Late \subseteq Calls /\ Late' \subseteq Calls
  BY DEF Late
<1>2. stack # <<>> => Top \in Frame /\ NewLoop \in Frame /\ Len(stack) \in Nat
  BY TopIs DEF IInv, NewLoop, Frame
<1>3. UNCHANGED stack => Late' = Late
  BY DEF Late
<1>4. ASSUME stack # <<>>, NEW f \in Frame, SetTop(f), f.running = Top.running, f.at = Top.at
      PROVE  Late' = Late
  <2>1. Len(stack) \in 1..Len(stack) /\ Top = stack[Len(stack)]
    BY <1>4, TopIs DEF IInv
  <2>2. \A c \in Calls : f.at = "result" /\ c \in f.running => c \in Late
    BY <1>4, <2>1 DEF Late
  <2> QED
    BY <1>1, <1>4, <2>2, LateTop, TopLate
<1>5. ASSUME stack # <<>>, NEW f \in Frame, SetTop(f), f.at # "result", Top.at # "result"
      PROVE  Late' = Late
  BY <1>1, <1>5, LateTop, TopLate
<1>6. stack # <<>> => Returned \in Frame /\ Returned.at # "result" /\ Returned.running = {}
  BY <1>2 DEF Returned, Frame
<1>7. CASE ReceiveRequest
  <2>1. stack # <<>> /\ SetTop([Top EXCEPT !.some = TRUE]) /\ done' = done
    BY <1>7 DEF ReceiveRequest, Receiving
  <2> QED
    BY <1>2, <1>4, <2>1 DEF Frame
<1>8. CASE EventsEnd
  <2>1. stack # <<>> /\ SetTop([Top EXCEPT !.phase = "idles", !.some = FALSE]) /\ done' = done
    BY <1>8 DEF EventsEnd, Receiving
  <2> QED
    BY <1>2, <1>4, <2>1 DEF Frame
<1>9. ASSUME NEW i \in Idles, CallIdle(i) PROVE Same
  <2> DEFINE f == [Top EXCEPT !.running = {i}, !.at = "func"]
  <2>1. stack # <<>> /\ SetTop(f) /\ done' = done /\ Top.running = {}
    BY <1>9 DEF CallIdle, Dispatching
  <2>2. f \in Frame /\ f.at = "func"
    BY <1>2, <2>1 DEF Frame
  <2> QED
    BY <1>1, <2>1, <2>2, LateTop
<1>10. CASE IdlesEnd
  <2> DEFINE f == IF quited THEN [NewLoop EXCEPT !.phase = "exit"] ELSE NewLoop
  <2>1. stack # <<>> /\ SetTop(f) /\ done' = done /\ Top.at = "-"
    BY <1>10 DEF IdlesEnd, Dispatching
  <2>2. f \in Frame /\ f.at = "-"
    BY DEF NewLoop, Frame
  <2> HIDE DEF f
  <2> QED
    BY <1>5, <2>1, <2>2
<1>11. CASE ReceiveEvent
  <2> DEFINE f == [Top EXCEPT !.some = TRUE, !.at = "other"]
  <2>1. stack # <<>> /\ SetTop(f) /\ done' = done /\ Top.at = "-"
    BY <1>11 DEF ReceiveEvent, Receiving
  <2>2. f \in Frame /\ f.at = "other"
    BY <1>2, <2>1 DEF Frame
  <2> HIDE DEF f
  <2> QED
    BY <1>5, <2>1, <2>2
<1>12. CASE OtherReturns
  <2> DEFINE f == [Top EXCEPT !.at = "-"]
  <2>1. stack # <<>> /\ SetTop(f) /\ done' = done /\ Top.at = "other"
    BY <1>12 DEF OtherReturns
  <2>2. f \in Frame /\ f.at = "-"
    BY <1>2, <2>1 DEF Frame
  <2> HIDE DEF f
  <2> QED
    BY <1>5, <2>1, <2>2
<1>13. CASE Deinit
  BY <1>13 DEF Deinit, Late
<1>14. ASSUME NEW c \in Calls, SetDone(c) PROVE done' = done \cup {c} /\ Late' = Late \cup {c}
  <2> DEFINE f == [Top EXCEPT !.at = "result"]
  <2>1. stack # <<>> /\ SetTop(f) /\ done' = done \cup {c} /\ Top.running = {c} /\ Top.at = "done"
    BY <1>14 DEF SetDone
  <2>2. f \in Frame /\ f.at = "result" /\ f.running = {c}
    BY <1>2, <2>1 DEF Frame
  <2> QED
    BY <1>1, <2>1, <2>2, LateTop, TopLate
<1>15. ASSUME NEW c \in Calls, SetResult(c) PROVE done' = done /\ Late' = Late \ {c}
  <2>1. stack # <<>> /\ SetTop(Returned) /\ done' = done /\ Top.running = {c}
    BY <1>15 DEF SetResult, LeavesList
  <2> QED
    BY <1>1, <1>6, <2>1, LateTop
<1>16. CASE CallbackReturns
  <2>1. ASSUME NEW i, InCallback, StaysInList(i) \/ LeavesList(i) PROVE Late' = Late
    BY <1>5, <1>6, <2>1 DEF InCallback, StaysInList, LeavesList
  <2>2. ASSUME NEW c \in Calls, NEW ret \in Rets, FinishSync(c, ret) PROVE Same
    <3> DEFINE f == [Top EXCEPT !.at = "done"]
    <3>1. stack # <<>> /\ SetTop(f) /\ done' = done /\ Top.at # "result"
      BY <2>2 DEF FinishSync, InCallback
    <3>2. f \in Frame /\ f.at = "done"
      BY <1>2, <3>1 DEF Frame
    <3> QED
      BY <1>5, <3>1, <3>2
  <2>3. ASSUME NEW i \in Local, ReturnLocal(i) PROVE Same
    BY <2>1, <2>3 DEF ReturnLocal
  <2>4. ASSUME NEW c \in Calls, Repeat(c) \/ Finish(c) PROVE Same
    BY <2>1, <2>4 DEF Repeat, Finish
  <2> QED
    BY <1>16, <1>12, <2>2, <2>3, <2>4 DEF CallbackReturns
<1>17. CASE OpenLoop
  <2>1. stack' = Append(stack, NewLoop) /\ stack \in Seq(Frame) /\ stack # <<>> /\ done' = done
    BY <1>17 DEF OpenLoop, IInv, FramesOK, InCallback
  <2>2. Len(stack') = Len(stack) + 1 /\ Len(stack) \in Nat
        /\ \A k \in 1..Len(stack') : stack'[k] = IF k = Len(stack) + 1 THEN NewLoop ELSE stack[k]
    BY <1>2, <2>1
  <2>3. NewLoop.running = {}
    BY DEF NewLoop
  <2> QED
    BY <2>1, <2>2, <2>3 DEF Late
<1>18. CASE CloseLoop
  <2>1. /\ stack' = SubSeq(stack, 1, Len(stack) - 1) /\ stack \in Seq(Frame) /\ Len(stack) \in Nat \ {0}
        /\ stack[Len(stack)] = NewLoop /\ done' = done
    BY <1>2, <1>18 DEF CloseLoop, AtLoopHead, Depth, Top, IInv, FramesOK
  <2>2. PICK n \in Nat : n = Len(stack) - 1
    BY <2>1
  <2>3. stack' = [k \in 1..n |-> stack[k]]
    BY <2>1, <2>2
  <2>4. Len(stack') = n /\ Len(stack) = n + 1 /\ \A k \in 1..n : stack'[k] = stack[k]
    BY <2>1, <2>2, <2>3
  <2>5. NewLoop.running = {}
    BY DEF NewLoop
  <2>6. ASSUME NEW c \in Calls PROVE c \in Late' <=> c \in Late
    <3>1. \A k \in 1..(n + 1) : k \in 1..n \/ k = n + 1
      BY <2>2
    <3>2. 1..n \subseteq 1..(n + 1)
      BY <2>2
    <3> QED
      BY <2>1, <2>4, <2>5, <3>1, <3>2 DEF Late
  <2> QED
    BY <1>1, <2>1, <2>6
<1>19. CASE Quit
  <2> DEFINE f == [NewLoop EXCEPT !.phase = "idles"]
  <2>1. stack # <<>> /\ SetTop(f) /\ done' = done /\ Top = NewLoop
    BY <1>19 DEF Quit, AtLoopHead
  <2>2. f \in Frame /\ f.at = "-" /\ NewLoop.at = "-"
    BY DEF NewLoop, Frame
  <2> HIDE DEF f
  <2> QED
    BY <1>5, <2>1, <2>2
<1>20. ASSUME NEW i \in Local, AddLocal(i) \/ RemoveLocal(i) PROVE Same
  BY <1>3, <1>20 DEF AddLocal, RemoveLocal
<1>21. CASE LoopStep
  BY <1>7, <1>8, <1>9, <1>10, <1>14, <1>15, <1>21, <1>11, <1>13, <1>2, <1>4 DEF LoopStep
<1> QED
  BY <1>16, <1>17, <1>18, <1>19, <1>20, <1>21 DEF UiStep

\* What happens to the calls that run and to those that are still to come.
LEMMA UiBusy ==
  ASSUME IInv, UiStep
  PROVE  \/ busy' = busy /\ pending' = pending
         \/ \E i \in Idles : CallIdle(i)
         \/ \E i \in Local \cup (Calls \ SyncCalls) : busy' = busy \ {i} /\ pending' = pending
         \/ \E c \in Calls : SetResult(c) /\ busy' = busy \ {c} /\ pending' = pending
<1>1. CASE LoopStep
  BY <1>1 DEF LoopStep, ReceiveRequest, ReceiveEvent, EventsEnd, IdlesEnd, Deinit, SetDone, SetResult, LeavesList
<1>2. CASE CallbackReturns
  BY <1>2 DEF CallbackReturns, OtherReturns, ReturnLocal, Repeat, Finish, FinishSync, StaysInList, LeavesList
<1>3. CASE OpenLoop \/ CloseLoop \/ Quit
  BY <1>3 DEF OpenLoop, CloseLoop, Quit
<1>4. ASSUME NEW i \in Local, AddLocal(i) \/ RemoveLocal(i) PROVE busy' = busy /\ pending' = pending
  BY <1>4 DEF AddLocal, RemoveLocal
<1> QED
  BY <1>1, <1>2, <1>3, <1>4 DEF UiStep

\* The UI thread frees the info only of a call that nobody waits for.
LEMMA UiFrees ==
  ASSUME UiStep
  PROVE  info' = info \/ \E c \in Calls : Finish(c) /\ info' = [info EXCEPT ![c] = "freed"]
BY DEF UiStep, LoopStep, CallbackReturns, ReceiveRequest, ReceiveEvent, EventsEnd, CallIdle, IdlesEnd, Deinit,
       SetDone, SetResult, OtherReturns, ReturnLocal, Repeat, Finish, FinishSync, OpenLoop, CloseLoop, Quit, AddLocal, RemoveLocal

\* A call whose idle function has been removed is used nowhere.
LEMMA CallGone ==
  ASSUME FullInv, stack # <<>>, NEW c, LeavesList(c), queue' = queue
  PROVE  c \notin InUse'
<1>1. c \in busy
  BY TopIsBusy DEF LeavesList, FullInv
<1>2. idles' = Without(idles, c) /\ busy' = busy \ {c}
  BY DEF LeavesList
<1>3. Elems(idles) = Listed /\ Elems(idles') = Listed' /\ Queued' = Queued
  BY DEF Elems, Queued, Listed
<1>4. Listed' = Listed \ {c}
  BY <1>2, <1>3, WithoutIs DEF FullInv, Lists
<1> QED
  BY <1>1, <1>2, <1>3, <1>4 DEF FullInv, Life, InUse

\* A step of the UI thread.
LEMMA UiTold == ASSUME FullInv, Told, IInv', UiStep PROVE Told'
<1> USE DEF FullInv, Told
<1>1. UNCHANGED <<cpc, call>>
  BY UiSummary
<1>2. done \subseteq SyncCalls /\ SyncCalls \subseteq Calls /\ Calls \cap Local = {} /\ Late \subseteq Calls
  BY CallsAssumption DEF Values, Late
<1>3. done \subseteq done' /\ (done' = done \/ \E c \in Calls : SetDone(c) /\ done' = done \cup {c})
  BY UiLate
<1>4. Late' \subseteq done'
  BY UiLate
<1>5. ASSUME NEW i \in Idles, CallIdle(i)
      PROVE  i \in Listed /\ busy' = busy \cup {i} /\ Pending' = Pending \ {i}
  <2>1. i \in Listed /\ busy' = busy \cup {i} /\ pending' = Without(pending, i)
    BY <1>5, ChosenIs DEF CallIdle, Listed
  <2>2. Elems(pending) = Pending /\ Elems(pending') = Pending'
    BY DEF Elems, Pending
  <2> QED
    BY <2>1, <2>2, WithoutIs DEF Lists
<1>6. \A c \in Calls : c \in InUse' => c \in InUse
  <2>1. busy' \subseteq busy \cup Listed
    BY <1>5, UiSummary
  <2>2. Queued' \subseteq Queued /\ Listed' \subseteq Listed \cup Queued \cup Local
    BY UiWhere
  <2> QED
    BY <1>2, <2>1, <2>2 DEF InUse
<1>7. ASSUME NEW c \in Calls, SetResult(c) \/ Finish(c) PROVE c \notin InUse'
  BY <1>7, CallGone DEF SetResult, Finish, InCallback
<1>8. ASSUME Deinit PROVE InUse' \cap Calls = {}
  <2>1. quited /\ idles' = <<>> /\ stack' = <<>> /\ queue' = queue
    BY <1>8 DEF Deinit
  <2>3. Queued = {}
    BY <2>1 DEF LostOK
  <2>4. Listed' = {} /\ Queued' = Queued
    BY <2>1 DEF Queued, Listed
  <2>2. busy' = {}
    BY <2>1 DEF IInv, FramesOK
  <2> QED
    BY <2>2, <2>3, <2>4 DEF InUse
<1>9. ASSUME NEW c \in Late, c \in InUse' PROVE c \in Late'
  BY <1>2, <1>7, <1>8, <1>9, UiLate
<1>10. done' \cap InUse' \subseteq Late'
  <2>1. ASSUME NEW c \in Calls, SetDone(c), done' = done \cup {c} PROVE c \in Late'
    <3>1. ~Deinit /\ \A d \in Calls : ~SetResult(d)
      BY <2>1 DEF SetDone, SetResult, Deinit, Dispatching
    <3>2. \A d \in Calls : SetDone(d) => d = c
      BY <2>1 DEF SetDone
    <3>3. c \in InUse
      BY <2>1, TopIsBusy DEF SetDone, InUse
    <3>4. done' = done => c \in Late
      BY <2>1, <3>3
    <3> QED
      BY <3>1, <3>2, <3>4, UiLate
  <2> QED
    BY <1>2, <1>3, <1>6, <1>9, <2>1
<1>11. ASSUME NEW c \in Calls, c \in InUse', info'[c] = "freed" PROVE c \in Late'
  <2>1. info[c] = "freed"
    BY <1>7, <1>11, UiFrees DEF Values
  <2> QED
    BY <1>6, <1>9, <1>11, <2>1
<1>12. ASSUME NEW t \in Callers, cpc'[t] = "wait"
       PROVE  /\ call'[t] \in SyncCalls /\ info'[call'[t]] = "live"
              /\ call'[t] \in Pending' \cup busy' \cup done'
  <2> DEFINE c == call[t]
  <2>1. cpc[t] = "wait" /\ call'[t] = c
    BY <1>1, <1>12
  <2>2. c \in SyncCalls /\ info[c] = "live" /\ c \in Pending \cup busy \cup done
    BY <2>1
  <2> HIDE DEF c
  <2>3. info'[c] = "live"
    <3>1. \A d \in Calls : Finish(d) => d # c
      BY <2>2 DEF Finish
    <3> QED
      BY <1>2, <2>2, <3>1, UiFrees DEF Values
  <2>5. c \in Pending' \cup busy' \cup done'
    <3>1. CASE c \in done
      BY <1>3, <3>1
    <3>2. CASE \E i \in Idles : CallIdle(i)
      BY <1>3, <1>5, <2>2, <3>2
    <3>3. ASSUME pending' = pending PROVE Pending' = Pending
      BY <3>3 DEF Pending
    <3>4. CASE busy' = busy /\ pending' = pending
      BY <1>3, <2>2, <3>3, <3>4
    <3>5. CASE \E i \in Local \cup (Calls \ SyncCalls) : busy' = busy \ {i} /\ pending' = pending
      BY <1>2, <1>3, <2>2, <2>2, <3>3, <3>5
    <3>6. CASE \E d \in Calls : SetResult(d) /\ busy' = busy \ {d} /\ pending' = pending
      <4>1. PICK d \in Calls : SetResult(d) /\ busy' = busy \ {d} /\ pending' = pending
        BY <3>6
      <4>2. d \in Late
        <5>1. Len(stack) \in 1..Len(stack) /\ Top = stack[Len(stack)]
          BY <4>1, TopIs DEF IInv, SetResult
        <5> QED
          BY <4>1, <5>1 DEF SetResult, LeavesList, Late
      <4> QED
        BY <1>3, <2>2, <3>3, <4>1, <4>2
    <3> QED
      BY <3>2, <3>4, <3>5, <3>6, UiBusy
  <2> QED
    BY <2>1, <2>2, <2>3, <2>5
<1>13. \A t \in Callers : cpc'[t] \in {"read", "free"} => call'[t] \in done'
  BY <1>1, <1>3
<1>14. \A c \in done' : info'[c] # "none"
  <2>1. \A c \in Calls : info[c] # "none" => info'[c] # "none"
    BY UiFrees DEF Values
  <2>2. ASSUME NEW c \in Calls, SetDone(c) PROVE info[c] # "none"
    BY <2>2, TopIsBusy DEF SetDone, Life, InUse
  <2> QED
    BY <1>2, <1>3, <2>1, <2>2
<1> QED
  BY <1>4, <1>10, <1>11, <1>12, <1>13, <1>14

\* A step of a caller.
LEMMA CallerTold ==
  ASSUME FullInv, Told, NEW t \in Callers, CallerStep(t) \/ \E c \in Calls : Call(t, c)
  PROVE  Told'
<1> USE DEF FullInv, IInv, Ended, Told
<1>1. /\ info \in [Calls -> {"none", "live", "freed"}] /\ done \subseteq SyncCalls
      /\ SyncCalls \subseteq Calls /\ NULL \notin Calls
  BY CallsAssumption DEF Values
<1>2. UNCHANGED <<busy, stack, idles>> /\ Late' = Late /\ Listed' = Listed
  BY DEF CallerStep, Queue, Refused, Retry, GiveUp, SeeDone, ReadResult, FreeInfo, Call, ui, Late, Listed
<1>3. queue' = queue /\ pending' = pending => InUse' = InUse /\ Pending' = Pending
  BY <1>2 DEF InUse, Queued, Pending
<1>4. \A u \in Callers : u # t => call[u] # call[t] \/ call[t] \notin Calls
  BY <1>1 DEF Life
<1>5. ASSUME NEW c \in Calls, Call(t, c) PROVE Told'
  BY <1>1, <1>2, <1>3, <1>5 DEF Call, ui
<1>6. CASE Queue(t)
  <2> DEFINE c == call[t]
  <2>1. c \in Calls /\ info[c] = "none" /\ c \notin InUse /\ cpc[t] = "queue"
    BY <1>6 DEF Queue, Life
  <2>2. /\ queue' = Append(queue, c) /\ pending' = Append(pending, c)
        /\ info' = [info EXCEPT ![c] = "live"] /\ done' = done
    BY <1>6 DEF Queue, InfoCreated
  <2>3. /\ \A u \in Callers : u # t => cpc'[u] = cpc[u] /\ call'[u] = call[u]
        /\ IF c \in SyncCalls THEN cpc'[t] = "wait" /\ call'[t] = c ELSE cpc'[t] = "idle"
    BY <1>6 DEF Queue, Return
  <2>4. \A u \in Callers : u # t => call[u] # c
    BY <1>4, <2>1
  <2> HIDE DEF c
  <2>5. Elems(queue) = Queued /\ Elems(pending) = Pending /\ Elems(queue') = Queued' /\ Elems(pending') = Pending'
    BY DEF Elems, Queued, Pending
  <2>6. Queued' = Queued \cup {c} /\ Pending' = Pending \cup {c}
    BY <2>1, <2>2, <2>5, AppendIs DEF Lists
  <2>7. InUse' = InUse \cup {c} /\ c \notin done
    BY <1>2, <2>1, <2>6 DEF InUse
  <2>8. done' \cap InUse' \subseteq Late'
    BY <1>2, <2>2, <2>7
  <2>9. \A d \in done' : info'[d] # "none"
    BY <1>1, <2>2
  <2>10. \A u \in Callers : cpc'[u] \in {"read", "free"} => call'[u] \in done'
    BY <2>2, <2>3
  <2>11. ASSUME NEW u \in Callers, cpc'[u] = "wait"
         PROVE  /\ call'[u] \in SyncCalls /\ info'[call'[u]] = "live"
                /\ call'[u] \in Pending' \cup busy' \cup done'
    <3>1. CASE u = t
      BY <1>1, <2>1, <2>2, <2>3, <2>6, <2>11, <3>1
    <3>2. CASE u # t
      BY <1>1, <1>2, <2>2, <2>3, <2>6, <2>11, <3>2
    <3> QED
      BY <3>1, <3>2
  <2>12. \A d \in InUse' \cap Calls : info'[d] = "freed" => d \in Late'
    BY <1>1, <1>2, <2>1, <2>2, <2>7
  <2> QED
    BY <1>2, <2>2, <2>8, <2>9, <2>10, <2>11, <2>12
<1>7. ASSUME cpc' = [cpc EXCEPT ![t] = "idle"], call' = [call EXCEPT ![t] = NULL],
             UNCHANGED <<queue, pending, info, done>>
      PROVE  Told'
  BY <1>1, <1>2, <1>3, <1>7
<1>8. CASE Refused(t) \/ GiveUp(t)
  BY <1>7, <1>8 DEF Refused, GiveUp, Return
<1>9. CASE Retry(t)
  BY <1>2, <1>3, <1>9 DEF Retry
<1>10. CASE SeeDone(t)
  BY <1>2, <1>3, <1>10 DEF SeeDone
<1>11. CASE ReadResult(t)
  BY <1>2, <1>3, <1>11 DEF ReadResult
<1>12. CASE FreeInfo(t)
  <2>1. call[t] \in done /\ call[t] \in Calls
    BY <1>12 DEF FreeInfo
  <2>2. /\ cpc' = [cpc EXCEPT ![t] = "idle"] /\ call' = [call EXCEPT ![t] = NULL]
        /\ info' = [info EXCEPT ![call[t]] = "freed"] /\ UNCHANGED <<queue, pending, done>>
    BY <1>12 DEF FreeInfo, Return
  <2>3. \A u \in Callers : cpc'[u] # "idle" => u # t /\ cpc'[u] = cpc[u] /\ call'[u] = call[u] /\ call[u] # call[t]
    BY <1>4, <2>1, <2>2
  <2>4. \A d \in done' : info'[d] # "none"
    BY <1>1, <2>2
  <2>5. \A d \in InUse' \cap Calls : info'[d] = "freed" => d \in Late'
    BY <1>1, <1>2, <1>3, <2>1, <2>2
  <2> QED
    BY <1>1, <1>2, <1>3, <2>2, <2>3, <2>4, <2>5
<1> QED
  BY <1>5, <1>6, <1>8, <1>9, <1>10, <1>11, <1>12 DEF CallerStep

\* What the two threads know of a call holds always.
LEMMA ToldInvariance == Spec => [](FullInv /\ Told)
<1>1. Init => FullInv /\ Told
  <2> SUFFICES ASSUME Init PROVE FullInv /\ Told
    OBVIOUS
  <2>1. FullInv
    BY InitFull
  <2>2. Late = {}
    BY DEF Init, NewLoop, Late
  <2> QED
    BY <2>1, <2>2 DEF Init, Told
<1>2. FullInv /\ Told /\ [Next]_vars => FullInv' /\ Told'
  <2> SUFFICES ASSUME FullInv, Told, [Next]_vars PROVE FullInv' /\ Told'
    OBVIOUS
  <2>1. FullInv'
    BY NextFull
  <2>2. UNCHANGED vars => Told'
    BY DEF vars, ui, caller, Told, Late, InUse, Queued, Listed, Pending
  <2>3. ASSUME NEW e \in Events, PostEvent(e) PROVE Told'
    <3>1. Queued' = Queued \cup {e} /\ e \notin Calls /\ done \subseteq Calls
      BY <2>3, EventLife, CallsAssumption DEF FullInv, Values
    <3> QED
      BY <2>3, <3>1 DEF PostEvent, ui, caller, Told, Late, InUse, Listed, Pending
  <2>4. Told'
    BY <2>1, <2>2, <2>3, CallerTold, UiTold DEF Next, UiStep, FullInv
  <2> QED
    BY <2>1, <2>4
<1> QED
  BY <1>1, <1>2, PTL DEF Spec

\* A thread that waits for its call does so for a reason: the request is in the
\* queue or the idle list, or the function runs, or it has ended and done is set;
\* or tk_exit has destroyed the queue with the request.
WaitsForSomething ==
  \A t \in Callers : cpc[t] = "wait" =>
    call[t] \in (Pending \cap (Queued \cup Listed)) \cup Running \cup done \cup lost

\* No request is lost on its way from tk_run_in_ui_thread through the event queue
\* and the idle functions to idle_func_of_callback, but by tk_exit in the queue
\* (the safety half of SyncReturns).
THEOREM NoRequestIsLost == Spec => []WaitsForSomething
<1>1. FullInv /\ Told => WaitsForSomething
  <2> SUFFICES ASSUME FullInv, Told PROVE WaitsForSomething
    OBVIOUS
  <2>1. busy = Running
    BY RunIs DEF FullInv, IInv, Running, Depth
  <2> QED
    BY <2>1 DEF Told, WaitsForSomething, FullInv, InOrder
<1> QED
  BY <1>1, ToldInvariance, PTL

\* The info of a call that is queued, in the idle list or runs is allocated; only
\* between cinfo->done = TRUE and cinfo->result = ret may the caller have freed it.
InfoIsLive ==
  \A c \in Calls \cap (Queued \cup Listed \cup Running) :
    info[c] = "live" \/ \E k \in 1..Depth : stack[k].at = "result" /\ c \in stack[k].running

\* The write of the result (ui_thread_result) is the only access of the UI thread
\* to an info that its caller may have freed.
THEOREM OnlyTheResultIsLate == Spec => []InfoIsLive
<1>1. FullInv /\ Told => InfoIsLive
  <2> SUFFICES ASSUME FullInv, Told PROVE InfoIsLive
    OBVIOUS
  <2>1. busy = Running
    BY RunIs DEF FullInv, IInv, Running, Depth
  <2>2. ASSUME NEW c \in Calls, c \in InUse PROVE info[c] = "live" \/ c \in Late
    BY <2>2 DEF FullInv, Life, Values, Told
  <2> QED
    BY <2>1, <2>2 DEF InUse, InfoIsLive, Late, Depth
<1> QED
  BY <1>1, ToldInvariance, PTL
=============================================================================
