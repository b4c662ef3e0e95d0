------------------------ MODULE ModalDialogs_proofs ------------------------
(***************************************************************************)
(* What becomes of the quits, for any number of dialogs and whatever the    *)
(* application quits when.  Three arguments.                               *)
(*                                                                         *)
(* Until a loop is quit out of turn, a quit is for the innermost loop that *)
(* has not been quit, so the numbers in quit_num and saved stay those of   *)
(* the loops that have (QuitInTurn).                                       *)
(*                                                                         *)
(* dialog_quit accepts an opened dialog.  If another modal dialog runs     *)
(* above it, it has either been hidden when that one was opened, or that   *)
(* one still waits to be opened (HiddenBelow); the first needs all the     *)
(* dialogs above to have been quit.  HiddenBelow rests on the idle         *)
(* functions that open dialogs being called in the order of the dialogs    *)
(* (OpenInOrder), and on nothing being idle for a dialog that has gone     *)
(* (IdleStage, IdleOrder).                                                 *)
(*                                                                         *)
(* A loop may end with the quit of another.  Then that other has no quit   *)
(* left, but the dialog of the first can still be quit, and the other will *)
(* end with that quit.  So there are never more quits than loops that have *)
(* been quit and still run (Owed), and the last loop, that of tk_run, ends *)
(* only when it has been quit itself.                                      *)
(***************************************************************************)
EXTENDS ModalDialogs, FiniteSets, FiniteSetTheorems, TLAPS

-----------------------------------------------------------------------------
(* The inductive invariant. *)

\* The idle function that opens d.
OpenIdle(d) == [do |-> "open", win |-> d]

\* The idle function that closes d.
CloseIdle(d) == [do |-> "close", win |-> d]

\* The loops are those of MAIN and of different dialogs, whose windows exist.
StackShape ==
  /\ Depth > 0 => stack[1] = MAIN
  /\ \A k \in 2..Depth : stack[k] \in Wins
  /\ \A j, k \in 1..Depth : j # k => stack[j] # stack[k]

\* The dialog of an inner loop is above those of the outer ones.
StackOrder == \A j, k \in 2..Depth : j < k => stack[j] \in under[stack[k]]

\* Only windows are below a window, and not the other way round.
UnderOrder ==
  \A e \in Dialogs : under[e] \subseteq Wins /\ \A f \in under[e] : e \notin under[f]

\* A window waits at most to be opened and then to be closed.
IdleOrder ==
  \A p, q \in 1..Len(idles) :
    p < q /\ idles[p].win = idles[q].win => idles[p].do = "open" /\ idles[q].do = "close"

\* The windows that wait exist, and have no loop when they wait to be closed.
IdleStage ==
  \A p \in 1..Len(idles) :
    /\ idles[p].do = "destroy" => stage[idles[p].win] = "CLOSED"
    /\ idles[p].do # "destroy" => idles[p].win \in Wins
    /\ idles[p].do # "open" => idles[p].win \notin Running

\* When a dialog waits to be opened, those of the inner loops wait behind it.
OpenInOrder ==
  \A j, k \in 2..Depth : j < k =>
    \A p \in 1..Len(idles) : idles[p] = OpenIdle(stack[j]) =>
      \E q \in 1..Len(idles) : p < q /\ idles[q] = OpenIdle(stack[k])

\* A dialog that is not hidden has above it only dialogs that have been quit, or
\* that still wait to be opened.
HiddenBelow ==
  \A j, k \in 2..Depth : j < k /\ stage[stack[j]] = "OPENED" =>
    \/ stack[k] \in quited
    \/ \E q \in 1..Len(idles) : idles[q] = OpenIdle(stack[k])

\* A dialog whose loop has ended has been quit, if each was in turn; it waits to
\* be closed in any case.
ReturnedQuit ==
  \A d \in Wins \ Running :
    /\ early = {} => d \in quited
    /\ \E p \in 1..Len(idles) : idles[p] = CloseIdle(d)

IInv ==
  /\ TypeOK
  /\ StackShape
  /\ StackOrder
  /\ UnderOrder
  /\ IdleOrder
  /\ IdleStage
  /\ OpenInOrder
  /\ HiddenBelow
  /\ ReturnedQuit
  /\ QuitsAccounted

-----------------------------------------------------------------------------
(* Types. *)

\* Whatever a step does, the state keeps its types; in particular a loop takes
\* a quit only when there is one.
LEMMA TypeInductive == TypeOK /\ [Next]_vars => TypeOK'
<1> SUFFICES ASSUME TypeOK, [Next]_vars PROVE TypeOK'
  OBVIOUS
<1> USE DEF TypeOK, Loops, Depth, Idle, Top
<1>1. CASE StepBegin
  BY <1>1 DEF StepBegin, Ended
<1>2. CASE IdlesEnd
  BY <1>2 DEF IdlesEnd, Ended
<1>3. CASE StepEnd
  BY <1>3 DEF StepEnd, Ended
<1>4. CASE LoopEnd
  <2>1. stack # <<>> /\ Len(stack) \in Nat \ {0}
    BY <1>4 DEF LoopEnd, Ended
  <2>2. stack' \in Seq(Loops) /\ phase' \in Seq({"head", "events", "timers"}) /\ Len(phase') = Len(stack')
    BY <1>4, <2>1 DEF LoopEnd
  <2>3. quit_num' \in Nat
    BY <1>4 DEF LoopEnd, QuitsLeft
  <2>4. idles' \in Seq(Idle)
    <3>1. Top \in Loops
      BY <2>1
    <3>2. CASE Top = MAIN
      BY <1>4, <3>2 DEF LoopEnd
    <3>3. CASE Top # MAIN
      <4>1. [do |-> "close", win |-> Top] \in Idle
        BY <3>1, <3>3
      <4> QED
        BY <1>4, <3>3, <4>1 DEF LoopEnd
    <3> QED
      BY <3>2, <3>3
  <2> QED
    BY <1>4, <2>2, <2>3, <2>4 DEF LoopEnd
<1>5. ASSUME NEW d \in Dialogs, Modal(d) PROVE TypeOK'
  <2>1. idles' \in Seq(Idle)
    BY <1>5 DEF Modal
  <2>2. stack' \in Seq(Loops) /\ phase' \in Seq({"head", "events", "timers"}) /\ Len(phase') = Len(stack')
    BY <1>5 DEF Modal
  <2> QED
    BY <1>5, <2>1, <2>2 DEF Modal, Saved, Wins
<1>6. ASSUME NEW d \in Dialogs, Quit(d) PROVE TypeOK'
  BY <1>6 DEF Quit, SetQuited, GivenBack
<1>7. CASE TkQuit
  BY <1>7 DEF TkQuit, SetQuited
<1>8. ASSUME NEW d \in Dialogs, Open(d) PROVE TypeOK'
  <2>1. idles' \in Seq(Idle)
    BY <1>8 DEF Open, Dispatch
  <2> QED
    BY <1>8, <2>1 DEF Open
<1>9. ASSUME NEW d \in Dialogs, Close(d) PROVE TypeOK'
  <2>1. idles' \in Seq(Idle)
    BY <1>9 DEF Close, Dispatch
  <2> QED
    BY <1>9, <2>1 DEF Close
<1>10. ASSUME NEW d \in Dialogs, Destroy(d) PROVE TypeOK'
  <2>1. idles' \in Seq(Idle)
    BY <1>10 DEF Destroy, Dispatch
  <2> QED
    BY <1>10, <2>1 DEF Destroy
<1>11. CASE UNCHANGED vars
  BY <1>11 DEF vars
<1> QED
  BY <1>1, <1>2, <1>3, <1>4, <1>5, <1>6, <1>7, <1>8, <1>9, <1>10, <1>11 DEF Next, LoopStep

-----------------------------------------------------------------------------
(* The steps. *)

\* What the invariant says of one quit: of the loops below k that are still to
\* be quit, the innermost is the one that the n quits leave.
LEMMA QuitBelowUnique ==
  ASSUME TypeOK, NEW n \in Nat, QuitBelow(Depth + 1, n),
         NEW j \in 1..Depth, stack[j] \notin quited,
         \A k \in 1..Depth : j < k => stack[k] \in quited
  PROVE  j = Depth - n
<1>1. Depth \in Nat
  BY DEF TypeOK, Depth
<1>2. ~(Depth + 1 - n <= j)
  BY <1>1 DEF QuitBelow
<1>3. n < Depth
  BY <1>1, <1>2
<1>4. stack[Depth + 1 - n - 1] \notin quited
  BY <1>1, <1>3 DEF QuitBelow
<1>5. ~(j < Depth - n)
  BY <1>1, <1>3, <1>4
<1> QED
  BY <1>1, <1>2, <1>5

\* A step that changes only the phase of a loop.
LEMMA PhaseStep ==
  ASSUME IInv, TypeOK', UNCHANGED <<stack, quit_num, saved, quited, stage, under, idles, early>>
  PROVE  IInv'
BY DEF IInv, StackShape, StackOrder, UnderOrder, IdleOrder, IdleStage, OpenInOrder, HiddenBelow,
       ReturnedQuit, QuitsAccounted, QuitBelow, Depth, Running, Wins, OpenIdle, CloseIdle

\* A quit of a loop d, whose turn it is if the accounts are still to be kept.
LEMMA QuitInTurn ==
  ASSUME IInv, NEW d \in Loops, d \notin quited, SetQuited(d), early' = {},
         UNCHANGED <<stack, saved>>,
         quit_num' = quit_num + (IF d = MAIN THEN 0 ELSE saved[d]) + 1
  PROVE  QuitsAccounted'
<1> USE DEF IInv
<1> DEFINE s == IF d = MAIN THEN 0 ELSE saved[d]
<1>1. early = {} /\ InTurn(d) /\ quited' = quited \cup {d} /\ UNCHANGED Depth
  BY DEF SetQuited, Depth
<1>2. PICK j \in 1..Depth : stack[j] = d /\ \A k \in j + 1..Depth : stack[k] \in quited
  BY <1>1 DEF InTurn
<1>3. Depth \in Nat /\ quit_num \in Nat /\ s \in Nat
  BY DEF TypeOK, Depth, Loops
<1>4. \A k \in 1..Depth : j < k => stack[k] \in quited
  BY <1>2, <1>3
<1>5. j = Depth - quit_num
  BY <1>1, <1>2, <1>3, <1>4, QuitBelowUnique DEF QuitsAccounted
<1>6. QuitBelow(j, s)
  <2>1. CASE d = MAIN
    <3>1. j = 1
      BY <1>2, <1>3, <2>1, ModalAssumption DEF StackShape, Wins
    <3> QED
      BY <1>3, <2>1, <3>1 DEF QuitBelow
  <2>2. CASE d # MAIN
    <3>1. j # 1
      BY <1>2, <1>3, <2>2 DEF StackShape
    <3>2. j \in 2..Depth
      BY <1>2, <1>3, <3>1
    <3> QED
      BY <1>1, <1>2, <2>2, <3>2 DEF QuitsAccounted
  <2> QED
    BY <2>1, <2>2
<1>7. \A i \in 1..Depth : i # j => (stack[i] \in quited <=> stack[i] \in quited')
  BY <1>1, <1>2 DEF StackShape
<1>8. quit_num' = quit_num + s + 1
  OBVIOUS
<1> HIDE DEF s
<1>9. QuitBelow(Depth + 1, quit_num)'
  <2>1. quit_num' < Depth + 1
    BY <1>3, <1>5, <1>6, <1>8 DEF QuitBelow
  <2>2. ASSUME NEW i \in 1..Depth, Depth + 1 - quit_num' <= i PROVE stack[i] \in quited'
    <3>1. CASE i < j
      BY <1>1, <1>3, <1>5, <1>6, <1>8, <2>2, <3>1 DEF QuitBelow
    <3>2. CASE i >= j
      BY <1>1, <1>2, <1>3, <1>4, <3>2
    <3> QED
      BY <1>3, <3>1, <3>2
  <2>3. ASSUME quit_num' < Depth PROVE stack[Depth - quit_num'] \notin quited'
    <3>1. Depth - quit_num' = j - s - 1 /\ Depth - quit_num' \in 1..Depth /\ Depth - quit_num' # j
      BY <1>3, <1>5, <1>8, <2>3
    <3>2. stack[j - s - 1] \notin quited
      BY <1>3, <1>6, <3>1 DEF QuitBelow
    <3> QED
      BY <1>7, <3>1, <3>2
  <2> QED
    BY <1>1, <1>3, <1>8, <2>1, <2>2, <2>3 DEF QuitBelow
<1>10. ASSUME NEW k \in 2..Depth, stack[k] \notin quited' PROVE QuitBelow(k, saved[stack[k]])'
  <2>1. k < j
    BY <1>1, <1>2, <1>3, <1>4, <1>10
  <2>2. QuitBelow(k, saved[stack[k]])
    BY <1>1, <1>10 DEF QuitsAccounted
  <2>3. saved[stack[k]] \in Nat
    BY DEF TypeOK, StackShape, Wins
  <2> QED
    BY <1>1, <1>3, <1>7, <2>1, <2>2, <2>3 DEF QuitBelow
<1> QED
  BY <1>1, <1>9, <1>10 DEF QuitsAccounted

\* A quit of a loop d moves no loop and no window.
LEMMA QuitKeeps ==
  ASSUME IInv, TypeOK', NEW d \in Loops, d \notin quited, SetQuited(d),
         UNCHANGED <<stack, saved, stage, under, idles>>,
         quit_num' = quit_num + (IF d = MAIN THEN 0 ELSE saved[d]) + 1
  PROVE  IInv'
<1> USE DEF IInv
<1>1. quited' = quited \cup {d} /\ (early' = {} => early = {})
  BY DEF SetQuited
<1>2. UNCHANGED <<Depth, Running, Wins>>
  BY DEF Depth, Running, Wins
<1>3. QuitsAccounted'
  <2>1. CASE early' = {}
    BY <2>1, QuitInTurn
  <2>2. CASE early' # {}
    BY <2>2 DEF QuitsAccounted
  <2> QED
    BY <2>1, <2>2
<1>4. (StackShape /\ StackOrder /\ UnderOrder /\ IdleOrder /\ IdleStage /\ OpenInOrder)'
  BY <1>2 DEF StackShape, StackOrder, UnderOrder, IdleOrder, IdleStage, OpenInOrder, OpenIdle
<1>5. HiddenBelow' /\ ReturnedQuit'
  BY <1>1, <1>2 DEF HiddenBelow, ReturnedQuit, OpenIdle, CloseIdle
<1> QED
  BY <1>3, <1>4, <1>5

\* tk_quit.
LEMMA TkQuitStep ==
  ASSUME IInv, TypeOK', TkQuit
  PROVE  IInv'
<1>1. /\ MAIN \in Loops /\ MAIN \notin quited /\ SetQuited(MAIN)
      /\ UNCHANGED <<stack, saved, stage, under, idles>>
  BY DEF TkQuit, Loops
<1>2. quit_num' = quit_num + 0 + 1
  BY DEF TkQuit, IInv, TypeOK
<1> QED
  BY <1>1, <1>2, QuitKeeps

\* dialog_quit.
LEMMA QuitStep ==
  ASSUME IInv, TypeOK', NEW d \in Dialogs, Quit(d)
  PROVE  IInv'
<1>1. /\ d \in Loops /\ d # MAIN /\ d \notin quited /\ SetQuited(d)
      /\ UNCHANGED <<stack, saved, stage, under, idles>>
  BY ModalAssumption DEF Quit, Loops
<1>2. quit_num' = quit_num + saved[d] + 1
  BY DEF Quit, GivenBack
<1> QED
  BY <1>1, <1>2, QuitKeeps

\* The innermost loop takes a quit, the one that is for it if each was in turn,
\* and ends.
LEMMA LoopEndStep ==
  ASSUME IInv, TypeOK', LoopEnd
  PROVE  IInv'
<1> USE DEF IInv
<1>1. Depth \in Nat \ {0} /\ quit_num \in Nat \ {0} /\ quit_num' = quit_num - 1
  BY DEF LoopEnd, QuitsLeft, Ended, TypeOK, Depth
<1>2. Depth' = Depth - 1 /\ \A k \in 1..Depth' : k \in 1..Depth /\ stack'[k] = stack[k]
  BY <1>1 DEF LoopEnd, TypeOK, Depth
<1>3. UNCHANGED <<saved, quited, stage, under, early>>
  BY DEF LoopEnd
<1>4. UNCHANGED Wins
  BY <1>3 DEF Wins
<1>5. early = {} => Top \in quited
  BY <1>1 DEF QuitsAccounted, QuitBelow, Top
<1>6. Running' = Running \ {Top}
  BY <1>1, <1>2 DEF Running, Top, StackShape
<1>7. early = {} => QuitBelow(Depth + 1, quit_num)'
  BY <1>1, <1>2, <1>3 DEF QuitsAccounted, QuitBelow
<1>8. ASSUME early = {}, NEW k \in 2..Depth', stack'[k] \notin quited' PROVE QuitBelow(k, saved[stack[k]])'
  <2>1. k \in 2..Depth /\ stack'[k] = stack[k]
    BY <1>1, <1>2
  <2>2. QuitBelow(k, saved[stack[k]]) /\ saved[stack[k]] \in Nat
    BY <1>3, <1>8, <2>1 DEF QuitsAccounted, TypeOK, StackShape, Wins
  <2> QED
    BY <1>1, <1>2, <1>3, <2>1, <2>2 DEF QuitBelow
<1>9. QuitsAccounted'
  BY <1>3, <1>7, <1>8 DEF QuitsAccounted
<1>10. (StackShape /\ StackOrder /\ UnderOrder)'
  BY <1>1, <1>2, <1>3, <1>4 DEF StackShape, StackOrder, UnderOrder
<1>11. ASSUME NEW n \in Nat, Len(idles') = n, Len(idles) \in 0..n,
              \A p \in 1..Len(idles) : idles'[p] = idles[p],
              Top \in Wins => \E p \in 1..n : idles'[p] = CloseIdle(Top)
       PROVE  ReturnedQuit'
  <2> SUFFICES ASSUME NEW e \in Wins, e \notin Running'
               PROVE  /\ early = {} => e \in quited
                      /\ \E p \in 1..n : idles'[p] = CloseIdle(e)
    BY <1>3, <1>4, <1>11 DEF ReturnedQuit, CloseIdle
  <2>1. CASE e = Top
    BY <1>5, <1>11, <2>1
  <2>2. CASE e # Top
    <3>1. PICK p \in 1..Len(idles) : idles[p] = CloseIdle(e)
      BY <1>6, <2>2 DEF ReturnedQuit
    <3>2. p \in 1..n /\ idles'[p] = CloseIdle(e)
      BY <1>11, <3>1
    <3>3. early = {} => e \in quited
      BY <1>6, <2>2 DEF ReturnedQuit
    <3> QED
      BY <3>2, <3>3
  <2> QED
    BY <2>1, <2>2
<1>12. CASE Top = MAIN
  <2>1. Depth = 1 /\ Depth' = 0
    BY <1>1, <1>2, <1>12, ModalAssumption DEF StackShape, Top, Wins
  <2>2. idles' = idles
    BY <1>12 DEF LoopEnd
  <2>3. OpenInOrder' /\ HiddenBelow'
    BY <2>1 DEF OpenInOrder, HiddenBelow
  <2>4. IdleOrder' /\ IdleStage'
    BY <1>3, <1>4, <1>6, <2>2 DEF IdleOrder, IdleStage
  <2>5. Top \notin Wins
    BY <1>12, ModalAssumption DEF Wins
  <2>6. Len(idles) \in Nat
    BY DEF TypeOK
  <2>7. ReturnedQuit'
    BY <1>11, <2>2, <2>5, <2>6
  <2> QED
    BY <1>9, <1>10, <2>3, <2>4, <2>7
<1>13. CASE Top # MAIN
  <2>1. Depth >= 2 /\ Top \in Wins /\ Top \in Dialogs
    BY <1>1, <1>13 DEF StackShape, Top, Wins
  <2>2. idles' = Append(idles, [do |-> "close", win |-> Top])
    BY <1>13 DEF LoopEnd
  <2>3. idles \in Seq(Idle) /\ Len(idles) \in Nat
    BY DEF TypeOK
  <2>4. /\ Len(idles') = Len(idles) + 1
        /\ \A p \in 1..Len(idles) : idles'[p] = idles[p]
        /\ idles'[Len(idles) + 1] = [do |-> "close", win |-> Top]
    BY <2>2, <2>3
  <2>5. Top \in Running
    BY <1>1 DEF Top, Running
  <2>6. IdleOrder'
    <3>1. \A p \in 1..Len(idles) : idles[p].win = Top => idles[p].do = "open"
      BY <2>5 DEF IdleStage
    <3> QED
      BY <2>3, <2>4, <3>1, SMTT(30) DEF IdleOrder
  <2>7. IdleStage'
    BY <1>3, <1>4, <1>6, <2>1, <2>3, <2>4 DEF IdleStage
  <2>8. OpenInOrder'
    <3> SUFFICES ASSUME NEW j \in 2..Depth', NEW k \in 2..Depth', j < k, NEW p \in 1..Len(idles'),
                        idles'[p] = OpenIdle(stack'[j])
                 PROVE  \E q \in 1..Len(idles') : p < q /\ idles'[q] = OpenIdle(stack'[k])
      BY DEF OpenInOrder, OpenIdle
    <3>1. j \in 2..Depth /\ k \in 2..Depth /\ stack'[j] = stack[j] /\ stack'[k] = stack[k]
      BY <1>1, <1>2
    <3>2. p \in 1..Len(idles) /\ idles[p] = OpenIdle(stack[j])
      BY <2>3, <2>4, <3>1 DEF OpenIdle
    <3>3. PICK q \in 1..Len(idles) : p < q /\ idles[q] = OpenIdle(stack[k])
      BY <3>1, <3>2 DEF OpenInOrder
    <3>4. q \in 1..Len(idles') /\ idles'[q] = OpenIdle(stack'[k])
      BY <2>3, <2>4, <3>1, <3>3
    <3> QED
      BY <3>3, <3>4
  <2>9. HiddenBelow'
    <3> SUFFICES ASSUME NEW j \in 2..Depth', NEW k \in 2..Depth', j < k, stage'[stack'[j]] = "OPENED"
                 PROVE  \/ stack'[k] \in quited'
                        \/ \E q \in 1..Len(idles') : idles'[q] = OpenIdle(stack'[k])
      BY DEF HiddenBelow, OpenIdle
    <3>1. j \in 2..Depth /\ k \in 2..Depth /\ stack'[j] = stack[j] /\ stack'[k] = stack[k]
      BY <1>1, <1>2
    <3>2. stack[k] \in quited \/ \E q \in 1..Len(idles) : idles[q] = OpenIdle(stack[k])
      BY <1>3, <3>1 DEF HiddenBelow
    <3>3. \A q \in 1..Len(idles) : q \in 1..Len(idles') /\ idles'[q] = idles[q]
      BY <2>3, <2>4
    <3> QED
      BY <1>3, <3>1, <3>2, <3>3
  <2>10. ReturnedQuit'
    <3>1. Len(idles) + 1 \in 1..Len(idles') /\ Len(idles') \in Nat /\ Len(idles) \in 0..Len(idles')
      BY <2>3, <2>4
    <3>2. idles'[Len(idles) + 1] = CloseIdle(Top)
      BY <2>4 DEF CloseIdle
    <3> QED
      BY <1>11, <2>4, <3>1, <3>2
  <2> QED
    BY <1>9, <1>10, <2>6, <2>7, <2>8, <2>9, <2>10
<1> QED
  BY <1>12, <1>13

\* dialog_modal puts the quits aside for the dialog that it opens.
LEMMA ModalStep ==
  ASSUME IInv, TypeOK', NEW d \in Dialogs, Modal(d)
  PROVE  IInv'
<1> USE DEF IInv
<1>1. Depth \in Nat \ {0} /\ quit_num \in Nat /\ quit_num' = 0
  BY DEF Modal, Saved, InStep, Ended, TypeOK, Depth
<1>2. /\ Depth' = Depth + 1
      /\ \A k \in 1..Depth : stack'[k] = stack[k]
      /\ stack'[Depth + 1] = d
  BY <1>1 DEF Modal, TypeOK, Depth
<1>3. /\ saved' = [saved EXCEPT ![d] = quit_num]
      /\ quited' = quited \ {d}
      /\ stage' = [stage EXCEPT ![d] = "CREATED"]
      /\ under' = [under EXCEPT ![d] = Wins]
      /\ early' = early
  BY DEF Modal, Saved
<1>4. d \notin Wins /\ Wins' = Wins \cup {d}
  BY <1>3 DEF Modal, Wins, TypeOK
<1>5. d # MAIN /\ d \notin Running /\ Running' = Running \cup {d}
  BY <1>1, <1>2, <1>4, ModalAssumption DEF StackShape, Running
<1>6. /\ idles \in Seq(Idle) /\ Len(idles) \in Nat
      /\ Len(idles') = Len(idles) + 1
      /\ \A p \in 1..Len(idles) : idles'[p] = idles[p]
      /\ idles'[Len(idles) + 1] = OpenIdle(d)
  BY DEF Modal, TypeOK, OpenIdle
<1>7. \A p \in 1..Len(idles) : idles[p].win # d
  BY <1>4 DEF Modal, IdleStage
<1>8. \A k \in 1..Depth : stack[k] # d /\ (stack[k] \in quited <=> stack[k] \in quited')
  BY <1>3, <1>5 DEF Running
<1>9. QuitsAccounted'
  <2>1. QuitBelow(Depth + 1, quit_num)'
    BY <1>1, <1>2, <1>3 DEF QuitBelow
  <2>2. ASSUME early = {}, NEW k \in 2..Depth', stack'[k] \notin quited' PROVE QuitBelow(k, saved[stack[k]])'
    <3>1. CASE k = Depth + 1
      <4>1. saved'[stack'[k]] = quit_num
        BY <1>2, <1>3, <3>1 DEF TypeOK
      <4> QED
        BY <1>1, <1>2, <1>8, <2>2, <3>1, <4>1 DEF QuitsAccounted, QuitBelow
    <3>2. CASE k # Depth + 1
      <4>1. k \in 2..Depth /\ stack'[k] = stack[k] /\ stack[k] \notin quited
        BY <1>1, <1>2, <1>8, <2>2, <3>2
      <4>2. stack[k] \in Dialogs /\ saved'[stack'[k]] = saved[stack[k]] /\ saved[stack[k]] \in Nat
        BY <1>1, <1>3, <1>8, <4>1 DEF StackShape, Wins, TypeOK
      <4>3. QuitBelow(k, saved[stack[k]])
        BY <2>2, <4>1 DEF QuitsAccounted
      <4> QED
        BY <1>1, <1>2, <1>8, <4>1, <4>2, <4>3 DEF QuitBelow
    <3> QED
      BY <3>1, <3>2
  <2> QED
    BY <1>3, <2>1, <2>2 DEF QuitsAccounted
<1>10. StackShape'
  BY <1>1, <1>2, <1>4, <1>8 DEF StackShape
<1>11. StackOrder'
  <2> SUFFICES ASSUME NEW j \in 2..Depth', NEW k \in 2..Depth', j < k
               PROVE  stack'[j] \in under'[stack'[k]]
    BY DEF StackOrder
  <2>1. j \in 2..Depth /\ stack'[j] = stack[j] /\ stack[j] \in Wins
    BY <1>1, <1>2 DEF StackShape
  <2>2. CASE k = Depth + 1
    BY <1>2, <1>3, <2>1, <2>2 DEF TypeOK
  <2>3. CASE k # Depth + 1
    <3>1. k \in 2..Depth /\ stack'[k] = stack[k] /\ stack[k] # d /\ stack[k] \in Dialogs
      BY <1>1, <1>2, <1>8, <2>3 DEF StackShape, Wins
    <3> QED
      BY <1>3, <2>1, <3>1 DEF TypeOK, StackOrder
  <2> QED
    BY <2>2, <2>3
<1>12. UnderOrder'
  <2>1. \A e \in Dialogs : d \notin under[e]
    BY <1>4 DEF UnderOrder
  <2> QED
    BY <1>3, <1>4, <2>1 DEF UnderOrder, TypeOK
<1>13. IdleOrder'
  BY <1>6, <1>7, SMTT(30) DEF IdleOrder, OpenIdle
<1>14. IdleStage'
  <2>1. ASSUME NEW p \in 1..Len(idles)
        PROVE  /\ idles'[p].do = "destroy" => stage'[idles'[p].win] = "CLOSED"
               /\ idles'[p].do # "destroy" => idles'[p].win \in Wins'
               /\ idles'[p].do # "open" => idles'[p].win \notin Running'
    <3>0. idles[p] \in Idle
      BY <1>6
    <3>1. idles'[p] = idles[p] /\ idles[p].win # d /\ idles[p].win \in Dialogs
      BY <1>6, <1>7, <3>0 DEF Idle
    <3>2. stage'[idles[p].win] = stage[idles[p].win]
      BY <1>3, <3>1 DEF TypeOK
    <3> QED
      BY <1>4, <1>5, <3>1, <3>2 DEF IdleStage
  <2>2. idles'[Len(idles) + 1].do = "open" /\ idles'[Len(idles) + 1].win \in Wins'
    BY <1>4, <1>6 DEF OpenIdle
  <2> QED
    BY <1>6, <2>1, <2>2 DEF IdleStage
<1>15. OpenInOrder'
  <2> SUFFICES ASSUME NEW j \in 2..Depth', NEW k \in 2..Depth', j < k, NEW p \in 1..Len(idles'),
                      idles'[p] = OpenIdle(stack'[j])
               PROVE  \E q \in 1..Len(idles') : p < q /\ idles'[q] = OpenIdle(stack'[k])
    BY DEF OpenInOrder, OpenIdle
  <2>1. j \in 2..Depth /\ stack'[j] = stack[j] /\ stack[j] # d
    BY <1>1, <1>2, <1>8
  <2>2. p \in 1..Len(idles) /\ idles[p] = OpenIdle(stack[j])
    BY <1>6, <2>1 DEF OpenIdle
  <2>3. CASE k = Depth + 1
    BY <1>2, <1>6, <2>2, <2>3
  <2>4. CASE k # Depth + 1
    <3>1. k \in 2..Depth /\ stack'[k] = stack[k]
      BY <1>1, <1>2, <2>4
    <3>2. PICK q \in 1..Len(idles) : p < q /\ idles[q] = OpenIdle(stack[k])
      BY <2>1, <2>2, <3>1 DEF OpenInOrder
    <3> QED
      BY <1>6, <3>1, <3>2
  <2> QED
    BY <2>3, <2>4
<1>16. HiddenBelow'
  <2> SUFFICES ASSUME NEW j \in 2..Depth', NEW k \in 2..Depth', j < k, stage'[stack'[j]] = "OPENED"
               PROVE  \/ stack'[k] \in quited'
                      \/ \E q \in 1..Len(idles') : idles'[q] = OpenIdle(stack'[k])
    BY DEF HiddenBelow, OpenIdle
  <2>1. j \in 2..Depth /\ stack'[j] = stack[j] /\ stack[j] # d /\ stack[j] \in Dialogs
    BY <1>1, <1>2, <1>8 DEF StackShape, Wins
  <2>2. stage[stack[j]] = "OPENED"
    BY <1>3, <2>1 DEF TypeOK
  <2>3. CASE k = Depth + 1
    BY <1>2, <1>6, <2>3
  <2>4. CASE k # Depth + 1
    <3>1. k \in 2..Depth /\ stack'[k] = stack[k]
      BY <1>1, <1>2, <2>4
    <3>2. stack[k] \in quited \/ \E q \in 1..Len(idles) : idles[q] = OpenIdle(stack[k])
      BY <2>1, <2>2, <3>1 DEF HiddenBelow
    <3> QED
      BY <1>6, <1>8, <3>1, <3>2
  <2> QED
    BY <2>3, <2>4
<1>17. ReturnedQuit'
  <2> SUFFICES ASSUME NEW e \in Wins, e \notin Running, e # d
               PROVE  /\ early = {} => e \in quited'
                      /\ \E p \in 1..Len(idles') : idles'[p] = CloseIdle(e)
    BY <1>3, <1>4, <1>5 DEF ReturnedQuit, CloseIdle
  <2>1. PICK p \in 1..Len(idles) : idles[p] = CloseIdle(e)
    BY DEF ReturnedQuit
  <2>2. p \in 1..Len(idles') /\ idles'[p] = CloseIdle(e)
    BY <1>6, <2>1
  <2>3. early = {} => e \in quited'
    BY <1>3 DEF ReturnedQuit
  <2> QED
    BY <2>2, <2>3
<1> QED
  BY <1>9, <1>10, <1>11, <1>12, <1>13, <1>14, <1>15, <1>16, <1>17

\* What the idle list is after its first idle function has been taken out.
LEMMA Dispatched ==
  ASSUME TypeOK, idles # <<>>
  PROVE  /\ Len(idles) \in Nat \ {0}
         /\ Len(Tail(idles)) = Len(idles) - 1
         /\ \A p \in 1..Len(idles) - 1 : Tail(idles)[p] = idles[p + 1]
         /\ Head(idles) = idles[1]
         /\ \A p \in 1..Len(idles) : idles[p] \in Idle
BY DEF TypeOK

\* Opening hides the dialogs below, and those above still wait.
LEMMA OpenStep ==
  ASSUME IInv, TypeOK', NEW d \in Dialogs, Open(d)
  PROVE  IInv'
<1> USE DEF IInv
<1>1. UNCHANGED <<stack, quit_num, saved, quited, under, early>> /\ UNCHANGED <<Depth, Running>>
  BY DEF Open, Depth, Running
<1>2. idles # <<>> /\ Head(idles) = OpenIdle(d) /\ idles' = Tail(idles)
  BY DEF Open, Dispatch, OpenIdle
<1>3. /\ Len(idles) \in Nat \ {0} /\ Len(idles') = Len(idles) - 1
      /\ \A p \in 1..Len(idles') : p + 1 \in 1..Len(idles) /\ idles'[p] = idles[p + 1]
      /\ idles[1] = OpenIdle(d)
      /\ \A p \in 1..Len(idles) : idles[p] \in Idle
  BY <1>2, Dispatched
<1>4. \A e \in Dialogs : stage'[e] =
        IF e = d THEN "OPENED" ELSE IF e \in Hidden(d) THEN "SUSPEND" ELSE stage[e]
  BY DEF Open
<1>5. d \in Wins
  BY <1>3 DEF IdleStage, OpenIdle
<1>6. UNCHANGED Wins
  BY <1>4, <1>5 DEF Wins, Hidden, TypeOK
<1>7. (StackShape /\ StackOrder /\ UnderOrder)'
  BY <1>1, <1>6 DEF StackShape, StackOrder, UnderOrder
<1>8. QuitsAccounted'
  BY <1>1 DEF QuitsAccounted, QuitBelow
<1>9. IdleOrder'
  <2> SUFFICES ASSUME NEW p \in 1..Len(idles'), NEW q \in 1..Len(idles'), p < q, idles'[p].win = idles'[q].win
               PROVE  idles'[p].do = "open" /\ idles'[q].do = "close"
    BY DEF IdleOrder
  <2>1. p + 1 \in 1..Len(idles) /\ q + 1 \in 1..Len(idles) /\ p + 1 < q + 1
        /\ idles'[p] = idles[p + 1] /\ idles'[q] = idles[q + 1]
    BY <1>3
  <2> QED
    BY <2>1 DEF IdleOrder
<1>10. IdleStage'
  <2> SUFFICES ASSUME NEW p \in 1..Len(idles')
               PROVE  /\ idles'[p].do = "destroy" => stage'[idles'[p].win] = "CLOSED"
                      /\ idles'[p].do # "destroy" => idles'[p].win \in Wins'
                      /\ idles'[p].do # "open" => idles'[p].win \notin Running'
    BY DEF IdleStage
  <2>1. p + 1 \in 1..Len(idles) /\ 1 < p + 1 /\ idles'[p] = idles[p + 1] /\ idles[p + 1] \in Idle
    BY <1>3
  <2>2. /\ idles[p + 1].do = "destroy" => stage[idles[p + 1].win] = "CLOSED"
        /\ idles[p + 1].do # "destroy" => idles[p + 1].win \in Wins
        /\ idles[p + 1].do # "open" => idles[p + 1].win \notin Running
    BY <2>1 DEF IdleStage
  <2>3. ASSUME stage[idles[p + 1].win] = "CLOSED" PROVE stage'[idles[p + 1].win] = "CLOSED"
    <3>1. idles[p + 1].win \in Dialogs /\ idles[p + 1].win # d
      BY <1>5, <2>1, <2>3 DEF Idle, Wins
    <3> QED
      BY <1>4, <2>3, <3>1 DEF Hidden
  <2> QED
    BY <1>1, <1>6, <2>1, <2>2, <2>3
<1>11. OpenInOrder'
  <2> SUFFICES ASSUME NEW j \in 2..Depth', NEW k \in 2..Depth', j < k, NEW p \in 1..Len(idles'),
                      idles'[p] = OpenIdle(stack'[j])
               PROVE  \E q \in 1..Len(idles') : p < q /\ idles'[q] = OpenIdle(stack'[k])
    BY DEF OpenInOrder, OpenIdle
  <2>1. /\ stack' = stack /\ j \in 2..Depth /\ k \in 2..Depth
        /\ p + 1 \in 1..Len(idles) /\ idles'[p] = idles[p + 1]
    BY <1>1, <1>3
  <2>2. PICK q \in 1..Len(idles) : p + 1 < q /\ idles[q] = OpenIdle(stack[k])
    BY <2>1 DEF OpenInOrder
  <2>3. q - 1 \in 1..Len(idles') /\ p < q - 1 /\ idles'[q - 1] = idles[q]
    BY <1>3, <2>2
  <2> QED
    BY <2>1, <2>2, <2>3
<1>12. HiddenBelow'
  <2> SUFFICES ASSUME NEW j \in 2..Depth, NEW k \in 2..Depth, j < k, stage'[stack[j]] = "OPENED"
               PROVE  \/ stack[k] \in quited
                      \/ \E q \in 1..Len(idles') : idles'[q] = OpenIdle(stack[k])
    BY <1>1 DEF HiddenBelow, OpenIdle
  <2>1. stack[j] \in Wins /\ stack[j] \in Dialogs /\ stack[j] \in under[stack[k]]
    BY DEF StackShape, StackOrder, Wins
  <2>2. ASSUME NEW q \in 1..Len(idles), 1 < q, idles[q] = OpenIdle(stack[k])
        PROVE  \E r \in 1..Len(idles') : idles'[r] = OpenIdle(stack[k])
    <3>1. q - 1 \in 1..Len(idles') /\ idles'[q - 1] = idles[q]
      BY <1>3, <2>2
    <3> QED
      BY <2>2, <3>1
  <2>3. CASE stack[j] = d
    <3>1. PICK q \in 1..Len(idles) : 1 < q /\ idles[q] = OpenIdle(stack[k])
      BY <1>3, <2>3 DEF OpenInOrder
    <3> QED
      BY <2>2, <3>1
  <2>4. CASE stack[j] # d
    <3>1. stage[stack[j]] = "OPENED" /\ stack[j] \notin Hidden(d)
      BY <1>4, <2>1, <2>4
    <3>2. stack[k] # d
      BY <2>1, <3>1 DEF Hidden
    <3>3. stack[k] \in quited \/ \E q \in 1..Len(idles) : idles[q] = OpenIdle(stack[k])
      BY <3>1 DEF HiddenBelow
    <3>4. ASSUME NEW q \in 1..Len(idles), idles[q] = OpenIdle(stack[k]) PROVE 1 < q
      BY <1>3, <3>2, <3>4 DEF OpenIdle
    <3> QED
      BY <2>2, <3>3, <3>4
  <2> QED
    BY <2>3, <2>4
<1>13. ReturnedQuit'
  <2> SUFFICES ASSUME NEW e \in Wins, e \notin Running
               PROVE  /\ early = {} => e \in quited'
                      /\ \E p \in 1..Len(idles') : idles'[p] = CloseIdle(e)
    BY <1>1, <1>6 DEF ReturnedQuit, CloseIdle
  <2>1. PICK p \in 1..Len(idles) : idles[p] = CloseIdle(e)
    BY DEF ReturnedQuit
  <2>2. 1 < p
    BY <1>3, <2>1 DEF OpenIdle, CloseIdle
  <2>3. p - 1 \in 1..Len(idles') /\ idles'[p - 1] = CloseIdle(e)
    BY <1>3, <2>1, <2>2
  <2> QED
    BY <1>1, <2>3 DEF ReturnedQuit
<1> QED
  BY <1>7, <1>8, <1>9, <1>10, <1>11, <1>12, <1>13

\* Closing shows the top window; nothing of the dialog is left but the idle
\* function that destroys it.
LEMMA CloseStep ==
  ASSUME IInv, TypeOK', NEW d \in Dialogs, Close(d)
  PROVE  IInv'
<1> USE DEF IInv
<1> DEFINE n == Len(idles)
<1>1. UNCHANGED <<stack, quit_num, saved, quited, early>> /\ UNCHANGED <<Depth, Running>>
  BY DEF Close, Depth, Running
<1>2. idles # <<>> /\ Head(idles) = [do |-> "close", win |-> d]
      /\ idles' = Append(Tail(idles), [do |-> "destroy", win |-> d])
  BY DEF Close, Dispatch
<1>3. /\ n \in Nat \ {0} /\ Len(Tail(idles)) = n - 1
      /\ \A p \in 1..n - 1 : p + 1 \in 1..n /\ Tail(idles)[p] = idles[p + 1]
      /\ idles[1] = [do |-> "close", win |-> d]
      /\ \A p \in 1..n : idles[p] \in Idle
  BY <1>2, Dispatched
<1>4. Tail(idles) \in Seq(Idle)
  BY <1>2 DEF TypeOK
<1>5. /\ Len(idles') = n
      /\ \A p \in 1..n - 1 : p + 1 \in 1..n /\ idles'[p] = idles[p + 1]
      /\ idles'[n] = [do |-> "destroy", win |-> d]
  BY <1>2, <1>3, <1>4
<1>6. d \in Wins /\ d \notin Running
  BY <1>3 DEF IdleStage
<1>7. \A p \in 1..n : 1 < p => idles[p].win # d
  BY <1>3 DEF IdleOrder
<1>8. /\ \A e \in Dialogs : stage'[e] =
           IF e = d THEN "CLOSED" ELSE IF e \in Shown(d) THEN "OPENED" ELSE stage[e]
      /\ \A e \in Dialogs : under'[e] = IF e = d THEN {} ELSE under[e] \ {d}
  BY DEF Close
<1>9. Wins' = Wins \ {d}
  BY <1>6, <1>8 DEF Wins, Shown
<1>10. \A k \in 2..Depth : stack[k] # d /\ stack[k] \in Dialogs /\ stack[k] \in Wins
  BY <1>6 DEF StackShape, Running, Wins
<1>11. StackShape'
  BY <1>1, <1>9, <1>10 DEF StackShape
<1>12. StackOrder' /\ UnderOrder'
  <2>1. StackOrder'
    BY <1>1, <1>8, <1>10, ZenonT(60) DEF StackOrder
  <2>2. UnderOrder'
    <3> SUFFICES ASSUME NEW e \in Dialogs
                 PROVE  under'[e] \subseteq Wins' /\ \A f \in under'[e] : e \notin under'[f]
      BY DEF UnderOrder
    <3>1. under[e] \subseteq Wins /\ \A f \in under[e] : e \notin under[f]
      BY DEF UnderOrder
    <3>2. under'[e] \subseteq under[e] \ {d} /\ \A f \in Dialogs : under'[f] \subseteq under[f]
      BY <1>8
    <3>3. Wins \subseteq Dialogs
      BY DEF Wins
    <3> QED
      BY <1>9, <3>1, <3>2, <3>3
  <2> QED
    BY <2>1, <2>2
<1>13. QuitsAccounted'
  BY <1>1 DEF QuitsAccounted, QuitBelow
<1>14. IdleOrder'
  <2> SUFFICES ASSUME NEW p \in 1..n, NEW q \in 1..n, p < q, idles'[p].win = idles'[q].win
               PROVE  idles'[p].do = "open" /\ idles'[q].do = "close"
    BY <1>5 DEF IdleOrder
  <2>1. p \in 1..n - 1 /\ idles'[p] = idles[p + 1] /\ p + 1 \in 1..n /\ 1 < p + 1
    BY <1>3, <1>5
  <2>2. q # n
    BY <1>5, <1>7, <2>1
  <2>3. q \in 1..n - 1 /\ p + 1 < q + 1
    <3>1. n \in Nat
      BY <1>3
    <3> HIDE DEF n
    <3> QED
      BY <2>2, <3>1
  <2>4. idles'[q] = idles[q + 1] /\ q + 1 \in 1..n
    BY <1>5, <2>3
  <2> QED
    BY <2>1, <2>3, <2>4 DEF IdleOrder
<1>15. IdleStage'
  <2> SUFFICES ASSUME NEW p \in 1..n
               PROVE  /\ idles'[p].do = "destroy" => stage'[idles'[p].win] = "CLOSED"
                      /\ idles'[p].do # "destroy" => idles'[p].win \in Wins'
                      /\ idles'[p].do # "open" => idles'[p].win \notin Running'
    BY <1>5 DEF IdleStage
  <2>1. CASE p = n
    BY <1>1, <1>5, <1>6, <1>8, <2>1
  <2>2. CASE p # n
    <3>0. p \in 1..n - 1
      <4>1. n \in Nat
        BY <1>3
      <4> HIDE DEF n
      <4> QED
        BY <2>2, <4>1
    <3>1. p + 1 \in 1..n /\ 1 < p + 1 /\ idles'[p] = idles[p + 1] /\ idles[p + 1] \in Idle
      BY <1>3, <1>5, <3>0
    <3>2. idles[p + 1].win # d /\ idles[p + 1].win \in Dialogs
      BY <1>7, <3>1 DEF Idle
    <3>3. /\ idles[p + 1].do = "destroy" => stage[idles[p + 1].win] = "CLOSED"
          /\ idles[p + 1].do # "destroy" => idles[p + 1].win \in Wins
          /\ idles[p + 1].do # "open" => idles[p + 1].win \notin Running
      BY <3>1 DEF IdleStage
    <3>4. ASSUME stage[idles[p + 1].win] = "CLOSED" PROVE stage'[idles[p + 1].win] = "CLOSED"
      BY <1>8, <3>2, <3>4 DEF Shown, Wins
    <3> QED
      BY <1>1, <1>9, <3>1, <3>2, <3>3, <3>4
  <2> QED
    BY <2>1, <2>2
<1>16. ASSUME NEW k \in 2..Depth, NEW q \in 1..n, idles[q] = OpenIdle(stack[k])
       PROVE  q - 1 \in 1..n - 1 /\ idles'[q - 1] = OpenIdle(stack[k])
  <2>1. 1 < q
    BY <1>3, <1>16 DEF OpenIdle
  <2> QED
    BY <1>3, <1>5, <1>16, <2>1
<1>17. OpenInOrder'
  <2> SUFFICES ASSUME NEW j \in 2..Depth, NEW k \in 2..Depth, j < k, NEW p \in 1..n,
                      idles'[p] = OpenIdle(stack[j])
               PROVE  \E q \in 1..n : p < q /\ idles'[q] = OpenIdle(stack[k])
    <3>1. Len(idles') = n
      BY <1>5
    <3>2. SUFFICES ASSUME NEW j \in 2..Depth', NEW k \in 2..Depth', j < k,
                          NEW p \in 1..Len(idles'), idles'[p] = OpenIdle(stack'[j])
                   PROVE  \E q \in 1..Len(idles') : p < q /\ idles'[q] = OpenIdle(stack'[k])
      BY DEF OpenInOrder, OpenIdle
    <3>3. j \in 2..Depth /\ k \in 2..Depth /\ stack'[j] = stack[j] /\ stack'[k] = stack[k]
      BY <1>1
    <3> QED
      BY <3>1, <3>2, <3>3 DEF OpenIdle
  <2>1. p \in 1..n - 1
    BY <1>3, <1>5 DEF OpenIdle
  <2>2. PICK q \in 1..n : p + 1 < q /\ idles[q] = OpenIdle(stack[k])
    BY <1>5, <2>1 DEF OpenInOrder
  <2>3. q - 1 \in 1..n /\ p < q - 1 /\ idles'[q - 1] = OpenIdle(stack[k])
    BY <1>3, <1>16, <2>1, <2>2
  <2> QED
    BY <2>3
<1>18. HiddenBelow'
  <2> SUFFICES ASSUME NEW j \in 2..Depth, NEW k \in 2..Depth, j < k, stage'[stack[j]] = "OPENED"
               PROVE  \/ stack[k] \in quited
                      \/ \E q \in 1..n : idles'[q] = OpenIdle(stack[k])
    BY <1>1, <1>5 DEF HiddenBelow, OpenIdle
  <2>1. stack[j] \in under[stack[k]] /\ stack[j] # stack[k]
    BY DEF StackOrder, StackShape
  <2>2. stack[j] \notin Shown(d)
    BY <1>10, <2>1 DEF Shown, UnderOrder
  <2>3. stage[stack[j]] = "OPENED"
    BY <1>8, <1>10, <2>2
  <2>4. stack[k] \in quited \/ \E q \in 1..n : idles[q] = OpenIdle(stack[k])
    BY <2>3 DEF HiddenBelow
  <2>5. \A q \in 1..n - 1 : q \in 1..n
    BY <1>3
  <2> QED
    BY <1>16, <2>4, <2>5
<1>19. ReturnedQuit'
  <2> SUFFICES ASSUME NEW e \in Wins, e \notin Running, e # d
               PROVE  /\ early = {} => e \in quited'
                      /\ \E p \in 1..Len(idles') : idles'[p] = CloseIdle(e)
    BY <1>1, <1>9 DEF ReturnedQuit, CloseIdle
  <2>1. PICK p \in 1..Len(idles) : idles[p] = CloseIdle(e)
    BY DEF ReturnedQuit
  <2>2. 1 < p
    BY <1>3, <2>1 DEF CloseIdle
  <2>3. p - 1 \in 1..n - 1 /\ p - 1 \in 1..n
    BY <1>3, <2>1, <2>2
  <2>4. p - 1 \in 1..Len(idles') /\ idles'[p - 1] = CloseIdle(e)
    BY <1>3, <1>5, <2>1, <2>3
  <2> QED
    BY <1>1, <2>4 DEF ReturnedQuit
<1> QED
  BY <1>19, <1>11, <1>12, <1>13, <1>14, <1>15, <1>17, <1>18

\* Destroying touches no dialog that has a loop.
LEMMA DestroyStep ==
  ASSUME IInv, TypeOK', NEW d \in Dialogs, Destroy(d)
  PROVE  IInv'
<1> USE DEF IInv
<1> DEFINE n == Len(idles)
<1>1. UNCHANGED <<stack, quit_num, under, early>> /\ UNCHANGED <<Depth, Running>>
  BY DEF Destroy, Depth, Running
<1>2. idles # <<>> /\ Head(idles) = [do |-> "destroy", win |-> d] /\ idles' = Tail(idles)
  BY DEF Destroy, Dispatch
<1>3. /\ n \in Nat \ {0} /\ Len(idles') = n - 1
      /\ \A p \in 1..n - 1 : p + 1 \in 1..n /\ idles'[p] = idles[p + 1]
      /\ idles[1] = [do |-> "destroy", win |-> d]
      /\ \A p \in 1..n : idles[p] \in Idle
  BY <1>2, Dispatched
<1>4. d \notin Running /\ stage[d] = "CLOSED" /\ d \notin Wins
  BY <1>3 DEF IdleStage, Wins
<1>5. \A p \in 1..n : 1 < p => idles[p].win # d
  BY <1>3 DEF IdleOrder
<1>6. /\ stage' = [stage EXCEPT ![d] = "NONE"]
      /\ quited' = quited \ {d}
      /\ saved' = [saved EXCEPT ![d] = 0]
  BY DEF Destroy
<1>7. \A e \in Dialogs : e # d => stage'[e] = stage[e] /\ saved'[e] = saved[e]
  BY <1>6 DEF TypeOK
<1>8. UNCHANGED Wins
  BY <1>4, <1>6 DEF Wins, TypeOK
<1>9. \A k \in 1..Depth : stack[k] # d /\ (stack[k] \in quited <=> stack[k] \in quited')
  BY <1>4, <1>6 DEF Running
<1>10. (StackShape /\ StackOrder /\ UnderOrder)'
  BY <1>1, <1>4, <1>6, <1>8 DEF StackShape, StackOrder, UnderOrder
<1>11. QuitsAccounted'
  <2>1. early = {} => QuitBelow(Depth + 1, quit_num)'
    <3>1. Depth \in Nat /\ quit_num \in Nat
      BY DEF TypeOK, Depth
    <3> QED
      BY <1>1, <1>9, <3>1 DEF QuitsAccounted, QuitBelow
  <2>2. ASSUME early = {}, NEW k \in 2..Depth, stack[k] \notin quited' PROVE QuitBelow(k, saved[stack[k]])'
    <3>1. stack[k] \in Dialogs /\ saved'[stack[k]] = saved[stack[k]] /\ saved[stack[k]] \in Nat
      BY <1>7, <1>9 DEF StackShape, Wins, TypeOK
    <3>2. QuitBelow(k, saved[stack[k]])
      BY <1>9, <2>2 DEF QuitsAccounted
    <3>3. Depth \in Nat
      BY DEF TypeOK, Depth
    <3> QED
      BY <1>1, <1>9, <3>1, <3>2, <3>3 DEF QuitBelow
  <2> QED
    BY <1>1, <2>1, <2>2 DEF QuitsAccounted
<1>12. IdleOrder'
  <2> SUFFICES ASSUME NEW p \in 1..n - 1, NEW q \in 1..n - 1, p < q, idles'[p].win = idles'[q].win
               PROVE  idles'[p].do = "open" /\ idles'[q].do = "close"
    BY <1>3 DEF IdleOrder
  <2>1. p + 1 \in 1..n /\ q + 1 \in 1..n /\ p + 1 < q + 1
        /\ idles'[p] = idles[p + 1] /\ idles'[q] = idles[q + 1]
    BY <1>3
  <2> QED
    BY <2>1 DEF IdleOrder
<1>13. IdleStage'
  <2> SUFFICES ASSUME NEW p \in 1..n - 1
               PROVE  /\ idles'[p].do = "destroy" => stage'[idles'[p].win] = "CLOSED"
                      /\ idles'[p].do # "destroy" => idles'[p].win \in Wins'
                      /\ idles'[p].do # "open" => idles'[p].win \notin Running'
    BY <1>3 DEF IdleStage
  <2>1. p + 1 \in 1..n /\ 1 < p + 1 /\ idles'[p] = idles[p + 1] /\ idles[p + 1] \in Idle
    BY <1>3
  <2>2. idles[p + 1].win # d /\ idles[p + 1].win \in Dialogs
    BY <1>5, <2>1 DEF Idle
  <2> QED
    BY <1>1, <1>7, <1>8, <2>1, <2>2 DEF IdleStage
<1>14. ASSUME NEW k \in 2..Depth, NEW q \in 1..n, idles[q] = OpenIdle(stack[k])
       PROVE  q - 1 \in 1..n - 1 /\ idles'[q - 1] = OpenIdle(stack[k])
  <2>1. 1 < q
    BY <1>3, <1>14 DEF OpenIdle
  <2> QED
    BY <1>3, <1>14, <2>1
<1>15. OpenInOrder'
  <2> SUFFICES ASSUME NEW j \in 2..Depth, NEW k \in 2..Depth, j < k, NEW p \in 1..n - 1,
                      idles'[p] = OpenIdle(stack[j])
               PROVE  \E q \in 1..n - 1 : p < q /\ idles'[q] = OpenIdle(stack[k])
    BY <1>1, <1>3 DEF OpenInOrder, OpenIdle
  <2>1. PICK q \in 1..n : p + 1 < q /\ idles[q] = OpenIdle(stack[k])
    BY <1>3 DEF OpenInOrder
  <2>2. q - 1 \in 1..n - 1 /\ p < q - 1 /\ idles'[q - 1] = OpenIdle(stack[k])
    BY <1>3, <1>14, <2>1
  <2> QED
    BY <2>2
<1>16. HiddenBelow'
  <2> SUFFICES ASSUME NEW j \in 2..Depth, NEW k \in 2..Depth, j < k, stage'[stack[j]] = "OPENED"
               PROVE  \/ stack[k] \in quited'
                      \/ \E q \in 1..n - 1 : idles'[q] = OpenIdle(stack[k])
    BY <1>1, <1>3 DEF HiddenBelow, OpenIdle
  <2>1. stage[stack[j]] = "OPENED"
    BY <1>7, <1>9 DEF StackShape, Wins
  <2>2. stack[k] \in quited \/ \E q \in 1..n : idles[q] = OpenIdle(stack[k])
    BY <2>1 DEF HiddenBelow
  <2> QED
    BY <1>9, <1>14, <2>2
<1>17. ReturnedQuit'
  <2> SUFFICES ASSUME NEW e \in Wins, e \notin Running
               PROVE  /\ early = {} => e \in quited'
                      /\ \E p \in 1..n - 1 : idles'[p] = CloseIdle(e)
    BY <1>1, <1>3, <1>8 DEF ReturnedQuit, CloseIdle
  <2>1. PICK p \in 1..n : idles[p] = CloseIdle(e)
    BY DEF ReturnedQuit
  <2>2. 1 < p
    BY <1>3, <2>1 DEF CloseIdle
  <2>3. p - 1 \in 1..n - 1 /\ idles'[p - 1] = CloseIdle(e)
    BY <1>3, <2>1, <2>2
  <2>4. e # d
    BY <1>4
  <2> QED
    BY <1>6, <2>3, <2>4 DEF ReturnedQuit
<1> QED
  BY <1>10, <1>11, <1>12, <1>13, <1>15, <1>16, <1>17

-----------------------------------------------------------------------------
(* The theorems. *)

\* In the initial state there are no dialogs.
LEMMA InitIInv == Init => IInv
<1> SUFFICES ASSUME Init PROVE IInv
  OBVIOUS
<1> USE DEF Init
<1>1. TypeOK
  BY DEF TypeOK, Loops, Depth, Idle
<1>2. Depth = 1 /\ Len(idles) = 0 /\ Wins = {}
  BY DEF Depth, Wins
<1>3. QuitsAccounted
  BY <1>2, ModalAssumption DEF QuitsAccounted, QuitBelow
<1> QED
  BY <1>1, <1>2, <1>3 DEF IInv, StackShape, StackOrder, UnderOrder, IdleOrder, IdleStage, OpenInOrder,
     HiddenBelow, ReturnedQuit

\* Every step keeps the invariant.
LEMMA NextIInv == IInv /\ [Next]_vars => IInv'
<1> SUFFICES ASSUME IInv, [Next]_vars PROVE IInv'
  OBVIOUS
<1>1. TypeOK'
  BY TypeInductive DEF IInv
<1>2. CASE StepBegin \/ IdlesEnd \/ StepEnd
  <2>1. UNCHANGED <<stack, quit_num, saved, quited, stage, under, idles, early>>
    BY <1>2 DEF StepBegin, IdlesEnd, StepEnd
  <2> QED
    BY <1>1, <2>1, PhaseStep
<1>3. CASE LoopEnd
  BY <1>1, <1>3, LoopEndStep
<1>4. ASSUME NEW d \in Dialogs, Modal(d) PROVE IInv'
  BY <1>1, <1>4, ModalStep
<1>5. ASSUME NEW d \in Dialogs, Quit(d) PROVE IInv'
  BY <1>1, <1>5, QuitStep
<1>6. CASE TkQuit
  BY <1>1, <1>6, TkQuitStep
<1>7. ASSUME NEW d \in Dialogs, Open(d) PROVE IInv'
  BY <1>1, <1>7, OpenStep
<1>8. ASSUME NEW d \in Dialogs, Close(d) PROVE IInv'
  BY <1>1, <1>8, CloseStep
<1>9. ASSUME NEW d \in Dialogs, Destroy(d) PROVE IInv'
  BY <1>1, <1>9, DestroyStep
<1>10. CASE UNCHANGED vars
  <2>1. UNCHANGED <<stack, quit_num, saved, quited, stage, under, idles, early>>
    BY <1>10 DEF vars
  <2> QED
    BY <1>1, <2>1, PhaseStep
<1> QED
  BY <1>2, <1>3, <1>4, <1>5, <1>6, <1>7, <1>8, <1>9, <1>10 DEF Next, LoopStep

\* A dialog that has not been opened waits to be.
CreatedWaits == \A d \in Dialogs : stage[d] = "CREATED" => OpenIdle(d) \in Waiting

\* Every step keeps it, together with the invariant.
LEMMA NextCreatedWaits == IInv /\ CreatedWaits /\ [Next]_vars => CreatedWaits'
<1> SUFFICES ASSUME IInv, CreatedWaits, [Next]_vars PROVE CreatedWaits'
  OBVIOUS
<1>0. TypeOK
  BY DEF IInv
<1>1. ASSUME NEW x, idles' = Append(idles, x) PROVE Waiting \subseteq Waiting'
  <2>1. Len(idles) \in Nat /\ Len(idles') = Len(idles) + 1 /\ \A p \in 1..Len(idles) : idles'[p] = idles[p]
    BY <1>0, <1>1 DEF TypeOK
  <2> QED
    BY <2>1 DEF Waiting
<1>2. ASSUME idles # <<>>, idles' = Tail(idles) PROVE Waiting \ {Head(idles)} \subseteq Waiting'
  <2> SUFFICES ASSUME NEW p \in 1..Len(idles), idles[p] # Head(idles)
               PROVE  \E q \in 1..Len(idles') : idles'[q] = idles[p]
    BY DEF Waiting
  <2>1. p - 1 \in 1..Len(idles) - 1
    BY <1>0, <1>2, Dispatched
  <2>2. p - 1 \in 1..Len(idles') /\ idles'[p - 1] = idles[p]
    BY <1>0, <1>2, <2>1, Dispatched
  <2> QED
    BY <2>2
<1>3. ASSUME NEW d \in Dialogs, Modal(d) PROVE CreatedWaits'
  <2>1. Waiting \subseteq Waiting' /\ OpenIdle(d) \in Waiting'
    <3>1. idles' = Append(idles, OpenIdle(d))
      BY <1>3 DEF Modal, OpenIdle
    <3>2. Len(idles) + 1 \in 1..Len(idles') /\ idles'[Len(idles) + 1] = OpenIdle(d)
      BY <1>0, <3>1 DEF TypeOK
    <3> QED
      BY <1>1, <3>1, <3>2 DEF Waiting
  <2> QED
    BY <1>0, <1>3, <2>1 DEF CreatedWaits, Modal, TypeOK, OpenIdle
<1>4. ASSUME NEW d \in Dialogs, Open(d) PROVE CreatedWaits'
  <2>1. Waiting \ {OpenIdle(d)} \subseteq Waiting'
    BY <1>2, <1>4 DEF Open, Dispatch, OpenIdle
  <2> QED
    BY <1>4, <2>1 DEF CreatedWaits, Open, OpenIdle
<1>5. ASSUME NEW d \in Dialogs, Close(d) PROVE CreatedWaits'
  <2>1. Tail(idles) \in Seq(Idle) /\ idles # <<>> /\ Head(idles).do = "close"
    BY <1>0, <1>5 DEF Close, Dispatch, TypeOK
  <2>2. ASSUME NEW e, OpenIdle(e) \in Waiting PROVE OpenIdle(e) \in Waiting'
    <3>1. PICK p \in 1..Len(idles) : idles[p] = OpenIdle(e)
      BY <2>2 DEF Waiting
    <3>2. Len(idles) \in Nat /\ Head(idles) = idles[1] /\ Len(Tail(idles)) = Len(idles) - 1
      BY <1>0, <2>1, Dispatched
    <3>3. p - 1 \in 1..Len(Tail(idles)) /\ Tail(idles)[p - 1] = idles[p]
      BY <1>0, <2>1, <3>1, <3>2, Dispatched DEF OpenIdle
    <3>4. p - 1 \in 1..Len(idles') /\ idles'[p - 1] = Tail(idles)[p - 1]
      BY <1>5, <2>1, <3>3 DEF Close
    <3> QED
      BY <3>1, <3>3, <3>4 DEF Waiting, OpenIdle
  <2> QED
    BY <1>5, <2>2 DEF CreatedWaits, Close, OpenIdle
<1>6. ASSUME NEW d \in Dialogs, Destroy(d) PROVE CreatedWaits'
  <2>1. Waiting \ {[do |-> "destroy", win |-> d]} \subseteq Waiting'
    BY <1>2, <1>6 DEF Destroy, Dispatch
  <2> QED
    BY <1>0, <1>6, <2>1 DEF CreatedWaits, Destroy, OpenIdle, TypeOK
<1>7. CASE LoopEnd
  <2>1. Waiting \subseteq Waiting'
    <3>1. CASE Top = MAIN
      BY <1>7, <3>1 DEF LoopEnd, Waiting
    <3>2. CASE Top # MAIN
      BY <1>1, <1>7, <3>2 DEF LoopEnd
    <3> QED
      BY <3>1, <3>2
  <2> QED
    BY <1>7, <2>1 DEF CreatedWaits, LoopEnd, OpenIdle
<1>8. CASE UNCHANGED <<stage, idles>>
  BY <1>8 DEF CreatedWaits, Waiting, OpenIdle
<1> QED
  BY <1>3, <1>4, <1>5, <1>6, <1>7, <1>8 DEF Next, LoopStep, StepBegin, IdlesEnd, StepEnd, Quit, TkQuit, vars

\* The state keeps its types, whatever the application does.
THEOREM TypeCorrect == Spec => []TypeOK
<1>1. Init => TypeOK
  BY InitIInv DEF IInv
<1> QED
  BY <1>1, TypeInductive, PTL DEF Spec

\* The invariant holds in every reachable state.
LEMMA Invariance == Spec => []IInv
<1>1. IInv /\ [Next]_vars => IInv'
  BY NextIInv
<1> QED
  BY <1>1, InitIInv, PTL DEF Spec

\* Each quit is kept for the loop it is for, in quit_num or aside, until the
\* application quits a loop out of turn (main_loop_quit, dialog_modal,
\* dialog_quit).
THEOREM QuitsReachTheirLoop == Spec => []QuitsAccounted
<1>1. IInv => QuitsAccounted
  BY DEF IInv
<1> QED
  BY <1>1, Invariance, PTL

\* dialog_quit lets the first quit out of turn pass only while a dialog above
\* waits to be opened (is_dialog_opened).
THEOREM OutOfTurnIsRefused == Spec => RefusedOutOfTurn
<1> DEFINE Refused == \A d \in Dialogs : early = {} /\ d \in early' => ~AboveOpened(d)
<1>1. IInv /\ [Next]_vars => [Refused]_vars
  <2> SUFFICES ASSUME IInv, Next, NEW d \in Dialogs, early = {}, d \in early', AboveOpened(d)
               PROVE  FALSE
    OBVIOUS
  <2> USE DEF IInv
  <2>1. Quit(d) /\ ~InTurn(d)
    <3>1. CASE TkQuit
      BY <3>1, ModalAssumption DEF TkQuit, SetQuited
    <3>2. ASSUME NEW e \in Dialogs, Quit(e) PROVE Quit(d) /\ ~InTurn(d)
      BY <3>2 DEF Quit, SetQuited
    <3>3. CASE UNCHANGED early
      BY <3>3
    <3> QED
      BY <3>1, <3>2, <3>3
         DEF Next, LoopStep, StepBegin, IdlesEnd, StepEnd, LoopEnd, Modal, Open, Close, Destroy
  <2>2. d \in Wins /\ d \notin quited /\ Opened(d) /\ Depth \in Nat
    BY <2>1 DEF Quit, TypeOK, Depth
  <2>3. PICK j \in 1..Depth : stack[j] = d
    BY <2>2 DEF ReturnedQuit, Running
  <2>4. j \in 2..Depth
    BY <2>2, <2>3, ModalAssumption DEF StackShape
  <2>5. ASSUME NEW k \in j + 1..Depth PROVE stack[k] \in quited
    <3>1. k \in 2..Depth /\ j < k /\ stack[k] \in Wins
      BY <2>2, <2>4 DEF StackShape
    <3>2. stack[k] \in Above(d)
      BY <2>3, <2>4, <3>1 DEF StackOrder, Above
    <3>3. OpenIdle(stack[k]) \notin Waiting
      BY <3>2 DEF AboveOpened, OpenIdle
    <3>4. CASE stage[d] = "OPENED"
      BY <2>3, <2>4, <3>1, <3>3, <3>4 DEF HiddenBelow, Waiting
    <3>5. CASE Above(d) \subseteq quited
      BY <3>2, <3>5
    <3> QED
      BY <2>2, <3>4, <3>5 DEF Opened
  <2> QED
    BY <2>1, <2>3, <2>5 DEF InTurn
<1> QED
  BY <1>1, Invariance, PTL DEF Spec, RefusedOutOfTurn

-----------------------------------------------------------------------------
(* The program ends only when it has been quit. *)

\* own: the loops whose quits are in quit_num.  due[d]: the loops whose quits come
\* back when d is quit; if another loop's quit has ended that of d, that loop too,
\* which is now to end with the quit of d.
Owes(own, due) ==
  /\ own \subseteq quited \cap Running /\ IsFiniteSet(own)
  /\ quit_num <= Cardinality(own)
  /\ due \in [Dialogs -> SUBSET (quited \cap Running)]
  /\ \A d \in Dialogs : IsFiniteSet(due[d]) /\ due[d] \cap own = {}
  /\ \A d, e \in Dialogs : d # e => due[d] \cap due[e] = {}
  /\ \A d \in Wins \ quited : saved[d] + (IF d \in Running THEN 0 ELSE 1) <= Cardinality(due[d])

\* There is never a quit too many.
Owed == \E own, due : Owes(own, due)

\* dialog_modal puts the quits aside.
LEMMA ModalOwes ==
  ASSUME IInv, TypeOK', NEW own, NEW due, Owes(own, due), NEW d \in Dialogs, Modal(d)
  PROVE  Owed'
<1> USE DEF IInv
<1>1. Depth \in Nat \ {0} /\ quit_num \in Nat /\ quit_num' = 0
  BY DEF Modal, Saved, InStep, Ended, TypeOK, Depth
<1>2. /\ Depth' = Depth + 1
      /\ \A k \in 1..Depth : stack'[k] = stack[k]
      /\ stack'[Depth + 1] = d
  BY <1>1 DEF Modal, TypeOK, Depth
<1>3. d \notin Wins /\ d # MAIN /\ d \notin Running
  <2>1. d \notin Wins /\ d # MAIN
    BY ModalAssumption DEF Modal, Wins
  <2> QED
    BY <1>1, <2>1 DEF StackShape, Running
<1>4. Running' = Running \cup {d} /\ Wins' = Wins \cup {d}
  <2>1. Running' = Running \cup {d}
    BY <1>1, <1>2 DEF Running
  <2>2. Wins' = Wins \cup {d}
    BY DEF Modal, Wins, TypeOK
  <2> QED
    BY <2>1, <2>2
<1>5. quited' = quited \ {d} /\ saved' = [saved EXCEPT ![d] = quit_num]
  BY DEF Modal, Saved
<1>6. quited' \cap Running' = quited \cap Running
  BY <1>3, <1>4, <1>5
<1> DEFINE new == [due EXCEPT ![d] = own]
<1>7. \A e \in Dialogs : new[e] = IF e = d THEN own ELSE due[e]
  BY DEF Owes
<1>8. new \in [Dialogs -> SUBSET (quited \cap Running)]
  BY DEF Owes
<1>9. \A e \in Dialogs : IsFiniteSet(new[e])
  BY <1>7 DEF Owes
<1>10. \A e, f \in Dialogs : e # f => new[e] \cap new[f] = {}
  BY <1>7 DEF Owes
<1>11. ASSUME NEW e \in Wins' \ quited'
       PROVE  saved'[e] + (IF e \in Running' THEN 0 ELSE 1) <= Cardinality(new[e])
  <2>1. CASE e = d
    BY <1>1, <1>4, <1>5, <1>7, <2>1 DEF Owes, TypeOK
  <2>2. CASE e # d
    <3>1. e \in Wins \ quited /\ e \in Dialogs /\ (e \in Running' <=> e \in Running)
      BY <1>4, <1>5, <2>2 DEF Wins
    <3>2. saved'[e] = saved[e] /\ new[e] = due[e]
      BY <1>5, <1>7, <2>2, <3>1 DEF TypeOK
    <3> QED
      BY <3>1, <3>2 DEF Owes
  <2> QED
    BY <2>1, <2>2
<1> HIDE DEF new
<1>12. IsFiniteSet({}) /\ Cardinality({}) = 0
  BY FS_EmptySet
<1>13. PICK u : u = new
  OBVIOUS
<1>14. Owes({}, u)'
  BY <1>1, <1>6, <1>8, <1>9, <1>10, <1>11, <1>12, <1>13 DEF Owes
<1> QED
  BY <1>14 DEF Owed

\* dialog_quit brings them back, and adds one: for the loop of d, or, if that has
\* ended, for the loop that waits for the quit of d.
LEMMA QuitOwes ==
  ASSUME IInv, TypeOK', NEW own, NEW due, Owes(own, due), NEW d \in Dialogs, Quit(d)
  PROVE  Owed'
<1> USE DEF IInv
<1> DEFINE new == [due EXCEPT ![d] = {}]
           back == own \cup due[d]
           all == back \cup (Running \cap {d})
<1>1. UNCHANGED <<Running, Wins, saved>>
  BY DEF Quit, Running, Depth, Wins
<1>2. d \in Wins /\ d \notin quited /\ quited' = quited \cup {d} /\ quit_num' = quit_num + saved[d] + 1
  BY DEF Quit, SetQuited, GivenBack
<1>3. saved[d] \in Nat /\ quit_num \in Nat
  BY DEF TypeOK
<1>4. IsFiniteSet(own) /\ IsFiniteSet(due[d]) /\ own \cap due[d] = {}
  BY DEF Owes
<1>5. IsFiniteSet(back) /\ Cardinality(back) = Cardinality(own) + Cardinality(due[d])
  <2>1. Cardinality(own) \in Nat /\ Cardinality(due[d]) \in Nat
        /\ Cardinality(own \cap due[d]) = 0
    BY <1>4, FS_CardinalityType, FS_EmptySet
  <2>2. IsFiniteSet(own \cup due[d])
        /\ Cardinality(own \cup due[d]) = Cardinality(own) + Cardinality(due[d]) - Cardinality(own \cap due[d])
    BY <1>4, FS_Union
  <2> QED
    BY <1>4, <2>1, <2>2
<1>6. d \notin back
  BY <1>2 DEF Owes
<1>7. IsFiniteSet(all) /\ quit_num' <= Cardinality(all)
  <2>0. Cardinality(own) \in Nat /\ Cardinality(due[d]) \in Nat
        /\ quit_num <= Cardinality(own)
        /\ saved[d] + (IF d \in Running THEN 0 ELSE 1) <= Cardinality(due[d])
    BY <1>2, <1>4, FS_CardinalityType DEF Owes
  <2>1. CASE d \in Running
    <3>1. all = back \cup {d}
      BY <2>1
    <3>2. IsFiniteSet(all) /\ Cardinality(all) = Cardinality(back) + 1
      BY <1>5, <1>6, <3>1, FS_AddElement
    <3> HIDE DEF all, back
    <3> QED
      BY <1>2, <1>3, <1>5, <2>0, <2>1, <3>2
  <2>2. CASE d \notin Running
    <3>1. all = back
      BY <2>2
    <3> HIDE DEF all, back
    <3> QED
      BY <1>2, <1>3, <1>5, <2>0, <2>2, <3>1
  <2> QED
    BY <2>1, <2>2
<1>8. all \subseteq quited' \cap Running'
  BY <1>1, <1>2 DEF Owes
<1>9. \A e \in Dialogs : new[e] = IF e = d THEN {} ELSE due[e]
  BY DEF Owes
<1>10. new \in [Dialogs -> SUBSET (quited' \cap Running')]
  BY <1>1, <1>2 DEF Owes
<1>11. \A e \in Dialogs : IsFiniteSet(new[e]) /\ new[e] \cap all = {}
  <2> SUFFICES ASSUME NEW e \in Dialogs PROVE IsFiniteSet(new[e]) /\ new[e] \cap all = {}
    OBVIOUS
  <2>1. CASE e = d
    BY <1>9, <2>1, FS_EmptySet
  <2>2. CASE e # d
    <3>1. IsFiniteSet(due[e]) /\ due[e] \cap own = {} /\ due[e] \cap due[d] = {} /\ d \notin due[e]
      BY <1>2, <2>2 DEF Owes
    <3> QED
      BY <1>9, <2>2, <3>1
  <2> QED
    BY <2>1, <2>2
<1>12. \A e, f \in Dialogs : e # f => new[e] \cap new[f] = {}
  BY <1>9 DEF Owes
<1>13. ASSUME NEW e \in Wins' \ quited'
       PROVE  saved'[e] + (IF e \in Running' THEN 0 ELSE 1) <= Cardinality(new[e])
  <2>1. e \in Wins \ quited /\ e # d /\ e \in Dialogs
    BY <1>1, <1>2 DEF Wins
  <2> QED
    BY <1>1, <1>9, <2>1 DEF Owes
<1> HIDE DEF all, new
<1>14. PICK o, u : o = all /\ u = new
  OBVIOUS
<1>15. Owes(o, u)'
  BY <1>7, <1>8, <1>10, <1>11, <1>12, <1>13, <1>14 DEF Owes
<1> QED
  BY <1>15 DEF Owed

\* tk_quit adds one for the main loop.
LEMMA TkQuitOwes ==
  ASSUME IInv, NEW own, NEW due, Owes(own, due), TkQuit
  PROVE  Owed'
<1> USE DEF IInv
<1>1. UNCHANGED <<Running, Wins, saved>> /\ quited' = quited \cup {MAIN} /\ quit_num' = quit_num + 1
  BY DEF TkQuit, SetQuited, Running, Depth, Wins
<1>2. MAIN \in Running /\ MAIN \notin quited /\ quit_num \in Nat
  BY DEF TkQuit, InStep, Ended, StackShape, Running, Depth, TypeOK
<1>3. PICK o : o = own \cup {MAIN}
  OBVIOUS
<1>4. MAIN \notin own /\ IsFiniteSet(own) /\ Cardinality(own) \in Nat /\ quit_num <= Cardinality(own)
  BY <1>2, FS_CardinalityType DEF Owes
<1>5. IsFiniteSet(o) /\ Cardinality(o) = Cardinality(own) + 1
  BY <1>3, <1>4, FS_AddElement
<1>6. quit_num' <= Cardinality(o)
  BY <1>1, <1>2, <1>4, <1>5
<1>7. o \subseteq quited' \cap Running' /\ \A d \in Dialogs : due[d] \cap o = {}
  BY <1>1, <1>2, <1>3 DEF Owes
<1>8. Wins' \ quited' = Wins \ quited
  BY <1>1, ModalAssumption DEF Wins
<1>9. due \in [Dialogs -> SUBSET (quited' \cap Running')]
  BY <1>1 DEF Owes
<1>10. Owes(o, due)'
  BY <1>1, <1>5, <1>6, <1>7, <1>8, <1>9 DEF Owes
<1> QED
  BY <1>10 DEF Owed

\* The loop that ends takes its own quit, or that of another loop y, which from
\* then on waits for what the loop that ends would have waited for.
LEMMA LoopEndOwes ==
  ASSUME IInv, TypeOK', NEW own, NEW due, Owes(own, due), LoopEnd
  PROVE  Owed' /\ (Top = MAIN => MAIN \in quited)
<1> USE DEF IInv
<1>1. Depth \in Nat \ {0} /\ quit_num \in Nat \ {0} /\ quit_num' = quit_num - 1
  BY DEF LoopEnd, QuitsLeft, Ended, TypeOK, Depth
<1>2. Depth' = Depth - 1 /\ \A k \in 1..Depth' : k \in 1..Depth /\ stack'[k] = stack[k]
  BY <1>1 DEF LoopEnd, TypeOK, Depth
<1>3. UNCHANGED <<saved, quited, Wins>>
  BY DEF LoopEnd, Wins
<1>4. Running' = Running \ {Top} /\ Top \in Running
  BY <1>1, <1>2 DEF Running, Top, StackShape
<1>5. own # {} /\ IsFiniteSet(own) /\ Cardinality(own) \in Nat /\ quit_num <= Cardinality(own)
  BY <1>1, FS_CardinalityType, FS_EmptySet DEF Owes
<1>6. PICK y \in own : Top \in own => y = Top
  BY <1>5
<1>7. PICK o : o = own \ {y}
  OBVIOUS
<1>8. IsFiniteSet(o) /\ Cardinality(o) = Cardinality(own) - 1
  BY <1>5, <1>6, <1>7, FS_RemoveElement
<1>9. quit_num' <= Cardinality(o)
  BY <1>1, <1>5, <1>8
<1>10. y \in quited \cap Running /\ o \subseteq quited' \cap Running'
  BY <1>3, <1>4, <1>6, <1>7 DEF Owes
<1>11. PICK u : u = [d \in Dialogs |->
          IF Top \in due[d] \/ (d = Top /\ Top \notin quited) THEN (due[d] \ {Top}) \cup {y} ELSE due[d]]
  OBVIOUS
<1>12. \A d \in Dialogs : due[d] \subseteq quited \cap Running /\ IsFiniteSet(due[d]) /\ y \notin due[d]
  BY <1>6 DEF Owes
<1>13. ASSUME NEW d \in Dialogs, Top \in due[d] \/ (d = Top /\ Top \notin quited) PROVE y # Top
  BY <1>10, <1>12, <1>13
<1>14. ASSUME NEW d \in Dialogs
       PROVE  /\ u[d] \subseteq quited' \cap Running'
              /\ u[d] \cap o = {}
              /\ IsFiniteSet(u[d])
  <2>1. due[d] \cap own = {}
    BY DEF Owes
  <2>2. CASE Top \in due[d] \/ (d = Top /\ Top \notin quited)
    <3>1. u[d] = (due[d] \ {Top}) \cup {y}
      BY <1>11, <2>2
    <3>2. IsFiniteSet(due[d] \ {Top})
      BY <1>12, FS_RemoveElement
    <3>3. IsFiniteSet(u[d])
      BY <3>1, <3>2, FS_AddElement
    <3> QED
      BY <1>3, <1>4, <1>7, <1>10, <1>12, <1>13, <2>1, <2>2, <3>1, <3>3
  <2>3. CASE ~(Top \in due[d] \/ (d = Top /\ Top \notin quited))
    <3>1. u[d] = due[d]
      BY <1>11, <2>3
    <3> QED
      BY <1>3, <1>4, <1>7, <1>12, <2>1, <2>3, <3>1
  <2> QED
    BY <2>2, <2>3
<1>15. ASSUME NEW d \in Dialogs, NEW e \in Dialogs, d # e PROVE u[d] \cap u[e] = {}
  <2>1. due[d] \cap due[e] = {} /\ y \notin due[d] /\ y \notin due[e]
    BY <1>12, <1>15 DEF Owes
  <2>2. ~(Top \in due[d] /\ Top \in due[e])
    BY <2>1
  <2>3. Top \notin quited => Top \notin due[d] /\ Top \notin due[e]
    BY <1>12
  <2> QED
    BY <1>11, <1>15, <2>1, <2>2, <2>3
<1>16. ASSUME NEW d \in Wins \ quited
       PROVE  saved[d] + (IF d \in Running' THEN 0 ELSE 1) <= Cardinality(u[d])
  <2>1. /\ d \in Dialogs /\ saved[d] \in Nat /\ Cardinality(due[d]) \in Nat
        /\ saved[d] + (IF d \in Running THEN 0 ELSE 1) <= Cardinality(due[d])
    BY <1>12, FS_CardinalityType DEF Owes, Wins, TypeOK
  <2>2. CASE d = Top
    <3>1. Top \notin due[d] /\ u[d] = due[d] \cup {y}
      BY <1>11, <1>12, <2>1, <2>2
    <3>2. Cardinality(u[d]) = Cardinality(due[d]) + 1
      BY <1>12, <2>1, <3>1, FS_AddElement
    <3> QED
      BY <1>4, <2>1, <2>2, <3>2
  <2>3. CASE d # Top /\ Top \in due[d]
    <3>1. u[d] = (due[d] \ {Top}) \cup {y} /\ y \notin due[d] \ {Top}
      BY <1>11, <1>12, <2>1, <2>3
    <3>2. IsFiniteSet(due[d] \ {Top}) /\ Cardinality(due[d] \ {Top}) = Cardinality(due[d]) - 1
      BY <1>12, <2>1, <2>3, FS_RemoveElement
    <3>3. Cardinality(u[d]) = Cardinality(due[d] \ {Top}) + 1
      BY <3>1, <3>2, FS_AddElement
    <3> QED
      BY <1>4, <2>1, <2>3, <3>2, <3>3
  <2>4. CASE d # Top /\ Top \notin due[d]
    <3>1. u[d] = due[d]
      BY <1>11, <2>1, <2>4
    <3> QED
      BY <1>4, <2>1, <2>4, <3>1
  <2> QED
    BY <2>2, <2>3, <2>4
<1>17. u \in [Dialogs -> SUBSET (quited' \cap Running')]
  BY <1>11, <1>14
<1>18. Owes(o, u)'
  BY <1>3, <1>8, <1>9, <1>10, <1>14, <1>15, <1>16, <1>17 DEF Owes
<1>19. ASSUME Top = MAIN PROVE MAIN \in quited
  <2>1. Depth = 1
    BY <1>1, <1>19, ModalAssumption DEF StackShape, Top, Wins
  <2>2. Running = {MAIN}
    BY <1>19, <2>1 DEF Running, Top
  <2> QED
    BY <1>10, <2>2
<1> QED
  BY <1>18, <1>19 DEF Owed

\* Windows that are opened, closed or destroyed change no loop that runs.
LEMMA OtherOwes ==
  ASSUME NEW own, NEW due, Owes(own, due),
         UNCHANGED <<Running, quit_num>>, quited' \cap Running = quited \cap Running,
         Wins' \ quited' \subseteq Wins \ quited,
         \A d \in Wins' \ quited' : saved'[d] = saved[d]
  PROVE  Owed'
<1>1. Owes(own, due)'
  BY DEF Owes
<1> QED
  BY <1>1 DEF Owed

\* No step makes a quit too many, and the program's loop ends with its own.
LEMMA NextOwed ==
  ASSUME IInv, Owed, [Next]_vars
  PROVE  Owed' /\ (LoopEnd /\ Top = MAIN => MAIN \in quited)
<1> USE DEF IInv
<1>0. PICK own, due : Owes(own, due)
  BY DEF Owed
<1>00. TypeOK' /\ IInv'
  BY TypeInductive, NextIInv
<1>1. LoopEnd => Owed' /\ (Top = MAIN => MAIN \in quited)
  BY <1>0, <1>00, LoopEndOwes
<1>2. ASSUME NEW d \in Dialogs, Modal(d) PROVE Owed'
  BY <1>0, <1>00, <1>2, ModalOwes
<1>3. ASSUME NEW d \in Dialogs, Quit(d) PROVE Owed'
  BY <1>0, <1>00, <1>3, QuitOwes
<1>4. CASE TkQuit
  BY <1>0, <1>1, <1>4, TkQuitOwes
<1>5. ASSUME stack' = stack, quit_num' = quit_num, quited' = quited, saved' = saved, Wins' \subseteq Wins
      PROVE  Owed'
  BY <1>0, <1>5, OtherOwes DEF Running, Depth
<1>6. ASSUME NEW d \in Dialogs, Open(d) PROVE Owed'
  <2>1. Head(idles) = OpenIdle(d) /\ idles # <<>>
    BY <1>6 DEF Open, Dispatch, OpenIdle
  <2>2. d \in Wins
    BY <2>1, Dispatched DEF IdleStage, OpenIdle
  <2>3. Wins' \subseteq Wins
    BY <1>6, <2>2 DEF Open, Wins, Hidden, TypeOK
  <2> QED
    BY <1>5, <1>6, <2>3 DEF Open
<1>7. ASSUME NEW d \in Dialogs, Close(d) PROVE Owed'
  <2>1. Wins' \subseteq Wins
    BY <1>7 DEF Close, Wins, Shown, TypeOK
  <2> QED
    BY <1>5, <1>7, <2>1 DEF Close
<1>8. ASSUME NEW d \in Dialogs, Destroy(d) PROVE Owed'
  <2>1. Head(idles) = [do |-> "destroy", win |-> d] /\ idles # <<>>
    BY <1>8 DEF Destroy, Dispatch
  <2>2. d \notin Running /\ stage[d] = "CLOSED"
    BY <2>1, Dispatched DEF IdleStage
  <2>3. Wins' = Wins /\ d \notin Wins
    BY <1>8, <2>2 DEF Destroy, Wins, TypeOK
  <2>4. UNCHANGED <<Running, quit_num>> /\ quited' \cap Running = quited \cap Running
    BY <1>8, <2>2 DEF Destroy, Running, Depth
  <2>5. \A e \in Wins' \ quited' : e \in Wins \ quited /\ saved'[e] = saved[e]
    BY <1>8, <2>3 DEF Destroy, Wins, TypeOK
  <2> QED
    BY <1>0, <2>4, <2>5, OtherOwes
<1>9. CASE UNCHANGED <<stack, quit_num, quited, saved, stage>>
  <2>1. Wins' = Wins
    BY <1>9 DEF Wins
  <2>2. stack' = stack /\ quit_num' = quit_num /\ quited' = quited /\ saved' = saved /\ Wins' \subseteq Wins
    BY <1>9, <2>1
  <2> QED
    BY <1>1, <1>5, <2>2
<1> QED
  BY <1>1, <1>2, <1>3, <1>4, <1>6, <1>7, <1>8, <1>9 DEF Next, LoopStep, StepBegin, IdlesEnd, StepEnd, vars

\* In the initial state nothing has been quit.
LEMMA InitOwed == Init => Owed
<1> SUFFICES ASSUME Init PROVE Owed
  OBVIOUS
<1>1. Owes({}, [d \in Dialogs |-> {}])
  BY FS_EmptySet DEF Init, Owes, Wins
<1> QED
  BY <1>1 DEF Owed

\* A modal dialog ends only when it has been quit, until a loop is quit out of
\* turn; the program, only when it has been quit (main_loop_simple_run).
THEOREM EndsWhenQuit == Spec => ReturnsWhenQuit
<1> DEFINE Ends == \A d \in Loops : d \in Running /\ d \notin Running' =>
                     d \in quited \/ (d # MAIN /\ early # {})
<1>1. IInv /\ Owed /\ [Next]_vars => [Ends]_vars
  <2> SUFFICES ASSUME IInv, Owed, [Next]_vars PROVE Ends
    OBVIOUS
  <2>0. TypeOK /\ Depth \in Nat
    BY DEF IInv, TypeOK, Depth
  <2>1. CASE LoopEnd
    <3>1. Depth \in Nat \ {0} /\ quit_num \in Nat \ {0}
      BY <2>0, <2>1 DEF LoopEnd, Ended, TypeOK, Depth
    <3>2. early = {} => Top \in quited
      BY <3>1 DEF IInv, QuitsAccounted, QuitBelow, Top
    <3>3. Top = MAIN => Top \in quited
      BY <2>1, NextOwed
    <3>4. Depth' = Depth - 1 /\ \A k \in 1..Depth - 1 : stack'[k] = stack[k]
      BY <2>0, <2>1, <3>1 DEF LoopEnd, TypeOK, Depth
    <3>5. Running \ {Top} \subseteq Running'
      BY <3>1, <3>4 DEF Running, Top
    <3> QED
      BY <3>2, <3>3, <3>5
  <2>2. ASSUME NEW d \in Dialogs, Modal(d) PROVE Ends
    <3>1. Depth' = Depth + 1 /\ \A k \in 1..Depth : stack'[k] = stack[k]
      BY <2>0, <2>2 DEF Modal, TypeOK, Depth
    <3> QED
      BY <2>0, <3>1 DEF Running
  <2>3. CASE UNCHANGED stack
    BY <2>3 DEF Running, Depth
  <2> QED
    BY <2>1, <2>2, <2>3 DEF Next, LoopStep, StepBegin, IdlesEnd, StepEnd, Quit, TkQuit, Open, Close, Destroy, vars
<1>2. IInv /\ Owed /\ [Next]_vars => Owed'
  BY NextOwed
<1> QED
  BY <1>1, <1>2, InitOwed, Invariance, PTL DEF Spec, ReturnsWhenQuit

\* The innermost dialog is not refused by dialog_quit once it has been opened and
\* the dialogs that another loop's quit has ended are closed (is_dialog_opened).
THEOREM InnermostCanBeQuit == Spec => []CanBeQuit
<1>1. IInv /\ CreatedWaits => CanBeQuit
  <2> SUFFICES ASSUME IInv, CreatedWaits, ~Ended, Top # MAIN, Top \notin quited, OpenIdle(Top) \notin Waiting
               PROVE  Opened(Top) \/ \E e \in Above(Top) \ quited : CloseIdle(e) \in Waiting
    BY DEF CanBeQuit, OpenIdle, CloseIdle
  <2> USE DEF IInv
  <2>1. Depth \in Nat /\ Depth >= 2 /\ Top \in Wins /\ Top \in Dialogs
    BY DEF TypeOK, StackShape, Ended, Depth, Top, Wins
  <2>2. stage[Top] # "CREATED"
    BY <2>1 DEF CreatedWaits
  <2>3. ASSUME NEW e \in Above(Top) PROVE CloseIdle(e) \in Waiting
    <3>1. e \in Wins /\ e \in Dialogs /\ Top \in under[e]
      BY DEF Above, Wins
    <3>2. CASE e \notin Running
      BY <3>1, <3>2 DEF ReturnedQuit, Waiting
    <3>3. CASE e \in Running
      <4>1. PICK k \in 1..Depth : stack[k] = e
        BY <3>3 DEF Running
      <4>2. k \in 2..Depth
        BY <2>1, <3>1, <4>1, ModalAssumption DEF StackShape
      <4>3. k = Depth
        BY <2>1, <3>1, <4>1, <4>2 DEF StackOrder, UnderOrder, Top
      <4> QED
        BY <2>1, <3>1, <4>1, <4>3 DEF UnderOrder, Top
    <3> QED
      BY <3>2, <3>3
  <2> QED
    BY <2>1, <2>2, <2>3 DEF Opened, Wins
<1>2. Init => CreatedWaits
  BY DEF Init, CreatedWaits
<1> QED
  BY <1>1, <1>2, NextCreatedWaits, Invariance, PTL DEF Spec

=============================================================================
