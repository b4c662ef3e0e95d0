---------------------------- MODULE ModalDialogs ----------------------------
(***************************************************************************)
(* Modal dialogs and the main loops they run inside each other.            *)
(* dialog_modal (base/dialog.c) saves the quits that wait in quit_num of   *)
(* the main loop, runs a loop of its own (base/main_loop.c,                *)
(* main_loop_simple.c) and returns when that loop ends; dialog_quit gives  *)
(* the saved quits back and adds one.  Nothing says which loop a quit is   *)
(* for: whatever loop looks at quit_num next takes one and ends.           *)
(*                                                                         *)
(* A window manager without window animations (window_manager_default.c)   *)
(* opens, hides and shows the dialogs; their stages decide which of them   *)
(* dialog_quit accepts.  Windows other than dialogs do not matter to that. *)
(* running of the main loop is the length of the stack.                    *)
(***************************************************************************)
EXTENDS Integers, Sequences

CONSTANTS
  Dialogs,
  MAIN           \* the loop that tk_run runs

ASSUME ModalAssumption == MAIN \notin Dialogs

VARIABLES
  stack,     \* the loops that run, innermost last: a dialog's or MAIN
  phase,     \* phase[k]: where stack[k] is, at its head or in its step
  quit_num,  \* main_loop->quit_num
  saved,     \* dialog->quit_num
  quited,    \* the dialogs with dialog->quited; MAIN: tk_quit has been executed
  stage,     \* window_base->stage
  under,     \* under[d]: the dialogs that the window manager has below d
  idles,     \* the window manager's idle functions, in the order of the idle list
  early      \* history: the loops that have been quit out of turn

vars == <<stack, phase, quit_num, saved, quited, stage, under, idles, early>>

Loops == Dialogs \cup {MAIN}
Idle == [do : {"open", "close", "destroy"}, win : Dialogs]

Depth == Len(stack)
Top == stack[Depth]
Ended == stack = <<>>
Running == {stack[k] : k \in 1..Depth}
Waiting == {idles[i] : i \in 1..Len(idles)}
Wins == {d \in Dialogs : stage[d] \in {"CREATED", "OPENED", "SUSPEND"}}

Init ==
  /\ stack = <<MAIN>> /\ phase = <<"head">>
  /\ quit_num = 0
  /\ saved = [d \in Dialogs |-> 0]
  /\ quited = {}
  /\ stage = [d \in Dialogs |-> "NONE"]
  /\ under = [d \in Dialogs |-> {}]
  /\ idles = <<>>
  /\ early = {}

-----------------------------------------------------------------------------
(* The loops: main_loop_simple_run and main_loop_simple_step. *)

\* quit_num is 0: the loop makes a step.
StepBegin ==
  /\ ~Ended
  /\ phase[Depth] = "head"
  /\ quit_num = 0
  /\ phase' = [phase EXCEPT ![Depth] = "events"]
  /\ UNCHANGED <<stack, quit_num, saved, quited, stage, under, idles, early>>

\* The events have been dispatched and every idle function called; the timers
\* and the rest of the step come after them.
IdlesEnd ==
  /\ ~Ended
  /\ phase[Depth] = "events"
  /\ idles = <<>>
  /\ phase' = [phase EXCEPT ![Depth] = "timers"]
  /\ UNCHANGED <<stack, quit_num, saved, quited, stage, under, idles, early>>

StepEnd ==
  /\ ~Ended
  /\ phase[Depth] = "timers"
  /\ phase' = [phase EXCEPT ![Depth] = "head"]
  /\ UNCHANGED <<stack, quit_num, saved, quited, stage, under, idles, early>>

\* Mistaken: a loop that ends takes all the quits there are.
QuitsLeftNone == 0

\* Mistaken: the loop takes a quit, and so does dialog_modal after it.
QuitsLeftTwo == quit_num - 2

\* --l->quit_num
QuitsLeft == quit_num - 1

\* if (l->quit_num) { --l->quit_num; --l->running; break; }; dialog_modal then
\* leaves the closing to an idle function and returns into the callback.
LoopEnd ==
  /\ ~Ended
  /\ phase[Depth] = "head"
  /\ quit_num > 0
  /\ quit_num' = QuitsLeft
  /\ stack' = SubSeq(stack, 1, Depth - 1)
  /\ phase' = SubSeq(phase, 1, Depth - 1)
  /\ idles' = IF Top = MAIN THEN idles ELSE Append(idles, [do |-> "close", win |-> Top])
  /\ UNCHANGED <<saved, quited, stage, under, early>>

-----------------------------------------------------------------------------
(* What callbacks in the step of the innermost loop do. *)

InStep == ~Ended /\ phase[Depth] \in {"events", "timers"}

\* Mistaken: the quits that wait are left for the dialog's loop as well.
SavedLeft(d) == quit_num' = quit_num /\ saved' = [saved EXCEPT ![d] = quit_num]

\* dialog->quit_num = l->quit_num; l->quit_num = 0;
Saved(d) == quit_num' = 0 /\ saved' = [saved EXCEPT ![d] = quit_num]

\* A dialog is created and opened, by window_manager_default_open_window, and
\* dialog_modal is called.
Modal(d) ==
  /\ InStep
  /\ stage[d] = "NONE"
  /\ stage' = [stage EXCEPT ![d] = "CREATED"]
  /\ under' = [under EXCEPT ![d] = Wins]
  /\ idles' = Append(idles, [do |-> "open", win |-> d])
  /\ quited' = quited \ {d}
  /\ Saved(d)
  /\ stack' = Append(stack, d)
  /\ phase' = Append(phase, "head")
  /\ UNCHANGED early

Above(d) == {e \in Wins : d \in under[e]}

\* Mistaken: a dialog that is hidden counts as opened.
OpenedHidden(d) == stage[d] \in {"OPENED", "SUSPEND"}

\* Mistaken: a dialog hidden by one that has been quit does not.
OpenedOnly(d) == stage[d] = "OPENED"

\* is_dialog_opened
Opened(d) ==
  \/ stage[d] = "OPENED"
  \/ stage[d] = "SUSPEND" /\ Above(d) \subseteq quited

\* Mistaken: forgets the quits that dialog_modal has put aside.
GivenBackNone(d) == quit_num + 1

\* l->quit_num += dialog->quit_num; main_loop_quit(l);
GivenBack(d) == quit_num + saved[d] + 1

\* The turn of a loop to be quit is when it runs and the loops inside it have
\* all been quit.
InTurn(d) == \E j \in 1..Depth : stack[j] = d /\ \A k \in j + 1..Depth : stack[k] \in quited

\* Quits d; the code does not look at whose turn it is.
SetQuited(d) ==
  /\ quited' = quited \cup {d}
  /\ early' = IF InTurn(d) THEN early ELSE early \cup {d}

\* dialog_quit
Quit(d) ==
  /\ InStep
  /\ d \in Wins \ quited
  /\ Opened(d)
  /\ SetQuited(d)
  /\ quit_num' = GivenBack(d)
  /\ UNCHANGED <<stack, phase, saved, stage, under, idles>>

\* tk_quit_in_timer; bound: the application quits once.
TkQuit ==
  /\ InStep
  /\ phase[Depth] = "timers"
  /\ MAIN \notin quited
  /\ SetQuited(MAIN)
  /\ quit_num' = quit_num + 1
  /\ UNCHANGED <<stack, phase, saved, stage, under, idles>>

-----------------------------------------------------------------------------
(* The window manager's idle functions. *)

Dispatch(kind, d) ==
  /\ InStep
  /\ phase[Depth] = "events"
  /\ idles # <<>>
  /\ Head(idles) = [do |-> kind, win |-> d]

\* window_manager_default_push_prev_windows_to_background
Hidden(d) == {e \in under[d] : stage[e] = "OPENED"}

\* window_manager_check_if_need_open_animation: no animation.
Open(d) ==
  /\ Dispatch("open", d)
  /\ stage' = [e \in Dialogs |->
       IF e = d THEN "OPENED" ELSE IF e \in Hidden(d) THEN "SUSPEND" ELSE stage[e]]
  /\ idles' = Tail(idles)
  /\ UNCHANGED <<stack, phase, quit_num, saved, quited, under, early>>

\* The top window without d: window_manager_get_top_window.
Shown(d) == {e \in Wins \ {d} : Wins \ {d, e} \subseteq under[e]}

\* dialog_idle_close and window_manager_default_close_window, without an
\* animation; the dialog has been opened by then.
Close(d) ==
  /\ Dispatch("close", d)
  /\ stage' = [e \in Dialogs |->
       IF e = d THEN "CLOSED" ELSE IF e \in Shown(d) THEN "OPENED" ELSE stage[e]]
  /\ under' = [e \in Dialogs |-> IF e = d THEN {} ELSE under[e] \ {d}]
  /\ idles' = Append(Tail(idles), [do |-> "destroy", win |-> d])
  /\ UNCHANGED <<stack, phase, quit_num, saved, quited, early>>

\* window_manager_idle_destroy_window; the memory may become a new dialog.
Destroy(d) ==
  /\ Dispatch("destroy", d)
  /\ stage' = [stage EXCEPT ![d] = "NONE"]
  /\ idles' = Tail(idles)
  /\ quited' = quited \ {d}
  /\ saved' = [saved EXCEPT ![d] = 0]
  /\ UNCHANGED <<stack, phase, quit_num, under, early>>

LoopStep ==
  \/ StepBegin \/ IdlesEnd \/ StepEnd \/ LoopEnd
  \/ \E d \in Dialogs : Open(d) \/ Close(d) \/ Destroy(d)

Next ==
  \/ LoopStep
  \/ \E d \in Dialogs : Modal(d) \/ Quit(d)
  \/ TkQuit

Spec == Init /\ [][Next]_vars

\* The main loop goes on.
FairSpec == Spec /\ WF_vars(LoopStep)

-----------------------------------------------------------------------------
(* Properties. *)

TypeOK ==
  /\ stack \in Seq(Loops) /\ phase \in Seq({"head", "events", "timers"})
  /\ Len(phase) = Depth
  /\ quit_num \in Nat
  /\ saved \in [Dialogs -> Nat]
  /\ quited \subseteq Loops
  /\ stage \in [Dialogs -> {"NONE", "CREATED", "OPENED", "SUSPEND", "CLOSED"}]
  /\ under \in [Dialogs -> SUBSET Dialogs]
  /\ idles \in Seq(Idle)
  /\ early \subseteq Loops

\* Of the loops below position k, exactly the n innermost have been quit, up
\* to the next that has not.
QuitBelow(k, n) ==
  /\ n < k
  /\ \A j \in 1..Depth : k - n <= j /\ j < k => stack[j] \in quited
  /\ n < k - 1 => stack[k - n - 1] \notin quited

\* As long as the application quits the loops in turn, quit_num is the number of
\* loops, from the innermost out, that have been quit, and so each quit ends the
\* loop it is for; the rest of the quits are where dialog_modal has put them
\* aside.
QuitsAccounted ==
  early = {} =>
    /\ QuitBelow(Depth + 1, quit_num)
    /\ \A k \in 2..Depth : stack[k] \notin quited => QuitBelow(k, saved[stack[k]])

\* The dialogs above d have been opened.
AboveOpened(d) == \A e \in Above(d) : [do |-> "open", win |-> e] \notin Waiting

\* dialog_quit refuses every dialog whose turn it is not, as long as the dialogs
\* above it have been opened: the first quit out of turn is of a dialog below one
\* that still waits to be, or is tk_quit while a dialog is modal.
RefusedOutOfTurn ==
  [][\A d \in Dialogs : early = {} /\ d \in early' => ~AboveOpened(d)]_vars

\* tk_run returns only after tk_quit, in whatever order the dialogs are quit;
\* dialog_modal only after dialog_quit, unless a loop has been quit out of turn.
ReturnsWhenQuit ==
  [][\A d \in Loops : d \in Running /\ d \notin Running' =>
       d \in quited \/ (d # MAIN /\ early # {})]_vars

\* The innermost dialog can be quit as soon as it has been opened, whatever
\* dialogs have hidden it and gone, unless it has been; a dialog above it whose
\* loop has taken the quit of another has to be closed first.
CanBeQuit ==
  ~Ended /\ Top # MAIN /\ Top \notin quited /\ [do |-> "open", win |-> Top] \notin Waiting
    => Opened(Top) \/ \E d \in Above(Top) \ quited : [do |-> "close", win |-> d] \in Waiting

\* Once a dialog has been quit, and the dialogs above it, dialog_modal returns,
\* unless another dialog is opened above it or a loop is quit out of turn.
QuitReturns ==
  \A d \in Dialogs :
    (d \in Running /\ d \in quited /\ early = {} /\ \A k \in 1..Depth : stack[k] = d =>
       \A m \in k..Depth : stack[m] \in quited)
      ~> (d \notin Running \/ Top \notin quited \/ early # {})

=============================================================================
