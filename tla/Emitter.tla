------------------------------- MODULE Emitter -------------------------------
(***************************************************************************)
(* The event dispatcher of every widget and object (tkc/emitter.c): a      *)
(* linked list of registered handlers that emitter_dispatch walks while    *)
(* the handlers it calls may register and unregister handlers, disable the *)
(* emitter, or dispatch again.  The emitter runs in one thread; the        *)
(* interleaving is that of re-entrant calls, so the state keeps the stack  *)
(* of emitter_dispatch frames that are waiting for a handler to return.    *)
(* Between two handler calls the walk is sequential code and one step.     *)
(*                                                                         *)
(* An item is a piece of memory: a freed one may be allocated again.  The  *)
(* tag stands for whatever a bulk removal matches on: the tag, the ctx, or *)
(* type, handler and ctx together.  The list is kept as the set of its     *)
(* items and, for each of them, the set of items that its next pointers    *)
(* lead to.                                                                *)
(***************************************************************************)
EXTENDS Integers, Sequences, FiniteSets

CONSTANTS
  Items,       \* the memory that emitter_item_t objects can live in
  Types,       \* event types
  Tags,        \* what emitter_off_by_tag, _by_ctx and _by_func match on
  MaxDepth,    \* bound: dispatch calls in progress at a time
  MaxDisable   \* bound: nesting of emitter_disable

ASSUME BoundsAssumption == MaxDepth \in Nat /\ MaxDisable \in Nat
ASSUME DomainAssumption == Types # {} /\ Tags # {}

VARIABLES
  items,           \* the items in the list emitter->items
  rest,            \* rest[p]: the items that the chain p->next runs through
  type,            \* item->type
  tag,             \* item->tag, ->ctx or ->handler
  working,         \* item->working
  pending_remove,  \* item->pending_remove
  disable,         \* emitter->disable
  stack            \* the dispatch frames, innermost last

vars == <<items, rest, type, tag, working, pending_remove, disable, stack>>

\* A frame of emitter_dispatch whose handler is running: e->type, iter and
\* is_working.  due is not in the code: the items the dispatch still owes a
\* call, which are the ones that were registered when it began.
Frame == [type : Types, iter : Items, is_working : BOOLEAN, due : SUBSET Items]

-----------------------------------------------------------------------------
(* The list. *)

\* The items of type t after p.
Ahead(p, t) == {q \in rest[p] : type[q] = t}

\* The member of S that the walk meets first.
Foremost(S) == CHOOSE p \in S : S \subseteq rest[p] \cup {p}

\* The items in S are unlinked; their memory is zeroed.
Unlink(S) ==
  /\ items' = items \ S
  /\ rest' = [p \in Items |-> IF p \in S THEN {} ELSE rest[p] \ S]

Depth == Len(stack)
Top == stack[Depth]

\* The memory of the items in S is freed (and zeroed): no dispatch owes them
\* a call any more.
Forget(st, S) == [i \in DOMAIN st |-> [st[i] EXCEPT !.due = @ \ S]]

-----------------------------------------------------------------------------
(* emitter_init *)
Init ==
  /\ items = {}
  /\ rest = [p \in Items |-> {}]
  /\ type \in [Items -> Types]
  /\ tag \in [Items -> Tags]
  /\ working = [p \in Items |-> FALSE]
  /\ pending_remove = [p \in Items |-> FALSE]
  /\ disable = 0
  /\ stack = <<>>

(* The operations below are called by the application: by the handler of    *)
(* the innermost frame, or by somebody else when no dispatch is running.    *)

\* Mistaken: appends the new item at the end of the list.
OnAtTail(p, ty, tg) ==
  /\ p \notin items
  /\ type' = [type EXCEPT ![p] = ty]
  /\ tag' = [tag EXCEPT ![p] = tg]
  /\ items' = items \cup {p}
  /\ rest' = [q \in Items |-> IF q \in items THEN rest[q] \cup {p} ELSE {}]
  /\ UNCHANGED <<working, pending_remove, disable, stack>>

\* emitter_on_with_tag: a zeroed item becomes the head of the list.
On(p, ty, tg) ==
  /\ p \notin items
  /\ type' = [type EXCEPT ![p] = ty]
  /\ tag' = [tag EXCEPT ![p] = tg]
  /\ items' = items \cup {p}
  /\ rest' = [rest EXCEPT ![p] = items]
  /\ UNCHANGED <<working, pending_remove, disable, stack>>

\* Mistaken: frees an item that a dispatch is working on.
RemoveAtOnce(S, working1, stack1) ==
  /\ Unlink(S)
  /\ working' = [p \in Items |-> working1[p] /\ p \notin S]
  /\ pending_remove' = [p \in Items |-> pending_remove[p] /\ p \notin S]
  /\ stack' = Forget(stack1, S)

\* emitter_remove on each item of S, when working is working1 and stack1 is
\* the stack: an item some frame works on is only marked, another is unlinked
\* and freed.
Remove(S, working1, stack1) ==
  LET freed == {p \in S : ~working1[p]} IN
  /\ Unlink(freed)
  /\ working' = [p \in Items |-> working1[p] /\ p \notin freed]
  /\ pending_remove' = [p \in Items |-> IF p \in S THEN p \notin freed ELSE pending_remove[p]]
  /\ stack' = Forget(stack1, freed)

\* emitter_off: the item with that id, unless it is already marked.
Off(p) ==
  /\ p \in items
  /\ ~pending_remove[p]
  /\ Remove({p}, working, stack)
  /\ UNCHANGED <<type, tag, disable>>

\* emitter_off_by_tag, _by_ctx, _by_func: emitter_off_ex until it finds none.
OffBy(tg) ==
  LET S == {p \in items : ~pending_remove[p] /\ tag[p] = tg} IN
  /\ S # {}
  /\ Remove(S, working, stack)
  /\ UNCHANGED <<type, tag, disable>>

\* Mistaken: counts below zero.
EnableUnguarded ==
  /\ disable' = disable - 1
  /\ UNCHANGED <<items, rest, type, tag, working, pending_remove, stack>>

\* emitter_enable undoes one emitter_disable; both only count.
Enable ==
  /\ disable > 0
  /\ disable' = disable - 1
  /\ UNCHANGED <<items, rest, type, tag, working, pending_remove, stack>>

Disable ==
  /\ disable < MaxDisable
  /\ disable' = disable + 1
  /\ UNCHANGED <<items, rest, type, tag, working, pending_remove, stack>>

\* The walk calls the handler of the foremost of the items in S: working is
\* saved in the frame and set.
Call(st, ty, S, due, working1) ==
  LET p == Foremost(S) IN
  /\ stack' = Append(st, [type |-> ty, iter |-> p, is_working |-> working1[p], due |-> due \ {p}])
  /\ working' = [working1 EXCEPT ![p] = TRUE]

\* emitter_dispatch up to the first handler call.  A dispatch that finds the
\* emitter disabled or no handler of its type does nothing.
Dispatch(ty) ==
  LET S == {p \in items : type[p] = ty} IN
  /\ Depth < MaxDepth
  /\ disable = 0
  /\ S # {}
  /\ Call(stack, ty, S, S, working)
  /\ UNCHANGED <<items, rest, type, tag, pending_remove, disable>>

\* Mistaken: leaves working set when the outermost handler returns.
RestoredNever(f) == working

\* emitter_dispatch from the return of a handler: working is restored.
Restored(f) == IF f.is_working THEN working ELSE [working EXCEPT ![f.iter] = FALSE]

\* The rest of the walk: the next handler call, or the end of the dispatch.
\* st is the stack without the frame f.
WalkOn(st, f, working1) ==
  LET S == Ahead(f.iter, f.type) IN
  IF S = {} THEN stack' = st /\ working' = working1
            ELSE Call(st, f.type, S, f.due, working1)

Below == SubSeq(stack, 1, Depth - 1)

\* The handler returns RET_STOP: the dispatch ends; the item goes if it was
\* marked for removal.
ReturnStop ==
  /\ stack # <<>>
  /\ LET p == Top.iter IN
     IF pending_remove[p]
     THEN Remove({p}, Restored(Top), Below)
     ELSE /\ stack' = Below
          /\ working' = Restored(Top)
          /\ UNCHANGED <<items, rest, pending_remove>>
  /\ UNCHANGED <<type, tag, disable>>

\* The handler returns something else, and the item stays.
ReturnOk ==
  /\ stack # <<>>
  /\ ~pending_remove[Top.iter]
  /\ WalkOn(Below, Top, Restored(Top))
  /\ UNCHANGED <<items, rest, type, tag, pending_remove, disable>>

\* The handler returns RET_REMOVE, or the item was marked while it ran: the
\* successor is read, the item is removed or, in a nested dispatch, marked,
\* and the walk goes on from the successor.
ReturnRemove(ret) ==
  /\ stack # <<>>
  /\ LET f == Top
         p == f.iter
         S == Ahead(p, f.type)
         working1 == Restored(f)
         freed == ~working1[p]
         st == IF freed THEN Forget(Below, {p}) ELSE Below
     IN
     /\ ret = "RET_REMOVE" \/ pending_remove[p]
     /\ Unlink(IF freed THEN {p} ELSE {})
     /\ pending_remove' = [pending_remove EXCEPT ![p] = ~freed]
     /\ WalkOn(st, f, working1)
  /\ UNCHANGED <<type, tag, disable>>

\* emitter_deinit, which nobody calls from a handler of the emitter.
Deinit ==
  /\ stack = <<>>
  /\ items # {}
  /\ Unlink(items)
  /\ pending_remove' = [p \in Items |-> FALSE]
  /\ UNCHANGED <<type, tag, working, disable, stack>>

Next ==
  \/ \E p \in Items, ty \in Types, tg \in Tags : On(p, ty, tg)
  \/ \E p \in Items : Off(p)
  \/ \E tg \in Tags : OffBy(tg)
  \/ \E ty \in Types : Dispatch(ty)
  \/ Enable
  \/ Disable
  \/ ReturnStop
  \/ ReturnOk
  \/ \E ret \in {"RET_OK", "RET_REMOVE"} : ReturnRemove(ret)
  \/ Deinit

Spec == Init /\ [][Next]_vars

-----------------------------------------------------------------------------
(* Properties. *)

TypeOK ==
  /\ items \subseteq Items
  /\ rest \in [Items -> SUBSET Items]
  /\ type \in [Items -> Types]
  /\ tag \in [Items -> Tags]
  /\ working \in [Items -> BOOLEAN]
  /\ pending_remove \in [Items -> BOOLEAN]
  /\ disable \in 0..MaxDisable
  /\ stack \in Seq(Frame)
  /\ Len(stack) <= MaxDepth

\* emitter_dispatch reads iter->working, ->pending_remove and ->next after the
\* handler has returned: whatever handlers do, at any depth of nested
\* dispatches, the item of a frame is still in the list and was not freed.
NoDanglingFrame == \A i \in 1..Depth : stack[i].iter \in items

\* A removal that was put off is carried out by a frame that is still there:
\* a marked or working item always has one, so none is left over when the
\* outermost dispatch has returned.
PendingHasFrame ==
  \A p \in Items : working[p] \/ pending_remove[p] =>
    \E i \in 1..Depth : stack[i].iter = p

\* A dispatch still owes a call to exactly the items of its type that are
\* ahead of it in the list.  So no item that was registered before the
\* dispatch and is not removed is skipped or called twice, and none that is
\* registered meanwhile is called, even in memory that has been used before.
DispatchIsExact ==
  \A i \in 1..Depth : stack[i].due = Ahead(stack[i].iter, stack[i].type)

\* A step that calls the handler of p: a new frame, or the next item of the
\* innermost one.
Calls(p) ==
  /\ Depth' > 0 /\ Top'.iter = p
  /\ \/ Depth' > Depth
     \/ Depth' = Depth /\ Top.iter # p

\* emitter_off unregisters a handler: after it has returned RET_OK the handler
\* is not called again.  An item that was turned off is marked pending_remove
\* as long as it is in the list.
OffIsFinal == [][\A p \in Items : Calls(p) => ~pending_remove[p]]_vars

=============================================================================
