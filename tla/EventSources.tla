---------------------------- MODULE EventSources ----------------------------
(***************************************************************************)
(* The event sources of a main loop (tkc/event_source_manager.c,           *)
(* event_source_manager_default.c).  A dispatch copies the sources into    *)
(* dispatching_sources, one array for all the dispatches in progress,      *)
(* selects among their descriptors and walks the array.  The source it     *)
(* calls may add and remove sources, or run a main loop of its own (a      *)
(* dialog), whose dispatch appends to that array, walks it from its first  *)
(* element, the outer dispatch's included, and clears it.                  *)
(*                                                                         *)
(* It all happens in one thread; data arrives at any time, and the         *)
(* dispatch of a source reads what has arrived for it.  A source is a      *)
(* piece of memory with a reference count: the application keeps no        *)
(* reference (as service/service.c), the arrays hold one per element.  A   *)
(* source that is registered is not added a second time: everything that   *)
(* adds one has just made it.                                              *)
(* Sources without a descriptor, timers and idle functions, are called in  *)
(* every dispatch.                                                         *)
(***************************************************************************)
EXTENDS Integers, Sequences, FiniteSets

CONSTANTS
  Fds,             \* the sources with a descriptor
  Others,          \* those without
  MaxSources,      \* bound: sources registered at a time
  MaxDepth         \* bound: dispatches inside each other

ASSUME SourcesAssumption ==
  /\ IsFiniteSet(Fds) /\ IsFiniteSet(Others) /\ Fds \cap Others = {}
  /\ MaxSources \in Nat /\ MaxDepth \in Nat \ {0}

Sources == Fds \cup Others

VARIABLES
  sources,       \* manager->sources
  dispatching,   \* manager->dispatching_sources
  refs,          \* the reference count of each source, 0: freed
  readable,      \* the sources whose descriptor has data
  stack          \* the dispatches in progress, innermost last

vars == <<sources, dispatching, refs, readable, stack>>

\* A dispatch: the function it is in, its index, the descriptors that select has
\* set, the source whose dispatch it has called and that has not returned, and
\* (history) whether a dispatch inside that one has ended since.
Frame == [in : {"fds", "no_fd"}, i : Nat, fdsr : SUBSET Fds, running : SUBSET Sources, ran : BOOLEAN]

Elements(q) == {q[i] : i \in 1..Len(q)}
Listed == Elements(sources)
Depth == Len(stack)
Top == stack[Depth]

\* The application runs: the dispatch of a source, or the main loop between two.
InApp == stack # <<>> => Top.running # {}

Count(q, s) == Cardinality({i \in 1..Len(q) : q[i] = s})

Init ==
  /\ sources = <<>> /\ dispatching = <<>>
  /\ refs = [s \in Sources |-> 0]
  /\ readable = {}
  /\ stack = <<>>

-----------------------------------------------------------------------------
(* What the application and the other ends of the descriptors do. *)

\* event_source_manager_add, with a new source whose creator drops its reference,
\* or one that a dispatch in progress still refers to.
Add(s) ==
  /\ InApp
  /\ s \notin Listed /\ Len(sources) < MaxSources
  /\ sources' = Append(sources, s)
  /\ refs' = [refs EXCEPT ![s] = refs[s] + 1]
  /\ UNCHANGED <<dispatching, readable, stack>>

\* Sources leave the array: darray_remove.
Without(S) ==
  LET kept[i \in 0..Len(sources)] ==
        IF i = 0 THEN <<>>
        ELSE IF sources[i] \in S THEN kept[i - 1] ELSE Append(kept[i - 1], sources[i])
  IN  kept[Len(sources)]
Drop(S) ==
  /\ sources' = Without(S)
  /\ refs' = [s \in Sources |-> IF s \in S \cap Listed THEN refs[s] - 1 ELSE refs[s]]

\* event_source_manager_remove, and _remove_by_tag for sources that share a tag.
Remove(S) ==
  /\ InApp
  /\ S # {} /\ S \subseteq Listed
  /\ Drop(S)
  /\ UNCHANGED <<dispatching, readable, stack>>

Arrive(s) ==
  /\ s \in Fds \cap Listed
  /\ readable' = readable \cup {s}
  /\ UNCHANGED <<sources, dispatching, refs, stack>>

-----------------------------------------------------------------------------
(* event_source_manager_dispatch *)

\* Mistaken: select is not told of the last descriptor.
SelectedTooFew(q) ==
  {s \in Fds \cap readable : \E i, j \in 1..Len(q) : i < j /\ q[i] = s /\ q[j] \in Fds}

\* FD_SET for every descriptor in the array, and select.
Selected(q) == Fds \cap Elements(q) \cap readable

\* Mistaken: the array holds no references.
ReferredNot == refs

\* tk_object_ref in event_source_manager_prepare
Referred == [s \in Sources |-> IF s \in Listed THEN refs[s] + 1 ELSE refs[s]]

\* event_source_manager_prepare, and dispatch_fds up to its second loop.
Dispatch ==
  /\ InApp
  /\ Depth < MaxDepth
  /\ dispatching' = dispatching \o sources
  /\ refs' = Referred
  /\ stack' = Append(stack,
       [in |-> "fds", i |-> 0, fdsr |-> Selected(dispatching'), running |-> {}, ran |-> FALSE])
  /\ UNCHANGED <<sources, readable>>

Walking == stack # <<>> /\ Top.running = {}

\* The elements from the index on that the loop does not pass over.
Candidates ==
  {i \in (Top.i + 1)..Len(dispatching) :
     /\ dispatching[i] \in Listed
     /\ dispatching[i] \in IF Top.in = "fds" THEN Top.fdsr ELSE Others}
FirstOf(S) == CHOOSE i \in S : \A j \in S : i <= j

\* event_source_dispatch: a source with a descriptor reads from it.
Call(s) ==
  /\ Walking
  /\ Candidates # {}
  /\ s = dispatching[FirstOf(Candidates)]
  /\ stack' = [stack EXCEPT ![Depth].i = FirstOf(Candidates), ![Depth].running = {s}]
  /\ readable' = readable \ {s}
  /\ UNCHANGED <<sources, dispatching, refs>>

\* It returns.
Return ==
  /\ stack # <<>>
  /\ Top.running # {}
  /\ stack' = [stack EXCEPT ![Depth].running = {}, ![Depth].ran = FALSE]
  /\ UNCHANGED <<sources, dispatching, refs, readable>>

\* It returns RET_REMOVE.
ReturnRemove ==
  /\ stack # <<>>
  /\ Top.running # {}
  /\ stack' = [stack EXCEPT ![Depth].running = {}, ![Depth].ran = FALSE]
  /\ Drop(Top.running)
  /\ UNCHANGED <<dispatching, readable>>

\* dispatch_fds comes to its end; dispatch_no_fd begins.
FdsEnd ==
  /\ Walking
  /\ Top.in = "fds"
  /\ Candidates = {}
  /\ stack' = [stack EXCEPT ![Depth].in = "no_fd", ![Depth].i = 0, ![Depth].fdsr = {}]
  /\ UNCHANGED <<sources, dispatching, refs, readable>>

\* Mistaken: a nested dispatch leaves the array to the outermost one.
ClearedOuter == IF Depth = 1 THEN <<>> ELSE dispatching

\* darray_clear
Cleared == <<>>

\* Mistaken: the elements are taken away, their references stay.
UnreferredNot == refs

Unreferred == [s \in Sources |-> refs[s] - (Count(dispatching, s) - Count(dispatching', s))]

DispatchEnd ==
  /\ Walking
  /\ Top.in = "no_fd"
  /\ Candidates = {}
  /\ stack' = [k \in 1..Depth - 1 |-> [stack[k] EXCEPT !.ran = TRUE]]
  /\ dispatching' = Cleared
  /\ refs' = Unreferred
  /\ UNCHANGED <<sources, readable>>

InDispatch == (\E s \in Sources : Call(s)) \/ FdsEnd \/ DispatchEnd

Next ==
  \/ \E s \in Sources : Add(s) \/ Arrive(s) \/ Call(s)
  \/ \E S \in SUBSET Sources : Remove(S)
  \/ Dispatch \/ Return \/ ReturnRemove \/ FdsEnd \/ DispatchEnd

Spec == Init /\ [][Next]_vars

\* The main loop dispatches again and again, each dispatch goes on, and the
\* dispatch of a source returns in the end, whatever main loops it runs before.
FairSpec ==
  /\ Spec
  /\ WF_vars(stack = <<>> /\ Dispatch)
  /\ WF_vars(InDispatch)
  /\ \A k \in 1..MaxDepth : SF_vars(Depth = k /\ (Return \/ ReturnRemove))

-----------------------------------------------------------------------------
(* Properties. *)

\* In addition to the types: a source is registered once, and its reference
\* count is the number of elements that refer to it.
TypeOK ==
  /\ sources \in Seq(Sources) /\ dispatching \in Seq(Sources)
  /\ \A s \in Sources : Count(sources, s) <= 1
  /\ \A s \in Sources : refs[s] = Count(sources, s) + Count(dispatching, s)
  /\ readable \subseteq Fds
  /\ stack \in Seq(Frame) /\ Depth <= MaxDepth

\* No source is freed while its dispatch runs, although it may remove itself, or
\* a dispatch inside it may; only if it is removed and a dispatch inside its own
\* has ended, and with the array has cleared the reference that keeps it.  And a
\* dispatch walks over no source that has been freed.
AliveWhileUsed ==
  /\ \A k \in 1..Depth, s \in Sources : s \in stack[k].running =>
       refs[s] > 0 \/ (stack[k].ran /\ s \notin Listed)
  /\ \A i \in 1..Len(dispatching) : refs[dispatching[i]] > 0

\* Outside of nested loops a source is called only when there is data for it: it
\* does not block in a read, though select was asked before a nested dispatch
\* read from other descriptors.
CalledWithData ==
  [][\A s \in Fds : Call(s) /\ Depth = 1 => s \in readable]_vars

\* A source that has data is called, unless it is removed, however often the
\* sources before it run main loops that take away the rest of the walk.
ReadableIsCalled ==
  \A s \in Fds : (s \in readable) ~> (s \notin readable \/ s \notin Listed)

=============================================================================
