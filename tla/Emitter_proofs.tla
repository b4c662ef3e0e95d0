--------------------------- MODULE Emitter_proofs ---------------------------
(***************************************************************************)
(* No dispatch follows a freed item, a removal that was put off has a      *)
(* frame to carry it out, and a dispatch owes exactly the items ahead of   *)
(* it, for any items, types, tags and depths.                              *)
(*                                                                         *)
(* The argument: the list is ordered, and every set of its items has a     *)
(* first one (ListOrder).  working is set exactly for the items of the     *)
(* frames, and is_working of a frame exactly when a frame below it has the *)
(* same item (FramesOK): so the frame that clears working is the outermost *)
(* of its item, and an item is unlinked only when no frame has it.  All    *)
(* that changes the stack is taking the last frame away, adding one, and   *)
(* forgetting freed items; each keeps FramesOK.                            *)
(***************************************************************************)
EXTENDS Emitter, TLAPS

-----------------------------------------------------------------------------
(* The inductive invariant. *)

\* The chain of next pointers runs through the list, never comes back, and every
\* set of items has one that it meets first.
ListOrder ==
  /\ \A p \in items : rest[p] \subseteq items /\ p \notin rest[p]
  /\ \A p, q \in items : q \in rest[p] => rest[q] \subseteq rest[p]
  /\ \A S \in SUBSET items : S # {} => \E p \in S : S \subseteq rest[p] \cup {p}

\* The frames of st, when w is working and the list has the items it, chained
\* by r.
FramesOK(st, w, it, r) ==
  /\ st \in Seq(Frame)
  /\ w \in [Items -> BOOLEAN]
  /\ \A i \in 1..Len(st) : st[i].iter \in it
  /\ \A p \in Items : w[p] <=> \E i \in 1..Len(st) : st[i].iter = p
  /\ \A i \in 1..Len(st) :
       st[i].is_working <=> \E j \in 1..(i - 1) : st[j].iter = st[i].iter
  /\ \A i \in 1..Len(st) : st[i].due = {q \in r[st[i].iter] : type[q] = st[i].type}

\* A removal is put off only for an item that a frame works on.
PutOff == \A p \in Items : pending_remove[p] => working[p]

IInv == TypeOK /\ ListOrder /\ FramesOK(stack, working, items, rest) /\ PutOff

-----------------------------------------------------------------------------
(* The list. *)

\* The walk has a first item to go to.
LEMMA ForemostIsFirst ==
  ASSUME ListOrder, NEW S \in SUBSET items, S # {}
  PROVE  Foremost(S) \in S /\ S \subseteq rest[Foremost(S)] \cup {Foremost(S)}
BY DEF ListOrder, Foremost

\* Unlinking items keeps the order of the others.
LEMMA UnlinkKeepsOrder ==
  ASSUME TypeOK, ListOrder, NEW S, Unlink(S)
  PROVE  /\ ListOrder'
         /\ items' \subseteq Items /\ rest' \in [Items -> SUBSET Items]
<1> USE DEF Unlink, TypeOK
<1>1. items' \subseteq items /\ \A p \in items' : rest'[p] = rest[p] \ S
  OBVIOUS
<1>2. items' \subseteq Items /\ rest' \in [Items -> SUBSET Items]
  OBVIOUS
<1>3. \A p \in items' : rest'[p] \subseteq items' /\ p \notin rest'[p]
  BY <1>1 DEF ListOrder
<1>4. \A p, q \in items' : q \in rest'[p] => rest'[q] \subseteq rest'[p]
  BY <1>1 DEF ListOrder
<1>5. ASSUME NEW T \in SUBSET items', T # {}
      PROVE  \E p \in T : T \subseteq rest'[p] \cup {p}
  <2>1. PICK p \in T : T \subseteq rest[p] \cup {p}
    BY <1>1, <1>5 DEF ListOrder
  <2>2. T \cap S = {}
    BY <1>5
  <2> QED
    BY <2>1, <2>2, <1>1
<1> QED
  BY <1>2, <1>3, <1>4, <1>5 DEF ListOrder

-----------------------------------------------------------------------------
(* What happens to the frames. *)

\* The innermost frame goes, and working is restored.
LEMMA Popped ==
  ASSUME TypeOK, FramesOK(stack, working, items, rest), stack # <<>>
  PROVE  /\ FramesOK(Below, Restored(Top), items, rest)
         /\ Len(Below) = Depth - 1 /\ Depth \in Nat \ {0}
         /\ Top \in Frame /\ Top.iter \in items
         /\ Top.due = Ahead(Top.iter, Top.type)
         /\ \A p \in Items : working[p] /\ p # Top.iter => Restored(Top)[p]
<1>1. stack \in Seq(Frame) /\ Depth \in Nat \ {0} /\ Top \in Frame
  BY DEF TypeOK, Depth, Top
<1>2. Below \in Seq(Frame) /\ Len(Below) = Depth - 1
      /\ \A i \in 1..(Depth - 1) : Below[i] = stack[i]
  <2>1. Depth - 1 \in Nat /\ Depth = Len(stack)
    BY <1>1 DEF Depth
  <2>2. Below = [i \in 1..(Depth - 1) |-> stack[i]]
    BY <1>1, <2>1 DEF Below
  <2>3. \A i \in 1..(Depth - 1) : stack[i] \in Frame
    BY <1>1, <2>1
  <2> QED
    BY <2>1, <2>2, <2>3
<1>3. Restored(Top) \in [Items -> BOOLEAN]
  BY <1>1 DEF Restored, TypeOK, Frame
<1>4. Top.iter \in items /\ Top.due = Ahead(Top.iter, Top.type)
  BY <1>1 DEF FramesOK, Top, Depth, Ahead
<1>5. \A i \in 1..Len(Below) : Below[i].iter \in items
  BY <1>1, <1>2 DEF FramesOK, Depth
<1>6. ASSUME NEW p \in Items
      PROVE  Restored(Top)[p] <=> \E i \in 1..Len(Below) : Below[i].iter = p
  <2>1. working[p] <=> \E i \in 1..Depth : stack[i].iter = p
    BY DEF FramesOK, Depth
  <2>2. Top.is_working <=> \E j \in 1..(Depth - 1) : stack[j].iter = Top.iter
    BY <1>1 DEF FramesOK, Depth, Top
  <2>3. (\E i \in 1..Len(Below) : Below[i].iter = p) <=> \E i \in 1..(Depth - 1) : stack[i].iter = p
    BY <1>2
  <2>4. CASE p # Top.iter
    <3>1. Restored(Top)[p] = working[p]
      BY <1>1, <2>4 DEF Restored, TypeOK, Frame
    <3>2. \A i \in 1..Depth : stack[i].iter = p => i \in 1..(Depth - 1)
      BY <1>1, <2>4 DEF Top
    <3> QED
      BY <3>1, <3>2, <2>1, <2>3, <1>1
  <2>5. CASE p = Top.iter
    <3>1. working[p]
      BY <1>1, <2>1, <2>5 DEF Top
    <3>2. Restored(Top)[p] = Top.is_working
      BY <1>1, <2>5, <3>1 DEF Restored, TypeOK, Frame
    <3> QED
      BY <3>2, <2>2, <2>3, <2>5
  <2> QED
    BY <2>4, <2>5
<1>7. \A i \in 1..Len(Below) :
        Below[i].is_working <=> \E j \in 1..(i - 1) : Below[j].iter = Below[i].iter
  <2>1. \A i \in 1..Len(Below) : i \in 1..Len(stack) /\ \A j \in 1..(i - 1) : j \in 1..(Depth - 1)
    BY <1>1, <1>2 DEF Depth
  <2> QED
    BY <2>1, <1>1, <1>2, SMTT(30) DEF FramesOK
<1>8. \A i \in 1..Len(Below) : Below[i].due = {q \in rest[Below[i].iter] : type[q] = Below[i].type}
  BY <1>1, <1>2 DEF FramesOK, Depth
<1>9. FramesOK(Below, Restored(Top), items, rest)
  BY <1>2, <1>3, <1>5, <1>6, <1>7, <1>8 DEF FramesOK
<1>10. \A p \in Items : working[p] /\ p # Top.iter => Restored(Top)[p]
  BY <1>1 DEF Restored, TypeOK, Frame
<1> QED
  BY <1>1, <1>2, <1>4, <1>9, <1>10

\* A handler is called: the item of the new frame is working.
LEMMA Pushed ==
  ASSUME NEW st, NEW w, NEW it \in SUBSET Items, NEW r, FramesOK(st, w, it, r),
         NEW f \in Frame, f.iter \in it, f.is_working = w[f.iter],
         f.due = {q \in r[f.iter] : type[q] = f.type}
  PROVE  /\ FramesOK(Append(st, f), [w EXCEPT ![f.iter] = TRUE], it, r)
         /\ Len(Append(st, f)) = Len(st) + 1
<1> DEFINE st2 == Append(st, f)
           w2 == [w EXCEPT ![f.iter] = TRUE]
<1>1. st \in Seq(Frame) /\ Len(st) \in Nat /\ w \in [Items -> BOOLEAN]
  BY DEF FramesOK
<1>2. st2 \in Seq(Frame) /\ Len(st2) = Len(st) + 1 /\ st2[Len(st) + 1] = f
      /\ \A i \in 1..Len(st) : st2[i] = st[i]
  BY <1>1
<1>3. w2 \in [Items -> BOOLEAN] /\ w2[f.iter] /\ \A p \in Items : p # f.iter => w2[p] = w[p]
  BY <1>1
<1>4. \A i \in 1..Len(st2) : i \in 1..Len(st) \/ i = Len(st) + 1
  BY <1>1, <1>2
<1> HIDE DEF st2, w2
<1>5. \A i \in 1..Len(st2) : st2[i].iter \in it
  BY <1>2, <1>4 DEF FramesOK
<1>6. ASSUME NEW p \in Items
      PROVE  w2[p] <=> \E i \in 1..Len(st2) : st2[i].iter = p
  <2>1. CASE p = f.iter
    <3>1. Len(st) + 1 \in 1..Len(st2)
      BY <1>1, <1>2
    <3> QED
      BY <2>1, <1>2, <1>3, <3>1
  <2>2. CASE p # f.iter
    <3>1. w2[p] = w[p]
      BY <1>3, <2>2
    <3>2. w[p] <=> \E i \in 1..Len(st) : st[i].iter = p
      BY DEF FramesOK
    <3>3. \A i \in 1..Len(st) : i \in 1..Len(st2)
      BY <1>1, <1>2
    <3> QED
      BY <3>1, <3>2, <3>3, <2>2, <1>2, <1>4
  <2> QED
    BY <2>1, <2>2
<1>7. ASSUME NEW i \in 1..Len(st2)
      PROVE  st2[i].is_working <=> \E j \in 1..(i - 1) : st2[j].iter = st2[i].iter
  <2>1. CASE i \in 1..Len(st)
    <3>1. \A j \in 1..(i - 1) : j \in 1..Len(st)
      BY <1>1, <2>1
    <3> QED
      BY <3>1, <2>1, <1>2, SMTT(30) DEF FramesOK
  <2>2. CASE i = Len(st) + 1
    <3>1. i - 1 = Len(st)
      BY <1>1, <2>2
    <3>2. f.is_working <=> \E j \in 1..Len(st) : st[j].iter = f.iter
      BY DEF FramesOK
    <3> QED
      BY <3>1, <3>2, <2>2, <1>2
  <2> QED
    BY <2>1, <2>2, <1>4
<1>8. \A i \in 1..Len(st2) : st2[i].due = {q \in r[st2[i].iter] : type[q] = st2[i].type}
  BY <1>2, <1>4 DEF FramesOK
<1>9. FramesOK(st2, w2, it, r)
  BY <1>2, <1>3, <1>5, <1>6, <1>7, <1>8 DEF FramesOK
<1> QED
  BY <1>2, <1>9 DEF st2, w2

\* Items that no frame has are freed.
LEMMA Forgotten ==
  ASSUME TypeOK, NEW st, NEW w, FramesOK(st, w, items, rest), NEW S \in SUBSET Items,
         \A p \in S : ~w[p], Unlink(S)
  PROVE  FramesOK(Forget(st, S), w, items', rest') /\ Len(Forget(st, S)) = Len(st)
<1> DEFINE st2 == Forget(st, S)
<1>1. st \in Seq(Frame) /\ Len(st) \in Nat /\ DOMAIN st = 1..Len(st)
  BY DEF FramesOK
<1>2. \A i \in 1..Len(st) : st[i] \in Frame /\ st[i].iter \in items /\ st[i].iter \in Items /\ st[i].iter \notin S
  BY <1>1 DEF FramesOK, TypeOK
<1>3. st2 = [i \in 1..Len(st) |-> [st[i] EXCEPT !.due = @ \ S]]
  BY <1>1 DEF Forget
<1>4. \A i \in 1..Len(st) : [st[i] EXCEPT !.due = @ \ S] \in Frame
  BY <1>2 DEF Frame
<1>5. st2 \in Seq(Frame) /\ Len(st2) = Len(st)
  BY <1>1, <1>3, <1>4
<1>6. \A i \in 1..Len(st) : /\ st2[i].iter = st[i].iter
                            /\ st2[i].type = st[i].type
                            /\ st2[i].is_working = st[i].is_working
                            /\ st2[i].due = st[i].due \ S
  BY <1>2, <1>3 DEF Frame
<1> HIDE DEF st2
<1>7. \A i \in 1..Len(st2) : st2[i].iter \in items'
  BY <1>2, <1>5, <1>6 DEF Unlink
<1>8. \A p \in Items : w[p] <=> \E i \in 1..Len(st2) : st2[i].iter = p
  BY <1>5, <1>6 DEF FramesOK
<1>9. ASSUME NEW i \in 1..Len(st2)
      PROVE  st2[i].is_working <=> \E j \in 1..(i - 1) : st2[j].iter = st2[i].iter
  <2>1. \A j \in 1..(i - 1) : j \in 1..Len(st)
    BY <1>1, <1>5
  <2> QED
    BY <2>1, <1>5, <1>6 DEF FramesOK
<1>10. ASSUME NEW i \in 1..Len(st2)
       PROVE  st2[i].due = {q \in rest'[st2[i].iter] : type[q] = st2[i].type}
  <2>1. st[i].due = {q \in rest[st[i].iter] : type[q] = st[i].type}
    BY <1>5 DEF FramesOK
  <2>2. rest'[st[i].iter] = rest[st[i].iter] \ S
    BY <1>2, <1>5 DEF Unlink
  <2>3. st2[i].due = st[i].due \ S /\ st2[i].iter = st[i].iter /\ st2[i].type = st[i].type
    BY <1>5, <1>6
  <2> QED
    BY <2>1, <2>2, <2>3
<1>11. w \in [Items -> BOOLEAN]
  BY DEF FramesOK
<1>12. FramesOK(st2, w, items', rest')
  BY <1>5, <1>7, <1>8, <1>9, <1>10, <1>11 DEF FramesOK
<1> QED
  BY <1>5, <1>12 DEF st2

\* The dispatch of frame f goes on over the frames st, after the items D, at most
\* the one f was at, have been unlinked.
LEMMA WalkedOn ==
  ASSUME TypeOK, ListOrder, NEW st, NEW w, NEW f \in Frame, f.iter \in items,
         f.due = Ahead(f.iter, f.type), NEW D \in SUBSET {f.iter}, Unlink(D),
         FramesOK(st, w, items', rest'), WalkOn(st, f, w), type' = type
  PROVE  /\ FramesOK(stack, working, items, rest)'
         /\ Len(stack') \in Len(st)..(Len(st) + 1) /\ Len(st) \in Nat
         /\ \A p \in Items : w[p] => working'[p]
<1> DEFINE S == Ahead(f.iter, f.type)
<1>1. st \in Seq(Frame) /\ Len(st) \in Nat /\ w \in [Items -> BOOLEAN]
  BY DEF FramesOK
<1>2. CASE S = {}
  <2>1. stack' = st /\ working' = w
    BY <1>2 DEF WalkOn
  <2> QED
    BY <2>1, <1>1, SMTT(30) DEF FramesOK
<1>3. CASE S # {}
  <2> DEFINE p == Foremost(S)
             g == [type |-> f.type, iter |-> p, is_working |-> w[p], due |-> f.due \ {p}]
  <2>1. S \subseteq rest[f.iter] /\ S \subseteq items /\ items \subseteq Items
    BY DEF ListOrder, Ahead, TypeOK
  <2>2. p \in S /\ S \subseteq rest[p] \cup {p}
    BY <2>1, <1>3, ForemostIsFirst
  <2>3. stack' = Append(st, g) /\ working' = [w EXCEPT ![p] = TRUE]
    BY <1>3 DEF WalkOn, Call
  <2>4. p \in items /\ p # f.iter /\ p \in items' /\ items' \subseteq Items
    BY <2>1, <2>2 DEF ListOrder, Unlink
  <2>5. g \in Frame
    BY <2>4, <2>1, <1>1 DEF Frame, Ahead
  <2>6. f.due \ {p} = {q \in rest'[p] : type[q] = f.type}
    <3>1. rest[p] \subseteq rest[f.iter] /\ p \notin rest[p] /\ f.iter \notin rest[f.iter]
      BY <2>1, <2>2 DEF ListOrder
    <3>2. rest'[p] = rest[p] \ D
      BY <2>4, <2>1 DEF Unlink
    <3>3. rest'[p] = rest[p]
      BY <3>1, <3>2
    <3>4. f.due = {q \in rest[f.iter] : type[q] = f.type}
      BY DEF Ahead
    <3> QED
      BY <3>1, <3>3, <3>4, <2>2
  <2> HIDE DEF p
  <2>7. g.iter = p /\ g.is_working = w[p] /\ g.due = f.due \ {p} /\ g.type = f.type
    OBVIOUS
  <2> HIDE DEF g
  <2>8. FramesOK(Append(st, g), [w EXCEPT ![g.iter] = TRUE], items', rest') /\ Len(Append(st, g)) = Len(st) + 1
    BY <2>4, <2>5, <2>6, <2>7, Pushed
  <2>9. FramesOK(stack', working', items', rest') /\ Len(stack') = Len(st) + 1
    BY <2>8, <2>3, <2>7
  <2>10. \A q \in Items : w[q] => working'[q]
    BY <2>3, <1>1
  <2> QED
    BY <2>9, <2>10, <1>1 DEF FramesOK
<1> QED
  BY <1>2, <1>3

\* emitter_remove, when the frames are st.
LEMMA Removed ==
  ASSUME TypeOK, ListOrder, NEW st, NEW w, FramesOK(st, w, items, rest),
         NEW S \in SUBSET items, \A p \in Items \ S : pending_remove[p] => w[p],
         Remove(S, w, st), type' = type
  PROVE  /\ ListOrder' /\ FramesOK(stack, working, items, rest)' /\ PutOff'
         /\ items' \subseteq Items /\ rest' \in [Items -> SUBSET Items]
         /\ pending_remove' \in [Items -> BOOLEAN]
         /\ Len(stack') = Len(st)
<1> DEFINE freed == {p \in S : ~w[p]}
<1>1. freed \in SUBSET Items /\ w \in [Items -> BOOLEAN]
  BY DEF TypeOK, FramesOK
<1>2. Unlink(freed) /\ stack' = Forget(st, freed)
      /\ working' = [p \in Items |-> w[p] /\ p \notin freed]
      /\ pending_remove' = [p \in Items |-> IF p \in S THEN p \notin freed ELSE pending_remove[p]]
  BY DEF Remove
<1>3. working' = w
  BY <1>1, <1>2
<1>4. FramesOK(Forget(st, freed), w, items', rest') /\ Len(Forget(st, freed)) = Len(st)
  BY <1>1, <1>2, Forgotten
<1>5. \A p \in S : (p \notin freed) => w[p]
  BY <1>1
<1> HIDE DEF freed
<1>6. FramesOK(stack, working, items, rest)'
  <2>1. FramesOK(stack', working', items', rest')
    BY <1>2, <1>3, <1>4
  <2> QED
    BY <2>1 DEF FramesOK
<1>7. ListOrder' /\ items' \subseteq Items /\ rest' \in [Items -> SUBSET Items]
  BY <1>2, UnlinkKeepsOrder
<1>8. pending_remove' \in [Items -> BOOLEAN]
  BY <1>2 DEF TypeOK
<1>9. PutOff'
  <2> SUFFICES ASSUME NEW p \in Items, pending_remove'[p]
               PROVE  w[p]
    BY <1>3 DEF PutOff
  <2>1. CASE p \in S
    BY <2>1, <1>2, <1>5
  <2>2. CASE p \notin S
    BY <2>2, <1>2
  <2> QED
    BY <2>1, <2>2
<1> QED
  BY <1>2, <1>4, <1>6, <1>7, <1>8, <1>9

-----------------------------------------------------------------------------
(* The steps. *)

\* In the initial state the list is empty.
LEMMA InitIInv == Init => IInv
<1> SUFFICES ASSUME Init PROVE IInv
  OBVIOUS
<1>1. TypeOK
  BY BoundsAssumption DEF Init, TypeOK
<1>2. ListOrder
  BY DEF Init, ListOrder
<1>3. FramesOK(stack, working, items, rest)
  BY DEF Init, FramesOK
<1> QED
  BY <1>1, <1>2, <1>3 DEF IInv, PutOff, Init

\* emitter_on
LEMMA OnStep ==
  ASSUME IInv, NEW p \in Items, NEW ty \in Types, NEW tg \in Tags, On(p, ty, tg)
  PROVE  IInv'
<1> USE DEF On
<1>1. TypeOK'
  BY DEF IInv, TypeOK
<1>2. \A q \in Items : rest'[q] = IF q = p THEN items ELSE rest[q]
  BY DEF IInv, TypeOK
<1>3. items' = items \cup {p} /\ items' \subseteq Items
  BY DEF IInv, TypeOK
<1>4. \A q \in items' : rest'[q] \subseteq items' /\ q \notin rest'[q]
  BY <1>2, <1>3 DEF IInv, ListOrder
<1>5. \A q, r \in items' : r \in rest'[q] => rest'[r] \subseteq rest'[q]
  BY <1>2, <1>3 DEF IInv, ListOrder
<1>6. ASSUME NEW S \in SUBSET items', S # {}
      PROVE  \E q \in S : S \subseteq rest'[q] \cup {q}
  <2>1. CASE p \in S
    BY <2>1, <1>2, <1>3
  <2>2. CASE p \notin S
    <3>1. PICK q \in S : S \subseteq rest[q] \cup {q}
      BY <2>2, <1>3, <1>6 DEF IInv, ListOrder
    <3> QED
      BY <3>1, <2>2, <1>2, <1>3
  <2> QED
    BY <2>1, <2>2
<1>7. ListOrder'
  BY <1>4, <1>5, <1>6 DEF ListOrder
<1>8. ASSUME NEW i \in 1..Len(stack)
      PROVE  stack[i].due = {q \in rest'[stack[i].iter] : type'[q] = stack[i].type}
  <2>1. stack[i].iter \in items /\ stack[i].due = {q \in rest[stack[i].iter] : type[q] = stack[i].type}
    BY DEF IInv, FramesOK
  <2>2. rest'[stack[i].iter] = rest[stack[i].iter] /\ rest[stack[i].iter] \subseteq items
    BY <2>1, <1>2, <1>3 DEF IInv, ListOrder
  <2>3. \A q \in items : type'[q] = type[q]
    BY <1>3 DEF IInv, TypeOK
  <2> QED
    BY <2>1, <2>2, <2>3
<1>9. FramesOK(stack, working, items, rest)'
  <2>1. stack' = stack /\ working' = working /\ items \subseteq items'
    OBVIOUS
  <2> QED
    BY <2>1, <1>8 DEF IInv, FramesOK
<1> QED
  BY <1>1, <1>7, <1>9 DEF IInv, PutOff

\* emitter_off and the bulk removals
LEMMA OffStep ==
  ASSUME IInv, NEW S \in SUBSET items, Remove(S, working, stack), UNCHANGED <<type, tag, disable>>
  PROVE  IInv'
<1>1. TypeOK /\ ListOrder /\ FramesOK(stack, working, items, rest) /\ type' = type
  BY DEF IInv
<1>2. \A p \in Items \ S : pending_remove[p] => working[p]
  BY DEF IInv, PutOff
<1>3. /\ ListOrder' /\ FramesOK(stack, working, items, rest)' /\ PutOff'
      /\ items' \subseteq Items /\ rest' \in [Items -> SUBSET Items]
      /\ pending_remove' \in [Items -> BOOLEAN]
      /\ Len(stack') = Len(stack)
  BY <1>1, <1>2, Removed
<1>4. TypeOK'
  BY <1>3, <1>1 DEF TypeOK, FramesOK
<1> QED
  BY <1>3, <1>4 DEF IInv

\* emitter_dispatch up to the first handler
LEMMA DispatchStep ==
  ASSUME IInv, NEW ty \in Types, Dispatch(ty)
  PROVE  IInv'
<1> DEFINE S == {p \in items : type[p] = ty}
           p == Foremost(S)
           g == [type |-> ty, iter |-> p, is_working |-> working[p], due |-> S \ {p}]
<1>1. TypeOK /\ ListOrder /\ FramesOK(stack, working, items, rest)
  BY DEF IInv
<1>2. p \in S /\ S \subseteq rest[p] \cup {p}
  BY <1>1, ForemostIsFirst DEF Dispatch
<1>3. stack' = Append(stack, g) /\ working' = [working EXCEPT ![p] = TRUE]
      /\ items' = items /\ rest' = rest /\ type' = type /\ tag' = tag
      /\ pending_remove' = pending_remove /\ disable' = disable /\ Len(stack) < MaxDepth
  BY DEF Dispatch, Call, Depth
<1>4. p \in items /\ p \in Items /\ items \in SUBSET Items
  BY <1>1, <1>2 DEF TypeOK
<1>5. g \in Frame
  BY <1>1, <1>4 DEF TypeOK, Frame
<1>6. S \ {p} = {q \in rest[p] : type[q] = ty}
  BY <1>1, <1>2 DEF ListOrder
<1> HIDE DEF p
<1>7. g.iter = p /\ g.is_working = working[p] /\ g.due = S \ {p} /\ g.type = ty
  OBVIOUS
<1> HIDE DEF g
<1>8. FramesOK(Append(stack, g), [working EXCEPT ![g.iter] = TRUE], items, rest)
      /\ Len(Append(stack, g)) = Len(stack) + 1
  BY <1>1, <1>4, <1>5, <1>6, <1>7, Pushed
<1>9. FramesOK(stack, working, items, rest)' /\ Len(stack') = Len(stack) + 1
  BY <1>8, <1>7, <1>3 DEF FramesOK
<1>10. TypeOK'
  <2>1. Len(stack') <= MaxDepth
    BY <1>9, <1>3, <1>1, BoundsAssumption DEF TypeOK
  <2> QED
    BY <2>1, <1>9, <1>3, <1>1 DEF TypeOK, FramesOK
<1>11. ListOrder'
  BY <1>3, <1>1 DEF ListOrder
<1>12. PutOff'
  BY <1>3, <1>1 DEF IInv, PutOff, TypeOK
<1> QED
  BY <1>9, <1>10, <1>11, <1>12 DEF IInv

\* A handler returns RET_STOP.
LEMMA ReturnStopStep ==
  ASSUME IInv, ReturnStop
  PROVE  IInv'
<1>1. TypeOK /\ ListOrder /\ FramesOK(stack, working, items, rest) /\ stack # <<>>
      /\ UNCHANGED <<type, tag, disable>>
  BY DEF IInv, ReturnStop
<1>2. /\ FramesOK(Below, Restored(Top), items, rest)
      /\ Len(Below) = Depth - 1 /\ Depth \in Nat \ {0}
      /\ Top \in Frame /\ Top.iter \in items
      /\ Top.due = Ahead(Top.iter, Top.type)
      /\ \A p \in Items : working[p] /\ p # Top.iter => Restored(Top)[p]
  BY <1>1, Popped
<1>3. Depth <= MaxDepth
  BY <1>1 DEF TypeOK, Depth
<1>4. CASE pending_remove[Top.iter]
  <2>1. Remove({Top.iter}, Restored(Top), Below)
    BY <1>4 DEF ReturnStop
  <2>2. \A p \in Items \ {Top.iter} : pending_remove[p] => Restored(Top)[p]
    BY <1>2 DEF IInv, PutOff
  <2>3. /\ ListOrder' /\ FramesOK(stack, working, items, rest)' /\ PutOff'
        /\ items' \subseteq Items /\ rest' \in [Items -> SUBSET Items]
        /\ pending_remove' \in [Items -> BOOLEAN]
        /\ Len(stack') = Len(Below)
    BY <2>1, <2>2, <1>1, <1>2, Removed
  <2>4. Len(stack') <= MaxDepth
    BY <2>3, <1>2, <1>3, BoundsAssumption
  <2>5. TypeOK'
    BY <2>3, <2>4, <1>1 DEF TypeOK, FramesOK
  <2> QED
    BY <2>3, <2>5 DEF IInv
<1>5. CASE ~pending_remove[Top.iter]
  <2>1. stack' = Below /\ working' = Restored(Top) /\ UNCHANGED <<items, rest, pending_remove>>
    BY <1>5 DEF ReturnStop
  <2>2. FramesOK(stack, working, items, rest)' /\ ListOrder'
    BY <2>1, <1>1, <1>2, SMTT(30) DEF FramesOK, ListOrder
  <2>3. PutOff'
    BY <2>1, <1>2, <1>5 DEF IInv, PutOff
  <2>4. Len(stack') <= MaxDepth
    BY <2>1, <1>2, <1>3, BoundsAssumption
  <2>5. TypeOK'
    BY <2>1, <2>2, <2>4, <1>1 DEF TypeOK, FramesOK
  <2> QED
    BY <2>2, <2>3, <2>5 DEF IInv
<1> QED
  BY <1>4, <1>5

\* A handler returns, and its item stays.
LEMMA ReturnOkStep ==
  ASSUME IInv, ReturnOk
  PROVE  IInv'
<1>1. TypeOK /\ ListOrder /\ FramesOK(stack, working, items, rest) /\ stack # <<>>
      /\ UNCHANGED <<items, rest, type, tag, pending_remove, disable>>
      /\ ~pending_remove[Top.iter] /\ WalkOn(Below, Top, Restored(Top))
  BY DEF IInv, ReturnOk
<1>2. /\ FramesOK(Below, Restored(Top), items, rest)
      /\ Len(Below) = Depth - 1 /\ Depth \in Nat \ {0}
      /\ Top \in Frame /\ Top.iter \in items
      /\ Top.due = Ahead(Top.iter, Top.type)
      /\ \A p \in Items : working[p] /\ p # Top.iter => Restored(Top)[p]
  BY <1>1, Popped
<1>3. Unlink({}) /\ {} \in SUBSET {Top.iter} /\ type' = type
  BY <1>1 DEF Unlink, TypeOK
<1>4. FramesOK(Below, Restored(Top), items', rest')
  BY <1>1, <1>2
<1>5. /\ FramesOK(stack, working, items, rest)'
      /\ Len(stack') \in Len(Below)..(Len(Below) + 1) /\ Len(Below) \in Nat
      /\ \A p \in Items : Restored(Top)[p] => working'[p]
  BY <1>1, <1>2, <1>3, <1>4, WalkedOn
<1>6. Len(stack') <= MaxDepth
  BY <1>5, <1>2, <1>1, BoundsAssumption DEF TypeOK, Depth
<1>7. TypeOK'
  BY <1>1, <1>5, <1>6 DEF TypeOK, FramesOK
<1>8. PutOff'
  BY <1>1, <1>2, <1>5 DEF IInv, PutOff
<1>9. ListOrder'
  BY <1>1 DEF ListOrder
<1> QED
  BY <1>5, <1>7, <1>8, <1>9 DEF IInv

\* A handler returns and its item goes, at once or later.
LEMMA ReturnRemoveStep ==
  ASSUME IInv, NEW ret, ReturnRemove(ret)
  PROVE  IInv'
<1> DEFINE p == Top.iter
           w == Restored(Top)
           D == IF ~w[p] THEN {p} ELSE {}
           st == IF ~w[p] THEN Forget(Below, {p}) ELSE Below
<1>1. TypeOK /\ ListOrder /\ FramesOK(stack, working, items, rest) /\ stack # <<>>
      /\ UNCHANGED <<type, tag, disable>>
      /\ Unlink(D) /\ pending_remove' = [pending_remove EXCEPT ![p] = ~ ~w[p]]
      /\ WalkOn(st, Top, w)
  BY DEF IInv, ReturnRemove
<1>2. /\ FramesOK(Below, w, items, rest)
      /\ Len(Below) = Depth - 1 /\ Depth \in Nat \ {0}
      /\ Top \in Frame /\ p \in items /\ p \in Items
      /\ Top.due = Ahead(Top.iter, Top.type)
      /\ \A q \in Items : working[q] /\ q # p => w[q]
  BY <1>1, Popped DEF TypeOK
<1>3. w \in [Items -> BOOLEAN]
  BY <1>2 DEF FramesOK
<1>4. FramesOK(st, w, items', rest') /\ Len(st) = Depth - 1
  <2>1. CASE w[p]
    <3>1. st = Below /\ items' = items /\ rest' = rest
      BY <2>1, <1>1 DEF Unlink, TypeOK
    <3> QED
      BY <3>1, <1>2
  <2>2. CASE ~w[p]
    <3>1. st = Forget(Below, {p}) /\ Unlink({p}) /\ {p} \in SUBSET Items /\ \A q \in {p} : ~w[q]
      BY <2>2, <1>1, <1>2
    <3>2. FramesOK(Forget(Below, {p}), w, items', rest') /\ Len(Forget(Below, {p})) = Len(Below)
      BY <3>1, <1>1, <1>2, Forgotten
    <3> QED
      BY <3>1, <3>2, <1>2
  <2> QED
    BY <2>1, <2>2
<1>5. D \in SUBSET {Top.iter}
  OBVIOUS
<1> HIDE DEF w, D, st, p
<1>6. /\ FramesOK(stack, working, items, rest)'
      /\ Len(stack') \in Len(st)..(Len(st) + 1) /\ Len(st) \in Nat
      /\ \A q \in Items : w[q] => working'[q]
  BY <1>1, <1>2, <1>4, <1>5, WalkedOn DEF p
<1>7. Len(stack') <= MaxDepth
  BY <1>6, <1>4, <1>2, <1>1, BoundsAssumption DEF TypeOK, Depth
<1>8. ListOrder' /\ items' \subseteq Items /\ rest' \in [Items -> SUBSET Items]
  BY <1>1, UnlinkKeepsOrder
<1>9. PutOff'
  BY <1>1, <1>2, <1>3, <1>6 DEF IInv, PutOff, TypeOK
<1>10. TypeOK'
  BY <1>1, <1>2, <1>3, <1>6, <1>7, <1>8 DEF TypeOK, FramesOK
<1> QED
  BY <1>6, <1>8, <1>9, <1>10 DEF IInv

\* emitter_deinit
LEMMA DeinitStep ==
  ASSUME IInv, Deinit
  PROVE  IInv'
<1>1. Unlink(items) /\ stack = <<>> /\ stack' = <<>>
      /\ pending_remove' = [p \in Items |-> FALSE] /\ UNCHANGED <<type, tag, working, disable>>
  BY DEF Deinit
<1>2. ListOrder' /\ items' \subseteq Items /\ rest' \in [Items -> SUBSET Items]
  BY <1>1, UnlinkKeepsOrder DEF IInv
<1>3. TypeOK'
  BY <1>1, <1>2 DEF IInv, TypeOK
<1>4. FramesOK(stack, working, items, rest)'
  BY <1>1 DEF IInv, FramesOK
<1> QED
  BY <1>1, <1>2, <1>3, <1>4 DEF IInv, PutOff

\* Every step keeps the invariant.
LEMMA NextIInv == IInv /\ [Next]_vars => IInv'
<1> SUFFICES ASSUME IInv, [Next]_vars PROVE IInv'
  OBVIOUS
<1>1. ASSUME NEW p \in Items, NEW ty \in Types, NEW tg \in Tags, On(p, ty, tg)
      PROVE  IInv'
  BY <1>1, OnStep
<1>2. ASSUME NEW p \in Items, Off(p)
      PROVE  IInv'
  BY <1>2, OffStep DEF Off
<1>3. ASSUME NEW tg \in Tags, OffBy(tg)
      PROVE  IInv'
  <2> DEFINE S == {p \in items : ~pending_remove[p] /\ tag[p] = tg}
  <2>1. S \in SUBSET items /\ Remove(S, working, stack) /\ UNCHANGED <<type, tag, disable>>
    BY <1>3 DEF OffBy
  <2> HIDE DEF S
  <2> QED
    BY <2>1, OffStep
<1>4. ASSUME NEW ty \in Types, Dispatch(ty)
      PROVE  IInv'
  BY <1>4, DispatchStep
<1>5. CASE Enable \/ Disable
  <2>1. disable' \in 0..MaxDisable
    BY <1>5, BoundsAssumption DEF Enable, Disable, IInv, TypeOK
  <2>2. UNCHANGED <<items, rest, type, tag, working, pending_remove, stack>>
    BY <1>5 DEF Enable, Disable
  <2> QED
    BY <2>1, <2>2 DEF IInv, TypeOK, ListOrder, FramesOK, PutOff
<1>6. CASE ReturnStop
  BY <1>6, ReturnStopStep
<1>7. CASE ReturnOk
  BY <1>7, ReturnOkStep
<1>8. ASSUME NEW ret, ReturnRemove(ret)
      PROVE  IInv'
  BY <1>8, ReturnRemoveStep
<1>9. CASE Deinit
  BY <1>9, DeinitStep
<1>10. CASE UNCHANGED vars
  BY <1>10 DEF vars, IInv, TypeOK, ListOrder, FramesOK, PutOff
<1> QED
  BY <1>1, <1>2, <1>3, <1>4, <1>5, <1>6, <1>7, <1>8, <1>9, <1>10 DEF Next

-----------------------------------------------------------------------------
(* The theorems. *)

\* The inductive invariant holds always.
LEMMA Invariance == Spec => []IInv
<1> QED
  BY InitIInv, NextIInv, PTL DEF Spec

\* Type correctness.
THEOREM TypeCorrect == Spec => []TypeOK
<1>1. IInv => TypeOK
  BY DEF IInv
<1> QED
  BY <1>1, Invariance, PTL

\* What emitter_dispatch reads of iter after the handler has returned is memory
\* of an item in the list, whatever handlers do at any depth.
THEOREM FramesAreInTheList == Spec => []NoDanglingFrame
<1>1. IInv => NoDanglingFrame
  BY DEF IInv, FramesOK, NoDanglingFrame, Depth
<1> QED
  BY <1>1, Invariance, PTL

\* A removal that was put off, and a working flag, has a frame that will carry it
\* out, or clear it.
THEOREM PutOffRemovalsHaveFrames == Spec => []PendingHasFrame
<1>1. IInv => PendingHasFrame
  BY DEF IInv, FramesOK, PutOff, PendingHasFrame, Depth
<1> QED
  BY <1>1, Invariance, PTL

\* A dispatch still owes a call to exactly the items of its type ahead of it.
THEOREM DispatchesAreExact == Spec => []DispatchIsExact
<1>1. IInv => DispatchIsExact
  BY DEF IInv, FramesOK, DispatchIsExact, Depth, Ahead
<1> QED
  BY <1>1, Invariance, PTL

=============================================================================
