------------------------ MODULE EventSources_proofs ------------------------
(***************************************************************************)
(* For any event sources and any nesting of main loops: the references of  *)
(* a source are those of the two arrays, a source is freed while its       *)
(* dispatch runs only if it is removed and a dispatch inside its own has   *)
(* ended, and outside of nested loops no source with a descriptor is       *)
(* called without data.                                                    *)
(*                                                                         *)
(* The argument: a source whose dispatch runs is in dispatching_sources    *)
(* until a dispatch inside it ends and clears the array (NestOK); from     *)
(* then on only the array of sources keeps it.  The outermost dispatch     *)
(* walks over a copy that has each source once, and data that select has   *)
(* found is read by that source's own call or by a nested dispatch, after  *)
(* which there is nothing left to walk over (WalkOK).  That the references *)
(* are right (ArraysOK) rests on neither.                                  *)
(***************************************************************************)
EXTENDS EventSources, FiniteSetTheorems, WellFoundedInduction, TLAPS

-----------------------------------------------------------------------------
(* The least number of a set.                                              *)

\* The walk goes on with the first of the candidates.
LEMMA FirstOfIsIn ==
  ASSUME NEW S \in SUBSET Nat, S # {}
  PROVE  FirstOf(S) \in S /\ \A j \in S : FirstOf(S) <= j
<1> DEFINE Less == {ss \in Nat \X Nat : ss[1] < ss[2]}
<1>1. IsWellFoundedOn(Less, Nat)
  BY NatLessThanWellFounded DEF OpToRel
<1> HIDE DEF Less
<1>2. PICK i \in S : \A j \in S : <<j, i>> \notin Less
  BY <1>1, WFMin
<1>3. ASSUME NEW j \in S PROVE i <= j
  <2>1. i \in Nat /\ j \in Nat /\ <<j, i>> \in Nat \X Nat
    OBVIOUS
  <2>2. ~(j < i)
    BY <1>2, <2>1 DEF Less
  <2> QED
    BY <2>1, <2>2
<1> QED
  BY <1>3 DEF FirstOf

-----------------------------------------------------------------------------
(* Recursive functions on an initial part of Nat.                          *)

\* A property that is handed on from each number to the next holds up to n.
\* (The set B is where it fails.)
LEMMA NoFirstFailure ==
  ASSUME NEW n \in Nat, NEW B \in SUBSET (0..n), 0 \notin B,
         \A i \in 1..n : i - 1 \notin B => i \notin B
  PROVE  B = {}
<1> SUFFICES ASSUME B # {} PROVE FALSE
  OBVIOUS
<1>1. B \in SUBSET Nat
  OBVIOUS
<1>2. PICK m \in B : \A j \in B : m <= j
  BY <1>1, FirstOfIsIn
<1>3. m \in 1..n
  BY <1>2
<1>4. m - 1 \notin B
  BY <1>2, <1>3
<1> QED
  BY <1>3, <1>4

\* f is defined by recursion: a is its first value, and step gives the next one.
Follows(f, a, n, step) == f[0] = a /\ \A i \in 1..n : f[i] = step[<<i, f[i - 1]>>]

\* Such a function exists.
LEMMA RecursionExists ==
  ASSUME NEW V, NEW a \in V, NEW n \in Nat, NEW step \in [(1..n) \X V -> V]
  PROVE  \E f \in [0..n -> V] : Follows(f, a, n, step)
<1> DEFINE B == {k \in 0..n : ~\E f \in [0..n -> V] : Follows(f, a, k, step)}
<1>1. 0 \notin B
  <2>1. [i \in 0..n |-> a] \in [0..n -> V] /\ Follows([i \in 0..n |-> a], a, 0, step)
    BY DEF Follows
  <2> QED
    BY <2>1
<1>2. ASSUME NEW k \in 1..n, k - 1 \notin B PROVE k \notin B
  <2>1. k - 1 \in 0..n
    OBVIOUS
  <2>2. PICK f \in [0..n -> V] : Follows(f, a, k - 1, step)
    BY <1>2, <2>1
  <2> DEFINE g == [f EXCEPT ![k] = step[<<k, f[k - 1]>>]]
  <2>3. f[k - 1] \in V /\ step[<<k, f[k - 1]>>] \in V
    BY <2>1
  <2>4. g \in [0..n -> V]
    BY <2>3
  <2>5. \A i \in 0..n : g[i] = IF i = k THEN step[<<k, f[k - 1]>>] ELSE f[i]
    OBVIOUS
  <2> HIDE DEF g
  <2>6. g[0] = a
    BY <2>2, <2>5 DEF Follows
  <2>7. ASSUME NEW i \in 1..k PROVE g[i] = step[<<i, g[i - 1]>>]
    <3>1. i \in 0..n /\ i - 1 \in 0..n /\ i - 1 # k /\ (i # k => i \in 1..(k - 1))
      OBVIOUS
    <3> QED
      BY <2>2, <2>5, <3>1 DEF Follows
  <2> QED
    BY <2>4, <2>6, <2>7 DEF Follows
<1> HIDE DEF B
<1>3. B = {}
  <2>1. B \in SUBSET (0..n)
    BY DEF B
  <2> QED
    BY <2>1, <1>1, <1>2, NoFirstFailure
<1>4. n \in 0..n
  OBVIOUS
<1> QED
  BY <1>3, <1>4 DEF B

-----------------------------------------------------------------------------
(* Sequences without duplicates.                                           *)

Distinct(q) == \A i, j \in 1..Len(q) : i # j => q[i] # q[j]

\* An element is appended.
LEMMA AppendIs ==
  ASSUME NEW S, NEW q \in Seq(S), NEW x \in S
  PROVE  /\ Append(q, x) \in Seq(S)
         /\ Elements(Append(q, x)) = Elements(q) \cup {x}
         /\ Distinct(q) /\ x \notin Elements(q) => Distinct(Append(q, x))
<1> DEFINE r == Append(q, x)
           n == Len(q)
<1>1. /\ n \in Nat /\ r \in Seq(S) /\ Len(r) = n + 1
      /\ \A i \in 1..n : r[i] = q[i]
      /\ r[n + 1] = x
  OBVIOUS
<1> HIDE DEF r, n
<1>2. \A i \in 1..Len(r) : i \in 1..n \/ i = n + 1
  BY <1>1
<1>3. 1..n \subseteq 1..Len(r) /\ n + 1 \in 1..Len(r)
  BY <1>1
<1>4. Elements(r) = Elements(q) \cup {x}
  BY <1>1, <1>2, <1>3 DEF Elements, n
<1>5. Distinct(q) /\ x \notin Elements(q) => Distinct(r)
  BY <1>1, <1>2, <1>3 DEF Elements, Distinct, n
<1> QED
  BY <1>1, <1>4, <1>5 DEF r

\* The sequence q without the members of S.
Filter(q, S) ==
  LET kept[i \in 0..Len(q)] ==
        IF i = 0 THEN <<>> ELSE IF q[i] \in S THEN kept[i - 1] ELSE Append(kept[i - 1], q[i])
  IN  kept[Len(q)]

\* The function that Filter is defined by exists.
Filters(f, q, S) ==
  f = [i \in 0..Len(q) |->
         IF i = 0 THEN <<>> ELSE IF q[i] \in S THEN f[i - 1] ELSE Append(f[i - 1], q[i])]

LEMMA FilterStep ==
  ASSUME NEW T, NEW q \in Seq(T), NEW S
  PROVE  \E f : Filters(f, q, S)
<1> DEFINE n == Len(q)
           V == Seq(T)
           none == <<>>
           step == [p \in (1..n) \X V |-> IF q[p[1]] \in S THEN p[2] ELSE Append(p[2], q[p[1]])]
<1>1. n \in Nat /\ \A i \in 1..n : q[i] \in T
  OBVIOUS
<1>2. none \in V /\ \A s \in V : \A t \in T : Append(s, t) \in V
  OBVIOUS
<1> HIDE DEF V, none, n
<1>3. /\ step \in [(1..n) \X V -> V]
      /\ \A i \in 1..n, s \in V : step[<<i, s>>] = IF q[i] \in S THEN s ELSE Append(s, q[i])
  BY <1>1, <1>2
<1> HIDE DEF step
<1>4. PICK f \in [0..n -> V] : Follows(f, none, n, step)
  BY <1>1, <1>2, <1>3, RecursionExists
<1>5. ASSUME NEW i \in 0..n
      PROVE  f[i] = IF i = 0 THEN <<>> ELSE IF q[i] \in S THEN f[i - 1] ELSE Append(f[i - 1], q[i])
  <2>1. CASE i = 0
    BY <2>1, <1>4 DEF none, Follows
  <2>2. CASE i # 0
    <3>1. i \in 1..n /\ i - 1 \in 0..n
      BY <2>2, <1>1
    <3>2. f[i - 1] \in V
      BY <3>1
    <3> QED
      BY <2>2, <3>1, <3>2, <1>3, <1>4 DEF Follows
  <2> QED
    BY <2>1, <2>2
<1>6. f = [i \in 0..n |-> f[i]]
  OBVIOUS
<1> QED
  BY <1>5, <1>6 DEF n, Filters

\* It has the members of q that are not in S, each once if q has.
LEMMA FilterIs ==
  ASSUME NEW T, NEW q \in Seq(T), NEW S, Distinct(q)
  PROVE  /\ Filter(q, S) \in Seq(T)
         /\ Elements(Filter(q, S)) = Elements(q) \ S
         /\ Distinct(Filter(q, S))
<1> DEFINE n == Len(q)
           kept == CHOOSE f : Filters(f, q, S)
<1>1. n \in Nat /\ \A i \in 1..n : q[i] \in T
  OBVIOUS
<1>2. Filter(q, S) = kept[n]
  BY DEF Filter, Filters
<1>3. Filters(kept, q, S)
  BY FilterStep
<1> HIDE DEF kept, n
<1>4. /\ kept[0] = <<>>
      /\ \A i \in 1..n : kept[i] = IF q[i] \in S THEN kept[i - 1] ELSE Append(kept[i - 1], q[i])
  <2>1. \A i \in 0..n : kept[i] =
          IF i = 0 THEN <<>> ELSE IF q[i] \in S THEN kept[i - 1] ELSE Append(kept[i - 1], q[i])
    BY <1>3 DEF Filters, n
  <2>2. 0 \in 0..n /\ \A i \in 1..n : i \in 0..n /\ i # 0
    BY <1>1
  <2> QED
    BY <2>1, <2>2
<1> DEFINE Upto(i) == {q[j] : j \in 1..i}
           Good(i) == kept[i] \in Seq(T) /\ Elements(kept[i]) = Upto(i) \ S /\ Distinct(kept[i])
           B == {i \in 0..n : ~Good(i)}
<1>5. 0 \notin B
  <2>1. kept[0] \in Seq(T) /\ Len(kept[0]) = 0
    BY <1>4
  <2>2. Elements(kept[0]) = {} /\ Distinct(kept[0])
    BY <2>1 DEF Elements, Distinct
  <2>3. Upto(0) = {}
    OBVIOUS
  <2> QED
    BY <2>1, <2>2, <2>3
<1>6. ASSUME NEW i \in 1..n, i - 1 \notin B PROVE i \notin B
  <2>1. i - 1 \in 0..n /\ Good(i - 1)
    BY <1>1, <1>6
  <2>2. Upto(i) = Upto(i - 1) \cup {q[i]}
    <3>1. \A j : j \in 1..i <=> j \in 1..(i - 1) \/ j = i
      BY <1>1
    <3> QED
      BY <3>1
  <2>3. q[i] \notin Upto(i - 1)
    <3>1. \A j \in 1..(i - 1) : j \in 1..n /\ j # i
      BY <1>1
    <3> QED
      BY <3>1 DEF Distinct, n
  <2> HIDE DEF Upto
  <2>4. CASE q[i] \in S
    <3>1. kept[i] = kept[i - 1]
      BY <2>4, <1>4
    <3> QED
      BY <2>1, <2>2, <2>4, <3>1
  <2>5. CASE q[i] \notin S
    <3>1. kept[i] = Append(kept[i - 1], q[i])
      BY <2>5, <1>4
    <3>2. q[i] \notin Elements(kept[i - 1])
      BY <2>1, <2>3
    <3>3. /\ kept[i - 1] \in Seq(T) /\ Distinct(kept[i - 1]) /\ q[i] \in T
          /\ Elements(kept[i - 1]) = Upto(i - 1) \ S
      BY <2>1, <1>1
    <3>4. /\ Append(kept[i - 1], q[i]) \in Seq(T)
          /\ Elements(Append(kept[i - 1], q[i])) = Elements(kept[i - 1]) \cup {q[i]}
          /\ Distinct(Append(kept[i - 1], q[i]))
      BY <3>2, <3>3, AppendIs
    <3>5. Elements(kept[i - 1]) \cup {q[i]} = Upto(i) \ S
      BY <2>2, <2>5, <3>3
    <3>6. Good(i)
      BY <3>1, <3>4, <3>5
    <3> QED
      BY <3>6
  <2> QED
    BY <2>4, <2>5
<1>7. B = {}
  <2>1. B \in SUBSET (0..n)
    OBVIOUS
  <2> HIDE DEF B
  <2> QED
    BY <2>1, <1>1, <1>5, <1>6, NoFirstFailure
<1>8. Good(n)
  <2>1. n \in 0..n
    BY <1>1
  <2> QED
    BY <1>7, <2>1
<1>9. Upto(n) = Elements(q)
  BY DEF Elements, n
<1> QED
  BY <1>2, <1>8, <1>9

\* Sources leave the array; no other gets into it or is in it twice.
LEMMA WithoutIs ==
  ASSUME NEW S, sources \in Seq(Sources), Distinct(sources)
  PROVE  /\ Without(S) \in Seq(Sources)
         /\ Elements(Without(S)) = Listed \ S
         /\ Distinct(Without(S))
<1>1. Without(S) = Filter(sources, S)
  BY DEF Without, Filter
<1> QED
  BY <1>1, FilterIs DEF Listed

-----------------------------------------------------------------------------
(* How often a source is in an array.                                      *)

\* It is counted once per element.
LEMMA CountIs ==
  ASSUME NEW T, NEW q \in Seq(T), NEW s
  PROVE  /\ Count(q, s) \in Nat
         /\ Count(q, s) = 0 <=> s \notin Elements(q)
<1> DEFINE n == Len(q)
           P == {i \in 1..n : q[i] = s}
<1>1. n \in Nat /\ IsFiniteSet(1..n)
  BY FS_Interval
<1>2. IsFiniteSet(P)
  BY <1>1, FS_Subset
<1>3. Cardinality(P) \in Nat /\ (Cardinality(P) = 0 <=> P = {})
  BY <1>2, FS_CardinalityType, FS_EmptySet
<1>4. P = {} <=> s \notin Elements(q)
  BY DEF Elements
<1> QED
  BY <1>3, <1>4 DEF Count

\* An array without duplicates counts it once at most.
LEMMA CountDistinct ==
  ASSUME NEW T, NEW q \in Seq(T), NEW s, Distinct(q)
  PROVE  Count(q, s) = IF s \in Elements(q) THEN 1 ELSE 0
<1> DEFINE P == {i \in 1..Len(q) : q[i] = s}
<1>1. CASE s \in Elements(q)
  <2>1. PICK i \in 1..Len(q) : q[i] = s
    BY <1>1 DEF Elements
  <2>2. P = {i}
    BY <2>1 DEF Distinct
  <2>3. Cardinality(P) = 1
    BY <2>2, FS_Singleton
  <2> QED
    BY <1>1, <2>3 DEF Count
<1>2. CASE s \notin Elements(q)
  BY <1>2, CountIs
<1> QED
  BY <1>1, <1>2

\* Appending an array without duplicates adds one for each source in it.
LEMMA CountAppended ==
  ASSUME NEW T, NEW q \in Seq(T), NEW r \in Seq(T), NEW s, Distinct(r)
  PROVE  Count(q \o r, s) = Count(q, s) + IF s \in Elements(r) THEN 1 ELSE 0
<1> DEFINE n == Len(q)
           m == Len(r)
           c == q \o r
           P == {i \in 1..n : q[i] = s}
           R == {i \in 1..Len(c) : c[i] = s}
<1>1. /\ n \in Nat /\ m \in Nat /\ Len(c) = n + m
      /\ \A i \in 1..n : c[i] = q[i]
      /\ \A j \in 1..m : c[n + j] = r[j]
  OBVIOUS
<1>2. IsFiniteSet(P)
  <2>1. IsFiniteSet(1..n) /\ P \subseteq 1..n
    BY <1>1, FS_Interval
  <2> QED
    BY <2>1, FS_Subset
<1>3. Count(q, s) = Cardinality(P) /\ Count(c, s) = Cardinality(R) /\ Cardinality(P) \in Nat
  BY <1>2, FS_CardinalityType DEF Count
<1> HIDE DEF c, n, m
<1>4. ASSUME NEW i \in 1..Len(c) PROVE i \in 1..n \/ \E j \in 1..m : i = n + j
  <2>1. i \in 1..n \/ (i - n \in 1..m /\ i = n + (i - n))
    BY <1>1
  <2> QED
    BY <2>1
<1>5. 1..n \subseteq 1..Len(c) /\ \A j \in 1..m : n + j \in 1..Len(c) /\ n + j \notin 1..n
  BY <1>1
<1>6. CASE s \in Elements(r)
  <2>1. PICK j \in 1..m : r[j] = s
    BY <1>6 DEF Elements, m
  <2>2. \A k \in 1..m : r[k] = s => k = j
    BY <2>1 DEF Distinct, m
  <2>3. n + j \in R /\ n + j \notin P /\ P \subseteq R
    BY <2>1, <1>1, <1>5
  <2>4. ASSUME NEW i \in R PROVE i \in P \cup {n + j}
    <3>1. CASE i \in 1..n
      BY <3>1, <1>1
    <3>2. CASE \E k \in 1..m : i = n + k
      BY <3>2, <2>2, <1>1
    <3> QED
      BY <3>1, <3>2, <1>4
  <2>5. R = P \cup {n + j} /\ n + j \notin P
    BY <2>3, <2>4
  <2> HIDE DEF P, R
  <2>6. Cardinality(R) = Cardinality(P) + 1
    BY <2>5, <1>2, FS_AddElement
  <2> QED
    BY <2>6, <1>3, <1>6 DEF c
<1>7. CASE s \notin Elements(r)
  <2>1. \A j \in 1..m : r[j] # s
    BY <1>7 DEF Elements, m
  <2>2. P \subseteq R
    BY <1>1, <1>5
  <2>3. ASSUME NEW i \in R PROVE i \in P
    <3>1. CASE i \in 1..n
      BY <3>1, <1>1
    <3>2. CASE \E k \in 1..m : i = n + k
      BY <3>2, <2>1, <1>1
    <3> QED
      BY <3>1, <3>2, <1>4
  <2>4. R = P
    BY <2>2, <2>3
  <2> HIDE DEF P, R
  <2> QED
    BY <2>4, <1>3, <1>7 DEF c
<1> QED
  BY <1>6, <1>7

-----------------------------------------------------------------------------
(* The inductive invariant. *)

\* The arrays, and the references they hold.
ArraysOK ==
  /\ sources \in Seq(Sources) /\ Distinct(sources)
  /\ dispatching \in Seq(Sources)
  /\ refs \in [Sources -> Nat]
  /\ \A s \in Sources : refs[s] = (IF s \in Listed THEN 1 ELSE 0) + Count(dispatching, s)
  /\ readable \subseteq Fds

StackOK == stack \in Seq(Frame) /\ Len(stack) <= MaxDepth

\* The outermost dispatch walks over an array without duplicates, and what is
\* ahead of it and was selected still has data; when a nested dispatch has ended
\* there is nothing ahead.
WalkOK ==
  /\ stack = <<>> => dispatching = <<>>
  /\ Len(stack) = 1 =>
       /\ Distinct(dispatching)
       /\ stack[1].in = "fds" =>
            \A i \in (stack[1].i + 1)..Len(dispatching) :
              dispatching[i] \in stack[1].fdsr => dispatching[i] \in readable

\* A source whose dispatch runs is in the array until a dispatch inside it ends.
NestOK == \A k \in 1..Len(stack) : ~stack[k].ran => stack[k].running \subseteq Elements(dispatching)

IInv == ArraysOK /\ StackOK /\ WalkOK /\ NestOK

-----------------------------------------------------------------------------
(* The stack. *)

\* The innermost dispatch.
LEMMA TopIs ==
  ASSUME StackOK, stack # <<>>
  PROVE  /\ Len(stack) \in Nat /\ Len(stack) \in 1..Len(stack) /\ Len(stack) - 1 \in Nat
         /\ Top = stack[Len(stack)] /\ Top \in Frame
         /\ Top.i \in Nat /\ Top.fdsr \in SUBSET Fds /\ Top.running \in SUBSET Sources
         /\ Top.in \in {"fds", "no_fd"}
<1>1. Len(stack) \in Nat /\ Len(stack) \in 1..Len(stack) /\ Len(stack) - 1 \in Nat
  BY DEF StackOK
<1>2. Top = stack[Len(stack)] /\ Top \in Frame
  BY <1>1 DEF StackOK, Top, Depth
<1> QED
  BY <1>1, <1>2 DEF Frame

\* The innermost frame becomes f.
Becomes(f) ==
  /\ stack' \in Seq(Frame) /\ Len(stack') = Len(stack) /\ stack # <<>>
  /\ \A k \in 1..Len(stack) : stack'[k] = IF k = Len(stack) THEN f ELSE stack[k]

LEMMA TopBecomes ==
  ASSUME StackOK, stack # <<>>, NEW f \in Frame, stack' = [stack EXCEPT ![Len(stack)] = f]
  PROVE  Becomes(f)
BY DEF StackOK, Becomes

\* event_source_dispatch is called, it returns, and the walk goes on to the
\* sources without a descriptor.
LEMMA CallIs ==
  ASSUME StackOK, ArraysOK, NEW s, Call(s)
  PROVE  /\ s \in Sources \cap Listed \cap Elements(dispatching)
         /\ Top.running = {} /\ stack # <<>>
         /\ \E i \in (Top.i + 1)..Len(dispatching) :
              /\ s = dispatching[i] /\ s \in (IF Top.in = "fds" THEN Top.fdsr ELSE Others)
              /\ Becomes([Top EXCEPT !.i = i, !.running = {s}])
<1>1. stack # <<>> /\ Top.running = {} /\ Candidates # {}
  BY DEF Call, Walking
<1>2. Candidates \in SUBSET Nat
  BY <1>1, TopIs DEF Candidates, ArraysOK
<1>3. PICK i \in Candidates : i = FirstOf(Candidates)
  BY <1>1, <1>2, FirstOfIsIn
<1>4. /\ s = dispatching[i]
      /\ stack' = [stack EXCEPT ![Len(stack)].i = i, ![Len(stack)].running = {s}]
  BY <1>3 DEF Call, Depth
<1>5. /\ i \in (Top.i + 1)..Len(dispatching) /\ i \in 1..Len(dispatching)
      /\ s \in Listed /\ s \in (IF Top.in = "fds" THEN Top.fdsr ELSE Others)
  BY <1>1, <1>3, <1>4, TopIs DEF Candidates, ArraysOK
<1>6. s \in Sources /\ s \in Elements(dispatching) /\ i \in Nat
  BY <1>2, <1>4, <1>5 DEF ArraysOK, Elements
<1> DEFINE f == [Top EXCEPT !.i = i, !.running = {s}]
<1>7. f \in Frame
  BY <1>1, <1>6, TopIs DEF Frame
<1>8. stack' = [stack EXCEPT ![Len(stack)] = f]
  BY <1>1, <1>4, TopIs DEF StackOK, Frame
<1>9. Becomes(f)
  BY <1>1, <1>7, <1>8, TopBecomes
<1> QED
  BY <1>1, <1>4, <1>5, <1>6, <1>9

LEMMA ReturnIs ==
  ASSUME StackOK, Return \/ ReturnRemove
  PROVE  stack # <<>> /\ Becomes([Top EXCEPT !.running = {}, !.ran = FALSE])
<1> DEFINE f == [Top EXCEPT !.running = {}, !.ran = FALSE]
<1>1. stack # <<>> /\ stack' = [stack EXCEPT ![Len(stack)].running = {}, ![Len(stack)].ran = FALSE]
  BY DEF Return, ReturnRemove, Depth
<1>2. f \in Frame
  BY <1>1, TopIs DEF Frame
<1>3. stack' = [stack EXCEPT ![Len(stack)] = f]
  BY <1>1, TopIs DEF StackOK, Frame
<1> QED
  BY <1>1, <1>2, <1>3, TopBecomes

LEMMA FdsEndIs ==
  ASSUME StackOK, FdsEnd
  PROVE  stack # <<>> /\ Top.running = {} /\ Becomes([Top EXCEPT !.in = "no_fd", !.i = 0, !.fdsr = {}])
<1> DEFINE f == [Top EXCEPT !.in = "no_fd", !.i = 0, !.fdsr = {}]
<1>1. /\ stack # <<>> /\ Top.running = {}
      /\ stack' = [stack EXCEPT ![Len(stack)].in = "no_fd", ![Len(stack)].i = 0, ![Len(stack)].fdsr = {}]
  BY DEF FdsEnd, Walking, Depth
<1>2. f \in Frame
  BY <1>1, TopIs DEF Frame
<1>3. stack' = [stack EXCEPT ![Len(stack)] = f]
  BY <1>1, TopIs DEF StackOK, Frame
<1> QED
  BY <1>1, <1>2, <1>3, TopBecomes

\* A dispatch begins.
LEMMA DispatchIs ==
  ASSUME StackOK, Dispatch
  PROVE  /\ stack' \in Seq(Frame) /\ Len(stack') = Len(stack) + 1 /\ Len(stack') <= MaxDepth
         /\ Len(stack) \in Nat
         /\ \A k \in 1..Len(stack) : stack'[k] = stack[k]
         /\ stack'[Len(stack) + 1] = [in |-> "fds", i |-> 0, fdsr |-> Selected(dispatching'), running |-> {}, ran |-> FALSE]
<1> DEFINE f == [in |-> "fds", i |-> 0, fdsr |-> Selected(dispatching'), running |-> {}, ran |-> FALSE]
<1>1. f \in Frame
  BY DEF Frame, Selected
<1>2. stack' = Append(stack, f) /\ Len(stack) < MaxDepth
  BY DEF Dispatch, Depth
<1>3. Len(stack) \in Nat /\ MaxDepth \in Nat
  BY SourcesAssumption DEF StackOK
<1> HIDE DEF f
<1>4. /\ stack' \in Seq(Frame) /\ Len(stack') = Len(stack) + 1
      /\ \A k \in 1..Len(stack) : stack'[k] = stack[k]
      /\ stack'[Len(stack) + 1] = f
  BY <1>1, <1>2 DEF StackOK
<1> QED
  BY <1>2, <1>3, <1>4 DEF f

\* A dispatch ends.
LEMMA EndIs ==
  ASSUME StackOK, DispatchEnd
  PROVE  /\ stack # <<>> /\ stack' \in Seq(Frame) /\ Len(stack') = Len(stack) - 1
         /\ Len(stack') \in Nat /\ Len(stack) \in Nat
         /\ \A k \in 1..Len(stack') : stack'[k].ran
         /\ dispatching' = <<>>
<1> DEFINE f(k) == [stack[k] EXCEPT !.ran = TRUE]
<1>1. stack # <<>> /\ stack' = [k \in 1..Len(stack) - 1 |-> f(k)] /\ dispatching' = <<>>
  BY DEF DispatchEnd, Walking, Depth, Cleared
<1>2. PICK n \in Nat : n = Len(stack) - 1
  BY <1>1, TopIs
<1>3. ASSUME NEW k \in 1..n PROVE f(k) \in Frame /\ f(k).ran
  <2>1. stack[k] \in Frame
    BY <1>1, <1>2, TopIs DEF StackOK
  <2> QED
    BY <2>1 DEF Frame
<1> HIDE DEF f
<1>4. stack' = [k \in 1..n |-> f(k)]
  BY <1>1, <1>2
<1>5. Len(stack') = n /\ stack' \in Seq(Frame) /\ \A k \in 1..n : stack'[k] = f(k)
  BY <1>3, <1>4
<1> QED
  BY <1>1, <1>2, <1>3, <1>5, TopIs

-----------------------------------------------------------------------------
(* The arrays. *)

\* Sources leave the array of sources, and their references go.
LEMMA DropIs ==
  ASSUME ArraysOK, NEW S, Drop(S), UNCHANGED <<dispatching, readable>>
  PROVE  ArraysOK' /\ Listed' = Listed \ S
<1>1. sources' \in Seq(Sources) /\ Distinct(sources') /\ Listed' = Listed \ S
  <2>1. sources' = Without(S) /\ Listed' = Elements(sources')
    BY DEF Drop, Listed
  <2> QED
    BY <2>1, WithoutIs DEF ArraysOK
<1>2. \A s \in Sources : Count(dispatching, s) \in Nat
  BY CountIs DEF ArraysOK
<1>3. ASSUME NEW s \in Sources
      PROVE  /\ refs'[s] \in Nat
             /\ refs'[s] = (IF s \in Listed' THEN 1 ELSE 0) + Count(dispatching, s)
  <2>1. refs'[s] = IF s \in S \cap Listed THEN refs[s] - 1 ELSE refs[s]
    BY DEF Drop
  <2>2. refs[s] = (IF s \in Listed THEN 1 ELSE 0) + Count(dispatching, s)
    BY DEF ArraysOK
  <2> QED
    BY <2>1, <2>2, <1>1, <1>2
<1>4. refs' \in [Sources -> Nat]
  <2>1. refs' = [s \in Sources |-> IF s \in S \cap Listed THEN refs[s] - 1 ELSE refs[s]]
    BY DEF Drop
  <2>2. \A s \in Sources : (IF s \in S \cap Listed THEN refs[s] - 1 ELSE refs[s]) \in Nat
    BY <2>1, <1>3
  <2> QED
    BY <2>1, <2>2
<1> QED
  BY <1>1, <1>3, <1>4 DEF ArraysOK

\* A source is added with a reference, whatever the dispatches hold of it.
LEMMA AddIs ==
  ASSUME ArraysOK, NEW s \in Sources, Add(s)
  PROVE  ArraysOK' /\ Listed' = Listed \cup {s}
<1>1. \A u \in Sources : Count(dispatching, u) \in Nat
  BY CountIs DEF ArraysOK
<1>2. refs[s] = Count(dispatching, s)
  BY <1>1 DEF Add, ArraysOK
<1>3. s \notin Listed
  BY DEF Add
<1>4. sources' \in Seq(Sources) /\ Distinct(sources') /\ Listed' = Listed \cup {s}
  <2>1. sources' = Append(sources, s) /\ Listed' = Elements(sources')
    BY DEF Add, Listed
  <2> QED
    BY <2>1, <1>3, AppendIs DEF ArraysOK, Listed
<1>5. dispatching' = dispatching /\ readable' = readable /\ refs' = [refs EXCEPT ![s] = refs[s] + 1]
  BY DEF Add
<1>6. refs' \in [Sources -> Nat] /\ \A u \in Sources : refs'[u] = IF u = s THEN refs[s] + 1 ELSE refs[u]
  BY <1>5 DEF ArraysOK
<1>7. ASSUME NEW u \in Sources PROVE refs'[u] = (IF u \in Listed' THEN 1 ELSE 0) + Count(dispatching, u)
  <2>1. CASE u = s
    BY <2>1, <1>1, <1>2, <1>4, <1>6
  <2>2. CASE u # s
    <3>1. refs[u] = (IF u \in Listed THEN 1 ELSE 0) + Count(dispatching, u)
      BY DEF ArraysOK
    <3>2. refs'[u] = refs[u] /\ (u \in Listed' <=> u \in Listed)
      BY <2>2, <1>4, <1>6
    <3> QED
      BY <3>1, <3>2
  <2> QED
    BY <2>1, <2>2
<1> QED
  BY <1>1, <1>3, <1>4, <1>5, <1>6, <1>7 DEF ArraysOK

\* The sources are copied, with references.
LEMMA CopiedIs ==
  ASSUME ArraysOK, Dispatch
  PROVE  ArraysOK'
<1>1. /\ dispatching' = dispatching \o sources /\ sources' = sources /\ readable' = readable
      /\ refs' = [s \in Sources |-> IF s \in Listed THEN refs[s] + 1 ELSE refs[s]]
  BY DEF Dispatch, Referred
<1>2. dispatching' \in Seq(Sources) /\ Listed' = Listed
  BY <1>1 DEF ArraysOK, Listed
<1>3. ASSUME NEW s \in Sources
      PROVE  refs'[s] \in Nat /\ refs'[s] = (IF s \in Listed' THEN 1 ELSE 0) + Count(dispatching', s)
  <2> DEFINE l == IF s \in Listed THEN 1 ELSE 0
             c == Count(dispatching, s)
             d == Count(dispatching', s)
  <2>1. d = c + l
    BY <1>1, CountAppended DEF ArraysOK, Listed
  <2>2. c \in Nat /\ l \in {0, 1} /\ refs[s] = l + c
    BY CountIs DEF ArraysOK
  <2>3. refs'[s] = refs[s] + l
    BY <1>1, <2>2
  <2> HIDE DEF l, c, d
  <2>4. refs'[s] \in Nat /\ refs'[s] = l + d
    BY <2>1, <2>2, <2>3
  <2> QED
    BY <2>4, <1>2 DEF l, d
<1>4. refs' \in [Sources -> Nat]
  BY <1>1, <1>3
<1> QED
  BY <1>1, <1>2, <1>3, <1>4 DEF ArraysOK

\* darray_clear takes the references of the copy away.
LEMMA ClearedIs ==
  ASSUME ArraysOK, DispatchEnd
  PROVE  ArraysOK'
<1>1. /\ dispatching' = <<>> /\ sources' = sources /\ readable' = readable
      /\ refs' = [s \in Sources |-> refs[s] - (Count(dispatching, s) - Count(dispatching', s))]
  BY DEF DispatchEnd, Cleared, Unreferred
<1>2. dispatching' \in Seq(Sources) /\ Elements(dispatching') = {} /\ Listed' = Listed
  BY <1>1 DEF Listed, Elements
<1>3. ASSUME NEW s \in Sources
      PROVE  refs'[s] \in Nat /\ refs'[s] = (IF s \in Listed' THEN 1 ELSE 0) + Count(dispatching', s)
  <2> DEFINE l == IF s \in Listed THEN 1 ELSE 0
             c == Count(dispatching, s)
             d == Count(dispatching', s)
  <2>1. d = 0
    <3>1. \A q \in Seq(Sources) : Elements(q) = {} => Count(q, s) = 0
      BY CountIs
    <3> QED
      BY <3>1, <1>2
  <2>2. c \in Nat /\ l \in {0, 1} /\ refs[s] = l + c
    BY CountIs DEF ArraysOK
  <2>3. refs'[s] = refs[s] - (c - d)
    BY <1>1
  <2> HIDE DEF l, c, d
  <2>4. refs'[s] \in Nat /\ refs'[s] = l + d
    BY <2>1, <2>2, <2>3
  <2> QED
    BY <2>4, <1>2 DEF l, d
<1>4. refs' \in [Sources -> Nat]
  BY <1>1, <1>3
<1> QED
  BY <1>1, <1>2, <1>3, <1>4 DEF ArraysOK

\* Every step keeps the arrays and their references.
LEMMA ArraysKeep ==
  ASSUME ArraysOK, [Next]_vars
  PROVE  ArraysOK'
<1>1. ASSUME NEW s \in Sources, Add(s) PROVE ArraysOK'
  BY <1>1, AddIs
<1>2. ASSUME UNCHANGED <<sources, dispatching, refs>>, readable' \subseteq Fds PROVE ArraysOK'
  BY <1>2 DEF ArraysOK, Listed
<1>3. ASSUME NEW s \in Sources, Arrive(s) PROVE ArraysOK'
  BY <1>2, <1>3 DEF Arrive, ArraysOK
<1>4. ASSUME NEW s \in Sources, Call(s) PROVE ArraysOK'
  BY <1>2, <1>4 DEF Call, ArraysOK
<1>5. ASSUME NEW S \in SUBSET Sources, Remove(S) PROVE ArraysOK'
  BY <1>5, DropIs DEF Remove
<1>6. CASE Dispatch
  BY <1>6, CopiedIs
<1>7. CASE Return
  BY <1>2, <1>7 DEF Return, ArraysOK
<1>8. CASE ReturnRemove
  BY <1>8, DropIs DEF ReturnRemove
<1>9. CASE FdsEnd
  BY <1>2, <1>9 DEF FdsEnd, ArraysOK
<1>10. CASE DispatchEnd
  BY <1>10, ClearedIs
<1>11. CASE UNCHANGED vars
  BY <1>2, <1>11 DEF vars, ArraysOK
<1> QED
  BY <1>1, <1>3, <1>4, <1>5, <1>6, <1>7, <1>8, <1>9, <1>10, <1>11 DEF Next

\* Every step keeps the stack.
LEMMA StackKeeps ==
  ASSUME ArraysOK, StackOK, [Next]_vars
  PROVE  StackOK'
<1>1. ASSUME NEW f, Becomes(f) PROVE StackOK'
  BY <1>1 DEF Becomes, StackOK
<1>2. ASSUME NEW s \in Sources, Call(s) PROVE StackOK'
  BY <1>1, <1>2, CallIs
<1>3. CASE Return \/ ReturnRemove
  BY <1>1, <1>3, ReturnIs
<1>4. CASE FdsEnd
  BY <1>1, <1>4, FdsEndIs
<1>5. CASE Dispatch
  BY <1>5, DispatchIs DEF StackOK
<1>6. CASE DispatchEnd
  BY <1>6, EndIs, SourcesAssumption DEF StackOK
<1>7. stack' = stack => StackOK'
  BY DEF StackOK
<1> QED
  BY <1>2, <1>3, <1>4, <1>5, <1>6, <1>7 DEF Next, Add, Arrive, Remove, vars

-----------------------------------------------------------------------------
(* The sources whose dispatch runs. *)

\* Every step keeps references to the sources whose dispatch runs.
LEMMA NestKeeps ==
  ASSUME IInv, [Next]_vars
  PROVE  NestOK'
<1>1. Len(stack) \in Nat /\ ArraysOK /\ StackOK /\ NestOK
  BY DEF IInv, StackOK
<1>2. ASSUME UNCHANGED <<stack, dispatching>> PROVE NestOK'
  BY <1>1, <1>2 DEF NestOK
<1>3. ASSUME NEW f, Becomes(f), dispatching' = dispatching,
             f.running \subseteq Elements(dispatching)
      PROVE  NestOK'
  BY <1>1, <1>3 DEF NestOK, Becomes
<1>4. ASSUME NEW s \in Sources, Call(s) PROVE NestOK'
  <2>1. PICK i : Becomes([Top EXCEPT !.i = i, !.running = {s}])
    BY <1>1, <1>4, CallIs
  <2>2. s \in Elements(dispatching) /\ Top \in Frame
    BY <1>1, <1>4, CallIs, TopIs
  <2>3. [Top EXCEPT !.i = i, !.running = {s}].running = {s}
    BY <2>2 DEF Frame
  <2>4. dispatching' = dispatching
    BY <1>4 DEF Call
  <2> HIDE DEF Call
  <2> QED
    BY <1>3, <2>1, <2>2, <2>3, <2>4
<1>5. CASE Return \/ ReturnRemove
  <2>1. stack # <<>> /\ Becomes([Top EXCEPT !.running = {}, !.ran = FALSE]) /\ dispatching' = dispatching
    BY <1>1, <1>5, ReturnIs DEF Return, ReturnRemove
  <2>2. [Top EXCEPT !.running = {}, !.ran = FALSE].running = {}
    BY <2>1, <1>1, TopIs DEF Frame
  <2> QED
    BY <2>1, <2>2, <1>3
<1>6. CASE FdsEnd
  <2> DEFINE f == [Top EXCEPT !.in = "no_fd", !.i = 0, !.fdsr = {}]
  <2>1. stack # <<>> /\ Top.running = {} /\ Becomes(f) /\ Top \in Frame
    BY <1>1, <1>6, FdsEndIs, TopIs
  <2>2. f.running = {}
    BY <2>1 DEF Frame
  <2>3. dispatching' = dispatching
    BY <1>6 DEF FdsEnd
  <2> HIDE DEF f
  <2> QED
    BY <2>1, <2>2, <2>3, <1>3
<1>7. CASE Dispatch
  <2>1. /\ Len(stack') = Len(stack) + 1
        /\ \A k \in 1..Len(stack) : stack'[k] = stack[k]
        /\ stack'[Len(stack) + 1].running = {}
    BY <1>1, <1>7, DispatchIs
  <2>2. Elements(dispatching) \subseteq Elements(dispatching')
    <3>1. /\ dispatching' = dispatching \o sources
          /\ dispatching \in Seq(Sources) /\ sources \in Seq(Sources)
      BY <1>1, <1>7 DEF Dispatch, ArraysOK
    <3>2. \A i \in 1..Len(dispatching) : i \in 1..Len(dispatching') /\ dispatching'[i] = dispatching[i]
      BY <3>1
    <3> QED
      BY <3>2 DEF Elements
  <2>3. \A k \in 1..Len(stack') : k \in 1..Len(stack) \/ k = Len(stack) + 1
    BY <2>1, <1>1
  <2> QED
    BY <2>1, <2>2, <2>3, <1>1 DEF NestOK
<1>8. CASE DispatchEnd
  BY <1>1, <1>8, EndIs DEF NestOK
<1> QED
  BY <1>2, <1>4, <1>5, <1>6, <1>7, <1>8 DEF Next, Add, Arrive, Remove, vars

-----------------------------------------------------------------------------
(* The outermost walk. *)

\* Every step leaves data for what is ahead of the outermost walk.
LEMMA WalkKeeps ==
  ASSUME IInv, [Next]_vars
  PROVE  WalkOK'
<1>1. Len(stack) \in Nat /\ ArraysOK /\ StackOK
  BY DEF IInv, StackOK
<1>2. /\ stack = <<>> => dispatching = <<>>
      /\ Len(stack) = 1 =>
           /\ Distinct(dispatching)
           /\ stack[1].in = "fds" =>
                \A i \in (stack[1].i + 1)..Len(dispatching) :
                  dispatching[i] \in stack[1].fdsr => dispatching[i] \in readable
  BY DEF IInv, WalkOK
<1>3. Len(stack) = 1 => stack # <<>> /\ Top = stack[1] /\ Top \in Frame /\ Top.i \in Nat
  BY <1>1, TopIs
<1>4. Len(dispatching) \in Nat
  BY <1>1 DEF ArraysOK
<1> DEFINE Kept(s) == s \in readable => s \in readable'
\* The application runs.
<1>5. ASSUME UNCHANGED <<stack, dispatching>>, \A s \in Elements(dispatching) : Kept(s) PROVE WalkOK'
  <2>1. Len(stack) = 1 => \A i \in (stack[1].i + 1)..Len(dispatching) : dispatching[i] \in Elements(dispatching)
    BY <1>3, <1>4 DEF Elements
  <2> QED
    BY <1>2, <1>5, <2>1 DEF WalkOK
\* The walk goes on.
<1>6. ASSUME NEW f \in Frame, Becomes(f), dispatching' = dispatching,
             f.in = "fds" => /\ f.in = Top.in /\ f.fdsr = Top.fdsr /\ Top.i <= f.i
                             /\ Len(stack) = 1 => \A i \in (f.i + 1)..Len(dispatching) : Kept(dispatching[i])
      PROVE  WalkOK'
  <2>1. stack' # <<>> /\ Len(stack') = Len(stack)
    <3>1. stack # <<>> /\ Len(stack') = Len(stack) /\ Len(stack) \in 1..Len(stack) /\ stack' \in Seq(Frame)
      BY <1>1, <1>6, TopIs DEF Becomes
    <3> QED
      BY <3>1
  <2>2. CASE Len(stack) = 1
    <3>1. stack'[1] = f /\ f.i \in Nat
      BY <2>2, <1>6 DEF Becomes, Frame
    <3>2. ASSUME f.in = "fds", NEW i \in (f.i + 1)..Len(dispatching), dispatching[i] \in f.fdsr
          PROVE  dispatching[i] \in readable'
      <4>1. Kept(dispatching[i]) /\ Top.i <= f.i
        BY <2>2, <3>2, <1>6
      <4>2. i \in (stack[1].i + 1)..Len(dispatching)
        BY <2>2, <3>1, <4>1, <1>3, <1>4
      <4>3. stack[1].in = "fds" /\ dispatching[i] \in stack[1].fdsr
        BY <2>2, <3>2, <1>3, <1>6
      <4> QED
        BY <2>2, <3>2, <4>1, <4>2, <4>3, <1>2
    <3> HIDE DEF Kept
    <3> QED
      BY <2>1, <2>2, <3>1, <3>2, <1>2, <1>6 DEF WalkOK
  <2>3. CASE Len(stack) # 1
    BY <2>1, <2>3 DEF WalkOK
  <2> QED
    BY <2>2, <2>3
<1>7. ASSUME NEW s \in Sources, Add(s) PROVE WalkOK'
  BY <1>5, <1>7 DEF Add
<1>8. ASSUME NEW s \in Sources, Arrive(s) PROVE WalkOK'
  BY <1>5, <1>8 DEF Arrive
<1>9. ASSUME NEW s \in Sources, Call(s) PROVE WalkOK'
  <2>1. PICK i \in (Top.i + 1)..Len(dispatching) :
          s = dispatching[i] /\ Becomes([Top EXCEPT !.i = i, !.running = {s}])
    BY <1>1, <1>9, CallIs
  <2>2. stack # <<>> /\ Top \in Frame /\ Top.i \in Nat
    BY <1>1, <1>9, CallIs, TopIs
  <2> DEFINE f == [Top EXCEPT !.i = i, !.running = {s}]
  <2>3. i \in Nat /\ i \in 1..Len(dispatching) /\ Top.i <= i
    BY <2>1, <2>2, <1>4
  <2>4. f \in Frame /\ f.fdsr = Top.fdsr /\ f.in = Top.in /\ f.i = i
    BY <2>2, <2>3, <1>9 DEF Frame
  <2>5. dispatching' = dispatching /\ readable' = readable \ {s} /\ Becomes(f)
    BY <1>9, <2>1 DEF Call
  <2> HIDE DEF f
  <2>6. ASSUME Len(stack) = 1, NEW j \in (i + 1)..Len(dispatching) PROVE Kept(dispatching[j])
    <3>1. j \in 1..Len(dispatching) /\ j # i
      BY <2>3, <1>4
    <3>2. dispatching[j] # s
      BY <2>1, <2>3, <2>6, <3>1, <1>2 DEF Distinct
    <3> QED
      BY <2>5, <3>2
  <2> HIDE DEF Kept
  <2> QED
    BY <2>3, <2>4, <2>5, <2>6, <1>6
<1>10. ASSUME NEW S \in SUBSET Sources, Remove(S) PROVE WalkOK'
  BY <1>5, <1>10 DEF Remove
<1>11. ASSUME stack # <<>>, Becomes([Top EXCEPT !.running = {}, !.ran = FALSE]), dispatching' = dispatching,
              \A s : Kept(s)
       PROVE  WalkOK'
  <2> DEFINE f == [Top EXCEPT !.running = {}, !.ran = FALSE]
  <2>1. Top \in Frame /\ Top.i \in Nat
    BY <1>1, <1>11, TopIs
  <2>2. f \in Frame /\ f.fdsr = Top.fdsr /\ f.in = Top.in /\ f.i = Top.i
    BY <2>1 DEF Frame
  <2>3. Becomes(f)
    BY <1>11
  <2> HIDE DEF f, Kept
  <2>4. Top.i <= f.i
    BY <2>1, <2>2
  <2> QED
    BY <2>2, <2>3, <2>4, <1>6, <1>11
<1>12. CASE Return \/ ReturnRemove
  <2>1. stack # <<>> /\ Becomes([Top EXCEPT !.running = {}, !.ran = FALSE])
    BY <1>1, <1>12, ReturnIs
  <2>2. dispatching' = dispatching /\ \A s : Kept(s)
    BY <1>12 DEF Return, ReturnRemove
  <2> HIDE DEF Kept
  <2> QED
    BY <2>1, <2>2, <1>11
<1>14. CASE FdsEnd
  <2> DEFINE f == [Top EXCEPT !.in = "no_fd", !.i = 0, !.fdsr = {}]
  <2>1. stack # <<>> /\ Top \in Frame /\ Becomes(f)
    BY <1>1, <1>14, FdsEndIs, TopIs
  <2>2. f \in Frame /\ f.in = "no_fd"
    BY <2>1 DEF Frame
  <2>3. dispatching' = dispatching
    BY <1>14 DEF FdsEnd
  <2> HIDE DEF f
  <2> QED
    BY <2>1, <2>2, <2>3, <1>6
<1>15. CASE Dispatch
  <2> DEFINE f == [in |-> "fds", i |-> 0, fdsr |-> Selected(dispatching'), running |-> {}, ran |-> FALSE]
  <2>1. /\ stack' \in Seq(Frame) /\ Len(stack') = Len(stack) + 1
        /\ stack'[Len(stack) + 1] = f
    BY <1>1, <1>15, DispatchIs
  <2>2. f.fdsr \subseteq readable /\ readable' = readable /\ dispatching' = dispatching \o sources
    BY <1>15 DEF Dispatch, Selected
  <2> HIDE DEF f
  <2>3. stack' # <<>>
    BY <2>1, <1>1
  <2>4. CASE Len(stack') = 1
    <3>1. Len(stack) = 0 /\ stack'[1] = f
      <4>1. Len(stack) = 0
        <5> DEFINE n == Len(stack)
                   m == Len(stack')
        <5>1. n \in Nat /\ m = n + 1 /\ m = 1
          BY <2>1, <2>4, <1>1
        <5> HIDE DEF n, m
        <5>2. n = 0
          BY <5>1
        <5> QED
          BY <5>2 DEF n
      <4>2. Len(stack) + 1 = 1
        BY <4>1
      <4>3. stack'[Len(stack) + 1] = f
        BY <2>1
      <4> QED
        BY <4>1, <4>2, <4>3
    <3>2. stack = <<>>
      BY <3>1, <1>1 DEF StackOK
    <3>3. dispatching' = sources /\ Distinct(sources)
      BY <2>2, <3>2, <1>1, <1>2 DEF ArraysOK
    <3> QED
      BY <2>2, <2>3, <3>1, <3>3 DEF WalkOK
  <2>5. CASE Len(stack') # 1
    BY <2>3, <2>5 DEF WalkOK
  <2> QED
    BY <2>4, <2>5
<1>16. CASE DispatchEnd
  <2>1. /\ stack # <<>> /\ Len(stack') = Len(stack) - 1 /\ dispatching' = <<>>
        /\ stack' \in Seq(Frame)
    BY <1>1, <1>16, EndIs
  <2>2. Len(dispatching') = 0 /\ Distinct(dispatching')
    BY <2>1 DEF Distinct
  <2>3. ASSUME Len(stack') = 1 PROVE stack'[1].i \in Nat
    <3>1. 1 \in 1..Len(stack')
      BY <2>3
    <3>2. stack'[1] \in Frame
      BY <2>1, <3>1
    <3> QED
      BY <3>2 DEF Frame
  <2>4. Len(stack') = 1 => (stack'[1].i + 1)..Len(dispatching') = {}
    BY <2>2, <2>3
  <2> QED
    BY <2>1, <2>2, <2>4 DEF WalkOK
<1>17. CASE UNCHANGED vars
  BY <1>17, <1>5 DEF vars
<1> QED
  BY <1>7, <1>8, <1>9, <1>10, <1>12, <1>14, <1>15, <1>16, <1>17 DEF Next

-----------------------------------------------------------------------------
(* The theorems. *)

\* In the initial state there are no sources and no dispatch.
LEMMA InitIInv == Init => IInv
<1> SUFFICES ASSUME Init PROVE IInv
  OBVIOUS
<1>1. sources = <<>> /\ dispatching = <<>> /\ stack = <<>> /\ readable = {} /\ refs = [s \in Sources |-> 0]
  BY DEF Init
<1>2. /\ sources \in Seq(Sources) /\ Len(sources) = 0 /\ stack \in Seq(Frame) /\ Len(stack) = 0
      /\ dispatching \in Seq(Sources) /\ Elements(dispatching) = {} /\ Listed = {}
  BY <1>1 DEF Elements, Listed
<1>3. \A s \in Sources : Count(dispatching, s) = 0
  BY <1>2, CountIs
<1>4. ArraysOK
  BY <1>1, <1>2, <1>3 DEF ArraysOK, Distinct
<1>5. StackOK
  BY <1>2, SourcesAssumption DEF StackOK
<1>6. WalkOK /\ NestOK
  BY <1>1, <1>2 DEF WalkOK, NestOK
<1> QED
  BY <1>4, <1>5, <1>6 DEF IInv

\* The inductive invariant holds always.
LEMMA Invariance == Spec => []IInv
<1>1. IInv /\ [Next]_vars => IInv'
  BY ArraysKeep, StackKeeps, WalkKeeps, NestKeeps DEF IInv
<1> QED
  BY <1>1, InitIInv, PTL DEF Spec

\* A source is registered once, and its reference count is the number of
\* elements of manager->sources and manager->dispatching_sources that refer to it.
THEOREM TypeCorrect == Spec => []TypeOK
<1>1. IInv => TypeOK
  <2> SUFFICES ASSUME IInv PROVE TypeOK
    OBVIOUS
  <2>1. ArraysOK /\ StackOK
    BY DEF IInv
  <2>2. ASSUME NEW s \in Sources
        PROVE  Count(sources, s) <= 1 /\ refs[s] = Count(sources, s) + Count(dispatching, s)
    <3>1. Count(sources, s) = IF s \in Listed THEN 1 ELSE 0
      BY <2>1, CountDistinct DEF ArraysOK, Listed
    <3>2. refs[s] = (IF s \in Listed THEN 1 ELSE 0) + Count(dispatching, s)
      BY <2>1 DEF ArraysOK
    <3> QED
      BY <3>1, <3>2
  <2> QED
    BY <2>1, <2>2 DEF ArraysOK, StackOK, TypeOK, Depth
<1> QED
  BY <1>1, Invariance, PTL

\* While event_source_dispatch runs its source is not freed, unless the source is
\* removed and a dispatch inside its own has ended and with dispatching_sources has
\* cleared the reference that kept it; nor is one that a dispatch has still to
\* walk over.
THEOREM UsedSourcesLive == Spec => []AliveWhileUsed
<1>1. IInv => AliveWhileUsed
  <2> SUFFICES ASSUME IInv PROVE AliveWhileUsed
    OBVIOUS
  <2>1. ArraysOK /\ StackOK /\ Len(stack) \in Nat
    BY DEF IInv, StackOK
  <2>2. ASSUME NEW s \in Sources, s \in Listed \/ s \in Elements(dispatching) PROVE refs[s] > 0
    <3> DEFINE l == IF s \in Listed THEN 1 ELSE 0
               c == Count(dispatching, s)
    <3>1. refs[s] = l + c /\ c \in Nat /\ l \in {0, 1} /\ (l = 1 \/ c # 0)
      BY <2>1, <2>2, CountIs DEF ArraysOK
    <3> HIDE DEF l, c
    <3> QED
      BY <3>1
  <2>3. ASSUME NEW k \in 1..Len(stack), NEW s \in Sources, s \in stack[k].running
        PROVE  refs[s] > 0 \/ (stack[k].ran /\ s \notin Listed)
    <3>1. CASE ~stack[k].ran
      BY <3>1, <2>2, <2>3 DEF IInv, NestOK
    <3>2. CASE s \in Listed
      BY <3>2, <2>2
    <3> QED
      BY <3>1, <3>2
  <2>4. ASSUME NEW i \in 1..Len(dispatching) PROVE refs[dispatching[i]] > 0
    <3>1. dispatching[i] \in Sources /\ dispatching[i] \in Elements(dispatching)
      BY <2>1 DEF ArraysOK, Elements
    <3> QED
      BY <3>1, <2>2
  <2> QED
    BY <2>3, <2>4 DEF AliveWhileUsed, Depth
<1> QED
  BY <1>1, Invariance, PTL

\* The outermost dispatch calls a source with a descriptor only when there is
\* data for it, whatever the sources before it and nested dispatches have read.
THEOREM OutermostCallsWithData == Spec => CalledWithData
<1>1. IInv /\ [Next]_vars => [\A s \in Fds : Call(s) /\ Depth = 1 => s \in readable]_vars
  <2> SUFFICES ASSUME IInv, NEW s \in Fds, Call(s), Depth = 1 PROVE s \in readable
    OBVIOUS
  <2>1. ArraysOK /\ StackOK /\ WalkOK /\ Len(stack) = 1
    BY DEF IInv, Depth
  <2>2. stack # <<>> /\ Top = stack[1] /\ Top.in \in {"fds", "no_fd"}
    BY <2>1, TopIs
  <2>3. PICK i \in (Top.i + 1)..Len(dispatching) :
          s = dispatching[i] /\ s \in (IF Top.in = "fds" THEN Top.fdsr ELSE Others)
    BY <2>1, CallIs
  <2>5. s \notin Others
    BY SourcesAssumption
  <2>6. Top.in = "fds" /\ s \in Top.fdsr
    BY <2>3, <2>5
  <2> QED
    BY <2>1, <2>2, <2>3, <2>6 DEF WalkOK
<1> QED
  BY <1>1, Invariance, PTL DEF Spec, CalledWithData

=============================================================================
