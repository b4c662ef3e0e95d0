---------------------------- MODULE Shdlc_proofs ----------------------------
(***************************************************************************)
(* Payloads arrive over SHDLC in the order in which they were written, and *)
(* none of them twice, whatever the line loses, damages and delays and for *)
(* any number of sequence numbers: even two are enough.                    *)
(*                                                                         *)
(* The argument: the line keeps the order of the frames, and a write call  *)
(* keeps its sequence number until it returns.  So along what a peer has   *)
(* been given and what is on its way to it the payloads never go back, and *)
(* frames of one payload have one sequence number (Direction).  A frame    *)
(* that is saved has another number than the last one saved, hence another *)
(* payload, hence a later one.  Nothing is needed about the answers: the   *)
(* wrong one ends a write call, as a right one does.                       *)
(***************************************************************************)
EXTENDS Shdlc, SequenceTheorems, FiniteSetTheorems, TLAPS

-----------------------------------------------------------------------------
(* The inductive invariant. *)

Busy == {"ack", "resend"}

\* l is on its way from a sender that has made s write calls, has sequence number
\* sn and is at the label at, to a receiver that has been given rec and has saved
\* a frame numbered last.
OnLine(l, s, sn, at) ==
  /\ \A i \in 1..Len(l) : l[i].kind = "DATA" =>
       /\ l[i].payload \in 1..s
       /\ at \in Busy /\ l[i].payload = s => l[i].seqno = sn
  /\ \A i, j \in 1..Len(l) : i < j /\ l[i].kind = "DATA" /\ l[j].kind = "DATA" =>
       /\ l[i].payload <= l[j].payload
       /\ l[i].payload = l[j].payload => l[i].seqno = l[j].seqno

\* What is on its way is not older than what has been given.
NotOlder(l, rec, last) ==
  \A i \in 1..Len(l), k \in 1..Len(rec) : l[i].kind = "DATA" =>
    /\ rec[k] <= l[i].payload
    /\ rec[k] = l[i].payload => l[i].seqno = last

Given(s, sn, at, rec, last) ==
  /\ \A k \in 1..Len(rec) : rec[k] \in 1..s /\ (at \in Busy /\ rec[k] = s => last = sn)
  /\ \A k, m \in 1..Len(rec) : k < m => rec[k] < rec[m]

Direction(l, s, sn, at, rec, last) ==
  OnLine(l, s, sn, at) /\ NotOlder(l, rec, last) /\ Given(s, sn, at, rec, last)

\* From the other peer to p.
Channel(p) == LET q == Other(p) IN
  Direction(line[p], sent[q], seqno[q], pc[q], Received(p), last_seqno[p])

\* A loop that is left when the retries are used up has some left.
RetriesLeft == \A p \in Peers : pc[p] # "idle" => retry[p] < RetryTimes

Types == TypeOK /\ RetriesLeft

\* read awaits a frame only when nothing is saved; there is a payload to write.
AtLabels ==
  \A p \in Peers : (pc[p] = "data" => rb[p] = <<>>) /\ (pc[p] \in Busy => sent[p] # 0)

IInv == Types /\ AtLabels /\ \A p \in Peers : Channel(p)

-----------------------------------------------------------------------------
(* The two peers. *)

LEMMA TwoPeers ==
  ASSUME NEW p \in Peers
  PROVE  Other(p) \in Peers /\ Other(p) # p /\ Peers = {p, Other(p)}
<1>1. IsFiniteSet(Peers \ {p}) /\ Cardinality(Peers \ {p}) = 1
  BY PeersAssumption, FS_RemoveElement
<1>2. PICK q : Peers \ {p} = {q}
  BY <1>1, FS_Singleton
<1>3. q \in Peers /\ q # p /\ Peers = {p, q}
  BY <1>2
<1>4. Other(p) = q
  BY <1>3 DEF Other
<1> QED
  BY <1>3, <1>4

LEMMA OtherOther ==
  ASSUME NEW p \in Peers
  PROVE  Other(Other(p)) = p
BY TwoPeers

-----------------------------------------------------------------------------
(* Steps of one direction. *)

\* Frames vanish, are damaged, or answers come after them: the data frames that
\* are left, l[h[i]], were there before in the same order.
LEMMA FramesGo ==
  ASSUME NEW l \in Seq(Frame), NEW m \in Seq(Frame), NEW h,
         \A i \in 1..Len(m) : m[i].kind = "DATA" => h[i] \in 1..Len(l) /\ m[i] = l[h[i]],
         \A i, j \in 1..Len(m) : i < j /\ m[i].kind = "DATA" /\ m[j].kind = "DATA" => h[i] < h[j],
         NEW s, NEW sn, NEW at, NEW rec, NEW last, Direction(l, s, sn, at, rec, last)
  PROVE  Direction(m, s, sn, at, rec, last)
<1>1. OnLine(m, s, sn, at)
  <2>1. ASSUME NEW i \in 1..Len(m), m[i].kind = "DATA"
        PROVE  m[i].payload \in 1..s /\ (at \in Busy /\ m[i].payload = s => m[i].seqno = sn)
    BY <2>1 DEF Direction, OnLine
  <2>2. ASSUME NEW i \in 1..Len(m), NEW j \in 1..Len(m), i < j, m[i].kind = "DATA", m[j].kind = "DATA"
        PROVE  m[i].payload <= m[j].payload /\ (m[i].payload = m[j].payload => m[i].seqno = m[j].seqno)
    <3>1. /\ h[i] \in 1..Len(l) /\ h[j] \in 1..Len(l) /\ h[i] < h[j]
          /\ m[i] = l[h[i]] /\ m[j] = l[h[j]]
      BY <2>2
    <3> QED
      BY <2>2, <3>1 DEF Direction, OnLine
  <2> QED
    BY <2>1, <2>2 DEF OnLine
<1>2. NotOlder(m, rec, last)
  BY DEF Direction, NotOlder
<1> QED
  BY <1>1, <1>2 DEF Direction

\* The first frame is taken.
LEMMA FirstGoes ==
  ASSUME NEW l \in Seq(Frame), l # <<>>,
         NEW s, NEW sn, NEW at, NEW rec, NEW last, Direction(l, s, sn, at, rec, last)
  PROVE  Tail(l) \in Seq(Frame) /\ Direction(Tail(l), s, sn, at, rec, last)
<1> DEFINE h == [i \in 1..Len(Tail(l)) |-> i + 1]
<1>1. /\ Tail(l) \in Seq(Frame) /\ Len(l) \in Nat /\ Len(Tail(l)) = Len(l) - 1
      /\ \A i \in 1..Len(Tail(l)) : Tail(l)[i] = l[i + 1]
  BY HeadTailProperties, LenProperties
<1>2. \A i \in 1..Len(Tail(l)) : h[i] \in 1..Len(l) /\ Tail(l)[i] = l[h[i]]
  BY <1>1
<1>3. \A i, j \in 1..Len(Tail(l)) : i < j => h[i] < h[j]
  BY <1>1
<1> HIDE DEF h
<1> QED
  BY <1>1, <1>2, <1>3, FramesGo

\* Answers are sent.
LEMMA AnswersCome ==
  ASSUME NEW l \in Seq(Frame), NEW a \in Seq(Frame), \A i \in 1..Len(a) : a[i].kind # "DATA",
         NEW s, NEW sn, NEW at, NEW rec, NEW last, Direction(l, s, sn, at, rec, last)
  PROVE  l \o a \in Seq(Frame) /\ Direction(l \o a, s, sn, at, rec, last)
<1> DEFINE h == [i \in 1..Len(l \o a) |-> i]
<1>1. /\ l \o a \in Seq(Frame) /\ Len(l) \in Nat /\ Len(a) \in Nat /\ Len(l \o a) = Len(l) + Len(a)
      /\ \A i \in 1..Len(l) + Len(a) : (l \o a)[i] = IF i <= Len(l) THEN l[i] ELSE a[i - Len(l)]
  BY ConcatProperties, LenProperties
<1>2. ASSUME NEW i \in 1..Len(l \o a), (l \o a)[i].kind = "DATA"
      PROVE  h[i] \in 1..Len(l) /\ (l \o a)[i] = l[h[i]]
  <2>1. CASE i <= Len(l)
    BY <1>1, <2>1
  <2>2. CASE ~(i <= Len(l))
    <3>1. i - Len(l) \in 1..Len(a) /\ (l \o a)[i] = a[i - Len(l)]
      BY <1>1, <2>2
    <3> QED
      BY <1>2, <3>1
  <2> QED
    BY <2>1, <2>2
<1>3. \A i, j \in 1..Len(l \o a) : i < j => h[i] < h[j]
  BY <1>1
<1> HIDE DEF h
<1> QED
  BY <1>1, <1>2, <1>3, FramesGo

\* A write call ends.
LEMMA CallEnds ==
  ASSUME NEW l, NEW s, NEW sn, NEW at, NEW rec, NEW last, Direction(l, s, sn, at, rec, last),
         NEW sn2, NEW at2, at2 \in Busy => at \in Busy /\ sn2 = sn
  PROVE  Direction(l, s, sn2, at2, rec, last)
BY DEF Direction, OnLine, NotOlder, Given

\* A write call begins.
LEMMA CallBegins ==
  ASSUME NEW l \in Seq(Frame), NEW s \in Nat, NEW sn, NEW at, NEW rec \in Seq(Nat), NEW last,
         Direction(l, s, sn, at, rec, last), NEW sn2, NEW at2
  PROVE  Direction(l, s + 1, sn2, at2, rec, last)
<1>1. OnLine(l, s + 1, sn2, at2)
  BY DEF Direction, OnLine
<1>2. Given(s + 1, sn2, at2, rec, last)
  BY DEF Direction, Given
<1> QED
  BY <1>1, <1>2 DEF Direction

\* It sends its frame, for the first time or again.
LEMMA DataComes ==
  ASSUME NEW l \in Seq(Frame), NEW s \in Nat, NEW sn \in 0..SeqMod-1, NEW at \in Busy,
         NEW rec \in Seq(Nat), NEW last, Direction(l, s, sn, at, rec, last), s > 0
  PROVE  Append(l, Data(sn, s)) \in Seq(Frame) /\ Direction(Append(l, Data(sn, s)), s, sn, at, rec, last)
<1> DEFINE d == Data(sn, s)  m == Append(l, d)
<1>1. d \in Frame /\ d.kind = "DATA" /\ d.seqno = sn /\ d.payload = s
  BY DEF Data, Frame
<1> HIDE DEF d
<1>2. m \in Seq(Frame) /\ Len(m) = Len(l) + 1 /\ m[Len(l) + 1] = d /\ \A i \in 1..Len(l) : m[i] = l[i]
  BY <1>1
<1>3. Len(l) \in Nat /\ \A i \in 1..Len(l) : l[i] \in Frame
  BY LenProperties, ElementOfSeq
<1> HIDE DEF m
<1>4. \A i \in 1..Len(m) : i \in 1..Len(l) \/ i = Len(l) + 1
  BY <1>2, <1>3
<1>5. OnLine(m, s, sn, at)
  <2>1. \A i \in 1..Len(m) : m[i].kind = "DATA" =>
          /\ m[i].payload \in 1..s
          /\ m[i].payload = s => m[i].seqno = sn
    <3> SUFFICES ASSUME NEW i \in 1..Len(m), m[i].kind = "DATA"
                 PROVE  m[i].payload \in 1..s /\ (m[i].payload = s => m[i].seqno = sn)
      OBVIOUS
    <3>1. CASE i \in 1..Len(l)
      <4>1. m[i] = l[i]
        BY <1>2, <3>1
      <4> QED
        BY <3>1, <4>1 DEF Direction, OnLine
    <3>2. CASE i = Len(l) + 1
      BY <1>1, <1>2, <3>2
    <3> QED
      BY <1>4, <3>1, <3>2
  <2>2. \A i, j \in 1..Len(m) : i < j /\ m[i].kind = "DATA" /\ m[j].kind = "DATA" =>
          /\ m[i].payload <= m[j].payload
          /\ m[i].payload = m[j].payload => m[i].seqno = m[j].seqno
    <3> SUFFICES ASSUME NEW i \in 1..Len(m), NEW j \in 1..Len(m), i < j,
                        m[i].kind = "DATA", m[j].kind = "DATA"
                 PROVE  m[i].payload <= m[j].payload /\ (m[i].payload = m[j].payload => m[i].seqno = m[j].seqno)
      OBVIOUS
    <3>1. i \in 1..Len(l) /\ i \in Nat
      BY <1>2, <1>3
    <3>2. CASE j \in 1..Len(l)
      <4>1. m[i] = l[i] /\ m[j] = l[j]
        BY <1>2, <3>1, <3>2
      <4> QED
        BY <3>1, <3>2, <4>1 DEF Direction, OnLine
    <3>3. CASE j = Len(l) + 1
      <4>1. m[j].payload = s /\ m[j].seqno = sn
        BY <1>1, <1>2, <3>3
      <4> QED
        BY <2>1, <4>1
    <3> QED
      BY <1>4, <3>2, <3>3
  <2> QED
    BY <2>1, <2>2 DEF OnLine
<1>6. NotOlder(m, rec, last)
  <2> SUFFICES ASSUME NEW i \in 1..Len(m), NEW k \in 1..Len(rec), m[i].kind = "DATA"
               PROVE  rec[k] <= m[i].payload /\ (rec[k] = m[i].payload => m[i].seqno = last)
    BY DEF NotOlder
  <2>1. CASE i \in 1..Len(l)
    BY <1>2, <2>1 DEF Direction, NotOlder
  <2>2. CASE i = Len(l) + 1
    <3>1. m[i].payload = s /\ m[i].seqno = sn
      BY <1>1, <1>2, <2>2
    <3> QED
      BY <3>1 DEF Direction, Given
  <2> QED
    BY <1>4, <2>1, <2>2
<1> QED
  BY <1>2, <1>5, <1>6 DEF Direction, m, d

\* A frame that is not a duplicate is saved.
LEMMA FrameSaved ==
  ASSUME NEW l \in Seq(Frame), l # <<>>, NEW s \in Nat, NEW sn, NEW at, NEW rec \in Seq(Nat), NEW last,
         Direction(l, s, sn, at, rec, last), NEW f, f = Head(l), f.kind = "DATA", f.seqno # last
  PROVE  /\ f.payload \in 1..s /\ \A k \in 1..Len(rec) : rec[k] < f.payload
         /\ Direction(Tail(l), s, sn, at, Append(rec, f.payload), f.seqno)
<1> DEFINE n == f.payload  rec2 == Append(rec, n)  m == Tail(l)
<1>1. /\ f = l[1] /\ m \in Seq(Frame) /\ Len(l) \in Nat /\ Len(l) > 0 /\ Len(m) = Len(l) - 1
      /\ \A i \in 1..Len(m) : m[i] = l[i + 1] /\ i + 1 \in 1..Len(l) /\ 1 < i + 1
  BY HeadTailProperties, LenProperties
<1>2. n \in 1..s /\ (at \in Busy /\ n = s => f.seqno = sn)
  BY <1>1 DEF Direction, OnLine
<1>3. \A k \in 1..Len(rec) : rec[k] \in Nat /\ rec[k] < n
  BY <1>1, <1>2 DEF Direction, NotOlder
<1>4. /\ Len(rec) \in Nat /\ Len(rec2) = Len(rec) + 1 /\ rec2[Len(rec) + 1] = n
      /\ \A k \in 1..Len(rec) : rec2[k] = rec[k]
  BY <1>2
<1>5. \A k \in 1..Len(rec2) : k \in 1..Len(rec) \/ k = Len(rec) + 1
  BY <1>4
<1>6. OnLine(m, s, sn, at)
  BY FirstGoes DEF Direction
<1>7. \A i \in 1..Len(m) : m[i].kind = "DATA" => n <= m[i].payload /\ (n = m[i].payload => m[i].seqno = f.seqno)
  BY <1>1 DEF Direction, OnLine
<1>8. \A i \in 1..Len(m) : m[i].kind = "DATA" => m[i].payload \in Nat
  BY <1>6 DEF OnLine
<1> HIDE DEF n, rec2, m
<1>9. NotOlder(m, rec2, f.seqno)
  <2> SUFFICES ASSUME NEW i \in 1..Len(m), NEW k \in 1..Len(rec2), m[i].kind = "DATA"
               PROVE  rec2[k] <= m[i].payload /\ (rec2[k] = m[i].payload => m[i].seqno = f.seqno)
    BY DEF NotOlder
  <2>1. CASE k \in 1..Len(rec)
    <3>1. rec2[k] \in Nat /\ rec2[k] < n
      BY <1>3, <1>4, <2>1
    <3>2. m[i].payload \in Nat /\ n <= m[i].payload /\ n \in Nat
      BY <1>2, <1>7, <1>8
    <3> QED
      BY <3>1, <3>2
  <2>2. CASE k = Len(rec) + 1
    BY <1>4, <1>7, <2>2
  <2> QED
    BY <1>5, <2>1, <2>2
<1>10. Given(s, sn, at, rec2, f.seqno)
  <2>1. ASSUME NEW k \in 1..Len(rec2)
        PROVE  rec2[k] \in 1..s /\ (at \in Busy /\ rec2[k] = s => f.seqno = sn)
    <3>1. CASE k \in 1..Len(rec)
      BY <1>2, <1>3, <1>4, <3>1 DEF Direction, Given
    <3>2. CASE k = Len(rec) + 1
      BY <1>2, <1>4, <3>2
    <3> QED
      BY <1>5, <3>1, <3>2
  <2>2. ASSUME NEW k \in 1..Len(rec2), NEW j \in 1..Len(rec2), k < j
        PROVE  rec2[k] < rec2[j]
    <3>1. k \in 1..Len(rec)
      BY <1>4, <2>2
    <3>2. CASE j \in 1..Len(rec)
      BY <1>4, <2>2, <3>1, <3>2 DEF Direction, Given
    <3>3. CASE j = Len(rec) + 1
      BY <1>3, <1>4, <3>1, <3>3
    <3> QED
      BY <1>5, <3>2, <3>3
  <2> QED
    BY <2>1, <2>2 DEF Given
<1> QED
  BY <1>2, <1>3, <1>6, <1>9, <1>10 DEF Direction, n, rec2, m

-----------------------------------------------------------------------------
(* What the helpers do to the line. *)

LEMMA AnswerIsFrame ==
  ASSUME NEW k \in {"ACK", "NACK", "BAD"}
  PROVE  Answer(k) \in Frame /\ Answer(k).kind # "DATA"
BY SeqAssumption DEF Answer, Frame

LEMMA AcksAre ==
  ASSUME NEW n \in Nat
  PROVE  Acks(n) \in Seq(Frame) /\ \A i \in 1..Len(Acks(n)) : Acks(n)[i].kind # "DATA"
<1>1. Answer("ACK") \in Frame /\ Answer("ACK").kind # "DATA"
  BY AnswerIsFrame
<1>2. Acks(n) \in [1..n -> Frame] /\ \A i \in 1..n : Acks(n)[i] = Answer("ACK")
  BY <1>1 DEF Acks
<1>3. Acks(n) \in Seq(Frame) /\ Len(Acks(n)) = n
  BY <1>2
<1> QED
  BY <1>1, <1>2, <1>3

LEMMA NackAlone ==
  /\ <<Answer("NACK")>> \in Seq(Frame)
  /\ \A i \in 1..Len(<<Answer("NACK")>>) : <<Answer("NACK")>>[i].kind # "DATA"
<1>1. Answer("NACK") \in Frame /\ Answer("NACK").kind # "DATA"
  BY AnswerIsFrame
<1> QED
  BY <1>1

\* One direction of the line after a step: frames have gone from it or have
\* been damaged, and answers have come.
LessData(l, m) ==
  \A s, sn, at, rec, last : Direction(l, s, sn, at, rec, last) => Direction(m, s, sn, at, rec, last)

LEMMA TakeIs ==
  ASSUME TypeOK, NEW p \in Peers, line[p] # <<>>,
         NEW a \in Seq(Frame), \A i \in 1..Len(a) : a[i].kind # "DATA", Take(p, a)
  PROVE  /\ line' \in [Peers -> Seq(Frame)] /\ line'[p] = Tail(line[p])
         /\ \A x \in Peers : LessData(line[x], line'[x])
<1> DEFINE q == Other(p)
<1>1. q \in Peers /\ q # p /\ Peers = {p, q}
  BY TwoPeers
<1> HIDE DEF q
<1>2. line \in [Peers -> Seq(Frame)]
  BY DEF TypeOK
<1>3. line' = [line EXCEPT ![p] = Tail(line[p]), ![q] = line[q] \o a]
  BY <1>1, <1>2 DEF Take, q
<1>4. line'[p] = Tail(line[p]) /\ line'[q] = line[q] \o a
  BY <1>1, <1>2, <1>3
<1>5. Tail(line[p]) \in Seq(Frame) /\ LessData(line[p], line'[p])
  BY <1>2, <1>4, FirstGoes, HeadTailProperties DEF LessData
<1>6. line[q] \o a \in Seq(Frame) /\ LessData(line[q], line'[q])
  BY <1>1, <1>2, <1>4, AnswersCome, ConcatProperties DEF LessData
<1>7. line' \in [Peers -> Seq(Frame)]
  BY <1>2, <1>3, <1>5, <1>6
<1> QED
  BY <1>1, <1>4, <1>5, <1>6, <1>7

LEMMA TakeNone ==
  ASSUME TypeOK, NEW p \in Peers, line[p] # <<>>, Take(p, <<>>)
  PROVE  /\ line' \in [Peers -> Seq(Frame)] /\ line'[p] = Tail(line[p])
         /\ \A x \in Peers : LessData(line[x], line'[x])
<1>1. <<>> \in Seq(Frame) /\ Len(<<>>) = 0
  BY EmptySeq
<1> DEFINE a == <<>>
<1>2. a \in Seq(Frame) /\ \A i \in 1..Len(a) : a[i].kind # "DATA"
  BY <1>1
<1>3. Take(p, a)
  OBVIOUS
<1> HIDE DEF a
<1> QED
  BY <1>2, <1>3, TakeIs

LEMMA HeadIsFrame ==
  ASSUME TypeOK, NEW p \in Peers, line[p] # <<>>
  PROVE  Head(line[p]) \in Frame /\ Head(line[p]).payload \in Nat
<1>1. Head(line[p]) \in Frame
  BY HeadTailProperties DEF TypeOK
<1> QED
  BY <1>1 DEF Frame

LEMMA PutIs ==
  ASSUME TypeOK, NEW q \in Peers, NEW f \in Frame, Put(q, f)
  PROVE  /\ line' \in [Peers -> Seq(Frame)]
         /\ \A x \in Peers : x # q => line'[x] = line[x]
         /\ line'[q] \in {line[q], Append(line[q], f)}
<1>1. line \in [Peers -> Seq(Frame)]
  BY DEF TypeOK
<1>2. CASE line' = [line EXCEPT ![q] = Append(line[q], f)]
  <2>1. Append(line[q], f) \in Seq(Frame)
    BY <1>1
  <2> QED
    BY <1>1, <1>2, <2>1
<1>3. CASE line' = line
  BY <1>1, <1>3
<1> QED
  BY <1>2, <1>3 DEF Put

\* A frame vanishes.
LEMMA LoseIs ==
  ASSUME TypeOK, NEW p \in Peers, Lose(p)
  PROVE  line' \in [Peers -> Seq(Frame)] /\ \A x \in Peers : LessData(line[x], line'[x])
<1> DEFINE l == line[p]
<1>1. line \in [Peers -> Seq(Frame)] /\ l \in Seq(Frame)
  BY DEF TypeOK
<1>2. PICK i \in 1..Len(l) : line' = [line EXCEPT ![p] = SubSeq(l, 1, i - 1) \o SubSeq(l, i + 1, Len(l))]
  BY <1>1 DEF Lose
<1> DEFINE a == SubSeq(l, 1, i - 1)  b == SubSeq(l, i + 1, Len(l))  m == a \o b
           h == [k \in 1..Len(m) |-> IF k < i THEN k ELSE k + 1]
<1>3. Len(l) \in Nat /\ i \in Nat /\ i <= Len(l) /\ 0 < i /\ \A k \in 1..Len(l) : l[k] \in Frame
  BY <1>1, LenProperties, ElementOfSeq
<1>4. a \in Seq(Frame) /\ Len(a) = i - 1 /\ \A k \in 1..i-1 : a[k] = l[k]
  <2>1. a \in Seq(Frame) /\ Len(a) = (IF 1 <= i - 1 THEN i - 1 - 1 + 1 ELSE 0)
        /\ \A k \in 1..(i - 1 - 1 + 1) : a[k] = l[1 + k - 1]
    BY <1>3, SubSeqProperties
  <2> QED
    BY <1>3, <2>1
<1>5. b \in Seq(Frame) /\ Len(b) = Len(l) - i /\ \A k \in 1..Len(l)-i : b[k] = l[i + k]
  <2>1. b \in Seq(Frame) /\ Len(b) = (IF i + 1 <= Len(l) THEN Len(l) - (i + 1) + 1 ELSE 0)
        /\ \A k \in 1..(Len(l) - (i + 1) + 1) : b[k] = l[(i + 1) + k - 1]
    BY <1>3, SubSeqProperties
  <2> QED
    BY <1>3, <2>1
<1> HIDE DEF a, b
<1>6. /\ m \in Seq(Frame) /\ Len(m) = Len(l) - 1
      /\ \A k \in 1..Len(l)-1 : m[k] = IF k < i THEN a[k] ELSE b[k - (i - 1)]
  <2>1. m \in Seq(Frame) /\ Len(m) = Len(a) + Len(b)
        /\ \A k \in 1..Len(a)+Len(b) : m[k] = IF k <= Len(a) THEN a[k] ELSE b[k - Len(a)]
    BY <1>4, <1>5, ConcatProperties
  <2> QED
    BY <1>3, <1>4, <1>5, <2>1
<1> HIDE DEF m
<1>7. \A k \in 1..Len(m) : h[k] \in 1..Len(l) /\ m[k] = l[h[k]]
  <2> SUFFICES ASSUME NEW k \in 1..Len(m) PROVE h[k] \in 1..Len(l) /\ m[k] = l[h[k]]
    OBVIOUS
  <2>1. CASE k < i
    BY <1>3, <1>4, <1>6, <2>1
  <2>2. CASE ~(k < i)
    <3>1. k - (i - 1) \in 1..Len(l)-i /\ i + (k - (i - 1)) = k + 1 /\ k + 1 \in 1..Len(l)
      BY <1>3, <1>6, <2>2
    <3>2. m[k] = b[k - (i - 1)]
      BY <1>6, <2>2
    <3>3. m[k] = l[k + 1]
      BY <1>5, <3>1, <3>2
    <3> QED
      BY <2>2, <3>1, <3>3
  <2> QED
    BY <2>1, <2>2
<1>8. \A k, j \in 1..Len(m) : k < j => h[k] < h[j]
  BY <1>3, <1>6
<1> HIDE DEF h
<1>9. LessData(l, m)
  <2> SUFFICES ASSUME NEW s, NEW sn, NEW at, NEW rec, NEW last, Direction(l, s, sn, at, rec, last)
               PROVE  Direction(m, s, sn, at, rec, last)
    BY DEF LessData
  <2>1. \A k \in 1..Len(m) : m[k].kind = "DATA" => h[k] \in 1..Len(l) /\ m[k] = l[h[k]]
    BY <1>7
  <2>2. \A k, j \in 1..Len(m) : k < j /\ m[k].kind = "DATA" /\ m[j].kind = "DATA" => h[k] < h[j]
    BY <1>8
  <2> HIDE DEF l
  <2> QED
    BY <1>1, <1>6, <2>1, <2>2, FramesGo
<1>10. line' = [line EXCEPT ![p] = m]
  BY <1>2 DEF m, a, b
<1> QED
  BY <1>1, <1>6, <1>9, <1>10 DEF LessData

\* A frame is damaged.
LEMMA SpoilIs ==
  ASSUME TypeOK, NEW p \in Peers, Spoil(p)
  PROVE  line' \in [Peers -> Seq(Frame)] /\ \A x \in Peers : LessData(line[x], line'[x])
<1> DEFINE l == line[p]
<1>1. line \in [Peers -> Seq(Frame)] /\ l \in Seq(Frame)
  BY DEF TypeOK
<1>2. PICK i \in 1..Len(l) : \E f \in Damaged(l[i]) : line' = [line EXCEPT ![p][i] = f]
  BY DEF Spoil
<1>3. PICK f \in Damaged(l[i]) : line' = [line EXCEPT ![p][i] = f]
  BY <1>2
<1>4. f \in Frame /\ f.kind # "DATA"
  BY AnswerIsFrame DEF Damaged
<1> DEFINE m == [l EXCEPT ![i] = f]
           h == [k \in 1..Len(m) |-> k]
<1>5. line' = [line EXCEPT ![p] = m]
  BY <1>3
<1>6. /\ m \in Seq(Frame) /\ Len(m) = Len(l)
      /\ \A k \in 1..Len(l) : m[k] = IF k = i THEN f ELSE l[k]
  BY <1>4, <1>1, ExceptSeq
<1> HIDE DEF m
<1>7. \A k \in 1..Len(m) : m[k].kind = "DATA" => h[k] \in 1..Len(l) /\ m[k] = l[h[k]]
  BY <1>4, <1>6
<1>8. \A k, j \in 1..Len(m) : k < j => h[k] < h[j]
  OBVIOUS
<1> HIDE DEF h
<1>9. LessData(l, m)
  BY <1>1, <1>6, <1>7, <1>8, FramesGo DEF LessData
<1> QED
  BY <1>1, <1>5, <1>6, <1>9 DEF LessData

-----------------------------------------------------------------------------
(* Types. *)

LEMMA TypesInit == Init => Types
BY SeqAssumption, BoundsAssumption DEF Init, Types, TypeOK, RetriesLeft

\* What is counted, in Retry and in CountNack.
LEMMA Counted ==
  ASSUME Types, NEW p \in Peers, pc[p] # "idle", NEW a \in {"resend", "data"},
         retry' = [retry EXCEPT ![p] = @ + 1],
         pc' = [pc EXCEPT ![p] = IF retry'[p] < RetryTimes THEN a ELSE "idle"]
  PROVE  /\ pc' \in [Peers -> {"idle", "ack", "resend", "data"}]
         /\ retry' \in [Peers -> 0..RetryTimes]
         /\ RetriesLeft'
<1>1. retry[p] \in 0..RetryTimes /\ retry[p] < RetryTimes /\ RetryTimes \in Nat
  BY BoundsAssumption DEF Types, TypeOK, RetriesLeft
<1>2. retry'[p] = retry[p] + 1 /\ retry[p] + 1 \in 0..RetryTimes
  BY <1>1 DEF Types, TypeOK
<1>3. retry' \in [Peers -> 0..RetryTimes]
  BY <1>2 DEF Types, TypeOK
<1>4. pc' \in [Peers -> {"idle", "ack", "resend", "data"}]
  BY DEF Types, TypeOK
<1>5. RetriesLeft'
  BY <1>2 DEF Types, TypeOK, RetriesLeft
<1> QED
  BY <1>3, <1>4, <1>5

\* A frame is saved or not, and answered.
LEMMA SaveIs ==
  ASSUME TypeOK, NEW p \in Peers, line[p] # <<>>, NEW ok \in BOOLEAN, Save(p, Head(line[p]), ok)
  PROVE  /\ line' \in [Peers -> Seq(Frame)] /\ line'[p] = Tail(line[p])
         /\ \A x \in Peers : LessData(line[x], line'[x])
         /\ last_seqno' = IF ok THEN [last_seqno EXCEPT ![p] = Head(line[p]).seqno] ELSE last_seqno
         /\ last_seqno' \in [Peers -> 0..SeqMod]
         /\ ok => Head(line[p]).seqno # last_seqno[p]
<1> DEFINE f == Head(line[p])
<1>1. f \in Frame
  BY HeadTailProperties DEF TypeOK
<1>2. \E n \in {1, 2} : Take(p, Acks(n))
  BY DEF Save
<1>3. /\ line' \in [Peers -> Seq(Frame)] /\ line'[p] = Tail(line[p])
      /\ \A x \in Peers : LessData(line[x], line'[x])
  BY <1>2, AcksAre, TakeIs
<1>4. ok => f.seqno # last_seqno[p]
  BY DEF Save
<1>5. f.seqno \in 0..SeqMod
  BY <1>1, SeqAssumption DEF Frame
<1> HIDE DEF f
<1>6. last_seqno' = IF ok THEN [last_seqno EXCEPT ![p] = f.seqno] ELSE last_seqno
  BY DEF Save, TypeOK, f
<1>7. last_seqno' \in [Peers -> 0..SeqMod]
  BY <1>5, <1>6 DEF TypeOK
<1> QED
  BY <1>3, <1>4, <1>6, <1>7 DEF f

\* A write call, or a pass of its loop, sends its frame or fails.
LEMMA SendIs ==
  ASSUME TypeOK, NEW p \in Peers, sent'[p] \in Nat, SendData(p) \/ SendFails(p)
  PROVE  /\ line' \in [Peers -> Seq(Frame)]
         /\ \A x \in Peers : x # Other(p) => line'[x] = line[x]
         /\ line'[Other(p)] \in {line[Other(p)], Append(line[Other(p)], Data(seqno[p], sent'[p]))}
         /\ line'[Other(p)] = line[Other(p)] \/ pc'[p] = "ack"
         /\ reported' \in [Peers -> BOOLEAN]
         /\ \/ pc' = [pc EXCEPT ![p] = "ack"]
            \/ pc' = [pc EXCEPT ![p] = "idle"]
<1>1. CASE SendData(p)
  <2>1. Data(seqno[p], sent'[p]) \in Frame
    BY DEF Data, Frame, TypeOK
  <2>2. Other(p) \in Peers
    BY TwoPeers
  <2> QED
    BY <1>1, <2>1, <2>2, PutIs DEF SendData, TypeOK
<1>2. CASE SendFails(p)
  BY <1>2 DEF SendFails, TypeOK
<1> QED
  BY <1>1, <1>2

LEMMA TypesNext == Types /\ [Next]_vars => Types'
<1> SUFFICES ASSUME Types, [Next]_vars PROVE Types'
  OBVIOUS
<1> USE DEF Types
<1>0. RetryTimes \in Nat /\ 0 < RetryTimes /\ 0 \in 0..RetryTimes
  BY BoundsAssumption
<1>1. ASSUME NEW p \in Peers, Write(p) PROVE Types'
  <2>1. sent' = [sent EXCEPT ![p] = @ + 1] /\ sent[p] < MaxWrites[p] /\ MaxWrites[p] \in Nat
    BY <1>1, BoundsAssumption DEF Write
  <2>2. sent' \in [Peers -> Nat] /\ \A x \in Peers : sent'[x] <= MaxWrites[x]
    <3>1. sent[p] + 1 \in Nat /\ sent[p] + 1 <= MaxWrites[p]
      BY <2>1 DEF TypeOK
    <3> QED
      BY <2>1, <3>1 DEF TypeOK
  <2>3. sent'[p] \in Nat
    BY <2>2
  <2> QED
    <3>1. /\ line' \in [Peers -> Seq(Frame)] /\ reported' \in [Peers -> BOOLEAN]
          /\ pc' = [pc EXCEPT ![p] = "ack"] \/ pc' = [pc EXCEPT ![p] = "idle"]
      BY <1>1, <2>3, SendIs DEF Write
    <3>2. retry' = [retry EXCEPT ![p] = 0] /\ UNCHANGED <<seqno, last_seqno, rb, is_ok, got>>
      BY <1>1 DEF Write
    <3>3. TypeOK'
      BY <1>0, <2>2, <3>1, <3>2 DEF TypeOK
    <3> QED
      BY <1>0, <3>1, <3>2, <3>3 DEF TypeOK, RetriesLeft
<1>2. ASSUME NEW p \in Peers, Resend(p) PROVE Types'
  <2>1. sent'[p] \in Nat
    BY <1>2 DEF Resend, TypeOK
  <2> QED
    <3>1. /\ line' \in [Peers -> Seq(Frame)] /\ reported' \in [Peers -> BOOLEAN]
          /\ pc' = [pc EXCEPT ![p] = "ack"] \/ pc' = [pc EXCEPT ![p] = "idle"]
      BY <1>2, <2>1, SendIs DEF Resend
    <3>2. pc[p] # "idle" /\ UNCHANGED <<sent, seqno, last_seqno, rb, retry, is_ok, got>>
      BY <1>2 DEF Resend
    <3> QED
      BY <3>1, <3>2 DEF TypeOK, RetriesLeft
<1>3. ASSUME NEW p \in Peers, Acked(p) PROVE Types'
  <2>1. SeqnoInc(seqno[p]) \in 0..SeqMod-1
    BY SeqAssumption DEF SeqnoInc, TypeOK
  <2>2. line' \in [Peers -> Seq(Frame)]
    BY <1>3, TakeNone DEF Acked, Receives
  <2> QED
    BY <1>3, <2>1, <2>2 DEF Acked, TypeOK, RetriesLeft
<1>4. ASSUME NEW p \in Peers, Nacked(p) PROVE Types'
  <2>1. line' \in [Peers -> Seq(Frame)]
    BY <1>4, TakeNone DEF Nacked, Receives
  <2>2. /\ pc' \in [Peers -> {"idle", "ack", "resend", "data"}]
        /\ retry' \in [Peers -> 0..RetryTimes]
        /\ RetriesLeft'
    BY <1>4, Counted DEF Nacked, Retry
  <2> QED
    BY <1>4, <2>1, <2>2 DEF Nacked, TypeOK
<1>5. ASSUME NEW p \in Peers, AckTimeout(p) PROVE Types'
  <2>1. /\ pc' \in [Peers -> {"idle", "ack", "resend", "data"}]
        /\ retry' \in [Peers -> 0..RetryTimes]
        /\ RetriesLeft'
    BY <1>5, Counted DEF AckTimeout, Retry
  <2> QED
    BY <1>5, <2>1 DEF AckTimeout, TypeOK
<1>6. ASSUME NEW p \in Peers, DataWhileWriting(p) PROVE Types'
  <2> DEFINE f == Head(line[p])
  <2>1. line[p] # <<>> /\ f.payload \in Nat
    BY <1>6, HeadIsFrame DEF DataWhileWriting, Receives
  <2>2. line' \in [Peers -> Seq(Frame)] /\ last_seqno' \in [Peers -> 0..SeqMod]
    BY <1>6, <2>1, SaveIs DEF DataWhileWriting
  <2> HIDE DEF f
  <2>3. rb' \in [Peers -> Seq(Nat)]
    <3>1. rb' = [rb EXCEPT ![p] = Append(@, f.payload)] \/ rb' = rb
      BY <1>6 DEF DataWhileWriting, f
    <3>2. Append(rb[p], f.payload) \in Seq(Nat)
      BY <2>1 DEF TypeOK
    <3> QED
      BY <3>1, <3>2 DEF TypeOK
  <2>4. /\ pc' \in [Peers -> {"idle", "ack", "resend", "data"}]
        /\ retry' \in [Peers -> 0..RetryTimes]
        /\ RetriesLeft'
    <3>1. CASE UNCHANGED <<pc, retry>>
      BY <3>1 DEF TypeOK, RetriesLeft
    <3>2. CASE Retry(p)
      BY <1>6, <3>2, Counted DEF DataWhileWriting, Retry
    <3> QED
      BY <1>6, <3>1, <3>2 DEF DataWhileWriting
  <2> QED
    BY <1>6, <2>2, <2>3, <2>4 DEF DataWhileWriting, TypeOK
<1>7. ASSUME NEW p \in Peers, AckBroken(p) PROVE Types'
  BY <1>7 DEF AckBroken, TypeOK, RetriesLeft
<1>8. ASSUME NEW p \in Peers, ReadBuffered(p) PROVE Types'
  <2>1. Head(rb[p]) \in Nat /\ Tail(rb[p]) \in Seq(Nat)
    BY <1>8, HeadTailProperties DEF ReadBuffered, TypeOK
  <2>2. Append(got[p], Head(rb[p])) \in Seq(Nat)
    BY <2>1 DEF TypeOK
  <2>3. got' \in [Peers -> Seq(Nat)] /\ rb' \in [Peers -> Seq(Nat)]
    BY <1>8, <2>1, <2>2 DEF ReadBuffered, TypeOK
  <2> QED
    BY <1>8, <2>3 DEF ReadBuffered, TypeOK, RetriesLeft
<1>9. ASSUME NEW p \in Peers, Read(p) PROVE Types'
  BY <1>0, <1>9 DEF Read, TypeOK, RetriesLeft
<1>10. ASSUME NEW p \in Peers, ReadData(p) PROVE Types'
  <2> DEFINE f == Head(line[p])
  <2>1. line[p] # <<>> /\ f.payload \in Nat
    BY <1>10, HeadIsFrame DEF ReadData, Receives
  <2>2. line' \in [Peers -> Seq(Frame)] /\ last_seqno' \in [Peers -> 0..SeqMod]
    BY <1>10, <2>1, SaveIs DEF ReadData
  <2> HIDE DEF f
  <2>3. got' \in [Peers -> Seq(Nat)]
    <3>1. got' = [got EXCEPT ![p] = Append(@, f.payload)] \/ got' = got
      BY <1>10 DEF ReadData, f
    <3>2. Append(got[p], f.payload) \in Seq(Nat)
      BY <2>1 DEF TypeOK
    <3> QED
      BY <3>1, <3>2 DEF TypeOK
  <2> QED
    BY <1>10, <2>2, <2>3 DEF ReadData, TypeOK, RetriesLeft
<1>11. ASSUME NEW p \in Peers, ReadAnswer(p) PROVE Types'
  <2>1. line' \in [Peers -> Seq(Frame)]
    BY <1>11, TakeNone DEF ReadAnswer, Receives
  <2> QED
    BY <1>0, <1>11, <2>1 DEF ReadAnswer, TypeOK, RetriesLeft
<1>12. ASSUME NEW p \in Peers, ReadBad(p) PROVE Types'
  <2>1. line' \in [Peers -> Seq(Frame)]
    BY <1>12, TakeIs, NackAlone DEF ReadBad, Receives
  <2>2. /\ pc' \in [Peers -> {"idle", "ack", "resend", "data"}]
        /\ retry' \in [Peers -> 0..RetryTimes]
        /\ RetriesLeft'
    BY <1>12, Counted DEF ReadBad, CountNack
  <2> QED
    BY <1>12, <2>1, <2>2 DEF ReadBad, TypeOK
<1>13. ASSUME NEW p \in Peers, ReadShort(p) PROVE Types'
  <2>1. line' \in [Peers -> Seq(Frame)]
    BY <1>13, TakeNone DEF ReadShort, Receives
  <2> QED
    BY <1>13, <2>1 DEF ReadShort, TypeOK, RetriesLeft
<1>14. ASSUME NEW p \in Peers, ReadTimeout(p) PROVE Types'
  <2>1. line' \in [Peers -> Seq(Frame)]
    BY <1>14, TwoPeers, PutIs, AnswerIsFrame DEF ReadTimeout
  <2>2. /\ pc' \in [Peers -> {"idle", "ack", "resend", "data"}]
        /\ retry' \in [Peers -> 0..RetryTimes]
        /\ RetriesLeft'
    BY <1>14, Counted DEF ReadTimeout, CountNack
  <2> QED
    BY <1>14, <2>1, <2>2 DEF ReadTimeout, TypeOK
<1>15. ASSUME NEW p \in Peers, ReadBroken(p) PROVE Types'
  BY <1>15 DEF ReadBroken, TypeOK, RetriesLeft
<1>16. ASSUME NEW p \in Peers, Lose(p) PROVE Types'
  <2>1. line' \in [Peers -> Seq(Frame)]
    BY <1>16, LoseIs
  <2> QED
    BY <1>16, <2>1 DEF Lose, TypeOK, RetriesLeft
<1>17. ASSUME NEW p \in Peers, Spoil(p) PROVE Types'
  <2>1. line' \in [Peers -> Seq(Frame)]
    BY <1>17, SpoilIs
  <2> QED
    BY <1>17, <2>1 DEF Spoil, TypeOK, RetriesLeft
<1>18. ASSUME NEW p \in Peers, AckUnanswered(p) \/ ReadUnanswered(p) PROVE Types'
  <2>1. line' \in [Peers -> Seq(Frame)]
    BY <1>18, TakeNone DEF AckUnanswered, ReadUnanswered, TakeUnanswered, Receives
  <2> QED
    BY <1>18, <2>1 DEF AckUnanswered, ReadUnanswered, TakeUnanswered, TypeOK, RetriesLeft
<1>19. CASE Break
  BY <1>19, EmptySeq DEF Break, TypeOK, RetriesLeft
<1>20. CASE UNCHANGED vars
  BY <1>20 DEF vars, TypeOK, RetriesLeft
<1> QED
  BY <1>1, <1>2, <1>3, <1>4, <1>5, <1>6, <1>7, <1>8, <1>9, <1>10, <1>11, <1>12, <1>13, <1>14, <1>15,
     <1>16, <1>17, <1>18, <1>19, <1>20 DEF Next, InWrite, InRead

LEMMA LabelsNext == TypeOK /\ AtLabels /\ [Next]_vars => AtLabels'
<1> SUFFICES ASSUME TypeOK, AtLabels, [Next]_vars PROVE AtLabels'
  OBVIOUS
<1> USE DEF TypeOK, AtLabels, Busy
<1>1. ASSUME NEW p \in Peers, Write(p) PROVE AtLabels'
  <2>1. pc' = [pc EXCEPT ![p] = "ack"] \/ pc' = [pc EXCEPT ![p] = "idle"]
    BY <1>1 DEF Write, SendData, SendFails
  <2>2. sent[p] \in Nat /\ sent' = [sent EXCEPT ![p] = @ + 1]
    BY <1>1 DEF Write
  <2>3. sent'[p] # 0 /\ \A x \in Peers : x # p => sent'[x] = sent[x]
    BY <2>2
  <2> QED
    BY <1>1, <2>1, <2>3 DEF Write
<1>2. ASSUME NEW p \in Peers, Resend(p) PROVE AtLabels'
  <2>1. pc' = [pc EXCEPT ![p] = "ack"] \/ pc' = [pc EXCEPT ![p] = "idle"]
    BY <1>2 DEF Resend, SendData, SendFails
  <2> QED
    BY <1>2, <2>1 DEF Resend
<1>3. ASSUME NEW p \in Peers, Acked(p) \/ Nacked(p) \/ AckTimeout(p) \/ AckBroken(p)
      PROVE  AtLabels'
  BY <1>3 DEF Acked, Nacked, AckTimeout, AckBroken, Retry
<1>4. ASSUME NEW p \in Peers, DataWhileWriting(p) PROVE AtLabels'
  <2>1. pc[p] = "ack" /\ (UNCHANGED pc \/ Retry(p)) /\ UNCHANGED sent /\ \A x \in Peers : x # p => rb'[x] = rb[x]
    BY <1>4 DEF DataWhileWriting
  <2> QED
    BY <2>1 DEF Retry
<1>5. ASSUME NEW p \in Peers, ReadBuffered(p) PROVE AtLabels'
  BY <1>5 DEF ReadBuffered
<1>6. ASSUME NEW p \in Peers, Read(p) PROVE AtLabels'
  BY <1>6 DEF Read
<1>7. ASSUME NEW p \in Peers, ReadData(p) PROVE AtLabels'
  BY <1>7 DEF ReadData
<1>8. ASSUME NEW p \in Peers, ReadAnswer(p) \/ ReadBad(p) \/ ReadShort(p) \/ ReadTimeout(p) \/ ReadBroken(p)
      PROVE  AtLabels'
  BY <1>8 DEF ReadAnswer, ReadBad, ReadShort, ReadTimeout, ReadBroken, CountNack
<1>9. ASSUME NEW p \in Peers, AckUnanswered(p) \/ ReadUnanswered(p) PROVE AtLabels'
  BY <1>9 DEF AckUnanswered, ReadUnanswered, TakeUnanswered
<1>10. ASSUME NEW p \in Peers, Lose(p) \/ Spoil(p) PROVE AtLabels'
  BY <1>10 DEF Lose, Spoil
<1>11. CASE Break \/ UNCHANGED vars
  BY <1>11 DEF Break, vars
<1> QED
  BY <1>1, <1>2, <1>3, <1>4, <1>5, <1>6, <1>7, <1>8, <1>9, <1>10, <1>11 DEF Next, InWrite, InRead

-----------------------------------------------------------------------------
(* The steps of the protocol. *)

\* What a step does to the channels, and that it is one of OrderedStream.
Step == (\A p \in Peers : Channel(p)') /\ [OS!Next]_(OS!vars)

LEMMA ReceivedIsSeq ==
  ASSUME TypeOK, NEW p \in Peers
  PROVE  Received(p) \in Seq(Nat)
BY ConcatProperties DEF Received, TypeOK

LEMMA InvInit == Init => IInv /\ OS!Init
<1> SUFFICES ASSUME Init PROVE IInv /\ OS!Init
  OBVIOUS
<1>1. Types
  BY TypesInit
<1>2. AtLabels
  BY DEF Init, AtLabels, Busy
<1>3. \A p \in Peers : Received(p) = <<>>
  <2>1. \A p \in Peers : got[p] = <<>> /\ rb[p] = <<>>
    BY DEF Init
  <2>2. <<>> \o <<>> = <<>>
    BY ConcatEmptySeq, EmptySeq
  <2> QED
    BY <2>1, <2>2 DEF Received
<1>4. ASSUME NEW p \in Peers PROVE Channel(p)
  <2>1. line[p] = <<>> /\ Received(p) = <<>>
    BY <1>3 DEF Init
  <2>2. Len(line[p]) = 0 /\ Len(Received(p)) = 0
    BY <2>1, EmptySeq
  <2> QED
    BY <2>2 DEF Channel, Direction, OnLine, NotOlder, Given
<1>5. OS!Init
  BY <1>3 DEF OS!Init, Init
<1> QED
  BY <1>1, <1>2, <1>4, <1>5 DEF IInv

\* Frames go, answers come, and write calls end.
LEMMA QuietStep ==
  ASSUME IInv,
         \A x \in Peers : LessData(line[x], line'[x]),
         \A x \in Peers : pc'[x] \in Busy => pc[x] \in Busy /\ seqno'[x] = seqno[x],
         \A x \in Peers : got'[x] \o rb'[x] = got[x] \o rb[x],
         UNCHANGED <<sent, last_seqno>>
  PROVE  Step
<1>1. \A x \in Peers : Received(x)' = Received(x)
  BY DEF Received
<1>2. ASSUME NEW p \in Peers PROVE Channel(p)'
  <2> DEFINE q == Other(p)
  <2>1. q \in Peers
    BY TwoPeers
  <2>2. Direction(line[p], sent[q], seqno[q], pc[q], Received(p), last_seqno[p])
    BY DEF IInv, Channel
  <2>3. Direction(line'[p], sent[q], seqno[q], pc[q], Received(p), last_seqno[p])
    BY <2>2 DEF LessData
  <2> HIDE DEF q
  <2>4. Direction(line'[p], sent[q], seqno'[q], pc'[q], Received(p), last_seqno[p])
    BY <2>1, <2>3, CallEnds
  <2>5. Direction(line'[p], sent'[q], seqno'[q], pc'[q], Received(p)', last_seqno'[p])
    BY <1>1, <2>4
  <2> QED
    BY <2>5 DEF Channel, q
<1>3. UNCHANGED OS!vars
  BY <1>1 DEF OS!vars
<1> QED
  BY <1>2, <1>3 DEF Step

\* A data frame is saved, or read.
LEMMA SaveStep ==
  ASSUME IInv, NEW p \in Peers, line[p] # <<>>, Head(line[p]).kind = "DATA",
         Save(p, Head(line[p]), TRUE),
         got'[p] \o rb'[p] = Append(got[p] \o rb[p], Head(line[p]).payload),
         \A x \in Peers : x # p => got'[x] \o rb'[x] = got[x] \o rb[x],
         \A x \in Peers : pc'[x] \in Busy => pc[x] \in Busy,
         UNCHANGED <<sent, seqno>>
  PROVE  Step
<1> DEFINE f == Head(line[p])  q == Other(p)
<1>1. TypeOK
  BY DEF IInv, Types
<1>2. /\ line'[p] = Tail(line[p])
      /\ \A x \in Peers : LessData(line[x], line'[x])
      /\ last_seqno' = [last_seqno EXCEPT ![p] = f.seqno]
      /\ f.seqno # last_seqno[p]
  BY <1>1, SaveIs
<1>3. q \in Peers /\ q # p /\ Peers = {p, q}
  BY TwoPeers
<1>4. /\ Received(p)' = Append(Received(p), f.payload)
      /\ \A x \in Peers : x # p => Received(x)' = Received(x)
  BY DEF Received
<1>5. /\ last_seqno'[p] = f.seqno /\ \A x \in Peers : x # p => last_seqno'[x] = last_seqno[x]
      /\ line[p] \in Seq(Frame) /\ sent[q] \in Nat
  BY <1>1, <1>2, <1>3 DEF TypeOK
<1>6. Direction(line[p], sent[q], seqno[q], pc[q], Received(p), last_seqno[p])
  BY DEF IInv, Channel
<1>7. Received(p) \in Seq(Nat)
  BY <1>1, ReceivedIsSeq
<1> HIDE DEF f, q
<1>8. /\ f.payload \in 1..sent[q] /\ \A k \in 1..Len(Received(p)) : Received(p)[k] < f.payload
      /\ Direction(Tail(line[p]), sent[q], seqno[q], pc[q], Append(Received(p), f.payload), f.seqno)
  BY <1>2, <1>5, <1>6, <1>7, FrameSaved DEF f
<1>9. Channel(p)'
  <2>1. Direction(Tail(line[p]), sent[q], seqno'[q], pc'[q], Append(Received(p), f.payload), f.seqno)
    BY <1>3, <1>8, CallEnds
  <2>2. Direction(line'[p], sent'[q], seqno'[q], pc'[q], Received(p)', last_seqno'[p])
    BY <1>2, <1>4, <1>5, <2>1
  <2> QED
    BY <2>2 DEF Channel, q
<1>10. Channel(q)'
  <2>1. Other(q) = p
    BY OtherOther DEF q
  <2>2. Direction(line[q], sent[p], seqno[p], pc[p], Received(q), last_seqno[q])
    BY <1>3, <2>1 DEF IInv, Channel
  <2>3. Direction(line'[q], sent[p], seqno[p], pc[p], Received(q), last_seqno[q])
    BY <1>2, <1>3, <2>2 DEF LessData
  <2>4. Direction(line'[q], sent[p], seqno'[p], pc'[p], Received(q), last_seqno[q])
    BY <2>3, CallEnds
  <2>5. Direction(line'[q], sent'[p], seqno'[p], pc'[p], Received(q)', last_seqno'[q])
    BY <1>3, <1>4, <1>5, <2>4
  <2> QED
    BY <2>1, <2>5 DEF Channel
<1>11. OS!Deliver(q, p)
  <2> DEFINE rec == [x \in Peers |-> Received(x)]
  <2>1. rec' = [rec EXCEPT ![p] = Append(@, f.payload)]
    BY <1>4
  <2>2. rec[p] = Received(p)
    OBVIOUS
  <2> HIDE DEF rec
  <2>3. \A k \in 1..Len(rec[p]) : rec[p][k] < f.payload
    BY <1>8, <2>2
  <2>4. sent' = sent
    OBVIOUS
  <2> QED
    BY <1>3, <1>8, <2>1, <2>3, <2>4 DEF OS!Deliver, rec
<1>12. OS!Next
  BY <1>3, <1>11 DEF OS!Next
<1> QED
  BY <1>3, <1>9, <1>10, <1>12 DEF Step

\* A write call begins.
LEMMA WriteStep ==
  ASSUME IInv, NEW p \in Peers, Write(p)
  PROVE  Step
<1> DEFINE q == Other(p)
<1>1. TypeOK
  BY DEF IInv, Types
<1>2. /\ pc[p] = "idle" /\ sent' = [sent EXCEPT ![p] = @ + 1] /\ (SendData(p) \/ SendFails(p))
      /\ UNCHANGED <<seqno, last_seqno, rb, got>>
  BY DEF Write
<1>3. q \in Peers /\ q # p /\ Peers = {p, q} /\ Other(q) = p
  BY TwoPeers, OtherOther
<1>4. sent[p] \in Nat /\ sent'[p] = sent[p] + 1 /\ sent'[q] = sent[q] /\ sent'[p] > 0
  BY <1>1, <1>2, <1>3 DEF TypeOK
<1>5. /\ line'[p] = line[p]
      /\ line'[q] \in {line[q], Append(line[q], Data(seqno[p], sent'[p]))}
      /\ line'[q] = line[q] \/ pc'[p] = "ack"
      /\ pc'[q] = pc[q]
  <2>1. sent'[p] \in Nat
    BY <1>4
  <2>2. /\ \A x \in Peers : x # q => line'[x] = line[x]
        /\ line'[q] \in {line[q], Append(line[q], Data(seqno[p], sent'[p]))}
        /\ line'[q] = line[q] \/ pc'[p] = "ack"
        /\ pc' = [pc EXCEPT ![p] = "ack"] \/ pc' = [pc EXCEPT ![p] = "idle"]
    BY <1>1, <1>2, <2>1, SendIs
  <2> QED
    BY <1>1, <1>3, <2>2 DEF TypeOK
<1>6. \A x \in Peers : Received(x)' = Received(x)
  BY <1>2 DEF Received
<1> HIDE DEF q
<1>7. Channel(p)'
  <2>1. Direction(line[p], sent[q], seqno[q], pc[q], Received(p), last_seqno[p])
    BY DEF IInv, Channel, q
  <2> QED
    BY <1>2, <1>4, <1>5, <1>6, <2>1 DEF Channel, q
<1>8. Channel(q)'
  <2> DEFINE s == sent'[p]
  <2>1. Direction(line[q], sent[p], seqno[p], pc[p], Received(q), last_seqno[q])
    BY <1>3 DEF IInv, Channel
  <2>2. /\ line[q] \in Seq(Frame) /\ Received(q) \in Seq(Nat) /\ seqno[p] \in 0..SeqMod-1
        /\ sent[p] \in Nat
    BY <1>1, <1>3, ReceivedIsSeq DEF TypeOK
  <2>3. pc[p] \notin Busy /\ s = sent[p] + 1 /\ s \in Nat /\ s > 0
    BY <1>2, <1>4 DEF Busy
  <2> HIDE DEF s
  <2>4. Direction(line[q], s, seqno[p], pc'[p], Received(q), last_seqno[q])
    BY <2>1, <2>2, <2>3, CallBegins
  <2>5. Direction(line'[q], s, seqno[p], pc'[p], Received(q), last_seqno[q])
    <3>1. CASE line'[q] = line[q]
      BY <2>4, <3>1
    <3>2. CASE line'[q] = Append(line[q], Data(seqno[p], s)) /\ pc'[p] = "ack"
      <4>1. pc'[p] \in Busy
        BY <3>2 DEF Busy
      <4> QED
        BY <2>2, <2>3, <2>4, <3>2, <4>1, DataComes
    <3> QED
      BY <1>5, <3>1, <3>2 DEF s
  <2>6. Direction(line'[q], sent'[p], seqno'[p], pc'[p], Received(q)', last_seqno'[q])
    BY <1>2, <1>3, <1>6, <2>5 DEF s
  <2> QED
    BY <1>3, <2>6 DEF Channel
<1>9. OS!Write(p)
  BY <1>2, <1>6 DEF OS!Write
<1> QED
  BY <1>3, <1>7, <1>8, <1>9 DEF Step, OS!Next

\* It sends its frame again.
LEMMA ResendStep ==
  ASSUME IInv, NEW p \in Peers, Resend(p)
  PROVE  Step
<1> DEFINE q == Other(p)
<1>1. TypeOK
  BY DEF IInv, Types
<1>2. /\ pc[p] = "resend" /\ (SendData(p) \/ SendFails(p))
      /\ UNCHANGED <<sent, seqno, last_seqno, rb, got>>
  BY DEF Resend
<1>3. q \in Peers /\ q # p /\ Peers = {p, q} /\ Other(q) = p
  BY TwoPeers, OtherOther
<1>4. /\ line'[p] = line[p]
      /\ line'[q] \in {line[q], Append(line[q], Data(seqno[p], sent[p]))}
      /\ pc'[q] = pc[q]
  <2>1. sent'[p] \in Nat /\ sent' = sent
    BY <1>1, <1>2 DEF TypeOK
  <2> QED
    BY <1>1, <1>2, <1>3, <2>1, SendIs DEF TypeOK
<1>5. \A x \in Peers : Received(x)' = Received(x)
  BY <1>2 DEF Received
<1> HIDE DEF q
<1>6. Channel(p)'
  <2>1. Direction(line[p], sent[q], seqno[q], pc[q], Received(p), last_seqno[p])
    BY DEF IInv, Channel, q
  <2> QED
    BY <1>2, <1>4, <1>5, <2>1 DEF Channel, q
<1>7. Channel(q)'
  <2>1. Direction(line[q], sent[p], seqno[p], pc[p], Received(q), last_seqno[q])
    BY <1>3 DEF IInv, Channel
  <2>2. /\ line[q] \in Seq(Frame) /\ Received(q) \in Seq(Nat) /\ seqno[p] \in 0..SeqMod-1
        /\ sent[p] \in Nat
    BY <1>1, <1>3, ReceivedIsSeq DEF TypeOK
  <2>3. pc[p] \in Busy /\ sent[p] > 0
    BY <1>2, <2>2 DEF Busy, IInv, AtLabels
  <2>4. Direction(line'[q], sent[p], seqno[p], pc[p], Received(q), last_seqno[q])
    BY <1>4, <2>1, <2>2, <2>3, DataComes
  <2>5. Direction(line'[q], sent[p], seqno'[p], pc'[p], Received(q), last_seqno[q])
    BY <1>2, <2>3, <2>4, CallEnds
  <2>6. Direction(line'[q], sent'[p], seqno'[p], pc'[p], Received(q)', last_seqno'[q])
    BY <1>2, <1>3, <1>5, <2>5
  <2> QED
    BY <1>3, <2>6 DEF Channel
<1>8. UNCHANGED OS!vars
  BY <1>2, <1>5 DEF OS!vars
<1> QED
  BY <1>3, <1>6, <1>7, <1>8 DEF Step

-----------------------------------------------------------------------------
(* Each step of the program is one of these. *)

LEMMA SameLine ==
  ASSUME UNCHANGED line
  PROVE  \A x \in Peers : LessData(line[x], line'[x])
BY DEF LessData

\* What is appended to the saved payloads is received last.
LEMMA SavedLast ==
  ASSUME NEW g \in Seq(Nat), NEW b \in Seq(Nat), NEW n \in Nat
  PROVE  g \o Append(b, n) = Append(g \o b, n)
OBVIOUS

\* A saved payload that is read was received next.
LEMMA SavedNext ==
  ASSUME NEW g \in Seq(Nat), NEW b \in Seq(Nat), b # <<>>
  PROVE  Append(g, Head(b)) \o Tail(b) = g \o b
OBVIOUS

\* A read that takes a saved payload changes nothing of what was received.
LEMMA BufferedStep ==
  ASSUME IInv, NEW p \in Peers, ReadBuffered(p)
  PROVE  Step
<1>1. /\ got' = [got EXCEPT ![p] = Append(@, Head(rb[p]))] /\ rb' = [rb EXCEPT ![p] = Tail(@)]
      /\ UNCHANGED <<seqno, last_seqno, pc, line, sent>>
  BY DEF ReadBuffered
<1>2. /\ got'[p] = Append(got[p], Head(rb[p])) /\ rb'[p] = Tail(rb[p])
      /\ \A x \in Peers : x # p => got'[x] = got[x] /\ rb'[x] = rb[x]
  BY <1>1 DEF IInv, Types, TypeOK
<1>3. Append(got[p], Head(rb[p])) \o Tail(rb[p]) = got[p] \o rb[p]
  BY SavedNext DEF IInv, Types, TypeOK, ReadBuffered
<1>4. \A x \in Peers : got'[x] \o rb'[x] = got[x] \o rb[x]
  BY <1>2, <1>3
<1>5. \A x \in Peers : LessData(line[x], line'[x])
  BY <1>1, SameLine
<1> QED
  BY <1>1, <1>4, <1>5, QuietStep

\* A data frame arrives in write.
LEMMA WriterReadsStep ==
  ASSUME IInv, NEW p \in Peers, DataWhileWriting(p)
  PROVE  Step
<1> DEFINE f == Head(line[p])
<1>1. TypeOK
  BY DEF IInv, Types
<1>2. /\ line[p] # <<>> /\ f.kind = "DATA" /\ pc[p] = "ack" /\ (UNCHANGED pc \/ Retry(p))
      /\ UNCHANGED <<seqno, sent, got>>
  BY DEF DataWhileWriting, Receives
<1>3. f.payload \in Nat
  BY <1>1, <1>2, HeadIsFrame
<1>4. \A x \in Peers : pc'[x] \in Busy => pc[x] \in Busy
  BY <1>1, <1>2 DEF Retry, Busy, TypeOK
<1> HIDE DEF f
<1>5. CASE Save(p, f, TRUE) /\ rb' = [rb EXCEPT ![p] = Append(@, f.payload)]
  <2>1. rb'[p] = Append(rb[p], f.payload) /\ \A x \in Peers : x # p => rb'[x] = rb[x]
    BY <1>1, <1>5 DEF TypeOK
  <2>2. got'[p] \o rb'[p] = Append(got[p] \o rb[p], f.payload)
    <3>1. got[p] \in Seq(Nat) /\ rb[p] \in Seq(Nat)
      BY <1>1 DEF TypeOK
    <3>2. got[p] \o Append(rb[p], f.payload) = Append(got[p] \o rb[p], f.payload)
      BY <1>3, <3>1, SavedLast
    <3> QED
      BY <1>2, <2>1, <3>2
  <2>3. \A x \in Peers : x # p => got'[x] \o rb'[x] = got[x] \o rb[x]
    BY <1>2, <2>1
  <2> QED
    BY <1>2, <1>4, <1>5, <2>2, <2>3, SaveStep DEF f
<1>6. CASE Save(p, f, FALSE) /\ rb' = rb
  <2>1. last_seqno' = last_seqno /\ \A x \in Peers : LessData(line[x], line'[x])
    BY <1>1, <1>2, <1>6, SaveIs DEF f
  <2> QED
    BY <1>2, <1>4, <1>6, <2>1, QuietStep
<1> QED
  BY <1>5, <1>6 DEF DataWhileWriting, f

\* A data frame arrives in read.
LEMMA ReaderReadsStep ==
  ASSUME IInv, NEW p \in Peers, ReadData(p)
  PROVE  Step
<1> DEFINE f == Head(line[p])
<1>1. TypeOK
  BY DEF IInv, Types
<1>2. /\ line[p] # <<>> /\ f.kind = "DATA" /\ pc[p] = "data" /\ pc' = [pc EXCEPT ![p] = "idle"]
      /\ UNCHANGED <<seqno, sent, rb>>
  BY DEF ReadData, Receives
<1>3. f.payload \in Nat
  BY <1>1, <1>2, HeadIsFrame
<1>4. \A x \in Peers : pc'[x] \in Busy => pc[x] \in Busy
  BY <1>1, <1>2 DEF Busy, TypeOK
<1> HIDE DEF f
<1>5. CASE Save(p, f, TRUE) /\ got' = [got EXCEPT ![p] = Append(@, f.payload)]
  <2>1. got'[p] = Append(got[p], f.payload) /\ \A x \in Peers : x # p => got'[x] = got[x]
    BY <1>1, <1>5 DEF TypeOK
  <2>2. rb[p] = <<>> /\ rb'[p] = <<>>
    BY <1>2 DEF IInv, AtLabels
  <2>3. got'[p] \o rb'[p] = Append(got[p] \o rb[p], f.payload)
    <3>1. got[p] \in Seq(Nat) /\ Append(got[p], f.payload) \in Seq(Nat)
      BY <1>1, <1>3 DEF TypeOK
    <3>2. got[p] \o <<>> = got[p] /\ Append(got[p], f.payload) \o <<>> = Append(got[p], f.payload)
      BY <3>1, ConcatEmptySeq
    <3> QED
      BY <2>1, <2>2, <3>2
  <2>4. \A x \in Peers : x # p => got'[x] \o rb'[x] = got[x] \o rb[x]
    BY <1>2, <2>1
  <2> QED
    BY <1>2, <1>4, <1>5, <2>3, <2>4, SaveStep DEF f
<1>6. CASE Save(p, f, FALSE) /\ got' = got
  <2>1. last_seqno' = last_seqno /\ \A x \in Peers : LessData(line[x], line'[x])
    BY <1>1, <1>2, <1>6, SaveIs DEF f
  <2> QED
    BY <1>2, <1>4, <1>6, <2>1, QuietStep
<1> QED
  BY <1>5, <1>6 DEF ReadData, f

LEMMA StepOfNext == IInv /\ [Next]_vars => Step
<1> SUFFICES ASSUME IInv, [Next]_vars PROVE Step
  OBVIOUS
<1>0. TypeOK
  BY DEF IInv, Types
<1>1. ASSUME NEW p \in Peers, Acked(p) \/ Nacked(p) PROVE Step
  <2>1. line[p] # <<>> /\ Take(p, <<>>) /\ UNCHANGED <<sent, last_seqno, got, rb>>
    BY <1>1 DEF Acked, Nacked, Receives
  <2>2. \A x \in Peers : LessData(line[x], line'[x])
    BY <1>0, <2>1, TakeNone
  <2>3. \A x \in Peers : pc'[x] \in Busy => pc[x] \in Busy /\ seqno'[x] = seqno[x]
    BY <1>0, <1>1 DEF Acked, Nacked, Retry, Busy, TypeOK
  <2> QED
    BY <2>1, <2>2, <2>3, QuietStep
<1>2. ASSUME NEW p \in Peers, AckTimeout(p) \/ AckBroken(p) \/ Read(p) \/ ReadBroken(p) PROVE Step
  <2>1. UNCHANGED <<line, sent, seqno, last_seqno, got, rb>>
    BY <1>2 DEF AckTimeout, AckBroken, Read, ReadBroken
  <2>2. \A x \in Peers : LessData(line[x], line'[x])
    BY <2>1, SameLine
  <2>3. \A x \in Peers : pc'[x] \in Busy => pc[x] \in Busy
    BY <1>0, <1>2 DEF AckTimeout, AckBroken, Read, ReadBroken, Retry, Busy, TypeOK
  <2> QED
    BY <2>1, <2>2, <2>3, QuietStep
<1>3. ASSUME NEW p \in Peers, ReadAnswer(p) \/ ReadShort(p) PROVE Step
  <2>1. line[p] # <<>> /\ Take(p, <<>>) /\ UNCHANGED <<sent, seqno, last_seqno, got, rb>>
    BY <1>3 DEF ReadAnswer, ReadShort, Receives
  <2>2. \A x \in Peers : LessData(line[x], line'[x])
    BY <1>0, <2>1, TakeNone
  <2>3. \A x \in Peers : pc'[x] \in Busy => pc[x] \in Busy
    BY <1>0, <1>3 DEF ReadAnswer, ReadShort, Busy, TypeOK
  <2> QED
    BY <2>1, <2>2, <2>3, QuietStep
<1>4. ASSUME NEW p \in Peers, AckUnanswered(p) \/ ReadUnanswered(p) PROVE Step
  <2>1. /\ line[p] # <<>> /\ Take(p, <<>>) /\ pc' = [pc EXCEPT ![p] = "idle"]
        /\ UNCHANGED <<sent, seqno, last_seqno, got, rb>>
    BY <1>4 DEF AckUnanswered, ReadUnanswered, TakeUnanswered, Receives
  <2>2. \A x \in Peers : LessData(line[x], line'[x])
    BY <1>0, <2>1, TakeNone
  <2>3. \A x \in Peers : pc'[x] \in Busy => pc[x] \in Busy
    BY <1>0, <2>1 DEF Busy, TypeOK
  <2> QED
    BY <2>1, <2>2, <2>3, QuietStep
<1>5. ASSUME NEW p \in Peers, ReadBad(p) PROVE Step
  <2>1. /\ line[p] # <<>> /\ Take(p, <<Answer("NACK")>>) /\ CountNack(p) /\ pc[p] = "data"
        /\ UNCHANGED <<sent, seqno, last_seqno, got, rb>>
    BY <1>5 DEF ReadBad, Receives
  <2>2. \A x \in Peers : LessData(line[x], line'[x])
    BY <1>0, <2>1, TakeIs, NackAlone
  <2>3. \A x \in Peers : pc'[x] \in Busy => pc[x] \in Busy
    BY <1>0, <2>1 DEF CountNack, Busy, TypeOK
  <2> QED
    BY <2>1, <2>2, <2>3, QuietStep
<1>6. ASSUME NEW p \in Peers, ReadTimeout(p) PROVE Step
  <2> DEFINE q == Other(p)
  <2>1. /\ Put(q, Answer("NACK")) /\ CountNack(p) /\ pc[p] = "data"
        /\ UNCHANGED <<sent, seqno, last_seqno, got, rb>>
    BY <1>6 DEF ReadTimeout
  <2>2. q \in Peers
    BY TwoPeers
  <2> HIDE DEF q
  <2>3. /\ \A x \in Peers : x # q => line'[x] = line[x]
        /\ line'[q] \in {line[q], Append(line[q], Answer("NACK"))}
    BY <1>0, <2>1, <2>2, PutIs, AnswerIsFrame
  <2>4. line[q] \in Seq(Frame) /\ Append(line[q], Answer("NACK")) = line[q] \o <<Answer("NACK")>>
    BY <1>0, <2>2, AnswerIsFrame, AppendIsConcat DEF TypeOK
  <2>5. LessData(line[q], line[q] \o <<Answer("NACK")>>)
    BY <2>4, NackAlone, AnswersCome DEF LessData
  <2>6. \A x \in Peers : LessData(line[x], line'[x])
    BY <2>3, <2>4, <2>5 DEF LessData
  <2>7. \A x \in Peers : pc'[x] \in Busy => pc[x] \in Busy
    BY <1>0, <2>1 DEF CountNack, Busy, TypeOK
  <2> QED
    BY <2>1, <2>6, <2>7, QuietStep
<1>7. ASSUME NEW p \in Peers, Lose(p) \/ Spoil(p) PROVE Step
  <2>1. \A x \in Peers : LessData(line[x], line'[x])
    BY <1>0, <1>7, LoseIs, SpoilIs
  <2>2. UNCHANGED <<pc, sent, seqno, last_seqno, got, rb>>
    BY <1>7 DEF Lose, Spoil
  <2> QED
    BY <2>1, <2>2, QuietStep
<1>8. CASE Break
  <2>1. UNCHANGED <<pc, sent, seqno, last_seqno, got, rb>> /\ \A x \in Peers : line'[x] = <<>>
    BY <1>8 DEF Break
  <2>2. \A x \in Peers : LessData(line[x], line'[x])
    <3>1. Len(<<>>) = 0
      OBVIOUS
    <3> QED
      BY <2>1, <3>1 DEF LessData, Direction, OnLine, NotOlder
  <2> QED
    BY <2>1, <2>2, QuietStep
<1>9. CASE UNCHANGED vars
  <2>1. UNCHANGED <<line, pc, sent, seqno, last_seqno, got, rb>>
    BY <1>9 DEF vars
  <2>2. \A x \in Peers : LessData(line[x], line'[x])
    BY <2>1, SameLine
  <2> QED
    BY <2>1, <2>2, QuietStep
<1> QED
  BY <1>1, <1>2, <1>3, <1>4, <1>5, <1>6, <1>7, <1>8, <1>9, WriteStep, ResendStep, BufferedStep,
     WriterReadsStep, ReaderReadsStep DEF Next, InWrite, InRead

LEMMA InvNext == IInv /\ [Next]_vars => IInv' /\ [OS!Next]_(OS!vars)
BY TypesNext, LabelsNext, StepOfNext DEF IInv, Types, Step

-----------------------------------------------------------------------------
(* The theorems. *)

LEMMA Invariance == Spec => []IInv
<1>1. Init => IInv
  BY InvInit
<1>2. IInv /\ [Next]_vars => IInv'
  BY InvNext
<1> QED
  BY <1>1, <1>2, PTL DEF Spec

\* Sequence numbers keep their range, the loops their number of retries, and the
\* lines and ring buffers hold frames and payloads.
THEOREM TypeCorrect == Spec => []TypeOK
<1>1. IInv => TypeOK
  BY DEF IInv, Types
<1> QED
  BY <1>1, Invariance, PTL

\* Payloads arrive in the order in which tk_ostream_shdlc_write was called with
\* them, and never twice, whatever the line does.
THEOREM ArriveInOrder == Spec => InOrder
<1>1. Init => IInv /\ OS!Init
  BY InvInit
<1>2. IInv /\ [Next]_vars => IInv' /\ [OS!Next]_(OS!vars)
  BY InvNext
<1> QED
  BY <1>1, <1>2, PTL DEF Spec, InOrder, OS!Spec

=============================================================================
