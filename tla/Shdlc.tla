-------------------------------- MODULE Shdlc --------------------------------
(***************************************************************************)
(* The stop-and-wait protocol of streams/shdlc: two peers, each with an    *)
(* output stream (ostream_shdlc.c) and an input stream (istream_shdlc.c)   *)
(* over one line that keeps the order of the frames but may lose them or   *)
(* spoil them.  A peer is one thread that calls write or read; write waits *)
(* for an answer and meanwhile saves the data frames it meets.             *)
(*                                                                         *)
(* A peer reads one frame and acts on it in one step: what it does between *)
(* is its own state and the appending of answers to the line.  A frame is  *)
(* its kind, its seqno and the number of the write call it belongs to; one *)
(* that the checksum finds out is BAD.  The seqno of an answer is left out *)
(* because nobody reads it.  Escaping, compression and the bytes of a      *)
(* payload are left out; a payload is read as a whole.                     *)
(***************************************************************************)
EXTENDS Integers, Sequences, FiniteSets

CONSTANTS
  Peers,       \* the two ends of the line
  SeqMod,      \* sequence numbers (8 in the code)
  RetryTimes,  \* retry_times of the streams (10 by default)
  RbCapacity,  \* payloads that fit into the ring buffer of an input stream
  Faults,      \* what may go wrong: see below
  MaxWrites,   \* bound: MaxWrites[p], the write calls of p
  MaxLine      \* bound: frames under way to a peer that is not just answered

\* lose: a frame vanishes.  spoil: a data frame is damaged.  spoil_answer: an
\* answer is damaged.  timeout: a read times out.  write: a write fails, and
\* nothing of the frame arrives.  break: the connection breaks for good.
AllFaults == {"lose", "spoil", "spoil_answer", "timeout", "write", "break"}

ASSUME PeersAssumption == IsFiniteSet(Peers) /\ Cardinality(Peers) = 2
ASSUME SeqAssumption == SeqMod \in Nat \ {0, 1}
ASSUME BoundsAssumption ==
  /\ RetryTimes \in Nat \ {0} /\ RbCapacity \in Nat \ {0}
  /\ MaxWrites \in [Peers -> Nat] /\ MaxLine \in Nat \ {0}
ASSUME FaultsAssumption == Faults \subseteq AllFaults

VARIABLES
  seqno,       \* ostream_shdlc->seqno
  last_seqno,  \* istream_shdlc->last_seqno; SeqMod stands for 0xff
  rb,          \* istream_shdlc->rb
  pc,          \* "idle", "ack" (in read_ack), "resend" (in the loop of write), "data" (in read)
  retry,       \* retry_times of the loop that runs: write's or read_frame's
  line,        \* line[p]: the frames on their way to p
  is_ok,       \* TK_STREAM_PROP_IS_OK of the real stream
  sent,        \* the number of write calls so far; the payload of the last one
  got,         \* the payloads that read returned
  reported     \* whether the last write call has returned a positive number of bytes

vars == <<seqno, last_seqno, rb, pc, retry, line, is_ok, sent, got, reported>>

Other(p) == CHOOSE q \in Peers : q # p

Data(s, n) == [kind |-> "DATA", seqno |-> s, payload |-> n]
Answer(k) == [kind |-> k, seqno |-> 0, payload |-> 0]
Frame == [kind : {"DATA", "ACK", "NACK", "BAD"}, seqno : 0..SeqMod-1, payload : Nat]

-----------------------------------------------------------------------------
(* tk_istream_shdlc_create and tk_ostream_shdlc_create *)
Init ==
  /\ seqno = [p \in Peers |-> 0]
  /\ last_seqno = [p \in Peers |-> SeqMod]
  /\ rb = [p \in Peers |-> <<>>]
  /\ pc = [p \in Peers |-> "idle"]
  /\ retry = [p \in Peers |-> 0]
  /\ line = [p \in Peers |-> <<>>]
  /\ is_ok = TRUE
  /\ sent = [p \in Peers |-> 0]
  /\ got = [p \in Peers |-> <<>>]
  /\ reported = [p \in Peers |-> FALSE]

\* A frame f is sent to q.  While the line is full, one that loses frames
\* drops it, and another one makes the sender wait.
Put(q, f) ==
  \/ /\ Len(line[q]) < MaxLine
     /\ line' = [line EXCEPT ![q] = Append(@, f)]
  \/ /\ Len(line[q]) >= MaxLine /\ "lose" \in Faults
     /\ UNCHANGED line

-----------------------------------------------------------------------------
(* tk_ostream_shdlc_write *)

\* Mistaken: the sequence number is not reduced to its three bits.
SeqnoIncUnmasked(s) == s + 1

\* shdlc_seqno_inc
SeqnoInc(s) == (s + 1) % SeqMod

\* The frame is written to the real stream, and read_ack is called.
SendData(p) ==
  /\ is_ok
  /\ Put(Other(p), Data(seqno[p], sent'[p]))
  /\ pc' = [pc EXCEPT ![p] = "ack"]
  /\ reported' = [reported EXCEPT ![p] = FALSE]

\* The real stream is broken, or its write fails: RET_IO, a positive number,
\* is returned as the number of bytes written.
SendFails(p) ==
  /\ ~is_ok \/ "write" \in Faults
  /\ pc' = [pc EXCEPT ![p] = "idle"]
  /\ reported' = [reported EXCEPT ![p] = TRUE]
  /\ UNCHANGED line

\* The call, up to the first pass of the loop.
Write(p) ==
  /\ pc[p] = "idle"
  /\ sent[p] < MaxWrites[p]
  /\ sent' = [sent EXCEPT ![p] = @ + 1]
  /\ retry' = [retry EXCEPT ![p] = 0]
  /\ SendData(p) \/ SendFails(p)
  /\ UNCHANGED <<seqno, last_seqno, rb, is_ok, got>>

\* A further pass of the loop.
Resend(p) ==
  /\ pc[p] = "resend"
  /\ UNCHANGED sent
  /\ SendData(p) \/ SendFails(p)
  /\ UNCHANGED <<seqno, last_seqno, rb, retry, is_ok, got>>

\* Mistaken: the attempts are not counted.
RetryUncounted(p) ==
  /\ UNCHANGED retry
  /\ pc' = [pc EXCEPT ![p] = "resend"]

\* read_ack has returned neither RET_OK nor RET_IO: once more, or, after
\* retry_times attempts, 0 is returned and the sequence number stays.
Retry(p) ==
  /\ retry' = [retry EXCEPT ![p] = @ + 1]
  /\ pc' = [pc EXCEPT ![p] = IF retry'[p] < RetryTimes THEN "resend" ELSE "idle"]

-----------------------------------------------------------------------------
(* Helpers of the input stream. *)

Receives(p, kinds) == line[p] # <<>> /\ is_ok /\ Head(line[p]).kind \in kinds

\* p takes its first frame and sends answers.
Take(p, answers) ==
  line' = [line EXCEPT ![p] = Tail(@), ![Other(p)] = @ \o answers]

\* p takes its first frame, and the answer to it cannot be written: read_frame
\* returns RET_IO, and write or read 0.
TakeUnanswered(p) ==
  /\ "write" \in Faults
  /\ Take(p, <<>>)
  /\ pc' = [pc EXCEPT ![p] = "idle"]
  /\ UNCHANGED <<seqno, last_seqno, rb, retry, is_ok, sent, got, reported>>

\* A read that times out finds nothing on the line.
TimesOut(p) == "timeout" \in Faults /\ is_ok /\ line[p] = <<>>

Acks(n) == [i \in 1..n |-> Answer("ACK")]

\* Mistaken: duplicates are saved too.
SaveTwice(p, f, ok) ==
  /\ Take(p, Acks(1))
  /\ last_seqno' = [last_seqno EXCEPT ![p] = f.seqno]
  /\ ok = (Len(rb[p]) < RbCapacity)

\* read_frame has read the data frame f and sends an ACK; then
\* tk_istream_shdlc_save_data_frame saves it (ok), fails to, or discards a
\* duplicate and sends a second ACK.
Save(p, f, ok) ==
  LET duplicate == f.seqno = last_seqno[p]
      fits == Len(rb[p]) < RbCapacity
  IN
  /\ Take(p, Acks(IF duplicate THEN 2 ELSE 1))
  /\ last_seqno' = [last_seqno EXCEPT ![p] = IF ok THEN f.seqno ELSE @]
  /\ ok = (~duplicate /\ fits)

-----------------------------------------------------------------------------
(* tk_istream_shdlc_read_ack, in write *)

\* An ACK, whatever its seqno is: write returns the size.
Acked(p) ==
  /\ pc[p] = "ack"
  /\ Receives(p, {"ACK"})
  /\ Take(p, <<>>)
  /\ seqno' = [seqno EXCEPT ![p] = SeqnoInc(@)]
  /\ reported' = [reported EXCEPT ![p] = TRUE]
  /\ pc' = [pc EXCEPT ![p] = "idle"]
  /\ UNCHANGED <<last_seqno, rb, retry, is_ok, sent, got>>

\* A NACK, or a frame with a wrong checksum.
Nacked(p) ==
  /\ pc[p] = "ack"
  /\ Receives(p, {"NACK", "BAD"})
  /\ Take(p, <<>>)
  /\ Retry(p)
  /\ UNCHANGED <<seqno, last_seqno, rb, is_ok, sent, got, reported>>

\* A read that times out, or that comes back empty because the stream broke
\* meanwhile: the next pass of write's loop will find that out.
AckTimeout(p) ==
  /\ pc[p] = "ack"
  /\ TimesOut(p) \/ ~is_ok
  /\ Retry(p)
  /\ UNCHANGED <<seqno, last_seqno, rb, line, is_ok, sent, got, reported>>

\* A data frame of the other peer: it is saved or discarded, and the wait
\* goes on.
DataWhileWriting(p) ==
  /\ pc[p] = "ack"
  /\ Receives(p, {"DATA"})
  /\ LET f == Head(line[p]) IN
     \/ /\ Save(p, f, TRUE)
        /\ rb' = [rb EXCEPT ![p] = Append(@, f.payload)]
        /\ UNCHANGED <<pc, retry>>
     \/ /\ Save(p, f, FALSE)
        /\ UNCHANGED rb
        /\ IF f.seqno = last_seqno[p] THEN UNCHANGED <<pc, retry>>
                                      ELSE Retry(p)
  /\ UNCHANGED <<seqno, is_ok, sent, got, reported>>

AckUnanswered(p) == pc[p] = "ack" /\ Receives(p, {"DATA"}) /\ TakeUnanswered(p)

\* read_frame finds the stream broken: write returns 0.
AckBroken(p) ==
  /\ pc[p] = "ack"
  /\ ~is_ok
  /\ pc' = [pc EXCEPT ![p] = "idle"]
  /\ UNCHANGED <<seqno, last_seqno, rb, retry, line, is_ok, sent, got, reported>>

-----------------------------------------------------------------------------
(* tk_istream_shdlc_read *)

\* Saved data is returned at once.
ReadBuffered(p) ==
  /\ pc[p] = "idle"
  /\ rb[p] # <<>>
  /\ got' = [got EXCEPT ![p] = Append(@, Head(rb[p]))]
  /\ rb' = [rb EXCEPT ![p] = Tail(@)]
  /\ UNCHANGED <<seqno, last_seqno, pc, retry, line, is_ok, sent, reported>>

\* Otherwise a frame is awaited.
Read(p) ==
  /\ pc[p] = "idle"
  /\ rb[p] = <<>>
  /\ is_ok
  /\ pc' = [pc EXCEPT ![p] = "data"]
  /\ retry' = [retry EXCEPT ![p] = 0]
  /\ UNCHANGED <<seqno, last_seqno, rb, line, is_ok, sent, got, reported>>

\* A data frame: read returns it, or nothing when it is a duplicate.
ReadData(p) ==
  /\ pc[p] = "data"
  /\ Receives(p, {"DATA"})
  /\ LET f == Head(line[p]) IN
     \/ Save(p, f, TRUE) /\ got' = [got EXCEPT ![p] = Append(@, f.payload)]
     \/ Save(p, f, FALSE) /\ UNCHANGED got
  /\ pc' = [pc EXCEPT ![p] = "idle"]
  /\ UNCHANGED <<seqno, rb, retry, is_ok, sent, reported>>

\* An answer nobody waits for any more: the loop of read goes on.
ReadAnswer(p) ==
  /\ pc[p] = "data"
  /\ Receives(p, {"ACK", "NACK"})
  /\ Take(p, <<>>)
  /\ retry' = [retry EXCEPT ![p] = 0]
  /\ UNCHANGED <<seqno, last_seqno, rb, pc, is_ok, sent, got, reported>>

\* read_frame sends a NACK and counts it; read returns 0 after retry_times.
CountNack(p) ==
  /\ retry' = [retry EXCEPT ![p] = @ + 1]
  /\ pc' = [pc EXCEPT ![p] = IF retry'[p] < RetryTimes THEN "data" ELSE "idle"]

ReadBad(p) ==
  /\ pc[p] = "data"
  /\ Receives(p, {"BAD"})
  /\ Take(p, <<Answer("NACK")>>)
  /\ CountNack(p)
  /\ UNCHANGED <<seqno, last_seqno, rb, is_ok, sent, got, reported>>

\* A frame too short to hold a checksum: RET_FAIL, and no NACK.
ReadShort(p) ==
  /\ pc[p] = "data"
  /\ Receives(p, {"BAD"})
  /\ Take(p, <<>>)
  /\ pc' = [pc EXCEPT ![p] = "idle"]
  /\ UNCHANGED <<seqno, last_seqno, rb, retry, is_ok, sent, got, reported>>

ReadUnanswered(p) == pc[p] = "data" /\ Receives(p, {"DATA", "BAD"}) /\ TakeUnanswered(p)

ReadTimeout(p) ==
  /\ pc[p] = "data"
  /\ TimesOut(p)
  /\ Put(Other(p), Answer("NACK"))
  /\ CountNack(p)
  /\ UNCHANGED <<seqno, last_seqno, rb, is_ok, sent, got, reported>>

\* The stream is broken, or the NACK of a read that timed out cannot be written.
ReadBroken(p) ==
  /\ pc[p] = "data"
  /\ ~is_ok \/ (TimesOut(p) /\ "write" \in Faults)
  /\ pc' = [pc EXCEPT ![p] = "idle"]
  /\ UNCHANGED <<seqno, last_seqno, rb, retry, line, is_ok, sent, got, reported>>

-----------------------------------------------------------------------------
(* The line, as istream_noisy and a serial line treat it. *)

Lose(p) ==
  /\ "lose" \in Faults
  /\ \E i \in 1..Len(line[p]) :
       line' = [line EXCEPT ![p] = SubSeq(@, 1, i - 1) \o SubSeq(@, i + 1, Len(@))]
  /\ UNCHANGED <<seqno, last_seqno, rb, pc, retry, is_ok, sent, got, reported>>

\* What a damaged frame is taken for.  The checksum finds it out; but a data
\* frame whose type has become that of an answer passes for one unchecked.  (The
\* rest of it, if it is long enough, is skipped as one more damaged frame, and is
\* left out.)
Damaged(f) == {Answer(k) : k \in {"BAD"} \cup IF f.kind = "DATA" THEN {"ACK", "NACK"} ELSE {}}

Spoil(p) ==
  /\ \E i \in 1..Len(line[p]) : \E f \in Damaged(line[p][i]) :
       /\ \/ "spoil" \in Faults /\ line[p][i].kind = "DATA"
          \/ "spoil_answer" \in Faults /\ line[p][i].kind \in {"ACK", "NACK"}
       /\ line' = [line EXCEPT ![p][i] = f]
  /\ UNCHANGED <<seqno, last_seqno, rb, pc, retry, is_ok, sent, got, reported>>

\* The connection breaks; what is under way is gone.
Break ==
  /\ "break" \in Faults
  /\ is_ok
  /\ is_ok' = FALSE
  /\ line' = [p \in Peers |-> <<>>]
  /\ UNCHANGED <<seqno, last_seqno, rb, pc, retry, sent, got, reported>>

InWrite(p) ==
  \/ Resend(p) \/ Acked(p) \/ Nacked(p) \/ AckTimeout(p) \/ DataWhileWriting(p)
  \/ AckUnanswered(p) \/ AckBroken(p)

InRead(p) ==
  \/ ReadData(p) \/ ReadAnswer(p) \/ ReadBad(p) \/ ReadShort(p) \/ ReadTimeout(p)
  \/ ReadUnanswered(p) \/ ReadBroken(p)

Next ==
  \/ \E p \in Peers :
       \/ Write(p) \/ InWrite(p)
       \/ ReadBuffered(p) \/ Read(p) \/ InRead(p)
       \/ Lose(p) \/ Spoil(p)
  \/ Break

Spec == Init /\ [][Next]_vars

\* A thread inside write or read goes on, and the applications read again and
\* again.
Fairness ==
  \A p \in Peers : WF_vars(InWrite(p)) /\ WF_vars(InRead(p)) /\ WF_vars(Read(p) \/ ReadBuffered(p))

FairSpec == Spec /\ Fairness

-----------------------------------------------------------------------------
(* Properties. *)

TypeOK ==
  /\ seqno \in [Peers -> 0..SeqMod-1]
  /\ last_seqno \in [Peers -> 0..SeqMod]
  /\ rb \in [Peers -> Seq(Nat)]
  /\ pc \in [Peers -> {"idle", "ack", "resend", "data"}]
  /\ retry \in [Peers -> 0..RetryTimes]
  /\ line \in [Peers -> Seq(Frame)]
  /\ is_ok \in BOOLEAN
  /\ sent \in [Peers -> Nat] /\ \A p \in Peers : sent[p] <= MaxWrites[p]
  /\ got \in [Peers -> Seq(Nat)]
  /\ reported \in [Peers -> BOOLEAN]

Received(p) == got[p] \o rb[p]

OS == INSTANCE OrderedStream WITH received <- [p \in Peers |-> Received(p)]

\* Whatever is lost, damaged, repeated or late, and although an ACK is taken
\* for the answer to whichever frame was sent last, the sequence number that
\* save_data_frame compares keeps retransmissions out: payloads arrive in the
\* order of the write calls and never twice, even when a sequence number is
\* used again.
InOrder == OS!Spec

\* tk_ostream_shdlc_write returns the number of bytes written, and lost or
\* damaged frames are repaired by retransmission: a payload whose write
\* returned a positive number has reached the input stream of the other peer,
\* or is at least still on its way there.
ReportedIsDelivered ==
  \A p \in Peers : reported[p] => LET q == Other(p) IN
    \/ \E i \in 1..Len(Received(q)) : Received(q)[i] = sent[p]
    \/ \E i \in 1..Len(line[q]) : line[q][i].kind = "DATA" /\ line[q][i].payload = sent[p]

\* A write call returns, whatever the line does, unless the other peer goes on
\* writing for ever: attempts are counted, but data frames of the other peer make
\* read_ack start anew and are not.
WriteReturns ==
  \A p \in Peers : []<>(pc[p] \notin {"ack", "resend"}) \/ []<><<Write(Other(p))>>_vars

=============================================================================
