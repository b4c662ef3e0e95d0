--------------------------- MODULE OrderedStream ---------------------------
(***************************************************************************)
(* What the two ends of an SHDLC connection promise at the least, whatever *)
(* the line does: the payloads arrive in the order in which they were      *)
(* written, none of them twice, and nothing arrives that was not written.  *)
(* Payloads are numbered by the write calls of a peer; some may be lost.   *)
(***************************************************************************)
EXTENDS Naturals, Sequences

CONSTANTS Peers

VARIABLES
  sent,      \* sent[p]: the number of write calls of p so far
  received   \* received[p]: the payloads that p was given, oldest first

vars == <<sent, received>>

Init ==
  /\ sent = [p \in Peers |-> 0]
  /\ received = [p \in Peers |-> <<>>]

Write(p) ==
  /\ sent' = [sent EXCEPT ![p] = @ + 1]
  /\ UNCHANGED received

\* q is given a payload of p that is newer than all it was given before.
Deliver(p, q) ==
  /\ p # q
  /\ \E n \in 1..sent[p] :
       /\ \A i \in 1..Len(received[q]) : received[q][i] < n
       /\ received' = [received EXCEPT ![q] = Append(@, n)]
  /\ UNCHANGED sent

Next == \E p \in Peers : Write(p) \/ \E q \in Peers : Deliver(p, q)

Spec == Init /\ [][Next]_vars

=============================================================================
