----------------------------- MODULE FifoChannel -----------------------------
(***************************************************************************)
(* What src/MPMCQueue.h promises its callers, with no ring and no turns:   *)
(* an unbounded log of the values in the order in which they were sent.    *)
(* A send reserves the next position of the log and publishes it later; a  *)
(* receive claims the next position and takes its value once published.    *)
(* Positions are published and taken out of order by concurrent threads,   *)
(* but each is taken once, by the receive that claimed it, and no more     *)
(* than Capacity of them are published and not yet taken.                  *)
(***************************************************************************)
EXTENDS Integers, Sequences

CONSTANTS Threads, Values, Raw, Capacity

VARIABLES
  sent,       \* the log: the value at every reserved position
  published,  \* the positions whose value may be taken
  claimed,    \* how many positions receivers have claimed
  claim,      \* the position a thread waits for, 0 if none
  delivered,  \* the positions whose value has been taken
  val         \* the last value each thread sent or received

chanVars == <<sent, published, claimed, claim, delivered, val>>

Init ==
  /\ sent = << >>
  /\ published = {}
  /\ claimed = 0
  /\ claim = [t \in Threads |-> 0]
  /\ delivered = {}
  /\ val = [t \in Threads |-> Raw]

\* A thread picks the value it is about to send.
Prepare(t, v) ==
  /\ claim[t] = 0
  /\ val' = [val EXCEPT ![t] = v]
  /\ UNCHANGED <<sent, published, claimed, claim, delivered>>

Reserve(t, v) ==
  /\ claim[t] = 0
  /\ sent' = Append(sent, v)
  /\ val' = [val EXCEPT ![t] = v]
  /\ UNCHANGED <<published, claimed, claim, delivered>>

Publish(k) ==
  /\ k \in 1 .. Len(sent)
  /\ k \notin published
  /\ k > Capacity => k - Capacity \in delivered
  /\ published' = published \union {k}
  /\ UNCHANGED <<sent, claimed, claim, delivered, val>>

Claim(t) ==
  /\ claim[t] = 0
  /\ claimed' = claimed + 1
  /\ claim' = [claim EXCEPT ![t] = claimed + 1]
  /\ UNCHANGED <<sent, published, delivered, val>>

Receive(t) ==
  /\ claim[t] \in published \ delivered
  /\ val' = [val EXCEPT ![t] = sent[claim[t]]]
  /\ delivered' = delivered \union {claim[t]}
  /\ claim' = [claim EXCEPT ![t] = 0]
  /\ UNCHANGED <<sent, published, claimed>>

Next ==
  \/ \E t \in Threads :
       \/ \E v \in Values : Prepare(t, v) \/ Reserve(t, v)
       \/ Claim(t)
       \/ Receive(t)
  \/ \E k \in 1 .. Len(sent) : Publish(k)

Spec == Init /\ [][Next]_chanVars

=============================================================================
