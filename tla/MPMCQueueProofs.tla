--------------------------- MODULE MPMCQueueProofs ---------------------------
(***************************************************************************)
(* Proofs about MPMCQueue, for every set of threads and values, every      *)
(* capacity and every number of tickets: its invariant, and that the ring  *)
(* of slots implements the log of FifoChannel.                             *)
(***************************************************************************)
EXTENDS MPMCQueue, TLAPS

-----------------------------------------------------------------------------
(* The inductive invariant.                                                *)

Tickets == 0 .. MaxTickets

\* A slot has not got past the rounds whose tickets are still to be taken.
TurnBehindCounters ==
  /\ head \in Tickets
  /\ tail \in Tickets
  /\ \A k \in Tickets : k >= head => slotTurn[idx(k)] <= turn(k) * 2
  /\ \A k \in Tickets : k >= tail => slotTurn[idx(k)] <= turn(k) * 2 + 1

\* A producer's ticket was taken, is its own, and its slot waits for it: the
\* slot is at most in the ticket's round, and exactly there once the producer
\* has seen it.  The CAS of try_emplace fails if the slot has moved on.
ProducersInTurn ==
  \A t \in Threads :
    /\ Producing(t) =>
         /\ ticket[t] < head
         /\ val[t] = sent[ticket[t] + 1]
         /\ slotTurn[Slot(t)] <= turn(ticket[t]) * 2
         /\ \A u \in Threads \ {t} : Producing(u) => ticket[u] # ticket[t]
    /\ pc[t] \in WritePCs => slotTurn[Slot(t)] = turn(ticket[t]) * 2
    /\ pc[t] = "try_emplace_cas" => slotTurn[Slot(t)] >= turn(ticket[t]) * 2

\* The same for the consumers, one turn later.
ConsumersInTurn ==
  \A t \in Threads :
    /\ Consuming(t) =>
         /\ ticket[t] < tail
         /\ slotTurn[Slot(t)] <= turn(ticket[t]) * 2 + 1
         /\ \A u \in Threads \ {t} : Consuming(u) => ticket[u] # ticket[t]
    /\ pc[t] \in ReadPCs => slotTurn[Slot(t)] = turn(ticket[t]) * 2 + 1
    /\ pc[t] = "try_pop_cas" => slotTurn[Slot(t)] >= turn(ticket[t]) * 2 + 1

\* A slot that waits for a producer is raw until its producer constructs.
EmptySlotsRaw ==
  \A k \in Tickets :
    /\ slotTurn[idx(k)] = turn(k) * 2
    /\ \A t \in Threads : pc[t] = "publish" => ticket[t] # k
    => storage[idx(k)] = Raw

\* A slot that waits for a consumer holds its ticket's value until destroyed.
FullSlotsHoldTheirValue ==
  \A k \in Tickets :
    /\ slotTurn[idx(k)] = turn(k) * 2 + 1
    /\ \A t \in Threads : pc[t] = "release" => ticket[t] # k
    => storage[idx(k)] = sent[k + 1]

\* What a thread knows of the slot it is working on.
OwnSlot ==
  \A t \in Threads :
    /\ pc[t] = "publish" => storage[Slot(t)] = val[t]
    /\ pc[t] = "release" => storage[Slot(t)] = Raw
    /\ pc[t] \in {"destroy", "release"} => val[t] = sent[ticket[t] + 1]

IInv ==
  /\ TypeOK
  /\ TurnBehindCounters
  /\ ProducersInTurn
  /\ ConsumersInTurn
  /\ EmptySlotsRaw
  /\ FullSlotsHoldTheirValue
  /\ OwnSlot

-----------------------------------------------------------------------------
(* Tickets, slots and rounds: a slot and a round determine the ticket.     *)

LEMMA SlotAndRound ==
  ASSUME NEW i \in Nat
  PROVE  /\ idx(i) \in Slots
         /\ turn(i) \in Nat
         /\ i = Capacity * turn(i) + idx(i)
BY CapacityAssumption DEF idx, turn, Slots

LEMMA OwnTicket ==
  ASSUME TypeOK, NEW t \in Threads
  PROVE  /\ ticket[t] \in Nat
         /\ Slot(t) \in Slots
         /\ turn(ticket[t]) \in Nat
         /\ turn(ticket[t]) * 2 + 1 \in Nat
         /\ turn(ticket[t]) * 2 + 2 \in Nat
<1>1. ticket[t] \in Nat
  BY DEF TypeOK
<1>2. Slot(t) \in Slots /\ turn(ticket[t]) \in Nat
  BY <1>1, SlotAndRound DEF Slot
<1> QED
  BY <1>1, <1>2

LEMMA TicketUnique ==
  ASSUME NEW i \in Nat, NEW j \in Nat, idx(i) = idx(j), turn(i) = turn(j)
  PROVE  i = j
BY SlotAndRound

\* The ticket one lap before is of the same slot and the round before.
LEMMA LapBack ==
  ASSUME NEW i \in Nat, i >= Capacity
  PROVE  /\ i - Capacity \in Nat
         /\ idx(i - Capacity) = idx(i)
         /\ turn(i - Capacity) = turn(i) - 1
<1> DEFINE c == Capacity
           q == turn(i)
           p == turn(i - c)
<1>1. c \in Nat \ {0} /\ i - c \in Nat
  BY CapacityAssumption
<1>2. /\ q \in Nat /\ p \in Nat
      /\ i = c * q + idx(i) /\ i - c = c * p + idx(i - c)
      /\ idx(i) \in 0 .. c - 1 /\ idx(i - c) \in 0 .. c - 1
  BY <1>1, SlotAndRound DEF Slots
<1> HIDE DEF c, q, p
<1>3. c * (q - 1 - p) = idx(i - c) - idx(i)
  BY <1>1, <1>2
<1>4. q - 1 - p < 1
  <2> SUFFICES ASSUME q - 1 - p >= 1 PROVE FALSE
    BY <1>2
  <2>1. c * (q - 1 - p) >= c
    BY <1>1, <1>2
  <2> QED
    BY <1>1, <1>2, <1>3, <2>1
<1>5. q - 1 - p > -1
  <2> SUFFICES ASSUME q - 1 - p <= -1 PROVE FALSE
    BY <1>2
  <2>1. c * (q - 1 - p) <= -c
    BY <1>1, <1>2
  <2> QED
    BY <1>1, <1>2, <1>3, <2>1
<1>6. q - 1 = p
  BY <1>2, <1>4, <1>5
<1>7. idx(i - c) = idx(i)
  <2>1. q - 1 - p = 0
    BY <1>2, <1>6
  <2>2. c * (q - 1 - p) = 0
    BY <1>1, <2>1
  <2>3. idx(i) \in Int /\ idx(i - c) \in Int
    BY <1>1, <1>2
  <2> QED
    BY <1>3, <2>2, <2>3
<1> QED
  BY <1>1, <1>6, <1>7 DEF c, q, p

\* Sending extends the log and leaves the tickets handed out as they were.
LEMMA LogGrows ==
  ASSUME NEW log \in Seq(Values), NEW v \in Values
  PROVE  /\ Append(log, v) \in Seq(Values)
         /\ Len(Append(log, v)) = Len(log) + 1
         /\ \A k \in 1 .. Len(log) : Append(log, v)[k] = log[k]
         /\ Append(log, v)[Len(log) + 1] = v
OBVIOUS

-----------------------------------------------------------------------------
(* Type correctness.                                                       *)

\* Every step of every operation keeps the types.
LEMMA TypeStep == TypeOK /\ [Next]_vars => TypeOK'
<1> SUFFICES ASSUME TypeOK, [Next]_vars PROVE TypeOK'
  OBVIOUS
<1> USE DEF TypeOK, Sending, PCs, EmptyPCs, TryPCs, WritePCs, ReadPCs, Goto, Return
<1>1. ASSUME NEW t \in Threads, NEW v \in Values, Emplace(t, v) PROVE TypeOK'
  BY <1>1 DEF Emplace
<1>2. ASSUME NEW t \in Threads, NEW v \in Values, TryEmplace(t, v) PROVE TypeOK'
  BY <1>2 DEF TryEmplace
<1>3. ASSUME NEW t \in Threads, Pop(t) PROVE TypeOK'
  BY <1>3 DEF Pop
<1>20. ASSUME NEW t \in Threads, TryPop(t) PROVE TypeOK'
  BY <1>20 DEF TryPop
<1>4. ASSUME NEW t \in Threads, EmplaceSpin(t) PROVE TypeOK'
  BY <1>4 DEF EmplaceSpin
<1>5. ASSUME NEW t \in Threads, Construct(t) PROVE TypeOK'
  BY <1>5, OwnTicket DEF Construct
<1>6. ASSUME NEW t \in Threads, Publish(t) PROVE TypeOK'
  BY <1>6, OwnTicket DEF Publish
<1>7. ASSUME NEW t \in Threads, TryEmplaceCheck(t) PROVE TypeOK'
  BY <1>7 DEF TryEmplaceCheck
<1>8. ASSUME NEW t \in Threads, TryEmplaceCas(t) PROVE TypeOK'
  <2>1. CASE head = ticket[t]
    <3>1. /\ head' = head + 1 /\ sent' = Append(sent, val[t])
          /\ pc' = [pc EXCEPT ![t] = "construct"] /\ UNCHANGED ticket
      BY <1>8, <2>1 DEF TryEmplaceCas
    <3>2. /\ UNCHANGED <<tail, slotTurn, storage, val, ret>>
          /\ pc[t] = "try_emplace_cas" /\ val[t] \in Values
      BY <1>8 DEF TryEmplaceCas
    <3>3. sent' \in Seq(Values) /\ Len(sent') = head'
      BY <3>1, <3>2, LogGrows
    <3> QED
      BY <3>1, <3>2, <3>3
  <2>2. CASE head # ticket[t]
    BY <1>8, <2>2 DEF TryEmplaceCas
  <2> QED
    BY <2>1, <2>2
<1>9. ASSUME NEW t \in Threads, TryEmplaceReload(t) PROVE TypeOK'
  <2>1. /\ UNCHANGED <<head, tail, slotTurn, storage, sent, val>>
        /\ pc[t] = "try_emplace_reload"
    BY <1>9 DEF TryEmplaceReload
  <2>2. CASE head = ticket[t]
    <3>1. /\ pc' = [pc EXCEPT ![t] = "idle"] /\ ticket' = [ticket EXCEPT ![t] = 0]
          /\ ret' = [ret EXCEPT ![t] = FALSE]
      BY <1>9, <2>2 DEF TryEmplaceReload
    <3> QED
      BY <2>1, <3>1
  <2>3. CASE head # ticket[t]
    <3>1. /\ pc' = [pc EXCEPT ![t] = "try_emplace_check"]
          /\ ticket' = [ticket EXCEPT ![t] = head] /\ UNCHANGED ret
      BY <1>9, <2>3 DEF TryEmplaceReload
    <3> QED
      BY <2>1, <3>1
  <2> QED
    BY <2>2, <2>3
<1>10. ASSUME NEW t \in Threads, PopSpin(t) PROVE TypeOK'
  BY <1>10 DEF PopSpin
<1>11. ASSUME NEW t \in Threads, TryPopCheck(t) PROVE TypeOK'
  BY <1>11 DEF TryPopCheck
<1>12. ASSUME NEW t \in Threads, TryPopCas(t) PROVE TypeOK'
  <2>1. CASE tail = ticket[t]
    <3>1. tail' = tail + 1 /\ pc' = [pc EXCEPT ![t] = "move"] /\ UNCHANGED ticket
      BY <1>12, <2>1 DEF TryPopCas
    <3>2. UNCHANGED <<head, slotTurn, storage, sent, val, ret>> /\ pc[t] = "try_pop_cas"
      BY <1>12 DEF TryPopCas
    <3> QED
      BY <3>1, <3>2
  <2>2. CASE tail # ticket[t]
    BY <1>12, <2>2 DEF TryPopCas
  <2> QED
    BY <2>1, <2>2
<1>13. ASSUME NEW t \in Threads, TryPopReload(t) PROVE TypeOK'
  <2>1. /\ UNCHANGED <<head, tail, slotTurn, storage, sent, val>>
        /\ pc[t] = "try_pop_reload"
    BY <1>13 DEF TryPopReload
  <2>2. CASE tail = ticket[t]
    <3>1. /\ pc' = [pc EXCEPT ![t] = "idle"] /\ ticket' = [ticket EXCEPT ![t] = 0]
          /\ ret' = [ret EXCEPT ![t] = FALSE]
      BY <1>13, <2>2 DEF TryPopReload
    <3> QED
      BY <2>1, <3>1
  <2>3. CASE tail # ticket[t]
    <3>1. /\ pc' = [pc EXCEPT ![t] = "try_pop_check"]
          /\ ticket' = [ticket EXCEPT ![t] = tail] /\ UNCHANGED ret
      BY <1>13, <2>3 DEF TryPopReload
    <3> QED
      BY <2>1, <3>1
  <2> QED
    BY <2>2, <2>3
<1>14. ASSUME NEW t \in Threads, Move(t) PROVE TypeOK'
  BY <1>14, OwnTicket DEF Move
<1>15. ASSUME NEW t \in Threads, Destroy(t) PROVE TypeOK'
  BY <1>15, OwnTicket DEF Destroy
<1>16. ASSUME NEW t \in Threads, Release(t) PROVE TypeOK'
  BY <1>16, OwnTicket DEF Release
<1>17. ASSUME NEW t \in Threads, NEW h \in 0 .. head, EmptyLoadHead(t, h) PROVE TypeOK'
  <2>1. UNCHANGED <<head, tail, slotTurn, storage, sent, val>> /\ h \in Nat
    BY <1>17 DEF EmptyLoadHead
  <2>2. CASE pc[t] = "idle"
    <3>1. /\ pc' = [pc EXCEPT ![t] = "empty_tail"]
          /\ ticket' = [ticket EXCEPT ![t] = h] /\ UNCHANGED ret
      BY <1>17, <2>2 DEF EmptyLoadHead
    <3> QED
      BY <2>1, <3>1
  <2>3. CASE pc[t] = "empty_head"
    <3>1. /\ pc' = [pc EXCEPT ![t] = "idle"] /\ ticket' = [ticket EXCEPT ![t] = 0]
          /\ ret' = [ret EXCEPT ![t] = h - ticket[t] <= 0]
      BY <1>17, <2>3 DEF EmptyLoadHead
    <3>2. ret' \in [Threads -> BOOLEAN]
      BY <3>1, (h - ticket[t] <= 0) \in BOOLEAN, Zenon
    <3>3. ticket' \in [Threads -> Nat] /\ pc' \in [Threads -> PCs]
      BY <3>1
    <3> QED
      BY <2>1, <2>3, <3>1, <3>2, <3>3
  <2> QED
    BY <1>17, <2>2, <2>3 DEF EmptyLoadHead
<1>18. ASSUME NEW t \in Threads, NEW l \in 0 .. tail, EmptyLoadTail(t, l) PROVE TypeOK'
  <2>1. UNCHANGED <<head, tail, slotTurn, storage, sent, val>> /\ l \in Nat
    BY <1>18 DEF EmptyLoadTail
  <2>2. CASE pc[t] = "idle"
    <3>1. /\ pc' = [pc EXCEPT ![t] = "empty_head"]
          /\ ticket' = [ticket EXCEPT ![t] = l] /\ UNCHANGED ret
      BY <1>18, <2>2 DEF EmptyLoadTail
    <3> QED
      BY <2>1, <3>1
  <2>3. CASE pc[t] = "empty_tail"
    <3>1. /\ pc' = [pc EXCEPT ![t] = "idle"] /\ ticket' = [ticket EXCEPT ![t] = 0]
          /\ ret' = [ret EXCEPT ![t] = ticket[t] - l <= 0]
      BY <1>18, <2>3 DEF EmptyLoadTail
    <3>2. ret' \in [Threads -> BOOLEAN]
      BY <3>1, (ticket[t] - l <= 0) \in BOOLEAN, Zenon
    <3>3. ticket' \in [Threads -> Nat] /\ pc' \in [Threads -> PCs]
      BY <3>1
    <3> QED
      BY <2>1, <2>3, <3>1, <3>2, <3>3
  <2> QED
    BY <1>18, <2>2, <2>3 DEF EmptyLoadTail
<1>19. CASE UNCHANGED vars
  BY <1>19 DEF vars
<1> QED
  BY <1>1, <1>2, <1>3, <1>4, <1>5, <1>6, <1>7, <1>8, <1>9, <1>10, <1>11, <1>12,
     <1>13, <1>14, <1>15, <1>16, <1>17, <1>18, <1>19, <1>20
  DEF Next, Begin, Continue, EmplaceStep, TryPopStep, Empty

\* The variables keep their types, and the history keeps one entry per
\* producer ticket, whatever the threads do.
THEOREM TypeCorrect == Spec => []TypeOK
<1>1. Init => TypeOK
  BY CapacityAssumption DEF Init, TypeOK, Sending, PCs
<1>2. TypeOK /\ [Next]_vars => TypeOK'
  BY TypeStep
<1> QED BY <1>1, <1>2, PTL DEF Spec

-----------------------------------------------------------------------------
(* The invariant is inductive.  The steps that move no counter, no slot    *)
(* and leave the thread with no claim on a slot are treated together.      *)

Unclaimed == {"idle", "try_emplace_check", "try_emplace_reload",
              "try_pop_check", "try_pop_reload", "empty_head", "empty_tail"}

LEMMA UnclaimedStep ==
  ASSUME IInv, TypeOK', NEW t \in Threads,
         UNCHANGED <<head, tail, slotTurn, storage, sent>>,
         \A u \in Threads \ {t} :
           pc'[u] = pc[u] /\ ticket'[u] = ticket[u] /\ val'[u] = val[u],
         pc[t] \notin {"publish", "release"},
         pc'[t] \in Unclaimed
  PROVE  IInv'
<1> USE DEF Unclaimed, WritePCs, ReadPCs
<1>1. TurnBehindCounters'
  BY DEF IInv, TurnBehindCounters
<1>2. ProducersInTurn'
  BY DEF IInv, ProducersInTurn, Producing, Slot
<1>3. ConsumersInTurn'
  BY DEF IInv, ConsumersInTurn, Consuming, Slot
<1>4. EmptySlotsRaw'
  BY DEF IInv, EmptySlotsRaw
<1>5. FullSlotsHoldTheirValue'
  BY DEF IInv, FullSlotsHoldTheirValue
<1>6. OwnSlot'
  BY DEF IInv, OwnSlot, Slot
<1> QED
  BY <1>1, <1>2, <1>3, <1>4, <1>5, <1>6 DEF IInv

\* A consumer inside a slot has a ticket whose producer had one too.
LEMMA MovedTicketSent ==
  ASSUME IInv, NEW t \in Threads, pc[t] \in ReadPCs
  PROVE  ticket[t] \in Tickets /\ ticket[t] < head
<1>1. /\ head \in Nat /\ tail \in Tickets /\ ticket[t] \in Nat
      /\ turn(ticket[t]) \in Nat /\ MaxTickets \in Nat
  BY OwnTicket, MaxTicketsAssumption DEF IInv, TypeOK, TurnBehindCounters
<1>2. ticket[t] < tail /\ slotTurn[Slot(t)] = turn(ticket[t]) * 2 + 1
  BY DEF IInv, ConsumersInTurn, Consuming
<1>3. ticket[t] \in Tickets
  BY <1>1, <1>2 DEF Tickets
<1>4. ticket[t] >= head => slotTurn[Slot(t)] <= turn(ticket[t]) * 2
  BY <1>3 DEF IInv, TurnBehindCounters, Slot
<1> QED
  BY <1>1, <1>2, <1>3, <1>4

\* A thread that has taken a producer ticket, by emplace or by the CAS of
\* try_emplace, which saw the slot in the ticket's round and not later.
LEMMA TakeProducerTicket ==
  ASSUME IInv, TypeOK', NEW t \in Threads, NEW v \in Values, head < MaxTickets,
         head' = head + 1, sent' = Append(sent, v),
         UNCHANGED <<tail, slotTurn, storage>>,
         \A u \in Threads \ {t} :
           pc'[u] = pc[u] /\ ticket'[u] = ticket[u] /\ val'[u] = val[u],
         ticket'[t] = head, val'[t] = v,
         \/ pc[t] = "idle" /\ pc'[t] = "emplace_spin"
         \/ pc[t] = "try_emplace_cas" /\ pc'[t] = "construct" /\ ticket[t] = head
  PROVE  IInv'
<1> USE DEF WritePCs, ReadPCs
<1>0. TypeOK /\ head \in Nat /\ MaxTickets \in Nat /\ Len(sent) = head
  BY MaxTicketsAssumption DEF IInv, TypeOK
<1>a. sent'[head + 1] = v /\ \A k \in 1 .. head : sent'[k] = sent[k]
  BY <1>0, LogGrows DEF TypeOK
<1>1. TurnBehindCounters'
  BY <1>0 DEF IInv, TurnBehindCounters, Tickets
<1>2. ProducersInTurn'
  <2>1. slotTurn[idx(head)] <= turn(head) * 2
    BY <1>0 DEF IInv, TurnBehindCounters, Tickets
  <2>2. pc[t] = "try_emplace_cas" => slotTurn[idx(head)] >= turn(head) * 2
    BY DEF IInv, ProducersInTurn, Slot
  <2>3. idx(head) \in Slots /\ turn(head) \in Nat /\ slotTurn[idx(head)] \in Nat
    BY <1>0, SlotAndRound DEF TypeOK
  <2>4. \A u \in Threads \ {t} : Producing(u) => ticket[u] \in 0 .. head - 1
    BY <1>0 DEF IInv, ProducersInTurn, TypeOK
  <2>5. \A u \in Threads \ {t} : Producing(u) => sent'[ticket[u] + 1] = sent[ticket[u] + 1]
    BY <1>0, <1>a, <2>4
  <2>6. ASSUME NEW u \in Threads \ {t}
        PROVE  /\ Producing(u)' =>
                    /\ ticket'[u] < head'
                    /\ val'[u] = sent'[ticket'[u] + 1]
                    /\ slotTurn'[Slot(u)'] <= turn(ticket'[u]) * 2
                    /\ \A w \in Threads \ {u} : Producing(w)' => ticket'[w] # ticket'[u]
               /\ pc'[u] \in WritePCs => slotTurn'[Slot(u)'] = turn(ticket'[u]) * 2
               /\ pc'[u] = "try_emplace_cas" => slotTurn'[Slot(u)'] >= turn(ticket'[u]) * 2
    BY <1>0, <2>4, <2>5 DEF IInv, ProducersInTurn, Producing, Slot
  <2>7. /\ Producing(t)' =>
             /\ ticket'[t] < head'
             /\ val'[t] = sent'[ticket'[t] + 1]
             /\ slotTurn'[Slot(t)'] <= turn(ticket'[t]) * 2
             /\ \A w \in Threads \ {t} : Producing(w)' => ticket'[w] # ticket'[t]
        /\ pc'[t] \in WritePCs => slotTurn'[Slot(t)'] = turn(ticket'[t]) * 2
        /\ pc'[t] = "try_emplace_cas" => slotTurn'[Slot(t)'] >= turn(ticket'[t]) * 2
    BY <1>0, <1>a, <2>1, <2>2, <2>3, <2>4 DEF Producing, Slot
  <2> QED
    BY <2>6, <2>7 DEF ProducersInTurn
<1>3. ConsumersInTurn'
  BY DEF IInv, ConsumersInTurn, Consuming, Slot
<1>4. EmptySlotsRaw'
  BY DEF IInv, EmptySlotsRaw
<1>5. FullSlotsHoldTheirValue'
  <2> SUFFICES ASSUME NEW k \in Tickets, slotTurn[idx(k)] = turn(k) * 2 + 1,
                      \A u \in Threads : pc'[u] = "release" => ticket'[u] # k
               PROVE  storage[idx(k)] = sent'[k + 1]
    BY DEF FullSlotsHoldTheirValue
  <2>1. k < head
    BY <1>0, SlotAndRound DEF IInv, TurnBehindCounters, Tickets
  <2>2. storage[idx(k)] = sent[k + 1]
    BY DEF IInv, FullSlotsHoldTheirValue
  <2> QED
    BY <1>0, <1>a, <2>1, <2>2 DEF Tickets
<1>6. OwnSlot'
  <2>1. ASSUME NEW u \in Threads \ {t}, pc[u] \in {"destroy", "release"}
        PROVE  ticket[u] + 1 \in 1 .. head
    BY <1>0, <2>1, MovedTicketSent DEF TypeOK
  <2>2. \A u \in Threads \ {t} :
          pc[u] \in {"destroy", "release"} => sent'[ticket[u] + 1] = sent[ticket[u] + 1]
    BY <1>a, <2>1
  <2> QED
    BY <2>2 DEF IInv, OwnSlot, Slot
<1> QED
  BY <1>1, <1>2, <1>3, <1>4, <1>5, <1>6 DEF IInv

\* The same for a consumer ticket, taken by pop or by the CAS of try_pop.
LEMMA TakeConsumerTicket ==
  ASSUME IInv, TypeOK', NEW t \in Threads, tail < MaxTickets,
         tail' = tail + 1,
         UNCHANGED <<head, slotTurn, storage, sent>>,
         \A u \in Threads \ {t} :
           pc'[u] = pc[u] /\ ticket'[u] = ticket[u] /\ val'[u] = val[u],
         ticket'[t] = tail,
         \/ pc[t] = "idle" /\ pc'[t] = "pop_spin"
         \/ pc[t] = "try_pop_cas" /\ pc'[t] = "move" /\ ticket[t] = tail
  PROVE  IInv'
<1> USE DEF WritePCs, ReadPCs
<1>0. TypeOK /\ tail \in Nat /\ MaxTickets \in Nat
  BY MaxTicketsAssumption DEF IInv, TypeOK
<1>1. TurnBehindCounters'
  BY <1>0 DEF IInv, TurnBehindCounters, Tickets
<1>2. ProducersInTurn'
  BY DEF IInv, ProducersInTurn, Producing, Slot
<1>3. ConsumersInTurn'
  <2>1. slotTurn[idx(tail)] <= turn(tail) * 2 + 1
    BY <1>0 DEF IInv, TurnBehindCounters, Tickets
  <2>2. pc[t] = "try_pop_cas" => slotTurn[idx(tail)] >= turn(tail) * 2 + 1
    BY DEF IInv, ConsumersInTurn, Slot
  <2>3. idx(tail) \in Slots /\ turn(tail) \in Nat /\ slotTurn[idx(tail)] \in Nat
    BY <1>0, SlotAndRound DEF TypeOK
  <2>4. \A u \in Threads \ {t} : Consuming(u) => ticket[u] \in 0 .. tail - 1
    BY <1>0 DEF IInv, ConsumersInTurn, TypeOK
  <2> QED
    BY <1>0, <2>1, <2>2, <2>3, <2>4 DEF IInv, ConsumersInTurn, Consuming, Slot
<1>4. EmptySlotsRaw'
  BY DEF IInv, EmptySlotsRaw
<1>5. FullSlotsHoldTheirValue'
  BY DEF IInv, FullSlotsHoldTheirValue
<1>6. OwnSlot'
  BY DEF IInv, OwnSlot, Slot
<1> QED
  BY <1>1, <1>2, <1>3, <1>4, <1>5, <1>6 DEF IInv

\* A load of the slot's turn that admits the thread to the slot.
LEMMA TurnSeen ==
  ASSUME IInv, TypeOK', NEW t \in Threads,
         UNCHANGED <<head, tail, slotTurn, storage, sent, ticket, val>>,
         \A u \in Threads \ {t} : pc'[u] = pc[u],
         \/ pc[t] = "emplace_spin" /\ pc'[t] = "construct" /\ ProducerTurn(t)
         \/ pc[t] = "try_emplace_check" /\ pc'[t] = "try_emplace_cas" /\ ProducerTurn(t)
         \/ pc[t] = "pop_spin" /\ pc'[t] = "move" /\ ConsumerTurn(t)
         \/ pc[t] = "try_pop_check" /\ pc'[t] = "try_pop_cas" /\ ConsumerTurn(t)
  PROVE  IInv'
<1> USE DEF WritePCs, ReadPCs
<1>0. /\ turn(ticket[t]) * 2 \in Nat /\ turn(ticket[t]) * 2 + 1 \in Nat
      /\ slotTurn[Slot(t)] \in Nat
  BY OwnTicket DEF IInv, TypeOK
<1>1. TurnBehindCounters'
  BY DEF IInv, TurnBehindCounters
<1>2. ProducersInTurn'
  BY <1>0 DEF IInv, ProducersInTurn, Producing, Slot, ProducerTurn
<1>3. ConsumersInTurn'
  BY <1>0 DEF IInv, ConsumersInTurn, Consuming, Slot, ConsumerTurn
<1>4. EmptySlotsRaw'
  BY DEF IInv, EmptySlotsRaw
<1>5. FullSlotsHoldTheirValue'
  BY DEF IInv, FullSlotsHoldTheirValue
<1>6. OwnSlot'
  BY DEF IInv, OwnSlot, Slot
<1> QED
  BY <1>1, <1>2, <1>3, <1>4, <1>5, <1>6 DEF IInv

\* Threads that are inside a slot are alone there: two producers or two
\* consumers of one slot and one round would hold the same ticket, and a
\* producer and a consumer need different turns.
LEMMA Exclusive == IInv => SlotExclusive
<1> SUFFICES ASSUME IInv, NEW t \in Threads, NEW u \in Threads, t # u,
                    Accessing(t), Accessing(u), Slot(t) = Slot(u)
             PROVE  FALSE
  BY DEF SlotExclusive
<1>1. /\ ticket[t] \in Nat /\ turn(ticket[t]) \in Nat
      /\ ticket[u] \in Nat /\ turn(ticket[u]) \in Nat
  BY OwnTicket DEF IInv
<1>2. turn(ticket[t]) = turn(ticket[u]) => ticket[t] = ticket[u]
  BY <1>1, TicketUnique DEF Slot
<1>3. pc[t] \in WritePCs => slotTurn[Slot(t)] = turn(ticket[t]) * 2
  BY DEF IInv, ProducersInTurn
<1>4. pc[u] \in WritePCs => slotTurn[Slot(u)] = turn(ticket[u]) * 2
  BY DEF IInv, ProducersInTurn
<1>5. pc[t] \in ReadPCs => slotTurn[Slot(t)] = turn(ticket[t]) * 2 + 1
  BY DEF IInv, ConsumersInTurn
<1>6. pc[u] \in ReadPCs => slotTurn[Slot(u)] = turn(ticket[u]) * 2 + 1
  BY DEF IInv, ConsumersInTurn
<1>7. CASE pc[t] \in WritePCs /\ pc[u] \in WritePCs
  <2>1. ticket[t] = ticket[u]
    BY <1>1, <1>2, <1>3, <1>4, <1>7
  <2> QED
    BY <1>7, <2>1 DEF IInv, ProducersInTurn, Producing
<1>8. CASE pc[t] \in ReadPCs /\ pc[u] \in ReadPCs
  <2>1. ticket[t] = ticket[u]
    BY <1>1, <1>2, <1>5, <1>6, <1>8
  <2> QED
    BY <1>8, <2>1 DEF IInv, ConsumersInTurn, Consuming
<1>9. CASE pc[t] \in WritePCs /\ pc[u] \in ReadPCs
  BY <1>1, <1>3, <1>6, <1>9
<1>10. CASE pc[t] \in ReadPCs /\ pc[u] \in WritePCs
  BY <1>1, <1>4, <1>5, <1>10
<1> QED
  BY <1>7, <1>8, <1>9, <1>10 DEF Accessing

\* Construct and Destroy write the storage of a slot the thread is alone in.
LEMMA ConstructStep ==
  ASSUME IInv, TypeOK', NEW t \in Threads, Construct(t)
  PROVE  IInv'
<1> USE DEF WritePCs, ReadPCs
<1>a. /\ pc[t] = "construct" /\ pc'[t] = "publish"
      /\ \A u \in Threads \ {t} : pc'[u] = pc[u]
      /\ UNCHANGED <<head, tail, slotTurn, sent, ticket, val>>
      /\ Slot(t) \in Slots
      /\ storage'[Slot(t)] = val[t]
      /\ \A s \in Slots \ {Slot(t)} : storage'[s] = storage[s]
  BY OwnTicket DEF IInv, TypeOK, Construct, Goto
<1>b. /\ ticket[t] \in Nat /\ turn(ticket[t]) \in Nat
      /\ slotTurn[Slot(t)] = turn(ticket[t]) * 2
  BY <1>a, OwnTicket DEF IInv, ProducersInTurn
<1>c. \A k \in Tickets : k \in Nat /\ idx(k) \in Slots /\ turn(k) \in Nat
  BY SlotAndRound DEF Tickets
<1>d. \A u \in Threads \ {t} : Accessing(u) => Slot(u) \in Slots \ {Slot(t)}
  BY <1>a, Exclusive, OwnTicket DEF SlotExclusive, Accessing, IInv
<1>1. TurnBehindCounters'
  BY <1>a DEF IInv, TurnBehindCounters
<1>2. ProducersInTurn'
  BY <1>a DEF IInv, ProducersInTurn, Producing, Slot
<1>3. ConsumersInTurn'
  BY <1>a DEF IInv, ConsumersInTurn, Consuming, Slot
<1>4. EmptySlotsRaw'
  <2> SUFFICES ASSUME NEW k \in Tickets, slotTurn[idx(k)] = turn(k) * 2,
                      \A u \in Threads : pc'[u] = "publish" => ticket[u] # k
               PROVE  storage'[idx(k)] = Raw
    BY <1>a DEF EmptySlotsRaw
  <2>1. idx(k) # Slot(t)
    BY <1>a, <1>b, <1>c, TicketUnique DEF Slot
  <2>2. storage[idx(k)] = Raw
    BY <1>a DEF IInv, EmptySlotsRaw
  <2> QED
    BY <1>a, <1>c, <2>1, <2>2
<1>5. FullSlotsHoldTheirValue'
  <2> SUFFICES ASSUME NEW k \in Tickets, slotTurn[idx(k)] = turn(k) * 2 + 1,
                      \A u \in Threads : pc'[u] = "release" => ticket[u] # k
               PROVE  storage'[idx(k)] = sent[k + 1]
    BY <1>a DEF FullSlotsHoldTheirValue
  <2>1. idx(k) # Slot(t)
    BY <1>b, <1>c
  <2>2. storage[idx(k)] = sent[k + 1]
    BY <1>a DEF IInv, FullSlotsHoldTheirValue
  <2> QED
    BY <1>a, <1>c, <2>1, <2>2
<1>6. OwnSlot'
  BY <1>a, <1>d DEF IInv, OwnSlot, Slot, Accessing
<1> QED
  BY <1>1, <1>2, <1>3, <1>4, <1>5, <1>6 DEF IInv

LEMMA DestroyStep ==
  ASSUME IInv, TypeOK', NEW t \in Threads, Destroy(t)
  PROVE  IInv'
<1> USE DEF WritePCs, ReadPCs
<1>a. /\ pc[t] = "destroy" /\ pc'[t] = "release"
      /\ \A u \in Threads \ {t} : pc'[u] = pc[u]
      /\ UNCHANGED <<head, tail, slotTurn, sent, ticket, val>>
      /\ Slot(t) \in Slots
      /\ storage'[Slot(t)] = Raw
      /\ \A s \in Slots \ {Slot(t)} : storage'[s] = storage[s]
  BY OwnTicket DEF IInv, TypeOK, Destroy, Goto
<1>b. /\ ticket[t] \in Nat /\ turn(ticket[t]) \in Nat
      /\ slotTurn[Slot(t)] = turn(ticket[t]) * 2 + 1
  BY <1>a, OwnTicket DEF IInv, ConsumersInTurn
<1>c. \A k \in Tickets : k \in Nat /\ idx(k) \in Slots /\ turn(k) \in Nat
  BY SlotAndRound DEF Tickets
<1>d. \A u \in Threads \ {t} : Accessing(u) => Slot(u) \in Slots \ {Slot(t)}
  BY <1>a, Exclusive, OwnTicket DEF SlotExclusive, Accessing, IInv
<1>1. TurnBehindCounters'
  BY <1>a DEF IInv, TurnBehindCounters
<1>2. ProducersInTurn'
  BY <1>a DEF IInv, ProducersInTurn, Producing, Slot
<1>3. ConsumersInTurn'
  BY <1>a DEF IInv, ConsumersInTurn, Consuming, Slot
<1>4. EmptySlotsRaw'
  <2> SUFFICES ASSUME NEW k \in Tickets, slotTurn[idx(k)] = turn(k) * 2,
                      \A u \in Threads : pc'[u] = "publish" => ticket[u] # k
               PROVE  storage'[idx(k)] = Raw
    BY <1>a DEF EmptySlotsRaw
  <2>2. storage[idx(k)] = Raw
    BY <1>a DEF IInv, EmptySlotsRaw
  <2> QED
    BY <1>a, <1>c, <2>2
<1>5. FullSlotsHoldTheirValue'
  <2> SUFFICES ASSUME NEW k \in Tickets, slotTurn[idx(k)] = turn(k) * 2 + 1,
                      \A u \in Threads : pc'[u] = "release" => ticket[u] # k
               PROVE  storage'[idx(k)] = sent[k + 1]
    BY <1>a DEF FullSlotsHoldTheirValue
  <2>1. idx(k) # Slot(t)
    BY <1>a, <1>b, <1>c, TicketUnique DEF Slot
  <2>2. storage[idx(k)] = sent[k + 1]
    BY <1>a DEF IInv, FullSlotsHoldTheirValue
  <2> QED
    BY <1>a, <1>c, <2>1, <2>2
<1>6. OwnSlot'
  BY <1>a, <1>d DEF IInv, OwnSlot, Slot, Accessing
<1> QED
  BY <1>1, <1>2, <1>3, <1>4, <1>5, <1>6 DEF IInv

\* Move copies out the value the ticket's producer left in the slot.
LEMMA MoveStep ==
  ASSUME IInv, TypeOK', NEW t \in Threads, Move(t)
  PROVE  IInv'
<1> USE DEF WritePCs, ReadPCs
<1>a. /\ pc[t] = "move" /\ pc'[t] = "destroy"
      /\ \A u \in Threads \ {t} : pc'[u] = pc[u] /\ val'[u] = val[u]
      /\ UNCHANGED <<head, tail, slotTurn, storage, sent, ticket>>
      /\ val'[t] = storage[Slot(t)]
  BY DEF IInv, TypeOK, Move, Goto
<1>b. /\ slotTurn[Slot(t)] = turn(ticket[t]) * 2 + 1
      /\ \A u \in Threads : pc[u] = "release" => ticket[u] # ticket[t]
  BY <1>a DEF IInv, ConsumersInTurn, Consuming
<1>c. val'[t] = sent[ticket[t] + 1]
  <2>1. ticket[t] \in Tickets
    BY <1>a, MovedTicketSent
  <2> QED
    BY <1>a, <1>b, <2>1 DEF IInv, FullSlotsHoldTheirValue, Slot
<1>1. TurnBehindCounters'
  BY <1>a DEF IInv, TurnBehindCounters
<1>2. ProducersInTurn'
  BY <1>a DEF IInv, ProducersInTurn, Producing, Slot
<1>3. ConsumersInTurn'
  BY <1>a DEF IInv, ConsumersInTurn, Consuming, Slot
<1>4. EmptySlotsRaw'
  BY <1>a DEF IInv, EmptySlotsRaw
<1>5. FullSlotsHoldTheirValue'
  BY <1>a DEF IInv, FullSlotsHoldTheirValue
<1>6. OwnSlot'
  BY <1>a, <1>c DEF IInv, OwnSlot, Slot
<1> QED
  BY <1>1, <1>2, <1>3, <1>4, <1>5, <1>6 DEF IInv

\* Publish and Release turn the slot over.  Every other ticket of the slot is
\* of another round, so the new turn is still on the right side of it.
LEMMA PublishStep ==
  ASSUME IInv, TypeOK', NEW t \in Threads, Publish(t)
  PROVE  IInv'
<1> USE DEF WritePCs, ReadPCs
<1>a. /\ pc[t] = "publish" /\ pc'[t] = "idle"
      /\ \A u \in Threads \ {t} : pc'[u] = pc[u] /\ ticket'[u] = ticket[u]
      /\ UNCHANGED <<head, tail, storage, sent, val>>
      /\ Slot(t) \in Slots
      /\ slotTurn'[Slot(t)] = turn(ticket[t]) * 2 + 1
      /\ \A s \in Slots \ {Slot(t)} : slotTurn'[s] = slotTurn[s]
  BY OwnTicket DEF IInv, TypeOK, Publish, Return, Goto
<1>b. /\ ticket[t] \in Nat /\ turn(ticket[t]) \in Nat
      /\ slotTurn[Slot(t)] = turn(ticket[t]) * 2
      /\ ticket[t] < head
      /\ val[t] = sent[ticket[t] + 1]
      /\ storage[Slot(t)] = val[t]
  BY <1>a, OwnTicket DEF IInv, ProducersInTurn, OwnSlot, Producing
<1>c. \A k \in Nat : idx(k) \in Slots /\ turn(k) \in Nat /\ slotTurn[idx(k)] \in Nat
  BY SlotAndRound DEF IInv, TypeOK
<1>d. \A k \in Nat : idx(k) = Slot(t) /\ turn(k) = turn(ticket[t]) => k = ticket[t]
  BY <1>b, TicketUnique DEF Slot
<1>e. \A u \in Threads : ticket[u] \in Nat
  BY DEF IInv, TypeOK
<1>1. TurnBehindCounters'
  <2>1. head \in Tickets /\ tail \in Tickets
    BY DEF IInv, TurnBehindCounters
  <2>2. ASSUME NEW k \in Tickets, k >= head PROVE slotTurn'[idx(k)] <= turn(k) * 2
    <3>1. slotTurn[idx(k)] <= turn(k) * 2
      BY <2>2 DEF IInv, TurnBehindCounters
    <3>2. k \in Nat /\ k # ticket[t]
      BY <1>b, <2>1, <2>2 DEF Tickets
    <3> QED
      BY <1>a, <1>b, <1>c, <1>d, <3>1, <3>2
  <2>3. ASSUME NEW k \in Tickets, k >= tail PROVE slotTurn'[idx(k)] <= turn(k) * 2 + 1
    <3>1. slotTurn[idx(k)] <= turn(k) * 2 + 1
      BY <2>3 DEF IInv, TurnBehindCounters
    <3>2. k \in Nat
      BY DEF Tickets
    <3> QED
      BY <1>a, <1>b, <1>c, <3>1, <3>2
  <2> QED
    BY <1>a, <2>1, <2>2, <2>3 DEF TurnBehindCounters
<1>2. ProducersInTurn'
  <2>1. ASSUME NEW u \in Threads \ {t}
        PROVE  /\ Producing(u) => slotTurn'[Slot(u)] <= turn(ticket[u]) * 2
               /\ pc[u] \in WritePCs => slotTurn'[Slot(u)] = turn(ticket[u]) * 2
               /\ pc[u] = "try_emplace_cas" => slotTurn'[Slot(u)] >= turn(ticket[u]) * 2
    <3>1. /\ Producing(u) => slotTurn[Slot(u)] <= turn(ticket[u]) * 2
                             /\ ticket[u] # ticket[t]
          /\ pc[u] \in WritePCs => slotTurn[Slot(u)] = turn(ticket[u]) * 2
          /\ pc[u] = "try_emplace_cas" => slotTurn[Slot(u)] >= turn(ticket[u]) * 2
      BY <1>a DEF IInv, ProducersInTurn, Producing
    <3>2. pc[u] \in WritePCs => Producing(u)
      BY DEF Producing
    <3> QED
      BY <1>a, <1>b, <1>c, <1>d, <1>e, <3>1, <3>2 DEF Slot
  <2>2. \A u \in Threads \ {t} : Producing(u)' <=> Producing(u)
    BY <1>a DEF Producing
  <2> QED
    BY <1>a, <2>1, <2>2 DEF IInv, ProducersInTurn, Producing, Slot
<1>3. ConsumersInTurn'
  <2>1. ASSUME NEW u \in Threads \ {t}
        PROVE  /\ Consuming(u) => slotTurn'[Slot(u)] <= turn(ticket[u]) * 2 + 1
               /\ pc[u] \in ReadPCs => slotTurn'[Slot(u)] = turn(ticket[u]) * 2 + 1
               /\ pc[u] = "try_pop_cas" => slotTurn'[Slot(u)] >= turn(ticket[u]) * 2 + 1
    <3>1. /\ Consuming(u) => slotTurn[Slot(u)] <= turn(ticket[u]) * 2 + 1
          /\ pc[u] \in ReadPCs => slotTurn[Slot(u)] = turn(ticket[u]) * 2 + 1
          /\ pc[u] = "try_pop_cas" => slotTurn[Slot(u)] >= turn(ticket[u]) * 2 + 1
      BY DEF IInv, ConsumersInTurn
    <3> QED
      BY <1>a, <1>b, <1>c, <1>e, <3>1 DEF Slot
  <2> QED
    BY <1>a, <2>1 DEF IInv, ConsumersInTurn, Consuming, Slot
<1>4. EmptySlotsRaw'
  <2> SUFFICES ASSUME NEW k \in Tickets, slotTurn'[idx(k)] = turn(k) * 2,
                      \A u \in Threads : pc'[u] = "publish" => ticket'[u] # k
               PROVE  storage[idx(k)] = Raw
    BY <1>a DEF EmptySlotsRaw
  <2>1. k \in Nat
    BY DEF Tickets
  <2>2. idx(k) # Slot(t)
    BY <1>a, <1>b, <1>c, <2>1
  <2>3. slotTurn[idx(k)] = turn(k) * 2 /\ ticket[t] # k
    BY <1>a, <1>c, <2>1, <2>2 DEF Slot
  <2> QED
    BY <1>a, <2>3 DEF IInv, EmptySlotsRaw
<1>5. FullSlotsHoldTheirValue'
  <2> SUFFICES ASSUME NEW k \in Tickets, slotTurn'[idx(k)] = turn(k) * 2 + 1,
                      \A u \in Threads : pc'[u] = "release" => ticket'[u] # k
               PROVE  storage[idx(k)] = sent[k + 1]
    BY <1>a DEF FullSlotsHoldTheirValue
  <2>1. k \in Nat
    BY DEF Tickets
  <2>2. CASE idx(k) = Slot(t)
    <3>1. k = ticket[t]
      BY <1>a, <1>b, <1>c, <1>d, <2>1, <2>2
    <3> QED
      BY <1>b, <2>2, <3>1
  <2>3. CASE idx(k) # Slot(t)
    <3>1. slotTurn[idx(k)] = turn(k) * 2 + 1
      BY <1>a, <1>c, <2>1, <2>3
    <3> QED
      BY <1>a, <3>1 DEF IInv, FullSlotsHoldTheirValue
  <2> QED
    BY <2>2, <2>3
<1>6. OwnSlot'
  BY <1>a DEF IInv, OwnSlot, Slot
<1> QED
  BY <1>1, <1>2, <1>3, <1>4, <1>5, <1>6 DEF IInv

LEMMA ReleaseStep ==
  ASSUME IInv, TypeOK', NEW t \in Threads, Release(t)
  PROVE  IInv'
<1> USE DEF WritePCs, ReadPCs
<1>a. /\ pc[t] = "release" /\ pc'[t] = "idle"
      /\ \A u \in Threads \ {t} : pc'[u] = pc[u] /\ ticket'[u] = ticket[u]
      /\ UNCHANGED <<head, tail, storage, sent, val>>
      /\ Slot(t) \in Slots
      /\ slotTurn'[Slot(t)] = turn(ticket[t]) * 2 + 2
      /\ \A s \in Slots \ {Slot(t)} : slotTurn'[s] = slotTurn[s]
  BY OwnTicket DEF IInv, TypeOK, Release, Return, Goto
<1>b. /\ ticket[t] \in Nat /\ turn(ticket[t]) \in Nat
      /\ slotTurn[Slot(t)] = turn(ticket[t]) * 2 + 1
      /\ ticket[t] < tail
      /\ storage[Slot(t)] = Raw
  BY <1>a, OwnTicket DEF IInv, ConsumersInTurn, OwnSlot, Consuming
<1>c. \A k \in Nat : idx(k) \in Slots /\ turn(k) \in Nat /\ slotTurn[idx(k)] \in Nat
  BY SlotAndRound DEF IInv, TypeOK
<1>d. \A k \in Nat : idx(k) = Slot(t) /\ turn(k) = turn(ticket[t]) => k = ticket[t]
  BY <1>b, TicketUnique DEF Slot
<1>e. \A u \in Threads : ticket[u] \in Nat
  BY DEF IInv, TypeOK
<1>1. TurnBehindCounters'
  <2>1. head \in Tickets /\ tail \in Tickets
    BY DEF IInv, TurnBehindCounters
  <2>2. ASSUME NEW k \in Tickets, k >= head PROVE slotTurn'[idx(k)] <= turn(k) * 2
    <3>1. slotTurn[idx(k)] <= turn(k) * 2
      BY <2>2 DEF IInv, TurnBehindCounters
    <3>2. k \in Nat
      BY DEF Tickets
    <3> QED
      BY <1>a, <1>b, <1>c, <3>1, <3>2
  <2>3. ASSUME NEW k \in Tickets, k >= tail PROVE slotTurn'[idx(k)] <= turn(k) * 2 + 1
    <3>1. slotTurn[idx(k)] <= turn(k) * 2 + 1
      BY <2>3 DEF IInv, TurnBehindCounters
    <3>2. k \in Nat /\ k # ticket[t]
      BY <1>b, <2>1, <2>3 DEF Tickets
    <3> QED
      BY <1>a, <1>b, <1>c, <1>d, <3>1, <3>2
  <2> QED
    BY <1>a, <2>1, <2>2, <2>3 DEF TurnBehindCounters
<1>2. ProducersInTurn'
  <2>1. ASSUME NEW u \in Threads \ {t}
        PROVE  /\ Producing(u) => slotTurn'[Slot(u)] <= turn(ticket[u]) * 2
               /\ pc[u] \in WritePCs => slotTurn'[Slot(u)] = turn(ticket[u]) * 2
               /\ pc[u] = "try_emplace_cas" => slotTurn'[Slot(u)] >= turn(ticket[u]) * 2
    <3>1. /\ Producing(u) => slotTurn[Slot(u)] <= turn(ticket[u]) * 2
          /\ pc[u] \in WritePCs => slotTurn[Slot(u)] = turn(ticket[u]) * 2
          /\ pc[u] = "try_emplace_cas" => slotTurn[Slot(u)] >= turn(ticket[u]) * 2
      BY DEF IInv, ProducersInTurn
    <3> QED
      BY <1>a, <1>b, <1>c, <1>e, <3>1 DEF Slot
  <2> QED
    BY <1>a, <2>1 DEF IInv, ProducersInTurn, Producing, Slot
<1>3. ConsumersInTurn'
  <2>1. ASSUME NEW u \in Threads \ {t}
        PROVE  /\ Consuming(u) => slotTurn'[Slot(u)] <= turn(ticket[u]) * 2 + 1
               /\ pc[u] \in ReadPCs => slotTurn'[Slot(u)] = turn(ticket[u]) * 2 + 1
               /\ pc[u] = "try_pop_cas" => slotTurn'[Slot(u)] >= turn(ticket[u]) * 2 + 1
    <3>1. /\ Consuming(u) => slotTurn[Slot(u)] <= turn(ticket[u]) * 2 + 1
                             /\ ticket[u] # ticket[t]
          /\ pc[u] \in ReadPCs => slotTurn[Slot(u)] = turn(ticket[u]) * 2 + 1
          /\ pc[u] = "try_pop_cas" => slotTurn[Slot(u)] >= turn(ticket[u]) * 2 + 1
      BY <1>a DEF IInv, ConsumersInTurn, Consuming
    <3>2. pc[u] \in ReadPCs => Consuming(u)
      BY DEF Consuming
    <3> QED
      BY <1>a, <1>b, <1>c, <1>d, <1>e, <3>1, <3>2 DEF Slot
  <2>2. \A u \in Threads \ {t} : Consuming(u)' <=> Consuming(u)
    BY <1>a DEF Consuming
  <2> QED
    BY <1>a, <2>1, <2>2 DEF IInv, ConsumersInTurn, Consuming, Slot
<1>4. EmptySlotsRaw'
  <2> SUFFICES ASSUME NEW k \in Tickets, slotTurn'[idx(k)] = turn(k) * 2,
                      \A u \in Threads : pc'[u] = "publish" => ticket'[u] # k
               PROVE  storage[idx(k)] = Raw
    BY <1>a DEF EmptySlotsRaw
  <2>1. k \in Nat
    BY DEF Tickets
  <2>2. CASE idx(k) = Slot(t)
    BY <1>b, <2>2
  <2>3. CASE idx(k) # Slot(t)
    <3>1. slotTurn[idx(k)] = turn(k) * 2
      BY <1>a, <1>c, <2>1, <2>3
    <3> QED
      BY <1>a, <3>1 DEF IInv, EmptySlotsRaw
  <2> QED
    BY <2>2, <2>3
<1>5. FullSlotsHoldTheirValue'
  <2> SUFFICES ASSUME NEW k \in Tickets, slotTurn'[idx(k)] = turn(k) * 2 + 1,
                      \A u \in Threads : pc'[u] = "release" => ticket'[u] # k
               PROVE  storage[idx(k)] = sent[k + 1]
    BY <1>a DEF FullSlotsHoldTheirValue
  <2>1. k \in Nat
    BY DEF Tickets
  <2>2. idx(k) # Slot(t)
    BY <1>a, <1>b, <1>c, <2>1
  <2>3. slotTurn[idx(k)] = turn(k) * 2 + 1 /\ ticket[t] # k
    BY <1>a, <1>c, <2>1, <2>2 DEF Slot
  <2> QED
    BY <1>a, <2>3 DEF IInv, FullSlotsHoldTheirValue
<1>6. OwnSlot'
  BY <1>a DEF IInv, OwnSlot, Slot
<1> QED
  BY <1>1, <1>2, <1>3, <1>4, <1>5, <1>6 DEF IInv

-----------------------------------------------------------------------------
(* The theorems.                                                           *)

\* Every step of every operation keeps the invariant.
LEMMA InvariantStep == IInv /\ TypeOK' /\ [Next]_vars => IInv'
<1> SUFFICES ASSUME IInv, TypeOK', [Next]_vars PROVE IInv'
  OBVIOUS
<1> USE DEF Goto, Return, Unclaimed
<1>0. TypeOK
  BY DEF IInv
<1>1. ASSUME NEW t \in Threads, NEW v \in Values, Emplace(t, v) PROVE IInv'
  <2>1. /\ head < MaxTickets /\ head' = head + 1 /\ sent' = Append(sent, v)
        /\ UNCHANGED <<tail, slotTurn, storage>>
        /\ ticket'[t] = head /\ val'[t] = v
        /\ pc[t] = "idle" /\ pc'[t] = "emplace_spin"
        /\ \A u \in Threads \ {t} :
             pc'[u] = pc[u] /\ ticket'[u] = ticket[u] /\ val'[u] = val[u]
    BY <1>0, <1>1 DEF Emplace, TypeOK
  <2> QED
    BY <2>1, TakeProducerTicket
<1>2. ASSUME NEW t \in Threads, NEW v \in Values, TryEmplace(t, v) PROVE IInv'
  BY <1>0, <1>2, UnclaimedStep DEF TryEmplace, TypeOK
<1>3. ASSUME NEW t \in Threads, Pop(t) PROVE IInv'
  BY <1>0, <1>3, TakeConsumerTicket DEF Pop, TypeOK
<1>4. ASSUME NEW t \in Threads, TryPop(t) PROVE IInv'
  BY <1>0, <1>4, UnclaimedStep DEF TryPop, TypeOK
<1>5. ASSUME NEW t \in Threads, EmplaceSpin(t) PROVE IInv'
  BY <1>0, <1>5, TurnSeen DEF EmplaceSpin, TypeOK
<1>6. ASSUME NEW t \in Threads, Construct(t) PROVE IInv'
  BY <1>6, ConstructStep
<1>7. ASSUME NEW t \in Threads, Publish(t) PROVE IInv'
  BY <1>7, PublishStep
<1>8. ASSUME NEW t \in Threads, TryEmplaceCheck(t) PROVE IInv'
  <2>1. CASE ProducerTurn(t)
    BY <1>0, <1>8, <2>1, TurnSeen DEF TryEmplaceCheck, TypeOK
  <2>2. CASE ~ProducerTurn(t)
    BY <1>0, <1>8, <2>2, UnclaimedStep DEF TryEmplaceCheck, TypeOK
  <2> QED
    BY <2>1, <2>2
<1>9. ASSUME NEW t \in Threads, TryEmplaceCas(t) PROVE IInv'
  <2>1. CASE head = ticket[t]
    <3>1. /\ head < MaxTickets /\ head' = head + 1 /\ sent' = Append(sent, val[t])
          /\ UNCHANGED <<tail, slotTurn, storage, ticket, val>>
          /\ pc[t] = "try_emplace_cas" /\ pc'[t] = "construct"
          /\ \A u \in Threads \ {t} : pc'[u] = pc[u]
      BY <1>0, <1>9, <2>1 DEF TryEmplaceCas, TypeOK
    <3>2. val[t] \in Values
      BY <1>0, <3>1 DEF TypeOK, Sending
    <3> QED
      BY <2>1, <3>1, <3>2, TakeProducerTicket
  <2>2. CASE head # ticket[t]
    BY <1>0, <1>9, <2>2, UnclaimedStep DEF TryEmplaceCas, TypeOK
  <2> QED
    BY <2>1, <2>2
<1>10. ASSUME NEW t \in Threads, TryEmplaceReload(t) PROVE IInv'
  BY <1>0, <1>10, UnclaimedStep DEF TryEmplaceReload, TypeOK
<1>11. ASSUME NEW t \in Threads, PopSpin(t) PROVE IInv'
  BY <1>0, <1>11, TurnSeen DEF PopSpin, TypeOK
<1>12. ASSUME NEW t \in Threads, Move(t) PROVE IInv'
  BY <1>12, MoveStep
<1>13. ASSUME NEW t \in Threads, Destroy(t) PROVE IInv'
  BY <1>13, DestroyStep
<1>14. ASSUME NEW t \in Threads, Release(t) PROVE IInv'
  BY <1>14, ReleaseStep
<1>15. ASSUME NEW t \in Threads, TryPopCheck(t) PROVE IInv'
  <2>1. CASE ConsumerTurn(t)
    BY <1>0, <1>15, <2>1, TurnSeen DEF TryPopCheck, TypeOK
  <2>2. CASE ~ConsumerTurn(t)
    BY <1>0, <1>15, <2>2, UnclaimedStep DEF TryPopCheck, TypeOK
  <2> QED
    BY <2>1, <2>2
<1>16. ASSUME NEW t \in Threads, TryPopCas(t) PROVE IInv'
  <2>1. CASE tail = ticket[t]
    BY <1>0, <1>16, <2>1, TakeConsumerTicket DEF TryPopCas, TypeOK
  <2>2. CASE tail # ticket[t]
    BY <1>0, <1>16, <2>2, UnclaimedStep DEF TryPopCas, TypeOK
  <2> QED
    BY <2>1, <2>2
<1>17. ASSUME NEW t \in Threads, TryPopReload(t) PROVE IInv'
  BY <1>0, <1>17, UnclaimedStep DEF TryPopReload, TypeOK
<1>18. ASSUME NEW t \in Threads, NEW h \in 0 .. head, EmptyLoadHead(t, h) PROVE IInv'
  BY <1>0, <1>18, UnclaimedStep DEF EmptyLoadHead, TypeOK
<1>19. ASSUME NEW t \in Threads, NEW l \in 0 .. tail, EmptyLoadTail(t, l) PROVE IInv'
  BY <1>0, <1>19, UnclaimedStep DEF EmptyLoadTail, TypeOK
<1>20. CASE UNCHANGED vars
  BY <1>20 DEF vars, IInv, TurnBehindCounters, ProducersInTurn, ConsumersInTurn,
     EmptySlotsRaw, FullSlotsHoldTheirValue, OwnSlot, Producing, Consuming, Slot
<1> QED
  BY <1>1, <1>2, <1>3, <1>4, <1>5, <1>6, <1>7, <1>8, <1>9, <1>10, <1>11, <1>12,
     <1>13, <1>14, <1>15, <1>16, <1>17, <1>18, <1>19, <1>20
  DEF Next, Begin, Continue, EmplaceStep, TryPopStep, Empty

LEMMA InitInvariant == Init => IInv
<1> SUFFICES ASSUME Init PROVE IInv
  OBVIOUS
<1>1. TypeOK
  BY CapacityAssumption DEF Init, TypeOK, Sending, PCs
<1>2. \A k \in Tickets : idx(k) \in Slots /\ turn(k) \in Nat
  BY SlotAndRound DEF Tickets
<1> QED
  BY <1>1, <1>2, MaxTicketsAssumption
  DEF Init, IInv, TurnBehindCounters, ProducersInTurn, ConsumersInTurn, EmptySlotsRaw,
      FullSlotsHoldTheirValue, OwnSlot, Producing, Consuming, WritePCs, ReadPCs, Tickets

\* The inductive invariant holds for every number of threads, every capacity
\* and every number of tickets.
THEOREM Invariant == Spec => []IInv
<1>1. Init => IInv
  BY InitInvariant
<1>2. IInv /\ TypeOK' /\ [Next]_vars => IInv'
  BY InvariantStep
<1> QED
  BY <1>1, <1>2, TypeCorrect, PTL DEF Spec

\* No two threads are inside one slot: the plain accesses to the storage
\* (construct, move and destroy) never race.
THEOREM NoSlotRace == Spec => []SlotExclusive
BY Invariant, Exclusive, PTL

\* Objects are constructed in raw storage only, and moved from and destroyed
\* only where one lives.
THEOREM StorageLifecycleHolds == Spec => []StorageLifecycle
<1>1. IInv => StorageLifecycle
  <2> SUFFICES ASSUME IInv, NEW t \in Threads
               PROVE  /\ pc[t] \in {"construct", "release"} => storage[Slot(t)] = Raw
                      /\ pc[t] \in {"move", "destroy"} => storage[Slot(t)] # Raw
    BY DEF StorageLifecycle
  <2> USE DEF WritePCs, ReadPCs
  <2>1. CASE pc[t] = "release"
    BY <2>1 DEF IInv, OwnSlot
  <2>2. CASE pc[t] = "construct"
    <3>1. \A u \in Threads : pc[u] = "publish" => ticket[u] # ticket[t]
      BY <2>2 DEF IInv, ProducersInTurn, Producing
    <3>2. ticket[t] \in Tickets /\ slotTurn[Slot(t)] = turn(ticket[t]) * 2
      BY <2>2, MaxTicketsAssumption
      DEF IInv, ProducersInTurn, Producing, TurnBehindCounters, Tickets, TypeOK
    <3> QED
      BY <2>2, <3>1, <3>2 DEF IInv, EmptySlotsRaw, Slot
  <2>3. CASE pc[t] \in {"move", "destroy"}
    <3>1. \A u \in Threads : pc[u] = "release" => ticket[u] # ticket[t]
      BY <2>3 DEF IInv, ConsumersInTurn, Consuming
    <3>2. ticket[t] \in Tickets /\ ticket[t] < head
      BY <2>3, MovedTicketSent
    <3>3. slotTurn[Slot(t)] = turn(ticket[t]) * 2 + 1
      BY <2>3 DEF IInv, ConsumersInTurn
    <3>4. storage[Slot(t)] = sent[ticket[t] + 1]
      BY <3>1, <3>2, <3>3 DEF IInv, FullSlotsHoldTheirValue, Slot
    <3>5. sent[ticket[t] + 1] \in Values
      BY <3>2 DEF IInv, TypeOK, Tickets
    <3> QED
      BY <2>3, <3>4, <3>5, RawAssumption
  <2> QED
    BY <2>1, <2>2, <2>3
<1> QED
  BY <1>1, Invariant, PTL

\* What the consumer of a ticket moves out is what the ticket's producer put
\* in: delivery once each and in ticket order.
THEOREM DeliveryInOrder == Spec => []DeliversOwnTicket
<1>1. IInv => DeliversOwnTicket
  BY MovedTicketSent DEF IInv, OwnSlot, DeliversOwnTicket, ReadPCs
<1> QED
  BY <1>1, Invariant, PTL

\* A try_pop or try_emplace that is refused found a slot that is not ready
\* for its ticket yet, never one that has moved on.
THEOREM RefusalsJustified == Spec => RefusedOnlyWhileNotReady
<1> DEFINE Justified(t) ==
      /\ pc[t] = "try_pop_check" /\ pc'[t] = "try_pop_reload" /\ ticket[t] = tail
           => slotTurn[Slot(t)] < turn(ticket[t]) * 2 + 1
      /\ pc[t] = "try_emplace_check" /\ pc'[t] = "try_emplace_reload" /\ ticket[t] = head
           => slotTurn[Slot(t)] < turn(ticket[t]) * 2
<1>1. IInv /\ [Next]_vars => \A t \in Threads : Justified(t)
  <2> SUFFICES ASSUME IInv, [Next]_vars, NEW t \in Threads PROVE Justified(t)
    OBVIOUS
  <2>1. pc \in [Threads -> PCs]
    BY DEF IInv, TypeOK
  <2>2. pc[t] = "try_pop_check" /\ pc'[t] = "try_pop_reload" => ~ConsumerTurn(t)
    BY <2>1
    DEF Next, vars, Begin, Continue, EmplaceStep, TryPopStep, Empty, Goto, Return,
        Emplace, EmplaceSpin, Construct, Publish,
        TryEmplace, TryEmplaceCheck, TryEmplaceCas, TryEmplaceReload,
        Pop, PopSpin, Move, Destroy, Release,
        TryPop, TryPopCheck, TryPopCas, TryPopReload, EmptyLoadHead, EmptyLoadTail
  <2>3. pc[t] = "try_emplace_check" /\ pc'[t] = "try_emplace_reload" => ~ProducerTurn(t)
    BY <2>1
    DEF Next, vars, Begin, Continue, EmplaceStep, TryPopStep, Empty, Goto, Return,
        Emplace, EmplaceSpin, Construct, Publish,
        TryEmplace, TryEmplaceCheck, TryEmplaceCas, TryEmplaceReload,
        Pop, PopSpin, Move, Destroy, Release,
        TryPop, TryPopCheck, TryPopCas, TryPopReload, EmptyLoadHead, EmptyLoadTail
  <2>4. /\ slotTurn[idx(head)] <= turn(head) * 2
        /\ slotTurn[idx(tail)] <= turn(tail) * 2 + 1
    BY MaxTicketsAssumption DEF IInv, TypeOK, TurnBehindCounters, Tickets
  <2>5. /\ turn(ticket[t]) \in Nat /\ slotTurn[Slot(t)] \in Nat
    BY OwnTicket DEF IInv, TypeOK
  <2> QED
    BY <2>2, <2>3, <2>4, <2>5 DEF ConsumerTurn, ProducerTurn, Slot
<1> QED
  BY <1>1, Invariant, PTL DEF Spec, RefusedOnlyWhileNotReady

-----------------------------------------------------------------------------
(* Who waits for whom.                                                     *)

\* A ticket that was handed out is still held, or its slot has got past it.
TicketsKept ==
  \A k \in Tickets :
    /\ k < head => \/ slotTurn[idx(k)] > turn(k) * 2
                   \/ \E t \in Threads : Producing(t) /\ ticket[t] = k
    /\ k < tail => \/ slotTurn[idx(k)] > turn(k) * 2 + 1
                   \/ \E t \in Threads : Consuming(t) /\ ticket[t] = k

\* A step keeps the tickets that were handed out, if no slot is turned back, the
\* threads that hold one hold it still or have got their slot past it, and a ticket
\* that is handed out is held.
LEMMA TicketsStayKept ==
  ASSUME TicketsKept, TypeOK, TypeOK',
         \A s \in Slots : slotTurn'[s] >= slotTurn[s],
         \A t \in Threads : Producing(t) =>
           \/ Producing(t)' /\ ticket'[t] = ticket[t]
           \/ slotTurn'[Slot(t)] > turn(ticket[t]) * 2,
         \A t \in Threads : Consuming(t) =>
           \/ Consuming(t)' /\ ticket'[t] = ticket[t]
           \/ slotTurn'[Slot(t)] > turn(ticket[t]) * 2 + 1,
         head' = head \/ (head' = head + 1 /\ \E t \in Threads : Producing(t)' /\ ticket'[t] = head),
         tail' = tail \/ (tail' = tail + 1 /\ \E t \in Threads : Consuming(t)' /\ ticket'[t] = tail)
  PROVE  TicketsKept'
<1> SUFFICES ASSUME NEW k \in Tickets
             PROVE  /\ k < head' => \/ slotTurn'[idx(k)] > turn(k) * 2
                                    \/ \E t \in Threads : Producing(t)' /\ ticket'[t] = k
                    /\ k < tail' => \/ slotTurn'[idx(k)] > turn(k) * 2 + 1
                                    \/ \E t \in Threads : Consuming(t)' /\ ticket'[t] = k
  BY DEF TicketsKept
<1>1. /\ k \in Nat /\ idx(k) \in Slots /\ turn(k) \in Nat
      /\ slotTurn[idx(k)] \in Nat /\ slotTurn'[idx(k)] \in Nat
      /\ slotTurn'[idx(k)] >= slotTurn[idx(k)]
      /\ head \in Nat /\ tail \in Nat
  BY SlotAndRound DEF Tickets, TypeOK
<1>2. ASSUME k < head
      PROVE  \/ slotTurn'[idx(k)] > turn(k) * 2
             \/ \E t \in Threads : Producing(t)' /\ ticket'[t] = k
  <2>1. CASE slotTurn[idx(k)] > turn(k) * 2
    BY <1>1, <2>1
  <2>2. CASE \E t \in Threads : Producing(t) /\ ticket[t] = k
    BY <2>2 DEF Slot
  <2> QED
    BY <1>2, <2>1, <2>2 DEF TicketsKept
<1>3. ASSUME k < tail
      PROVE  \/ slotTurn'[idx(k)] > turn(k) * 2 + 1
             \/ \E t \in Threads : Consuming(t)' /\ ticket'[t] = k
  <2>1. CASE slotTurn[idx(k)] > turn(k) * 2 + 1
    BY <1>1, <2>1
  <2>2. CASE \E t \in Threads : Consuming(t) /\ ticket[t] = k
    BY <2>2 DEF Slot
  <2> QED
    BY <1>3, <2>1, <2>2 DEF TicketsKept
<1>4. k < head' => k < head \/ \E t \in Threads : Producing(t)' /\ ticket'[t] = k
  BY <1>1
<1>5. k < tail' => k < tail \/ \E t \in Threads : Consuming(t)' /\ ticket'[t] = k
  BY <1>1
<1> QED
  BY <1>2, <1>3, <1>4, <1>5

\* Every step keeps the tickets: a thread gives its own back only by storing the turn of
\* its slot, and until then nobody else turns it.
LEMMA TicketsKeptStep == IInv /\ TypeOK' /\ TicketsKept /\ [Next]_vars => TicketsKept'
<1> SUFFICES ASSUME IInv, TypeOK', TicketsKept, [Next]_vars PROVE TicketsKept'
  OBVIOUS
<1> USE DEF Goto, Return, Producing, Consuming, WritePCs, ReadPCs
<1>0. TypeOK /\ \A s \in Slots : slotTurn[s] \in Nat
  BY DEF IInv, TypeOK
<1>1. ASSUME NEW t \in Threads, UNCHANGED <<head, tail, slotTurn>>,
             \A u \in Threads \ {t} : pc'[u] = pc[u] /\ ticket'[u] = ticket[u],
             Producing(t) => Producing(t)' /\ ticket'[t] = ticket[t],
             Consuming(t) => Consuming(t)' /\ ticket'[t] = ticket[t]
      PROVE  TicketsKept'
  <2>1. \A s \in Slots : slotTurn'[s] >= slotTurn[s]
    BY <1>0, <1>1
  <2>2. \A u \in Threads : Producing(u) => Producing(u)' /\ ticket'[u] = ticket[u]
    BY <1>1
  <2>3. \A u \in Threads : Consuming(u) => Consuming(u)' /\ ticket'[u] = ticket[u]
    BY <1>1
  <2> QED
    BY <1>0, <1>1, <2>1, <2>2, <2>3, TicketsStayKept
<1>2. ASSUME NEW t \in Threads, head' = head + 1, UNCHANGED <<tail, slotTurn>>,
             \A u \in Threads \ {t} : pc'[u] = pc[u] /\ ticket'[u] = ticket[u],
             ~Producing(t), ~Consuming(t), Producing(t)', ticket'[t] = head
      PROVE  TicketsKept'
  <2>1. \A s \in Slots : slotTurn'[s] >= slotTurn[s]
    BY <1>0, <1>2
  <2>2. \A u \in Threads : Producing(u) => Producing(u)' /\ ticket'[u] = ticket[u]
    BY <1>2
  <2>3. \A u \in Threads : Consuming(u) => Consuming(u)' /\ ticket'[u] = ticket[u]
    BY <1>2
  <2> QED
    BY <1>0, <1>2, <2>1, <2>2, <2>3, TicketsStayKept
<1>3. ASSUME NEW t \in Threads, tail' = tail + 1, UNCHANGED <<head, slotTurn>>,
             \A u \in Threads \ {t} : pc'[u] = pc[u] /\ ticket'[u] = ticket[u],
             ~Producing(t), ~Consuming(t), Consuming(t)', ticket'[t] = tail
      PROVE  TicketsKept'
  <2>1. \A s \in Slots : slotTurn'[s] >= slotTurn[s]
    BY <1>0, <1>3
  <2>2. \A u \in Threads : Producing(u) => Producing(u)' /\ ticket'[u] = ticket[u]
    BY <1>3
  <2>3. \A u \in Threads : Consuming(u) => Consuming(u)' /\ ticket'[u] = ticket[u]
    BY <1>3
  <2> QED
    BY <1>0, <1>3, <2>1, <2>2, <2>3, TicketsStayKept
<1>4. ASSUME NEW t \in Threads, NEW n \in Nat, UNCHANGED <<head, tail>>, slotTurn[Slot(t)] <= n,
             slotTurn' = [slotTurn EXCEPT ![Slot(t)] = n],
             \A u \in Threads \ {t} : pc'[u] = pc[u] /\ ticket'[u] = ticket[u],
             Producing(t) => n > turn(ticket[t]) * 2,
             Consuming(t) => n > turn(ticket[t]) * 2 + 1
      PROVE  TicketsKept'
  <2>1. /\ \A s \in Slots : slotTurn'[s] >= slotTurn[s]
        /\ slotTurn'[Slot(t)] = n
    BY <1>0, <1>4, OwnTicket DEF TypeOK
  <2>2. \A u \in Threads : Producing(u) =>
          \/ Producing(u)' /\ ticket'[u] = ticket[u]
          \/ slotTurn'[Slot(u)] > turn(ticket[u]) * 2
    BY <1>4, <2>1
  <2>3. \A u \in Threads : Consuming(u) =>
          \/ Consuming(u)' /\ ticket'[u] = ticket[u]
          \/ slotTurn'[Slot(u)] > turn(ticket[u]) * 2 + 1
    BY <1>4, <2>1
  <2> QED
    BY <1>0, <1>4, <2>1, <2>2, <2>3, TicketsStayKept
<1>5. ASSUME NEW t \in Threads, NEW v \in Values, Emplace(t, v) PROVE TicketsKept'
  BY <1>0, <1>2, <1>5 DEF Emplace, TypeOK
<1>6. ASSUME NEW t \in Threads, Pop(t) PROVE TicketsKept'
  BY <1>0, <1>3, <1>6 DEF Pop, TypeOK
<1>7. ASSUME NEW t \in Threads,
             \/ \E v \in Values : TryEmplace(t, v)
             \/ EmplaceSpin(t) \/ Construct(t) \/ TryEmplaceCheck(t) \/ TryEmplaceReload(t)
      PROVE  TicketsKept'
  BY <1>0, <1>1, <1>7 DEF TryEmplace, EmplaceSpin, Construct, TryEmplaceCheck,
                          TryEmplaceReload, TypeOK
<1>8. ASSUME NEW t \in Threads,
             \/ TryPop(t) \/ PopSpin(t) \/ Move(t) \/ Destroy(t) \/ TryPopCheck(t)
             \/ TryPopReload(t)
      PROVE  TicketsKept'
  BY <1>0, <1>1, <1>8 DEF TryPop, PopSpin, Move, Destroy, TryPopCheck, TryPopReload, TypeOK
<1>9. ASSUME NEW t \in Threads, Empty(t) PROVE TicketsKept'
  BY <1>0, <1>1, <1>9 DEF Empty, EmptyLoadHead, EmptyLoadTail, TypeOK
<1>10. ASSUME NEW t \in Threads, TryEmplaceCas(t) PROVE TicketsKept'
  <2>1. CASE head = ticket[t]
    BY <1>0, <1>2, <1>10, <2>1 DEF TryEmplaceCas, TypeOK
  <2>2. CASE head # ticket[t]
    BY <1>0, <1>1, <1>10, <2>2 DEF TryEmplaceCas, TypeOK
  <2> QED
    BY <2>1, <2>2
<1>11. ASSUME NEW t \in Threads, TryPopCas(t) PROVE TicketsKept'
  <2>1. CASE tail = ticket[t]
    BY <1>0, <1>3, <1>11, <2>1 DEF TryPopCas, TypeOK
  <2>2. CASE tail # ticket[t]
    BY <1>0, <1>1, <1>11, <2>2 DEF TryPopCas, TypeOK
  <2> QED
    BY <2>1, <2>2
<1>12. ASSUME NEW t \in Threads, Publish(t) PROVE TicketsKept'
  <2>1. slotTurn[Slot(t)] = turn(ticket[t]) * 2 /\ pc[t] = "publish"
    BY <1>12 DEF Publish, IInv, ProducersInTurn
  <2>2. turn(ticket[t]) * 2 + 1 \in Nat /\ turn(ticket[t]) * 2 <= turn(ticket[t]) * 2 + 1
        /\ turn(ticket[t]) * 2 + 1 > turn(ticket[t]) * 2
    BY <1>0, OwnTicket
  <2>3. /\ UNCHANGED <<head, tail>>
        /\ slotTurn' = [slotTurn EXCEPT ![Slot(t)] = turn(ticket[t]) * 2 + 1]
        /\ \A u \in Threads \ {t} : pc'[u] = pc[u] /\ ticket'[u] = ticket[u]
    BY <1>0, <1>12 DEF Publish, TypeOK
  <2> QED
    BY <1>4, <2>1, <2>2, <2>3
<1>13. ASSUME NEW t \in Threads, Release(t) PROVE TicketsKept'
  <2>1. slotTurn[Slot(t)] = turn(ticket[t]) * 2 + 1 /\ pc[t] = "release"
    BY <1>13 DEF Release, IInv, ConsumersInTurn
  <2>2. turn(ticket[t]) * 2 + 2 \in Nat /\ turn(ticket[t]) * 2 + 1 <= turn(ticket[t]) * 2 + 2
        /\ turn(ticket[t]) * 2 + 2 > turn(ticket[t]) * 2 + 1
    BY <1>0, OwnTicket
  <2>3. /\ UNCHANGED <<head, tail>>
        /\ slotTurn' = [slotTurn EXCEPT ![Slot(t)] = turn(ticket[t]) * 2 + 2]
        /\ \A u \in Threads \ {t} : pc'[u] = pc[u] /\ ticket'[u] = ticket[u]
    BY <1>0, <1>13 DEF Release, TypeOK
  <2> QED
    BY <1>4, <2>1, <2>2, <2>3
<1>14. CASE UNCHANGED vars
  BY <1>14 DEF vars, TicketsKept
<1> QED
  BY <1>5, <1>6, <1>7, <1>8, <1>9, <1>10, <1>11, <1>12, <1>13, <1>14
  DEF Next, Begin, Continue, EmplaceStep, TryPopStep

\* In every reachable state, with the inductive invariant.
LEMMA TicketsAlwaysKept == Spec => [](IInv /\ TicketsKept)
<1>1. Init => TicketsKept
  BY DEF Init, TicketsKept, Tickets
<1>2. IInv /\ TypeOK' /\ TicketsKept /\ [Next]_vars => TicketsKept'
  BY TicketsKeptStep
<1> QED
  BY <1>1, <1>2, Invariant, TypeCorrect, PTL DEF Spec

\* A producer that does not find its turn has one in the round before, whose consumer has
\* not come or not gone.
LEMMA ProducerWaits ==
  ASSUME IInv, TicketsKept, NEW t \in Threads, pc[t] = "emplace_spin", ~ProducerTurn(t)
  PROVE  /\ ticket[t] >= Capacity
         /\ \/ ticket[t] - Capacity >= tail
            \/ \E u \in Threads : Consuming(u) /\ ticket[u] = ticket[t] - Capacity
<1> DEFINE k == ticket[t]
<1>1. /\ k \in Nat /\ k < head /\ head \in Tickets /\ tail \in Nat /\ MaxTickets \in Nat
      /\ Slot(t) = idx(k) /\ Slot(t) \in Slots /\ slotTurn[Slot(t)] \in Nat
      /\ turn(k) \in Nat /\ k = Capacity * turn(k) + idx(k)
      /\ Capacity \in Nat \ {0}
  BY OwnTicket, SlotAndRound, MaxTicketsAssumption, CapacityAssumption
  DEF IInv, TypeOK, ProducersInTurn, Producing, TurnBehindCounters, Slot
<1>2. slotTurn[idx(k)] < turn(k) * 2
  <2>1. slotTurn[Slot(t)] <= turn(k) * 2 /\ slotTurn[Slot(t)] # turn(k) * 2
    BY DEF IInv, ProducersInTurn, Producing, ProducerTurn
  <2> QED
    BY <1>1, <2>1
<1>3. turn(k) >= 1
  BY <1>1, <1>2
<1> HIDE DEF k
<1>4. k >= Capacity
  <2> DEFINE c == Capacity
             q == turn(k)
  <2>1. c \in Nat \ {0} /\ q \in Nat /\ q >= 1
    BY <1>1, <1>3
  <2>2. k = c * q + idx(k) /\ idx(k) \in Nat
    BY <1>1, SlotAndRound DEF Slots
  <2> HIDE DEF c, q
  <2>3. c * q >= c
    BY <2>1
  <2>4. c * q \in Nat
    BY <2>1
  <2>5. k >= c
    BY <1>1, <2>1, <2>2, <2>3, <2>4
  <2> QED
    BY <2>5 DEF c
<1>5. /\ k - Capacity \in Tickets /\ k - Capacity \in Nat
      /\ idx(k - Capacity) = idx(k) /\ turn(k - Capacity) = turn(k) - 1
  <2>1. k - Capacity \in Tickets
    BY <1>1, <1>4 DEF Tickets
  <2> QED
    BY <1>1, <1>4, <2>1, LapBack
<1>6. k - Capacity < tail => \E u \in Threads : Consuming(u) /\ ticket[u] = k - Capacity
  BY <1>1, <1>2, <1>5 DEF TicketsKept
<1> QED
  BY <1>1, <1>4, <1>5, <1>6 DEF k

\* Nobody waits for a ticket that is lost, for every number of threads and every capacity.
THEOREM NobodyWaitsForNothing == Spec => []WaitsForAnother
<1>1. IInv /\ TicketsKept => WaitsForAnother
  <2> SUFFICES ASSUME IInv, TicketsKept, NEW t \in Threads
               PROVE  /\ pc[t] = "emplace_spin" /\ ~ProducerTurn(t) =>
                           /\ ticket[t] >= Capacity
                           /\ \/ ticket[t] - Capacity >= tail
                              \/ \E u \in Threads :
                                   Consuming(u) /\ ticket[u] = ticket[t] - Capacity
                      /\ pc[t] = "pop_spin" /\ ~ConsumerTurn(t) =>
                           \/ ticket[t] >= head
                           \/ \E u \in Threads : Producing(u) /\ ticket[u] = ticket[t]
    BY DEF WaitsForAnother
  <2>1. ASSUME pc[t] = "pop_spin", ~ConsumerTurn(t), ticket[t] < head
        PROVE  \E u \in Threads : Producing(u) /\ ticket[u] = ticket[t]
    <3>1. /\ ticket[t] \in Tickets /\ slotTurn[Slot(t)] \in Nat /\ turn(ticket[t]) \in Nat
      BY <2>1, OwnTicket, MaxTicketsAssumption
      DEF IInv, TypeOK, TurnBehindCounters, Tickets
    <3>2. slotTurn[idx(ticket[t])] < turn(ticket[t]) * 2 + 1
      <4>1. slotTurn[Slot(t)] <= turn(ticket[t]) * 2 + 1
            /\ slotTurn[Slot(t)] # turn(ticket[t]) * 2 + 1
        BY <2>1 DEF IInv, ConsumersInTurn, Consuming, ConsumerTurn
      <4> QED
        BY <3>1, <4>1 DEF Slot
    <3>3. ~(slotTurn[idx(ticket[t])] > turn(ticket[t]) * 2)
      BY <3>1, <3>2 DEF Slot
    <3> QED
      BY <2>1, <3>1, <3>3 DEF TicketsKept
  <2>2. ticket[t] \in Nat /\ head \in Nat
    BY DEF IInv, TypeOK
  <2> QED
    BY <2>1, <2>2, ProducerWaits
<1> QED
  BY <1>1, TicketsAlwaysKept, PTL

-----------------------------------------------------------------------------
(* The ring of slots implements the log of FifoChannel.                    *)

\* The positions waited for, as Channel's instance has them.
claims == [t \in Threads |->
             IF pc[t] \in {"pop_spin", "move"} THEN ticket[t] + 1 ELSE 0]

-----------------------------------------------------------------------------
(* What a step leaves alone.                                               *)

\* A step that moves no slot and no counter publishes nothing, and takes
\* nothing if the threads behind their move stay the same.
LEMMA SlotsKept ==
  ASSUME UNCHANGED <<head, tail, slotTurn>>,
         \A t \in Threads :
           /\ pc'[t] \in {"destroy", "release"} <=> pc[t] \in {"destroy", "release"}
           /\ pc[t] \in {"destroy", "release"} => ticket'[t] = ticket[t]
  PROVE  UNCHANGED <<published, delivered>>
BY DEF published, delivered

\* One thread enters or leaves its wait for a position; the others stay.
LEMMA ClaimsMoved ==
  ASSUME NEW t \in Threads,
         \A u \in Threads \ {t} : pc'[u] = pc[u] /\ ticket'[u] = ticket[u]
  PROVE  claims' = [claims EXCEPT ![t] =
           IF pc'[t] \in {"pop_spin", "move"} THEN ticket'[t] + 1 ELSE 0]
BY DEF claims

\* A step that moves no slot, no counter and no value, and has no thread
\* begin or end a wait, is a step of its own of the ring only.
LEMMA Stutters ==
  ASSUME TypeOK, NEW t \in Threads,
         UNCHANGED <<head, tail, slotTurn, sent, val>>,
         \A u \in Threads \ {t} : pc'[u] = pc[u] /\ ticket'[u] = ticket[u],
         \/ /\ pc[t] \notin {"pop_spin", "move", "destroy", "release"}
            /\ pc'[t] \notin {"pop_spin", "move", "destroy", "release"}
         \/ /\ pc[t] = "pop_spin" /\ pc'[t] = "move"
            /\ ticket'[t] = ticket[t]
         \/ /\ pc[t] = "destroy" /\ pc'[t] = "release"
            /\ ticket'[t] = ticket[t]
  PROVE  UNCHANGED Channel!chanVars
<1>1. UNCHANGED <<published, delivered>>
  BY SlotsKept
<1>2. claims' = claims
  BY ClaimsMoved DEF claims
<1> QED
  BY <1>1, <1>2 DEF Channel!chanVars, claims

-----------------------------------------------------------------------------
(* The steps that hand out a ticket.                                       *)

\* A new producer ticket is a new position of the log, not yet published.
LEMMA ReservesPosition ==
  ASSUME IInv, NEW t \in Threads, NEW v \in Values, head < MaxTickets,
         head' = head + 1, sent' = Append(sent, v), val' = [val EXCEPT ![t] = v],
         UNCHANGED <<tail, slotTurn>>,
         \A u \in Threads \ {t} : pc'[u] = pc[u] /\ ticket'[u] = ticket[u],
         pc[t] \notin {"pop_spin", "move", "destroy", "release"},
         pc'[t] \notin {"pop_spin", "move", "destroy", "release"}
  PROVE  Channel!Reserve(t, v)
<1>1. /\ head \in Nat /\ MaxTickets \in Nat /\ head \in Tickets
      /\ slotTurn[idx(head)] <= turn(head) * 2
      /\ slotTurn[idx(head)] \in Nat /\ turn(head) \in Nat
  <2>1. head \in Nat /\ MaxTickets \in Nat /\ head \in Tickets /\ slotTurn \in [Slots -> Nat]
    BY MaxTicketsAssumption DEF IInv, TypeOK, TurnBehindCounters
  <2>2. idx(head) \in Slots /\ turn(head) \in Nat
    BY <2>1, SlotAndRound
  <2> QED
    BY <2>1, <2>2 DEF IInv, TurnBehindCounters
<1>2. published' = published
  <2>1. ASSUME NEW k \in 1 .. head'
        PROVE  k \in published' <=> k \in published
    <3>1. CASE k = head + 1
      BY <1>1, <3>1 DEF published
    <3>2. CASE k # head + 1
      BY <1>1, <3>2 DEF published
    <3> QED
      BY <3>1, <3>2
  <2> QED
    BY <1>1, <2>1 DEF published
<1>3. delivered' = delivered
  BY DEF delivered
<1>4. claims' = claims /\ claims[t] = 0
  BY ClaimsMoved DEF claims
<1> QED
  BY <1>2, <1>3, <1>4 DEF Channel!Reserve, claims

\* A new consumer ticket is a position nobody has claimed or taken.
LEMMA ClaimsPosition ==
  ASSUME IInv, NEW t \in Threads, tail < MaxTickets,
         tail' = tail + 1, ticket'[t] = tail,
         UNCHANGED <<head, slotTurn, sent, val>>,
         \A u \in Threads \ {t} : pc'[u] = pc[u] /\ ticket'[u] = ticket[u],
         pc[t] \notin {"pop_spin", "move", "destroy", "release"},
         pc'[t] \in {"pop_spin", "move"}
  PROVE  Channel!Claim(t)
<1>1. /\ tail \in Nat /\ MaxTickets \in Nat /\ tail \in Tickets
      /\ slotTurn[idx(tail)] <= turn(tail) * 2 + 1
      /\ slotTurn[idx(tail)] \in Nat /\ turn(tail) \in Nat
  <2>1. tail \in Nat /\ MaxTickets \in Nat /\ tail \in Tickets /\ slotTurn \in [Slots -> Nat]
    BY MaxTicketsAssumption DEF IInv, TypeOK, TurnBehindCounters
  <2>2. idx(tail) \in Slots /\ turn(tail) \in Nat
    BY <2>1, SlotAndRound
  <2> QED
    BY <2>1, <2>2 DEF IInv, TurnBehindCounters
<1>2. published' = published
  BY DEF published
<1>3. delivered' = delivered
  <2>1. \A u \in Threads : pc[u] \in {"destroy", "release"} => ticket[u] \in Nat /\ ticket[u] < tail
    BY DEF IInv, TypeOK, ConsumersInTurn, Consuming, ReadPCs
  <2>2. \A u \in Threads : /\ pc'[u] \in {"destroy", "release"} <=> pc[u] \in {"destroy", "release"}
                           /\ pc[u] \in {"destroy", "release"} => ticket'[u] = ticket[u]
    OBVIOUS
  <2>3. ASSUME NEW k \in 1 .. tail'
        PROVE  k \in delivered' <=> k \in delivered
    <3>1. CASE k = tail + 1
      BY <1>1, <2>1, <2>2, <3>1 DEF delivered
    <3>2. CASE k # tail + 1
      BY <1>1, <2>2, <3>2 DEF delivered
    <3> QED
      BY <3>1, <3>2
  <2> QED
    BY <1>1, <2>3 DEF delivered
<1>4. claims[t] = 0 /\ claims' = [claims EXCEPT ![t] = tail + 1]
  BY ClaimsMoved DEF claims
<1> QED
  BY <1>2, <1>3, <1>4 DEF Channel!Claim, claims

-----------------------------------------------------------------------------
(* The steps that turn a slot over.                                        *)

\* Two tickets of one slot are of different rounds.
LEMMA OtherTicket ==
  ASSUME NEW i \in Nat, NEW j \in Nat
  PROVE  /\ idx(j) \in Slots
         /\ turn(j) \in Nat
         /\ idx(j) = idx(i) /\ turn(j) = turn(i) => j = i
BY SlotAndRound, TicketUnique

\* The producer of ticket k publishes position k + 1: the slot was free
\* because the position one lap before it had been taken.
LEMMA PublishesPosition ==
  ASSUME IInv, NEW t \in Threads, Publish(t)
  PROVE  \E k \in 1 .. Len(sent) : Channel!Publish(k)
<1> DEFINE k == ticket[t] + 1
<1>1. /\ pc[t] = "publish" /\ pc'[t] = "idle"
      /\ \A u \in Threads \ {t} : pc'[u] = pc[u] /\ ticket'[u] = ticket[u]
      /\ UNCHANGED <<head, tail, sent, val>>
      /\ slotTurn' = [slotTurn EXCEPT ![Slot(t)] = turn(ticket[t]) * 2 + 1]
  BY DEF IInv, TypeOK, Publish, Return, Goto
<1>2. /\ ticket[t] \in Nat /\ head \in Nat /\ tail \in Nat /\ Len(sent) = head
      /\ ticket[t] < head /\ head \in Tickets /\ MaxTickets \in Nat
      /\ slotTurn \in [Slots -> Nat]
      /\ Slot(t) \in Slots /\ turn(ticket[t]) \in Nat
      /\ slotTurn[Slot(t)] = turn(ticket[t]) * 2
  BY <1>1, OwnTicket, MaxTicketsAssumption
  DEF IInv, TypeOK, ProducersInTurn, Producing, WritePCs, TurnBehindCounters
<1>3. ASSUME NEW j \in Nat
      PROVE  /\ turn(j) \in Nat /\ slotTurn[idx(j)] \in Nat /\ slotTurn'[idx(j)] \in Nat
             /\ idx(j) = Slot(t) =>
                  /\ slotTurn[idx(j)] = turn(ticket[t]) * 2
                  /\ slotTurn'[idx(j)] = turn(ticket[t]) * 2 + 1
                  /\ turn(j) = turn(ticket[t]) => j = ticket[t]
             /\ idx(j) # Slot(t) => slotTurn'[idx(j)] = slotTurn[idx(j)]
  <2>1. /\ idx(j) \in Slots /\ turn(j) \in Nat
        /\ idx(j) = Slot(t) /\ turn(j) = turn(ticket[t]) => j = ticket[t]
    BY <1>2, OtherTicket DEF Slot
  <2> QED
    BY <1>1, <1>2, <2>1
<1>4. published' = published \union {k} /\ k \notin published
  <2>1. ASSUME NEW j \in 1 .. head
        PROVE  j \in published' <=> j \in published \union {k}
    <3>1. j - 1 \in Nat
      OBVIOUS
    <3>2. /\ turn(j - 1) \in Nat /\ slotTurn[idx(j - 1)] \in Nat /\ slotTurn'[idx(j - 1)] \in Nat
          /\ \/ /\ slotTurn[idx(j - 1)] = turn(ticket[t]) * 2
                /\ slotTurn'[idx(j - 1)] = turn(ticket[t]) * 2 + 1
                /\ turn(j - 1) = turn(ticket[t]) => j - 1 = ticket[t]
             \/ slotTurn'[idx(j - 1)] = slotTurn[idx(j - 1)] /\ j - 1 # ticket[t]
      BY <1>3, <3>1 DEF Slot
    <3>3. slotTurn'[idx(j - 1)] > turn(j - 1) * 2 <=>
            slotTurn[idx(j - 1)] > turn(j - 1) * 2 \/ j - 1 = ticket[t]
      BY <1>2, <3>1, <3>2 DEF Slot
    <3>4. j - 1 = ticket[t] <=> j = k
      BY <1>2
    <3> QED
      BY <1>1, <3>3, <3>4 DEF published
  <2>2. k \in 1 .. head
    BY <1>2
  <2>3. k \notin published
    <3>1. k - 1 = ticket[t] /\ idx(k - 1) = Slot(t)
      BY <1>2 DEF Slot
    <3> QED
      BY <1>2, <3>1 DEF published
  <2> QED
    BY <1>1, <2>1, <2>2, <2>3 DEF published
<1>5. delivered' = delivered
  <2>1. ASSUME NEW j \in 1 .. tail
        PROVE  j \in delivered' <=> j \in delivered
    <3>1. j - 1 \in Nat
      BY <1>2
    <3>2. /\ turn(j - 1) \in Nat /\ slotTurn[idx(j - 1)] \in Nat /\ slotTurn'[idx(j - 1)] \in Nat
          /\ \/ /\ slotTurn[idx(j - 1)] = turn(ticket[t]) * 2
                /\ slotTurn'[idx(j - 1)] = turn(ticket[t]) * 2 + 1
             \/ slotTurn'[idx(j - 1)] = slotTurn[idx(j - 1)]
      BY <1>3, <3>1
    <3>3. slotTurn'[idx(j - 1)] > turn(j - 1) * 2 + 1 <=> slotTurn[idx(j - 1)] > turn(j - 1) * 2 + 1
      BY <1>2, <3>2
    <3> QED
      BY <1>1, <3>3 DEF delivered
  <2> QED
    BY <1>1, <2>1 DEF delivered
<1>6. ASSUME k > Capacity
      PROVE  k - Capacity \in delivered
  <2> DEFINE j == ticket[t] - Capacity
  <2>1. /\ j \in Nat /\ idx(j) = idx(ticket[t]) /\ turn(j) = turn(ticket[t]) - 1
    <3>1. ticket[t] >= Capacity
      BY <1>2, <1>6, CapacityAssumption
    <3> QED
      BY <1>2, <3>1, LapBack
  <2>2. slotTurn[idx(j)] > turn(j) * 2 + 1
    BY <1>2, <1>3, <2>1 DEF Slot
  <2>3. j < tail
    <3>1. j \in Tickets
      BY <1>2, <2>1, CapacityAssumption DEF Tickets
    <3> QED
      <4>1. /\ turn(j) \in Nat /\ slotTurn[idx(j)] \in Nat
            /\ j >= tail => slotTurn[idx(j)] <= turn(j) * 2 + 1
        BY <1>3, <2>1, <3>1 DEF IInv, TurnBehindCounters
      <4> HIDE DEF j
      <4> QED
        BY <1>2, <2>1, <2>2, <4>1
  <2>4. k - Capacity = j + 1 /\ (k - Capacity) - 1 = j /\ k - Capacity \in 1 .. tail
    BY <1>2, <2>1, <2>3, CapacityAssumption
  <2> QED
    BY <2>2, <2>4 DEF delivered
<1>7. claims' = claims
  BY <1>1, ClaimsMoved DEF claims
<1>8. Channel!Publish(k)
  BY <1>1, <1>2, <1>4, <1>5, <1>6, <1>7 DEF Channel!Publish, claims
<1> QED
  BY <1>2, <1>8

\* The consumer that moves the value out receives the position it claimed.
LEMMA ReceivesPosition ==
  ASSUME IInv, NEW t \in Threads, Move(t)
  PROVE  Channel!Receive(t)
<1> DEFINE k == ticket[t] + 1
<1>1. /\ pc[t] = "move" /\ pc'[t] = "destroy"
      /\ \A u \in Threads \ {t} : pc'[u] = pc[u]
      /\ UNCHANGED <<head, tail, slotTurn, storage, sent, ticket>>
      /\ val' = [val EXCEPT ![t] = storage[Slot(t)]]
  BY DEF IInv, TypeOK, Move, Goto
<1>2. /\ ticket[t] \in Tickets /\ ticket[t] \in Nat /\ ticket[t] < head /\ ticket[t] < tail
      /\ head \in Nat /\ tail \in Nat /\ turn(ticket[t]) \in Nat
      /\ slotTurn[Slot(t)] = turn(ticket[t]) * 2 + 1
      /\ \A u \in Threads \ {t} :
           pc[u] \in {"destroy", "release"} => ticket[u] # ticket[t] /\ ticket[u] \in Nat
  BY <1>1, OwnTicket, MovedTicketSent
  DEF IInv, TypeOK, ConsumersInTurn, Consuming, ReadPCs
<1>3. k \in published /\ k \notin delivered
  BY <1>1, <1>2 DEF published, delivered, Slot
<1>4. storage[Slot(t)] = sent[k]
  BY <1>1, <1>2 DEF IInv, FullSlotsHoldTheirValue, Slot
<1>5. published' = published
  BY <1>1 DEF published
<1>6. delivered' = delivered \union {k}
  <2>1. ASSUME NEW j \in 1 .. tail
        PROVE  j \in delivered' <=> j \in delivered \union {k}
    <3>1. (\E u \in Threads : pc'[u] \in {"destroy", "release"} /\ ticket'[u] = j - 1)
            <=> \/ \E u \in Threads : pc[u] \in {"destroy", "release"} /\ ticket[u] = j - 1
                \/ ticket[t] = j - 1
      BY <1>1
    <3>2. ticket[t] = j - 1 <=> j = k
      BY <1>2
    <3> QED
      BY <1>1, <3>1, <3>2 DEF delivered
  <2>2. k \in 1 .. tail
    BY <1>2
  <2> QED
    BY <1>1, <2>1, <2>2 DEF delivered
<1>7. claims[t] = k /\ claims' = [claims EXCEPT ![t] = 0]
  BY <1>1, ClaimsMoved DEF claims
<1> QED
  BY <1>1, <1>3, <1>4, <1>5, <1>6, <1>7 DEF Channel!Receive, claims

\* The consumer that hands the slot on has taken its position before.
LEMMA ReleaseStutters ==
  ASSUME IInv, NEW t \in Threads, Release(t)
  PROVE  UNCHANGED Channel!chanVars
<1>1. /\ pc[t] = "release" /\ pc'[t] = "idle"
      /\ \A u \in Threads \ {t} : pc'[u] = pc[u] /\ ticket'[u] = ticket[u]
      /\ UNCHANGED <<head, tail, sent, val>>
      /\ slotTurn' = [slotTurn EXCEPT ![Slot(t)] = turn(ticket[t]) * 2 + 2]
  BY DEF IInv, TypeOK, Release, Return, Goto
<1>2. /\ ticket[t] \in Nat /\ head \in Nat /\ tail \in Nat
      /\ slotTurn \in [Slots -> Nat]
      /\ Slot(t) \in Slots /\ turn(ticket[t]) \in Nat
      /\ slotTurn[Slot(t)] = turn(ticket[t]) * 2 + 1
  BY <1>1, OwnTicket DEF IInv, TypeOK, ConsumersInTurn, ReadPCs
<1>3. ASSUME NEW j \in Nat
      PROVE  /\ turn(j) \in Nat /\ slotTurn[idx(j)] \in Nat /\ slotTurn'[idx(j)] \in Nat
             /\ idx(j) = Slot(t) =>
                  /\ slotTurn[idx(j)] = turn(ticket[t]) * 2 + 1
                  /\ slotTurn'[idx(j)] = turn(ticket[t]) * 2 + 2
                  /\ turn(j) = turn(ticket[t]) => j = ticket[t]
             /\ idx(j) # Slot(t) => slotTurn'[idx(j)] = slotTurn[idx(j)]
  <2>1. /\ idx(j) \in Slots /\ turn(j) \in Nat
        /\ idx(j) = Slot(t) /\ turn(j) = turn(ticket[t]) => j = ticket[t]
    BY <1>2, OtherTicket DEF Slot
  <2> QED
    BY <1>1, <1>2, <2>1
<1>4. published' = published
  <2>1. ASSUME NEW j \in 1 .. head
        PROVE  slotTurn'[idx(j - 1)] > turn(j - 1) * 2 <=> slotTurn[idx(j - 1)] > turn(j - 1) * 2
    <3>1. j - 1 \in Nat
      OBVIOUS
    <3> QED
      BY <1>2, <1>3, <3>1
  <2> QED
    BY <1>1, <2>1 DEF published
<1>5. delivered' = delivered
  <2>1. ASSUME NEW j \in 1 .. tail
        PROVE  j \in delivered' <=> j \in delivered
    <3>1. j - 1 \in Nat
      OBVIOUS
    <3>2. CASE j - 1 = ticket[t]
      BY <1>1, <1>2, <1>3, <3>1, <3>2 DEF delivered, Slot
    <3>3. CASE j - 1 # ticket[t]
      <4>1. slotTurn'[idx(j - 1)] > turn(j - 1) * 2 + 1 <=> slotTurn[idx(j - 1)] > turn(j - 1) * 2 + 1
        BY <1>2, <1>3, <3>1, <3>3
      <4>2. (\E u \in Threads : pc'[u] \in {"destroy", "release"} /\ ticket'[u] = j - 1)
              <=> \E u \in Threads : pc[u] \in {"destroy", "release"} /\ ticket[u] = j - 1
        BY <1>1, <3>3
      <4> QED
        BY <1>1, <4>1, <4>2 DEF delivered
    <3> QED
      BY <3>2, <3>3
  <2> QED
    BY <1>1, <2>1 DEF delivered
<1>6. claims' = claims
  BY <1>1, ClaimsMoved DEF claims
<1> QED
  BY <1>1, <1>4, <1>5, <1>6 DEF Channel!chanVars, claims

-----------------------------------------------------------------------------
(* The theorem.                                                            *)

\* Whatever the threads do with the ring of slots, it behaves as a channel:
\* values are published and taken once each, in the order of their tickets,
\* and no more than Capacity are there at a time.
THEOREM ChannelImplemented == Spec => ImplementsChannel
<1>1. Init => Channel!Init
  <2> SUFFICES ASSUME Init PROVE Channel!Init
    OBVIOUS
  <2>1. published = {} /\ delivered = {}
    BY DEF Init, published, delivered
  <2>2. claims = [t \in Threads |-> 0]
    BY DEF Init, claims
  <2> QED
    BY <2>1, <2>2 DEF Init, Channel!Init, claims
<1>2. IInv /\ [Next]_vars => [Channel!Next]_(Channel!chanVars)
  <2> SUFFICES ASSUME IInv, [Next]_vars PROVE [Channel!Next]_(Channel!chanVars)
    OBVIOUS
  <2>0. TypeOK
    BY DEF IInv
  <2> USE DEF Goto, Return
  <2>1. ASSUME NEW t \in Threads, NEW v \in Values, Emplace(t, v) PROVE Channel!Reserve(t, v)
    BY <2>0, <2>1, ReservesPosition DEF Emplace, TypeOK
  <2>2. ASSUME NEW t \in Threads, NEW v \in Values, TryEmplace(t, v) PROVE Channel!Prepare(t, v)
    <3>1. /\ pc[t] = "idle" /\ pc'[t] = "try_emplace_check"
          /\ \A u \in Threads \ {t} : pc'[u] = pc[u] /\ ticket'[u] = ticket[u]
          /\ UNCHANGED <<head, tail, slotTurn, sent>> /\ val' = [val EXCEPT ![t] = v]
      BY <2>0, <2>2 DEF TryEmplace, TypeOK
    <3>2. claims' = claims /\ claims[t] = 0
      BY <3>1, ClaimsMoved DEF claims
    <3> QED
      BY <3>1, <3>2, SlotsKept DEF Channel!Prepare, claims
  <2>3. ASSUME NEW t \in Threads, Pop(t) PROVE Channel!Claim(t)
    BY <2>0, <2>3, ClaimsPosition DEF Pop, TypeOK
  <2>4. ASSUME NEW t \in Threads, TryPop(t) PROVE UNCHANGED Channel!chanVars
    BY <2>0, <2>4, Stutters DEF TryPop, TypeOK
  <2>5. ASSUME NEW t \in Threads, EmplaceSpin(t) \/ Construct(t) PROVE UNCHANGED Channel!chanVars
    BY <2>0, <2>5, Stutters DEF EmplaceSpin, Construct, TypeOK
  <2>6. ASSUME NEW t \in Threads, TryEmplaceCheck(t) \/ TryEmplaceReload(t)
        PROVE  UNCHANGED Channel!chanVars
    BY <2>0, <2>6, Stutters DEF TryEmplaceCheck, TryEmplaceReload, TypeOK
  <2>7. ASSUME NEW t \in Threads, TryEmplaceCas(t)
        PROVE  (\E v \in Values : Channel!Reserve(t, v)) \/ UNCHANGED Channel!chanVars
    <3>1. CASE head = ticket[t]
      <4>1. /\ head < MaxTickets /\ head' = head + 1 /\ sent' = Append(sent, val[t])
            /\ UNCHANGED <<tail, slotTurn, val>>
            /\ pc[t] = "try_emplace_cas" /\ pc'[t] = "construct"
            /\ \A u \in Threads \ {t} : pc'[u] = pc[u] /\ ticket'[u] = ticket[u]
        BY <2>0, <2>7, <3>1 DEF TryEmplaceCas, TypeOK
      <4>2. val[t] \in Values /\ val' = [val EXCEPT ![t] = val[t]]
        BY <2>0, <4>1 DEF TypeOK, Sending
      <4> QED
        BY <4>1, <4>2, ReservesPosition
    <3>2. CASE head # ticket[t]
      BY <2>0, <2>7, <3>2, Stutters DEF TryEmplaceCas, TypeOK
    <3> QED
      BY <3>1, <3>2
  <2>8. ASSUME NEW t \in Threads, PopSpin(t) \/ Destroy(t) PROVE UNCHANGED Channel!chanVars
    BY <2>0, <2>8, Stutters DEF PopSpin, Destroy, TypeOK
  <2>9. ASSUME NEW t \in Threads, TryPopCheck(t) \/ TryPopReload(t) PROVE UNCHANGED Channel!chanVars
    BY <2>0, <2>9, Stutters DEF TryPopCheck, TryPopReload, TypeOK
  <2>10. ASSUME NEW t \in Threads, TryPopCas(t)
         PROVE  Channel!Claim(t) \/ UNCHANGED Channel!chanVars
    <3>1. CASE tail = ticket[t]
      BY <2>0, <2>10, <3>1, ClaimsPosition DEF TryPopCas, TypeOK
    <3>2. CASE tail # ticket[t]
      BY <2>0, <2>10, <3>2, Stutters DEF TryPopCas, TypeOK
    <3> QED
      BY <3>1, <3>2
  <2>11. ASSUME NEW t \in Threads, NEW h \in 0 .. head, EmptyLoadHead(t, h)
         PROVE  UNCHANGED Channel!chanVars
    BY <2>0, <2>11, Stutters DEF EmptyLoadHead, TypeOK
  <2>12. ASSUME NEW t \in Threads, NEW l \in 0 .. tail, EmptyLoadTail(t, l)
         PROVE  UNCHANGED Channel!chanVars
    BY <2>0, <2>12, Stutters DEF EmptyLoadTail, TypeOK
  <2>13. CASE UNCHANGED vars
    BY <2>13, SlotsKept DEF vars, Channel!chanVars
  <2> QED
    BY <2>1, <2>2, <2>3, <2>4, <2>5, <2>6, <2>7, <2>8, <2>9, <2>10, <2>11, <2>12, <2>13,
       PublishesPosition, ReceivesPosition, ReleaseStutters
    DEF Next, Begin, Continue, EmplaceStep, TryPopStep, Empty, Channel!Next
<1> QED
  BY <1>1, <1>2, Invariant, PTL DEF Spec, ImplementsChannel, Channel!Spec

=============================================================================
