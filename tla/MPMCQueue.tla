------------------------------ MODULE MPMCQueue ------------------------------
(***************************************************************************)
(* The bounded multi-producer multi-consumer queue of src/MPMCQueue.h, one *)
(* atomic access per step.                                                 *)
(*                                                                         *)
(* A producer takes a ticket from head_, a consumer one from tail_.  The   *)
(* ticket k belongs to slot idx(k) in round turn(k); the slot's own turn   *)
(* counter is 2 * r while the slot waits for the producer of round r and   *)
(* 2 * r + 1 while it waits for the consumer of that round.                *)
(*                                                                         *)
(* Every thread may run every operation.  pc, ticket, val and ret are the  *)
(* locals of the operation a thread is in: where it is, the ticket (or the *)
(* counter it has read), the argument or the output parameter v, and the   *)
(* value returned.  `sent' is a history variable: the values in the order  *)
(* in which their tickets were handed out.                                 *)
(***************************************************************************)
EXTENDS Integers, Sequences

CONSTANTS
  Threads,     \* the threads that use the queue
  Values,      \* the values that travel through it
  Raw,         \* storage that holds no object, and an unset output parameter
  Capacity,    \* capacity_
  MaxTickets   \* bound of the model on head_ and tail_, below their width

ASSUME CapacityAssumption   == Capacity \in Nat \ {0}  \* the constructor throws
ASSUME MaxTicketsAssumption == MaxTickets \in Nat
ASSUME RawAssumption        == Raw \notin Values

VARIABLES
  head,      \* head_: the next producer ticket
  tail,      \* tail_: the next consumer ticket
  slotTurn,  \* slots_[i].turn
  storage,   \* slots_[i].storage: the object it holds, or Raw
  sent,      \* history: the value of every producer ticket handed out
  pc, ticket, val, ret

vars == <<head, tail, slotTurn, storage, sent, pc, ticket, val, ret>>

Slots == 0 .. Capacity - 1

idx(i)  == i % Capacity
turn(i) == i \div Capacity

Init ==
  /\ head = 0
  /\ tail = 0
  /\ slotTurn = [s \in Slots |-> 0]
  /\ storage  = [s \in Slots |-> Raw]
  /\ sent     = << >>
  /\ pc     = [t \in Threads |-> "idle"]
  /\ ticket = [t \in Threads |-> 0]
  /\ val    = [t \in Threads |-> Raw]
  /\ ret    = [t \in Threads |-> FALSE]

-----------------------------------------------------------------------------
(* What the loads of slot.turn are compared with.  Here and below, a       *)
(* definition whose comment begins with `Wrong' is not part of the model:  *)
(* it is a plausible mistake, there to be put in the place of the          *)
(* definition after it and found by TLC.                                   *)

Slot(t) == idx(ticket[t])

\* Wrong: any free slot will do.
ProducerTurnParity(t) == slotTurn[Slot(t)] % 2 = 0

ProducerTurn(t) == slotTurn[Slot(t)] = turn(ticket[t]) * 2

\* Wrong: any full slot will do.
ConsumerTurnParity(t) == slotTurn[Slot(t)] % 2 = 1

\* Wrong: one turn late.
ConsumerTurnLate(t) == slotTurn[Slot(t)] = turn(ticket[t]) * 2 + 2

ConsumerTurn(t) == slotTurn[Slot(t)] = turn(ticket[t]) * 2 + 1

Goto(t, l)    == pc' = [pc EXCEPT ![t] = l]
Return(t, r)  ==
  /\ Goto(t, "idle")
  /\ ret' = [ret EXCEPT ![t] = r]
  /\ ticket' = [ticket EXCEPT ![t] = 0]    \* the locals go out of scope

-----------------------------------------------------------------------------
(* emplace, push: take a ticket, wait for the slot, construct, publish.    *)

Emplace(t, v) ==
  /\ pc[t] = "idle"
  /\ head < MaxTickets
  /\ ticket' = [ticket EXCEPT ![t] = head]
  /\ head' = head + 1
  /\ val' = [val EXCEPT ![t] = v]
  /\ sent' = Append(sent, v)
  /\ Goto(t, "emplace_spin")
  /\ UNCHANGED <<tail, slotTurn, storage, ret>>

EmplaceSpin(t) ==
  /\ pc[t] = "emplace_spin"
  /\ ProducerTurn(t)
  /\ Goto(t, "construct")
  /\ UNCHANGED <<head, tail, slotTurn, storage, sent, ticket, val, ret>>

Construct(t) ==
  /\ pc[t] = "construct"
  /\ storage' = [storage EXCEPT ![Slot(t)] = val[t]]
  /\ Goto(t, "publish")
  /\ UNCHANGED <<head, tail, slotTurn, sent, ticket, val, ret>>

Publish(t) ==
  /\ pc[t] = "publish"
  /\ slotTurn' = [slotTurn EXCEPT ![Slot(t)] = turn(ticket[t]) * 2 + 1]
  /\ Return(t, TRUE)
  /\ UNCHANGED <<head, tail, storage, sent, val>>

-----------------------------------------------------------------------------
(* try_emplace, try_push: the ticket is taken by compare-and-swap, and     *)
(* only once the slot has been seen free.                                  *)

TryEmplace(t, v) ==
  /\ pc[t] = "idle"
  /\ ticket' = [ticket EXCEPT ![t] = head]
  /\ val' = [val EXCEPT ![t] = v]
  /\ Goto(t, "try_emplace_check")
  /\ UNCHANGED <<head, tail, slotTurn, storage, sent, ret>>

TryEmplaceCheck(t) ==
  /\ pc[t] = "try_emplace_check"
  /\ Goto(t, IF ProducerTurn(t) THEN "try_emplace_cas" ELSE "try_emplace_reload")
  /\ UNCHANGED <<head, tail, slotTurn, storage, sent, ticket, val, ret>>

TryEmplaceCas(t) ==
  /\ pc[t] = "try_emplace_cas"
  /\ \/ /\ head = ticket[t]
        /\ head < MaxTickets
        /\ head' = head + 1
        /\ sent' = Append(sent, val[t])
        /\ Goto(t, "construct")
        /\ UNCHANGED ticket
     \/ /\ head # ticket[t]
        /\ ticket' = [ticket EXCEPT ![t] = head]
        /\ Goto(t, "try_emplace_check")
        /\ UNCHANGED <<head, sent>>
  /\ UNCHANGED <<tail, slotTurn, storage, val, ret>>

\* Wrong: the argument is moved from before the ticket is taken.
TryEmplaceReloadMovedFrom(t) ==
  /\ pc[t] = "try_emplace_reload"
  /\ \/ head = ticket[t] /\ Return(t, FALSE)
     \/ /\ head # ticket[t]
        /\ ticket' = [ticket EXCEPT ![t] = head]
        /\ Goto(t, "try_emplace_check")
        /\ UNCHANGED ret
  /\ val' = [val EXCEPT ![t] = Raw]
  /\ UNCHANGED <<head, tail, slotTurn, storage, sent>>

TryEmplaceReload(t) ==
  /\ pc[t] = "try_emplace_reload"
  /\ \/ head = ticket[t] /\ Return(t, FALSE)
     \/ /\ head # ticket[t]
        /\ ticket' = [ticket EXCEPT ![t] = head]
        /\ Goto(t, "try_emplace_check")
        /\ UNCHANGED ret
  /\ UNCHANGED <<head, tail, slotTurn, storage, sent, val>>

-----------------------------------------------------------------------------
(* pop: take a ticket, wait for the slot, move out, destroy, release.      *)

Pop(t) ==
  /\ pc[t] = "idle"
  /\ tail < MaxTickets
  /\ ticket' = [ticket EXCEPT ![t] = tail]
  /\ tail' = tail + 1
  /\ Goto(t, "pop_spin")
  /\ UNCHANGED <<head, slotTurn, storage, sent, val, ret>>

PopSpin(t) ==
  /\ pc[t] = "pop_spin"
  /\ ConsumerTurn(t)
  /\ Goto(t, "move")
  /\ UNCHANGED <<head, tail, slotTurn, storage, sent, ticket, val, ret>>

Move(t) ==
  /\ pc[t] = "move"
  /\ val' = [val EXCEPT ![t] = storage[Slot(t)]]
  /\ Goto(t, "destroy")
  /\ UNCHANGED <<head, tail, slotTurn, storage, sent, ticket, ret>>

\* Wrong: the object that was moved from is left in the slot.
DestroyForgotten(t) ==
  /\ pc[t] = "destroy"
  /\ Goto(t, "release")
  /\ UNCHANGED <<head, tail, slotTurn, storage, sent, ticket, val, ret>>

Destroy(t) ==
  /\ pc[t] = "destroy"
  /\ storage' = [storage EXCEPT ![Slot(t)] = Raw]
  /\ Goto(t, "release")
  /\ UNCHANGED <<head, tail, slotTurn, sent, ticket, val, ret>>

\* Wrong: the slot is not handed on to the next round.
ReleaseSameTurn(t) ==
  /\ pc[t] = "release"
  /\ slotTurn' = [slotTurn EXCEPT ![Slot(t)] = turn(ticket[t]) * 2 + 1]
  /\ Return(t, TRUE)
  /\ UNCHANGED <<head, tail, storage, sent, val>>

Release(t) ==
  /\ pc[t] = "release"
  /\ slotTurn' = [slotTurn EXCEPT ![Slot(t)] = turn(ticket[t]) * 2 + 2]
  /\ Return(t, TRUE)
  /\ UNCHANGED <<head, tail, storage, sent, val>>

-----------------------------------------------------------------------------
(* try_pop *)

TryPop(t) ==
  /\ pc[t] = "idle"
  /\ ticket' = [ticket EXCEPT ![t] = tail]
  /\ Goto(t, "try_pop_check")
  /\ UNCHANGED <<head, tail, slotTurn, storage, sent, val, ret>>

TryPopCheck(t) ==
  /\ pc[t] = "try_pop_check"
  /\ Goto(t, IF ConsumerTurn(t) THEN "try_pop_cas" ELSE "try_pop_reload")
  /\ UNCHANGED <<head, tail, slotTurn, storage, sent, ticket, val, ret>>

\* Wrong: a store in the place of the compare-and-swap.
TryPopCasBlind(t) ==
  /\ pc[t] = "try_pop_cas"
  /\ ticket[t] < MaxTickets
  /\ tail' = ticket[t] + 1
  /\ Goto(t, "move")
  /\ UNCHANGED <<head, slotTurn, storage, sent, ticket, val, ret>>

TryPopCas(t) ==
  /\ pc[t] = "try_pop_cas"
  /\ \/ /\ tail = ticket[t]
        /\ tail < MaxTickets
        /\ tail' = tail + 1
        /\ Goto(t, "move")
        /\ UNCHANGED ticket
     \/ /\ tail # ticket[t]
        /\ ticket' = [ticket EXCEPT ![t] = tail]
        /\ Goto(t, "try_pop_check")
        /\ UNCHANGED tail
  /\ UNCHANGED <<head, slotTurn, storage, sent, val, ret>>

TryPopReload(t) ==
  /\ pc[t] = "try_pop_reload"
  /\ \/ tail = ticket[t] /\ Return(t, FALSE)
     \/ /\ tail # ticket[t]
        /\ ticket' = [ticket EXCEPT ![t] = tail]
        /\ Goto(t, "try_pop_check")
        /\ UNCHANGED ret
  /\ UNCHANGED <<head, tail, slotTurn, storage, sent, val>>

-----------------------------------------------------------------------------
(* empty(): size() <= 0.  size() subtracts two relaxed loads, which C++    *)
(* evaluates in either order; a relaxed load returns any value the counter *)
(* has held, so h and l are arbitrary up to the current ones.  A client    *)
(* whose synchronisation makes newer values visible narrows them.          *)

EmptyLoadHead(t, h) ==
  /\ h \in 0 .. head
  /\ \/ /\ pc[t] = "idle"
        /\ ticket' = [ticket EXCEPT ![t] = h]
        /\ Goto(t, "empty_tail")
        /\ UNCHANGED ret
     \/ /\ pc[t] = "empty_head"
        /\ Return(t, h - ticket[t] <= 0)
  /\ UNCHANGED <<head, tail, slotTurn, storage, sent, val>>

EmptyLoadTail(t, l) ==
  /\ l \in 0 .. tail
  /\ \/ /\ pc[t] = "idle"
        /\ ticket' = [ticket EXCEPT ![t] = l]
        /\ Goto(t, "empty_head")
        /\ UNCHANGED ret
     \/ /\ pc[t] = "empty_tail"
        /\ Return(t, ticket[t] - l <= 0)
  /\ UNCHANGED <<head, tail, slotTurn, storage, sent, val>>

-----------------------------------------------------------------------------
(* The steps of an operation that has begun; the composed modules reuse    *)
(* them for the operations they start themselves.                          *)

EmplaceStep(t) == EmplaceSpin(t) \/ Construct(t) \/ Publish(t)

TryPopStep(t) ==
  \/ TryPopCheck(t) \/ TryPopCas(t) \/ TryPopReload(t)
  \/ Move(t) \/ Destroy(t) \/ Release(t)

Begin(t) ==
  \/ \E v \in Values : Emplace(t, v) \/ TryEmplace(t, v)
  \/ Pop(t)
  \/ TryPop(t)

Continue(t) ==
  \/ EmplaceStep(t)
  \/ TryEmplaceCheck(t) \/ TryEmplaceCas(t) \/ TryEmplaceReload(t)
  \/ PopSpin(t)
  \/ TryPopStep(t)

Empty(t) ==
  \/ \E h \in 0 .. head : EmptyLoadHead(t, h)
  \/ \E l \in 0 .. tail : EmptyLoadTail(t, l)

Next == \E t \in Threads : Begin(t) \/ Continue(t) \/ Empty(t)

Spec == Init /\ [][Next]_vars

-----------------------------------------------------------------------------
(* Correctness.                                                            *)

EmptyPCs == {"empty_head", "empty_tail"}
TryPCs   == {"try_emplace_check", "try_emplace_cas", "try_emplace_reload",
             "try_pop_check", "try_pop_cas", "try_pop_reload"}
WritePCs == {"construct", "publish"}
ReadPCs  == {"move", "destroy", "release"}
PCs      == {"idle", "emplace_spin", "pop_spin"}
              \union EmptyPCs \union TryPCs \union WritePCs \union ReadPCs

\* A send holds the value it was given.
Sending(t) ==
  pc[t] \in {"emplace_spin", "construct", "publish",
            "try_emplace_check", "try_emplace_cas", "try_emplace_reload"}

\* The types of the variables; the history has one entry per ticket.
TypeOK ==
  /\ head \in Nat
  /\ tail \in Nat
  /\ slotTurn \in [Slots -> Nat]
  /\ storage \in [Slots -> Values \union {Raw}]
  /\ sent \in Seq(Values)
  /\ Len(sent) = head
  /\ pc \in [Threads -> PCs]
  /\ ticket \in [Threads -> Nat]
  /\ val \in [Threads -> Values \union {Raw}]
  /\ \A t \in Threads : Sending(t) => val[t] \in Values
  /\ ret \in [Threads -> BOOLEAN]

\* The thread t owns a producer ticket, or a consumer ticket, that it has
\* not given back by storing the slot's turn.
Producing(t) == pc[t] \in {"emplace_spin"} \union WritePCs
Consuming(t) == pc[t] \in {"pop_spin"} \union ReadPCs
Accessing(t) == pc[t] \in WritePCs \union ReadPCs

\* No two threads ever touch the storage of one slot at a time: construct(),
\* move() and destroy() (lines 173, 230-231) are plain, unsynchronised
\* accesses, ordered by nothing but the slot's turn.
SlotExclusive ==
  \A t, u \in Threads :
    t # u /\ Accessing(t) /\ Accessing(u) => Slot(t) # Slot(u)

\* An object is only constructed in raw storage and only moved from and
\* destroyed where one lives (lines 92-104): none is overwritten, leaked or
\* destroyed twice.
StorageLifecycle ==
  \A t \in Threads :
    /\ pc[t] \in {"construct", "release"} => storage[Slot(t)] = Raw
    /\ pc[t] \in {"move", "destroy"} => storage[Slot(t)] # Raw

\* The consumer of ticket k moves out the very value the producer of ticket
\* k put in, whatever the other threads did in between: values are delivered
\* once each and in ticket order (lines 225-254).
DeliversOwnTicket ==
  \A t \in Threads :
    pc[t] \in {"destroy", "release"} =>
      ticket[t] < head /\ val[t] = sent[ticket[t] + 1]

\* try_pop gives up on a ticket that is still the oldest unclaimed one only
\* if its producer has not published yet, and try_emplace only if the slot is
\* not free (lines 183-194, 239-250): neither is ever refused by a slot that
\* has moved on to a later round.
RefusedOnlyWhileNotReady ==
  [][\A t \in Threads :
       /\ pc[t] = "try_pop_check" /\ pc'[t] = "try_pop_reload" /\ ticket[t] = tail
            => slotTurn[Slot(t)] < turn(ticket[t]) * 2 + 1
       /\ pc[t] = "try_emplace_check" /\ pc'[t] = "try_emplace_reload" /\ ticket[t] = head
            => slotTurn[Slot(t)] < turn(ticket[t]) * 2]_vars

\* Nobody waits for a ticket that is lost.  A producer that does not find its
\* turn (line 171) waits for the consumer of its slot's last round, which is
\* still to come or at work, and a consumer (line 228) for the producer of its
\* own ticket.  What a thread waits for has a lower ticket, or is a producer's:
\* so the threads never wait for each other in a circle.
WaitsForAnother ==
  \A t \in Threads :
    /\ pc[t] = "emplace_spin" /\ ~ProducerTurn(t) =>
         /\ ticket[t] >= Capacity
         /\ \/ ticket[t] - Capacity >= tail
            \/ \E u \in Threads : Consuming(u) /\ ticket[u] = ticket[t] - Capacity
    /\ pc[t] = "pop_spin" /\ ~ConsumerTurn(t) =>
         \/ ticket[t] >= head
         \/ \E u \in Threads : Producing(u) /\ ticket[u] = ticket[t]

-----------------------------------------------------------------------------
(* The queue implements the abstract channel: a log in ticket order.       *)

published == {k \in 1 .. head : slotTurn[idx(k - 1)] > turn(k - 1) * 2}

delivered ==
  {k \in 1 .. tail :
     \/ slotTurn[idx(k - 1)] > turn(k - 1) * 2 + 1
     \/ \E t \in Threads : pc[t] \in {"destroy", "release"} /\ ticket[t] = k - 1}

Channel == INSTANCE FifoChannel WITH
  claimed <- tail,
  claim   <- [t \in Threads |->
                IF pc[t] \in {"pop_spin", "move"} THEN ticket[t] + 1 ELSE 0]

\* Every behaviour of the ring of slots is one of the abstract channel.
ImplementsChannel == Channel!Spec

=============================================================================
