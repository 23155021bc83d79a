----------------------------- MODULE MCMPMCQueue -----------------------------
(***************************************************************************)
(* TLC instances of MPMCQueue.  Threads are interchangeable, and so are    *)
(* the values: nothing in the queue looks at either.                       *)
(***************************************************************************)
EXTENDS MPMCQueueProofs, TLC

QueueSymmetry == Permutations(Threads) \union Permutations(Values)

=============================================================================
