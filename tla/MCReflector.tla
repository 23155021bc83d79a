----------------------------- MODULE MCReflector -----------------------------
EXTENDS Reflector, TLC

WorkerSymmetry == Permutations(Workers)

=============================================================================
