-------------------------- MODULE MCFrameDelivery ---------------------------
(* Instances of FrameDelivery for TLC. *)
EXTENDS FrameDelivery, TLC

\* Readers do not interact but through the snapshot they all watch, so one
\* reader meets every interleaving.  MaxSequence exceeds every capacity.
\* Latest is oldest with capacity 1: LatestAlone has it.
OldestAndNewest ==
  {[capacity |-> 2, overflow |-> "oldest", limited |-> FALSE],
   [capacity |-> 1, overflow |-> "newest", limited |-> TRUE]}
LatestAlone == {LatestOnly}

\* Threads of one kind are interchangeable.
ThreadSymmetry == Permutations(Publishers) \cup Permutations(Controllers)
=============================================================================
