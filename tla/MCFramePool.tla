---------------------------- MODULE MCFramePool -----------------------------
(* Instances of FramePool for TLC. *)
EXTENDS FramePool, TLC

\* A budget and a tighter one, so that configure meets retained frames that
\* do not fit.  Buf needs as many elements as the larger one has buffers.
SmallBudgets == {[buffers |-> 3, bytes |-> 4], [buffers |-> 2, bytes |-> 2]}

\* Threads and storage are interchangeable.
PoolSymmetry ==
  Permutations(Buf) \cup Permutations(Publishers) \cup Permutations(Controllers)
=============================================================================
