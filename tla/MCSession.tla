----------------------------- MODULE MCSession ------------------------------
(* Instances of Session for TLC. *)
EXTENDS Session, TLC

\* Application tasks that close or drop sessions are interchangeable.
CloserSymmetry == Permutations(Closers)
=============================================================================
