---------------------------- MODULE FrameStream -----------------------------
(***************************************************************************)
(* What the frame hub promises its readers, without queues, policies or    *)
(* locks.  A capture is a sequence of epochs; in each, frames are numbered *)
(* from 1.  A reader is given frames of the epoch that is current, each    *)
(* newer than the one before; it may miss frames, and may still read the   *)
(* last ones of an epoch that has just been closed.                        *)
(***************************************************************************)
EXTENDS Integers

CONSTANT Receivers

VARIABLES
  epoch,   \* number of the current capture epoch
  open,    \* the epoch accepts frames
  head,    \* frames published in the epoch
  cursor   \* the key of the frame each reader was given last

vars == <<epoch, open, head, cursor>>

NoKey == <<0, 0>>

Newer(a, b) == b[1] < a[1] \/ (b[1] = a[1] /\ b[2] < a[2])

Init ==
  /\ epoch = 0 /\ open = FALSE /\ head = 0
  /\ cursor = [r \in Receivers |-> NoKey]

Restart ==
  /\ epoch' \in Nat /\ epoch' > epoch
  /\ open' = TRUE /\ head' = 0
  /\ UNCHANGED cursor

Close ==
  /\ open' = FALSE
  /\ UNCHANGED <<epoch, head, cursor>>

Publish ==
  /\ open
  /\ head' = head + 1
  /\ UNCHANGED <<epoch, open, cursor>>

Deliver(r) ==
  /\ \E n \in 1..head :
       /\ Newer(<<epoch, n>>, cursor[r])
       /\ cursor' = [cursor EXCEPT ![r] = <<epoch, n>>]
  /\ UNCHANGED <<epoch, open, head>>

\* A reader joins afresh, or from a frame of the epoch it has seen before.
Join(r) ==
  /\ cursor' \in {[cursor EXCEPT ![r] = k] : k \in {NoKey} \cup {<<epoch, n>> : n \in 1..head}}
  /\ UNCHANGED <<epoch, open, head>>

Next ==
  \/ Restart \/ Close \/ Publish
  \/ \E r \in Receivers : Deliver(r) \/ Join(r)

Spec == Init /\ [][Next]_vars
=============================================================================
