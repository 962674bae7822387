---------------------------- MODULE CaptureHub ----------------------------
(***************************************************************************)
(* What a backend sees of the frame hub (src/src/frame.rs): the session    *)
(* number of the current stream and whether it takes frames.  The delivery *)
(* of frames to receivers is the subject of FrameDelivery; here a start, a *)
(* stop and a publication are single steps.                                *)
(***************************************************************************)
EXTENDS Naturals

Hub == [session : Nat, active : BOOLEAN]

HubIdle == [session |-> 0, active |-> FALSE]

HubStart(hub) == [session |-> hub.session + 1, active |-> TRUE]

HubStop(hub) == [hub EXCEPT !.active = FALSE]
============================================================================
