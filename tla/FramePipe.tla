----------------------------- MODULE FramePipe -----------------------------
(***************************************************************************)
(* What one bridged WebSocket connection promises about the text frames a  *)
(* client sends: they take effect in the order they came, none is skipped, *)
(* none takes effect twice, and nothing takes effect after the connection  *)
(* ended.  A frame takes effect when it is sent upstream or when its       *)
(* summary is sent back to the client.                                     *)
(***************************************************************************)
EXTENDS Naturals, Sequences

CONSTANT Frames

VARIABLES
    in,    \* the text frames received
    out,   \* the text frames that took effect
    up     \* FALSE once the connection ended

vars == <<in, out, up>>

Init == in = <<>> /\ out = <<>> /\ up = TRUE

Accept ==
    /\ up /\ up' = TRUE
    /\ \E frame \in Frames : in' = Append(in, frame)
    /\ out' = out

Pass ==
    /\ up /\ up' = TRUE
    /\ Len(out) < Len(in)
    /\ out' = Append(out, in[Len(out) + 1])
    /\ in' = in

(* A frame that takes effect at once. *)
Relay ==
    /\ up /\ up' = TRUE
    /\ out = in
    /\ \E frame \in Frames : in' = Append(in, frame)
    /\ out' = in'

(* The connection ends, by itself or because of the frame that arrives. *)
End ==
    /\ up /\ up' = FALSE
    /\ in' = in \/ \E frame \in Frames : in' = Append(in, frame)
    /\ out' = out

Next == Accept \/ Pass \/ Relay \/ End

Spec == Init /\ [][Next]_vars
=============================================================================
