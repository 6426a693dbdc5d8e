---------------------------- MODULE FileTransfer ----------------------------
(***************************************************************************)
(* What the RTP programs of src/Assignment 2 promise to their user: the    *)
(* bytes of the message appear in the output file piece by piece, in       *)
(* order, once each, and the receiver ends either with the whole message   *)
(* or, when no connection was made, with nothing.                          *)
(***************************************************************************)
EXTENDS Naturals, Sequences

CONSTANT Message
VARIABLES output, closed

Init == output = <<>> /\ closed = FALSE

Deliver ==
    /\ ~closed /\ Len(output) < Len(Message)
    /\ output' = Append(output, Message[Len(output) + 1])
    /\ UNCHANGED closed

Close ==
    /\ ~closed /\ output \in {<<>>, Message}
    /\ closed' = TRUE
    /\ UNCHANGED output

Next == Deliver \/ Close

Spec == Init /\ [][Next]_<<output, closed>>
=============================================================================
