----------------------------- MODULE RtpGbnInv -----------------------------
(* What cumulative ACKs add to the invariant of RtpInv. *)
EXTENDS RtpGbn, RtpInv

\* No ACK on its way, and so no window, promises more than is received.
AnswersCumulative ==
    \A k \in DOMAIN toSender : toSender[k].kind = "DATA_ACK" => toSender[k].seq <= seq

WindowReceived == winStart <= seq /\ winStart <= NPackets

\* END is accepted in its turn only.
EndInTurn == endSeq # MaxPacket => seq = endSeq + 1

\* While datagrams do not overtake each other: of the ACKs on their way a later
\* one names no smaller number, and none names one before the window.
AnswersInOrder ==
    \A i, j \in DOMAIN toSender :
        i <= j /\ toSender[i].kind # "END_ACK" /\ toSender[j].kind # "END_ACK"
            => toSender[i].seq <= toSender[j].seq

AnswersAhead ==
    \A k \in DOMAIN toSender : toSender[k].kind # "END_ACK" => winStart <= toSender[k].seq

GbnInv == FileInv /\ AnswersCumulative /\ WindowReceived /\ EndInTurn
FifoInv == GbnInv /\ AnswersInOrder /\ AnswersAhead
=============================================================================
