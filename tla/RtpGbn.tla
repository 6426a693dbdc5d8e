------------------------------- MODULE RtpGbn -------------------------------
(***************************************************************************)
(* The cumulative-ACK transfer of src/Assignment 2/src: the sender sends a *)
(* whole window, collects ACKs until select times out, and moves the       *)
(* window to wherever the last ACK says; the receiver keeps packets that   *)
(* arrive out of order and acknowledges with the next number it expects.   *)
(***************************************************************************)
EXTENDS Rtp

vars == rtpVars

Init == RtpInit

-----------------------------------------------------------------------------
(* rtp_sendto *)

\* One round of the for loop over the window.
SendOne ==
    /\ spc = "send"
    /\ toReceiver' = Put(toReceiver, DataPacket(next))
    /\ next' = next + 1
    /\ spc' = IF next + 1 < WinEnd THEN "send" ELSE "collect"
    /\ UNCHANGED <<winStart, receiverVars, toSender>>

\* Wrong variants: the number in an ACK is misread by one.
MoveWindowShort(s) == winStart' = s - 1
MoveWindowFar(s) == winStart' = s + 1

\* An ACK moves the window, in whichever direction.
MoveWindow(s) == winStart' = s

\* CLEAR_BUFF: ACKs are collected until a timeout or a wrong checksum.
CollectAck ==
    /\ spc = "collect"
    /\ \E s \in AckNumbers : GetsAck(s) /\ MoveWindow(s)
    /\ UNCHANGED <<spc, next, receiverVars, toReceiver>>

-----------------------------------------------------------------------------
(* rtp_recvfrom *)

\* Wrong variants: the ACK names the packet received, or the one after it.
AnswerWithNumber(p) == toSender' = Put(toSender, StatusPacket("DATA_ACK", p.seq))
AnswerWithNext(p) == toSender' = Put(toSender, StatusPacket("DATA_ACK", p.seq + 1))

\* The ACK is cumulative: it names the next packet expected, whatever p is.
Answer(p) == toSender' = Put(toSender, StatusPacket("DATA_ACK", seq'))

\* Any type but END is taken for data, recorded (again), and acknowledged.
AcceptData ==
    /\ Receiving
    /\ \E k \in Deliverable(toReceiver) :
        LET p == toReceiver[k] IN
        /\ p.kind # "END" /\ InWindow(p)
        /\ AdvanceSeq(p)
        /\ IfNewCount(p)
        /\ Record(p)
        /\ Answer(p)
        /\ toReceiver' = Without(toReceiver, k)
    /\ UNCHANGED <<senderVars, rpc, base, endSeq, writeVars>>

-----------------------------------------------------------------------------
Sender == SendStart \/ StartAcked \/ StartNotAcked \/ SendOne \/ CollectAck
          \/ EndRound \/ FinishSending

Receiver == ListenAccept \/ ListenRefuse \/ DropPacket \/ AcceptEnd \/ AcceptData
            \/ ReturnChunk \/ WriteOne \/ NextChunk

Next == Sender \/ Receiver \/ NetworkFault

Spec == Init /\ [][Next]_vars

(***************************************************************************)
(* Both processes keep running; the network may lose what it may lose, but *)
(* a packet the receiver could accept again and again does arrive.         *)
(***************************************************************************)
AcceptsNumber(i) == AcceptData /\ \E k \in Deliverable(toReceiver) :
                                     toReceiver[k].seq = i /\ toReceiver' = Without(toReceiver, k)

Fairness ==
    /\ WF_vars(Sender)
    /\ WF_vars(Receiver)
    /\ \A i \in 0..NPackets-1 : SF_vars(AcceptsNumber(i))

FairSpec == Spec /\ Fairness

-----------------------------------------------------------------------------
TypeOK == RtpTypeOK

(***************************************************************************)
(* What the sender may forget is held: every packet before its window, and *)
(* before any number an ACK in flight acknowledges (rtp_sendto never sends *)
(* those again, so a packet counted too early is lost for good).           *)
(***************************************************************************)
AckedIsHeld ==
    /\ \A i \in 0..NPackets-1 : i < winStart => Held(i)
    /\ \A k \in DOMAIN toSender : toSender[k].kind = "DATA_ACK" =>
         \A i \in 0..NPackets-1 : i < toSender[k].seq => Held(i)

\* The sender's window never moves back over packets it already saw acknowledged.
WindowNeverSlidesBack == [][winStart' >= winStart]_vars
=============================================================================
