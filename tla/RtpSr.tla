------------------------------- MODULE RtpSr -------------------------------
(***************************************************************************)
(* The selective-repeat transfer of src/Assignment 2/opt_src: the receiver *)
(* acknowledges every packet it accepts by its own number, the sender      *)
(* remembers in rcb->ack_record which packets of its window were           *)
(* acknowledged and does not send those again.                             *)
(***************************************************************************)
EXTENDS Rtp

VARIABLE ackRecord  \* rcb->ack_record of the sender process

vars == <<rtpVars, ackRecord>>

Init == RtpInit /\ ackRecord = [s \in 0..MaxWindow-1 |-> 0]

-----------------------------------------------------------------------------
(* rtp_connect and rtp_sendto *)

SrSendStart == SendStart /\ UNCHANGED ackRecord
SrStartAcked == StartAcked /\ UNCHANGED ackRecord
SrStartNotAcked == StartNotAcked /\ UNCHANGED ackRecord
SrFinishSending == FinishSending /\ UNCHANGED ackRecord

\* One round of the for loop over the window; a recorded packet is skipped.
SendOrSkip ==
    /\ spc = "send"
    /\ toReceiver' = IF ackRecord[next % MaxWindow] = 1 THEN toReceiver
                     ELSE Put(toReceiver, DataPacket(next))
    /\ next' = next + 1
    /\ spc' = IF next + 1 < WinEnd THEN "send" ELSE "collect"
    /\ UNCHANGED <<winStart, receiverVars, toSender, ackRecord>>

\* Wrong variant: the slots the window slides over are not cleared.
KeepSlots(record, t) == record
ClearSlots(record, t) ==
    [c \in DOMAIN record |->
        IF \E u \in winStart..(t - 1) : u % MaxWindow = c THEN 0 ELSE record[c]]

(***************************************************************************)
(* The ACK of packet s is recorded.  If it is the window's first packet    *)
(* the window slides over all that are recorded, and their slots are       *)
(* cleared for the packets MAX_WINDOW further on.                          *)
(***************************************************************************)
RecordAck(s) ==
    LET marked == [ackRecord EXCEPT ![s % MaxWindow] = 1]
        slidTo == {t \in winStart..(winStart + MaxWindow) :
                     /\ \A u \in winStart..(t - 1) : marked[u % MaxWindow] = 1
                     /\ t = winStart + MaxWindow \/ marked[t % MaxWindow] = 0}
    IN  \/ s # winStart /\ ackRecord' = marked /\ UNCHANGED winStart
        \/ /\ s = winStart /\ winStart' \in slidTo
           /\ ackRecord' = ClearSlots(marked, winStart')

CollectAck ==
    /\ spc = "collect"
    /\ \E s \in AckNumbers : GetsAck(s) /\ RecordAck(s)
    /\ UNCHANGED <<spc, next, receiverVars, toReceiver>>

SrEndRound == EndRound /\ UNCHANGED ackRecord

-----------------------------------------------------------------------------
(* rtp_listen, rtp_recvfrom and receiver() *)

SrListenAccept == ListenAccept /\ UNCHANGED ackRecord
SrListenRefuse == ListenRefuse /\ UNCHANGED ackRecord
SrDropPacket == DropPacket /\ UNCHANGED ackRecord

SrAcceptEnd == AcceptEnd /\ UNCHANGED ackRecord

\* A packet already recorded is not recorded again, but is acknowledged again.
AcceptData ==
    /\ Receiving
    /\ \E k \in Deliverable(toReceiver) :
        LET p == toReceiver[k] IN
        /\ p.kind # "END" /\ InWindow(p)
        /\ AdvanceSeq(p)
        /\ IfNewCount(p)
        /\ IF rec[p.seq % MaxWindow] = 0 THEN Record(p) ELSE UNCHANGED <<rec, buf>>
        /\ toSender' = Put(toSender, StatusPacket("DATA_ACK", p.seq))
        /\ toReceiver' = Without(toReceiver, k)
    /\ UNCHANGED <<senderVars, rpc, base, endSeq, writeVars, ackRecord>>

SrReturnChunk == ReturnChunk /\ UNCHANGED ackRecord
SrWriteOne == WriteOne /\ UNCHANGED ackRecord
SrNextChunk == NextChunk /\ UNCHANGED ackRecord

-----------------------------------------------------------------------------
Sender == SrSendStart \/ SrStartAcked \/ SrStartNotAcked \/ SendOrSkip \/ CollectAck
          \/ SrEndRound \/ SrFinishSending

Receiver == SrListenAccept \/ SrListenRefuse \/ SrDropPacket \/ SrAcceptEnd \/ AcceptData
            \/ SrReturnChunk \/ SrWriteOne \/ SrNextChunk

Next == Sender \/ Receiver \/ (NetworkFault /\ UNCHANGED ackRecord)

Spec == Init /\ [][Next]_vars

\* As in RtpGbn: running processes, and a packet sent again and again arrives.
AcceptsNumber(i) == AcceptData /\ \E k \in Deliverable(toReceiver) :
                                     toReceiver[k].seq = i /\ toReceiver' = Without(toReceiver, k)

Fairness ==
    /\ WF_vars(Sender)
    /\ WF_vars(Receiver)
    /\ \A i \in 0..NPackets-1 : SF_vars(AcceptsNumber(i))

FairSpec == Spec /\ Fairness

-----------------------------------------------------------------------------
TypeOK == RtpTypeOK /\ ackRecord \in [0..MaxWindow-1 -> {0, 1}]

\* Packets the sender will not send (again): those before its window, and those
\* of its window whose slot in ack_record is set.
TakenAsAcked(i) ==
    \/ i < winStart
    \/ i < winStart + SndWindow /\ ackRecord[i % MaxWindow] = 1

(***************************************************************************)
(* A packet the sender does not send again is held by the receiver, and so *)
(* is a packet whose ACK is still in flight.  It takes rounds that end     *)
(* with nothing in flight (RoundsEndEmpty of RtpSrInv): an ACK that comes  *)
(* after its round, or twice, marks a later packet's slot.                 *)
(***************************************************************************)
AckedIsHeld ==
    /\ \A i \in 0..NPackets-1 : TakenAsAcked(i) => Held(i)
    /\ \A k \in DOMAIN toSender :
         toSender[k].kind = "DATA_ACK" /\ toSender[k].seq < NPackets => Held(toSender[k].seq)
=============================================================================
