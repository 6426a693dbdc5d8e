------------------------------ MODULE RtpSrInv ------------------------------
(***************************************************************************)
(* What selective ACKs add to the invariant of RtpInv.  An ACK is recorded *)
(* in whatever slot its number falls, so nothing may be on its way twice,  *)
(* or still be on its way when the window has passed it.  That needs a     *)
(* timeout that no answer misses and answers that arrive once and whole:   *)
(* a round then ends with nothing in flight.                               *)
(***************************************************************************)
EXTENDS RtpSr, RtpInv

RoundsEndEmpty == Timely /\ Duplicable = {} /\ Corruptible \cap AckKinds = {}
WindowFits == SndWindow <= MaxWindow

Transferring == spc \in {"send", "collect"}
Window == winStart..(winStart + SndWindow - 1)

\* The receiver took the packet, or will find it empty.
Got(i) ==
    \/ i < seq
    \/ base <= i /\ i < base + TotalPacket /\ rec[i % MaxWindow] = LenOf(i)

AckedGot == \A i \in 0..NPackets-1 : TakenAsAcked(i) => Got(i)

AnswersGot ==
    \A k \in DOMAIN toSender :
        toSender[k].kind = "DATA_ACK" => toSender[k].seq < NPackets /\ Got(toSender[k].seq)

\* A slot that is set stands for one packet of the window.
MarksInWindow ==
    \A c \in 0..MaxWindow-1 : ackRecord[c] = 1 =>
        ~NotConnected /\ \E t \in Window : t % MaxWindow = c

\* START or its answer is in flight, not both.
OneHandshake ==
    spc = "await_start" => \/ toReceiver = <<>> /\ Len(toSender) <= 1
                           \/ toSender = <<>> /\ Len(toReceiver) <= 1

NextInWindow == spc = "send" => next \in Window

\* What is in flight in a round is a packet of the window that is not marked, or its ACK.
Open(p) == /\ p.seq \in Window /\ ackRecord[p.seq % MaxWindow] = 0
           /\ spc = "send" => p.seq < next

FlightSound ==
    Transferring =>
        /\ \A k \in DOMAIN toReceiver : toReceiver[k].kind = "DATA" /\ Open(toReceiver[k])
        /\ \A k \in DOMAIN toSender : toSender[k].kind = "DATA_ACK" /\ Open(toSender[k])

\* A packet is in flight, or its ACK is, once.
Distinct(ch) == \A i, j \in DOMAIN ch : ch[i].seq = ch[j].seq => i = j

NoneTwice ==
    Transferring =>
        /\ Distinct(toReceiver) /\ Distinct(toSender)
        /\ \A i \in DOMAIN toReceiver, j \in DOMAIN toSender :
             toReceiver[i].seq # toSender[j].seq

\* A chunk is only written when it is full or END has come.
ChunkOver == rpc = "write" => endSeq # MaxPacket \/ seq >= base + TotalPacket

AcksInv == /\ AckedGot /\ AnswersGot /\ MarksInWindow /\ OneHandshake /\ NextInWindow
           /\ FlightSound /\ NoneTwice

SrInv == TypeOK /\ FileInv /\ AcksInv /\ ChunkOver
=============================================================================
