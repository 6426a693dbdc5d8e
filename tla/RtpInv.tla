------------------------------- MODULE RtpInv -------------------------------
(***************************************************************************)
(* The inductive invariant behind the safety properties that both programs *)
(* have, in parts.  It says nothing of how ACKs move the window, so it     *)
(* holds for the cumulative and for the selective ACKs.  It needs two      *)
(* things of the constants: an ack_record that happens to be zero when     *)
(* receiver() starts, and a START that arrives at most once (the receiver  *)
(* takes a second one for packet 0).                                       *)
(***************************************************************************)
EXTENDS Rtp, FiniteSets

CleanStack == StackGarbage \subseteq {0}
StartNotDuplicated == "START" \notin Duplicable

NotConnected == spc \in {"connect", "await_start", "failed"}
Finishing == spc \in {"await_end", "done"}

\* START is sent once, and no START is in flight once it was accepted.
StartOnce ==
    /\ spc = "connect" => toReceiver = <<>> /\ toSender = <<>> /\ rpc = "listen"
    /\ \A i, j \in DOMAIN toReceiver :
         toReceiver[i].kind = "START" /\ toReceiver[j].kind = "START" => i = j
    /\ \A k \in DOMAIN toReceiver :
         toReceiver[k].kind = "START" => rpc \in {"listen", "failed"}

\* What can be on its way to the receiver.
SoundRequest(p) ==
    \/ p.kind = "START" /\ p.seq = 0
    \/ p.kind = "DATA" /\ ~NotConnected /\ p.seq < NPackets /\ p.length = LenOf(p.seq)
    \/ p.kind = "END" /\ \/ Finishing /\ p.seq = winStart
                         \/ spc = "failed" /\ p.seq = 0

RequestsSound == \A k \in DOMAIN toReceiver : SoundRequest(toReceiver[k])

\* What can be on its way to the sender.
SoundAnswer(p) ==
    \/ p.kind = "START_ACK" /\ p.seq = 0
    \/ p.kind = "DATA_ACK" /\ ~NotConnected /\ p.seq <= NPackets
    \/ p.kind = "END_ACK" /\ (Finishing \/ spc = "failed")

AnswersSound == \A k \in DOMAIN toSender : SoundAnswer(toSender[k])

\* Only packets of the message are sent, and END after the window left it.
SenderSound ==
    /\ winStart <= NPackets + MaxWindow
    /\ spc = "send" => next < NPackets
    /\ Finishing => winStart >= NPackets

\* A slot of ack_record that is set belongs to one packet of this chunk, whose
\* length and bytes are where the writing loop will look for them.
SlotsSound ==
    \A s \in base..(base + MaxWindow - 1) :
        rec[s % MaxWindow] # 0 =>
            /\ s < base + TotalPacket /\ s < NPackets
            /\ rec[s % MaxWindow] = LenOf(s)
            /\ buf[s - base] = s

\* Everything of this chunk before the next expected number is there.
ChunkFilled ==
    /\ base <= seq /\ seq <= base + TotalPacket
    /\ ~NotConnected =>
         \A i \in base..(seq - 1) : i < NPackets => rec[i % MaxWindow] = LenOf(i)

\* A chunk counted as empty is empty (rtp_recvfrom's 0 ends the receiver).
EmptyChunk == total = 0 => \A s \in 0..MaxWindow-1 : rec[s] = 0

\* The receiver ends only because of END.
DoneAfterEnd ==
    /\ rpc = "done" => Finishing \/ spc = "failed"
    /\ rpc \in {"listen", "failed"} => NotConnected /\ toSender = <<>>

\* Only an END whose number is the expected one takes that past the message;
\* an END that came before its turn is within the chunk.
EndSound ==
    /\ rpc # "done" /\ endSeq = MaxPacket => seq <= NPackets
    /\ endSeq # MaxPacket =>
         \/ spc = "failed" /\ endSeq = 0 /\ seq = 1
         \/ /\ Finishing /\ NPackets <= endSeq /\ endSeq < base + TotalPacket
            /\ seq <= NPackets \/ (endSeq = NPackets /\ seq = NPackets + 1)

\* Without a connection nothing is recorded; at most END has arrived.
UnconnectedSound ==
    NotConnected =>
        /\ winStart = 0 /\ base = 0 /\ total = 0 /\ rpc # "write"
        /\ endSeq = MaxPacket => seq = 0

IInv == /\ RtpTypeOK /\ StartOnce /\ RequestsSound /\ AnswersSound /\ SenderSound
        /\ SlotsSound /\ ChunkFilled /\ EmptyChunk /\ DoneAfterEnd /\ EndSound
        /\ UnconnectedSound

-----------------------------------------------------------------------------
(* What a step of either program may do, with the sender's choice of what  *)
(* to send, the ACK's number and its effect on the window left open.       *)

SendsOrSkips ==
    /\ spc = "send"
    /\ toReceiver' \in {toReceiver, Put(toReceiver, DataPacket(next))}
    /\ next' = next + 1
    /\ spc' = IF next + 1 < WinEnd THEN "send" ELSE "collect"
    /\ UNCHANGED <<winStart, receiverVars, toSender>>

MovesWindow ==
    /\ spc = "collect"
    /\ \E s \in AckNumbers :
         /\ GetsAck(s)
         /\ \/ winStart' \in {s, winStart}
            \/ s = winStart /\ winStart' \in winStart..(winStart + MaxWindow)
    /\ UNCHANGED <<spc, next, receiverVars, toReceiver>>

AcceptsPacket ==
    /\ Receiving
    /\ \E k \in Deliverable(toReceiver) :
        LET p == toReceiver[k] IN
        /\ p.kind # "END" /\ InWindow(p)
        /\ AdvanceSeq(p)
        /\ IfNewCount(p)
        /\ Record(p) \/ (rec[p.seq % MaxWindow] # 0 /\ UNCHANGED <<rec, buf>>)
        /\ \E n \in {p.seq, seq'} : toSender' = Put(toSender, StatusPacket("DATA_ACK", n))
        /\ toReceiver' = Without(toReceiver, k)
    /\ UNCHANGED <<senderVars, rpc, base, endSeq, writeVars>>

SenderStep == SendStart \/ StartAcked \/ StartNotAcked \/ SendsOrSkips \/ MovesWindow
              \/ EndRound \/ FinishSending

ReceiverStep == ListenAccept \/ ListenRefuse \/ DropPacket \/ AcceptEnd \/ AcceptsPacket
                \/ ReturnChunk \/ WriteOne \/ NextChunk

EitherStep == SenderStep \/ ReceiverStep \/ NetworkFault

EitherProgram == RtpInit /\ [][EitherStep]_rtpVars

-----------------------------------------------------------------------------
(* What the chunk's bytes and the file add to it. *)

\* The packets of this chunk that ack_record holds, and the bytes in a set of them.
Recorded == {i \in base..(base + TotalPacket - 1) : rec[i % MaxWindow] # 0}
BytesIn(S) == PacketSize * Cardinality(S \ {NPackets - 1})
                + (IF NPackets - 1 \in S THEN LenOf(NPackets - 1) ELSE 0)

\* The bytes of the message before packet i, and the packets before it that have any.
BytesBefore(i) == IF i >= NPackets THEN MsgLen ELSE PacketSize * i
PiecesBefore(i) == IF i <= Len(Message) THEN i ELSE Len(Message)

\* rtp_recvfrom's total_len is the bytes of the packets it recorded.
TotalSound == total = BytesIn(Recorded)

\* The writing loop's counters agree on how far it got, and a chunk that END
\* completed reaches the end of the message.
WriteSound ==
    rpc = "write" =>
        /\ base <= wpos /\ wpos <= seq
        /\ wrote = BytesBefore(wpos) - BytesBefore(base)
        /\ total = BytesBefore(seq) - BytesBefore(base)
        /\ endSeq # MaxPacket => seq >= NPackets

\* The file is the message up to the chunk, or up to where the writing loop is.
FileSound ==
    /\ FileIsPrefix
    /\ Len(file) = PiecesBefore(IF rpc = "write" THEN wpos ELSE base)

\* A connected receiver that ended had everything.
DoneWhole == rpc = "done" /\ ~NotConnected => base >= Len(Message)

\* The counters by which the receiver tells what to write agree with what it
\* holds, and the file is the message up to there.
FileInv == IInv /\ TotalSound /\ WriteSound /\ FileSound /\ DoneWhole

-----------------------------------------------------------------------------
(* What the transfer promises to its user. *)
Transfer == INSTANCE FileTransfer
              WITH output <- file, closed <- rpc \in {"done", "failed"}

\* Whatever the datagrams met, the file grows by the message's pieces in order,
\* once each, and the receiver stops with all of it or with nothing.
ImplementsTransfer == Transfer!Spec
=============================================================================
