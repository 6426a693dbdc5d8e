---------------------------- MODULE RtpSrProofs ----------------------------
(***************************************************************************)
(* What the proofs about either program say of the selective-repeat one:   *)
(* its ack_record decides what is sent again and how far the window        *)
(* slides, and none of that reaches the file.  And, when a round ends with *)
(* nothing in flight, ack_record tells the truth.                          *)
(***************************************************************************)
EXTENDS RtpSrInv, RtpSafety

-----------------------------------------------------------------------------
(* Every step of the program is one that either program may do. *)

\* However far the recorded ACKs let the window slide, it is by MaxWindow at most.
LEMMA AckMovesWindow == CollectAck => MovesWindow
<1>1. SUFFICES ASSUME CollectAck PROVE MovesWindow
  OBVIOUS
<1>2. PICK s \in AckNumbers : GetsAck(s) /\ RecordAck(s)
  BY <1>1 DEF CollectAck
<1>3. \/ winStart' = winStart
      \/ s = winStart /\ winStart' \in winStart..(winStart + MaxWindow)
  BY <1>2 DEF RecordAck
<1> QED BY <1>1, <1>2, <1>3 DEF CollectAck, MovesWindow

LEMMA SrStep == [Next]_vars => [EitherStep]_rtpVars
<1>1. SendOrSkip => SendsOrSkips
  BY DEF SendOrSkip, SendsOrSkips
<1>2. AcceptData => AcceptsPacket
  BY DEF AcceptData, AcceptsPacket
<1>3. Sender => SenderStep
  BY <1>1, AckMovesWindow
     DEF Sender, SenderStep, SrSendStart, SrStartAcked, SrStartNotAcked, SrEndRound,
         SrFinishSending
<1>4. Receiver => ReceiverStep
  BY <1>2
     DEF Receiver, ReceiverStep, SrListenAccept, SrListenRefuse, SrDropPacket, SrAcceptEnd,
         SrReturnChunk, SrWriteOne, SrNextChunk
<1> QED BY <1>3, <1>4 DEF Next, EitherStep, vars

LEMMA SrIsEither == Spec => EitherProgram
<1>1. Init => RtpInit
  BY DEF Init
<1> QED BY <1>1, SrStep, PTL DEF Spec, EitherProgram

-----------------------------------------------------------------------------
(* Types *)

\* Sliding over the window clears slots and fills none.
LEMMA ClearSlotsType ==
    ASSUME NEW record \in [0..MaxWindow-1 -> {0, 1}], NEW t
    PROVE  ClearSlots(record, t) \in [0..MaxWindow-1 -> {0, 1}]
BY DEF ClearSlots

\* Every variable keeps its type; ack_record of the sender holds only 0 and 1.
THEOREM TypeCorrect == Spec => []TypeOK
<1>1. Init => TypeOK
  BY InitTypeOK DEF Init, TypeOK
<1>2. TypeOK /\ [Next]_vars => TypeOK'
  <2>1. SUFFICES ASSUME TypeOK, [Next]_vars PROVE TypeOK'
    OBVIOUS
  <2>2. RtpTypeOK'
    BY <2>1, SrStep, StepTypeOK DEF TypeOK
  <2>3. CASE CollectAck
    <3>1. PICK s \in AckNumbers : RecordAck(s)
      BY <2>3 DEF CollectAck
    <3> DEFINE marked == [ackRecord EXCEPT ![s % MaxWindow] = 1]
    <3>2. marked \in [0..MaxWindow-1 -> {0, 1}]
      BY <2>1 DEF TypeOK
    <3>3. ackRecord' = marked \/ ackRecord' = ClearSlots(marked, winStart')
      BY <3>1 DEF RecordAck
    <3> HIDE DEF marked
    <3> QED BY <2>2, <3>2, <3>3, ClearSlotsType DEF TypeOK
  <2>4. ASSUME ~CollectAck PROVE UNCHANGED ackRecord
    BY <2>1, <2>4
       DEF Next, Sender, Receiver, SrSendStart, SrStartAcked, SrStartNotAcked, SendOrSkip,
           SrEndRound, SrFinishSending, SrListenAccept, SrListenRefuse, SrDropPacket,
           SrAcceptEnd, AcceptData, SrReturnChunk, SrWriteOne, SrNextChunk, vars
  <2> QED BY <2>1, <2>2, <2>3, <2>4 DEF TypeOK
<1> QED BY <1>1, <1>2, PTL DEF Spec

-----------------------------------------------------------------------------
(* The file *)

\* The counters by which the receiver tells what to write agree with what it
\* holds, and the file is the message up to there, whatever the sender skips.
THEOREM FileInvariantHolds ==
    ASSUME CleanStack, StartNotDuplicated
    PROVE  Spec => []FileInv
BY SrIsEither, EitherKeepsFile, PTL

\* Whatever order, repetition, loss or corruption the packets and their
\* selective ACKs met, the file is a prefix of the message.
THEOREM FileIsAlwaysPrefix ==
    ASSUME CleanStack, StartNotDuplicated
    PROVE  Spec => []FileIsPrefix
<1>1. FileInv => FileIsPrefix
  BY FileInvGives
<1> QED BY <1>1, FileInvariantHolds, PTL

\* The receiver ends with the whole message, or with nothing when the sender
\* gave up connecting: an ACK that makes the sender skip a packet it should
\* have sent stops the transfer and never truncates the file.
THEOREM DoneMeansWhole ==
    ASSUME CleanStack, StartNotDuplicated
    PROVE  Spec => []WholeFileOrNone
<1>1. FileInv => WholeFileOrNone
  BY FileInvGives
<1> QED BY <1>1, FileInvariantHolds, PTL

\* The selective-repeat transfer, too, does what FileTransfer promises.
THEOREM TransferImplemented ==
    ASSUME CleanStack, StartNotDuplicated
    PROVE  Spec => ImplementsTransfer
BY SrIsEither, EitherImplementsTransfer, PTL

-----------------------------------------------------------------------------
(* Channels from which at most one datagram was taken. *)

Fewer(ch, ch2) == ch2 = ch \/ \E k \in DOMAIN ch : ch2 = Without(ch, k)

LEMMA FewerElements ==
    ASSUME NEW ch \in Seq(Packet), NEW ch2, Fewer(ch, ch2)
    PROVE  /\ \A j \in DOMAIN ch2 : \E i \in DOMAIN ch : ch2[j] = ch[i]
           /\ Distinct(ch) => Distinct(ch2)
           /\ Len(ch2) \in Nat /\ Len(ch2) <= Len(ch) /\ (ch = <<>> => ch2 = <<>>)
<1>1. ASSUME NEW k \in DOMAIN ch, ch2 = Without(ch, k)
      PROVE  /\ \A j \in DOMAIN ch2 : \E i \in DOMAIN ch : ch2[j] = ch[i]
             /\ Distinct(ch) => Distinct(ch2)
             /\ Len(ch2) \in Nat /\ Len(ch2) <= Len(ch) /\ ch # <<>>
  <2>1. /\ Len(ch2) = Len(ch) - 1
        /\ ch2 \in Seq(Packet)
        /\ \A j \in DOMAIN ch2 : /\ j \in DOMAIN ch /\ j + 1 \in DOMAIN ch
                                 /\ ch2[j] = IF j < k THEN ch[j] ELSE ch[j + 1]
    BY <1>1, WithoutElements
  <2>2. DOMAIN ch2 \subseteq Nat /\ DOMAIN ch \subseteq Nat /\ Len(ch) \in Nat
    BY <2>1, LenProperties
  <2>3. Distinct(ch) => Distinct(ch2)
    <3>1. SUFFICES ASSUME Distinct(ch), NEW i \in DOMAIN ch2, NEW j \in DOMAIN ch2,
                          ch2[i].seq = ch2[j].seq
                   PROVE  i = j
      BY DEF Distinct
    <3>2. (IF i < k THEN i ELSE i + 1) = (IF j < k THEN j ELSE j + 1)
      BY <2>1, <3>1 DEF Distinct
    <3> QED BY <1>1, <2>2, <3>2
  <2> QED BY <1>1, <2>1, <2>2, <2>3
<1>2. CASE ch2 = ch
  BY <1>2, LenProperties
<1> QED BY <1>1, <1>2 DEF Fewer

LEMMA TakenIsGone ==
    ASSUME NEW ch \in Seq(Packet), NEW k \in DOMAIN ch, Distinct(ch)
    PROVE  \A j \in DOMAIN Without(ch, k) : Without(ch, k)[j].seq # ch[k].seq
<1>1. \A j \in DOMAIN Without(ch, k) :
        /\ j \in DOMAIN ch /\ j + 1 \in DOMAIN ch
        /\ Without(ch, k)[j] = IF j < k THEN ch[j] ELSE ch[j + 1]
  BY WithoutElements
<1>2. DOMAIN ch \subseteq Nat
  BY LenProperties
<1> QED BY <1>1, <1>2 DEF Distinct

-----------------------------------------------------------------------------
(* What the receiver has it keeps. *)

LEMMA GotStays ==
    ASSUME FileInv, IInv', ChunkOver, ReceiverStep \/ NetworkFault \/ SenderStep,
           NEW i \in 0..NPackets-1, Got(i)
    PROVE  Got(i)'
<1>1. /\ IInv /\ RtpTypeOK /\ WriteSound /\ i \in Nat /\ i < NPackets
      /\ base \in Nat /\ seq \in Nat /\ endSeq \in Nat /\ seq' \in Nat
      /\ NPackets \in Nat /\ TotalPacket \in Nat /\ MaxWindow \in Nat /\ MaxWindow > TotalPacket
  <2>1. IInv /\ RtpTypeOK /\ WriteSound /\ RtpTypeOK'
    BY DEF FileInv, IInv
  <2>2. seq' \in Nat
    BY <2>1 DEF RtpTypeOK
  <2> QED BY <2>1, <2>2, Numbers
<1>2. CASE AcceptsPacket
  <2>1. PICK k \in Deliverable(toReceiver), n \in Nat :
          /\ AdvanceSeq(toReceiver[k])
          /\ rec'[n % MaxWindow] = LenOf(n)
          /\ \A s \in base..(base + MaxWindow - 1) :
               s # n => rec'[s % MaxWindow] = rec[s % MaxWindow]
    BY <1>1, <1>2, AcceptsPacketEffect, Zenon
  <2>2. seq' >= seq /\ base' = base
    BY <1>1, <1>2, <2>1, AdvanceSeqType DEF AcceptsPacket
  <2>3. CASE i < seq
    BY <1>1, <2>2, <2>3 DEF Got
  <2>4. CASE base <= i /\ i < base + TotalPacket /\ rec[i % MaxWindow] = LenOf(i)
    <3>1. i \in base..(base + MaxWindow - 1)
      BY <1>1, <2>4
    <3>2. rec'[i % MaxWindow] = LenOf(i)
      BY <2>1, <2>4, <3>1
    <3> QED BY <2>2, <2>4, <3>2 DEF Got
  <2> QED BY <2>3, <2>4 DEF Got
<1>3. CASE AcceptEnd
  <2>1. seq' >= seq /\ UNCHANGED <<base, rec>>
    BY <1>1, <1>3, AdvanceSeqType DEF AcceptEnd
  <2> QED BY <1>1, <2>1 DEF Got
<1>4. CASE NextChunk
  <2>1. rpc = "write" /\ seq' = seq
    BY <1>4 DEF NextChunk
  <2>2. endSeq # MaxPacket => seq >= NPackets
    BY <1>1, <2>1 DEF WriteSound
  <2>3. i < seq
    BY <1>1, <2>1, <2>2 DEF Got, ChunkOver
  <2> QED BY <2>1, <2>3 DEF Got
<1>5. ASSUME ~AcceptsPacket, ~AcceptEnd, ~NextChunk PROVE UNCHANGED <<base, seq, rec>>
  BY <1>5 DEF ReceiverStep, SenderStep, SendStart, StartAcked, StartNotAcked, SendsOrSkips,
              MovesWindow, EndRound, FinishSending, ListenAccept, ListenRefuse, DropPacket,
              ReturnChunk, WriteOne, NetworkFault, receiverVars, readVars
<1> QED BY <1>2, <1>3, <1>4, <1>5 DEF Got

LEMMA GotIsHeld ==
    ASSUME FileInv, ~NotConnected, NEW i \in 0..NPackets-1, Got(i)
    PROVE  Held(i)
<1>1. /\ RtpTypeOK /\ SlotsSound /\ i \in Int /\ base \in Nat
      /\ TotalPacket \in Nat /\ MaxWindow \in Nat /\ MaxWindow > TotalPacket
  BY Numbers DEF FileInv, IInv
<1>2. CASE i < seq
  BY <1>2, ReceivedIsHeld
<1>3. CASE base <= i /\ i < base + TotalPacket /\ rec[i % MaxWindow] = LenOf(i)
  <2>1. i - base \in 0..TotalPacket-1 /\ i <= base + MaxWindow - 1
    BY <1>1, <1>3
  <2>2. ASSUME LenOf(i) > 0 PROVE i - base \in DOMAIN buf /\ buf[i - base] = i
    <3>1. rec[i % MaxWindow] # 0
      BY <1>3, <2>2
    <3>2. buf[i - base] = i
      BY <1>1, <1>3, <2>1, <3>1, SlotFacts, Zenon
    <3>3. DOMAIN buf = 0..TotalPacket-1
      BY <1>1 DEF RtpTypeOK
    <3> QED BY <2>1, <3>2, <3>3
  <2> QED BY <1>3, <2>2 DEF Held
<1> QED BY <1>2, <1>3 DEF Got

-----------------------------------------------------------------------------
(* The steps of the receiver and the network, which leave the sender alone. *)

LEMMA AnswerType ==
    ASSUME TypeOK
    PROVE  \A k \in DOMAIN toSender : toSender[k] \in Packet /\ toSender[k].seq \in Nat
<1>1. \A k \in DOMAIN toSender : toSender[k] \in Packet
  BY ElementOfSeq, LenProperties DEF TypeOK, RtpTypeOK
<1> QED BY <1>1 DEF Packet

LEMMA RequestType ==
    ASSUME TypeOK
    PROVE  \A k \in DOMAIN toReceiver : toReceiver[k].seq \in Nat
<1>1. \A k \in DOMAIN toReceiver : toReceiver[k] \in Packet
  BY ElementOfSeq, LenProperties DEF TypeOK, RtpTypeOK
<1> QED BY <1>1 DEF Packet

\* A datagram or an answer less makes no difference.
LEMMA ChannelsShrink ==
    ASSUME TypeOK, AcksInv, UNCHANGED <<senderVars, ackRecord>>,
           Fewer(toReceiver, toReceiver'), Fewer(toSender, toSender'),
           \A i \in 0..NPackets-1 : Got(i) => Got(i)'
    PROVE  AcksInv'
<1>1. UNCHANGED <<spc, winStart, next, ackRecord>>
  BY DEF senderVars
<1>2. /\ \A j \in DOMAIN toReceiver' : \E i \in DOMAIN toReceiver : toReceiver'[j] = toReceiver[i]
      /\ Distinct(toReceiver) => Distinct(toReceiver')
      /\ Len(toReceiver') \in Nat /\ Len(toReceiver') <= Len(toReceiver)
      /\ toReceiver = <<>> => toReceiver' = <<>>
  BY FewerElements DEF TypeOK, RtpTypeOK
<1>3. /\ \A j \in DOMAIN toSender' : \E i \in DOMAIN toSender : toSender'[j] = toSender[i]
      /\ Distinct(toSender) => Distinct(toSender')
      /\ Len(toSender') \in Nat /\ Len(toSender') <= Len(toSender)
      /\ toSender = <<>> => toSender' = <<>>
  BY FewerElements DEF TypeOK, RtpTypeOK
<1>4. AckedGot' /\ MarksInWindow' /\ NextInWindow'
  BY <1>1 DEF AcksInv, AckedGot, TakenAsAcked, MarksInWindow, NotConnected, Window, NextInWindow
<1>5. AnswersGot'
  <2>1. \A k \in DOMAIN toSender : toSender[k].seq \in Nat
    BY AnswerType
  <2>2. NPackets \in Nat
    BY MessageNumbers
  <2> QED BY <1>3, <2>1, <2>2 DEF AcksInv, AnswersGot
<1>6. OneHandshake'
  <2>1. SUFFICES ASSUME spc = "await_start"
                 PROVE  \/ toReceiver' = <<>> /\ Len(toSender') <= 1
                        \/ toSender' = <<>> /\ Len(toReceiver') <= 1
    BY <1>1 DEF OneHandshake
  <2>2. Len(toReceiver) \in Nat /\ Len(toSender) \in Nat
    BY LenProperties DEF TypeOK, RtpTypeOK
  <2> QED BY <1>2, <1>3, <2>1, <2>2 DEF AcksInv, OneHandshake
<1>7. FlightSound'
  BY <1>1, <1>2, <1>3 DEF AcksInv, FlightSound, Transferring, Open, Window
<1>8. NoneTwice'
  BY <1>1, <1>2, <1>3 DEF AcksInv, NoneTwice, Transferring
<1> QED BY <1>4, <1>5, <1>6, <1>7, <1>8 DEF AcksInv

\* An answer more makes none unless it is of a packet of a round.
LEMMA AnswerAdded ==
    ASSUME TypeOK, AnswersGot, NEW p \in Packet, toSender' = Put(toSender, p),
           p.kind = "DATA_ACK" => p.seq < NPackets /\ Got(p.seq)',
           \A i \in 0..NPackets-1 : Got(i) => Got(i)'
    PROVE  AnswersGot'
<1>1. \A j \in DOMAIN toSender' :
        \/ j \in DOMAIN toSender /\ toSender'[j] = toSender[j]
        \/ toSender'[j] = p
  BY PutElements DEF TypeOK, RtpTypeOK
<1>2. \A k \in DOMAIN toSender : toSender[k].seq \in Nat
  BY AnswerType
<1>3. NPackets \in Nat
  BY MessageNumbers
<1> QED BY <1>1, <1>2, <1>3 DEF AnswersGot

LEMMA ListenAcceptAcks ==
    ASSUME TypeOK, FileInv, AcksInv, ListenAccept, UNCHANGED ackRecord,
           \A i \in 0..NPackets-1 : Got(i) => Got(i)'
    PROVE  AcksInv'
<1>1. PICK k \in Deliverable(toReceiver) :
        /\ toReceiver' = Without(toReceiver, k)
        /\ toSender' = Put(toSender, StatusPacket("START_ACK", toReceiver[k].seq))
  BY DEF ListenAccept
<1>2. /\ rpc = "listen" /\ UNCHANGED <<spc, winStart, next, ackRecord>>
      /\ NotConnected /\ toSender = <<>>
  BY DEF ListenAccept, senderVars, FileInv, IInv, DoneAfterEnd
<1>3. /\ toReceiver \in Seq(Packet) /\ k \in DOMAIN toReceiver
      /\ StatusPacket("START_ACK", toReceiver[k].seq) \in Packet
  <2>1. toReceiver \in Seq(Packet)
    BY DEF TypeOK, RtpTypeOK
  <2> QED BY <2>1, ReceivedType, PacketTypes
<1>4. AckedGot' /\ MarksInWindow' /\ NextInWindow'
  BY <1>2 DEF AcksInv, AckedGot, TakenAsAcked, MarksInWindow, NotConnected, Window, NextInWindow
<1>5. AnswersGot'
  BY <1>1, <1>3, AnswerAdded DEF AcksInv, StatusPacket
<1>6. OneHandshake'
  <2>1. SUFFICES ASSUME spc = "await_start" PROVE toReceiver' = <<>> /\ Len(toSender') <= 1
    BY <1>2 DEF OneHandshake
  <2>2. Len(toReceiver) = 1
    <3>1. toReceiver # <<>> /\ Len(toReceiver) \in Nat /\ DOMAIN toReceiver = 1..Len(toReceiver)
      BY <1>3, LenProperties
    <3>2. Len(toReceiver) <= 1
      BY <2>1, <3>1 DEF AcksInv, OneHandshake
    <3> QED BY <1>3, <3>1, <3>2
  <2>3. toReceiver' = <<>>
    BY <1>1, <1>3, <2>2, WithoutElements, EmptySeq
  <2>4. Len(toSender') <= 1
    BY <1>1, <1>2, RtpAssumption DEF Put
  <2> QED BY <2>3, <2>4
<1>7. FlightSound' /\ NoneTwice'
  BY <1>2 DEF FlightSound, NoneTwice, Transferring, NotConnected
<1> QED BY <1>4, <1>5, <1>6, <1>7 DEF AcksInv

LEMMA AcceptEndAcks ==
    ASSUME TypeOK, FileInv, AcksInv, AcceptEnd, UNCHANGED ackRecord,
           \A i \in 0..NPackets-1 : Got(i) => Got(i)'
    PROVE  AcksInv'
<1>1. PICK k \in Deliverable(toReceiver) :
        /\ toReceiver[k].kind = "END"
        /\ toSender' = Put(toSender, StatusPacket("END_ACK", toReceiver[k].seq))
  BY DEF AcceptEnd
<1>2. UNCHANGED <<spc, winStart, next, ackRecord>>
  BY DEF AcceptEnd, senderVars
<1>3. /\ k \in DOMAIN toReceiver
      /\ StatusPacket("END_ACK", toReceiver[k].seq) \in Packet
  <2>1. toReceiver \in Seq(Packet)
    BY DEF TypeOK, RtpTypeOK
  <2> QED BY <2>1, ReceivedType, PacketTypes
<1>4. Finishing \/ spc = "failed"
  BY <1>1, <1>3 DEF FileInv, IInv, RequestsSound, SoundRequest
<1>5. AckedGot' /\ MarksInWindow' /\ NextInWindow'
  BY <1>2 DEF AcksInv, AckedGot, TakenAsAcked, MarksInWindow, NotConnected, Window, NextInWindow
<1>6. AnswersGot'
  BY <1>1, <1>3, AnswerAdded DEF AcksInv, StatusPacket
<1>7. OneHandshake' /\ FlightSound' /\ NoneTwice'
  BY <1>2, <1>4 DEF OneHandshake, FlightSound, NoneTwice, Transferring, Finishing
<1> QED BY <1>5, <1>6, <1>7 DEF AcksInv

\* A packet in flight becomes its ACK in flight.
LEMMA AcceptDataAcks ==
    ASSUME TypeOK, FileInv, IInv', AcksInv, AcceptData,
           \A i \in 0..NPackets-1 : Got(i) => Got(i)'
    PROVE  AcksInv'
<1>1. PICK k \in Deliverable(toReceiver) :
        /\ toReceiver[k].kind # "END" /\ InWindow(toReceiver[k])
        /\ IF rec[toReceiver[k].seq % MaxWindow] = 0 THEN Record(toReceiver[k])
           ELSE UNCHANGED <<rec, buf>>
        /\ toSender' = Put(toSender, StatusPacket("DATA_ACK", toReceiver[k].seq))
        /\ toReceiver' = Without(toReceiver, k)
  BY DEF AcceptData
<1>a. PICK num \in Nat : num = toReceiver[k].seq
  <2>1. toReceiver \in Seq(Packet)
    BY DEF TypeOK, RtpTypeOK
  <2> QED BY <2>1, ReceivedType
<1> DEFINE p == toReceiver[k]
           ack == StatusPacket("DATA_ACK", num)
<1>2. /\ UNCHANGED <<spc, winStart, next, ackRecord, base>> /\ rpc = "recv"
  BY DEF AcceptData, Receiving, senderVars
<1>3. /\ RtpTypeOK /\ toReceiver \in Seq(Packet) /\ k \in DOMAIN toReceiver
      /\ p \in Packet /\ num \in Nat /\ p.seq = num /\ ack \in Packet
      /\ ack.kind = "DATA_ACK" /\ ack.seq = num
  <2>1. RtpTypeOK /\ toReceiver \in Seq(Packet)
    BY DEF TypeOK, RtpTypeOK
  <2> QED BY <1>a, <2>1, ReceivedType, PacketTypes DEF StatusPacket
<1>4. ~NotConnected /\ num < NPackets /\ p.length = LenOf(num)
  <2>1. p.kind # "START"
    BY <1>2, <1>3 DEF FileInv, IInv, StartOnce
  <2>2. SoundRequest(p)
    BY <1>3 DEF FileInv, IInv, RequestsSound
  <2> QED BY <1>1, <1>3, <2>1, <2>2 DEF SoundRequest
<1>5. base <= num /\ num < base + TotalPacket /\ num <= base + MaxWindow - 1
  <2>1. base <= num /\ num < base + TotalPacket
    BY <1>1, <1>3, Numbers DEF InWindow, FileInv, IInv, ChunkFilled
  <2>2. /\ num \in Nat /\ base \in Nat /\ TotalPacket \in Nat
        /\ MaxWindow \in Nat /\ MaxWindow > TotalPacket
    BY <1>3, Numbers
  <2> HIDE DEF p, ack
  <2> QED BY <2>1, <2>2
<1>6. rec'[num % MaxWindow] = LenOf(num)
  <2>1. CASE rec[num % MaxWindow] = 0
    <3>1. rec' = [rec EXCEPT ![num % MaxWindow] = LenOf(num)]
      BY <1>1, <1>3, <1>4, <2>1 DEF Record
    <3> QED BY <1>3, <3>1, SlotInRecord DEF RtpTypeOK
  <2>2. CASE rec[num % MaxWindow] # 0
    <3>1. num \in Int
      BY <1>3
    <3>2. rec[num % MaxWindow] = LenOf(num)
      BY <1>3, <1>5, <2>2, <3>1, SlotFacts, Zenon DEF FileInv, IInv
    <3> QED BY <1>1, <1>3, <2>2, <3>2
  <2> QED BY <2>1, <2>2
<1>7. Got(num)'
  BY <1>2, <1>5, <1>6 DEF Got
<1>8. AckedGot' /\ MarksInWindow' /\ NextInWindow' /\ OneHandshake'
  BY <1>2, <1>4 DEF AcksInv, AckedGot, TakenAsAcked, MarksInWindow, NotConnected, Window,
                    NextInWindow, OneHandshake
<1>9. AnswersGot'
  BY <1>1, <1>3, <1>4, <1>7, AnswerAdded DEF AcksInv
<1>10. ASSUME Transferring PROVE FlightSound' /\ NoneTwice'
  <2>1. Fewer(toReceiver, toReceiver')
    BY <1>1, <1>3 DEF Fewer
  <2>2. /\ \A j \in DOMAIN toReceiver' : \E i \in DOMAIN toReceiver : toReceiver'[j] = toReceiver[i]
        /\ Distinct(toReceiver')
        /\ \A j \in DOMAIN toReceiver' : toReceiver'[j].seq # num
    BY <1>1, <1>3, <1>10, <2>1, FewerElements, TakenIsGone DEF AcksInv, NoneTwice
  <2>3. \A j \in DOMAIN toSender' :
          \/ j \in DOMAIN toSender /\ toSender'[j] = toSender[j]
          \/ j = Len(toSender) + 1 /\ toSender'[j] = ack
    BY <1>1, <1>3, PutElements DEF RtpTypeOK
  <2>4. Open(p) /\ \A j \in DOMAIN toSender : toSender[j].seq # num
    BY <1>3, <1>10 DEF AcksInv, FlightSound, NoneTwice
  <2>5. Open(ack)
    BY <1>3, <2>4 DEF Open
  <2> HIDE DEF p, ack
  <2>6. FlightSound'
    BY <1>2, <1>3, <1>10, <2>2, <2>3, <2>5
       DEF AcksInv, FlightSound, Transferring, Open, Window
  <2>7. Distinct(toSender')
    BY <1>3, <1>10, <2>3, <2>4 DEF AcksInv, NoneTwice, Distinct
  <2>8. \A i \in DOMAIN toReceiver', j \in DOMAIN toSender' :
           toReceiver'[i].seq # toSender'[j].seq
    BY <1>3, <1>10, <2>2, <2>3 DEF AcksInv, NoneTwice
  <2> QED BY <2>2, <2>6, <2>7, <2>8 DEF NoneTwice
<1>11. ASSUME ~Transferring PROVE FlightSound' /\ NoneTwice'
  BY <1>2, <1>11 DEF FlightSound, NoneTwice, Transferring
<1> QED BY <1>8, <1>9, <1>10, <1>11 DEF AcksInv

-----------------------------------------------------------------------------
(* The steps of the sender. *)

\* Under RoundsEndEmpty the sender reads no wrong checksum, and a timeout in a
\* round finds nothing in flight.
LEMMA QuietTimeout ==
    ASSUME TypeOK, FileInv, RoundsEndEmpty, TimesOut \/ GetsCorrupt
    PROVE  /\ toSender = <<>> /\ UNCHANGED toSender
           /\ spc = "collect" => toReceiver = <<>>
<1>1. ~GetsCorrupt
  BY DeliverableInDomain
     DEF GetsCorrupt, MayBeCorrupt, RoundsEndEmpty, FileInv, IInv, AnswersSound, SoundAnswer,
         AckKinds
<1> QED
  BY <1>1 DEF TimesOut, RoundsEndEmpty, FileInv, IInv, DoneAfterEnd, Finishing, NotConnected

\* What the sender takes from its channel leaves fewer answers.
LEMMA SenderTakes ==
    ASSUME TimesOut \/ GetsCorrupt \/ \E s \in AckNumbers : GetsAck(s)
    PROVE  Fewer(toSender, toSender')
BY DeliverableInDomain DEF TimesOut, GetsCorrupt, GetsAck, Fewer

LEMMA AnswersFewer ==
    ASSUME TypeOK, AnswersGot, Fewer(toSender, toSender'),
           \A i \in 0..NPackets-1 : Got(i) => Got(i)'
    PROVE  AnswersGot'
<1>1. \A j \in DOMAIN toSender' : \E i \in DOMAIN toSender : toSender'[j] = toSender[i]
  BY FewerElements DEF TypeOK, RtpTypeOK
<1>2. \A k \in DOMAIN toSender : toSender[k].seq \in Nat
  BY AnswerType
<1>3. NPackets \in Nat
  BY MessageNumbers
<1> QED BY <1>1, <1>2, <1>3 DEF AnswersGot

LEMMA SendStartAcks ==
    ASSUME TypeOK, FileInv, AcksInv, SendStart, UNCHANGED ackRecord,
           \A i \in 0..NPackets-1 : Got(i) => Got(i)'
    PROVE  AcksInv'
<1>1. /\ spc = "connect" /\ spc' = "await_start" /\ toReceiver = <<>> /\ toSender = <<>>
      /\ toReceiver' = Put(toReceiver, StatusPacket("START", 0))
      /\ UNCHANGED <<winStart, next, toSender, ackRecord>>
  BY DEF SendStart, FileInv, IInv, StartOnce
<1>2. AckedGot' /\ MarksInWindow' /\ NextInWindow'
  BY <1>1 DEF AcksInv, AckedGot, TakenAsAcked, MarksInWindow, NotConnected, NextInWindow
<1>3. AnswersGot' /\ FlightSound' /\ NoneTwice'
  BY <1>1 DEF AnswersGot, FlightSound, NoneTwice, Transferring
<1>4. OneHandshake'
  BY <1>1, RtpAssumption DEF OneHandshake, Put
<1> QED BY <1>2, <1>3, <1>4 DEF AcksInv

LEMMA StartAckedAcks ==
    ASSUME TypeOK, FileInv, AcksInv, StartAcked, UNCHANGED ackRecord,
           \A i \in 0..NPackets-1 : Got(i) => Got(i)'
    PROVE  AcksInv'
<1>1. /\ spc = "await_start" /\ spc' = "send" /\ winStart' = 0 /\ next' = 0
      /\ UNCHANGED <<toReceiver, ackRecord>>
      /\ \E k \in DOMAIN toSender : toSender' = Without(toSender, k)
  BY DeliverableInDomain DEF StartAcked, GetsAck
<1>2. toReceiver' = <<>> /\ toSender' = <<>>
  <2>1. PICK k \in DOMAIN toSender : toSender' = Without(toSender, k)
    BY <1>1
  <2>2. /\ toSender \in Seq(Packet) /\ toSender # <<>> /\ Len(toSender) \in Nat
        /\ DOMAIN toSender = 1..Len(toSender)
    BY <2>1, LenProperties DEF TypeOK, RtpTypeOK
  <2>3. toReceiver = <<>> /\ Len(toSender) = 1
    BY <1>1, <2>1, <2>2 DEF AcksInv, OneHandshake
  <2> QED BY <1>1, <2>1, <2>2, <2>3, WithoutElements, EmptySeq
<1>3. NotConnected /\ winStart = 0
  BY <1>1 DEF NotConnected, FileInv, IInv, UnconnectedSound
<1>4. AckedGot' /\ MarksInWindow'
  <2>1. \A c \in 0..MaxWindow-1 : ackRecord[c] # 1
    BY <1>3 DEF AcksInv, MarksInWindow
  <2>2. \A i \in Nat : i % MaxWindow \in 0..MaxWindow-1
    BY SlotInRecord
  <2>3. NPackets \in Nat
    BY MessageNumbers
  <2> QED BY <1>1, <2>1, <2>2, <2>3 DEF AckedGot, TakenAsAcked, MarksInWindow
<1>5. NextInWindow'
  BY <1>1, RtpAssumption DEF NextInWindow, Window
<1>6. AnswersGot' /\ OneHandshake' /\ FlightSound' /\ NoneTwice'
  BY <1>1, <1>2 DEF AnswersGot, OneHandshake, FlightSound, NoneTwice, Distinct
<1> QED BY <1>4, <1>5, <1>6 DEF AcksInv

LEMMA StartNotAckedAcks ==
    ASSUME TypeOK, FileInv, AcksInv, StartNotAcked, UNCHANGED ackRecord,
           \A i \in 0..NPackets-1 : Got(i) => Got(i)'
    PROVE  AcksInv'
<1>1. /\ spc = "await_start" /\ spc' = "failed" /\ UNCHANGED <<winStart, next, ackRecord>>
      /\ TimesOut \/ GetsCorrupt
  BY DEF StartNotAcked
<1>2. AckedGot' /\ MarksInWindow' /\ NextInWindow'
  BY <1>1 DEF AcksInv, AckedGot, TakenAsAcked, MarksInWindow, NotConnected, NextInWindow
<1>3. AnswersGot'
  BY <1>1, SenderTakes, AnswersFewer DEF AcksInv
<1>4. OneHandshake' /\ FlightSound' /\ NoneTwice'
  BY <1>1 DEF OneHandshake, FlightSound, NoneTwice, Transferring
<1> QED BY <1>2, <1>3, <1>4 DEF AcksInv

LEMMA EndRoundAcks ==
    ASSUME TypeOK, FileInv, AcksInv, RoundsEndEmpty, EndRound, UNCHANGED ackRecord,
           \A i \in 0..NPackets-1 : Got(i) => Got(i)'
    PROVE  AcksInv'
<1>1. /\ spc = "collect" /\ UNCHANGED <<winStart, ackRecord>>
      /\ \/ spc' = "send" /\ next' = winStart /\ UNCHANGED toReceiver
         \/ spc' = "await_end"
      /\ TimesOut \/ GetsCorrupt
  BY DEF EndRound, RestartWindow
<1>2. toSender' = <<>> /\ toReceiver = <<>>
  BY <1>1, QuietTimeout
<1>3. AckedGot' /\ MarksInWindow'
  BY <1>1 DEF AcksInv, AckedGot, TakenAsAcked, MarksInWindow, NotConnected, Window
<1>4. NextInWindow'
  <2>1. winStart \in Nat
    BY DEF TypeOK, RtpTypeOK
  <2> QED BY <1>1, <2>1, RtpAssumption DEF NextInWindow, Window
<1>5. AnswersGot' /\ OneHandshake' /\ FlightSound' /\ NoneTwice'
  BY <1>1, <1>2 DEF AnswersGot, OneHandshake, FlightSound, NoneTwice, Distinct, Transferring
<1> QED BY <1>3, <1>4, <1>5 DEF AcksInv

LEMMA FinishSendingAcks ==
    ASSUME TypeOK, FileInv, AcksInv, FinishSending, UNCHANGED ackRecord,
           \A i \in 0..NPackets-1 : Got(i) => Got(i)'
    PROVE  AcksInv'
<1>1. /\ spc = "await_end" /\ spc' = "done" /\ UNCHANGED <<winStart, next, ackRecord>>
      /\ TimesOut \/ GetsCorrupt \/ \E s \in AckNumbers : GetsAck(s)
  BY DEF FinishSending
<1>2. AckedGot' /\ MarksInWindow' /\ NextInWindow'
  BY <1>1 DEF AcksInv, AckedGot, TakenAsAcked, MarksInWindow, NotConnected, Window, NextInWindow
<1>3. AnswersGot'
  BY <1>1, SenderTakes, AnswersFewer DEF AcksInv
<1>4. OneHandshake' /\ FlightSound' /\ NoneTwice'
  BY <1>1 DEF OneHandshake, FlightSound, NoneTwice, Transferring
<1> QED BY <1>2, <1>3, <1>4 DEF AcksInv

\* A packet that is not marked is sent; it was not in flight, as the round had
\* not come to it yet.
LEMMA SendOrSkipAcks ==
    ASSUME TypeOK, TypeOK', FileInv, AcksInv, SendOrSkip,
           \A i \in 0..NPackets-1 : Got(i) => Got(i)'
    PROVE  AcksInv'
<1>1. /\ spc = "send" /\ next' = next + 1 /\ spc' \in {"send", "collect"}
      /\ spc' = "send" => next + 1 < WinEnd
      /\ UNCHANGED <<winStart, toSender, ackRecord>>
      /\ \/ UNCHANGED toReceiver
         \/ /\ ackRecord[next % MaxWindow] # 1
            /\ toReceiver' = Put(toReceiver, DataPacket(next))
  BY DEF SendOrSkip
<1>2. PICK num \in Nat : num = next
  BY DEF TypeOK, RtpTypeOK
<1>3. /\ toReceiver \in Seq(Packet) /\ DataPacket(num) \in Packet /\ num \in Window
      /\ winStart \in Nat /\ SndWindow \in Nat
      /\ \A k \in DOMAIN toReceiver : toReceiver[k].seq \in Nat
      /\ \A k \in DOMAIN toSender : toSender[k].seq \in Nat
  <2>1. toReceiver \in Seq(Packet) /\ winStart \in Nat
    BY DEF TypeOK, RtpTypeOK
  <2>2. \A k \in DOMAIN toReceiver : toReceiver[k] \in Packet
    BY <2>1, ElementOfSeq, LenProperties
  <2> QED
    BY <1>1, <1>2, <2>1, <2>2, PacketTypes, AnswerType, RtpAssumption
       DEF AcksInv, NextInWindow, Packet
<1>4. AckedGot' /\ MarksInWindow'
  BY <1>1 DEF AcksInv, AckedGot, TakenAsAcked, MarksInWindow, NotConnected, Window
<1>5. NextInWindow'
  <2>1. spc' = "send" => num + 1 < winStart + SndWindow
    BY <1>1, <1>2, <1>3, MessageNumbers DEF WinEnd
  <2> QED BY <1>1, <1>2, <1>3, <2>1 DEF NextInWindow, Window
<1>6. AnswersGot' /\ OneHandshake'
  <2>1. Fewer(toSender, toSender') /\ spc' # "await_start"
    BY <1>1 DEF Fewer
  <2> QED BY <2>1, AnswersFewer DEF AcksInv, OneHandshake
<1>7. /\ FlightSound /\ NoneTwice /\ Transferring
  BY <1>1 DEF AcksInv, Transferring
<1>8. CASE UNCHANGED toReceiver
  <2>1. FlightSound'
    BY <1>1, <1>2, <1>3, <1>7, <1>8 DEF FlightSound, Transferring, Open, Window
  <2>2. NoneTwice'
    BY <1>1, <1>7, <1>8 DEF NoneTwice, Transferring
  <2> QED BY <1>4, <1>5, <1>6, <2>1, <2>2 DEF AcksInv
<1>9. CASE /\ ackRecord[num % MaxWindow] # 1
           /\ toReceiver' = Put(toReceiver, DataPacket(num))
  <2>1. \A j \in DOMAIN toReceiver' :
          \/ j \in DOMAIN toReceiver /\ toReceiver'[j] = toReceiver[j]
          \/ j = Len(toReceiver) + 1 /\ toReceiver'[j] = DataPacket(num)
    BY <1>3, <1>9, PutElements
  <2>2. DataPacket(num).kind = "DATA" /\ DataPacket(num).seq = num
    BY DEF DataPacket
  <2>3. ackRecord[num % MaxWindow] = 0
    BY <1>9, <1>2, SlotInRecord DEF TypeOK
  <2>4. /\ \A k \in DOMAIN toReceiver : toReceiver[k].seq < num
        /\ \A k \in DOMAIN toSender : toSender[k].seq < num
    BY <1>1, <1>2, <1>7 DEF FlightSound, Open
  <2>5. FlightSound'
    <3>1. ASSUME NEW j \in DOMAIN toReceiver' PROVE toReceiver'[j].kind = "DATA" /\ Open(toReceiver[j])'
      <4>1. CASE toReceiver'[j] = DataPacket(num)
        BY <1>1, <1>2, <1>3, <2>2, <2>3, <4>1 DEF Open, Window
      <4>2. CASE j \in DOMAIN toReceiver /\ toReceiver'[j] = toReceiver[j]
        BY <1>1, <1>2, <1>3, <1>7, <2>4, <4>2 DEF FlightSound, Open, Window
      <4> QED BY <2>1, <4>1, <4>2
    <3>2. ASSUME NEW j \in DOMAIN toSender' PROVE toSender'[j].kind = "DATA_ACK" /\ Open(toSender[j])'
      BY <1>1, <1>2, <1>3, <1>7, <2>4 DEF FlightSound, Open, Window
    <3> QED BY <3>1, <3>2 DEF FlightSound
  <2>6. Distinct(toReceiver')
    BY <1>3, <1>7, <2>1, <2>2, <2>4 DEF NoneTwice, Distinct
  <2>7. \A i \in DOMAIN toReceiver', j \in DOMAIN toSender' :
           toReceiver'[i].seq # toSender'[j].seq
    BY <1>1, <1>3, <1>7, <2>1, <2>2, <2>4 DEF NoneTwice
  <2>8. NoneTwice'
    BY <1>1, <1>7, <2>6, <2>7 DEF NoneTwice
  <2> QED BY <1>4, <1>5, <1>6, <2>5, <2>8 DEF AcksInv
<1> QED BY <1>1, <1>2, <1>8, <1>9

-----------------------------------------------------------------------------
(* An ACK is recorded. *)

LEMMA InInterval ==
    \A a, b, u \in Nat : a <= u /\ u < b => u \in a..(b - 1)
OBVIOUS

LEMMA WindowSlots ==
    ASSUME TypeOK, NEW x \in Nat, NEW y \in Nat,
           winStart <= x, x < winStart + MaxWindow, winStart <= y, y < winStart + MaxWindow,
           x % MaxWindow = y % MaxWindow
    PROVE  x = y
<1>1. winStart \in Nat /\ MaxWindow \in Nat
  BY Numbers DEF TypeOK
<1>2. /\ x \in winStart..(winStart + MaxWindow - 1)
      /\ y \in winStart..(winStart + MaxWindow - 1)
  BY <1>1
<1> QED BY <1>1, <1>2, SlotsDistinct, Zenon

\* What the new ack_record says of a slot, and how far the window went.
LEMMA RecordAckEffect ==
    ASSUME TypeOK, NEW s \in Nat, RecordAck(s)
    PROVE  /\ winStart' \in Nat /\ winStart <= winStart' /\ winStart' <= winStart + MaxWindow
           /\ \A u \in Nat : winStart <= u /\ u < winStart' =>
                \/ u % MaxWindow = s % MaxWindow
                \/ ackRecord[u % MaxWindow] = 1
           /\ \A c \in 0..MaxWindow-1 :
                /\ ackRecord'[c] = 1 => c = s % MaxWindow \/ ackRecord[c] = 1
                /\ ackRecord'[c] = 1 =>
                     \A u \in Nat : winStart <= u /\ u < winStart' => u % MaxWindow # c
                /\ c # s % MaxWindow /\ ackRecord[c] = 0 => ackRecord'[c] = 0
<1> DEFINE slot == s % MaxWindow
           marked == [ackRecord EXCEPT ![slot] = 1]
<1>1. /\ ackRecord \in [0..MaxWindow-1 -> {0, 1}] /\ slot \in 0..MaxWindow-1
      /\ winStart \in Nat /\ MaxWindow \in Nat
      /\ \A u \in Nat : u % MaxWindow \in 0..MaxWindow-1
  BY SlotInRecord, Numbers DEF TypeOK
<1>2. /\ marked[slot] = 1 /\ DOMAIN marked = 0..MaxWindow-1
      /\ \A c \in 0..MaxWindow-1 : c # slot => marked[c] = ackRecord[c]
  BY <1>1
<1>3. CASE s # winStart /\ ackRecord' = marked /\ UNCHANGED winStart
  BY <1>1, <1>2, <1>3
<1>4. ASSUME winStart' \in winStart..(winStart + MaxWindow),
             \A u \in winStart..(winStart' - 1) : marked[u % MaxWindow] = 1,
             ackRecord' = ClearSlots(marked, winStart')
      PROVE  /\ winStart' \in Nat /\ winStart <= winStart' /\ winStart' <= winStart + MaxWindow
             /\ \A u \in Nat : winStart <= u /\ u < winStart' => marked[u % MaxWindow] = 1
             /\ \A c \in 0..MaxWindow-1 :
                  /\ ackRecord'[c] = 1 => marked[c] = 1
                  /\ ackRecord'[c] = 1 =>
                       \A u \in Nat : winStart <= u /\ u < winStart' => u % MaxWindow # c
                  /\ marked[c] = 0 => ackRecord'[c] = 0
  <2>1. winStart' \in Nat /\ winStart <= winStart' /\ winStart' <= winStart + MaxWindow
    BY <1>1, <1>4
  <2>2. \A u \in Nat : winStart <= u /\ u < winStart' => u \in winStart..(winStart' - 1)
    <3>1. winStart \in Nat
      BY <1>1
    <3> QED BY <2>1, <3>1, InInterval, Zenon
  <2>3. \A c \in 0..MaxWindow-1 :
          ackRecord'[c] = IF \E u \in winStart..(winStart' - 1) : u % MaxWindow = c
                          THEN 0 ELSE marked[c]
    BY <1>2, <1>4, Zenon DEF ClearSlots
  <2>4. \A u \in Nat : winStart <= u /\ u < winStart' => marked[u % MaxWindow] = 1
    BY <1>4, <2>2
  <2>5. 0 # 1
    OBVIOUS
  <2> HIDE DEF marked, slot
  <2>6. ASSUME NEW c \in 0..MaxWindow-1
        PROVE  /\ ackRecord'[c] = 1 => marked[c] = 1
               /\ ackRecord'[c] = 1 =>
                    \A u \in Nat : winStart <= u /\ u < winStart' => u % MaxWindow # c
               /\ marked[c] = 0 => ackRecord'[c] = 0
    <3>1. CASE \E u \in winStart..(winStart' - 1) : u % MaxWindow = c
      <4>1. ackRecord'[c] = 0
        BY <2>3, <3>1, Zenon
      <4> QED BY <2>5, <4>1
    <3>2. CASE ~\E u \in winStart..(winStart' - 1) : u % MaxWindow = c
      <4>1. ackRecord'[c] = marked[c]
        BY <2>3, <3>2, Zenon
      <4>2. \A u \in Nat : winStart <= u /\ u < winStart' => u % MaxWindow # c
        BY <2>2, <3>2, Zenon
      <4> QED BY <4>1, <4>2, Zenon
    <3> QED BY <3>1, <3>2, Zenon
  <2> QED BY <2>1, <2>4, <2>6
<1>5. \/ s # winStart /\ ackRecord' = marked /\ UNCHANGED winStart
      \/ /\ winStart' \in winStart..(winStart + MaxWindow)
         /\ \A u \in winStart..(winStart' - 1) : marked[u % MaxWindow] = 1
         /\ ackRecord' = ClearSlots(marked, winStart')
  BY DEF RecordAck
<1> HIDE DEF marked, slot
<1>6. CASE /\ winStart' \in winStart..(winStart + MaxWindow)
           /\ \A u \in winStart..(winStart' - 1) : marked[u % MaxWindow] = 1
           /\ ackRecord' = ClearSlots(marked, winStart')
  <2>1. slot = s % MaxWindow
    BY DEF slot
  <2> QED BY <1>1, <1>2, <1>4, <1>6, <2>1
<1> QED BY <1>3, <1>5, <1>6

\* The window slides over packets that are acknowledged, and no slot it leaves
\* behind or comes to stands for a packet whose ACK is on its way.
LEMMA CollectAckAcks ==
    ASSUME TypeOK, TypeOK', FileInv, AcksInv, WindowFits, CollectAck,
           \A i \in 0..NPackets-1 : Got(i) => Got(i)'
    PROVE  AcksInv'
<1>1. PICK s \in AckNumbers : GetsAck(s) /\ RecordAck(s)
  BY DEF CollectAck
<1>2. PICK k \in DOMAIN toSender : toSender[k].seq = s /\ toSender' = Without(toSender, k)
  BY <1>1, DeliverableInDomain DEF GetsAck
<1>3. /\ spc = "collect" /\ UNCHANGED <<spc, next, toReceiver>>
      /\ AckedGot /\ AnswersGot /\ MarksInWindow /\ FlightSound /\ NoneTwice /\ Transferring
  BY DEF CollectAck, AcksInv, Transferring
<1>4. /\ toSender[k].kind = "DATA_ACK" /\ Open(toSender[k]) /\ s \in Nat /\ s < NPackets /\ Got(s)
      /\ winStart \in Nat /\ SndWindow \in Nat /\ MaxWindow \in Nat /\ SndWindow <= MaxWindow
      /\ NPackets \in Nat
  BY <1>2, <1>3, AnswerType, Numbers DEF FlightSound, AnswersGot, TypeOK, WindowFits
<1>5. /\ winStart <= s /\ s < winStart + SndWindow
      /\ \A u \in Nat : u % MaxWindow \in 0..MaxWindow-1
  BY <1>2, <1>4, SlotInRecord DEF Open, Window
<1>6. /\ winStart' \in Nat /\ winStart <= winStart' /\ winStart' <= winStart + MaxWindow
      /\ \A u \in Nat : winStart <= u /\ u < winStart' =>
           \/ u % MaxWindow = s % MaxWindow
           \/ ackRecord[u % MaxWindow] = 1
      /\ \A c \in 0..MaxWindow-1 :
           /\ ackRecord'[c] = 1 => c = s % MaxWindow \/ ackRecord[c] = 1
           /\ ackRecord'[c] = 1 =>
                \A u \in Nat : winStart <= u /\ u < winStart' => u % MaxWindow # c
           /\ c # s % MaxWindow /\ ackRecord[c] = 0 => ackRecord'[c] = 0
  BY <1>1, <1>4, RecordAckEffect
\* A slot that was set, or is set now, stands for a packet the receiver has.
<1>7. ASSUME NEW c \in 0..MaxWindow-1, c = s % MaxWindow \/ ackRecord[c] = 1
      PROVE  \E v \in Nat : /\ winStart <= v /\ v < winStart + SndWindow /\ v % MaxWindow = c
                            /\ v < NPackets => Got(v)
  <2>1. CASE c = s % MaxWindow
    BY <1>4, <1>5, <2>1
  <2>2. CASE ackRecord[c] = 1
    <3>1. PICK v \in Window : v % MaxWindow = c
      BY <1>3, <2>2 DEF MarksInWindow
    <3>2. v \in Nat /\ winStart <= v /\ v < winStart + SndWindow
      BY <1>4 DEF Window
    <3>3. v < NPackets => Got(v)
      <4>1. v < NPackets => v \in 0..NPackets-1
        BY <1>4, <3>2
      <4> QED BY <1>3, <2>2, <3>1, <3>2, <4>1 DEF AckedGot, TakenAsAcked
    <3> QED BY <3>1, <3>2, <3>3
  <2> QED BY <1>7, <2>1, <2>2
<1>8. ASSUME NEW u \in Nat, winStart <= u, u < winStart'
      PROVE  u < winStart + SndWindow /\ (u < NPackets => Got(u))
  <2>1. PICK v \in Nat : /\ winStart <= v /\ v < winStart + SndWindow
                         /\ v % MaxWindow = u % MaxWindow
                         /\ v < NPackets => Got(v)
    <3>1. u % MaxWindow \in 0..MaxWindow-1
      BY <1>5
    <3> QED BY <1>6, <1>7, <1>8, <3>1
  <2>2. u < winStart + MaxWindow /\ v < winStart + MaxWindow
    BY <1>4, <1>6, <1>8, <2>1
  <2>3. u = v
    BY <1>8, <2>1, <2>2, WindowSlots
  <2> QED BY <2>1, <2>3
<1>9. winStart' <= winStart + SndWindow
  <2>1. SUFFICES ASSUME winStart' > winStart + SndWindow PROVE FALSE
    BY <1>4, <1>6
  <2>2. winStart + SndWindow \in Nat /\ winStart <= winStart + SndWindow
    BY <1>4
  <2> QED BY <1>4, <1>8, <2>1, <2>2
\* So is a slot that is set afterwards, and that packet is still in the window.
<1>10. ASSUME NEW c \in 0..MaxWindow-1, ackRecord'[c] = 1
       PROVE  \E v \in Nat : /\ winStart' <= v /\ v < winStart + SndWindow /\ v % MaxWindow = c
                             /\ v < NPackets => Got(v)
  <2>1. PICK v \in Nat : /\ winStart <= v /\ v < winStart + SndWindow /\ v % MaxWindow = c
                         /\ v < NPackets => Got(v)
    BY <1>6, <1>7, <1>10
  <2>2. ~(v < winStart')
    BY <1>6, <1>10, <2>1
  <2>3. winStart' <= v
    BY <1>6, <2>2
  <2> QED BY <2>1, <2>3
<1>11. AckedGot'
  <2>1. SUFFICES ASSUME NEW i \in 0..NPackets-1, TakenAsAcked(i)' PROVE Got(i)
    BY DEF AckedGot
  <2>2. i \in Nat /\ i < NPackets
    BY <1>4
  <2>3. CASE i < winStart
    BY <1>3, <2>3 DEF AckedGot, TakenAsAcked
  <2>4. CASE winStart <= i /\ i < winStart'
    BY <1>8, <2>2, <2>4
  <2>5. CASE winStart' <= i /\ i < winStart' + SndWindow /\ ackRecord'[i % MaxWindow] = 1
    <3>1. i % MaxWindow \in 0..MaxWindow-1
      BY <1>5, <2>2
    <3>2. PICK v \in Nat : /\ winStart' <= v /\ v < winStart + SndWindow
                           /\ v % MaxWindow = i % MaxWindow
                           /\ v < NPackets => Got(v)
      BY <1>10, <2>5, <3>1
    <3>3. i = v
      <4>1. PICK w \in Nat : w = winStart'
        BY <1>6
      <4>2. w <= i /\ i < w + SndWindow /\ w <= v /\ v < winStart + SndWindow /\ winStart <= w
        BY <1>6, <2>5, <3>2, <4>1, Zenon
      <4>3. i < w + MaxWindow /\ v < w + MaxWindow
        BY <1>4, <2>2, <4>2
      <4>4. i \in w..(w + MaxWindow - 1) /\ v \in w..(w + MaxWindow - 1)
        BY <1>4, <2>2, <4>2, <4>3
      <4>5. MaxWindow \in Nat
        BY <1>4
      <4> QED BY <3>2, <4>4, <4>5, SlotsDistinct, Zenon
    <3> QED BY <2>2, <3>2, <3>3
  <2>6. i < winStart' \/ (i < winStart' + SndWindow /\ ackRecord'[i % MaxWindow] = 1)
    BY <2>1, Zenon DEF TakenAsAcked
  <2>7. \A m, n \in Nat : m < n \/ n <= m
    OBVIOUS
  <2>8. (i < winStart \/ winStart <= i) /\ (i < winStart' \/ winStart' <= i)
    BY <1>4, <1>6, <2>2, <2>7, Zenon
  <2> QED BY <2>3, <2>4, <2>5, <2>6, <2>8, Zenon
<1>12. AnswersGot'
  <2>1. Fewer(toSender, toSender')
    BY <1>2 DEF Fewer
  <2> QED BY <1>3, <2>1, AnswersFewer
<1>13. MarksInWindow'
  <2>1. ASSUME NEW c \in 0..MaxWindow-1, ackRecord'[c] = 1
        PROVE  \E t \in Window' : t % MaxWindow = c
    <3>1. PICK v \in Nat : winStart' <= v /\ v < winStart + SndWindow /\ v % MaxWindow = c
      BY <1>10, <2>1
    <3>2. PICK w \in Nat : w = winStart'
      BY <1>6
    <3>3. w <= v /\ v < winStart + SndWindow /\ winStart <= w
      BY <1>6, <3>1, <3>2, Zenon
    <3>4. v \in w..(w + SndWindow - 1)
      BY <1>4, <3>3
    <3>5. v \in Window'
      BY <3>2, <3>4, Zenon DEF Window
    <3> QED BY <3>1, <3>5
  <2>2. ~NotConnected'
    BY <1>3 DEF NotConnected
  <2> QED BY <2>1, <2>2 DEF MarksInWindow
<1>14. OneHandshake' /\ NextInWindow'
  BY <1>3 DEF OneHandshake, NextInWindow
\* What is still in flight is neither s nor marked, so the window did not pass it.
<1>15. ASSUME NEW n \in Nat, n \in Window, ackRecord[n % MaxWindow] = 0, n # s
       PROVE  n \in Window' /\ ackRecord'[n % MaxWindow] = 0
  <2>1. winStart <= n /\ n < winStart + SndWindow /\ n % MaxWindow \in 0..MaxWindow-1
    BY <1>4, <1>5, <1>15 DEF Window
  <2>2. n % MaxWindow # s % MaxWindow
    <3>1. n < winStart + MaxWindow /\ s < winStart + MaxWindow
      BY <1>4, <1>5, <2>1
    <3> QED BY <1>4, <1>5, <1>15, <2>1, <3>1, WindowSlots
  <2>3. ~(n < winStart')
    BY <1>6, <1>15, <2>1, <2>2
  <2>4. n \in Window'
    <3>1. PICK w \in Nat : w = winStart'
      BY <1>6
    <3>2. ~(n < w) /\ n < winStart + SndWindow /\ winStart <= w
      BY <1>6, <2>1, <2>3, <3>1, Zenon
    <3>3. n \in w..(w + SndWindow - 1)
      BY <1>4, <3>2
    <3> QED BY <3>1, <3>3, Zenon DEF Window
  <2> QED BY <1>6, <1>15, <2>1, <2>2, <2>4
<1>16. /\ \A j \in DOMAIN toSender' : toSender'[j].seq # s
       /\ \A j \in DOMAIN toSender' : \E i \in DOMAIN toSender : toSender'[j] = toSender[i]
       /\ Distinct(toSender')
  <2>1. Fewer(toSender, toSender') /\ toSender \in Seq(Packet)
    BY <1>2 DEF Fewer, TypeOK, RtpTypeOK
  <2> QED BY <1>2, <1>3, <2>1, FewerElements, TakenIsGone DEF NoneTwice
<1>17. FlightSound'
  <2>1. ASSUME NEW j \in DOMAIN toReceiver
        PROVE  toReceiver[j].kind = "DATA" /\ Open(toReceiver[j])'
    <3>1. PICK n \in Nat : n = toReceiver[j].seq
      BY RequestType
    <3>2. toReceiver[j].kind = "DATA" /\ n \in Window /\ ackRecord[n % MaxWindow] = 0 /\ n # s
      BY <1>2, <1>3, <3>1 DEF FlightSound, Open, NoneTwice
    <3>3. n \in Window' /\ ackRecord'[n % MaxWindow] = 0 /\ toReceiver'[j].seq = n
      BY <1>3, <1>15, <3>1, <3>2
    <3> QED BY <1>3, <3>2, <3>3 DEF Open
  <2>2. ASSUME NEW j \in DOMAIN toSender'
        PROVE  toSender'[j].kind = "DATA_ACK" /\ Open(toSender[j])'
    <3>1. PICK i \in DOMAIN toSender : toSender'[j] = toSender[i]
      BY <1>16
    <3>2. PICK n \in Nat : n = toSender[i].seq
      BY AnswerType
    <3>3. toSender'[j].kind = "DATA_ACK" /\ n \in Window /\ ackRecord[n % MaxWindow] = 0 /\ n # s
      BY <1>3, <1>16, <3>1, <3>2 DEF FlightSound, Open
    <3>4. n \in Window' /\ ackRecord'[n % MaxWindow] = 0 /\ toSender'[j].seq = n
      BY <1>15, <3>1, <3>2, <3>3
    <3> QED BY <1>3, <3>3, <3>4 DEF Open
  <2> QED BY <1>3, <2>1, <2>2 DEF FlightSound
<1>18. NoneTwice'
  BY <1>3, <1>16 DEF NoneTwice
<1> QED BY <1>11, <1>12, <1>13, <1>14, <1>17, <1>18 DEF AcksInv

-----------------------------------------------------------------------------
(* All the steps together. *)

\* The receiver returns a chunk when END has come or the buffer is full.
LEMMA ChunkStaysOver ==
    ASSUME FileInv, ChunkOver, ReceiverStep \/ NetworkFault \/ SenderStep
    PROVE  ChunkOver'
<1>1. /\ IInv /\ base \in Nat /\ seq \in Nat /\ endSeq \in Nat /\ NPackets \in Nat
      /\ TotalPacket \in Nat /\ MaxPacket \in Nat /\ MaxPacket > NPackets
  <2>1. IInv /\ RtpTypeOK
    BY DEF FileInv, IInv
  <2>2. NPackets \in Nat /\ MaxWindow \in Nat /\ MaxPacket \in Nat
        /\ MaxPacket > NPackets + MaxWindow
    BY <2>1, Numbers
  <2> QED BY <2>1, <2>2, Numbers
<1>2. CASE ReturnChunk
  <2>1. rpc = "recv" /\ ~Receiving /\ UNCHANGED <<base, seq, endSeq>>
    BY <1>2 DEF ReturnChunk, readVars
  <2>2. ASSUME endSeq = MaxPacket PROVE seq >= base + TotalPacket
    <3>1. seq < endSeq
      BY <1>1, <2>1, <2>2 DEF IInv, EndSound
    <3> QED BY <1>1, <2>1, <3>1 DEF Receiving
  <2> QED BY <2>1, <2>2 DEF ChunkOver
<1>3. CASE NextChunk \/ AcceptsPacket \/ AcceptEnd \/ ListenAccept \/ ListenRefuse
  <2>1. rpc' # "write"
    BY <1>3 DEF NextChunk, AcceptsPacket, AcceptEnd, ListenAccept, ListenRefuse, Receiving
  <2> QED BY <2>1 DEF ChunkOver
<1>4. ASSUME ~ReturnChunk, ~NextChunk, ~AcceptsPacket, ~AcceptEnd, ~ListenAccept, ~ListenRefuse
      PROVE  UNCHANGED <<rpc, base, seq, endSeq>>
  BY <1>4 DEF ReceiverStep, SenderStep, SendStart, StartAcked, StartNotAcked, SendsOrSkips,
              MovesWindow, EndRound, FinishSending, DropPacket, WriteOne, NetworkFault,
              receiverVars, readVars
<1>5. CASE UNCHANGED <<rpc, base, seq, endSeq>>
  BY <1>5 DEF ChunkOver
<1> QED BY <1>2, <1>3, <1>4, <1>5

\* With nothing duplicated the network can only lose.
LEMMA FaultShrinks ==
    ASSUME RoundsEndEmpty, NetworkFault
    PROVE  /\ Fewer(toReceiver, toReceiver') /\ Fewer(toSender, toSender')
           /\ UNCHANGED <<senderVars, receiverVars>>
<1>1. \A ch, ch2 : ~DuplicatesOne(ch, ch2)
  BY DEF RoundsEndEmpty, DuplicatesOne
<1>2. \A ch, ch2 : LosesOne(ch, ch2) => Fewer(ch, ch2)
  BY DEF LosesOne, Fewer
<1> QED BY <1>1, <1>2 DEF NetworkFault, Fewer

LEMMA ReceiverShrinks ==
    ASSUME ListenRefuse \/ DropPacket \/ ReturnChunk \/ WriteOne \/ NextChunk
    PROVE  /\ Fewer(toReceiver, toReceiver') /\ Fewer(toSender, toSender')
           /\ UNCHANGED senderVars
BY DeliverableInDomain
   DEF ListenRefuse, DropPacket, ReturnChunk, WriteOne, NextChunk, Fewer, receiverVars

LEMMA AcksStay ==
    ASSUME RoundsEndEmpty, WindowFits, SrInv, TypeOK', IInv', Next
    PROVE  AcksInv' /\ ChunkOver'
<1>1. TypeOK /\ FileInv /\ AcksInv /\ ChunkOver
  BY DEF SrInv
<1>2. ReceiverStep \/ NetworkFault \/ SenderStep
  <2>1. EitherStep \/ UNCHANGED rtpVars
    BY SrStep
  <2>2. SendOrSkip => SendsOrSkips
    BY DEF SendOrSkip, SendsOrSkips
  <2>3. AcceptData => AcceptsPacket
    BY DEF AcceptData, AcceptsPacket
  <2> QED
    BY <2>2, <2>3, AckMovesWindow
       DEF Next, Sender, Receiver, SenderStep, ReceiverStep, SrSendStart, SrStartAcked,
           SrStartNotAcked, SrEndRound, SrFinishSending, SrListenAccept, SrListenRefuse,
           SrDropPacket, SrAcceptEnd, SrReturnChunk, SrWriteOne, SrNextChunk
<1>3. \A i \in 0..NPackets-1 : Got(i) => Got(i)'
  BY <1>1, <1>2, GotStays
<1>4. ChunkOver'
  BY <1>1, <1>2, ChunkStaysOver
<1>5. CASE Sender
  BY <1>1, <1>3, <1>4, <1>5, SendStartAcks, StartAckedAcks, StartNotAckedAcks, SendOrSkipAcks,
     CollectAckAcks, EndRoundAcks, FinishSendingAcks, Zenon
     DEF Sender, SrSendStart, SrStartAcked, SrStartNotAcked, SrEndRound, SrFinishSending
<1>6. CASE SrListenAccept \/ SrAcceptEnd \/ AcceptData
  BY <1>1, <1>3, <1>4, <1>6, ListenAcceptAcks, AcceptEndAcks, AcceptDataAcks, Zenon
     DEF SrListenAccept, SrAcceptEnd
<1>7. CASE SrListenRefuse \/ SrDropPacket \/ SrReturnChunk \/ SrWriteOne \/ SrNextChunk
  <2>1. /\ ListenRefuse \/ DropPacket \/ ReturnChunk \/ WriteOne \/ NextChunk
        /\ UNCHANGED ackRecord
    BY <1>7 DEF SrListenRefuse, SrDropPacket, SrReturnChunk, SrWriteOne, SrNextChunk
  <2>2. AcksInv'
    BY <1>1, <1>3, <2>1, ReceiverShrinks, ChannelsShrink
  <2> QED BY <1>4, <2>2
<1>8. CASE NetworkFault /\ UNCHANGED ackRecord
  <2>1. AcksInv'
    BY <1>1, <1>3, <1>8, FaultShrinks, ChannelsShrink
  <2> QED BY <1>4, <2>1
<1> QED BY <1>5, <1>6, <1>7, <1>8, Zenon DEF Next, Receiver

LEMMA InitSrInv == ASSUME CleanStack PROVE Init => SrInv
<1>1. SUFFICES ASSUME Init PROVE SrInv
  OBVIOUS
<1>2. FileInv /\ TypeOK
  BY <1>1, InitFileInv, InitTypeOK DEF Init, TypeOK
<1>3. /\ spc = "connect" /\ rpc = "listen" /\ winStart = 0
      /\ toReceiver = <<>> /\ toSender = <<>>
      /\ \A c \in 0..MaxWindow-1 : ackRecord[c] = 0
  BY <1>1 DEF Init, RtpInit
<1>4. AckedGot
  <2>1. \A i \in Nat : i % MaxWindow \in 0..MaxWindow-1
    BY SlotInRecord
  <2>2. NPackets \in Nat
    BY MessageNumbers
  <2> QED BY <1>3, <2>1, <2>2 DEF AckedGot, TakenAsAcked
<1>5. AnswersGot /\ MarksInWindow /\ OneHandshake /\ NextInWindow
  BY <1>3 DEF AnswersGot, MarksInWindow, OneHandshake, NextInWindow
<1>6. FlightSound /\ NoneTwice /\ ChunkOver
  BY <1>3 DEF FlightSound, NoneTwice, Transferring, ChunkOver
<1> QED BY <1>2, <1>4, <1>5, <1>6 DEF SrInv, AcksInv

LEMMA SrInvHolds ==
    ASSUME CleanStack, RoundsEndEmpty, WindowFits
    PROVE  Spec => [](SrInv /\ TypeOK)
<1>1. SrInv /\ TypeOK' /\ [Next]_vars => SrInv'
  <2>1. SUFFICES ASSUME SrInv, TypeOK', [Next]_vars PROVE SrInv'
    OBVIOUS
  <2>2. StartNotDuplicated
    BY DEF RoundsEndEmpty, StartNotDuplicated
  <2>3. FileInv'
    BY <2>1, <2>2, SrStep, StepFileInv DEF SrInv
  <2>4. IInv'
    BY <2>3 DEF FileInv
  <2>5. CASE Next
    BY <2>1, <2>3, <2>4, <2>5, AcksStay DEF SrInv
  <2>6. CASE UNCHANGED vars
    <3>1. /\ Fewer(toReceiver, toReceiver') /\ Fewer(toSender, toSender')
          /\ UNCHANGED <<senderVars, ackRecord, rpc, base, seq, endSeq, rec>>
      BY <2>6 DEF vars, rtpVars, senderVars, receiverVars, readVars, Fewer
    <3>2. AcksInv'
      BY <2>1, <3>1, ChannelsShrink DEF SrInv, Got
    <3>3. ChunkOver'
      BY <2>1, <3>1 DEF SrInv, ChunkOver
    <3> QED BY <2>1, <2>3, <3>2, <3>3 DEF SrInv
  <2> QED BY <2>1, <2>5, <2>6
<1> QED BY <1>1, InitSrInv, TypeCorrect, PTL DEF Spec

\* When rounds end with nothing in flight, ack_record is true: a packet that
\* the sender skips or slides over lies in the chunk buffer or the file, so no
\* transfer of any length stops because a slot was set for another packet.
THEOREM AckedPacketsAreHeld ==
    ASSUME CleanStack, RoundsEndEmpty, WindowFits
    PROVE  Spec => []AckedIsHeld
<1>1. SrInv => AckedIsHeld
  <2>1. SUFFICES ASSUME SrInv PROVE AckedIsHeld
    OBVIOUS
  <2>2. /\ TypeOK /\ FileInv /\ AcksInv /\ IInv /\ NPackets \in Nat
        /\ \A i \in Nat : i % MaxWindow \in 0..MaxWindow-1
    BY <2>1, MessageNumbers, SlotInRecord DEF SrInv, FileInv, IInv
  <2>3. ASSUME NEW i \in 0..NPackets-1, TakenAsAcked(i) PROVE Held(i)
    <3>1. Got(i)
      BY <2>2, <2>3 DEF AcksInv, AckedGot
    <3>2. ~NotConnected
      BY <2>2, <2>3 DEF TakenAsAcked, IInv, UnconnectedSound, AcksInv, MarksInWindow
    <3> QED BY <2>2, <3>1, <3>2, GotIsHeld
  <2>4. ASSUME NEW k \in DOMAIN toSender, toSender[k].kind = "DATA_ACK"
        PROVE  Held(toSender[k].seq)
    <3>1. PICK n \in Nat : n = toSender[k].seq
      BY <2>2, AnswerType
    <3>2. n < NPackets /\ Got(n) /\ ~NotConnected
      BY <2>2, <2>4, <3>1 DEF AcksInv, AnswersGot, IInv, AnswersSound, SoundAnswer
    <3>3. n \in 0..NPackets-1
      BY <2>2, <3>2
    <3> QED BY <2>2, <3>1, <3>2, <3>3, GotIsHeld
  <2> QED BY <2>3, <2>4 DEF AckedIsHeld
<1> QED BY <1>1, SrInvHolds, PTL
=============================================================================
