---------------------------- MODULE RtpGbnProofs ----------------------------
(***************************************************************************)
(* What the proofs about either program say of the one with cumulative     *)
(* ACKs, and what these ACKs add: none of them promises a packet that the  *)
(* receiver does not have, and END comes last.                             *)
(***************************************************************************)
EXTENDS RtpGbnInv, RtpSafety

\* Sending, acknowledging and accepting as RtpGbn does it are things that
\* either program may do.
LEMMA GbnStep == [Next]_vars => [EitherStep]_rtpVars
<1>1. SendOne => SendsOrSkips
  BY DEF SendOne, SendsOrSkips
<1>2. CollectAck => MovesWindow
  BY DEF CollectAck, MoveWindow, MovesWindow
<1>3. AcceptData => AcceptsPacket
  BY DEF AcceptData, Answer, AcceptsPacket
<1> QED
  BY <1>1, <1>2, <1>3, Zenon
     DEF Next, Sender, Receiver, EitherStep, SenderStep, ReceiverStep, vars

LEMMA GbnIsEither == Spec => EitherProgram
<1>1. Init => RtpInit
  BY DEF Init
<1> QED BY <1>1, GbnStep, PTL DEF Spec, EitherProgram

\* Every variable keeps its type, whatever the network does and whatever
\* ack_record holds at the start.
THEOREM TypeCorrect == Spec => []TypeOK
<1>1. RtpInit => RtpTypeOK
  BY InitTypeOK
<1>2. RtpTypeOK /\ [EitherStep]_rtpVars => RtpTypeOK'
  BY StepTypeOK
<1>3. RtpTypeOK => TypeOK
  BY DEF TypeOK
<1> QED BY <1>1, <1>2, <1>3, GbnIsEither, PTL DEF EitherProgram

\* The counters by which the receiver tells what to write agree with what it
\* holds, and the file is the message up to there, in every state.
THEOREM FileInvariantHolds ==
    ASSUME CleanStack, StartNotDuplicated
    PROVE  Spec => []FileInv
BY GbnIsEither, EitherKeepsFile, PTL

\* Whatever order, repetition, loss or corruption the packets met, the file is
\* a prefix of the message.
THEOREM FileIsAlwaysPrefix ==
    ASSUME CleanStack, StartNotDuplicated
    PROVE  Spec => []FileIsPrefix
<1>1. FileInv => FileIsPrefix
  BY FileInvGives
<1> QED BY <1>1, FileInvariantHolds, PTL

\* The receiver ends with the whole message, or with nothing when the sender
\* gave up connecting.
THEOREM DoneMeansWhole ==
    ASSUME CleanStack, StartNotDuplicated
    PROVE  Spec => []WholeFileOrNone
<1>1. FileInv => WholeFileOrNone
  BY FileInvGives
<1> QED BY <1>1, FileInvariantHolds, PTL

\* The transfer does what FileTransfer promises: every step of sender, receiver
\* or network is one of its steps or leaves the file and its end alone.
THEOREM TransferImplemented ==
    ASSUME CleanStack, StartNotDuplicated
    PROVE  Spec => ImplementsTransfer
BY GbnIsEither, EitherImplementsTransfer, PTL

-----------------------------------------------------------------------------
(* What the numbers in the ACKs promise. *)

LEMMA SeqGrows ==
    ASSUME RtpTypeOK, [Next]_vars
    PROVE  seq \in Nat /\ seq' \in Nat /\ seq' >= seq
<1>1. seq \in Nat
  BY Numbers
<1>2. CASE AcceptEnd \/ AcceptData
  BY <1>1, <1>2, AdvanceSeqType DEF AcceptEnd, AcceptData
<1>3. ASSUME ~AcceptEnd, ~AcceptData PROVE seq' = seq
  BY <1>3 DEF Next, Sender, Receiver, SendStart, StartAcked, StartNotAcked, SendOne, CollectAck,
              EndRound, FinishSending, ListenAccept, ListenRefuse, DropPacket, ReturnChunk,
              WriteOne, NextChunk, NetworkFault, vars, rtpVars, senderVars, receiverVars, readVars
<1> QED BY <1>1, <1>2, <1>3

\* The sender moves its window only to where an ACK of data, or of START, says.
LEMMA WindowStaysReceived ==
    ASSUME GbnInv, [Next]_vars
    PROVE  WindowReceived'
<1>1. /\ IInv /\ RtpTypeOK /\ AnswersSound /\ AnswersCumulative /\ WindowReceived
      /\ winStart \in Nat /\ NPackets \in Nat
  BY Numbers DEF GbnInv, FileInv, IInv
<1>2. seq \in Nat /\ seq' \in Nat /\ seq' >= seq
  BY <1>1, SeqGrows
<1>3. CASE CollectAck
  <2>1. PICK s \in AckNumbers : GetsAck(s) /\ winStart' = s
    BY <1>3 DEF CollectAck, MoveWindow
  <2>2. PICK k \in DOMAIN toSender : SoundAnswer(toSender[k]) /\ toSender[k].seq = s
    BY <1>1, <2>1, AckTaken
  <2>3. toSender[k] \in Packet
    BY <1>1, ElementOfSeq, LenProperties DEF RtpTypeOK
  <2>4. spc = "collect"
    BY <1>3 DEF CollectAck
  <2>5. s \in Nat /\ s <= seq /\ s <= NPackets
    BY <1>1, <1>2, <2>2, <2>3, <2>4 DEF SoundAnswer, Finishing, AnswersCumulative, Packet
  <2> QED BY <1>1, <1>2, <2>1, <2>5 DEF WindowReceived
<1>4. ASSUME ~CollectAck PROVE winStart' \in {winStart, 0}
  BY <1>4 DEF Next, Sender, Receiver, SendStart, StartAcked, StartNotAcked, SendOne, AcceptEnd,
              AcceptData, EndRound, FinishSending, ListenAccept, ListenRefuse, DropPacket,
              ReturnChunk, WriteOne, NextChunk, NetworkFault, vars, rtpVars, senderVars
<1> QED BY <1>1, <1>2, <1>3, <1>4 DEF WindowReceived

\* The receiver's ACK names what it expects by then, and expects no less later.
LEMMA AnswersStayCumulative ==
    ASSUME GbnInv, [Next]_vars
    PROVE  AnswersCumulative'
<1>1. RtpTypeOK /\ AnswersSound /\ AnswersCumulative /\ toSender \in Seq(Packet)
  BY DEF GbnInv, FileInv, IInv, RtpTypeOK
<1>2. seq \in Nat /\ seq' \in Nat /\ seq' >= seq
  BY <1>1, SeqGrows
<1>3. \A j \in DOMAIN toSender' :
        \/ \E i \in DOMAIN toSender : toSender'[j] = toSender[i]
        \/ toSender'[j].kind = "DATA_ACK" => toSender'[j].seq = seq'
  <2>1. CASE StartAcked \/ StartNotAcked \/ CollectAck \/ EndRound \/ FinishSending
    <3>1. TimesOut \/ GetsCorrupt \/ \E s \in AckNumbers : GetsAck(s)
      BY <2>1 DEF StartAcked, StartNotAcked, CollectAck, EndRound, FinishSending
    <3> QED BY <1>1, <3>1, AnswerTaken
  <2>2. CASE ListenAccept \/ AcceptEnd \/ AcceptData
    <3>1. PICK k \in Deliverable(toReceiver) :
            \/ toSender' = Put(toSender, StatusPacket("START_ACK", toReceiver[k].seq))
            \/ toSender' = Put(toSender, StatusPacket("END_ACK", toReceiver[k].seq))
            \/ toSender' = Put(toSender, StatusPacket("DATA_ACK", seq'))
      BY <2>2 DEF ListenAccept, AcceptEnd, AcceptData, Answer
    <3>2. toReceiver[k].seq \in Nat
      BY <1>1, ReceivedType DEF RtpTypeOK
    <3>3. ASSUME NEW p \in Packet, toSender' = Put(toSender, p),
                 p.kind = "DATA_ACK" => p.seq = seq'
          PROVE  \A j \in DOMAIN toSender' :
                   \/ \E i \in DOMAIN toSender : toSender'[j] = toSender[i]
                   \/ toSender'[j].kind = "DATA_ACK" => toSender'[j].seq = seq'
      BY <1>1, <3>3, PutElements
    <3>4. /\ StatusPacket("START_ACK", toReceiver[k].seq) \in Packet
          /\ StatusPacket("END_ACK", toReceiver[k].seq) \in Packet
          /\ StatusPacket("DATA_ACK", seq') \in Packet
      BY <1>2, <3>2, PacketTypes
    <3>5. /\ StatusPacket("START_ACK", toReceiver[k].seq).kind = "START_ACK"
          /\ StatusPacket("END_ACK", toReceiver[k].seq).kind = "END_ACK"
          /\ StatusPacket("DATA_ACK", seq').seq = seq'
      BY DEF StatusPacket
    <3> QED BY <3>1, <3>3, <3>4, <3>5
  <2>3. CASE NetworkFault
    BY <1>1, <2>3, FaultElements DEF NetworkFault
  <2>4. CASE SendStart \/ SendOne \/ ListenRefuse \/ DropPacket \/ ReturnChunk \/ WriteOne
             \/ NextChunk \/ UNCHANGED vars
    <3>1. UNCHANGED toSender
      BY <2>4 DEF SendStart, SendOne, ListenRefuse, DropPacket, ReturnChunk, WriteOne, NextChunk,
                  vars, rtpVars
    <3> QED BY <3>1
  <2> QED BY <2>1, <2>2, <2>3, <2>4 DEF Next, Sender, Receiver
<1>4. \A i \in DOMAIN toSender : toSender[i] \in Packet
  BY <1>1, ElementOfSeq, LenProperties
<1>5. ASSUME NEW j \in DOMAIN toSender', toSender'[j].kind = "DATA_ACK"
      PROVE  toSender'[j].seq <= seq'
  <2>1. CASE toSender'[j].seq = seq'
    BY <1>2, <2>1
  <2>2. ASSUME NEW i \in DOMAIN toSender, toSender'[j] = toSender[i]
        PROVE  toSender'[j].seq <= seq'
    <3>1. toSender[i].seq \in Nat /\ toSender[i].seq <= seq
      BY <1>1, <1>4, <1>5, <2>2 DEF AnswersCumulative, Packet
    <3> QED BY <1>2, <2>2, <3>1
  <2> QED BY <1>3, <1>5, <2>1, <2>2
<1> QED BY <1>5 DEF AnswersCumulative

\* END is sent with the number after the last packet when all is acknowledged,
\* so it is the number the receiver expects; then it expects nothing more.
LEMMA EndStaysInTurn ==
    ASSUME GbnInv, IInv', [Next]_vars
    PROVE  EndInTurn'
<1>1. /\ IInv /\ RtpTypeOK /\ SenderSound /\ RequestsSound /\ WindowReceived /\ EndInTurn
      /\ winStart \in Nat /\ NPackets \in Nat
  BY Numbers DEF GbnInv, FileInv, IInv
<1>2. seq \in Nat /\ seq' \in Nat /\ seq' >= seq
  BY <1>1, SeqGrows
<1>3. CASE AcceptEnd
  <2>1. PICK k \in Deliverable(toReceiver) :
          /\ toReceiver[k].kind = "END" /\ InWindow(toReceiver[k])
          /\ AdvanceSeq(toReceiver[k])
          /\ endSeq' = toReceiver[k].seq
    BY <1>3 DEF AcceptEnd
  <2> DEFINE num == toReceiver[k].seq
  <2>2. /\ k \in DOMAIN toReceiver /\ num \in Nat /\ num >= seq
        /\ UNCHANGED <<spc, winStart>>
    BY <1>1, <1>3, <2>1, ReceivedType DEF InWindow, RtpTypeOK, AcceptEnd, senderVars
  <2>3. \/ Finishing /\ num = winStart
        \/ spc = "failed" /\ num = 0
    BY <1>1, <2>1, <2>2 DEF RequestsSound, SoundRequest
  <2>4. num = seq /\ (Finishing => num >= NPackets)
    BY <1>1, <1>2, <2>2, <2>3 DEF WindowReceived, SenderSound
  <2>5. seq' > seq
    BY <1>2, <2>1, <2>4, RtpAssumption DEF AdvanceSeq, FirstGap
  <2>6. endSeq' # MaxPacket =>
          \/ spc = "failed" /\ endSeq' = 0 /\ seq' = 1
          \/ Finishing /\ (seq' <= NPackets \/ (endSeq' = NPackets /\ seq' = NPackets + 1))
    BY <2>2 DEF IInv, EndSound, Finishing
  <2> HIDE DEF num
  <2>7. endSeq' = num
    BY <2>1 DEF num
  <2> QED BY <1>1, <1>2, <2>4, <2>5, <2>6, <2>7 DEF EndInTurn
<1>4. CASE AcceptData
  <2>1. seq < endSeq /\ endSeq' = endSeq
    BY <1>4 DEF AcceptData, Receiving
  <2>2. endSeq \in Nat
    BY <1>1, Numbers
  <2> QED BY <1>1, <1>2, <2>1, <2>2 DEF EndInTurn
<1>5. CASE NextChunk
  BY <1>5 DEF NextChunk, EndInTurn
<1>6. ASSUME ~AcceptEnd, ~AcceptData, ~NextChunk PROVE UNCHANGED <<seq, endSeq>>
  BY <1>6 DEF Next, Sender, Receiver, SendStart, StartAcked, StartNotAcked, SendOne, CollectAck,
              EndRound, FinishSending, ListenAccept, ListenRefuse, DropPacket, ReturnChunk,
              WriteOne, NetworkFault, vars, rtpVars, senderVars, receiverVars, readVars
<1>7. CASE UNCHANGED <<seq, endSeq>>
  BY <1>1, <1>7 DEF EndInTurn
<1> QED BY <1>3, <1>4, <1>5, <1>6, <1>7

LEMMA GbnInvHolds ==
    ASSUME CleanStack, StartNotDuplicated
    PROVE  Spec => []GbnInv
<1>1. Init => GbnInv
  <2>1. Init => FileInv
    BY InitFileInv DEF Init
  <2> QED
    BY <2>1, MessageNumbers
       DEF GbnInv, Init, RtpInit, AnswersCumulative, WindowReceived, EndInTurn
<1>2. GbnInv /\ [Next]_vars => GbnInv'
  <2>1. SUFFICES ASSUME GbnInv, [Next]_vars PROVE GbnInv'
    OBVIOUS
  <2>2. FileInv'
    BY <2>1, GbnStep, StepFileInv DEF GbnInv
  <2>3. IInv'
    BY <2>2 DEF FileInv
  <2> QED
    BY <2>1, <2>2, <2>3, WindowStaysReceived, AnswersStayCumulative, EndStaysInTurn DEF GbnInv
<1> QED BY <1>1, <1>2, PTL DEF Spec

\* END is neither sent nor accepted before the receiver holds every packet,
\* unless it is the END with which rtp_connect gives up.
THEOREM EndOnlyWhenAllHeld ==
    ASSUME CleanStack, StartNotDuplicated
    PROVE  Spec => []EndMeansAllHeld
<1>1. GbnInv => EndMeansAllHeld
  <2>1. SUFFICES ASSUME GbnInv PROVE EndMeansAllHeld
    OBVIOUS
  <2>2. /\ winStart \in Nat /\ seq \in Nat /\ NPackets \in Nat /\ endSeq \in Nat
    BY <2>1, Numbers DEF GbnInv, FileInv, IInv
  <2> QED
    BY <2>1, <2>2
       DEF GbnInv, FileInv, IInv, SenderSound, EndSound, Finishing, EndInTurn, WindowReceived,
           EndMeansAllHeld
<1> QED BY <1>1, GbnInvHolds, PTL

\* The sender never forgets a packet the receiver does not hold: neither the
\* window of rtp_sendto nor any ACK of rtp_recvfrom runs ahead of what lies in
\* the chunk buffer or the file.
THEOREM AckedPacketsAreHeld ==
    ASSUME CleanStack, StartNotDuplicated
    PROVE  Spec => []AckedIsHeld
<1>1. GbnInv => AckedIsHeld
  <2>1. SUFFICES ASSUME GbnInv PROVE AckedIsHeld
    OBVIOUS
  <2>2. FileInv /\ IInv /\ RtpTypeOK
    BY <2>1 DEF GbnInv, FileInv, IInv
  <2>3. /\ winStart \in Nat /\ seq \in Nat /\ NPackets \in Nat
        /\ \A k \in DOMAIN toSender : toSender[k] \in Packet
    BY <2>2, Numbers, ElementOfSeq, LenProperties DEF RtpTypeOK
  <2>4. ASSUME NEW i \in 0..NPackets-1, i < winStart PROVE Held(i)
    <3>1. ~NotConnected /\ i < seq
      BY <2>1, <2>2, <2>3, <2>4 DEF GbnInv, WindowReceived, IInv, UnconnectedSound
    <3> QED BY <2>2, <3>1, ReceivedIsHeld
  <2>5. ASSUME NEW k \in DOMAIN toSender, toSender[k].kind = "DATA_ACK",
               NEW i \in 0..NPackets-1, i < toSender[k].seq
        PROVE  Held(i)
    <3>1. ~NotConnected /\ toSender[k].seq <= seq
      BY <2>1, <2>2, <2>5, Zenon DEF GbnInv, IInv, AnswersSound, SoundAnswer, AnswersCumulative
    <3>2. toSender[k].seq \in Nat
      BY <2>3 DEF Packet
    <3>3. i < seq
      BY <2>3, <2>5, <3>1, <3>2
    <3> QED BY <2>2, <3>1, <3>3, ReceivedIsHeld
  <2> QED BY <2>4, <2>5, Zenon DEF AckedIsHeld
<1> QED BY <1>1, GbnInvHolds, PTL

-----------------------------------------------------------------------------
(* Where datagrams do not overtake each other. *)

Fifo == ~Reorders

LEMMA SeqNumbers ==
    ASSUME NEW ch \in Seq(Packet)
    PROVE  \A k \in DOMAIN ch : ch[k] \in Packet /\ ch[k].seq \in Nat
<1>1. \A k \in DOMAIN ch : ch[k] \in Packet
  BY ElementOfSeq, LenProperties
<1>2. \A p \in Packet : p.seq \in Nat
  BY DEF Packet
<1> QED BY <1>1, <1>2

\* What ch2 holds is in ch, in the same order.
InOrderOf(ch2, ch) ==
    \A i, j \in DOMAIN ch2 :
        i <= j => \E k, l \in DOMAIN ch : k <= l /\ ch2[i] = ch[k] /\ ch2[j] = ch[l]

\* Taking or losing a datagram, or repeating it, keeps the order of the others.
LEMMA WithoutInOrder ==
    ASSUME NEW S, NEW ch \in Seq(S), NEW k \in DOMAIN ch
    PROVE  InOrderOf(Without(ch, k), ch)
<1> DEFINE ch2 == Without(ch, k)
<1>1. /\ Len(ch) \in Nat /\ DOMAIN ch = 1..Len(ch)
      /\ \A j \in DOMAIN ch2 : /\ j \in DOMAIN ch /\ j + 1 \in DOMAIN ch
                               /\ ch2[j] = IF j < k THEN ch[j] ELSE ch[j + 1]
  BY WithoutElements, LenProperties
<1> HIDE DEF ch2
<1>2. ASSUME NEW i \in DOMAIN ch2, NEW j \in DOMAIN ch2, i <= j
      PROVE  \E m, l \in DOMAIN ch : m <= l /\ ch2[i] = ch[m] /\ ch2[j] = ch[l]
  <2>1. PICK m \in DOMAIN ch : m = (IF i < k THEN i ELSE i + 1)
    BY <1>1
  <2>2. PICK l \in DOMAIN ch : l = (IF j < k THEN j ELSE j + 1)
    BY <1>1
  <2>3. m <= l
    BY <1>1, <1>2, <2>1, <2>2
  <2>4. ch2[i] = ch[m] /\ ch2[j] = ch[l]
    BY <1>1, <2>1, <2>2
  <2> QED BY <2>3, <2>4
<1>3. InOrderOf(ch2, ch)
  BY <1>2 DEF InOrderOf
<1> QED BY <1>3 DEF ch2

LEMMA FaultInOrder ==
    ASSUME NEW S, NEW ch \in Seq(S), NEW ch2, LosesOne(ch, ch2) \/ DuplicatesOne(ch, ch2)
    PROVE  InOrderOf(ch2, ch)
<1>1. CASE LosesOne(ch, ch2)
  BY <1>1, WithoutInOrder DEF LosesOne
<1>2. CASE DuplicatesOne(ch, ch2)
  <2>1. PICK k \in DOMAIN ch : ch2 = InsertAt(ch, k, ch[k])
    BY <1>2 DEF DuplicatesOne
  <2>2. /\ Len(ch) \in Nat /\ DOMAIN ch = 1..Len(ch) /\ Len(ch2) = Len(ch) + 1
        /\ ch2 \in Seq(S)
        /\ \A j \in DOMAIN ch2 : \/ j <= k /\ j \in DOMAIN ch /\ ch2[j] = ch[j]
                                 \/ j > k /\ j - 1 \in DOMAIN ch /\ ch2[j] = ch[j - 1]
    BY <2>1, InsertElements, LenProperties, Zenon
  <2>3. DOMAIN ch2 = 1..Len(ch) + 1
    BY <2>2, LenProperties
  <2>4. ASSUME NEW i \in DOMAIN ch2, NEW j \in DOMAIN ch2, i <= j
        PROVE  \E m, l \in DOMAIN ch : m <= l /\ ch2[i] = ch[m] /\ ch2[j] = ch[l]
    <3>1. PICK m \in DOMAIN ch : ch2[i] = ch[m] /\ m = (IF i <= k THEN i ELSE i - 1)
      BY <2>2, <2>3
    <3>2. PICK l \in DOMAIN ch : ch2[j] = ch[l] /\ l = (IF j <= k THEN j ELSE j - 1)
      BY <2>2, <2>3
    <3>3. m <= l
      BY <2>2, <2>3, <2>4, <3>1, <3>2
    <3> QED BY <3>1, <3>2, <3>3
  <2> QED BY <2>4 DEF InOrderOf
<1> QED BY <1>1, <1>2

\* An ACK that is taken is the first, so the others name no smaller number.
LEMMA FirstAckTaken ==
    ASSUME Fifo, RtpTypeOK, AnswersInOrder, AnswersAhead, NEW s, GetsAck(s),
           \A k \in DOMAIN toSender : toSender[k].kind # "END_ACK"
    PROVE  /\ s \in Nat /\ s >= winStart
           /\ \A j \in DOMAIN toSender' : toSender'[j].seq >= s
<1>1. toSender \in Seq(Packet) /\ DOMAIN toSender = 1..Len(toSender) /\ Len(toSender) \in Nat
  BY LenProperties DEF RtpTypeOK
<1>2. \A i \in DOMAIN toSender : toSender[i] \in Packet /\ toSender[i].seq \in Nat
  BY <1>1, SeqNumbers
<1>3. PICK k \in Deliverable(toSender) :
         toSender[k].seq = s /\ toSender' = Without(toSender, k)
  BY DEF GetsAck
<1>4. k = 1 /\ 1 \in DOMAIN toSender
  BY <1>3 DEF Deliverable, Fifo
<1>5. toSender' = Without(toSender, 1) /\ toSender[1].seq = s
  BY <1>3, <1>4
<1>6. \A j \in DOMAIN Without(toSender, 1) :
         /\ j \in DOMAIN toSender /\ j + 1 \in DOMAIN toSender
         /\ Without(toSender, 1)[j] = IF j < 1 THEN toSender[j] ELSE toSender[j + 1]
  BY <1>1, <1>4, WithoutElements, Zenon
<1>7. ASSUME NEW j \in DOMAIN Without(toSender, 1) PROVE Without(toSender, 1)[j].seq >= s
  <2>1. j \in DOMAIN toSender /\ j + 1 \in DOMAIN toSender
    BY <1>6
  <2>2. ~(j < 1) /\ 1 <= j + 1
    BY <1>1, <2>1
  <2>3. Without(toSender, 1)[j] = toSender[j + 1]
    BY <1>6, <2>2
  <2>4. toSender[1].seq <= toSender[j + 1].seq
    BY <1>4, <2>1, <2>2 DEF AnswersInOrder
  <2> QED BY <1>2, <1>4, <1>5, <2>1, <2>3, <2>4
<1>8. winStart <= toSender[1].seq
  BY <1>4 DEF AnswersAhead
<1>9. s \in Nat /\ winStart \in Nat
  BY <1>2, <1>4, <1>5, Numbers
<1> QED BY <1>5, <1>7, <1>8, <1>9

\* What comes out of a channel in which the ACKs are in order is in order.
LEMMA InOrderKept ==
    ASSUME AnswersInOrder, InOrderOf(toSender', toSender)
    PROVE  AnswersInOrder'
BY DEF AnswersInOrder, InOrderOf

\* The ACK that is put at the end names at least what the others name.
LEMMA PutInOrder ==
    ASSUME toSender \in Seq(Packet), AnswersInOrder, NEW p \in Packet,
           toSender' = Put(toSender, p),
           \A k \in DOMAIN toSender :
              toSender[k].kind # "END_ACK" /\ p.kind # "END_ACK" => toSender[k].seq <= p.seq
    PROVE  AnswersInOrder'
<1> DEFINE ch2 == Put(toSender, p)
<1>1. /\ DOMAIN toSender = 1..Len(toSender) /\ Len(toSender) \in Nat
      /\ \A j \in DOMAIN ch2 : \/ j \in DOMAIN toSender /\ ch2[j] = toSender[j]
                               \/ j = Len(toSender) + 1 /\ ch2[j] = p
  BY PutElements, LenProperties
<1> HIDE DEF ch2
<1>2. p.seq <= p.seq
  BY DEF Packet
<1>3. ASSUME NEW i \in DOMAIN ch2, NEW j \in DOMAIN ch2, i <= j,
             ch2[i].kind # "END_ACK", ch2[j].kind # "END_ACK"
      PROVE  ch2[i].seq <= ch2[j].seq
  <2>1. CASE j \in DOMAIN toSender /\ ch2[j] = toSender[j]
    <3>1. i \in DOMAIN toSender /\ ch2[i] = toSender[i]
      BY <1>1, <1>3, <2>1
    <3> QED BY <1>3, <2>1, <3>1 DEF AnswersInOrder
  <2>2. CASE ch2[j] = p
    BY <1>1, <1>2, <1>3, <2>2
  <2> QED BY <1>1, <2>1, <2>2
<1>4. toSender' = ch2
  BY DEF ch2
<1> QED BY <1>3, <1>4 DEF AnswersInOrder

\* What a step does to the answers on their way.
LEMMA AnswersStep ==
    ASSUME RtpTypeOK, [Next]_vars
    PROVE  \/ InOrderOf(toSender', toSender) /\ UNCHANGED winStart
           \/ StartAcked
           \/ CollectAck
           \/ ListenAccept
           \/ UNCHANGED winStart /\ \E p \in Packet :
                 /\ toSender' = Put(toSender, p)
                 /\ p.kind = "END_ACK" \/ (p.kind = "DATA_ACK" /\ p.seq = seq')
<1>1. toSender \in Seq(Packet) /\ seq' \in Nat
  BY SeqGrows DEF RtpTypeOK
<1>2. InOrderOf(toSender, toSender)
  BY DEF InOrderOf
<1>3. CASE StartNotAcked \/ EndRound \/ FinishSending
  <2>1. TimesOut \/ GetsCorrupt \/ \E s \in AckNumbers : GetsAck(s)
    BY <1>3 DEF StartNotAcked, EndRound, FinishSending
  <2>2. UNCHANGED toSender \/ \E k \in DOMAIN toSender : toSender' = Without(toSender, k)
    BY <2>1, DeliverableInDomain DEF TimesOut, GetsCorrupt, GetsAck
  <2>3. InOrderOf(toSender', toSender)
    BY <1>1, <1>2, <2>2, WithoutInOrder
  <2> QED BY <1>3, <2>3 DEF StartNotAcked, EndRound, FinishSending
<1>4. CASE AcceptEnd
  <2>1. PICK k \in Deliverable(toReceiver) :
          toSender' = Put(toSender, StatusPacket("END_ACK", toReceiver[k].seq))
    BY <1>4 DEF AcceptEnd
  <2>2. PICK p \in Packet : p = StatusPacket("END_ACK", toReceiver[k].seq)
    BY ReceivedType, PacketTypes DEF RtpTypeOK
  <2>3. p.kind = "END_ACK"
    BY <2>2 DEF StatusPacket
  <2> QED BY <1>4, <2>1, <2>2, <2>3 DEF AcceptEnd, senderVars
<1>5. CASE AcceptData
  <2>1. toSender' = Put(toSender, StatusPacket("DATA_ACK", seq'))
    BY <1>5 DEF AcceptData, Answer
  <2>2. StatusPacket("DATA_ACK", seq') \in Packet
    BY <1>1, PacketTypes
  <2>3. StatusPacket("DATA_ACK", seq').kind = "DATA_ACK"
        /\ StatusPacket("DATA_ACK", seq').seq = seq'
    BY DEF StatusPacket
  <2> QED BY <1>5, <2>1, <2>2, <2>3 DEF AcceptData, senderVars
<1>6. CASE NetworkFault
  <2>1. /\ UNCHANGED winStart
        /\ UNCHANGED toSender \/ LosesOne(toSender, toSender') \/ DuplicatesOne(toSender, toSender')
    BY <1>6 DEF NetworkFault, senderVars
  <2> QED BY <1>1, <1>2, <2>1, FaultInOrder
<1>7. CASE SendStart \/ SendOne \/ ListenRefuse \/ DropPacket \/ ReturnChunk \/ WriteOne
           \/ NextChunk \/ UNCHANGED vars
  <2>1. UNCHANGED <<winStart, toSender>>
    BY <1>7 DEF SendStart, SendOne, ListenRefuse, DropPacket, ReturnChunk, WriteOne, NextChunk,
                vars, rtpVars, senderVars
  <2> QED BY <1>2, <2>1
<1> QED BY <1>3, <1>4, <1>5, <1>6, <1>7 DEF Next, Sender, Receiver

\* The ACKs on their way stay in order, and none falls behind the window.
LEMMA FifoKept ==
    ASSUME Fifo, FifoInv, GbnInv', [Next]_vars
    PROVE  AnswersInOrder' /\ AnswersAhead' /\ winStart' >= winStart
<1>1. /\ RtpTypeOK /\ AnswersSound /\ AnswersCumulative /\ WindowReceived /\ RequestsSound
      /\ DoneAfterEnd /\ UnconnectedSound /\ AnswersInOrder /\ AnswersAhead
      /\ toSender \in Seq(Packet)
  BY DEF FifoInv, GbnInv, FileInv, IInv, RtpTypeOK
<1>2. winStart \in Nat /\ seq \in Nat /\ seq' \in Nat /\ seq' >= seq /\ winStart <= seq
  BY <1>1, Numbers, SeqGrows DEF WindowReceived
<1>3. \A k \in DOMAIN toSender : toSender[k] \in Packet /\ toSender[k].seq \in Nat
  BY <1>1, SeqNumbers
<1>4. CASE InOrderOf(toSender', toSender) /\ UNCHANGED winStart
  <2>1. AnswersInOrder'
    BY <1>1, <1>4, InOrderKept
  <2>2. \A j \in DOMAIN toSender' : \E i \in DOMAIN toSender : toSender'[j] = toSender[i]
    <3>1. ASSUME NEW j \in DOMAIN toSender' PROVE j <= j
      <4>1. toSender' \in Seq(Packet)
        BY DEF GbnInv, FileInv, IInv, RtpTypeOK
      <4>2. DOMAIN toSender' \subseteq Nat
        BY <4>1, LenProperties
      <4> QED BY <4>2
    <3> QED BY <1>4, <3>1 DEF InOrderOf
  <2>3. AnswersAhead'
    BY <1>1, <1>4, <2>2 DEF AnswersAhead
  <2> QED BY <1>2, <1>4, <2>1, <2>3
<1>5. CASE StartAcked
  <2>1. spc = "await_start" /\ winStart' = 0 /\ \E s \in AckNumbers : GetsAck(s)
    BY <1>5 DEF StartAcked
  <2>2. winStart = 0
    BY <1>1, <2>1 DEF UnconnectedSound, NotConnected
  <2>3. \E k \in DOMAIN toSender : toSender' = Without(toSender, k)
    BY <2>1, DeliverableInDomain DEF GetsAck
  <2>4. InOrderOf(toSender', toSender)
    BY <1>1, <2>3, WithoutInOrder
  <2>5. toSender' \in Seq(Packet)
    BY DEF GbnInv, FileInv, IInv, RtpTypeOK
  <2>6. \A k \in DOMAIN toSender' : toSender'[k].seq \in Nat
    BY <2>5, SeqNumbers
  <2>7. AnswersAhead'
    BY <2>1, <2>6 DEF AnswersAhead
  <2> QED BY <1>1, <2>1, <2>2, <2>4, <2>7, InOrderKept
<1>6. CASE CollectAck
  <2>1. PICK s \in AckNumbers : GetsAck(s) /\ winStart' = s
    BY <1>6 DEF CollectAck, MoveWindow
  <2>2. \A k \in DOMAIN toSender : toSender[k].kind # "END_ACK"
    BY <1>1, <1>6 DEF CollectAck, AnswersSound, SoundAnswer, Finishing
  <2>3. s \in Nat /\ s >= winStart /\ \A j \in DOMAIN toSender' : toSender'[j].seq >= s
    BY <1>1, <2>1, <2>2, FirstAckTaken
  <2>4. toSender' \in Seq(Packet)
    BY DEF GbnInv, FileInv, IInv, RtpTypeOK
  <2>5. \A k \in DOMAIN toSender' : toSender'[k].seq \in Nat
    BY <2>4, SeqNumbers
  <2>6. AnswersAhead'
    BY <2>1, <2>3, <2>5 DEF AnswersAhead
  <2>7. \E k \in DOMAIN toSender : toSender' = Without(toSender, k)
    BY <2>1, DeliverableInDomain DEF GetsAck
  <2>8. InOrderOf(toSender', toSender)
    BY <1>1, <2>7, WithoutInOrder
  <2> QED BY <1>1, <2>1, <2>3, <2>6, <2>8, InOrderKept
<1>7. CASE ListenAccept
  <2>1. PICK k \in Deliverable(toReceiver) :
          /\ toReceiver[k].kind = "START"
          /\ toSender' = Put(toSender, StatusPacket("START_ACK", toReceiver[k].seq))
    BY <1>7 DEF ListenAccept
  <2>2. rpc = "listen" /\ UNCHANGED winStart
    BY <1>7 DEF ListenAccept, senderVars
  <2>3. toSender = <<>> /\ winStart = 0
    BY <1>1, <2>2 DEF DoneAfterEnd, UnconnectedSound
  <2>4. PICK p \in Packet : p = StatusPacket("START_ACK", toReceiver[k].seq)
    BY <1>1, ReceivedType, PacketTypes DEF RtpTypeOK
  <2>5. AnswersInOrder'
    BY <1>1, <2>1, <2>3, <2>4, PutInOrder
  <2>6. toSender' \in Seq(Packet)
    BY DEF GbnInv, FileInv, IInv, RtpTypeOK
  <2>7. \A j \in DOMAIN toSender' : toSender'[j].seq \in Nat
    BY <2>6, SeqNumbers
  <2>8. AnswersAhead'
    BY <2>2, <2>3, <2>7 DEF AnswersAhead
  <2> QED BY <2>2, <2>3, <2>5, <2>8
<1>8. ASSUME UNCHANGED winStart, NEW p \in Packet, toSender' = Put(toSender, p),
             p.kind = "END_ACK" \/ (p.kind = "DATA_ACK" /\ p.seq = seq')
      PROVE  AnswersInOrder' /\ AnswersAhead'
  <2>1. ASSUME NEW k \in DOMAIN toSender, toSender[k].kind # "END_ACK"
        PROVE  toSender[k].seq <= seq
    BY <1>1, <1>2, <1>3, <2>1
       DEF AnswersCumulative, AnswersSound, SoundAnswer
  <2>2. \A k \in DOMAIN toSender :
          toSender[k].kind # "END_ACK" /\ p.kind # "END_ACK" => toSender[k].seq <= p.seq
    BY <1>2, <1>3, <1>8, <2>1
  <2>3. \A j \in DOMAIN toSender' :
          \/ \E i \in DOMAIN toSender : toSender'[j] = toSender[i]
          \/ toSender'[j] = p
    BY <1>1, <1>8, PutElements
  <2>4. AnswersAhead'
    BY <1>1, <1>2, <1>8, <2>3 DEF AnswersAhead
  <2> QED BY <1>1, <1>8, <2>2, <2>4, PutInOrder
<1>9. UNCHANGED winStart => winStart' >= winStart
  BY <1>2
<1> QED BY <1>1, <1>4, <1>5, <1>6, <1>7, <1>8, <1>9, AnswersStep

\* Over a network that keeps the order of the datagrams, however it loses,
\* repeats or spoils them, the window of rtp_sendto never moves back over
\* packets it saw acknowledged, though it goes wherever the last ACK says.
THEOREM WindowAdvances ==
    ASSUME CleanStack, StartNotDuplicated, Fifo
    PROVE  Spec => WindowNeverSlidesBack
<1>1. Init => AnswersInOrder /\ AnswersAhead
  BY DEF Init, RtpInit, AnswersInOrder, AnswersAhead
<1>2. FifoInv /\ GbnInv' /\ [Next]_vars
         => AnswersInOrder' /\ AnswersAhead' /\ winStart' >= winStart
  BY FifoKept
<1>3. FifoInv /\ GbnInv' /\ [Next]_vars => [winStart' >= winStart]_vars
  BY <1>2
<1>4. Spec => [](AnswersInOrder /\ AnswersAhead)
  BY <1>1, <1>2, GbnInvHolds, PTL DEF Spec, FifoInv
<1> QED BY <1>3, <1>4, GbnInvHolds, PTL DEF Spec, FifoInv, WindowNeverSlidesBack
=============================================================================
