------------------------------ MODULE RtpSafety ------------------------------
(***************************************************************************)
(* IInv is an inductive invariant of either program, for every message,    *)
(* window and chunk size, and whatever the network loses, reorders,        *)
(* corrupts or (START excepted) repeats.                                   *)
(***************************************************************************)
EXTENDS RtpInv, SequenceTheorems, FiniteSetTheorems, TLAPS

-----------------------------------------------------------------------------
(* Lemmas about the channels and about the numbers of a message. *)

\* Taking a datagram out of a channel leaves the others, in their order.
LEMMA WithoutElements ==
    ASSUME NEW S, NEW ch \in Seq(S), NEW k \in DOMAIN ch
    PROVE  /\ Without(ch, k) \in Seq(S)
           /\ Len(Without(ch, k)) = Len(ch) - 1
           /\ \A j \in DOMAIN Without(ch, k) :
                /\ j \in DOMAIN ch /\ j + 1 \in DOMAIN ch
                /\ Without(ch, k)[j] = IF j < k THEN ch[j] ELSE ch[j + 1]
<1> DEFINE left == SubSeq(ch, 1, k - 1)
           right == SubSeq(ch, k + 1, Len(ch))
<1>1. /\ Len(ch) \in Nat /\ DOMAIN ch = 1..Len(ch) /\ k \in 1..Len(ch)
      /\ \A i \in 1..Len(ch) : ch[i] \in S
  BY LenProperties, ElementOfSeq
<1>2. /\ left \in Seq(S) /\ Len(left) = k - 1
      /\ \A i \in 1..k-1 : left[i] = ch[i]
  BY <1>1, SubSeqProperties, Z3
<1>3. /\ right \in Seq(S) /\ Len(right) = Len(ch) - k
      /\ \A i \in 1..Len(ch)-k : right[i] = ch[k + i]
  BY <1>1, SubSeqProperties, Z3
<1> HIDE DEF left, right
<1>4. /\ left \o right \in Seq(S) /\ Len(left \o right) = Len(ch) - 1
      /\ \A i \in 1..Len(ch)-1 :
           (left \o right)[i] = IF i <= k - 1 THEN left[i] ELSE right[i - (k - 1)]
  <2>1. /\ left \o right \in Seq(S) /\ Len(left \o right) = Len(left) + Len(right)
        /\ \A i \in 1..Len(left) + Len(right) :
             (left \o right)[i] = IF i <= Len(left) THEN left[i] ELSE right[i - Len(left)]
    BY <1>2, <1>3, ConcatProperties
  <2>2. Len(left) + Len(right) = Len(ch) - 1
    BY <1>1, <1>2, <1>3
  <2> QED BY <1>1, <1>2, <2>1, <2>2
<1>5. Without(ch, k) = left \o right
  BY DEF Without, RemoveAt, left, right
<1> DEFINE rest == left \o right
<1>6. /\ rest \in Seq(S) /\ DOMAIN rest = 1..Len(ch)-1 /\ Len(rest) = Len(ch) - 1
      /\ \A i \in 1..Len(ch)-1 : rest[i] = IF i <= k - 1 THEN left[i] ELSE right[i - (k - 1)]
  BY <1>4, LenProperties
<1>7. Without(ch, k) = rest
  BY <1>5 DEF rest
<1> HIDE DEF rest
<1>8. ASSUME NEW j \in 1..Len(ch)-1
      PROVE  /\ j \in 1..Len(ch) /\ j + 1 \in 1..Len(ch)
             /\ rest[j] = IF j < k THEN ch[j] ELSE ch[j + 1]
  <2>1. CASE j < k
    <3>1. j \in 1..k-1 /\ j <= k - 1
      BY <1>1, <2>1
    <3>2. rest[j] = left[j] /\ left[j] = ch[j]
      BY <1>2, <1>6, <3>1
    <3> QED BY <1>1, <2>1, <3>2
  <2>2. CASE j >= k
    <3>1. /\ ~(j <= k - 1) /\ j - (k - 1) \in 1..Len(ch)-k
          /\ k + (j - (k - 1)) = j + 1
      BY <1>1, <2>2
    <3>2. rest[j] = right[j - (k - 1)]
      BY <1>6, <3>1, Zenon
    <3>3. right[j - (k - 1)] = ch[j + 1]
      BY <1>3, <3>1, Zenon
    <3>4. ~(j < k) /\ j \in 1..Len(ch) /\ j + 1 \in 1..Len(ch)
      BY <1>1, <2>2
    <3> QED BY <3>2, <3>3, <3>4, Zenon
  <2> QED BY <1>1, <2>1, <2>2
<1>9. ASSUME NEW j \in DOMAIN rest
      PROVE  /\ j \in DOMAIN ch /\ j + 1 \in DOMAIN ch
             /\ rest[j] = IF j < k THEN ch[j] ELSE ch[j + 1]
  <2>1. j \in 1..Len(ch)-1
    BY <1>6, Zenon
  <2> QED BY <1>1, <1>8, <2>1, Zenon
<1> QED BY <1>6, <1>7, <1>9, Zenon

\* A duplicated datagram stands next to its original.
LEMMA InsertElements ==
    ASSUME NEW S, NEW ch \in Seq(S), NEW k \in DOMAIN ch
    PROVE  LET ch2 == InsertAt(ch, k, ch[k]) IN
           /\ ch2 \in Seq(S)
           /\ Len(ch2) = Len(ch) + 1
           /\ \A j \in DOMAIN ch2 :
                \/ j <= k /\ j \in DOMAIN ch /\ ch2[j] = ch[j]
                \/ j > k /\ j - 1 \in DOMAIN ch /\ ch2[j] = ch[j - 1]
<1> DEFINE left == SubSeq(ch, 1, k - 1)
           right == SubSeq(ch, k, Len(ch))
           leftOne == left \o <<ch[k]>>
<1>1. /\ Len(ch) \in Nat /\ DOMAIN ch = 1..Len(ch) /\ k \in 1..Len(ch)
      /\ \A i \in 1..Len(ch) : ch[i] \in S
  BY LenProperties, ElementOfSeq
<1>2. /\ left \in Seq(S) /\ Len(left) = k - 1
      /\ \A i \in 1..k-1 : left[i] = ch[i]
  BY <1>1, SubSeqProperties, Z3
<1>3. /\ right \in Seq(S) /\ Len(right) = Len(ch) - k + 1
      /\ \A i \in 1..(Len(ch)-k+1) : right[i] = ch[k + i - 1]
  BY <1>1, SubSeqProperties, Z3
<1>4. /\ <<ch[k]>> \in Seq(S) /\ Len(<<ch[k]>>) = 1 /\ <<ch[k]>>[1] = ch[k]
  BY <1>1
<1> HIDE DEF left, right
<1>5. /\ leftOne \in Seq(S) /\ Len(leftOne) = k
      /\ \A i \in 1..k : leftOne[i] = ch[i]
  BY <1>1, <1>2, <1>4, ConcatProperties
<1> HIDE DEF leftOne
<1>6. /\ leftOne \o right \in Seq(S) /\ Len(leftOne \o right) = Len(ch) + 1
      /\ \A i \in 1..Len(ch)+1 :
           (leftOne \o right)[i] = IF i <= k THEN leftOne[i] ELSE right[i - k]
  <2>1. /\ leftOne \o right \in Seq(S)
        /\ Len(leftOne \o right) = Len(leftOne) + Len(right)
        /\ \A i \in 1..Len(leftOne) + Len(right) :
             (leftOne \o right)[i] =
                IF i <= Len(leftOne) THEN leftOne[i] ELSE right[i - Len(leftOne)]
    BY <1>3, <1>5, ConcatProperties
  <2>2. Len(leftOne) + Len(right) = Len(ch) + 1
    BY <1>1, <1>3, <1>5
  <2> QED BY <1>1, <1>5, <2>1, <2>2
<1>7. InsertAt(ch, k, ch[k]) = leftOne \o right
  BY DEF InsertAt, left, right, leftOne
<1> DEFINE ch2 == leftOne \o right
<1>8. /\ ch2 \in Seq(S) /\ DOMAIN ch2 = 1..Len(ch)+1 /\ Len(ch2) = Len(ch) + 1
      /\ \A i \in 1..Len(ch)+1 : ch2[i] = IF i <= k THEN leftOne[i] ELSE right[i - k]
  BY <1>6, LenProperties
<1>9. InsertAt(ch, k, ch[k]) = ch2
  BY <1>7 DEF ch2
<1> HIDE DEF ch2
<1>10. ASSUME NEW j \in 1..Len(ch)+1
       PROVE  \/ j <= k /\ j \in 1..Len(ch) /\ ch2[j] = ch[j]
              \/ j > k /\ j - 1 \in 1..Len(ch) /\ ch2[j] = ch[j - 1]
  <2>1. CASE j <= k
    <3>1. j \in 1..k /\ j \in 1..Len(ch)
      BY <1>1, <2>1
    <3>2. ch2[j] = leftOne[j] /\ leftOne[j] = ch[j]
      BY <1>5, <1>8, <2>1, <3>1
    <3> QED BY <2>1, <3>1, <3>2
  <2>2. CASE j > k
    <3>1. j - k \in 1..(Len(ch)-k+1) /\ j - 1 \in 1..Len(ch) /\ k + (j - k) - 1 = j - 1
      BY <1>1, <2>2
    <3>2. ch2[j] = right[j - k] /\ right[j - k] = ch[k + (j - k) - 1]
      BY <1>1, <1>3, <1>8, <2>2, <3>1
    <3> QED BY <2>2, <3>1, <3>2
  <2> QED BY <1>1, <2>1, <2>2
<1> QED BY <1>1, <1>8, <1>9, <1>10

\* Sending keeps what is in flight, and adds at most the new datagram at the end.
LEMMA PutElements ==
    ASSUME NEW S, NEW ch \in Seq(S), NEW p \in S
    PROVE  /\ Put(ch, p) \in Seq(S)
           /\ \A j \in DOMAIN Put(ch, p) :
                \/ j \in DOMAIN ch /\ Put(ch, p)[j] = ch[j]
                \/ j = Len(ch) + 1 /\ Put(ch, p)[j] = p
BY DEF Put

\* A fault only loses or repeats datagrams.
LEMMA FaultElements ==
    ASSUME NEW S, NEW ch \in Seq(S), NEW ch2, LosesOne(ch, ch2) \/ DuplicatesOne(ch, ch2)
    PROVE  /\ ch2 \in Seq(S)
           /\ \A j \in DOMAIN ch2 : \E i \in DOMAIN ch : ch2[j] = ch[i]
<1>1. CASE LosesOne(ch, ch2)
  <2>1. PICK k \in DOMAIN ch : ch2 = Without(ch, k)
    BY <1>1 DEF LosesOne
  <2> QED BY <2>1, WithoutElements
<1>2. CASE DuplicatesOne(ch, ch2)
  <2>1. PICK k \in DOMAIN ch : ch2 = InsertAt(ch, k, ch[k])
    BY <1>2 DEF DuplicatesOne
  <2>2. /\ ch2 \in Seq(S)
        /\ \A j \in DOMAIN ch2 : \/ j \in DOMAIN ch /\ ch2[j] = ch[j]
                                 \/ j - 1 \in DOMAIN ch /\ ch2[j] = ch[j - 1]
    BY <2>1, InsertElements, Zenon
  <2> QED BY <2>2, Zenon
<1> QED BY <1>1, <1>2

LEMMA DeliverableInDomain ==
    ASSUME NEW ch, NEW k \in Deliverable(ch)
    PROVE  k \in DOMAIN ch
BY DEF Deliverable

LEMMA MessageNumbers ==
    /\ NPackets \in Nat /\ NPackets >= 1
    /\ \A i \in Nat : LenOf(i) \in Nat /\ LenOf(i) <= PacketSize
    /\ \A i \in 0..NPackets-2 : LenOf(i) = PacketSize
BY RtpAssumption DEF NPackets, LenOf

LEMMA PacketTypes ==
    /\ \A s \in Nat : /\ StatusPacket("START", s) \in Packet
                      /\ StatusPacket("END", s) \in Packet
                      /\ StatusPacket("START_ACK", s) \in Packet
                      /\ StatusPacket("DATA_ACK", s) \in Packet
                      /\ StatusPacket("END_ACK", s) \in Packet
    /\ \A i \in Nat : DataPacket(i) \in Packet
BY MessageNumbers DEF StatusPacket, DataPacket, Packet, Kinds, AckKinds

\* What rtp_recvstatus takes from the sender's channel leaves a channel.
LEMMA RecvStatusType ==
    ASSUME toSender \in Seq(Packet)
    PROVE  /\ TimesOut \/ GetsCorrupt => toSender' \in Seq(Packet)
           /\ \A s : GetsAck(s) => toSender' \in Seq(Packet) /\ s \in Nat
<1>1. TimesOut => toSender' \in Seq(Packet)
  BY DEF TimesOut
<1>2. GetsCorrupt => toSender' \in Seq(Packet)
  BY WithoutElements, DeliverableInDomain DEF GetsCorrupt
<1>3. ASSUME NEW s, GetsAck(s)
      PROVE  toSender' \in Seq(Packet) /\ s \in Nat
  <2>1. PICK k \in Deliverable(toSender) :
           toSender[k].seq = s /\ toSender' = Without(toSender, k)
    BY <1>3 DEF GetsAck
  <2>2. k \in DOMAIN toSender
    BY DeliverableInDomain
  <2>3. toSender[k] \in Packet
    BY <2>2, ElementOfSeq, LenProperties
  <2> QED BY <2>1, <2>2, <2>3, WithoutElements DEF Packet
<1> QED BY <1>1, <1>2, <1>3

\* A datagram the receiver can take is a packet, and a channel is left.
LEMMA ReceivedType ==
    ASSUME toReceiver \in Seq(Packet), NEW k \in Deliverable(toReceiver)
    PROVE  /\ k \in DOMAIN toReceiver
           /\ toReceiver[k] \in Packet
           /\ toReceiver[k].seq \in Nat /\ toReceiver[k].length \in Nat
           /\ Without(toReceiver, k) \in Seq(Packet)
<1>1. k \in DOMAIN toReceiver
  BY DeliverableInDomain
<1>2. toReceiver[k] \in Packet
  BY <1>1, ElementOfSeq, LenProperties
<1> QED BY <1>1, <1>2, WithoutElements DEF Packet

\* The window only moves up when a packet is accepted.
LEMMA AdvanceSeqType ==
    ASSUME seq \in Nat, NEW p, AdvanceSeq(p)
    PROVE  seq' \in Nat /\ seq' >= seq
BY RtpAssumption DEF AdvanceSeq, FirstGap

LEMMA DivMod ==
    ASSUME NEW M \in Nat, M > 0, NEW x \in Nat
    PROVE  \E q, r \in Nat : r = x % M /\ x = M * q + r /\ r < M
<1>1. x % M = x - M * (x \div M)
  OBVIOUS
<1>2. x \div M \in Nat /\ x % M \in Nat /\ x % M < M
  OBVIOUS
<1>3. ASSUME NEW q \in Nat, NEW r \in Nat, r = x - M * q
      PROVE  x = M * q + r
  BY <1>3
<1> QED BY <1>1, <1>2, <1>3

\* Among MaxWindow consecutive numbers no two share a slot of ack_record.
LEMMA SlotsDistinct ==
    ASSUME NEW b \in Nat, NEW x \in b..(b + MaxWindow - 1), NEW y \in b..(b + MaxWindow - 1),
           x % MaxWindow = y % MaxWindow
    PROVE  x = y
<1>1. MaxWindow \in Nat /\ MaxWindow > 0 /\ x \in Nat /\ y \in Nat
  BY RtpAssumption
<1>2. PICK q, m \in Nat : m = x % MaxWindow /\ x = MaxWindow * q + m
  BY <1>1, DivMod
<1>3. PICK r, n \in Nat : n = y % MaxWindow /\ y = MaxWindow * r + n
  BY <1>1, DivMod
<1>4. m = n
  BY <1>2, <1>3
<1>5. x - y < MaxWindow /\ y - x < MaxWindow
  BY <1>1
<1>6. ASSUME NEW i \in Nat, NEW j \in Nat, i > j
      PROVE  MaxWindow * i >= MaxWindow * j + MaxWindow
  BY <1>1, <1>6, Z3
<1>7. ~(q > r)
  BY <1>1, <1>2, <1>3, <1>4, <1>5, <1>6
<1>8. ~(r > q)
  BY <1>1, <1>2, <1>3, <1>4, <1>5, <1>6
<1> QED BY <1>2, <1>3, <1>4, <1>7, <1>8

LEMMA SlotInRecord ==
    \A s \in Nat : s % MaxWindow \in 0..MaxWindow-1
BY RtpAssumption

\* Facts about the variables that the arithmetic below needs.
LEMMA Numbers ==
    ASSUME RtpTypeOK
    PROVE  /\ winStart \in Nat /\ next \in Nat /\ base \in Nat /\ seq \in Nat
           /\ endSeq \in Nat /\ total \in Nat /\ wpos \in Nat /\ wrote \in Nat
           /\ NPackets \in Nat /\ NPackets >= 1
           /\ TotalPacket \in Nat /\ TotalPacket >= 2
           /\ MaxWindow \in Nat /\ MaxWindow > TotalPacket
           /\ MaxPacket \in Nat /\ MaxPacket > NPackets + MaxWindow
           /\ SndWindow \in Nat /\ SndWindow > 0
BY RtpAssumption, MessageNumbers DEF RtpTypeOK
-----------------------------------------------------------------------------
(* The lengths of a message. *)

LEMMA Products ==
    ASSUME NEW x \in Nat, NEW a \in Nat, NEW b \in Nat
    PROVE  /\ x * a \in Nat
           /\ x * (a + 1) = x * a + x
           /\ a <= b => x * (b - a) = x * b - x * a
           /\ a < b => x * a + x <= x * b
<1>1. x * a \in Nat
  BY Z3
<1>2. x * (a + 1) = x * a + x
  BY Z3
<1>3. x * (b - a) = x * b - x * a
  BY Z3
<1>4. a < b => x * a + x <= x * b
  BY Z3
<1> QED BY <1>1, <1>2, <1>3, <1>4

LEMMA LastLength ==
    /\ MsgLen = PacketSize * (NPackets - 1) + LenOf(NPackets - 1)
    /\ LenOf(NPackets - 1) \in Nat
    /\ MsgLen \in Nat /\ PacketSize \in Nat /\ PacketSize > 0
<1>0. MsgLen \in Nat /\ PacketSize \in Nat /\ PacketSize > 0
  BY RtpAssumption
<1>1. MsgLen % PacketSize = MsgLen - PacketSize * (MsgLen \div PacketSize)
  BY RtpAssumption
<1>2. MsgLen \div PacketSize \in Nat /\ MsgLen % PacketSize \in Nat
  BY RtpAssumption
<1>3. ASSUME NEW q \in Nat, NEW r \in Nat, r = MsgLen - PacketSize * q
      PROVE  MsgLen = PacketSize * q + r
  <2>1. PacketSize * q \in Nat
    BY <1>0, Products, Zenon
  <2>2. ASSUME NEW y \in Nat, r = MsgLen - y PROVE MsgLen = y + r
    BY <1>0, <2>2
  <2> QED BY <1>3, <2>1, <2>2
<1>4. MsgLen = PacketSize * (MsgLen \div PacketSize) + (MsgLen % PacketSize)
  BY <1>1, <1>2, <1>3
<1>5. NPackets - 1 = MsgLen \div PacketSize /\ LenOf(NPackets - 1) = MsgLen % PacketSize
  BY <1>2 DEF NPackets, LenOf
<1> QED BY <1>2, <1>4, <1>5, RtpAssumption

\* The message is its packets that are not empty, and only the last one can be.
LEMMA MessageFacts ==
    /\ Len(Message) \in Nat /\ Len(Message) <= NPackets /\ Len(Message) >= NPackets - 1
    /\ LenOf(NPackets - 1) = 0 <=> Len(Message) = NPackets - 1
    /\ \A i \in 0..NPackets-1 : LenOf(i) # 0 <=> i < Len(Message)
    /\ \A i \in 1..Len(Message) : Message[i] = [piece |-> i - 1, length |-> LenOf(i - 1)]
    /\ Message \in Seq([piece : Pieces, length : Nat])
<1> DEFINE K == IF MsgLen % PacketSize = 0 THEN NPackets - 1 ELSE NPackets
           S == [piece : Pieces, length : Nat]
           m == [i \in 1..K |-> [piece |-> i - 1, length |-> LenOf(i - 1)]]
<1>1. K \in Nat /\ K <= NPackets /\ K >= NPackets - 1 /\ NPackets \in Nat /\ NPackets >= 1
  BY MessageNumbers
<1>2. Message = m
  BY DEF Message
<1>3. LenOf(NPackets - 1) = MsgLen % PacketSize
  BY DEF LenOf
<1>4. \A i \in 0..NPackets-1 : LenOf(i) # 0 <=> i < K
  <2>1. SUFFICES ASSUME NEW i \in 0..NPackets-1 PROVE LenOf(i) # 0 <=> i < K
    OBVIOUS
  <2>2. CASE i = NPackets - 1
    BY <1>1, <1>3, <2>2
  <2>3. CASE i # NPackets - 1
    <3>1. i \in 0..NPackets-2
      BY <1>1, <2>3
    <3>2. LenOf(i) = PacketSize
      BY <3>1, MessageNumbers
    <3> QED BY <1>1, <3>1, <3>2, RtpAssumption
  <2> QED BY <2>2, <2>3
<1>5. LenOf(NPackets - 1) = 0 <=> K = NPackets - 1
  BY <1>1, <1>3
<1> HIDE DEF K
<1>6. m \in [1..K -> S]
  <2>1. \A i \in 1..K : i - 1 \in Nat /\ LenOf(i - 1) \in Nat
    BY <1>1, MessageNumbers
  <2> QED BY <2>1 DEF Pieces
<1>7. m \in Seq(S) /\ DOMAIN m = 1..K
  BY <1>1, <1>6, SeqDef
<1>8. Len(m) \in Nat /\ DOMAIN m = 1..Len(m)
  BY <1>7, LenProperties
<1>9. Len(m) = K
  <2> HIDE DEF m
  <2> QED BY <1>1, <1>7, <1>8
<1>10. \A i \in 1..K : m[i] = [piece |-> i - 1, length |-> LenOf(i - 1)]
  OBVIOUS
<1> HIDE DEF m
<1> QED BY <1>1, <1>2, <1>4, <1>5, <1>7, <1>9, <1>10

LEMMA BytesFacts ==
    /\ \A i \in Nat : BytesBefore(i) \in Nat
    /\ \A i \in 0..NPackets-1 : BytesBefore(i + 1) = BytesBefore(i) + LenOf(i)
    /\ \A i \in Nat : i >= Len(Message) => BytesBefore(i) = MsgLen
    /\ \A i \in Nat : i < Len(Message) => BytesBefore(i) < MsgLen
    /\ \A i, j \in Nat : i < j /\ i < Len(Message) => BytesBefore(i) < BytesBefore(j)
<1>1. /\ NPackets \in Nat /\ NPackets >= 1 /\ MsgLen \in Nat
      /\ PacketSize \in Nat /\ PacketSize > 0
  BY MessageNumbers, LastLength
<1>2. ASSUME NEW i \in Nat, NEW j \in Nat, i < j
      PROVE  PacketSize * i + PacketSize <= PacketSize * j /\ PacketSize * i \in Nat
  BY <1>1, <1>2, Products, Zenon
<1>3. ASSUME NEW i \in Nat PROVE PacketSize * (i + 1) = PacketSize * i + PacketSize
  BY <1>1, <1>3, Products, Zenon
<1>4. ASSUME NEW i \in Nat PROVE BytesBefore(i) \in Nat
  <2>1. i < i + 1 /\ i + 1 \in Nat
    OBVIOUS
  <2>2. PacketSize * i \in Nat
    BY <1>2, <2>1
  <2> QED BY <1>1, <2>2 DEF BytesBefore
<1>5. ASSUME NEW i \in 0..NPackets-1
      PROVE  BytesBefore(i + 1) = BytesBefore(i) + LenOf(i)
  <2>0. BytesBefore(i) = PacketSize * i
    BY <1>1 DEF BytesBefore
  <2>1. CASE i = NPackets - 1
    <3>1. BytesBefore(i + 1) = MsgLen
      BY <1>1, <2>1 DEF BytesBefore
    <3> QED BY <2>0, <2>1, <3>1, LastLength
  <2>2. CASE i # NPackets - 1
    <3>1. i \in 0..NPackets-2
      BY <1>1, <2>2
    <3>2. LenOf(i) = PacketSize
      BY <3>1, MessageNumbers
    <3>3. BytesBefore(i + 1) = PacketSize * (i + 1)
      BY <1>1, <3>1 DEF BytesBefore
    <3> QED BY <1>3, <2>0, <3>2, <3>3
  <2> QED BY <2>1, <2>2
<1>6. ASSUME NEW i \in Nat, i >= Len(Message) PROVE BytesBefore(i) = MsgLen
  <2>1. CASE i >= NPackets
    BY <2>1 DEF BytesBefore
  <2>2. CASE ~(i >= NPackets)
    <3>1. i = NPackets - 1 /\ Len(Message) = NPackets - 1
      BY <1>1, <1>6, <2>2, MessageFacts
    <3>2. BytesBefore(i) = PacketSize * (NPackets - 1) /\ LenOf(NPackets - 1) = 0
      BY <2>2, <3>1, MessageFacts DEF BytesBefore
    <3>3. PacketSize * (NPackets - 1) \in Nat
      BY <1>4, <3>2
    <3> QED BY <3>2, <3>3, LastLength
  <2> QED BY <2>1, <2>2
<1>7. ASSUME NEW i \in Nat, i < Len(Message)
      PROVE  i \in 0..NPackets-1 /\ LenOf(i) \in Nat /\ LenOf(i) > 0
             /\ BytesBefore(i) = PacketSize * i
  <2>1. i \in 0..NPackets-1
    BY <1>1, <1>7, MessageFacts
  <2>2. LenOf(i) # 0 /\ LenOf(i) \in Nat
    BY <1>7, <2>1, MessageFacts, MessageNumbers
  <2>3. BytesBefore(i) = PacketSize * i
    BY <1>1, <2>1 DEF BytesBefore
  <2> QED BY <2>1, <2>2, <2>3
<1>8. ASSUME NEW i \in Nat, i < Len(Message) PROVE BytesBefore(i) < MsgLen
  <2>1. CASE i = NPackets - 1
    <3>1. PacketSize * i \in Nat
      BY <1>4, <1>7, <1>8
    <3> QED BY <1>7, <1>8, <2>1, <3>1, LastLength
  <2>2. CASE i # NPackets - 1
    <3>1. NPackets - 1 \in Nat /\ i < NPackets - 1
      BY <1>1, <1>7, <1>8, <2>2
    <3>2. /\ PacketSize * i + PacketSize <= PacketSize * (NPackets - 1)
          /\ PacketSize * i \in Nat
      BY <1>2, <3>1
    <3>3. PacketSize * (NPackets - 1) \in Nat
      <4>1. NPackets - 1 < NPackets
        BY <1>1
      <4> QED BY <1>1, <1>2, <3>1, <4>1
    <3>4. ASSUME NEW x \in Nat, NEW y \in Nat, x + PacketSize <= y, NEW l \in Nat
          PROVE  x < y + l
      BY <1>1, <3>4
    <3>5. PacketSize * i < PacketSize * (NPackets - 1) + LenOf(NPackets - 1)
      BY <3>2, <3>3, <3>4, LastLength, Zenon
    <3> QED BY <1>7, <1>8, <3>5, LastLength, Zenon
  <2> QED BY <2>1, <2>2
<1>9. ASSUME NEW i \in Nat, NEW j \in Nat, i < j, i < Len(Message)
      PROVE  BytesBefore(i) < BytesBefore(j)
  <2>1. CASE j >= Len(Message)
    BY <1>6, <1>8, <1>9, <2>1
  <2>2. CASE ~(j >= Len(Message))
    <3>1. j < Len(Message)
      BY <2>2, MessageFacts
    <3>2. BytesBefore(i) = PacketSize * i /\ BytesBefore(j) = PacketSize * j
      BY <1>7, <1>9, <3>1
    <3>3. PacketSize * i + PacketSize <= PacketSize * j /\ PacketSize * i \in Nat
      BY <1>2, <1>9
    <3>4. PacketSize * j \in Nat
      BY <1>4, <3>2
    <3> QED BY <1>1, <3>2, <3>3, <3>4
  <2> QED BY <2>1, <2>2
<1> QED BY <1>4, <1>5, <1>6, <1>8, <1>9

-----------------------------------------------------------------------------
(* The bytes of a set of packets. *)

LEMMA BytesOfNone == BytesIn({}) = 0
<1>1. {} \ {NPackets - 1} = {} /\ NPackets - 1 \notin {}
  OBVIOUS
<1> QED BY <1>1, FS_EmptySet, LastLength DEF BytesIn

LEMMA BytesOfOneMore ==
    ASSUME NEW S, IsFiniteSet(S), NEW p \in 0..NPackets-1, p \notin S
    PROVE  BytesIn(S \cup {p}) = BytesIn(S) + LenOf(p)
<1> DEFINE last == NPackets - 1
           T == S \ {last}
<1>1. IsFiniteSet(T) /\ Cardinality(T) \in Nat
  BY FS_RemoveElement, FS_CardinalityType
<1>2. PacketSize * Cardinality(T) \in Nat /\ LenOf(last) \in Nat /\ PacketSize \in Nat
  BY <1>1, Products, LastLength, Zenon
<1>3. CASE p = last
  <2>1. (S \cup {p}) \ {last} = T /\ last \in S \cup {p} /\ last \notin S
    BY <1>3
  <2> QED BY <1>2, <1>3, <2>1 DEF BytesIn
<1>4. CASE p # last
  <2>1. (S \cup {p}) \ {last} = T \cup {p} /\ p \notin T /\ (last \in S \cup {p} <=> last \in S)
    BY <1>4
  <2>2. Cardinality(T \cup {p}) = Cardinality(T) + 1
    BY <1>1, <2>1, FS_AddElement
  <2>3. p \in 0..NPackets-2
    BY <1>4, MessageNumbers
  <2>4. LenOf(p) = PacketSize
    BY <2>3, MessageNumbers
  <2>5. PacketSize * (Cardinality(T) + 1) = PacketSize * Cardinality(T) + PacketSize
    BY <1>1, <1>2, Products, Zenon
  <2>6. BytesIn(S \cup {p}) = PacketSize * (Cardinality(T) + 1)
                                + (IF last \in S THEN LenOf(last) ELSE 0)
    BY <2>1, <2>2 DEF BytesIn
  <2>7. BytesIn(S) = PacketSize * Cardinality(T) + (IF last \in S THEN LenOf(last) ELSE 0)
    BY DEF BytesIn
  <2> HIDE DEF last, T
  <2> QED BY <1>2, <2>4, <2>5, <2>6, <2>7
<1> QED BY <1>3, <1>4

\* The bytes of consecutive packets.
LEMMA BytesOfInterval ==
    ASSUME NEW a \in Nat, NEW b \in Nat, a <= b, b <= Len(Message)
    PROVE  BytesIn(a..(b - 1)) = BytesBefore(b) - BytesBefore(a)
<1>0. /\ NPackets \in Nat /\ NPackets >= 1 /\ b <= NPackets
      /\ PacketSize \in Nat /\ MsgLen \in Nat
  BY MessageFacts, MessageNumbers, LastLength
<1>1. CASE a = b
  <2>1. a..(b - 1) = {}
    BY <1>1
  <2> QED BY <1>1, <2>1, BytesOfNone, BytesFacts
<1>2. CASE a < b /\ b = NPackets
  <2>0. NPackets - 1 \in Nat /\ a <= NPackets - 1
    BY <1>0, <1>2
  <2>1. (a..(b - 1)) \ {NPackets - 1} = a..(NPackets - 2) /\ NPackets - 1 \in a..(b - 1)
    BY <1>0, <1>2
  <2>2. Cardinality(a..(NPackets - 2)) = NPackets - 1 - a
    <3> DEFINE c == NPackets - 2
    <3>1. c \in Int /\ a \in Int /\ c = NPackets - 2 /\ a <= c + 1
      BY <1>0, <1>2
    <3>2. SUFFICES Cardinality(a..c) = NPackets - 1 - a
      OBVIOUS
    <3> HIDE DEF c
    <3>3. Cardinality(a..c) = IF a > c THEN 0 ELSE c - a + 1
      BY <3>1, FS_Interval
    <3> QED BY <1>0, <3>1, <3>3
  <2>3. BytesIn(a..(b - 1)) = PacketSize * (NPackets - 1 - a) + LenOf(NPackets - 1)
    BY <2>1, <2>2 DEF BytesIn
  <2>4. BytesBefore(a) = PacketSize * a /\ BytesBefore(b) = MsgLen
    BY <1>0, <1>2 DEF BytesBefore
  <2>5. PacketSize * (NPackets - 1 - a) = PacketSize * (NPackets - 1) - PacketSize * a
    <3>1. ASSUME NEW c \in Nat, a <= c
          PROVE  PacketSize * (c - a) = PacketSize * c - PacketSize * a
      BY <1>0, <3>1, Products
    <3> QED BY <2>0, <3>1, Zenon
  <2>6. PacketSize * a \in Nat /\ PacketSize * (NPackets - 1) \in Nat
    BY <1>0, <2>0, Products, Zenon
  <2>7. ASSUME NEW x \in Nat, NEW y \in Nat, NEW l \in Nat
        PROVE  (x - y) + l = (x + l) - y
    OBVIOUS
  <2>8. (PacketSize * (NPackets - 1) - PacketSize * a) + LenOf(NPackets - 1)
          = (PacketSize * (NPackets - 1) + LenOf(NPackets - 1)) - PacketSize * a
    BY <2>6, <2>7, LastLength, Zenon
  <2> QED BY <2>3, <2>4, <2>5, <2>8, LastLength, Zenon
<1>3. CASE a < b /\ b # NPackets
  <2>1. (a..(b - 1)) \ {NPackets - 1} = a..(b - 1) /\ NPackets - 1 \notin a..(b - 1)
    BY <1>0, <1>3
  <2>2. Cardinality(a..(b - 1)) = b - a
    BY <1>0, <1>3, FS_Interval
  <2>3. BytesIn(a..(b - 1)) = PacketSize * (b - a) + 0
    BY <2>1, <2>2 DEF BytesIn
  <2>4. BytesBefore(a) = PacketSize * a /\ BytesBefore(b) = PacketSize * b
    BY <1>0, <1>3 DEF BytesBefore
  <2>5. PacketSize * (b - a) = PacketSize * b - PacketSize * a
    BY <1>0, Products
  <2>6. PacketSize * a \in Nat /\ PacketSize * b \in Nat
    BY <1>0, Products, Zenon
  <2> QED BY <2>3, <2>4, <2>5, <2>6
<1> QED BY <1>1, <1>2, <1>3

-----------------------------------------------------------------------------
(* Type correctness. *)

LEMMA InitTypeOK == RtpInit => RtpTypeOK
BY RtpAssumption DEF RtpInit, RtpTypeOK, SenderStates, ReceiverStates, Pieces

LEMMA StepTypeOK == RtpTypeOK /\ [EitherStep]_rtpVars => RtpTypeOK'
<1> SUFFICES ASSUME RtpTypeOK, [EitherStep]_rtpVars PROVE RtpTypeOK'
  OBVIOUS
<1> DEFINE SndType == spc \in SenderStates /\ winStart \in Nat /\ next \in Nat
           RcvType == /\ rpc \in ReceiverStates
                      /\ base \in Nat /\ seq \in Nat /\ endSeq \in Nat /\ total \in Nat
                      /\ rec \in [0..MaxWindow-1 -> Nat]
                      /\ buf \in [0..TotalPacket-1 -> Pieces]
                      /\ wpos \in Nat /\ wrote \in Nat
                      /\ file \in Seq([piece : Pieces, length : Nat])
           NetType == toReceiver \in Seq(Packet) /\ toSender \in Seq(Packet)
<1>0. /\ SndType /\ RcvType /\ NetType
      /\ (SndType /\ RcvType /\ NetType)' => RtpTypeOK'
  BY DEF RtpTypeOK
<1>a. UNCHANGED receiverVars => RcvType'
  BY <1>0 DEF receiverVars, readVars, writeVars
<1>b. UNCHANGED senderVars => SndType'
  BY <1>0 DEF senderVars
<1>1. CASE SendStart
  <2>1. NetType'
    BY <1>0, <1>1, PutElements, PacketTypes DEF SendStart
  <2>2. SndType' /\ RcvType'
    BY <1>0, <1>a, <1>1 DEF SendStart, SenderStates
  <2> QED BY <1>0, <2>1, <2>2
<1>2. CASE StartAcked
  <2>1. NetType'
    BY <1>0, <1>2, RecvStatusType DEF StartAcked
  <2>2. SndType' /\ RcvType'
    BY <1>0, <1>a, <1>2 DEF StartAcked, SenderStates
  <2> QED BY <1>0, <2>1, <2>2
<1>3. CASE StartNotAcked
  <2>1. NetType'
    BY <1>0, <1>3, PutElements, PacketTypes, RecvStatusType DEF StartNotAcked
  <2>2. SndType' /\ RcvType'
    BY <1>0, <1>a, <1>3 DEF StartNotAcked, SenderStates
  <2> QED BY <1>0, <2>1, <2>2
<1>4. CASE SendsOrSkips
  <2>1. NetType'
    <3>1. DataPacket(next) \in Packet
      BY <1>0, PacketTypes
    <3>2. Put(toReceiver, DataPacket(next)) \in Seq(Packet)
      BY <1>0, <3>1, PutElements
    <3> QED BY <1>0, <1>4, <3>2 DEF SendsOrSkips
  <2>2. SndType' /\ RcvType'
    BY <1>0, <1>a, <1>4 DEF SendsOrSkips, SenderStates
  <2> QED BY <1>0, <2>1, <2>2
<1>5. CASE MovesWindow
  <2>1. PICK s \in AckNumbers :
          /\ GetsAck(s)
          /\ winStart' \in {s, winStart} \/ winStart' \in winStart..(winStart + MaxWindow)
    BY <1>5 DEF MovesWindow
  <2>2. toSender' \in Seq(Packet) /\ s \in Nat
    BY <1>0, <2>1, RecvStatusType
  <2>3. NetType'
    BY <1>0, <1>5, <2>2 DEF MovesWindow
  <2>4. winStart' \in Nat
    BY <1>0, <2>1, <2>2, RtpAssumption
  <2>5. SndType' /\ RcvType'
    BY <1>0, <1>a, <1>5, <2>4 DEF MovesWindow
  <2> QED BY <1>0, <2>3, <2>5
<1>6. CASE EndRound
  <2>1. toSender' \in Seq(Packet)
    BY <1>0, <1>6, RecvStatusType DEF EndRound
  <2>2. toReceiver' \in Seq(Packet)
    <3>1. CASE UNCHANGED toReceiver
      BY <1>0, <3>1
    <3>2. CASE toReceiver' = Put(toReceiver, StatusPacket("END", winStart))
      BY <1>0, <3>2, PutElements, PacketTypes
    <3> QED BY <1>6, <3>1, <3>2 DEF EndRound
  <2>3. SndType' /\ RcvType'
    BY <1>0, <1>a, <1>6 DEF EndRound, RestartWindow, SenderStates
  <2> QED BY <1>0, <2>1, <2>2, <2>3
<1>7. CASE FinishSending
  <2>1. NetType'
    BY <1>0, <1>7, RecvStatusType DEF FinishSending
  <2>2. SndType' /\ RcvType'
    BY <1>0, <1>a, <1>7 DEF FinishSending, SenderStates
  <2> QED BY <1>0, <2>1, <2>2
<1>8. CASE ListenAccept
  <2>1. PICK k \in Deliverable(toReceiver) :
          /\ toReceiver' = Without(toReceiver, k)
          /\ toSender' = Put(toSender, StatusPacket("START_ACK", toReceiver[k].seq))
    BY <1>8 DEF ListenAccept
  <2>2. NetType'
    BY <1>0, <2>1, ReceivedType, PutElements, PacketTypes
  <2>3. SndType' /\ RcvType'
    BY <1>0, <1>b, <1>8 DEF ListenAccept, ReceiverStates, readVars, writeVars
  <2> QED BY <1>0, <2>2, <2>3
<1>9. CASE ListenRefuse
  <2>1. NetType'
    BY <1>0, <1>9, ReceivedType DEF ListenRefuse
  <2>2. SndType' /\ RcvType'
    BY <1>0, <1>b, <1>9 DEF ListenRefuse, ReceiverStates, readVars, writeVars
  <2> QED BY <1>0, <2>1, <2>2
<1>10. CASE DropPacket
  <2>1. NetType'
    BY <1>0, <1>10, ReceivedType DEF DropPacket
  <2>2. SndType' /\ RcvType'
    BY <1>0, <1>a, <1>b, <1>10 DEF DropPacket
  <2> QED BY <1>0, <2>1, <2>2
<1>11. CASE AcceptEnd
  <2>1. PICK k \in Deliverable(toReceiver) :
          /\ AdvanceSeq(toReceiver[k])
          /\ endSeq' = toReceiver[k].seq
          /\ toSender' = Put(toSender, StatusPacket("END_ACK", toReceiver[k].seq))
          /\ toReceiver' = Without(toReceiver, k)
    BY <1>11 DEF AcceptEnd
  <2>2. endSeq' \in Nat /\ seq' \in Nat
    BY <1>0, <2>1, ReceivedType, AdvanceSeqType
  <2>3. NetType'
    BY <1>0, <2>1, ReceivedType, PutElements, PacketTypes
  <2>4. SndType' /\ RcvType'
    BY <1>0, <1>b, <1>11, <2>2 DEF AcceptEnd, writeVars
  <2> QED BY <1>0, <2>3, <2>4
<1>12. CASE AcceptsPacket
  <2>1. PICK k \in Deliverable(toReceiver) :
          /\ AdvanceSeq(toReceiver[k])
          /\ IfNewCount(toReceiver[k])
          /\ Record(toReceiver[k]) \/ UNCHANGED <<rec, buf>>
          /\ \E n \in {toReceiver[k].seq, seq'} :
               toSender' = Put(toSender, StatusPacket("DATA_ACK", n))
          /\ toReceiver' = Without(toReceiver, k)
    BY <1>12 DEF AcceptsPacket
  <2> DEFINE p == toReceiver[k]
  <2>2. p.seq \in Nat /\ p.length \in Nat /\ toReceiver' \in Seq(Packet)
    BY <1>0, <2>1, ReceivedType
  <2>3. seq' \in Nat /\ total' \in Nat
    BY <1>0, <2>1, <2>2, AdvanceSeqType DEF IfNewCount
  <2>4. /\ rec' \in [0..MaxWindow-1 -> Nat]
        /\ buf' \in [0..TotalPacket-1 -> Pieces]
    BY <1>0, <2>1, <2>2 DEF Record, Pieces
  <2>5. NetType'
    <3>1. PICK n \in {p.seq, seq'} : toSender' = Put(toSender, StatusPacket("DATA_ACK", n))
      BY <2>1
    <3>2. n \in Nat
      BY <2>2, <2>3
    <3> QED BY <1>0, <2>2, <3>1, <3>2, PutElements, PacketTypes
  <2>6. SndType' /\ RcvType'
    BY <1>0, <1>b, <1>12, <2>3, <2>4 DEF AcceptsPacket, writeVars
  <2> QED BY <1>0, <2>5, <2>6
<1>13. CASE ReturnChunk
  BY <1>0, <1>b, <1>13 DEF ReturnChunk, ReceiverStates, readVars
<1>14. CASE WriteOne
  <2> DEFINE n == rec[wpos % MaxWindow]
             piece == [piece |-> Content(wpos - base), length |-> n]
  <2>1. /\ rpc = "write" /\ wrote' = wrote + n /\ wpos' = wpos + 1
        /\ file' = IF n = 0 THEN file ELSE Append(file, piece)
        /\ UNCHANGED <<senderVars, rpc, readVars, toReceiver, toSender>>
    BY <1>14 DEF WriteOne
  <2>2. n \in Nat
    BY <1>0, RtpAssumption
  <2>3. Content(wpos - base) \in Pieces
    BY <1>0 DEF Content, Pieces
  <2>4. file' \in Seq([piece : Pieces, length : Nat])
    <3>1. piece \in [piece : Pieces, length : Nat]
      BY <2>2, <2>3
    <3> HIDE DEF n, piece
    <3>2. Append(file, piece) \in Seq([piece : Pieces, length : Nat])
      BY <1>0, <3>1, AppendProperties
    <3> QED BY <1>0, <2>1, <3>2
  <2>5. SndType' /\ RcvType' /\ NetType'
    BY <1>0, <1>b, <2>1, <2>2, <2>4 DEF readVars
  <2> QED BY <1>0, <2>5
<1>15. CASE NextChunk
  BY <1>0, <1>b, <1>15, RtpAssumption
     DEF NextChunk, ClearRecord, SaveSeq, ReceiverStates, writeVars
<1>16. CASE NetworkFault
  <2>1. NetType'
    BY <1>0, <1>16, FaultElements DEF NetworkFault
  <2>2. SndType' /\ RcvType'
    BY <1>0, <1>a, <1>b, <1>16 DEF NetworkFault
  <2> QED BY <1>0, <2>1, <2>2
<1>17. CASE UNCHANGED rtpVars
  BY <1>0, <1>a, <1>b, <1>17 DEF rtpVars
<1> QED
  BY <1>1, <1>2, <1>3, <1>4, <1>5, <1>6, <1>7, <1>8, <1>9, <1>10, <1>11, <1>12,
     <1>13, <1>14, <1>15, <1>16, <1>17
     DEF EitherStep, SenderStep, ReceiverStep

-----------------------------------------------------------------------------
(* The parts of IInv that a step leaves alone. *)

\* A channel whose datagrams were all in it before stays sound.
LEMMA RequestsKept ==
    ASSUME RtpTypeOK, RequestsSound,
           \A p \in Packet : SoundRequest(p) => SoundRequest(p)',
           \A j \in DOMAIN toReceiver' :
              \/ SoundRequest(toReceiver[j])'
              \/ \E i \in DOMAIN toReceiver : toReceiver'[j] = toReceiver[i]
    PROVE  RequestsSound'
<1>1. \A i \in DOMAIN toReceiver : toReceiver[i] \in Packet
  BY ElementOfSeq, LenProperties DEF RtpTypeOK
<1> QED BY <1>1 DEF RequestsSound, SoundRequest

LEMMA AnswersKept ==
    ASSUME RtpTypeOK, AnswersSound,
           \A p \in Packet : SoundAnswer(p) => SoundAnswer(p)',
           \A j \in DOMAIN toSender' :
              \/ SoundAnswer(toSender[j])'
              \/ \E i \in DOMAIN toSender : toSender'[j] = toSender[i]
    PROVE  AnswersSound'
<1>1. \A i \in DOMAIN toSender : toSender[i] \in Packet
  BY ElementOfSeq, LenProperties DEF RtpTypeOK
<1> QED BY <1>1 DEF AnswersSound, SoundAnswer

\* The parts of the invariant about the receiver alone.
LEMMA ReceiverFrame ==
    ASSUME IInv, UNCHANGED receiverVars
    PROVE  /\ SlotsSound' /\ EmptyChunk'
           /\ UNCHANGED <<rpc, base, seq, endSeq, total, rec, buf>>
BY DEF IInv, SlotsSound, EmptyChunk, receiverVars, readVars

-----------------------------------------------------------------------------
(* The initial states. *)

LEMMA InitIInv == ASSUME CleanStack PROVE RtpInit => IInv
<1> SUFFICES ASSUME RtpInit PROVE IInv
  OBVIOUS
<1>1. RtpTypeOK
  BY InitTypeOK
<1>2. \A s \in 0..MaxWindow-1 : rec[s] = 0
  BY DEF RtpInit, CleanStack
<1>3. NotConnected /\ ~Finishing /\ toReceiver = <<>> /\ toSender = <<>>
  BY DEF RtpInit, NotConnected, Finishing
<1>4. SlotsSound
  BY <1>1, <1>2, SlotInRecord, Numbers DEF SlotsSound
<1> QED
  BY <1>1, <1>2, <1>3, <1>4, Numbers
     DEF IInv, RtpInit, StartOnce, RequestsSound, AnswersSound, SenderSound,
         ChunkFilled, EmptyChunk, DoneAfterEnd, EndSound, UnconnectedSound, NotConnected

-----------------------------------------------------------------------------
(* The sender's steps. *)

LEMMA SendStartKeeps ==
    ASSUME IInv, RtpTypeOK', SendStart
    PROVE  IInv'
<1>1. /\ spc = "connect" /\ spc' = "await_start" /\ toReceiver = <<>> /\ toSender = <<>>
      /\ toReceiver' = Put(toReceiver, StatusPacket("START", 0))
      /\ UNCHANGED <<winStart, next, receiverVars, toSender>>
  BY DEF SendStart, IInv, StartOnce
<1>2. SlotsSound' /\ EmptyChunk' /\ UNCHANGED <<rpc, base, seq, endSeq, total, rec, buf>>
  BY <1>1, ReceiverFrame
<1>3. \A j \in DOMAIN toReceiver' : j = 1 /\ toReceiver'[j] = StatusPacket("START", 0)
  BY <1>1, RtpAssumption DEF Put
<1>4. StartOnce'
  BY <1>1, <1>2, <1>3 DEF IInv, StartOnce
<1>5. RequestsSound'
  BY <1>1, <1>3 DEF RequestsSound, SoundRequest, StatusPacket
<1>6. AnswersSound'
  BY <1>1 DEF AnswersSound
<1> QED
  BY <1>1, <1>2, <1>4, <1>5, <1>6
     DEF IInv, SenderSound, ChunkFilled, DoneAfterEnd, EndSound, UnconnectedSound,
         NotConnected, Finishing

\* What a receipt by the sender leaves of its channel.
LEMMA AnswerTaken ==
    ASSUME RtpTypeOK, AnswersSound,
           TimesOut \/ GetsCorrupt \/ \E s \in AckNumbers : GetsAck(s)
    PROVE  /\ \A j \in DOMAIN toSender' : \E i \in DOMAIN toSender : toSender'[j] = toSender[i]
           /\ toSender = <<>> => toSender' = <<>>
<1>1. CASE TimesOut
  BY <1>1 DEF TimesOut
<1>2. ASSUME ~TimesOut
      PROVE  \E k \in DOMAIN toSender : toSender' = Without(toSender, k)
  BY <1>2, DeliverableInDomain DEF GetsCorrupt, GetsAck
<1>3. CASE ~TimesOut
  <2>1. PICK k \in DOMAIN toSender : toSender' = Without(toSender, k)
    BY <1>2, <1>3
  <2>2. toSender \in Seq(Packet)
    BY DEF RtpTypeOK
  <2>3. toSender # <<>>
    BY <2>1
  <2> QED BY <2>1, <2>2, <2>3, WithoutElements
<1> QED BY <1>1, <1>3

\* An ACK the sender takes is one that was sound.
LEMMA AckTaken ==
    ASSUME RtpTypeOK, AnswersSound, NEW s, GetsAck(s)
    PROVE  \E k \in DOMAIN toSender : SoundAnswer(toSender[k]) /\ toSender[k].seq = s
BY DeliverableInDomain DEF GetsAck, AnswersSound

LEMMA StartAckedKeeps ==
    ASSUME IInv, RtpTypeOK', StartAcked
    PROVE  IInv'
<1> USE DEF NotConnected, Finishing
<1>1. /\ spc = "await_start" /\ spc' = "send" /\ winStart' = 0 /\ next' = 0
      /\ \E s \in AckNumbers : GetsAck(s)
      /\ UNCHANGED <<receiverVars, toReceiver>>
  BY DEF StartAcked
<1>2. SlotsSound' /\ EmptyChunk' /\ UNCHANGED <<rpc, base, seq, endSeq, total, rec, buf>>
  BY <1>1, ReceiverFrame
<1>3. toSender # <<>>
  BY <1>1 DEF AckNumbers
<1>4. rpc \notin {"listen", "failed", "done"} /\ base = 0 /\ seq = 0 /\ endSeq = MaxPacket
  BY <1>1, <1>3 DEF IInv, DoneAfterEnd, EndSound, UnconnectedSound
<1>5. StartOnce'
  BY <1>1, <1>2 DEF IInv, StartOnce
<1>6. RequestsSound'
  BY <1>1 DEF IInv, RequestsSound, SoundRequest
<1>7. AnswersSound'
  <2>1. \A p \in Packet : SoundAnswer(p) => SoundAnswer(p)'
    BY <1>1, <1>2 DEF SoundAnswer
  <2> QED BY <1>1, <2>1, AnswerTaken, AnswersKept DEF IInv
<1> QED
  BY <1>1, <1>2, <1>4, <1>5, <1>6, <1>7, Numbers
     DEF IInv, SenderSound, ChunkFilled, DoneAfterEnd, EndSound, UnconnectedSound

LEMMA StartNotAckedKeeps ==
    ASSUME IInv, RtpTypeOK', StartNotAcked
    PROVE  IInv'
<1> USE DEF NotConnected, Finishing
<1>1. /\ spc = "await_start" /\ spc' = "failed" /\ (TimesOut \/ GetsCorrupt)
      /\ toReceiver' = Put(toReceiver, StatusPacket("END", 0))
      /\ UNCHANGED <<winStart, next, receiverVars>>
  BY DEF StartNotAcked
<1>2. SlotsSound' /\ EmptyChunk' /\ UNCHANGED <<rpc, base, seq, endSeq, total, rec, buf>>
  BY <1>1, ReceiverFrame
<1>3. \A j \in DOMAIN toReceiver' :
         \/ j \in DOMAIN toReceiver /\ toReceiver'[j] = toReceiver[j]
         \/ toReceiver'[j] = StatusPacket("END", 0)
  BY <1>1, PutElements, PacketTypes DEF IInv, RtpTypeOK
<1>4. StartOnce'
  BY <1>1, <1>2, <1>3 DEF IInv, StartOnce, StatusPacket
<1>5. RequestsSound'
  <2>1. \A p \in Packet : SoundRequest(p) => SoundRequest(p)'
    BY <1>1, <1>2 DEF SoundRequest
  <2>2. \A j \in DOMAIN toReceiver' :
           toReceiver'[j] = StatusPacket("END", 0) => SoundRequest(toReceiver[j])'
    BY <1>1 DEF SoundRequest, StatusPacket
  <2> QED BY <1>3, <2>1, <2>2, RequestsKept DEF IInv
<1>6. AnswersSound' /\ (toSender = <<>> => toSender' = <<>>)
  <2>1. \A p \in Packet : SoundAnswer(p) => SoundAnswer(p)'
    BY <1>1, <1>2 DEF SoundAnswer
  <2> QED BY <1>1, <2>1, AnswerTaken, AnswersKept DEF IInv
<1> QED
  BY <1>1, <1>2, <1>4, <1>5, <1>6
     DEF IInv, SenderSound, ChunkFilled, DoneAfterEnd, EndSound, UnconnectedSound

LEMMA SendsOrSkipsKeeps ==
    ASSUME IInv, RtpTypeOK', SendsOrSkips
    PROVE  IInv'
<1> USE DEF NotConnected, Finishing
<1>1. /\ spc = "send" /\ spc' \in {"send", "collect"} /\ next' = next + 1
      /\ spc' = "send" => next + 1 < WinEnd
      /\ toReceiver' \in {toReceiver, Put(toReceiver, DataPacket(next))}
      /\ UNCHANGED <<winStart, receiverVars, toSender>>
  BY DEF SendsOrSkips
<1>2. SlotsSound' /\ EmptyChunk' /\ UNCHANGED <<rpc, base, seq, endSeq, total, rec, buf>>
  BY <1>1, ReceiverFrame
<1>3. next \in Nat /\ next < NPackets /\ (spc' = "send" => next' < NPackets)
  BY <1>1, Numbers DEF IInv, SenderSound, WinEnd
<1>4. \A j \in DOMAIN toReceiver' :
         \/ j \in DOMAIN toReceiver /\ toReceiver'[j] = toReceiver[j]
         \/ toReceiver'[j] = DataPacket(next)
  <2>1. CASE toReceiver' = toReceiver
    BY <2>1
  <2>2. CASE toReceiver' = Put(toReceiver, DataPacket(next))
    BY <1>3, <2>2, PutElements, PacketTypes DEF IInv, RtpTypeOK
  <2> QED BY <1>1, <2>1, <2>2
<1>5. StartOnce'
  BY <1>1, <1>2, <1>4 DEF IInv, StartOnce, DataPacket
<1>6. RequestsSound'
  <2>1. \A p \in Packet : SoundRequest(p) => SoundRequest(p)'
    BY <1>1, <1>2 DEF SoundRequest
  <2>2. \A j \in DOMAIN toReceiver' :
           toReceiver'[j] = DataPacket(next) => SoundRequest(toReceiver[j])'
    BY <1>1, <1>3 DEF SoundRequest, DataPacket
  <2> QED BY <1>4, <2>1, <2>2, RequestsKept DEF IInv
<1>7. AnswersSound'
  BY <1>1, <1>2 DEF IInv, AnswersSound, SoundAnswer
<1> QED
  BY <1>1, <1>2, <1>3, <1>5, <1>6, <1>7
     DEF IInv, SenderSound, ChunkFilled, DoneAfterEnd, EndSound, UnconnectedSound

LEMMA MovesWindowKeeps ==
    ASSUME IInv, RtpTypeOK', MovesWindow
    PROVE  IInv'
<1> USE DEF NotConnected, Finishing
<1>1. /\ spc = "collect" /\ UNCHANGED <<spc, next, receiverVars, toReceiver>>
  BY DEF MovesWindow
<1>2. SlotsSound' /\ EmptyChunk' /\ UNCHANGED <<rpc, base, seq, endSeq, total, rec, buf>>
  BY <1>1, ReceiverFrame
<1>3. /\ winStart' \in Nat /\ winStart' <= NPackets + MaxWindow
      /\ \E s \in AckNumbers : GetsAck(s)
  <2>1. PICK s \in AckNumbers :
          /\ GetsAck(s)
          /\ \/ winStart' \in {s, winStart}
             \/ s = winStart /\ winStart' \in winStart..(winStart + MaxWindow)
    BY DEF MovesWindow
  <2>2. PICK k \in DOMAIN toSender : SoundAnswer(toSender[k]) /\ toSender[k].seq = s
    BY <2>1, AckTaken DEF IInv
  <2>3. s \in Nat /\ s <= NPackets
    <3>1. toSender[k] \in Packet
      BY ElementOfSeq, LenProperties DEF IInv, RtpTypeOK
    <3> QED BY <1>1, <2>2, <3>1, Numbers DEF IInv, SoundAnswer, Packet
  <2>4. RtpTypeOK /\ winStart <= NPackets + MaxWindow
    BY DEF IInv, SenderSound
  <2> QED BY <2>1, <2>3, <2>4, Numbers
<1>4. StartOnce' /\ RequestsSound'
  BY <1>1, <1>2 DEF IInv, StartOnce, RequestsSound, SoundRequest
<1>5. AnswersSound' /\ (toSender = <<>> => toSender' = <<>>)
  <2>1. \A p \in Packet : SoundAnswer(p) => SoundAnswer(p)'
    BY <1>1, <1>2 DEF SoundAnswer
  <2> QED BY <1>3, <2>1, AnswerTaken, AnswersKept DEF IInv
<1> QED
  BY <1>1, <1>2, <1>3, <1>4, <1>5
     DEF IInv, SenderSound, ChunkFilled, DoneAfterEnd, EndSound, UnconnectedSound

LEMMA EndRoundKeeps ==
    ASSUME IInv, RtpTypeOK', EndRound
    PROVE  IInv'
<1> USE DEF NotConnected, Finishing
<1>1. /\ spc = "collect" /\ (TimesOut \/ GetsCorrupt)
      /\ \/ /\ winStart < NPackets /\ spc' = "send" /\ next' = winStart
            /\ UNCHANGED toReceiver
         \/ /\ winStart >= NPackets /\ spc' = "await_end" /\ next' = next
            /\ toReceiver' = Put(toReceiver, StatusPacket("END", winStart))
      /\ UNCHANGED <<winStart, receiverVars>>
  BY Numbers DEF EndRound, AllAcked, RestartWindow, IInv, SenderSound
<1>2. SlotsSound' /\ EmptyChunk' /\ UNCHANGED <<rpc, base, seq, endSeq, total, rec, buf>>
  BY <1>1, ReceiverFrame
<1>3. \A j \in DOMAIN toReceiver' :
         \/ j \in DOMAIN toReceiver /\ toReceiver'[j] = toReceiver[j]
         \/ spc' = "await_end" /\ toReceiver'[j] = StatusPacket("END", winStart)
  <2>1. CASE UNCHANGED toReceiver
    BY <2>1
  <2>2. CASE spc' = "await_end" /\ toReceiver' = Put(toReceiver, StatusPacket("END", winStart))
    BY <2>2, PutElements, PacketTypes, Numbers DEF IInv, RtpTypeOK
  <2> QED BY <1>1, <2>1, <2>2
<1>4. StartOnce'
  BY <1>1, <1>2, <1>3 DEF IInv, StartOnce, StatusPacket
<1>5. RequestsSound'
  <2>1. \A p \in Packet : SoundRequest(p) => SoundRequest(p)'
    BY <1>1, <1>2 DEF SoundRequest
  <2>2. \A j \in DOMAIN toReceiver' :
           spc' = "await_end" /\ toReceiver'[j] = StatusPacket("END", winStart)
              => SoundRequest(toReceiver[j])'
    BY <1>1 DEF SoundRequest, StatusPacket
  <2> QED BY <1>3, <2>1, <2>2, RequestsKept DEF IInv
<1>6. AnswersSound' /\ (toSender = <<>> => toSender' = <<>>)
  <2>1. \A p \in Packet : SoundAnswer(p) => SoundAnswer(p)'
    BY <1>1, <1>2 DEF SoundAnswer
  <2> QED BY <1>1, <2>1, AnswerTaken, AnswersKept DEF IInv
<1> QED
  BY <1>1, <1>2, <1>4, <1>5, <1>6
     DEF IInv, SenderSound, ChunkFilled, DoneAfterEnd, EndSound, UnconnectedSound

LEMMA FinishSendingKeeps ==
    ASSUME IInv, RtpTypeOK', FinishSending
    PROVE  IInv'
<1> USE DEF NotConnected, Finishing
<1>1. /\ spc = "await_end" /\ spc' = "done"
      /\ TimesOut \/ GetsCorrupt \/ \E s \in AckNumbers : GetsAck(s)
      /\ UNCHANGED <<winStart, next, receiverVars, toReceiver>>
  BY DEF FinishSending
<1>2. SlotsSound' /\ EmptyChunk' /\ UNCHANGED <<rpc, base, seq, endSeq, total, rec, buf>>
  BY <1>1, ReceiverFrame
<1>3. StartOnce' /\ RequestsSound'
  BY <1>1, <1>2 DEF IInv, StartOnce, RequestsSound, SoundRequest
<1>4. AnswersSound' /\ (toSender = <<>> => toSender' = <<>>)
  <2>1. \A p \in Packet : SoundAnswer(p) => SoundAnswer(p)'
    BY <1>1, <1>2 DEF SoundAnswer
  <2> QED BY <1>1, <2>1, AnswerTaken, AnswersKept DEF IInv
<1> QED
  BY <1>1, <1>2, <1>3, <1>4
     DEF IInv, SenderSound, ChunkFilled, DoneAfterEnd, EndSound, UnconnectedSound

-----------------------------------------------------------------------------
(* The receiver's steps. *)

\* What a receipt by the receiver leaves of its channel.
LEMMA RequestTaken ==
    ASSUME RtpTypeOK, NEW k \in Deliverable(toReceiver), toReceiver' = Without(toReceiver, k)
    PROVE  /\ k \in DOMAIN toReceiver
           /\ \A j \in DOMAIN toReceiver' : \E i \in DOMAIN toReceiver :
                /\ toReceiver'[j] = toReceiver[i]
                /\ i # k
           /\ \A j1, j2 \in DOMAIN toReceiver' : j1 # j2 =>
                \E i1, i2 \in DOMAIN toReceiver :
                   /\ i1 # i2
                   /\ toReceiver'[j1] = toReceiver[i1] /\ toReceiver'[j2] = toReceiver[i2]
<1>1. k \in DOMAIN toReceiver /\ toReceiver \in Seq(Packet)
  BY DeliverableInDomain DEF RtpTypeOK
<1>2. \A j \in DOMAIN toReceiver' :
         /\ j \in DOMAIN toReceiver /\ j + 1 \in DOMAIN toReceiver /\ j \in Nat
         /\ toReceiver'[j] = IF j < k THEN toReceiver[j] ELSE toReceiver[j + 1]
  <2>1. DOMAIN toReceiver = 1..Len(toReceiver) /\ Len(toReceiver) \in Nat
    BY <1>1, LenProperties
  <2>2. \A j \in DOMAIN Without(toReceiver, k) :
           /\ j \in DOMAIN toReceiver /\ j + 1 \in DOMAIN toReceiver
           /\ Without(toReceiver, k)[j] = IF j < k THEN toReceiver[j] ELSE toReceiver[j + 1]
    BY <1>1, WithoutElements
  <2>3. \A j \in DOMAIN toReceiver : j \in Nat
    BY <2>1
  <2> QED BY <2>2, <2>3
<1>3. k \in Nat
  BY <1>1, LenProperties
<1> DEFINE from(j) == IF j < k THEN j ELSE j + 1
<1>4. \A j \in DOMAIN toReceiver' :
         from(j) \in DOMAIN toReceiver /\ toReceiver'[j] = toReceiver[from(j)] /\ from(j) # k
  BY <1>2, <1>3
<1>5. \A j1, j2 \in DOMAIN toReceiver' : j1 # j2 => from(j1) # from(j2)
  BY <1>2, <1>3
<1> HIDE DEF from
<1> QED BY <1>1, <1>4, <1>5

\* Requests stay sound while the sender stands still.
LEMMA RequestsStay ==
    ASSUME IInv, UNCHANGED senderVars,
           NEW k \in Deliverable(toReceiver), toReceiver' = Without(toReceiver, k)
    PROVE  RequestsSound'
<1>1. \A p \in Packet : SoundRequest(p) => SoundRequest(p)'
  BY DEF SoundRequest, senderVars, NotConnected, Finishing
<1>2. \A j \in DOMAIN toReceiver' : \E i \in DOMAIN toReceiver : toReceiver'[j] = toReceiver[i]
  BY RequestTaken DEF IInv
<1> QED BY <1>1, <1>2, RequestsKept DEF IInv

LEMMA StartOnceStays ==
    ASSUME IInv, UNCHANGED senderVars, spc # "connect",
           NEW k \in Deliverable(toReceiver), toReceiver' = Without(toReceiver, k),
           \/ rpc' = "failed"
           \/ rpc' = rpc
           \/ toReceiver[k].kind = "START"
    PROVE  StartOnce'
<1>1. \A i \in DOMAIN toReceiver : toReceiver[i].kind = "START" => rpc \in {"listen", "failed"}
  BY DEF IInv, StartOnce
<1>2. \A i, j \in DOMAIN toReceiver :
         toReceiver[i].kind = "START" /\ toReceiver[j].kind = "START" => i = j
  BY DEF IInv, StartOnce
<1>3. RtpTypeOK
  BY DEF IInv
<1>4. \A j1, j2 \in DOMAIN toReceiver' :
         toReceiver'[j1].kind = "START" /\ toReceiver'[j2].kind = "START" => j1 = j2
  <2>1. SUFFICES ASSUME NEW j1 \in DOMAIN toReceiver', NEW j2 \in DOMAIN toReceiver',
                        toReceiver'[j1].kind = "START", toReceiver'[j2].kind = "START",
                        j1 # j2
                 PROVE  FALSE
    OBVIOUS
  <2>2. PICK i1, i2 \in DOMAIN toReceiver :
          /\ i1 # i2
          /\ toReceiver'[j1] = toReceiver[i1] /\ toReceiver'[j2] = toReceiver[i2]
    BY <1>3, <2>1, RequestTaken
  <2> QED BY <1>2, <2>1, <2>2
<1>5. \A j \in DOMAIN toReceiver' :
         toReceiver'[j].kind = "START" => rpc' \in {"listen", "failed"}
  <2>1. SUFFICES ASSUME NEW j \in DOMAIN toReceiver', toReceiver'[j].kind = "START"
                 PROVE  rpc' \in {"listen", "failed"}
    OBVIOUS
  <2>2. PICK i \in DOMAIN toReceiver : toReceiver'[j] = toReceiver[i] /\ i # k
    BY <1>3, RequestTaken
  <2>3. k \in DOMAIN toReceiver
    BY <1>3, RequestTaken
  <2> QED BY <1>1, <1>2, <2>1, <2>2, <2>3
<1>6. spc' # "connect"
  BY DEF senderVars
<1> QED BY <1>4, <1>5, <1>6 DEF StartOnce

LEMMA ListenAcceptKeeps ==
    ASSUME IInv, RtpTypeOK', ListenAccept
    PROVE  IInv'
<1> USE DEF NotConnected, Finishing
<1>1. PICK k \in Deliverable(toReceiver) :
        /\ toReceiver[k].kind = "START"
        /\ toReceiver' = Without(toReceiver, k)
        /\ toSender' = Put(toSender, StatusPacket("START_ACK", toReceiver[k].seq))
  BY DEF ListenAccept
<1>2. /\ rpc = "listen" /\ rpc' = "recv"
      /\ UNCHANGED <<spc, winStart, next, base, seq, endSeq, total, rec, buf>>
      /\ UNCHANGED senderVars
  BY DEF ListenAccept, senderVars, readVars
<1>3. NotConnected /\ toSender = <<>> /\ spc # "connect"
  <2>1. k \in DOMAIN toReceiver
    BY <1>1, RequestTaken DEF IInv
  <2> QED BY <1>2, <2>1 DEF IInv, DoneAfterEnd, StartOnce
<1>4. StartOnce'
  BY <1>1, <1>2, <1>3, StartOnceStays
<1>5. RequestsSound'
  BY <1>1, <1>2, RequestsStay
<1>6. AnswersSound'
  <2>1. toReceiver[k].seq = 0
    BY <1>1, RequestTaken DEF IInv, RequestsSound, SoundRequest
  <2>2. \A j \in DOMAIN toSender' : toSender'[j] = StatusPacket("START_ACK", 0)
    BY <1>1, <1>3, <2>1 DEF Put
  <2> QED BY <2>2 DEF AnswersSound, SoundAnswer, StatusPacket
<1> QED
  BY <1>2, <1>3, <1>4, <1>5, <1>6
     DEF IInv, SenderSound, SlotsSound, ChunkFilled, EmptyChunk, DoneAfterEnd, EndSound,
         UnconnectedSound

LEMMA ListenRefuseKeeps ==
    ASSUME IInv, RtpTypeOK', ListenRefuse
    PROVE  IInv'
<1> USE DEF NotConnected, Finishing
<1>1. PICK k \in Deliverable(toReceiver) : toReceiver' = Without(toReceiver, k)
  BY DEF ListenRefuse
<1>2. /\ rpc = "listen" /\ rpc' = "failed" /\ UNCHANGED <<senderVars, toSender>>
      /\ UNCHANGED <<spc, winStart, next, base, seq, endSeq, total, rec, buf>>
  BY DEF ListenRefuse, senderVars, readVars
<1>3. NotConnected /\ toSender = <<>> /\ spc # "connect"
  <2>1. k \in DOMAIN toReceiver
    BY <1>1, RequestTaken DEF IInv
  <2> QED BY <1>2, <2>1 DEF IInv, DoneAfterEnd, StartOnce
<1>4. StartOnce'
  BY <1>1, <1>2, <1>3, StartOnceStays
<1>5. RequestsSound'
  BY <1>1, <1>2, RequestsStay
<1>6. AnswersSound'
  BY <1>2, <1>3 DEF AnswersSound
<1> QED
  BY <1>2, <1>3, <1>4, <1>5, <1>6
     DEF IInv, SenderSound, SlotsSound, ChunkFilled, EmptyChunk, DoneAfterEnd, EndSound,
         UnconnectedSound

LEMMA DropPacketKeeps ==
    ASSUME IInv, RtpTypeOK', DropPacket
    PROVE  IInv'
<1> USE DEF NotConnected, Finishing
<1>1. PICK k \in Deliverable(toReceiver) : toReceiver' = Without(toReceiver, k)
  BY DEF DropPacket
<1>2. rpc = "recv" /\ UNCHANGED <<senderVars, receiverVars, toSender>>
      /\ UNCHANGED <<spc, winStart, next>>
  BY DEF DropPacket, Receiving, senderVars
<1>3. SlotsSound' /\ EmptyChunk' /\ UNCHANGED <<rpc, base, seq, endSeq, total, rec, buf>>
  BY <1>2, ReceiverFrame
<1>4. spc # "connect"
  BY <1>2 DEF IInv, StartOnce
<1>5. StartOnce'
  BY <1>1, <1>2, <1>3, <1>4, StartOnceStays
<1>6. RequestsSound'
  BY <1>1, <1>2, RequestsStay
<1>7. AnswersSound'
  BY <1>2, <1>3 DEF IInv, AnswersSound, SoundAnswer
<1> QED
  BY <1>2, <1>3, <1>5, <1>6, <1>7
     DEF IInv, SenderSound, ChunkFilled, DoneAfterEnd, EndSound, UnconnectedSound

\* Answers stay sound while the sender stands still and the receiver moves up.
LEMMA AnswersStay ==
    ASSUME IInv, UNCHANGED senderVars, seq \in Nat, seq' \in Nat, seq' >= seq,
           \A j \in DOMAIN toSender' :
              \/ SoundAnswer(toSender[j])'
              \/ \E i \in DOMAIN toSender : toSender'[j] = toSender[i]
    PROVE  AnswersSound'
<1>1. \A p \in Packet : SoundAnswer(p) => SoundAnswer(p)'
  BY Numbers DEF SoundAnswer, senderVars, NotConnected, Finishing, Packet, IInv
<1> QED BY <1>1, AnswersKept DEF IInv

LEMMA AcceptEndKeeps ==
    ASSUME IInv, RtpTypeOK', AcceptEnd
    PROVE  IInv'
<1> USE DEF NotConnected, Finishing
<1>1. PICK k \in Deliverable(toReceiver) :
        /\ toReceiver[k].kind = "END" /\ InWindow(toReceiver[k])
        /\ AdvanceSeq(toReceiver[k])
        /\ endSeq' = toReceiver[k].seq
        /\ toSender' = Put(toSender, StatusPacket("END_ACK", toReceiver[k].seq))
        /\ toReceiver' = Without(toReceiver, k)
  BY DEF AcceptEnd
<1> DEFINE p == toReceiver[k]
<1>2. /\ rpc = "recv" /\ seq < endSeq /\ UNCHANGED senderVars
      /\ UNCHANGED <<spc, winStart, next, rpc, base, total, rec, buf>>
  BY DEF AcceptEnd, Receiving, senderVars
<1>3. RtpTypeOK /\ p \in Packet /\ p.seq \in Nat
  BY ReceivedType DEF IInv, RtpTypeOK
<1>4. seq <= NPackets /\ p.seq < base + TotalPacket /\ p.seq >= seq /\ base <= seq
  BY <1>1, <1>2, <1>3, Numbers DEF IInv, EndSound, ChunkFilled, InWindow
<1>5. \/ Finishing /\ p.seq >= NPackets
      \/ spc = "failed" /\ p.seq = 0 /\ seq = 0 /\ base = 0
  <2>1. \/ Finishing /\ p.seq = winStart
        \/ spc = "failed" /\ p.seq = 0
    BY <1>1, <1>3, RequestTaken DEF IInv, RequestsSound, SoundRequest
  <2> QED BY <1>3, <1>4, <2>1, Numbers DEF IInv, SenderSound, UnconnectedSound
<1>6. p.seq = seq => \/ Finishing /\ seq = NPackets
                     \/ spc = "failed" /\ seq = 0
  <2>1. seq \in Nat /\ NPackets \in Nat
    BY <1>3, Numbers
  <2> HIDE DEF p
  <2> QED BY <1>3, <1>4, <1>5, <2>1
<1>7. seq' = IF p.seq = seq THEN seq + 1 ELSE seq
  <2>1. ASSUME p.seq = seq PROVE rec[(seq + 1) % MaxWindow] = 0
    <3>1. CASE Finishing
      <4>1. seq + 1 \in base..(base + MaxWindow - 1)
        BY <1>3, <1>4, <2>1, Numbers
      <4> QED BY <1>3, <1>6, <2>1, <3>1, <4>1, Numbers DEF IInv, SlotsSound
    <3>2. CASE spc = "failed"
      BY <1>3, <3>2, SlotInRecord, Numbers DEF IInv, UnconnectedSound, EmptyChunk
    <3> QED BY <1>5, <3>1, <3>2
  <2>2. p.seq = seq => seq' \in FirstGap(seq + 1)
    BY <1>1 DEF AdvanceSeq
  <2>3. p.seq # seq => seq' = seq
    BY <1>1 DEF AdvanceSeq
  <2> QED BY <1>3, <2>1, <2>2, <2>3, Numbers DEF FirstGap
<1>8. StartOnce'
  <2>1. spc # "connect"
    BY <1>5
  <2> QED BY <1>1, <1>2, <2>1, StartOnceStays
<1>9. RequestsSound'
  BY <1>1, <1>2, RequestsStay
<1>10. AnswersSound'
  <2>1. \A j \in DOMAIN toSender' :
           \/ j \in DOMAIN toSender /\ toSender'[j] = toSender[j]
           \/ toSender'[j] = StatusPacket("END_ACK", p.seq)
    BY <1>1, <1>3, PutElements, PacketTypes DEF IInv, RtpTypeOK
  <2>2. \A j \in DOMAIN toSender' :
           toSender'[j] = StatusPacket("END_ACK", p.seq) => SoundAnswer(toSender[j])'
    BY <1>2, <1>5 DEF SoundAnswer, StatusPacket
  <2> QED BY <1>2, <1>3, <1>7, <2>1, <2>2, AnswersStay, Numbers
<1>11. SlotsSound' /\ EmptyChunk'
  BY <1>2 DEF IInv, SlotsSound, EmptyChunk
<1>12. ChunkFilled'
  BY <1>1, <1>2, <1>3, <1>5, <1>6, <1>7, Numbers DEF IInv, ChunkFilled, InWindow
<1>13. EndSound'
  <2>1. /\ seq \in Nat /\ base \in Nat /\ NPackets \in Nat /\ NPackets >= 1
        /\ MaxPacket \in Nat /\ MaxPacket > NPackets
        /\ endSeq' = p.seq
    BY <1>1, <1>3, Numbers
  <2> HIDE DEF p
  <2>2. CASE p.seq = seq
    BY <1>2, <1>4, <1>5, <1>6, <1>7, <2>1, <2>2 DEF EndSound
  <2>3. CASE p.seq # seq
    BY <1>2, <1>4, <1>5, <1>7, <2>1, <2>3 DEF EndSound
  <2> QED BY <2>2, <2>3
<1>14. SenderSound' /\ DoneAfterEnd'
  BY <1>2 DEF IInv, SenderSound, DoneAfterEnd
<1>15. UnconnectedSound'
  <2>1. endSeq' = MaxPacket => ~NotConnected
    BY <1>1, <1>3, <1>5, Numbers
  <2> QED BY <1>2, <2>1 DEF IInv, UnconnectedSound
<1> QED BY <1>8, <1>9, <1>10, <1>11, <1>12, <1>13, <1>14, <1>15 DEF IInv

LEMMA InRange ==
    \A a, b \in Nat : \A x \in a..(b - 1) : x \in Int /\ a <= x /\ x < b
OBVIOUS

\* What SlotsSound, ChunkFilled and FirstGap say of one number.
LEMMA SlotFacts ==
    ASSUME SlotsSound, NEW s \in Int, base <= s, s <= base + MaxWindow - 1,
           RtpTypeOK, rec[s % MaxWindow] # 0
    PROVE  /\ s < base + TotalPacket /\ s < NPackets
           /\ rec[s % MaxWindow] = LenOf(s) /\ buf[s - base] = s
<1>1. s \in base..(base + MaxWindow - 1)
  BY Numbers
<1> QED BY <1>1, Zenon DEF SlotsSound

LEMMA ChunkFacts ==
    ASSUME ChunkFilled, ~NotConnected, NEW i \in Int, base <= i, i < seq, i < NPackets, RtpTypeOK
    PROVE  rec[i % MaxWindow] = LenOf(i)
<1>1. i \in base..(seq - 1)
  BY Numbers
<1> QED BY <1>1, Zenon DEF ChunkFilled

LEMMA GapFacts ==
    ASSUME NEW s \in Nat, NEW t \in FirstGap(s)
    PROVE  /\ t \in Int /\ s <= t /\ t <= s + MaxWindow - 1
           /\ rec[t % MaxWindow] = 0
           /\ \A u \in Int : s <= u /\ u < t => rec[u % MaxWindow] # 0
<1>1. /\ t \in s..(s + MaxWindow - 1)
      /\ rec[t % MaxWindow] = 0
      /\ \A u \in s..(t - 1) : rec[u % MaxWindow] # 0
  BY Zenon DEF FirstGap
<1>2. t \in Int /\ s <= t /\ t <= s + MaxWindow - 1
  BY <1>1, RtpAssumption
<1>3. ASSUME NEW u \in Int, s <= u, u < t PROVE u \in s..(t - 1)
  BY <1>2, <1>3
<1> QED BY <1>1, <1>2, <1>3, Zenon

\* Where the expected number goes when the expected packet of the chunk arrives.
LEMMA GapInChunk ==
    ASSUME IInv, ~NotConnected, seq < NPackets, seq < base + TotalPacket,
           seq' \in FirstGap(seq + 1)
    PROVE  /\ seq' \in Nat /\ seq' > seq /\ seq' <= base + TotalPacket /\ seq' <= NPackets
           /\ \A u \in Int : seq < u /\ u < seq' => rec[u % MaxWindow] = LenOf(u)
<1>1. RtpTypeOK /\ SlotsSound /\ base <= seq
  BY DEF IInv, ChunkFilled
<1>2. /\ base \in Nat /\ seq \in Nat /\ seq + 1 \in Nat /\ NPackets \in Nat
      /\ TotalPacket \in Nat /\ MaxWindow \in Nat /\ MaxWindow > TotalPacket
  BY <1>1, Numbers
<1>3. /\ seq' \in Int /\ seq + 1 <= seq' /\ seq' <= seq + MaxWindow
      /\ \A u \in Int : seq + 1 <= u /\ u < seq' => rec[u % MaxWindow] # 0
  <2>1. /\ seq' \in Int /\ seq + 1 <= seq' /\ seq' <= seq + 1 + MaxWindow - 1
        /\ \A u \in Int : seq + 1 <= u /\ u < seq' => rec[u % MaxWindow] # 0
    BY <1>2, GapFacts, Zenon
  <2>2. seq' <= seq + MaxWindow
    BY <1>2, <2>1
  <2> QED BY <2>1, <2>2
<1>4. ASSUME NEW u \in Int, seq < u, u < seq', u <= base + MaxWindow - 1
      PROVE  /\ u < base + TotalPacket /\ u < NPackets /\ rec[u % MaxWindow] = LenOf(u)
  <2>1. base <= u /\ seq + 1 <= u
    BY <1>1, <1>2, <1>4
  <2> QED BY <1>1, <1>3, <1>4, <2>1, SlotFacts, Zenon
<1>5. seq' <= base + TotalPacket
  <2>1. SUFFICES ASSUME seq' > base + TotalPacket PROVE FALSE
    BY <1>2, <1>3
  <2> DEFINE v == base + TotalPacket
  <2>2. v \in Int /\ seq < v /\ v < seq' /\ v <= base + MaxWindow - 1 /\ ~(v < base + TotalPacket)
    BY <1>2, <2>1
  <2> HIDE DEF v
  <2> QED BY <1>4, <2>2
<1>6. ASSUME NEW u \in Int, seq < u, u < seq'
      PROVE  u < NPackets /\ rec[u % MaxWindow] = LenOf(u)
  <2>1. u <= base + MaxWindow - 1
    BY <1>2, <1>3, <1>5, <1>6
  <2> QED BY <1>4, <1>6, <2>1
<1>7. seq' <= NPackets
  <2>1. SUFFICES ASSUME seq' > NPackets PROVE FALSE
    BY <1>2, <1>3
  <2> QED BY <1>2, <1>6, <2>1
<1>8. seq' \in Nat /\ seq' > seq
  BY <1>2, <1>3
<1> QED BY <1>5, <1>6, <1>7, <1>8

\* What the step that accepts a packet of the message does to ack_record.
LEMMA AcceptsPacketEffect ==
    ASSUME IInv, AcceptsPacket
    PROVE  \E k \in Deliverable(toReceiver), i \in Nat :
             /\ i = toReceiver[k].seq /\ toReceiver[k].length = LenOf(i)
             /\ toReceiver[k].kind # "START"
             /\ AdvanceSeq(toReceiver[k]) /\ IfNewCount(toReceiver[k])
             /\ Record(toReceiver[k])
             /\ \E n \in {i, seq'} : toSender' = Put(toSender, StatusPacket("DATA_ACK", n))
             /\ toReceiver' = Without(toReceiver, k)
             /\ ~NotConnected /\ i < NPackets
             /\ i >= seq /\ i < base + TotalPacket /\ base <= seq
             /\ i % MaxWindow \in 0..MaxWindow-1 /\ i \in base..(base + MaxWindow - 1)
             /\ rec'[i % MaxWindow] = LenOf(i)
             /\ \A s \in base..(base + MaxWindow - 1) :
                  s # i => rec'[s % MaxWindow] = rec[s % MaxWindow]
<1>1. PICK k \in Deliverable(toReceiver) :
        /\ toReceiver[k].kind # "END" /\ InWindow(toReceiver[k])
        /\ AdvanceSeq(toReceiver[k])
        /\ IfNewCount(toReceiver[k])
        /\ \/ Record(toReceiver[k])
           \/ rec[toReceiver[k].seq % MaxWindow] # 0 /\ UNCHANGED <<rec, buf>>
        /\ \E n \in {toReceiver[k].seq, seq'} :
             toSender' = Put(toSender, StatusPacket("DATA_ACK", n))
        /\ toReceiver' = Without(toReceiver, k)
  BY DEF AcceptsPacket
<1> DEFINE p == toReceiver[k]
           slot == p.seq % MaxWindow
<1>2. /\ rpc = "recv" /\ seq < endSeq /\ seq < base + TotalPacket /\ UNCHANGED senderVars
      /\ UNCHANGED <<spc, winStart, next, rpc, base, endSeq>>
  BY DEF AcceptsPacket, Receiving, senderVars
<1>3. /\ RtpTypeOK /\ p \in Packet /\ p.seq \in Nat /\ p.length \in Nat
      /\ rec \in [0..MaxWindow-1 -> Nat] /\ buf \in [0..TotalPacket-1 -> Pieces]
  BY ReceivedType DEF IInv, RtpTypeOK
<1>4. p.kind # "START" /\ ~NotConnected /\ p.seq < NPackets /\ p.length = LenOf(p.seq)
  <2>1. p.kind # "START"
    BY <1>1, <1>2, <1>3, RequestTaken DEF IInv, StartOnce
  <2>2. SoundRequest(p)
    BY <1>1, <1>3, RequestTaken DEF IInv, RequestsSound
  <2> QED BY <1>1, <2>1, <2>2 DEF SoundRequest
<1>5. p.seq >= seq /\ p.seq < base + TotalPacket /\ base <= seq
  BY <1>1 DEF InWindow, IInv, ChunkFilled
<1>6. slot \in 0..MaxWindow-1 /\ p.seq \in base..(base + MaxWindow - 1)
  <2>1. p.seq % MaxWindow \in 0..MaxWindow-1
    BY <1>3, SlotInRecord, Zenon
  <2>2. /\ base \in Nat /\ seq \in Nat /\ TotalPacket \in Nat /\ MaxWindow \in Nat /\ MaxWindow > TotalPacket
    BY <1>3, Numbers
  <2>3. slot \in 0..MaxWindow-1
    BY <2>1
  <2> HIDE DEF p, slot
  <2>4. p.seq \in base..(base + MaxWindow - 1)
    BY <1>3, <1>5, <2>2
  <2> QED BY <2>3, <2>4
<1>a. Record(p)
  <2>1. SUFFICES ASSUME rec[slot] # 0, UNCHANGED <<rec, buf>> PROVE Record(p)
    BY <1>1
  <2>2. rec[slot] = LenOf(p.seq) /\ buf[p.seq - base] = p.seq
    BY <1>6, <2>1, Zenon DEF IInv, SlotsSound, slot
  <2>3. [rec EXCEPT ![slot] = LenOf(p.seq)] = rec
    BY <1>3, <2>2
  <2>4. [buf EXCEPT ![p.seq - base] = p.seq] = buf
    BY <1>3, <2>2
  <2>5. p.length # 0
    BY <1>4, <2>1, <2>2
  <2> QED BY <1>4, <2>1, <2>3, <2>4, <2>5 DEF Record
<1>7. /\ rec'[slot] = LenOf(p.seq)
      /\ \A s \in base..(base + MaxWindow - 1) :
           s # p.seq => rec'[s % MaxWindow] = rec[s % MaxWindow]
  <2>1. rec' = [rec EXCEPT ![slot] = LenOf(p.seq)]
    BY <1>4, <1>a DEF Record
  <2>2. \A s \in base..(base + MaxWindow - 1) :
           s # p.seq => s % MaxWindow # slot /\ s % MaxWindow \in 0..MaxWindow-1
    <3>1. base \in Nat /\ \A s \in base..(base + MaxWindow - 1) : s \in Nat
      BY <1>3, Numbers
    <3>2. ASSUME NEW s \in base..(base + MaxWindow - 1), s # p.seq
          PROVE  s % MaxWindow # p.seq % MaxWindow
      BY <1>6, <3>1, <3>2, SlotsDistinct, Zenon
    <3> QED BY <3>1, <3>2, SlotInRecord, Zenon
  <2> HIDE DEF p, slot
  <2> QED BY <1>3, <1>6, <2>1, <2>2, Zenon
<1>8. /\ toReceiver[k].seq = p.seq /\ toReceiver[k].length = LenOf(p.seq)
      /\ toReceiver[k].kind # "START"
  BY <1>4
<1>9. p.seq % MaxWindow \in 0..MaxWindow-1 /\ rec'[p.seq % MaxWindow] = LenOf(p.seq)
  BY <1>6, <1>7
<1> HIDE DEF p, slot
<1>10. /\ Record(toReceiver[k]) /\ toReceiver' = Without(toReceiver, k)
       /\ \E n \in {p.seq, seq'} : toSender' = Put(toSender, StatusPacket("DATA_ACK", n))
  BY <1>1, <1>8, <1>a DEF p
<1> QED BY <1>1, <1>3, <1>4, <1>5, <1>6, <1>7, <1>8, <1>9, <1>10, Zenon

LEMMA AcceptsPacketKeeps ==
    ASSUME IInv, RtpTypeOK', AcceptsPacket
    PROVE  IInv'
<1>1. PICK k \in Deliverable(toReceiver), num \in Nat :
        /\ num = toReceiver[k].seq /\ toReceiver[k].length = LenOf(num)
        /\ toReceiver[k].kind # "START"
        /\ AdvanceSeq(toReceiver[k]) /\ IfNewCount(toReceiver[k])
        /\ Record(toReceiver[k])
        /\ \E n \in {num, seq'} : toSender' = Put(toSender, StatusPacket("DATA_ACK", n))
        /\ toReceiver' = Without(toReceiver, k)
        /\ ~NotConnected /\ num < NPackets
        /\ num >= seq /\ num < base + TotalPacket /\ base <= seq
        /\ num % MaxWindow \in 0..MaxWindow-1 /\ num \in base..(base + MaxWindow - 1)
        /\ rec'[num % MaxWindow] = LenOf(num)
        /\ \A s \in base..(base + MaxWindow - 1) :
             s # num => rec'[s % MaxWindow] = rec[s % MaxWindow]
  BY AcceptsPacketEffect
<1> DEFINE p == toReceiver[k]
           slot == p.seq % MaxWindow
<1>2. /\ rpc = "recv" /\ seq < endSeq /\ seq < base + TotalPacket /\ UNCHANGED senderVars
      /\ UNCHANGED <<spc, winStart, next, rpc, base, endSeq>>
  BY DEF AcceptsPacket, Receiving, senderVars
<1>3. /\ RtpTypeOK /\ p \in Packet /\ p.seq \in Nat /\ p.length \in Nat
      /\ rec \in [0..MaxWindow-1 -> Nat] /\ buf \in [0..TotalPacket-1 -> Pieces]
  BY ReceivedType DEF IInv, RtpTypeOK
<1>4. ~NotConnected /\ p.seq < NPackets /\ p.length = LenOf(p.seq)
  BY <1>1
<1>5. seq <= NPackets
  BY <1>2, <1>3, <1>4, Numbers DEF IInv, EndSound, NotConnected
<1>6. p.seq >= seq /\ p.seq < base + TotalPacket /\ base <= seq
  BY <1>1
<1>7. /\ seq' \in Nat /\ seq' >= seq /\ seq' <= base + TotalPacket /\ seq' <= NPackets
      /\ p.seq # seq => seq' = seq
      /\ \A u \in Int : seq < u /\ u < seq' => rec[u % MaxWindow] = LenOf(u)
  <2>1. CASE p.seq = seq
    <3>1. seq' \in FirstGap(seq + 1)
      BY <1>1, <2>1 DEF AdvanceSeq
    <3>2. seq \in Nat
      BY <1>3, Numbers
    <3> HIDE DEF p, slot
    <3>3. /\ seq' \in Nat /\ seq' > seq /\ seq' <= base + TotalPacket /\ seq' <= NPackets
          /\ \A u \in Int : seq < u /\ u < seq' => rec[u % MaxWindow] = LenOf(u)
      BY <1>2, <1>4, <2>1, <3>1, GapInChunk, Zenon
    <3> QED BY <2>1, <3>2, <3>3
  <2>2. CASE p.seq # seq
    <3>1. seq' = seq
      BY <1>1, <2>2 DEF AdvanceSeq
    <3> HIDE DEF p, slot
    <3>2. seq \in Nat /\ seq <= NPackets /\ seq <= base + TotalPacket
      BY <1>2, <1>3, <1>5, Numbers DEF IInv, ChunkFilled
    <3> QED BY <2>2, <3>1, <3>2
  <2> QED BY <2>1, <2>2
<1>8. slot \in 0..MaxWindow-1 /\ p.seq \in base..(base + MaxWindow - 1)
  BY <1>1
<1>9. /\ rec'[slot] = LenOf(p.seq)
      /\ \A s \in base..(base + MaxWindow - 1) :
           s # p.seq => rec'[s % MaxWindow] = rec[s % MaxWindow]
  BY <1>1, Zenon
<1>10. /\ LenOf(p.seq) # 0 => buf'[p.seq - base] = p.seq
       /\ \A s \in base..(base + TotalPacket - 1) :
            s # p.seq => buf'[s - base] = buf[s - base]
  <2>1. p.seq - base \in 0..TotalPacket-1
    <3>1. base \in Nat /\ seq \in Nat /\ TotalPacket \in Nat
      BY <1>3, Numbers
    <3> HIDE DEF p, slot
    <3> QED BY <1>3, <1>6, <3>1
  <2>2. buf' = IF LenOf(p.seq) = 0 THEN buf ELSE [buf EXCEPT ![p.seq - base] = p.seq]
    BY <1>1, <1>4 DEF Record
  <2>3. \A s \in base..(base + TotalPacket - 1) :
           s - base \in 0..TotalPacket-1 /\ (s # p.seq => s - base # p.seq - base)
    <3>1. base \in Nat /\ TotalPacket \in Nat
      BY <1>3, Numbers
    <3> HIDE DEF p, slot
    <3> QED BY <1>3, <3>1
  <2> HIDE DEF p, slot
  <2> QED BY <1>3, <2>1, <2>2, <2>3
<1>11. StartOnce'
  <2>1. spc # "connect"
    BY <1>4 DEF NotConnected
  <2> QED BY <1>1, <1>2, <2>1, StartOnceStays
<1>12. RequestsSound'
  BY <1>1, <1>2, RequestsStay
<1>13. AnswersSound'
  <2> HIDE DEF p, slot
  <2>0. PICK n \in {num, seq'} : toSender' = Put(toSender, StatusPacket("DATA_ACK", n))
    BY <1>1
  <2>a. n \in Nat /\ n <= NPackets
    <3>1. NPackets \in Nat
      BY <1>3, Numbers
    <3> QED BY <1>1, <1>7, <2>0, <3>1
  <2>1. \A j \in DOMAIN toSender' :
           \/ j \in DOMAIN toSender /\ toSender'[j] = toSender[j]
           \/ toSender'[j] = StatusPacket("DATA_ACK", n)
    BY <2>0, <2>a, PutElements, PacketTypes DEF IInv, RtpTypeOK
  <2>2. \A j \in DOMAIN toSender' :
           toSender'[j] = StatusPacket("DATA_ACK", n) => SoundAnswer(toSender[j])'
    BY <1>2, <1>4, <2>a DEF SoundAnswer, StatusPacket, NotConnected
  <2> QED BY <1>2, <1>3, <1>7, <2>1, <2>2, AnswersStay, Numbers
<1>14. SlotsSound'
  <2>1. SUFFICES ASSUME NEW s \in base..(base + MaxWindow - 1), rec'[s % MaxWindow] # 0
                 PROVE  /\ s < base + TotalPacket /\ s < NPackets
                        /\ rec'[s % MaxWindow] = LenOf(s)
                        /\ buf'[s - base] = s
    BY <1>2 DEF SlotsSound
  <2>2. CASE s = p.seq
    BY <1>4, <1>6, <1>9, <1>10, <2>1, <2>2
  <2>3. CASE s # p.seq
    <3> HIDE DEF p, slot
    <3>1. rec'[s % MaxWindow] = rec[s % MaxWindow]
      BY <1>9, <2>3, Zenon
    <3>2. /\ s < base + TotalPacket /\ s < NPackets
          /\ rec[s % MaxWindow] = LenOf(s) /\ buf[s - base] = s
      BY <2>1, <3>1, Zenon DEF IInv, SlotsSound
    <3>3. s \in base..(base + TotalPacket - 1)
      BY <1>3, <3>2, Numbers
    <3>4. buf'[s - base] = buf[s - base]
      BY <1>10, <2>3, <3>3, Zenon
    <3> QED BY <3>1, <3>2, <3>4
  <2> QED BY <2>2, <2>3
<1>15. ChunkFilled'
  <2>1. SUFFICES ASSUME NEW i \in base..(seq' - 1), i < NPackets
                 PROVE  rec'[i % MaxWindow] = LenOf(i)
    <3>1. base' <= seq' /\ seq' <= base' + TotalPacket
      <4>1. base \in Nat /\ seq \in Nat
        BY <1>3, Numbers
      <4> HIDE DEF p, slot
      <4> QED BY <1>2, <1>6, <1>7, <4>1
    <3> HIDE DEF p, slot
    <3> QED BY <1>2, <2>1, <3>1, Zenon DEF ChunkFilled
  <2>0. /\ i \in Int /\ base <= i /\ i < seq' /\ base \in Nat /\ seq \in Nat /\ seq' \in Nat
        /\ TotalPacket \in Nat /\ MaxWindow \in Nat /\ MaxWindow > TotalPacket
    <3>1. /\ base \in Nat /\ seq \in Nat /\ TotalPacket \in Nat /\ MaxWindow \in Nat
          /\ MaxWindow > TotalPacket
      BY <1>3, Numbers
    <3>2. seq' \in Nat
      BY <1>7
    <3> HIDE DEF p, slot
    <3>3. i \in Int /\ base <= i /\ i < seq'
      BY <3>1, <3>2, InRange, Zenon
    <3> QED BY <3>1, <3>2, <3>3, Zenon
  <2> HIDE DEF p, slot
  <2>2. i \in base..(base + MaxWindow - 1)
    BY <1>7, <2>0
  <2>3. CASE i = p.seq
    <3>1. slot = i % MaxWindow
      BY <2>3 DEF slot
    <3> QED BY <1>9, <2>3, <3>1, Zenon
  <2>4. CASE i # p.seq
    <3>1. rec'[i % MaxWindow] = rec[i % MaxWindow]
      BY <1>9, <2>2, <2>4, Zenon
    <3>2. CASE i < seq
      BY <1>3, <1>4, <2>0, <2>1, <3>1, <3>2, ChunkFacts, Zenon DEF IInv
    <3>3. CASE i >= seq
      <4>1. p.seq = seq
        BY <1>7, <2>0, <3>3
      <4>2. i \in Int /\ seq < i /\ i < seq'
        BY <2>0, <2>4, <3>3, <4>1
      <4> QED BY <1>7, <3>1, <4>2, Zenon
    <3> QED BY <2>0, <3>2, <3>3
  <2> QED BY <2>3, <2>4
<1>16. EmptyChunk'
  <2>1. SUFFICES ASSUME total' = 0, NEW s \in 0..MaxWindow-1 PROVE rec'[s] = 0
    BY DEF EmptyChunk
  <2>2. total \in Nat /\ rec[slot] \in Nat
    BY <1>3, <1>8 DEF RtpTypeOK
  <2>3. total = 0 /\ p.length = 0
    <3>1. total = 0
      BY <1>1, <1>3, <2>1, <2>2 DEF IfNewCount
    <3>2. rec[slot] = 0
      BY <1>8, <3>1 DEF IInv, EmptyChunk
    <3> QED BY <1>1, <1>3, <2>1, <3>1, <3>2 DEF IfNewCount
  <2>4. rec' = [rec EXCEPT ![slot] = 0]
    BY <1>1, <2>3 DEF Record
  <2>5. rec[s] = 0 /\ rec \in [0..MaxWindow-1 -> Nat] /\ s \in 0..MaxWindow-1
    BY <1>3, <2>1, <2>3 DEF IInv, EmptyChunk
  <2> HIDE DEF p, slot
  <2>6. CASE s = slot
    BY <2>4, <2>5, <2>6
  <2>7. CASE s # slot
    BY <2>4, <2>5, <2>7
  <2> QED BY <2>6, <2>7
<1>17. SenderSound'
  <2>1. winStart \in Nat /\ seq \in Nat /\ winStart' = winStart /\ next' = next /\ spc' = spc
    BY <1>2, <1>3, Numbers
  <2>2. SenderSound
    BY DEF IInv
  <2> QED BY <2>1, <2>2 DEF SenderSound, Finishing
<1>18. EndSound' /\ DoneAfterEnd' /\ UnconnectedSound'
  BY <1>2, <1>4, <1>5, <1>7
     DEF IInv, EndSound, DoneAfterEnd, UnconnectedSound, NotConnected, Finishing
<1> QED BY <1>11, <1>12, <1>13, <1>14, <1>15, <1>16, <1>17, <1>18 DEF IInv

LEMMA ReturnChunkKeeps ==
    ASSUME IInv, RtpTypeOK', ReturnChunk
    PROVE  IInv'
<1> USE DEF NotConnected, Finishing
<1>1. /\ rpc = "recv" /\ ~Receiving /\ rpc' = IF total = 0 THEN "done" ELSE "write"
      /\ UNCHANGED <<senderVars, toReceiver, toSender>>
      /\ UNCHANGED <<spc, winStart, next, base, seq, endSeq, total, rec, buf>>
  BY DEF ReturnChunk, senderVars, readVars
<1>2. total = 0 => Finishing \/ spc = "failed"
  <2>1. SUFFICES ASSUME total = 0, endSeq = MaxPacket PROVE FALSE
    BY DEF IInv, EndSound
  <2>2. RtpTypeOK /\ seq <= NPackets /\ seq = base + TotalPacket
    BY <1>1, <2>1, Numbers DEF IInv, EndSound, Receiving, ChunkFilled
  <2>3. ~NotConnected
    BY <2>1, <2>2, Numbers DEF IInv, UnconnectedSound
  <2>4. base \in base..(seq - 1) /\ base \in 0..NPackets-2
    BY <2>2, Numbers
  <2>5. rec[base % MaxWindow] = PacketSize
    BY <2>2, <2>3, <2>4, MessageNumbers, Numbers DEF IInv, ChunkFilled
  <2>6. base % MaxWindow \in 0..MaxWindow-1
    BY <2>2, SlotInRecord, Numbers
  <2> QED BY <2>1, <2>5, <2>6, RtpAssumption DEF IInv, EmptyChunk
<1>3. StartOnce' /\ RequestsSound' /\ AnswersSound'
  BY <1>1 DEF IInv, StartOnce, RequestsSound, SoundRequest, AnswersSound, SoundAnswer
<1> QED
  BY <1>1, <1>2, <1>3
     DEF IInv, SenderSound, SlotsSound, ChunkFilled, EmptyChunk, DoneAfterEnd, EndSound,
         UnconnectedSound

LEMMA WriteOneKeeps ==
    ASSUME IInv, RtpTypeOK', WriteOne
    PROVE  IInv'
BY DEF WriteOne, senderVars, readVars, NotConnected, Finishing,
       IInv, StartOnce, RequestsSound, SoundRequest, AnswersSound, SoundAnswer, SenderSound,
       SlotsSound, ChunkFilled, EmptyChunk, DoneAfterEnd, EndSound, UnconnectedSound

LEMMA NextChunkKeeps ==
    ASSUME IInv, RtpTypeOK', NextChunk
    PROVE  IInv'
<1> USE DEF NotConnected, Finishing
<1>1. /\ rpc = "write" /\ base' = seq /\ endSeq' = MaxPacket
      /\ rpc' = IF endSeq # MaxPacket THEN "done" ELSE "recv"
      /\ rec' = [s \in 0..MaxWindow-1 |-> 0]
      /\ UNCHANGED <<toReceiver, toSender, spc, winStart, next, seq>>
  BY DEF NextChunk, ClearRecord, SaveSeq, senderVars
<1>2. RtpTypeOK /\ ~NotConnected
  BY <1>1 DEF IInv, UnconnectedSound
<1>3. SlotsSound' /\ ChunkFilled' /\ EmptyChunk'
  <2>1. \A s \in Nat : rec'[s % MaxWindow] = 0
    BY <1>1, SlotInRecord
  <2>2. base' \in Nat /\ seq' = base'
    BY <1>1, <1>2, Numbers
  <2>3. \A s \in base'..(base' + MaxWindow - 1) : s \in Nat
    BY <1>2, <2>2, Numbers
  <2>4. SlotsSound'
    <3>1. \A s \in base'..(base' + MaxWindow - 1) : rec'[s % MaxWindow] = 0
      BY <2>1, <2>3, Zenon
    <3> QED BY <3>1, Zenon DEF SlotsSound
  <2>5. ChunkFilled'
    <3>1. base' <= seq' /\ seq' <= base' + TotalPacket
      BY <1>2, <2>2, Numbers
    <3>2. \A i : ~(i \in base'..(seq' - 1))
      BY <2>2
    <3> QED BY <3>1, <3>2, Zenon DEF ChunkFilled
  <2>6. EmptyChunk'
    BY <1>1 DEF EmptyChunk
  <2> QED BY <2>4, <2>5, <2>6
<1>4. StartOnce' /\ RequestsSound' /\ AnswersSound'
  BY <1>1 DEF IInv, StartOnce, RequestsSound, SoundRequest, AnswersSound, SoundAnswer
<1> QED
  BY <1>1, <1>2, <1>3, <1>4
     DEF IInv, SenderSound, DoneAfterEnd, EndSound, UnconnectedSound

-----------------------------------------------------------------------------
(* The network's faults. *)

\* A fault that does not repeat START leaves at most one of it in flight.
LEMMA OneStartAfterFault ==
    ASSUME StartNotDuplicated, NEW ch \in Seq(Packet), NEW ch2,
           LosesOne(ch, ch2) \/ DuplicatesOne(ch, ch2),
           \A i, j \in DOMAIN ch : ch[i].kind = "START" /\ ch[j].kind = "START" => i = j
    PROVE  \A i, j \in DOMAIN ch2 : ch2[i].kind = "START" /\ ch2[j].kind = "START" => i = j
<1>0. DOMAIN ch \subseteq Nat
  BY LenProperties
<1>1. CASE LosesOne(ch, ch2)
  <2>1. PICK k \in DOMAIN ch : ch2 = Without(ch, k)
    BY <1>1 DEF LosesOne
  <2>2. \A j \in DOMAIN ch2 :
          /\ j \in DOMAIN ch /\ j + 1 \in DOMAIN ch
          /\ ch2[j] = IF j < k THEN ch[j] ELSE ch[j + 1]
    BY <2>1, WithoutElements
  <2>3. SUFFICES ASSUME NEW i \in DOMAIN ch2, NEW j \in DOMAIN ch2,
                        ch2[i].kind = "START", ch2[j].kind = "START", i < j
                 PROVE  FALSE
    BY <1>0, <2>2
  <2> QED BY <1>0, <2>2, <2>3
<1>2. CASE DuplicatesOne(ch, ch2)
  <2>1. PICK k \in DOMAIN ch : ch[k].kind \in Duplicable /\ ch2 = InsertAt(ch, k, ch[k])
    BY <1>2 DEF DuplicatesOne
  <2>2. \A j \in DOMAIN ch2 :
          /\ j \in Nat
          /\ \/ j <= k /\ j \in DOMAIN ch /\ ch2[j] = ch[j]
             \/ j > k /\ j - 1 \in DOMAIN ch /\ ch2[j] = ch[j - 1]
    <3>1. ch2 \in Seq(Packet)
      BY <2>1, InsertElements
    <3>2. \A j \in DOMAIN ch2 : j \in Nat
      BY <3>1, LenProperties
    <3> QED BY <2>1, <3>2, InsertElements
  <2>3. ch[k].kind # "START"
    BY <2>1 DEF StartNotDuplicated
  <2>4. SUFFICES ASSUME NEW i \in DOMAIN ch2, NEW j \in DOMAIN ch2,
                        ch2[i].kind = "START", ch2[j].kind = "START", i < j
                 PROVE  FALSE
    BY <2>2
  <2> QED BY <1>0, <2>1, <2>2, <2>3, <2>4
<1> QED BY <1>1, <1>2

LEMMA NetworkFaultKeeps ==
    ASSUME IInv, StartNotDuplicated, RtpTypeOK', NetworkFault
    PROVE  IInv'
<1>1. /\ toReceiver \in Seq(Packet) /\ toSender \in Seq(Packet)
      /\ UNCHANGED senderVars /\ UNCHANGED receiverVars
  BY DEF IInv, RtpTypeOK, NetworkFault
<1>2. \/ UNCHANGED toReceiver
      \/ LosesOne(toReceiver, toReceiver') \/ DuplicatesOne(toReceiver, toReceiver')
  BY DEF NetworkFault
<1>3. \/ UNCHANGED toSender
      \/ LosesOne(toSender, toSender') \/ DuplicatesOne(toSender, toSender')
  BY DEF NetworkFault
<1>4. \A j \in DOMAIN toReceiver' : \E i \in DOMAIN toReceiver : toReceiver'[j] = toReceiver[i]
  <2>1. CASE UNCHANGED toReceiver
    BY <2>1
  <2>2. CASE LosesOne(toReceiver, toReceiver') \/ DuplicatesOne(toReceiver, toReceiver')
    BY <1>1, <2>2, FaultElements, SMT
  <2> QED BY <1>2, <2>1, <2>2
<1>5. \A j \in DOMAIN toSender' : \E i \in DOMAIN toSender : toSender'[j] = toSender[i]
  <2>1. CASE UNCHANGED toSender
    BY <2>1
  <2>2. CASE LosesOne(toSender, toSender') \/ DuplicatesOne(toSender, toSender')
    BY <1>1, <2>2, FaultElements, SMT
  <2> QED BY <1>3, <2>1, <2>2
<1>6. /\ toReceiver = <<>> => toReceiver' = <<>>
      /\ toSender = <<>> => toSender' = <<>>
  BY <1>2, <1>3 DEF LosesOne, DuplicatesOne
<1>7. UNCHANGED <<spc, winStart, next, rpc, base, seq, endSeq, total, rec, buf>>
  BY <1>1 DEF senderVars, receiverVars, readVars
<1>8. StartOnce'
  <2>1. \A i, j \in DOMAIN toReceiver' :
           toReceiver'[i].kind = "START" /\ toReceiver'[j].kind = "START" => i = j
    <3>1. \A i, j \in DOMAIN toReceiver :
             toReceiver[i].kind = "START" /\ toReceiver[j].kind = "START" => i = j
      BY DEF IInv, StartOnce
    <3>2. CASE UNCHANGED toReceiver
      BY <3>1, <3>2
    <3>3. CASE LosesOne(toReceiver, toReceiver') \/ DuplicatesOne(toReceiver, toReceiver')
      BY <1>1, <3>1, <3>3, OneStartAfterFault, Zenon
    <3> QED BY <1>2, <3>2, <3>3
  <2>2. \A k \in DOMAIN toReceiver' :
           toReceiver'[k].kind = "START" => rpc' \in {"listen", "failed"}
    BY <1>4, <1>7 DEF IInv, StartOnce
  <2>3. spc' = "connect" => toReceiver' = <<>> /\ toSender' = <<>> /\ rpc' = "listen"
    BY <1>6, <1>7 DEF IInv, StartOnce
  <2> QED BY <2>1, <2>2, <2>3, Zenon DEF StartOnce
<1>9. RequestsSound'
  <2>1. \A p \in Packet : SoundRequest(p) => SoundRequest(p)'
    BY <1>7 DEF SoundRequest, NotConnected, Finishing
  <2> QED BY <1>4, <2>1, RequestsKept DEF IInv
<1>10. AnswersSound'
  <2>1. \A p \in Packet : SoundAnswer(p) => SoundAnswer(p)'
    BY <1>7 DEF SoundAnswer, NotConnected, Finishing
  <2> QED BY <1>5, <2>1, AnswersKept DEF IInv
<1>11. SlotsSound' /\ EmptyChunk'
  BY <1>1, ReceiverFrame
<1>12. SenderSound' /\ ChunkFilled' /\ DoneAfterEnd' /\ EndSound' /\ UnconnectedSound'
  BY <1>6, <1>7
     DEF IInv, SenderSound, ChunkFilled, DoneAfterEnd, EndSound, UnconnectedSound,
         NotConnected, Finishing
<1> QED BY <1>8, <1>9, <1>10, <1>11, <1>12 DEF IInv

-----------------------------------------------------------------------------
(* The theorems. *)

LEMMA StepIInv ==
    ASSUME StartNotDuplicated, IInv, [EitherStep]_rtpVars
    PROVE  IInv'
<1>1. RtpTypeOK'
  BY StepTypeOK DEF IInv
<1>2. CASE SenderStep
  BY <1>1, <1>2, SendStartKeeps, StartAckedKeeps, StartNotAckedKeeps, SendsOrSkipsKeeps,
     MovesWindowKeeps, EndRoundKeeps, FinishSendingKeeps, Zenon DEF SenderStep
<1>3. CASE ReceiverStep
  BY <1>1, <1>3, ListenAcceptKeeps, ListenRefuseKeeps, DropPacketKeeps, AcceptEndKeeps,
     AcceptsPacketKeeps, ReturnChunkKeeps, WriteOneKeeps, NextChunkKeeps, Zenon DEF ReceiverStep
<1>4. CASE NetworkFault
  BY <1>1, <1>4, NetworkFaultKeeps, Zenon
<1>5. CASE UNCHANGED rtpVars
  <2>1. /\ UNCHANGED <<spc, winStart, next, rpc, base, seq, endSeq, total, rec, buf>>
        /\ UNCHANGED <<toReceiver, toSender, receiverVars>>
    BY <1>5 DEF rtpVars, senderVars, receiverVars, readVars
  <2>2. SlotsSound' /\ EmptyChunk'
    BY <2>1, ReceiverFrame
  <2>3. StartOnce' /\ RequestsSound' /\ AnswersSound'
    BY <2>1 DEF IInv, StartOnce, RequestsSound, SoundRequest, AnswersSound, SoundAnswer,
                NotConnected, Finishing
  <2>4. SenderSound' /\ ChunkFilled' /\ DoneAfterEnd' /\ EndSound' /\ UnconnectedSound'
    BY <2>1
       DEF IInv, SenderSound, ChunkFilled, DoneAfterEnd, EndSound, UnconnectedSound,
           NotConnected, Finishing
  <2> QED BY <1>1, <2>2, <2>3, <2>4 DEF IInv
<1> QED BY <1>2, <1>3, <1>4, <1>5, Zenon DEF EitherStep

\* When START is not repeated and ack_record starts cleared, IInv holds in

-----------------------------------------------------------------------------
(* The steps that leave the chunk and the file alone. *)

LEMMA RecordedFinite == ASSUME RtpTypeOK PROVE IsFiniteSet(Recorded)
<1>1. base \in Int /\ base + TotalPacket - 1 \in Int
  BY Numbers
<1>2. IsFiniteSet(base..(base + TotalPacket - 1))
  BY <1>1, FS_Interval
<1>3. Recorded \in SUBSET (base..(base + TotalPacket - 1))
  BY DEF Recorded
<1> QED BY <1>2, <1>3, FS_Subset

LEMMA FileFrame ==
    ASSUME FileInv, IInv', UNCHANGED <<base, total, rec, wpos, wrote, file>>,
           rpc' = rpc \/ (rpc = "listen" /\ rpc' \in {"recv", "failed"}),
           rpc = "write" => seq' = seq /\ endSeq' = endSeq,
           spc = "failed" => spc' = "failed"
    PROVE  FileInv'
<1>1. TotalSound'
  BY DEF FileInv, TotalSound, Recorded
<1>2. WriteSound'
  BY DEF FileInv, WriteSound
<1>3. FileSound'
  BY DEF FileInv, FileSound, FileIsPrefix
<1>4. DoneWhole'
  BY DEF FileInv, IInv, DoneAfterEnd, DoneWhole, NotConnected, Finishing
<1> QED BY <1>1, <1>2, <1>3, <1>4 DEF FileInv

-----------------------------------------------------------------------------
(* A packet arrives. *)

LEMMA AcceptsPacketFile ==
    ASSUME FileInv, IInv', AcceptsPacket
    PROVE  FileInv'
<1>1. PICK k \in Deliverable(toReceiver), i \in Nat :
        /\ i = toReceiver[k].seq /\ toReceiver[k].length = LenOf(i)
        /\ IfNewCount(toReceiver[k])
        /\ i < NPackets /\ i >= seq /\ i < base + TotalPacket /\ base <= seq
        /\ i \in base..(base + MaxWindow - 1)
        /\ rec'[i % MaxWindow] = LenOf(i)
        /\ \A s \in base..(base + MaxWindow - 1) :
             s # i => rec'[s % MaxWindow] = rec[s % MaxWindow]
  BY AcceptsPacketEffect, Zenon DEF FileInv
<1>2. /\ rpc = "recv" /\ rpc' = rpc
      /\ UNCHANGED <<spc, base, wpos, wrote, file>>
  BY DEF AcceptsPacket, Receiving, senderVars, writeVars
<1>3. total' = IF rec[i % MaxWindow] = 0 THEN total + LenOf(i) ELSE total
  BY <1>1, Zenon DEF IfNewCount
<1>4. /\ RtpTypeOK /\ SlotsSound /\ total = BytesIn(Recorded)
      /\ i \in Int /\ base <= i /\ i <= base + MaxWindow - 1
      /\ total \in Nat /\ base \in Nat /\ TotalPacket \in Nat /\ MaxWindow > TotalPacket
      /\ MaxWindow \in Nat /\ NPackets \in Nat
  <2>1. RtpTypeOK /\ SlotsSound /\ total = BytesIn(Recorded)
    BY DEF FileInv, IInv, TotalSound
  <2> QED BY <1>1, <2>1, Numbers
<1>5. /\ i \in base..(base + TotalPacket - 1) /\ i \in 0..NPackets-1
      /\ \A s \in base..(base + TotalPacket - 1) : s \in base..(base + MaxWindow - 1)
  BY <1>1, <1>4
<1>6. \A s : s \in Recorded' <=> IF s = i THEN LenOf(i) # 0 ELSE s \in Recorded
  BY <1>1, <1>2, <1>5, Zenon DEF Recorded
<1>7. TotalSound'
  <2>1. CASE rec[i % MaxWindow] = 0 /\ LenOf(i) # 0
    <3>1. i \notin Recorded
      BY <2>1 DEF Recorded
    <3>2. Recorded' = Recorded \cup {i}
      BY <1>6, <2>1
    <3>3. BytesIn(Recorded \cup {i}) = BytesIn(Recorded) + LenOf(i)
      BY <1>4, <1>5, <3>1, RecordedFinite, BytesOfOneMore
    <3> QED BY <1>3, <1>4, <2>1, <3>2, <3>3 DEF TotalSound
  <2>2. CASE rec[i % MaxWindow] = 0 /\ LenOf(i) = 0
    <3>1. i \notin Recorded
      BY <2>2 DEF Recorded
    <3>2. Recorded' = Recorded
      BY <1>6, <2>2, <3>1
    <3> QED BY <1>3, <1>4, <2>2, <3>2 DEF TotalSound
  <2>3. CASE rec[i % MaxWindow] # 0
    <3>1. rec[i % MaxWindow] = LenOf(i)
      BY <1>4, <2>3, SlotFacts, Zenon
    <3>2. i \in Recorded
      BY <1>5, <2>3 DEF Recorded
    <3>3. Recorded' = Recorded
      BY <1>6, <2>3, <3>1, <3>2
    <3> QED BY <1>3, <1>4, <2>3, <3>3 DEF TotalSound
  <2> QED BY <2>1, <2>2, <2>3
<1>8. WriteSound' /\ DoneWhole'
  BY <1>2 DEF WriteSound, DoneWhole
<1>9. FileSound'
  BY <1>2 DEF FileInv, FileSound, FileIsPrefix
<1> QED BY <1>7, <1>8, <1>9 DEF FileInv

-----------------------------------------------------------------------------
(* The chunk is complete, is written, and the next one begins. *)

\* When rtp_recvfrom returns, everything in the chunk is below the expected number.
LEMMA ChunkComplete ==
    ASSUME FileInv, ~NotConnected, rpc = "recv", ~Receiving
    PROVE  /\ base < Len(Message) => base < seq
           /\ total = BytesBefore(seq) - BytesBefore(base)
           /\ endSeq # MaxPacket => seq >= NPackets
<1>1. /\ RtpTypeOK /\ SlotsSound /\ ChunkFilled /\ total = BytesIn(Recorded)
      /\ base <= seq /\ seq <= base + TotalPacket
      /\ endSeq # MaxPacket => NPackets <= endSeq /\ endSeq < base + TotalPacket
      /\ endSeq = MaxPacket => seq <= NPackets
  BY DEF FileInv, IInv, TotalSound, ChunkFilled, EndSound, NotConnected
<1>2. /\ base \in Nat /\ seq \in Nat /\ endSeq \in Nat /\ NPackets \in Nat
      /\ TotalPacket \in Nat /\ TotalPacket >= 2 /\ MaxPacket \in Nat
      /\ MaxWindow \in Nat /\ MaxWindow > TotalPacket /\ MaxPacket > NPackets + MaxWindow
  BY <1>1, Numbers
<1>3. Len(Message) \in Nat /\ Len(Message) <= NPackets
  BY MessageFacts
<1>4. /\ seq >= NPackets \/ seq = base + TotalPacket
      /\ endSeq # MaxPacket => seq >= NPackets
  BY <1>1, <1>2 DEF Receiving
<1>5. base < Len(Message) => base < seq
  BY <1>2, <1>3, <1>4
<1>6. ASSUME NEW i \in Recorded
      PROVE  i \in Int /\ base <= i /\ i < seq /\ i < Len(Message)
  <2>1. i \in Int /\ base <= i /\ i < base + TotalPacket /\ rec[i % MaxWindow] # 0
    BY <1>2, <1>6 DEF Recorded
  <2>2. i <= base + MaxWindow - 1
    BY <1>2, <2>1
  <2>3. i < NPackets /\ LenOf(i) # 0
    BY <1>1, <2>1, <2>2, SlotFacts, Zenon
  <2>4. i \in 0..NPackets-1
    BY <1>2, <2>1, <2>3
  <2>5. i < Len(Message)
    BY <2>3, <2>4, MessageFacts, Zenon
  <2> QED BY <1>2, <1>4, <2>1, <2>3, <2>5
<1>7. ASSUME NEW i \in Int, base <= i, i < seq, i < Len(Message)
      PROVE  i \in Recorded
  <2>1. i < NPackets /\ i \in 0..NPackets-1 /\ i \in base..(base + TotalPacket - 1)
    BY <1>1, <1>2, <1>3, <1>7
  <2>2. rec[i % MaxWindow] = LenOf(i)
    BY <1>1, <1>7, <2>1, ChunkFacts, Zenon
  <2>3. LenOf(i) # 0
    BY <1>7, <2>1, MessageFacts, Zenon
  <2> QED BY <2>1, <2>2, <2>3 DEF Recorded
<1>8. CASE base >= Len(Message)
  <2>1. Recorded = {}
    BY <1>2, <1>3, <1>6, <1>8
  <2>2. BytesBefore(base) = MsgLen /\ BytesBefore(seq) = MsgLen
    BY <1>1, <1>2, <1>3, <1>8, BytesFacts
  <2> QED BY <1>1, <1>4, <1>5, <2>1, <2>2, BytesOfNone, LastLength
<1>9. CASE base < Len(Message)
  <2> DEFINE e == IF seq <= Len(Message) THEN seq ELSE Len(Message)
  <2>1. e \in Nat /\ base <= e /\ e <= Len(Message)
    BY <1>1, <1>2, <1>3, <1>9
  <2>2. BytesBefore(e) = BytesBefore(seq)
    <3>1. CASE seq <= Len(Message)
      BY <3>1
    <3>2. CASE ~(seq <= Len(Message))
      <4>1. e = Len(Message) /\ seq >= Len(Message)
        BY <1>2, <1>3, <3>2
      <4>2. BytesBefore(Len(Message)) = MsgLen /\ BytesBefore(seq) = MsgLen
        BY <1>2, <1>3, <4>1, BytesFacts
      <4> QED BY <4>1, <4>2
    <3> QED BY <3>1, <3>2
  <2>3. \A i : i \in base..(e - 1) <=> i \in Int /\ base <= i /\ i < seq /\ i < Len(Message)
    BY <1>2, <1>3
  <2> HIDE DEF e
  <2>4. Recorded = base..(e - 1)
    BY <1>6, <1>7, <2>3
  <2>5. BytesIn(base..(e - 1)) = BytesBefore(e) - BytesBefore(base)
    BY <1>2, <2>1, BytesOfInterval
  <2> QED BY <1>1, <1>4, <1>5, <2>2, <2>4, <2>5
<1> QED BY <1>2, <1>3, <1>8, <1>9

LEMMA ReturnChunkFile ==
    ASSUME FileInv, IInv', ReturnChunk
    PROVE  FileInv'
<1>1. /\ rpc = "recv" /\ ~Receiving /\ rpc' = IF total = 0 THEN "done" ELSE "write"
      /\ wpos' = base /\ wrote' = 0
      /\ UNCHANGED <<spc, base, seq, endSeq, total, rec, file>>
  BY DEF ReturnChunk, senderVars, readVars
<1>2. base \in Nat /\ seq \in Nat /\ base <= seq /\ BytesBefore(base) \in Nat
  BY Numbers, BytesFacts DEF FileInv, IInv, ChunkFilled
<1>3. NotConnected => rpc' = "done"
  BY <1>1 DEF FileInv, IInv, UnconnectedSound
<1>4. ~NotConnected => /\ base < Len(Message) => base < seq
                       /\ total = BytesBefore(seq) - BytesBefore(base)
                       /\ endSeq # MaxPacket => seq >= NPackets
  BY <1>1, ChunkComplete, Zenon
<1>5. TotalSound'
  BY <1>1 DEF FileInv, TotalSound, Recorded
<1>6. WriteSound'
  BY <1>1, <1>2, <1>3, <1>4 DEF WriteSound
<1>7. FileSound'
  BY <1>1 DEF FileInv, FileSound, FileIsPrefix
<1>8. DoneWhole'
  <2>1. SUFFICES ASSUME ~NotConnected, total = 0 PROVE base >= Len(Message)
    BY <1>1 DEF DoneWhole, NotConnected
  <2>2. SUFFICES ASSUME base < Len(Message) PROVE FALSE
    BY <1>2, MessageFacts
  <2>3. BytesBefore(base) < BytesBefore(seq) /\ BytesBefore(seq) \in Nat
    BY <1>2, <1>4, <2>1, <2>2, BytesFacts
  <2> QED BY <1>2, <1>4, <2>1, <2>3
<1> QED BY <1>5, <1>6, <1>7, <1>8 DEF FileInv

\* While bytes are left to write, the writing loop is at a packet it has.
LEMMA NextPiece ==
    ASSUME FileInv, rpc = "write", wrote < total
    PROVE  /\ wpos < seq /\ wpos < Len(Message)
           /\ rec[wpos % MaxWindow] = LenOf(wpos) /\ LenOf(wpos) # 0
           /\ Content(wpos - base) = wpos
<1>1. /\ RtpTypeOK /\ SlotsSound /\ ChunkFilled /\ ~NotConnected
      /\ base <= wpos /\ wpos <= seq /\ seq <= base + TotalPacket
      /\ wrote = BytesBefore(wpos) - BytesBefore(base)
      /\ total = BytesBefore(seq) - BytesBefore(base)
  BY DEF FileInv, IInv, ChunkFilled, WriteSound, UnconnectedSound
<1>2. /\ base \in Nat /\ seq \in Nat /\ wpos \in Nat /\ NPackets \in Nat
      /\ TotalPacket \in Nat /\ MaxWindow \in Nat /\ MaxWindow > TotalPacket
      /\ Len(Message) \in Nat /\ Len(Message) <= NPackets
  BY <1>1, Numbers, MessageFacts
<1>3. BytesBefore(wpos) < BytesBefore(seq)
  <2>1. BytesBefore(wpos) \in Nat /\ BytesBefore(seq) \in Nat /\ BytesBefore(base) \in Nat
    BY <1>2, BytesFacts
  <2> QED BY <1>1, <2>1
<1>4. wpos < seq
  <2>1. wpos # seq
    BY <1>2, <1>3, BytesFacts
  <2> QED BY <1>1, <1>2, <2>1
<1>5. wpos < Len(Message)
  <2>1. SUFFICES ASSUME wpos >= Len(Message) PROVE FALSE
    BY <1>2
  <2>2. BytesBefore(wpos) = MsgLen /\ BytesBefore(seq) = MsgLen
    BY <1>2, <1>4, <2>1, BytesFacts
  <2> QED BY <1>3, <2>2, LastLength
<1>6. /\ wpos \in Int /\ wpos < NPackets /\ wpos \in 0..NPackets-1
      /\ wpos <= base + MaxWindow - 1 /\ wpos - base \in 0..TotalPacket-1
  BY <1>1, <1>2, <1>4, <1>5
<1>7. rec[wpos % MaxWindow] = LenOf(wpos)
  BY <1>1, <1>4, <1>6, ChunkFacts, Zenon
<1>8. LenOf(wpos) # 0
  BY <1>5, <1>6, MessageFacts, Zenon
<1>9. buf[wpos - base] = wpos
  BY <1>1, <1>6, <1>7, <1>8, SlotFacts, Zenon
<1>10. DOMAIN buf = 0..TotalPacket-1
  BY <1>1 DEF RtpTypeOK
<1>11. Content(wpos - base) = wpos
  BY <1>6, <1>9, <1>10 DEF Content
<1> QED BY <1>4, <1>5, <1>7, <1>8, <1>11

\* The writing loop appends the next piece of the message, and nothing else.
LEMMA WriteOneEffect ==
    ASSUME FileInv, WriteOne
    PROVE  /\ Len(file) = wpos /\ wpos < Len(Message) /\ wpos < seq
           /\ file' = Append(file, Message[wpos + 1])
           /\ wrote' = wrote + LenOf(wpos)
<1>1. /\ rpc = "write" /\ wrote < total
      /\ file' = IF rec[wpos % MaxWindow] = 0 THEN file
                 ELSE Append(file, [piece |-> Content(wpos - base),
                                    length |-> rec[wpos % MaxWindow]])
      /\ wrote' = wrote + rec[wpos % MaxWindow]
  BY DEF WriteOne
<1>2. /\ wpos < seq /\ wpos < Len(Message)
      /\ rec[wpos % MaxWindow] = LenOf(wpos) /\ LenOf(wpos) # 0
      /\ Content(wpos - base) = wpos
  BY <1>1, NextPiece
<1>3. wpos \in Nat /\ Len(Message) \in Nat
  BY Numbers, MessageFacts DEF FileInv, IInv
<1>4. Len(file) = wpos
  BY <1>1, <1>2, <1>3 DEF FileInv, FileSound, PiecesBefore
<1>5. Message[wpos + 1] = [piece |-> wpos, length |-> LenOf(wpos)]
  <2>1. wpos + 1 \in 1..Len(Message) /\ (wpos + 1) - 1 = wpos
    BY <1>2, <1>3
  <2>2. Message[wpos + 1] = [piece |-> (wpos + 1) - 1, length |-> LenOf((wpos + 1) - 1)]
    BY <2>1, MessageFacts, Zenon
  <2> QED BY <2>1, <2>2, Zenon
<1> QED BY <1>1, <1>2, <1>4, <1>5

LEMMA WriteOneFile ==
    ASSUME FileInv, IInv', WriteOne
    PROVE  FileInv'
<1>1. /\ Len(file) = wpos /\ wpos < Len(Message) /\ wpos < seq
      /\ file' = Append(file, Message[wpos + 1])
      /\ wrote' = wrote + LenOf(wpos)
  BY WriteOneEffect
<1>2. /\ rpc = "write" /\ rpc' = rpc /\ wpos' = wpos + 1
      /\ UNCHANGED <<spc, base, seq, endSeq, total, rec>>
  BY DEF WriteOne, senderVars, readVars
<1>3. /\ wpos \in Nat /\ seq \in Nat /\ base \in Nat /\ Len(Message) \in Nat
      /\ Len(Message) <= NPackets /\ NPackets \in Nat
      /\ file \in Seq([piece : Pieces, length : Nat])
      /\ Message \in Seq([piece : Pieces, length : Nat])
  BY Numbers, MessageFacts DEF FileInv, IInv, RtpTypeOK
<1>4. TotalSound' /\ DoneWhole'
  BY <1>2 DEF FileInv, TotalSound, Recorded, DoneWhole
<1>5. WriteSound'
  <2>1. /\ base <= wpos
        /\ wrote = BytesBefore(wpos) - BytesBefore(base)
        /\ total = BytesBefore(seq) - BytesBefore(base)
        /\ endSeq # MaxPacket => seq >= NPackets
    BY <1>2 DEF FileInv, WriteSound
  <2>2. BytesBefore(wpos + 1) = BytesBefore(wpos) + LenOf(wpos)
    BY <1>1, <1>3, BytesFacts
  <2>3. BytesBefore(wpos) \in Nat /\ BytesBefore(base) \in Nat /\ LenOf(wpos) \in Nat
    BY <1>1, <1>3, BytesFacts, MessageNumbers
  <2>4. wrote' = BytesBefore(wpos + 1) - BytesBefore(base)
    <3>1. ASSUME NEW a \in Nat, NEW b \in Nat, NEW l \in Nat
          PROVE  (a - b) + l = (a + l) - b
      BY <3>1
    <3>2. (BytesBefore(wpos) - BytesBefore(base)) + LenOf(wpos)
            = (BytesBefore(wpos) + LenOf(wpos)) - BytesBefore(base)
      BY <2>3, <3>1, Zenon
    <3> QED BY <1>1, <2>1, <2>2, <3>2, Zenon
  <2> QED BY <1>1, <1>2, <1>3, <2>1, <2>4 DEF WriteSound
<1>6. FileSound'
  <2>1. /\ DOMAIN file = 1..wpos /\ \A i \in DOMAIN file : file[i] = Message[i]
    BY <1>1, <1>3, LenProperties DEF FileInv, FileSound, FileIsPrefix
  <2>2. wpos + 1 \in 1..Len(Message)
    BY <1>1, <1>3
  <2>3. Message[wpos + 1] \in [piece : Pieces, length : Nat]
    BY <1>3, <2>2, ElementOfSeq
  <2>4. /\ Len(file') = wpos + 1
        /\ \A i \in 1..wpos : file'[i] = file[i]
        /\ file'[wpos + 1] = Message[wpos + 1]
    BY <1>1, <1>3, <2>3, AppendProperties
  <2>5. DOMAIN file' = 1..(wpos + 1)
    <3>1. file' \in Seq([piece : Pieces, length : Nat])
      BY <1>1, <1>3, <2>3, AppendProperties
    <3> QED BY <2>4, <3>1, LenProperties
  <2>6. \A i \in DOMAIN file' : file'[i] = Message[i]
    <3>1. ASSUME NEW i \in 1..(wpos + 1) PROVE i = wpos + 1 \/ i \in 1..wpos
      BY <1>3
    <3> QED BY <2>1, <2>4, <2>5, <3>1, Zenon
  <2>7. Len(file') <= Len(Message)
    BY <1>1, <1>3, <2>4
  <2>8. rpc' = "write" /\ PiecesBefore(wpos + 1) = wpos + 1
    BY <1>1, <1>2, <1>3 DEF PiecesBefore
  <2> QED BY <1>2, <2>4, <2>6, <2>7, <2>8 DEF FileSound, FileIsPrefix, PiecesBefore
<1> QED BY <1>4, <1>5, <1>6 DEF FileInv

LEMMA NextChunkFile ==
    ASSUME FileInv, IInv', NextChunk
    PROVE  FileInv'
<1>1. /\ rpc = "write" /\ wrote >= total /\ base' = seq /\ total' = 0
      /\ rpc' = IF endSeq # MaxPacket THEN "done" ELSE "recv"
      /\ rec' = [s \in 0..MaxWindow-1 |-> 0]
      /\ UNCHANGED <<spc, seq, file>>
  BY DEF NextChunk, ClearRecord, SaveSeq, senderVars, writeVars
<1>2. /\ RtpTypeOK /\ ~NotConnected /\ wpos <= seq
      /\ wrote = BytesBefore(wpos) - BytesBefore(base)
      /\ total = BytesBefore(seq) - BytesBefore(base)
      /\ FileIsPrefix /\ Len(file) = PiecesBefore(wpos)
  BY <1>1 DEF FileInv, IInv, UnconnectedSound, WriteSound, FileSound
<1>3. /\ seq \in Nat /\ wpos \in Nat /\ base \in Nat
      /\ Len(Message) \in Nat /\ Len(Message) <= NPackets /\ NPackets \in Nat
  BY <1>2, Numbers, MessageFacts
<1>4. wpos = seq \/ wpos >= Len(Message)
  <2>1. SUFFICES ASSUME wpos < seq, wpos < Len(Message) PROVE FALSE
    BY <1>2, <1>3
  <2>2. BytesBefore(wpos) < BytesBefore(seq)
    BY <1>3, <2>1, BytesFacts
  <2>3. BytesBefore(wpos) \in Nat /\ BytesBefore(seq) \in Nat /\ BytesBefore(base) \in Nat
    BY <1>3, BytesFacts
  <2> QED BY <1>1, <1>2, <2>2, <2>3
<1>5. FileSound'
  <2>1. PiecesBefore(wpos) = PiecesBefore(seq)
    BY <1>2, <1>3, <1>4 DEF PiecesBefore
  <2> QED BY <1>1, <1>2, <2>1 DEF FileSound, FileIsPrefix
<1>6. TotalSound'
  <2>1. \A i \in seq..(seq + TotalPacket - 1) : i \in Nat
    BY <1>2, <1>3, Numbers
  <2>2. \A i \in seq..(seq + TotalPacket - 1) : rec'[i % MaxWindow] = 0
    BY <1>1, <2>1, SlotInRecord
  <2>3. Recorded' = {}
    BY <1>1, <2>2 DEF Recorded
  <2> QED BY <1>1, <2>3, BytesOfNone DEF TotalSound
<1>7. DoneWhole'
  <2>1. endSeq # MaxPacket => seq >= NPackets
    BY <1>1 DEF FileInv, WriteSound
  <2> QED BY <1>1, <1>3, <2>1 DEF DoneWhole
<1>8. WriteSound'
  BY <1>1 DEF WriteSound
<1> QED BY <1>5, <1>6, <1>7, <1>8 DEF FileInv

-----------------------------------------------------------------------------
(* Either program keeps the invariant. *)

LEMMA InitFileInv == ASSUME CleanStack PROVE RtpInit => FileInv
<1> SUFFICES ASSUME RtpInit PROVE FileInv
  OBVIOUS
<1>1. IInv
  BY InitIInv
<1>2. /\ rpc = "listen" /\ total = 0 /\ base = 0 /\ file = <<>>
      /\ \A s \in 0..MaxWindow-1 : rec[s] = 0
  BY DEF RtpInit, CleanStack
<1>3. TotalSound
  <2>1. \A i \in base..(base + TotalPacket - 1) : i % MaxWindow \in 0..MaxWindow-1
    BY <1>1, <1>2, SlotInRecord, Numbers DEF IInv
  <2>2. Recorded = {}
    BY <1>2, <2>1 DEF Recorded
  <2> QED BY <1>2, <2>2, BytesOfNone DEF TotalSound
<1>4. FileSound
  BY <1>2, MessageFacts DEF FileSound, FileIsPrefix, PiecesBefore
<1> QED BY <1>1, <1>2, <1>3, <1>4 DEF FileInv, WriteSound, DoneWhole

LEMMA StepFileInv ==
    ASSUME StartNotDuplicated, FileInv, [EitherStep]_rtpVars
    PROVE  FileInv'
<1>1. IInv'
  BY StepIInv DEF FileInv
<1>2. CASE SenderStep \/ NetworkFault \/ UNCHANGED rtpVars
  <2>1. /\ UNCHANGED <<base, total, rec, wpos, wrote, file>>
        /\ UNCHANGED <<rpc, seq, endSeq>> /\ (spc = "failed" => spc' = "failed")
    BY <1>2 DEF SenderStep, SendStart, StartAcked, StartNotAcked, SendsOrSkips, MovesWindow,
                EndRound, FinishSending, NetworkFault, rtpVars, senderVars, receiverVars,
                readVars, writeVars
  <2> QED BY <1>1, <2>1, FileFrame, Zenon
<1>3. CASE ListenAccept \/ ListenRefuse \/ DropPacket \/ AcceptEnd
  <2>1. /\ UNCHANGED <<spc, base, total, rec, wpos, wrote, file>> /\ rpc # "write"
        /\ rpc' = rpc \/ (rpc = "listen" /\ rpc' \in {"recv", "failed"})
    BY <1>3 DEF ListenAccept, ListenRefuse, DropPacket, AcceptEnd, Receiving, senderVars,
                receiverVars, readVars, writeVars
  <2> QED BY <1>1, <2>1, FileFrame, Zenon
<1>4. CASE AcceptsPacket \/ ReturnChunk \/ WriteOne \/ NextChunk
  BY <1>1, <1>4, AcceptsPacketFile, ReturnChunkFile, WriteOneFile, NextChunkFile, Zenon
<1> QED BY <1>2, <1>3, <1>4, Zenon DEF EitherStep, ReceiverStep

\* How much of the message the file of an ended receiver holds.
LEMMA DoneFile ==
    ASSUME FileInv, rpc \in {"done", "failed"}
    PROVE  file = IF NotConnected THEN <<>> ELSE Message
<1>1. /\ file \in Seq([piece : Pieces, length : Nat])
      /\ Message \in Seq([piece : Pieces, length : Nat])
      /\ Len(Message) \in Nat /\ base \in Nat
  BY MessageFacts, Numbers DEF FileInv, IInv, RtpTypeOK
<1>2. /\ Len(file) = PiecesBefore(base) /\ \A i \in DOMAIN file : file[i] = Message[i]
  BY DEF FileInv, FileSound, FileIsPrefix
<1>3. CASE NotConnected
  <2>1. base = 0
    BY <1>3 DEF FileInv, IInv, UnconnectedSound
  <2> QED BY <1>1, <1>2, <1>3, <2>1, EmptySeq DEF PiecesBefore
<1>4. CASE ~NotConnected
  <2>1. base >= Len(Message)
    BY <1>4 DEF FileInv, IInv, DoneAfterEnd, DoneWhole
  <2>2. Len(file) = Len(Message)
    BY <1>1, <1>2, <2>1 DEF PiecesBefore
  <2>3. file = Message
    BY <1>1, <1>2, <2>2, SeqEqual, LenProperties
  <2> QED BY <1>4, <2>3
<1> QED BY <1>3, <1>4

\* What is behind the number of a packet the receiver no longer asks for.
LEMMA ReceivedIsHeld ==
    ASSUME FileInv, ~NotConnected, NEW i \in 0..NPackets-1, i < seq
    PROVE  Held(i)
<1>1. /\ RtpTypeOK /\ SlotsSound /\ ChunkFilled /\ WriteSound /\ FileSound
      /\ i \in Int /\ i < NPackets /\ base \in Nat /\ seq \in Nat /\ wpos \in Nat
      /\ TotalPacket \in Nat /\ MaxWindow \in Nat /\ MaxWindow > TotalPacket
      /\ Len(Message) \in Nat
  <2>1. RtpTypeOK /\ SlotsSound /\ ChunkFilled /\ WriteSound /\ FileSound
    BY DEF FileInv, IInv
  <2>2. Len(Message) \in Nat
    BY MessageFacts, Zenon
  <2>3. /\ base \in Nat /\ seq \in Nat /\ wpos \in Nat /\ NPackets \in Nat
        /\ TotalPacket \in Nat /\ MaxWindow \in Nat /\ MaxWindow > TotalPacket
    BY <2>1, Numbers, Zenon
  <2>4. i \in Int /\ i < NPackets
    BY <2>3
  <2> QED BY <2>1, <2>2, <2>3, <2>4
<1>2. CASE i < base
  <2>1. SUFFICES ASSUME LenOf(i) > 0 PROVE i + 1 \in DOMAIN file /\ file[i + 1].piece = i
    BY <1>2 DEF Held
  <2>2. i < Len(Message)
    <3>1. LenOf(i) # 0
      BY <2>1
    <3> QED BY <3>1, MessageFacts, Zenon
  <2>3. i < Len(file) /\ Len(file) \in Nat
    BY <1>1, <1>2, <2>2 DEF WriteSound, FileSound, PiecesBefore
  <2>4. i + 1 \in DOMAIN file
    <3>1. DOMAIN file = 1..Len(file)
      BY <1>1, LenProperties DEF RtpTypeOK
    <3> QED BY <1>1, <2>3, <3>1
  <2>5. file[i + 1] = Message[i + 1]
    BY <1>1, <2>4 DEF FileSound, FileIsPrefix
  <2>6. i + 1 \in 1..Len(Message) /\ (i + 1) - 1 = i
    BY <1>1, <2>2
  <2>7. Message[i + 1] = [piece |-> (i + 1) - 1, length |-> LenOf((i + 1) - 1)]
    BY <2>6, MessageFacts, Zenon
  <2>8. Message[i + 1].piece = (i + 1) - 1
    BY <2>7
  <2> QED BY <2>4, <2>5, <2>6, <2>8, Zenon
<1>3. CASE base <= i
  <2>1. rec[i % MaxWindow] = LenOf(i)
    BY <1>1, <1>3, ChunkFacts, Zenon
  <2>2. i <= base + MaxWindow - 1 /\ i - base \in 0..TotalPacket-1
    BY <1>1, <1>3 DEF ChunkFilled
  <2>3. ASSUME LenOf(i) > 0 PROVE i - base \in DOMAIN buf /\ buf[i - base] = i
    <3>1. rec[i % MaxWindow] # 0
      BY <2>1, <2>3
    <3>2. buf[i - base] = i
      BY <1>1, <1>3, <2>2, <3>1, SlotFacts, Zenon
    <3>3. DOMAIN buf = 0..TotalPacket-1
      BY <1>1 DEF RtpTypeOK
    <3> QED BY <2>2, <3>2, <3>3
  <2> QED BY <2>1, <2>3, Zenon DEF Held
<1> QED BY <1>1, <1>2, <1>3

-----------------------------------------------------------------------------
(* What follows for either program. *)

\* The invariant, and with it what the file is, holds whichever ACKs are sent.
LEMMA EitherKeepsFile ==
    ASSUME CleanStack, StartNotDuplicated
    PROVE  EitherProgram => []FileInv
<1>1. RtpInit => FileInv
  BY InitFileInv
<1>2. FileInv /\ [EitherStep]_rtpVars => FileInv'
  BY StepFileInv
<1> QED BY <1>1, <1>2, PTL DEF EitherProgram

LEMMA FileInvGives == FileInv => FileIsPrefix /\ WholeFileOrNone
<1>1. SUFFICES ASSUME FileInv PROVE FileIsPrefix /\ WholeFileOrNone
  OBVIOUS
<1>2. FileIsPrefix
  BY <1>1 DEF FileInv, FileSound
<1>3. ASSUME rpc = "done" PROVE file = IF spc = "failed" THEN <<>> ELSE Message
  <2>1. NotConnected <=> spc = "failed"
    BY <1>1, <1>3 DEF FileInv, IInv, DoneAfterEnd, NotConnected, Finishing
  <2> QED BY <1>1, <1>3, <2>1, DoneFile
<1> QED BY <1>2, <1>3 DEF WholeFileOrNone

LEMMA EitherImplementsTransfer ==
    ASSUME CleanStack, StartNotDuplicated
    PROVE  EitherProgram => ImplementsTransfer
<1>1. RtpInit => Transfer!Init
  BY DEF RtpInit, Transfer!Init
<1> DEFINE EndedRight == rpc \in {"done", "failed"} => file \in {<<>>, Message}
<1>2. FileInv => EndedRight
  BY DoneFile
<1>3. FileInv' => EndedRight'
  BY <1>2, PTL
<1>4. ASSUME FileInv, FileInv', [EitherStep]_rtpVars
      PROVE  [Transfer!Next]_<<file, rpc \in {"done", "failed"}>>
  <2>1. CASE SenderStep \/ NetworkFault \/ UNCHANGED rtpVars
    BY <2>1 DEF SenderStep, SendStart, StartAcked, StartNotAcked, SendsOrSkips, MovesWindow, EndRound,
                FinishSending, NetworkFault, rtpVars, senderVars, receiverVars,
                writeVars
  <2>2. CASE ListenAccept \/ DropPacket \/ AcceptEnd \/ AcceptsPacket
    BY <2>2 DEF ListenAccept, DropPacket, AcceptEnd, AcceptsPacket, Receiving,
                receiverVars, writeVars
  <2>3. CASE ListenRefuse \/ ReturnChunk \/ NextChunk
    <3>1. file' = file /\ rpc \notin {"done", "failed"}
      BY <2>3 DEF ListenRefuse, ReturnChunk, NextChunk, writeVars
    <3>2. rpc' \in {"done", "failed"} => file' \in {<<>>, Message}
      BY <1>3, <1>4
    <3> QED BY <3>1, <3>2 DEF Transfer!Next, Transfer!Close
  <2>4. CASE WriteOne
    <3>1. /\ Len(file) = wpos /\ wpos < Len(Message)
          /\ file' = Append(file, Message[wpos + 1])
      BY <1>4, <2>4, WriteOneEffect
    <3>2. rpc = "write" /\ rpc' = rpc
      BY <2>4 DEF WriteOne
    <3> QED BY <3>1, <3>2 DEF Transfer!Next, Transfer!Deliver
  <2> QED BY <1>4, <2>1, <2>2, <2>3, <2>4, Zenon DEF EitherStep, ReceiverStep
<1> QED BY <1>1, <1>4, EitherKeepsFile, PTL DEF EitherProgram, ImplementsTransfer, Transfer!Spec
=============================================================================
