--------------------------------- MODULE Rtp ---------------------------------
(***************************************************************************)
(* The part of the RTP transfer (src/Assignment 2) that the cumulative-ACK *)
(* program (src/) and the selective-repeat program (opt_src/) have in      *)
(* common: the START handshake, the receiver's loop around rtp_recvfrom,   *)
(* the writing of a received chunk to the file, and the properties of the  *)
(* transfer.  RtpGbn and RtpSr add how packets are sent, accepted and      *)
(* acknowledged.                                                           *)
(*                                                                         *)
(* The message is cut into packets 0 .. NPackets-1.  Its bytes are not     *)
(* modelled: the content of a packet is its number (a "piece"), and what   *)
(* is kept of a length is the number of bytes.                             *)
(***************************************************************************)
EXTENDS RtpNet

CONSTANTS
    MsgLen,         \* len of rtp_sendto: bytes in the message
    PacketSize,     \* PACKET_SIZE
    SndWindow,      \* rcb->window_size of the sender process
    RcvWindow,      \* rcb->window_size of the receiver process
    TotalPacket,    \* TOTAL_PACKET: packets in the receiver's chunk buffer
    MaxWindow,      \* MAX_WINDOW: slots of an ack_record array
    MaxPacket,      \* MAX_PACKET: the "no END yet" value of end_seq
    StackGarbage,   \* what the uninitialised ack_record of receiver() holds
    Timely          \* TRUE: the 500 ms timeout never beats an answer

NPackets == MsgLen \div PacketSize + 1
LenOf(i) == IF i = NPackets - 1 THEN MsgLen % PacketSize ELSE PacketSize

ASSUME RtpAssumption ==
    /\ MsgLen \in Nat
    /\ PacketSize \in Nat \ {0}
    /\ SndWindow \in Nat \ {0}
    /\ RcvWindow \in Nat \ {0}
    /\ TotalPacket \in Nat /\ TotalPacket >= 2
    /\ MaxWindow \in Nat /\ MaxWindow > TotalPacket
    /\ MaxPacket \in Nat /\ MaxPacket > NPackets + MaxWindow
    /\ StackGarbage \subseteq Nat
    /\ Timely \in BOOLEAN

\* A place in the chunk buffer that no packet was copied to.
Stale == -1
Pieces == Nat \cup {Stale}

\* The bytes rtp_sendto is asked to transfer: the packets that are not empty.
Message ==
    LET K == IF MsgLen % PacketSize = 0 THEN NPackets - 1 ELSE NPackets
    IN  [i \in 1..K |-> [piece |-> i - 1, length |-> LenOf(i - 1)]]

VARIABLES
    spc,        \* where the sender process is
    winStart,   \* rtp_sendto: winStart
    next,       \* rtp_sendto: i
    rpc,        \* where the receiver process is
    base,       \* rcb->seq when rtp_recvfrom was called, then *seq_begin
    seq,        \* rtp_recvfrom: seq, then rcb->seq
    endSeq,     \* rtp_recvfrom: end_seq
    total,      \* rtp_recvfrom: total_len, then recv_bytes
    rec,        \* receiver(): ack_record
    buf,        \* receiver(): buffer, one piece per packet
    wpos,       \* receiver(): seq of the writing loop
    wrote,      \* receiver(): total_bytes
    file,       \* the output file
    toReceiver, \* datagrams in flight to the receiver
    toSender    \* datagrams in flight to the sender

senderVars == <<spc, winStart, next>>
readVars == <<base, seq, endSeq, total, rec, buf>>
writeVars == <<wpos, wrote, file>>
receiverVars == <<rpc, readVars, writeVars>>
rtpVars == <<senderVars, receiverVars, toReceiver, toSender>>

SenderStates == {"connect", "await_start", "send", "collect", "await_end", "done", "failed"}
ReceiverStates == {"listen", "recv", "write", "done", "failed"}

RtpTypeOK ==
    /\ spc \in SenderStates
    /\ winStart \in Nat /\ next \in Nat
    /\ rpc \in ReceiverStates
    /\ base \in Nat /\ seq \in Nat /\ endSeq \in Nat /\ total \in Nat
    /\ rec \in [0..MaxWindow-1 -> Nat]
    /\ buf \in [0..TotalPacket-1 -> Pieces]
    /\ wpos \in Nat /\ wrote \in Nat
    /\ file \in Seq([piece : Pieces, length : Nat])
    /\ toReceiver \in Seq(Packet)
    /\ toSender \in Seq(Packet)

\* ack_record is a local array of receiver() that nothing initialises.
RtpInit ==
    /\ spc = "connect" /\ winStart = 0 /\ next = 0
    /\ rpc = "listen" /\ base = 0 /\ seq = 0 /\ endSeq = MaxPacket /\ total = 0
    /\ rec \in [0..MaxWindow-1 -> StackGarbage]
    /\ buf = [s \in 0..TotalPacket-1 |-> Stale]
    /\ wpos = 0 /\ wrote = 0 /\ file = <<>>
    /\ toReceiver = <<>> /\ toSender = <<>>

StatusPacket(kind, s) == [kind |-> kind, seq |-> s, length |-> 0]
DataPacket(i) == [kind |-> "DATA", seq |-> i, length |-> LenOf(i)]

-----------------------------------------------------------------------------
(* rtp_recvstatus: what one call can return to the sender. *)

\* -1: select timed out.  Under Timely it does so only when no answer can come.
TimesOut ==
    /\ Timely => /\ toSender = <<>>
                 /\ toReceiver = <<>> \/ rpc \in {"done", "failed"}
    /\ UNCHANGED toSender

\* -2: a datagram with a wrong checksum is consumed.
GetsCorrupt ==
    \E k \in Deliverable(toSender) :
        MayBeCorrupt(toSender[k]) /\ toSender' = Without(toSender, k)

\* RTP_ACK with sequence number s.
GetsAck(s) ==
    \E k \in Deliverable(toSender) :
        /\ IsAck(toSender[k]) /\ toSender[k].seq = s
        /\ toSender' = Without(toSender, k)

AckNumbers == {toSender[k].seq : k \in DOMAIN toSender}

-----------------------------------------------------------------------------
(* The sender: rtp_connect, and what rtp_sendto does around its rounds. *)

SendStart ==
    /\ spc = "connect"
    /\ spc' = "await_start"
    /\ toReceiver' = Put(toReceiver, StatusPacket("START", 0))
    /\ UNCHANGED <<winStart, next, receiverVars, toSender>>

StartAcked ==
    /\ spc = "await_start"
    /\ \E s \in AckNumbers : GetsAck(s)
    /\ spc' = "send" /\ winStart' = 0 /\ next' = 0
    /\ UNCHANGED <<receiverVars, toReceiver>>

\* rtp_connect gives up: it sends END and returns without waiting for an answer.
StartNotAcked ==
    /\ spc = "await_start"
    /\ TimesOut \/ GetsCorrupt
    /\ spc' = "failed"
    /\ toReceiver' = Put(toReceiver, StatusPacket("END", 0))
    /\ UNCHANGED <<winStart, next, receiverVars>>

WinEnd == IF winStart + SndWindow > NPackets THEN NPackets ELSE winStart + SndWindow

\* Wrong variant: the last packet is not waited for.
AllButOneAcked == winStart >= NPackets - 1
AllAcked == winStart >= NPackets

\* Wrong variant: the round starts one packet before the window.
RestartOneBack == next' = winStart - 1
RestartWindow == next' = winStart

\* A timeout or a wrong checksum ends the round: the next window, or END.
EndRound ==
    /\ spc = "collect"
    /\ TimesOut \/ GetsCorrupt
    /\ \/ ~AllAcked /\ spc' = "send" /\ RestartWindow /\ UNCHANGED toReceiver
       \/ /\ AllAcked /\ spc' = "await_end" /\ UNCHANGED next
          /\ toReceiver' = Put(toReceiver, StatusPacket("END", winStart))
    /\ UNCHANGED <<winStart, receiverVars>>

\* rtp_sendto waits for one answer to END; whatever comes, sender() closes.
FinishSending ==
    /\ spc = "await_end"
    /\ TimesOut \/ GetsCorrupt \/ \E s \in AckNumbers : GetsAck(s)
    /\ spc' = "done"
    /\ UNCHANGED <<winStart, next, receiverVars, toReceiver>>

-----------------------------------------------------------------------------
(* The receiver: rtp_listen, then receiver()'s loop around rtp_recvfrom. *)

ListenAccept ==
    /\ rpc = "listen"
    /\ \E k \in Deliverable(toReceiver) :
        LET p == toReceiver[k] IN
        /\ p.kind = "START"
        /\ toReceiver' = Without(toReceiver, k)
        /\ toSender' = Put(toSender, StatusPacket("START_ACK", p.seq))
    /\ rpc' = "recv"
    /\ UNCHANGED <<senderVars, readVars, writeVars>>

\* A wrong checksum or another type: rtp_listen returns -1, receiver() closes.
ListenRefuse ==
    /\ rpc = "listen"
    /\ \E k \in Deliverable(toReceiver) :
        LET p == toReceiver[k] IN
        /\ p.kind # "START" \/ MayBeCorrupt(p)
        /\ toReceiver' = Without(toReceiver, k)
    /\ rpc' = "failed"
    /\ UNCHANGED <<senderVars, readVars, writeVars, toSender>>

\* The guard of rtp_recvfrom's loop.
Receiving == rpc = "recv" /\ seq < endSeq /\ seq < base + TotalPacket

\* Wrong variant: the "Buffer Full" test of rtp_recvfrom is missing.
InWindowNoBufferTest(p) == p.seq >= seq /\ p.seq < seq + RcvWindow

InWindow(p) == p.seq >= seq /\ p.seq < seq + RcvWindow /\ p.seq < base + TotalPacket

\* Wrong checksum, out of window or buffer full: the packet is dropped, unacknowledged.
DropPacket ==
    /\ Receiving
    /\ \E k \in Deliverable(toReceiver) :
        /\ MayBeCorrupt(toReceiver[k]) \/ ~InWindow(toReceiver[k])
        /\ toReceiver' = Without(toReceiver, k)
    /\ UNCHANGED <<senderVars, receiverVars, toSender>>

(***************************************************************************)
(* Where while(ack_record[seq % MAX_WINDOW]) seq++ stops when it starts at *)
(* s.  The set is empty when it never stops: the receiver then spins, and  *)
(* the step that would accept the packet never ends.                       *)
(***************************************************************************)
FirstGap(s) ==
    {t \in s..(s + MaxWindow - 1) :
        /\ rec[t % MaxWindow] = 0
        /\ \A u \in s..(t - 1) : rec[u % MaxWindow] # 0}

AdvanceSeq(p) == IF p.seq = seq THEN seq' \in FirstGap(seq + 1) ELSE seq' = seq

\* The packet's length and bytes go to its slots of ack_record and buffer.
Record(p) ==
    /\ rec' = [rec EXCEPT ![p.seq % MaxWindow] = p.length]
    /\ buf' = IF p.length = 0 THEN buf ELSE [buf EXCEPT ![p.seq - base] = p.seq]

\* Wrong variant: a packet is counted each time it arrives.
CountAlways(p) == total' = total + p.length

\* A packet's length counts once, however often it arrives.
IfNewCount(p) == total' = IF rec[p.seq % MaxWindow] = 0 THEN total + p.length ELSE total

\* END in the window: it takes its own number, and is answered with it.
AcceptEnd ==
    /\ Receiving
    /\ \E k \in Deliverable(toReceiver) :
        LET p == toReceiver[k] IN
        /\ p.kind = "END" /\ InWindow(p)
        /\ AdvanceSeq(p)
        /\ endSeq' = p.seq
        /\ toSender' = Put(toSender, StatusPacket("END_ACK", p.seq))
        /\ toReceiver' = Without(toReceiver, k)
    /\ UNCHANGED <<senderVars, rpc, base, total, rec, buf, writeVars>>

\* rtp_recvfrom returns: 0 ends receiver()'s loop, otherwise the chunk is written.
ReturnChunk ==
    /\ rpc = "recv" /\ ~Receiving
    /\ rpc' = IF total = 0 THEN "done" ELSE "write"
    /\ wpos' = base /\ wrote' = 0
    /\ UNCHANGED <<senderVars, readVars, file, toReceiver, toSender>>

\* What fwrite finds in the buffer; past its last slot lies other stack memory.
Content(s) == IF s \in DOMAIN buf THEN buf[s] ELSE Stale

\* One round of the writing loop; fwrite of 0 bytes writes nothing.
WriteOne ==
    /\ rpc = "write" /\ wrote < total
    /\ LET n == rec[wpos % MaxWindow] IN
       /\ file' = IF n = 0 THEN file
                  ELSE Append(file, [piece |-> Content(wpos - base), length |-> n])
       /\ wrote' = wrote + n
    /\ wpos' = wpos + 1
    /\ UNCHANGED <<senderVars, rpc, readVars, toReceiver, toSender>>

\* Wrong variant: the memset of ack_record is missing.
KeepRecord == UNCHANGED rec
ClearRecord == rec' = [s \in 0..MaxWindow-1 |-> 0]

\* Wrong variant: rtp_recvfrom does not save in rcb->seq how far it got.
ForgetSeq == UNCHANGED base
SaveSeq == base' = seq

(***************************************************************************)
(* ack_record is cleared and rtp_recvfrom called again.  After END the     *)
(* socket is closed, recvfrom fails, rtp_recvfrom returns 0 and receiver() *)
(* ends.                                                                   *)
(***************************************************************************)
NextChunk ==
    /\ rpc = "write" /\ wrote >= total
    /\ ClearRecord /\ SaveSeq
    /\ rpc' = IF endSeq # MaxPacket THEN "done" ELSE "recv"
    /\ endSeq' = MaxPacket /\ total' = 0
    /\ UNCHANGED <<senderVars, seq, buf, writeVars, toReceiver, toSender>>

-----------------------------------------------------------------------------
(* The network's steps. *)

NetworkFault ==
    /\ \/ LosesOne(toReceiver, toReceiver') /\ UNCHANGED toSender
       \/ LosesOne(toSender, toSender') /\ UNCHANGED toReceiver
       \/ DuplicatesOne(toReceiver, toReceiver') /\ UNCHANGED toSender
       \/ DuplicatesOne(toSender, toSender') /\ UNCHANGED toReceiver
    /\ UNCHANGED <<senderVars, receiverVars>>
-----------------------------------------------------------------------------
(* Properties of a transfer that both programs have. *)

(***************************************************************************)
(* The receiver has the packet: it was written to its place in the file,   *)
(* or lies, whole and unmixed, in the chunk buffer.                        *)
(***************************************************************************)
Held(i) ==
    \/ i < base /\ (LenOf(i) > 0 => i + 1 \in DOMAIN file /\ file[i + 1].piece = i)
    \/ /\ rec[i % MaxWindow] = LenOf(i)
       /\ LenOf(i) > 0 => i - base \in DOMAIN buf /\ buf[i - base] = i

\* The file is at all times a prefix of the message, chunk by chunk, whatever
\* order, repetition, loss or corruption the packets met.
FileIsPrefix ==
    /\ Len(file) <= Len(Message)
    /\ \A i \in DOMAIN file : file[i] = Message[i]

(***************************************************************************)
(* The receiver ends with the whole file or with none: none only when the  *)
(* sender gave up connecting and said END at once.                         *)
(***************************************************************************)
WholeFileOrNone ==
    rpc = "done" => file = IF spc = "failed" THEN <<>> ELSE Message

(***************************************************************************)
(* END is not sent, and not accepted, before the receiver holds everything *)
(* (its last chunk is written only because of that END).                   *)
(***************************************************************************)
EndMeansAllHeld ==
    /\ spc \in {"await_end", "done"} => seq >= NPackets
    /\ endSeq # MaxPacket => seq > endSeq /\ (endSeq = NPackets \/ spc = "failed")

\* Under fairness: the whole message reaches the file.
Delivered == <>(file = Message)
=============================================================================
