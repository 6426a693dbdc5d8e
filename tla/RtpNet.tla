------------------------------- MODULE RtpNet -------------------------------
(***************************************************************************)
(* The UDP sockets between sender and receiver, modelled from how          *)
(* src/Assignment 2/src/rtp.c uses them: sendto never blocks and never     *)
(* reports a lost datagram, recvfrom takes one whole datagram.  A channel  *)
(* is the sequence of datagrams that are in flight in one direction.       *)
(*                                                                         *)
(* What the network may do to a datagram is a parameter, by the kind of    *)
(* datagram, because the course's test-case document                       *)
(* (src/Assignment 2/testcase/) injects one fault into one kind at a time. *)
(***************************************************************************)
EXTENDS Integers, Sequences, SequencesExt

CONSTANTS
    RcvBuf,       \* datagrams a socket's receive buffer holds
    Losable,      \* the kinds of datagram the network may lose
    Duplicable,   \* ... may deliver more than once
    Corruptible,  \* ... may deliver with a wrong checksum
    Reorders      \* TRUE: datagrams may overtake each other

(***************************************************************************)
(* The type field of an RTP header.  All the ACKs are RTP_ACK on the wire; *)
(* the kind also records what is acknowledged, which only the network's    *)
(* faults look at, never the endpoints.                                    *)
(***************************************************************************)
AckKinds == {"START_ACK", "DATA_ACK", "END_ACK"}
Kinds == {"START", "DATA", "END"} \cup AckKinds

Packet == [kind : Kinds, seq : Nat, length : Nat]
IsAck(p) == p.kind \in AckKinds

ASSUME NetAssumption ==
    /\ RcvBuf \in Nat \ {0}
    /\ Losable \subseteq Kinds
    /\ Duplicable \subseteq Kinds
    /\ Corruptible \subseteq Kinds
    /\ Reorders \in BOOLEAN

\* A datagram that finds the receive buffer full is dropped by the kernel.
Put(ch, p) == IF Len(ch) < RcvBuf THEN Append(ch, p) ELSE ch

\* The positions recvfrom may take its datagram from.
Deliverable(ch) == IF Reorders THEN DOMAIN ch ELSE DOMAIN ch \cap {1}

Without(ch, k) == RemoveAt(ch, k)

\* The faults: ch2 is ch after the network lost, or duplicated, one datagram.
LosesOne(ch, ch2) ==
    \E k \in DOMAIN ch : ch[k].kind \in Losable /\ ch2 = Without(ch, k)

DuplicatesOne(ch, ch2) ==
    /\ Len(ch) < RcvBuf
    /\ \E k \in DOMAIN ch : ch[k].kind \in Duplicable /\ ch2 = InsertAt(ch, k, ch[k])

\* The recipient may find the checksum of p wrong.
MayBeCorrupt(p) == p.kind \in Corruptible
=============================================================================
