------------------------------ MODULE MCRtpGbn ------------------------------
(* RtpGbn for TLC: what the runs let the network do. *)
EXTENDS RtpGbnInv

EveryKind == Kinds
EveryKindButStart == Kinds \ {"START"}
=============================================================================
