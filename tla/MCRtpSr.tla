------------------------------ MODULE MCRtpSr ------------------------------
(* RtpSr for TLC: what the runs let the network do. *)
EXTENDS RtpSrInv

EveryKind == Kinds
EveryKindButStart == Kinds \ {"START"}
=============================================================================
