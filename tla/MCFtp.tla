------------------------------- MODULE MCFtp -------------------------------
(* Ftp for TLC: clients and files as model values, clients interchangeable. *)
EXTENDS Ftp, TLC

Symmetry == Permutations(Clients)
=============================================================================
