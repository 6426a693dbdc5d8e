---------------------------- MODULE MCDvConnect ----------------------------
(* DvConnect for TLC: a triangle of routers with one more on router 1. *)
EXTENDS DvConnect

Kite == {{0, 1}, {0, 2}, {1, 2}, {1, 3}}
=============================================================================
