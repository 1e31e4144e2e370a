---------------------------- MODULE MCNamedFifo ----------------------------
(* The instances of NamedFifo for TLC: their cfgs give only constants, and   *)
(* use no symmetry because liveness is checked.                              *)
EXTENDS NamedFifo
=============================================================================
