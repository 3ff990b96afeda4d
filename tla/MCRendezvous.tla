---------------------------- MODULE MCRendezvous ----------------------------
(***************************************************************************)
(* A small instance of Rendezvous for TLC.                                 *)
(***************************************************************************)
EXTENDS Rendezvous
=============================================================================
