-------------------------- MODULE MCAsyncTransfer --------------------------
(* A small instance of AsyncTransfer for TLC. *)
EXTENDS AsyncTransfer
=============================================================================
