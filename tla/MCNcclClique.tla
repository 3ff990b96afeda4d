---------------------------- MODULE MCNcclClique ----------------------------
(***************************************************************************)
(* A small instance of NcclClique for TLC: two runs meet on a clique of    *)
(* this host and on one shared with other hosts, and the first also uses   *)
(* a clique of the P2P stream twice.                                       *)
(***************************************************************************)
EXTENDS NcclClique, TLC

CONSTANTS local, global, p2p

TwoRuns == <<  <<local, global, p2p, p2p>>, <<local, global>>  >>
=============================================================================
