------------------------------ MODULE MCVotes -------------------------------
(* A small instance of the counter votes for TLC.                          *)
EXTENDS Votes, TLC

HostSymmetry == Permutations(Hosts)
=============================================================================
