------------------------------ MODULE MCScores ------------------------------
(* A small instance of the moving average for TLC.                         *)
EXTENDS Scores
=============================================================================
