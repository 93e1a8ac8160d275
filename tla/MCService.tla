----------------------------- MODULE MCService ------------------------------
(* Small instances of the service for TLC.                                 *)
EXTENDS Service
=============================================================================
