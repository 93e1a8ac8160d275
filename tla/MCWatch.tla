------------------------------ MODULE MCWatch ------------------------------
(* Small instances of the watchdog for TLC.                                *)
EXTENDS Watch
=============================================================================
