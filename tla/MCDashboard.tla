---------------------------- MODULE MCDashboard -----------------------------
(* Small instances of the page for TLC.                                    *)
EXTENDS Dashboard
=============================================================================
