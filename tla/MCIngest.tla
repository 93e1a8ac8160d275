----------------------------- MODULE MCIngest ------------------------------
(* Small instances of payout ingestion for TLC.                            *)
EXTENDS Ingest
=============================================================================
