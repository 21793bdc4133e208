--------------------------- MODULE MCLedgerWorker ---------------------------
(* Two callers on a channel with room for one request.                     *)
EXTENDS LedgerWorker

CONSTANTS a, b
=============================================================================
