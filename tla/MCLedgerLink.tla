---------------------------- MODULE MCLedgerLink ----------------------------
(* Two callers on a channel with room for one request; packets of five     *)
(* bytes, messages of two full commands.                                   *)
EXTENDS LedgerLink

CONSTANTS a, b
=============================================================================
