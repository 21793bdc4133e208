----------------------------- MODULE MCEnclave -----------------------------
(* A service and a command line tool, on one storage and one signer.       *)
EXTENDS Enclave

CONSTANTS s, t, k1, k2, m
=============================================================================
