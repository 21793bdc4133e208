------------------------------ MODULE MCService ------------------------------
(* Two users, two requests and a health check at a time.                    *)
EXTENDS Service

CONSTANTS u1, u2, c1, c2, h
=============================================================================
