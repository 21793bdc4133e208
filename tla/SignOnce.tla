------------------------------ MODULE SignOnce ------------------------------
(***************************************************************************)
(* What a watermark backend promises, whatever it stores and wherever it   *)
(* stores it: requests are granted in strictly increasing (level, round)   *)
(* order for each chain, key and kind, a repetition of the last one being  *)
(* the only exception, and only granted requests are signed.               *)
(***************************************************************************)
EXTENDS Watermarks

VARIABLES
    granted,   \* requests IsSafeToSign has let through
    signed     \* requests for which the vault has produced a signature

vars == <<granted, signed>>

Init == granted = {} /\ signed = {}

Grant(r) ==
    /\ \A g \in granted : SameSlot(g, r) => g = r \/ SupersededBy(g, r)
    /\ granted' = granted \cup {r}
    /\ UNCHANGED signed

Sign(r) ==
    /\ r \in granted
    /\ signed' = signed \cup {r}
    /\ UNCHANGED granted

Next == \E r \in Requests : Grant(r) \/ Sign(r)

Spec == Init /\ [][Next]_vars

\* Only requests are granted, and only granted requests are signed.
TypeOK == granted \subseteq Requests /\ signed \subseteq granted

\* No two signatures for the same chain, key, kind, level and round differ.
NoDoubleSign == \A r, s \in signed : ~Conflict(r, s)
=============================================================================
