---------------------------- MODULE RequestSets -----------------------------
(* Sets of signing requests for the instances.  The digest of a request is *)
(* the tuple of what the message says: every round has a message for each  *)
(* payload, and the same message may be signed by several keys.            *)

RequestsOver(chains, keys, kinds, levels, rounds, payloads) ==
    {[chain |-> c, pkh |-> k, kind |-> kd, level |-> l, round |-> rd,
      digest |-> <<c, kd, l, rd, p>>] :
        c \in chains, k \in keys, kd \in kinds,
        l \in levels, rd \in rounds, p \in payloads}

DigestsOf(requests) == {r.digest : r \in requests}
=============================================================================
