---------------------------- MODULE MCSignatory -----------------------------
(* Two handlers, two vaults that share a key, and four configurations:     *)
(* authenticated clients with a signing hook, tokens with a plain hook, an *)
(* open server with the default policy, and one that must not start.       *)
EXTENDS Signatory, RequestSets

CONSTANTS c1, tz1, tz4, alice, bob, v1, v2, h1, h2

MCRequests == RequestsOver({c1}, {tz1}, {"block"}, 1..1, 0..0, {"A", "B"})
MCDigests == DigestsOf(MCRequests)
MCAvailRequests == {"block", "preattestation", "attestation", "generic"}
MCAvailOps == {"ballot", "transaction"}

Entry == [allow |-> [n \in {"block", "generic"} |->
                        IF n = "generic" THEN {<<"transaction", "">>} ELSE {}],
          allowedOperations |-> Unset, allowedKinds |-> Unset, chains |-> {c1},
          prove |-> TRUE, clients |-> Unset, users |-> Unset]

MCConfigs ==
    {[tezos |-> [k \in {tz1, tz4} |-> [Entry EXCEPT !.clients = {alice}]],
      auth |-> {alice, bob}, jwt |-> FALSE, hook |-> "signed"],
     [tezos |-> [k \in {tz1} |-> [Entry EXCEPT !.users = {alice}]],
      auth |-> Unset, jwt |-> TRUE, hook |-> "plain"],
     [tezos |-> [k \in {tz1, tz4} |-> IF k = tz1 THEN Default ELSE Entry],
      auth |-> Unset, jwt |-> FALSE, hook |-> "none"],
     [tezos |-> [k \in {tz1} |-> Default],
      auth |-> {alice}, jwt |-> TRUE, hook |-> "none"]}

Blocks ==
    {[op |-> "sign", pkh |-> r.pkh, client |-> p, user |-> p,
      msg |-> [kind |-> r.kind, chain |-> r.chain, ops |-> {}, mark |-> r]] :
        r \in MCRequests, p \in {alice, bob}}
Other(op, k, p, kind, ops) ==
    [op |-> op, pkh |-> k, client |-> p, user |-> p,
     msg |-> [kind |-> kind, chain |-> Unset, ops |-> ops, mark |-> NoMark]]
Round == {b \in Blocks : b.msg.mark.digest[5] = "A" \/ b.client = alice}

MCCalls ==
    Round
    \cup {Other("sign", tz1, alice, "generic", {<<"transaction", "">>}),
          Other("prove", tz4, alice, "none", {}),
          Other("get", tz4, bob, "none", {})}

MCStores ==
    {[v \in Vaults |-> IF v = v1 THEN {tz1} ELSE {tz1, tz4}],
     [v \in Vaults |-> IF v = v1 THEN {} ELSE {tz4}]}
=============================================================================
