------------------------------ MODULE MCPolicy ------------------------------
(* Every small entry of the configuration, prepared at start-up and then   *)
(* asked about every small message: the decision of the prepared policy is *)
(* compared with the configuration itself.                                 *)
EXTENDS PolicyDecision

CONSTANTS tz1, tz4, alice, bob, c1, c2

MCAvailRequests ==
    {"block", "preattestation", "attestation", "attestation_with_dal", "generic"}
MCAvailOps ==
    {"ballot", "transaction", "attestation", "double_attestation_evidence"}

\* Current, renamed and unknown names.
OpLists == SUBSET {<<"ballot", "">>, <<"ballot", "yay">>, <<"transaction", "">>,
                   <<"double_endorsement_evidence", "">>}
           \cup {{<<"transaction", "yay">>}, {<<"ballot", "maybe">>}, {<<"bribe", "">>}}
Names == {{}, {"block"}, {"attestation", "generic"}, {"endorsement", "generic"},
          {"attestation_with_dal", "endorsement"}, {"blocks"}}
Allows == {[n \in names |-> IF n = "generic" THEN ops ELSE {}] :
              names \in Names, ops \in OpLists}

MCEntries ==
    {Default}
    \cup [allow : Allows, allowedOperations : {Unset, {"block"}}, allowedKinds : {Unset},
          chains : {Unset, {}, {c1}}, prove : {TRUE},
          clients : {Unset, {alice}}, users : {Unset}]
    \cup [allow : {Unset}, allowedOperations : {Unset} \cup Names,
          allowedKinds : {Unset} \cup OpLists, chains : {Unset}, prove : BOOLEAN,
          clients : {Unset}, users : {Unset, {}, {alice}}]

Messages ==
    [kind : MCAvailRequests \ {"generic"}, chain : {c1, c2}, ops : {{}}]
    \cup [kind : {"generic"}, chain : {Unset},
          ops : {{}, {<<"ballot", "yay">>}, {<<"ballot", "nay">>, <<"transaction", "">>},
                 {<<"transaction", "">>}, {<<"double_attestation_evidence", "">>}}]

\* One key listed, of either kind, or two keys, one of them without options.
MCSections ==
    UNION {[{k} -> MCEntries] : k \in {tz1, tz4}}
    \cup {[k \in {tz1, tz4} |-> IF k = tz4 THEN e ELSE Default] : e \in MCEntries}

MCQuestions == [key : {tz1, tz4}, client : {Unset, alice, bob}, user : {Unset, alice, bob},
                msg : Messages]
=============================================================================
