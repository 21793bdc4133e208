------------------------------- MODULE Policy -------------------------------
(***************************************************************************)
(* Who may have what signed: PreparePolicy turns the `tezos' section of    *)
(* the configuration file into policies once, at start-up, and every       *)
(* request is compared with the policy of its key (pkg/signatory).         *)
(*                                                                         *)
(* An operation is named by a pair <<base, subkind>>, the subkind being "" *)
(* where the name has no colon.  Lists are sets: sorting and duplicates    *)
(* make no difference to strInSlice.  Unset is a nil list or map, which is *)
(* not the empty one.                                                      *)
(***************************************************************************)
CONSTANTS
    Unset,
    Default,            \* the nil policy: a key listed without options
    NotListed,          \* a key that is not in the configuration
    Invalid,            \* PreparePolicy returned an error
    AvailRequests,      \* proto.ListSignRequests()
    AvailOps,           \* proto.ListGenericOperations() and pseudo operations
    BLSKeys             \* the keys whose hash is a BLSPublicKeyHash

ASSUME PolicyAssumption ==
    /\ {"block", "preattestation", "attestation", "generic"} \subseteq AvailRequests
    /\ {"ballot"} \subseteq AvailOps

Votes == {"yay", "nay", "pass"}

-----------------------------------------------------------------------------
(* PreparePolicy. *)

fixupRequest(name) ==
    CASE name = "endorsement"    -> "attestation"
      [] name = "preendorsement" -> "preattestation"
      [] OTHER                   -> name

fixupOperation(op) ==
    LET base == CASE op[1] = "endorsement"    -> "attestation"
                  [] op[1] = "preendorsement" -> "preattestation"
                  [] op[1] = "double_endorsement_evidence" ->
                        "double_attestation_evidence"
                  [] op[1] = "double_preendorsement_evidence" ->
                        "double_preattestation_evidence"
                  [] OTHER -> op[1]
    IN  <<base, op[2]>>

checkRequestKind(names) == names \subseteq AvailRequests

\* Mutant of checkOperationKind: the part after the colon is not looked at.
checkOperationBase(ops) == \A op \in ops : op[1] \in AvailOps

checkOperationKind(ops) ==
    \A op \in ops :
        /\ op[1] \in AvailOps
        /\ op[2] # "" => op[1] = "ballot" /\ op[2] \in Votes

\* entry is [allow, allowedOperations, allowedKinds, chains, prove, clients,
\* users]; allow maps request names to the operations listed under them, and
\* wins over the two deprecated lists.
PreparePolicy(key, entry) ==
    LET requests ==
            {fixupRequest(n) :
                n \in IF entry.allow # Unset THEN DOMAIN entry.allow
                      ELSE IF entry.allowedOperations # Unset THEN entry.allowedOperations
                      ELSE {}}
        ops ==
            {fixupOperation(op) :
                op \in IF entry.allow # Unset
                       THEN IF "generic" \in DOMAIN entry.allow
                            THEN entry.allow["generic"] ELSE {}
                       ELSE IF entry.allowedKinds # Unset THEN entry.allowedKinds
                       ELSE {}}
    IN  IF entry = Default THEN Default
        ELSE IF ~checkRequestKind(requests) \/ ~checkOperationKind(ops) THEN Invalid
        ELSE [allowedRequests |-> requests,
              allowedOps      |-> ops,
              allowedChains   |-> entry.chains,
              prove           |-> entry.prove /\ key \in BLSKeys,
              clients         |-> entry.clients,
              users           |-> entry.users]

defaultPolicy ==
    [allowedRequests |-> {"block", "preattestation", "attestation"},
     allowedOps      |-> {},
     allowedChains   |-> Unset,
     prove           |-> FALSE,
     clients         |-> Unset,
     users           |-> Unset]

\* tezos maps a listed key to its entry; policies are prepared from it.
fetchPolicyOrDefault(tezos, key) ==
    IF key \notin DOMAIN tezos THEN NotListed
    ELSE IF tezos[key] = Default THEN defaultPolicy
    ELSE PreparePolicy(key, tezos[key])

-----------------------------------------------------------------------------
(* The checks of a request. *)

\* user is Unset when no JWT middleware put one into the context.
jwtVerifyUser(user, policy) ==
    user # Unset /\ policy.users # Unset => user \in policy.users

\* Mutant of ChainAllowed: an empty list taken for no list.
ChainAllowedNonEmpty(policy, msg) ==
    policy.allowedChains \notin {Unset, {}} /\ msg.chain # Unset =>
        msg.chain \in policy.allowedChains

\* msg is [kind, chain, ops]; chain is Unset where the message carries no
\* watermark, and ops is empty unless its kind is generic.
ChainAllowed(policy, msg) ==
    policy.allowedChains # Unset /\ msg.chain # Unset =>
        msg.chain \in policy.allowedChains

\* Mutant of ClientAllowed: any authenticated client will do.
ClientAllowedAny(policy, client) == policy.clients # Unset => client # Unset

\* client is Unset where the request was not authenticated.
ClientAllowed(policy, client) ==
    policy.clients # Unset => client # Unset /\ client \in policy.clients

OpAllowed(policy, op) ==
    \/ op[1] = "ballot" /\ <<"ballot", "">> \in policy.allowedOps
    \/ op \in policy.allowedOps

matchFilter(policy, client, msg) ==
    /\ ChainAllowed(policy, msg)
    /\ ClientAllowed(policy, client)
    /\ msg.kind \in policy.allowedRequests
    /\ \A op \in msg.ops : OpAllowed(policy, op)

-----------------------------------------------------------------------------
(***************************************************************************)
(* What the configuration file says, read without preparing anything: the  *)
(* reference the prepared policies are compared with.                      *)
(***************************************************************************)

\* Names that mean the same thing, the older one first.
Renamed ==
    {<<"endorsement", "attestation">>,
     <<"preendorsement", "preattestation">>,
     <<"double_endorsement_evidence", "double_attestation_evidence">>,
     <<"double_preendorsement_evidence", "double_preattestation_evidence">>}

\* The lists of the protocol library hold current names only, and evidence is
\* an operation, never a request.
ASSUME RenamedAssumption ==
    /\ \A r \in Renamed : r[1] \notin AvailRequests \cup AvailOps
    /\ {"double_attestation_evidence", "double_preattestation_evidence"}
          \cap AvailRequests = {}

Means(name, kind) == name = kind \/ <<name, kind>> \in Renamed

\* The request names, and the operations, an entry lists.
Listed(entry) ==
    IF entry.allow # Unset THEN DOMAIN entry.allow
    ELSE IF entry.allowedOperations # Unset THEN entry.allowedOperations ELSE {}
ListedOps(entry) ==
    IF entry.allow # Unset
    THEN UNION {entry.allow[n] : n \in DOMAIN entry.allow \cap {"generic"}}
    ELSE IF entry.allowedKinds # Unset THEN entry.allowedKinds ELSE {}

\* A ballot is permitted by `ballot' and by `ballot:<vote>', any other
\* operation by its name.
OpPermitted(entry, op) ==
    \E l \in ListedOps(entry) :
        Means(l[1], op[1]) /\ (l[2] = op[2] \/ (op[1] = "ballot" /\ l[2] = ""))

\* The configuration permits key to sign msg for client and user.
Permits(tezos, key, client, user, msg) ==
    /\ key \in DOMAIN tezos
    /\ tezos[key] = Default => msg.kind \in {"block", "preattestation", "attestation"}
    /\ tezos[key] # Default =>
          LET entry == tezos[key] IN
          /\ \E n \in Listed(entry) : Means(n, msg.kind)
          /\ \A op \in msg.ops : OpPermitted(entry, op)
          /\ entry.chains # Unset /\ msg.chain # Unset => msg.chain \in entry.chains
          /\ entry.clients # Unset => client \in entry.clients
          /\ entry.users # Unset /\ user # Unset => user \in entry.users

\* Every name an entry uses is one the program knows.
WellNamed(entry) ==
    /\ \A n \in Listed(entry) : \E k \in AvailRequests : Means(n, k)
    /\ \A l \in ListedOps(entry) :
          /\ \E b \in AvailOps : Means(l[1], b)
          /\ l[2] # "" => l[1] = "ballot" /\ l[2] \in Votes
=============================================================================
