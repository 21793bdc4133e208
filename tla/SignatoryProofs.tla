-------------------------- MODULE SignatoryProofs ---------------------------
(***************************************************************************)
(* The signing service, for every configuration, every number of handlers  *)
(* and vaults, and every set of calls: what is signed is permitted, the    *)
(* hook has agreed to it, no round is used up for nothing, keys are where  *)
(* the cache says, and the service keeps the promise of SignOnce.  Before  *)
(* that, the policies: they decide as the configuration says.              *)
(***************************************************************************)
EXTENDS Signatory, PolicyDecision, WatermarkLemmas

-----------------------------------------------------------------------------
(* The policies. *)

\* Replacing the deprecated request names keeps their meaning.
LEMMA FixupRequestMeans == ASSUME NEW n PROVE Means(n, fixupRequest(n))
BY DEF Means, Renamed, fixupRequest

\* ... and so does replacing the deprecated names of operations.
LEMMA FixupOperationMeans ==
    ASSUME NEW l
    PROVE  /\ Means(l[1], fixupOperation(l)[1])
           /\ fixupOperation(l)[2] = l[2]
BY DEF Means, Renamed, fixupOperation

\* A prepared policy, field by field, in the words of the configuration.
LEMMA Prepared ==
    ASSUME NEW tezos, NEW key \in DOMAIN tezos,
           tezos[key] # Default,
           fetchPolicyOrDefault(tezos, key) # Invalid
    PROVE  LET P == fetchPolicyOrDefault(tezos, key)
               entry == tezos[key]
           IN  /\ P.allowedRequests = {fixupRequest(n) : n \in Listed(entry)}
               /\ P.allowedOps = {fixupOperation(l) : l \in ListedOps(entry)}
               /\ P.allowedChains = entry.chains
               /\ P.prove <=> entry.prove /\ key \in BLSKeys
               /\ P.clients = entry.clients
               /\ P.users = entry.users
<1> DEFINE entry == tezos[key]
<1>1. Listed(entry) = IF entry.allow # Unset THEN DOMAIN entry.allow
                      ELSE IF entry.allowedOperations # Unset THEN entry.allowedOperations
                      ELSE {}
  BY DEF Listed
<1>2. ListedOps(entry) = IF entry.allow # Unset
                         THEN IF "generic" \in DOMAIN entry.allow
                              THEN entry.allow["generic"] ELSE {}
                         ELSE IF entry.allowedKinds # Unset THEN entry.allowedKinds
                         ELSE {}
  BY DEF ListedOps
<1>3. fetchPolicyOrDefault(tezos, key) = PreparePolicy(key, entry)
  BY DEF fetchPolicyOrDefault
<1>4. PreparePolicy(key, entry) =
        [allowedRequests |-> {fixupRequest(n) : n \in Listed(entry)},
         allowedOps      |-> {fixupOperation(l) : l \in ListedOps(entry)},
         allowedChains   |-> entry.chains,
         prove           |-> entry.prove /\ key \in BLSKeys,
         clients         |-> entry.clients,
         users           |-> entry.users]
  BY <1>1, <1>2, <1>3 DEF PreparePolicy
<1>5. PreparePolicy(key, entry).prove <=> entry.prove /\ key \in BLSKeys
  <2>1. PreparePolicy(key, entry).prove = (entry.prove /\ key \in BLSKeys)
    BY <1>4
  <2>. QED
    BY <2>1, Zenon
<1>6. LET P == fetchPolicyOrDefault(tezos, key)
      IN  /\ P.allowedRequests = {fixupRequest(n) : n \in Listed(entry)}
          /\ P.allowedOps = {fixupOperation(l) : l \in ListedOps(entry)}
          /\ P.allowedChains = entry.chains
          /\ P.clients = entry.clients
          /\ P.users = entry.users
  BY <1>3, <1>4
<1>. QED
  BY <1>3, <1>5, <1>6, Zenon

\* sign requests, decided upon by jwtVerifyUser and matchFilter, are decided as
\* the configuration says: nothing it does not permit is let through ...
LEMMA LetThroughIsPermitted ==
    ASSUME NEW tezos, NEW key \in DOMAIN tezos,
           fetchPolicyOrDefault(tezos, key) # Invalid,
           NEW client, NEW user, NEW msg,
           jwtVerifyUser(user, fetchPolicyOrDefault(tezos, key)),
           matchFilter(fetchPolicyOrDefault(tezos, key), client, msg)
    PROVE  Permits(tezos, key, client, user, msg)
<1> DEFINE P == fetchPolicyOrDefault(tezos, key)
           entry == tezos[key]
<1>1. CASE entry = Default
  <2>1. P = defaultPolicy
    BY <1>1 DEF fetchPolicyOrDefault
  <2>. QED
    BY <1>1, <2>1 DEF defaultPolicy, matchFilter, Permits
<1>2. CASE entry # Default
  <2>1. /\ P.allowedRequests = {fixupRequest(n) : n \in Listed(entry)}
        /\ P.allowedOps = {fixupOperation(l) : l \in ListedOps(entry)}
        /\ P.allowedChains = entry.chains
        /\ P.clients = entry.clients
        /\ P.users = entry.users
    BY <1>2, Prepared, Zenon
  <2>2. \E n \in Listed(entry) : Means(n, msg.kind)
    BY <2>1, FixupRequestMeans DEF matchFilter
  <2>3. ASSUME NEW op \in msg.ops PROVE OpPermitted(entry, op)
    <3>1. OpAllowed(P, op)
      BY <2>3 DEF matchFilter
    <3>2. CASE op \in P.allowedOps
      <4>1. PICK l \in ListedOps(entry) : op = fixupOperation(l)
        BY <2>1, <3>2
      <4>. QED
        BY <4>1, FixupOperationMeans DEF OpPermitted
    <3>3. CASE op[1] = "ballot" /\ <<"ballot", "">> \in P.allowedOps
      <4>1. PICK l \in ListedOps(entry) : fixupOperation(l) = <<"ballot", "">>
        BY <2>1, <3>3
      <4>2. l[1] = "ballot" /\ l[2] = ""
        BY <4>1 DEF fixupOperation
      <4>. QED
        BY <3>3, <4>2 DEF OpPermitted, Means
    <3>. QED
      BY <3>1, <3>2, <3>3 DEF OpAllowed
  <2>4. /\ entry.chains # Unset /\ msg.chain # Unset => msg.chain \in entry.chains
        /\ entry.clients # Unset => client \in entry.clients
        /\ entry.users # Unset /\ user # Unset => user \in entry.users
    BY <2>1 DEF matchFilter, ChainAllowed, ClientAllowed, jwtVerifyUser
  <2>. QED
    BY <1>2, <2>2, <2>3, <2>4 DEF Permits
<1>. QED
  BY <1>1, <1>2

\* ... and nothing it permits is refused, for messages as the protocol library
\* decodes them: kinds and operations by their current names, lists of clients
\* without the unknown one.
LEMMA PermittedIsLetThrough ==
    ASSUME NEW tezos, NEW key \in DOMAIN tezos,
           fetchPolicyOrDefault(tezos, key) # Invalid,
           NEW client, NEW user, NEW msg,
           tezos[key] # Default /\ tezos[key].clients # Unset =>
              Unset \notin tezos[key].clients,
           msg.kind \in AvailRequests,
           \A op \in msg.ops : op[1] \in AvailOps /\ op = <<op[1], op[2]>>,
           msg.kind # "generic" => msg.ops = {},
           Permits(tezos, key, client, user, msg)
    PROVE  /\ jwtVerifyUser(user, fetchPolicyOrDefault(tezos, key))
           /\ matchFilter(fetchPolicyOrDefault(tezos, key), client, msg)
<1> DEFINE P == fetchPolicyOrDefault(tezos, key)
           entry == tezos[key]
<1>1. CASE entry = Default
  <2>1. P = defaultPolicy
    BY <1>1 DEF fetchPolicyOrDefault
  <2>2. /\ P.allowedRequests = {"block", "preattestation", "attestation"}
        /\ P.allowedChains = Unset /\ P.clients = Unset /\ P.users = Unset
    BY <2>1 DEF defaultPolicy
  <2>3. msg.kind \in {"block", "preattestation", "attestation"} /\ msg.ops = {}
    BY <1>1 DEF Permits
  <2>. QED
    BY <2>2, <2>3 DEF matchFilter, jwtVerifyUser, ChainAllowed, ClientAllowed
<1>2. CASE entry # Default
  <2>1. /\ P.allowedRequests = {fixupRequest(n) : n \in Listed(entry)}
        /\ P.allowedOps = {fixupOperation(l) : l \in ListedOps(entry)}
        /\ P.allowedChains = entry.chains
        /\ P.clients = entry.clients
        /\ P.users = entry.users
    BY <1>2, Prepared, Zenon
  <2>2. msg.kind \in P.allowedRequests
    <3>1. PICK n \in Listed(entry) : Means(n, msg.kind)
      BY <1>2 DEF Permits
    <3>2. fixupRequest(n) = msg.kind
      BY <3>1, RenamedAssumption DEF Means, Renamed, fixupRequest
    <3>. QED
      BY <2>1, <3>2
  <2>3. ASSUME NEW op \in msg.ops PROVE OpAllowed(P, op)
    <3>1. PICK l \in ListedOps(entry) :
             Means(l[1], op[1]) /\ (l[2] = op[2] \/ (op[1] = "ballot" /\ l[2] = ""))
      BY <1>2 DEF Permits, OpPermitted
    <3>2. fixupOperation(l) = <<op[1], l[2]>>
      BY <3>1, RenamedAssumption DEF Means, Renamed, fixupOperation
    <3>3. <<op[1], l[2]>> \in P.allowedOps
      BY <2>1, <3>2
    <3>. QED
      BY <3>1, <3>3 DEF OpAllowed
  <2>4. ChainAllowed(P, msg) /\ ClientAllowed(P, client) /\ jwtVerifyUser(user, P)
    BY <1>2, <2>1 DEF Permits, ChainAllowed, ClientAllowed, jwtVerifyUser
  <2>. QED
    BY <2>2, <2>3, <2>4 DEF matchFilter
<1>. QED
  BY <1>1, <1>2

\* PreparePolicy, jwtVerifyUser and matchFilter together let through exactly
\* what the configuration permits: renamed kinds, the deprecated lists, ballots
\* with and without a vote, nil and empty lists, whatever they hold.
THEOREM PolicyAsConfigured ==
    ASSUME NEW tezos, NEW key \in DOMAIN tezos,
           fetchPolicyOrDefault(tezos, key) # Invalid,
           NEW client, NEW user, NEW msg,
           tezos[key] # Default /\ tezos[key].clients # Unset =>
              Unset \notin tezos[key].clients,
           msg.kind \in AvailRequests,
           \A op \in msg.ops : op[1] \in AvailOps /\ op = <<op[1], op[2]>>,
           msg.kind # "generic" => msg.ops = {}
    PROVE  Permits(tezos, key, client, user, msg) <=>
              /\ jwtVerifyUser(user, fetchPolicyOrDefault(tezos, key))
              /\ matchFilter(fetchPolicyOrDefault(tezos, key), client, msg)
BY LetThroughIsPermitted, PermittedIsLetThrough

\* A name PreparePolicy does not know makes the policy invalid, which stops the
\* root command; with known names only there is a policy.
THEOREM UnknownNamesStop ==
    ASSUME NEW key, NEW entry, entry # Default
    PROVE  /\ ~WellNamed(entry) => PreparePolicy(key, entry) = Invalid
           /\ WellNamed(entry) => PreparePolicy(key, entry) =
                [allowedRequests |-> {fixupRequest(n) : n \in Listed(entry)},
                 allowedOps      |-> {fixupOperation(l) : l \in ListedOps(entry)},
                 allowedChains   |-> entry.chains,
                 prove           |-> entry.prove /\ key \in BLSKeys,
                 clients         |-> entry.clients,
                 users           |-> entry.users]
<1> DEFINE requests == {fixupRequest(n) : n \in Listed(entry)}
           ops == {fixupOperation(l) : l \in ListedOps(entry)}
           policy == [allowedRequests |-> requests,
                      allowedOps      |-> ops,
                      allowedChains   |-> entry.chains,
                      prove           |-> entry.prove /\ key \in BLSKeys,
                      clients         |-> entry.clients,
                      users           |-> entry.users]
<1>1. Listed(entry) = IF entry.allow # Unset THEN DOMAIN entry.allow
                      ELSE IF entry.allowedOperations # Unset THEN entry.allowedOperations
                      ELSE {}
  BY DEF Listed
<1>2. ListedOps(entry) = IF entry.allow # Unset
                         THEN IF "generic" \in DOMAIN entry.allow
                              THEN entry.allow["generic"] ELSE {}
                         ELSE IF entry.allowedKinds # Unset THEN entry.allowedKinds
                         ELSE {}
  BY DEF ListedOps
<1>3. PreparePolicy(key, entry) =
        IF ~checkRequestKind(requests) \/ ~checkOperationKind(ops) THEN Invalid
        ELSE policy
  BY <1>1, <1>2 DEF PreparePolicy
<1>4. checkRequestKind(requests) <=>
        \A n \in Listed(entry) : \E k \in AvailRequests : Means(n, k)
  <2>1. ASSUME NEW n
        PROVE  fixupRequest(n) \in AvailRequests <=> \E k \in AvailRequests : Means(n, k)
    BY RenamedAssumption DEF fixupRequest, Means, Renamed
  <2>. QED
    BY <2>1 DEF checkRequestKind
<1>5. checkOperationKind(ops) <=>
        \A l \in ListedOps(entry) :
            /\ \E b \in AvailOps : Means(l[1], b)
            /\ l[2] # "" => l[1] = "ballot" /\ l[2] \in Votes
  <2>1. ASSUME NEW l
        PROVE  /\ fixupOperation(l)[1] \in AvailOps <=> \E b \in AvailOps : Means(l[1], b)
               /\ fixupOperation(l)[1] = "ballot" <=> l[1] = "ballot"
               /\ fixupOperation(l)[2] = l[2]
    BY RenamedAssumption DEF fixupOperation, Means, Renamed
  <2>2. checkOperationKind(ops) <=>
          \A l \in ListedOps(entry) :
             /\ fixupOperation(l)[1] \in AvailOps
             /\ fixupOperation(l)[2] # "" =>
                   fixupOperation(l)[1] = "ballot" /\ fixupOperation(l)[2] \in Votes
    BY DEF checkOperationKind
  <2>. QED
    BY <2>1, <2>2
<1>6. WellNamed(entry) <=> checkRequestKind(requests) /\ checkOperationKind(ops)
  BY <1>4, <1>5 DEF WellNamed
<1>. HIDE DEF policy
<1>7. /\ ~WellNamed(entry) => PreparePolicy(key, entry) = Invalid
      /\ WellNamed(entry) => PreparePolicy(key, entry) = policy
  BY <1>3, <1>6
<1>. QED
  BY <1>7, Zenon DEF policy

-----------------------------------------------------------------------------
(* What is prepared at the start, and decided by. *)

\* The inductive invariant of PolicyDecision: what is served can be prepared.
Deciding ==
    /\ section \in Sections
    /\ phase \in {"serving", "asked"} =>
          \A k \in DOMAIN section : fetchPolicyOrDefault(section, k) # Invalid
    /\ AsConfigured
    /\ UnknownNamesRefused

\* What a section lists is an entry.
LEMMA EntryListed ==
    ASSUME section \in Sections, NEW n \in DOMAIN section, section[n] # Default
    PROVE  section[n] \in Entries
<1> DEFINE All == {{s[k] : k \in DOMAIN s} : s \in Sections}
<1>1. PICK T : T = {section[k] : k \in DOMAIN section}
  OBVIOUS
<1>2. section[n] \in T /\ T \in All
  BY <1>1, Zenon
<1>3. Entries = (UNION All) \ {Default}
  BY DEF Entries
<1> HIDE DEF All
<1>4. section[n] \in UNION All
  BY <1>2
<1>. QED
  BY <1>3, <1>4

\* An entry with known names only is prepared without an error.
LEMMA WellNamedPrepared ==
    ASSUME NEW key, NEW entry \in Entries, entry # Default, WellNamed(entry)
    PROVE  PreparePolicy(key, entry) \in Policies
<1> DEFINE requests == {fixupRequest(n) : n \in Listed(entry)}
           ops == {fixupOperation(l) : l \in ListedOps(entry)}
           b == entry.prove /\ key \in BLSKeys
<1>1. PreparePolicy(key, entry) =
        [allowedRequests |-> requests, allowedOps |-> ops, allowedChains |-> entry.chains,
         prove |-> b, clients |-> entry.clients, users |-> entry.users]
  BY UnknownNamesStop, Zenon
<1>2. requests \in SUBSET AvailRequests
  <2>1. ASSUME NEW n \in Listed(entry) PROVE fixupRequest(n) \in AvailRequests
    BY <2>1, RenamedAssumption DEF WellNamed, fixupRequest, Means, Renamed
  <2>. QED
    BY <2>1
<1>3. ops \in SUBSET (AvailOps \X (Votes \cup {""}))
  <2>1. ASSUME NEW l \in ListedOps(entry)
        PROVE  fixupOperation(l) \in AvailOps \X (Votes \cup {""})
    <3>1. (\E o \in AvailOps : Means(l[1], o)) /\ l[2] \in Votes \cup {""}
      BY <2>1 DEF WellNamed
    <3>. QED
      BY <3>1, RenamedAssumption DEF fixupOperation, Means, Renamed
  <2>. QED
    BY <2>1
<1>4. b \in BOOLEAN
  OBVIOUS
<1>5. /\ entry.chains \in {e.chains : e \in Entries} \cup {Unset}
      /\ entry.clients \in {e.clients : e \in Entries} \cup {Unset}
      /\ entry.users \in {e.users : e \in Entries} \cup {Unset}
  OBVIOUS
<1>6. ASSUME NEW r \in SUBSET AvailRequests,
             NEW o \in SUBSET (AvailOps \X (Votes \cup {""})),
             NEW c \in {e.chains : e \in Entries} \cup {Unset},
             NEW p \in BOOLEAN,
             NEW l \in {e.clients : e \in Entries} \cup {Unset},
             NEW u \in {e.users : e \in Entries} \cup {Unset}
      PROVE  [allowedRequests |-> r, allowedOps |-> o, allowedChains |-> c,
              prove |-> p, clients |-> l, users |-> u] \in Policies
  BY DEF Policies
<1> HIDE DEF requests, ops, b
<1>7. [allowedRequests |-> requests, allowedOps |-> ops, allowedChains |-> entry.chains,
       prove |-> b, clients |-> entry.clients, users |-> entry.users] \in Policies
  BY <1>2, <1>3, <1>4, <1>5, <1>6
<1>. QED
  BY <1>1, <1>7

\* An entry is prepared when it is well named, and is an error otherwise.
LEMMA PreparedWhenNamed ==
    ASSUME section \in Sections, NEW k \in DOMAIN section
    PROVE  IF section[k] = Default \/ WellNamed(section[k])
           THEN fetchPolicyOrDefault(section, k) \in Policies
           ELSE fetchPolicyOrDefault(section, k) = Invalid
<1>1. CASE section[k] = Default
  <2>1. defaultPolicy \in Policies
    BY PolicyAssumption DEF defaultPolicy, Policies
  <2>. QED
    BY <1>1, <2>1 DEF fetchPolicyOrDefault
<1>2. CASE section[k] # Default
  <2>1. fetchPolicyOrDefault(section, k) = PreparePolicy(k, section[k])
    BY <1>2 DEF fetchPolicyOrDefault
  <2>2. section[k] \in Entries
    BY <1>2, EntryListed
  <2>3. ~WellNamed(section[k]) => PreparePolicy(k, section[k]) = Invalid
    BY <1>2, UnknownNamesStop, Zenon
  <2>4. WellNamed(section[k]) => PreparePolicy(k, section[k]) \in Policies
    BY <1>2, <2>2, WellNamedPrepared, Zenon
  <2>. QED
    BY <1>2, <2>1, <2>3, <2>4, Zenon
<1>. QED
  BY <1>1, <1>2

\* The program starts when all entries can be prepared.
LEMMA PrepareKeeps ==
    ASSUME Deciding, Prepare
    PROVE  Deciding'
<1>1. section \in Sections /\ section' = section
  BY DEF Deciding, Prepare
<1>2. \A k \in DOMAIN section :
         fetchPolicyOrDefault(section, k) = Invalid <=>
            section[k] # Default /\ ~WellNamed(section[k])
  BY <1>1, PreparedWhenNamed, PoliciesAssumption
<1>3. CASE \E k \in DOMAIN section : fetchPolicyOrDefault(section, k) = Invalid
  <2>1. phase' = "refused"
    BY <1>3 DEF Prepare
  <2>. QED
    BY <1>1, <1>2, <1>3, <2>1 DEF Deciding, AsConfigured, UnknownNamesRefused
<1>4. CASE \A k \in DOMAIN section : fetchPolicyOrDefault(section, k) # Invalid
  <2>1. phase' = "serving"
    BY <1>4 DEF Prepare
  <2>. QED
    BY <1>1, <1>2, <1>4, <2>1 DEF Deciding, AsConfigured, UnknownNamesRefused
<1>. QED
  BY <1>3, <1>4

\* A question is decided as the configuration says.
LEMMA DecideKeeps ==
    ASSUME Deciding, NEW q \in Questions, Decide(q)
    PROVE  Deciding'
<1> DEFINE policy == fetchPolicyOrDefault(section, q.key)
           ok == /\ policy # NotListed
                 /\ jwtVerifyUser(q.user, policy)
                 /\ matchFilter(policy, q.client, q.msg)
<1>1. phase = "serving" /\ phase' = "asked" /\ section' = section
  BY DEF Decide
<1>2. decision' = [q |-> q, ok |-> ok]
  BY DEF Decide
<1>3. ok <=> Permits(section, q.key, q.client, q.user, q.msg)
  <2>1. CASE q.key \notin DOMAIN section
    BY <2>1 DEF fetchPolicyOrDefault, Permits
  <2>2. CASE q.key \in DOMAIN section
    <3>1. policy # Invalid
      BY <1>1, <2>2 DEF Deciding
    <3>2. section[q.key] # Default => section[q.key] \in Entries
      BY <2>2, EntryListed DEF Deciding
    <3>3. /\ section[q.key] # Default /\ section[q.key].clients # Unset =>
                Unset \notin section[q.key].clients
          /\ q.msg.kind \in AvailRequests
          /\ \A op \in q.msg.ops : op[1] \in AvailOps /\ op = <<op[1], op[2]>>
          /\ q.msg.kind # "generic" => q.msg.ops = {}
      BY <3>2, QuestionsAssumption
    <3>4. policy # NotListed
      BY <2>2, <3>1, PreparedWhenNamed, PoliciesAssumption DEF Deciding
    <3>. QED
      BY <2>2, <3>1, <3>3, <3>4, PolicyAsConfigured, Zenon
  <2>. QED
    BY <2>1, <2>2
<1> HIDE DEF ok
<1>4. AsConfigured'
  <2>1. decision'.q = q /\ (decision'.ok <=> ok)
    BY <1>2
  <2>. QED
    BY <1>1, <1>3, <2>1, Zenon DEF AsConfigured
<1>. QED
  BY <1>1, <1>4 DEF Deciding, UnknownNamesRefused

\* The invariant holds.
LEMMA DecidingHolds == DecisionSpec => []Deciding
<1>1. DecisionInit => Deciding
  BY DEF DecisionInit, Deciding, AsConfigured, UnknownNamesRefused
<1>2. Deciding /\ UNCHANGED decisionVars => Deciding'
  BY DEF Deciding, AsConfigured, UnknownNamesRefused, decisionVars
<1>3. Deciding /\ [DecisionNext]_decisionVars => Deciding'
  BY <1>2, PrepareKeeps, DecideKeeps DEF DecisionNext
<1>. QED
  BY <1>1, <1>3, PTL DEF DecisionSpec

\* What PreparePolicy has made of the configuration at the start, jwtVerifyUser
\* and matchFilter decide by as the configuration says, for every section and
\* every request.
THEOREM DecidesAsConfigured == DecisionSpec => []AsConfigured
<1>1. Deciding => AsConfigured
  BY DEF Deciding
<1>. QED
  BY <1>1, DecidingHolds, PTL

\* The root command goes on exactly when every name in the section is one the
\* program knows.
THEOREM RefusesUnknownNames == DecisionSpec => []UnknownNamesRefused
<1>1. Deciding => UnknownNamesRefused
  BY DEF Deciding
<1>. QED
  BY <1>1, DecidingHolds, PTL

-----------------------------------------------------------------------------
(* The inductive invariant. *)

\* The server serves only with policies that could be prepared.
Prepares ==
    proc \in {"unlocked", "up"} =>
        \A k \in DOMAIN conf.tezos : fetchPolicyOrDefault(conf.tezos, k) # Invalid

\* What a handler has behind it where it stands: the request was admitted, it
\* is not one for a key, the policy allows it, it needs the watermark, and the
\* watermark has let it through.
Progress(h) ==
    /\ pc[h] # "idle" => proc = "up" /\ Admitted(call[h])
    /\ pc[h] \in {"filter", "hook", "guard", "vault"} => call[h].op # "get"
    /\ pc[h] \in {"hook", "guard", "vault"} => Allowed(h)
    /\ pc[h] = "guard" => call[h].op = "sign"
    /\ pc[h] = "vault" /\ call[h].msg.mark # NoMark => call[h].msg.mark \in granted

\* A handler waits for the hook with a nonce of its own, and what the hook has
\* said under this nonce it has said of the handler's call; past the hook it
\* has the hook's consent.
Consent(h) ==
    /\ pc[h] = "hook" =>
          /\ nonce[h] \in 1..nonces
          /\ \A g \in Handlers : g # h /\ pc[g] = "hook" => nonce[g] # nonce[h]
          /\ \A r \in replies : r.nonce = nonce[h] => r.call = call[h]
    /\ pc[h] \in {"guard", "vault"} => Approved(call[h], nonce[h])

\* A handler that has not looked yet has found nothing, and one that looks
\* looks into the service's vaults.
Looking(h) ==
    /\ pc[h] \in {"idle", "lookup"} => found[h] = NoVault
    /\ todo[h] \subseteq vaults

IInv ==
    /\ TypeOK
    /\ Prepares
    /\ \A h \in Handlers : Progress(h) /\ Consent(h) /\ Looking(h)
    /\ OnlyPermitted
    /\ HookConsented
    /\ NothingBurned
    /\ KeysWhereCached

-----------------------------------------------------------------------------
(* Steps that leave something alone. *)

\* What has been signed and granted stays in order under more replies, nonces
\* and keys.
LEMMA OutputKeeps ==
    ASSUME TypeOK, OnlyPermitted, HookConsented, NothingBurned,
           conf' = conf, vaults' = vaults, output' = output, granted' = granted,
           replies \subseteq replies', nonces' \in Nat, nonces <= nonces',
           \A v \in Vaults : stored[v] \subseteq stored'[v]
    PROVE  OnlyPermitted' /\ HookConsented' /\ NothingBurned'
<1>1. OnlyPermitted'
  BY DEF OnlyPermitted, Client, User
<1>2. HookConsented'
  BY DEF HookConsented, Approved
<1>3. ASSUME NEW m \in granted
      PROVE  \E c \in Calls :
               /\ c.msg.mark = m
               /\ Permits(conf.tezos, c.pkh, Client(c), User(c), c.msg)
               /\ \E v \in vaults : c.pkh \in stored'[v]
               /\ \E n \in 0..nonces' : Approved(c, n)'
  <2>1. PICK c \in Calls :
           /\ c.msg.mark = m
           /\ Permits(conf.tezos, c.pkh, Client(c), User(c), c.msg)
           /\ \E v \in vaults : c.pkh \in stored[v]
           /\ \E n \in 0..nonces : Approved(c, n)
    BY <1>3 DEF NothingBurned
  <2>2. \E v \in vaults : c.pkh \in stored'[v]
    BY <2>1 DEF TypeOK
  <2>3. \E n \in 0..nonces' : Approved(c, n)'
    <3>1. PICK n \in 0..nonces : Approved(c, n)
      BY <2>1
    <3>2. n \in 0..nonces'
      BY DEF TypeOK
    <3>3. Approved(c, n)'
      BY <3>1 DEF Approved
    <3>. QED
      BY <3>2, <3>3
  <2>. QED
    BY <2>1, <2>2, <2>3
<1>4. NothingBurned'
  BY <1>3 DEF NothingBurned, Client, User
<1>. QED
  BY <1>1, <1>2, <1>4

\* A handler that does not move keeps what it has behind it.
LEMMA StandsStill ==
    ASSUME NEW g \in Handlers, Progress(g), Looking(g), conf' = conf, vaults' = vaults,
           proc = "up" => proc' = "up", granted \subseteq granted',
           pc'[g] = pc[g], call'[g] = call[g], todo'[g] = todo[g], found'[g] = found[g]
    PROVE  Progress(g)' /\ Looking(g)'
BY DEF Progress, Looking, Admitted, Allowed, PolicyOf, User, Client

\* A handler that returns leaves nothing behind.
LEMMA Returns ==
    ASSUME NEW h \in Handlers, TypeOK, Return(h), conf' = conf, vaults' = vaults
    PROVE  Progress(h)' /\ Consent(h)' /\ Looking(h)'
BY DEF Return, TypeOK, Progress, Consent, Looking

\* Neither does the hook's part change for it, when nobody asks the hook and
\* the hook does not answer.
LEMMA ConsentStands ==
    ASSUME NEW g \in Handlers, TypeOK, Consent(g), conf' = conf, replies' = replies,
           nonces' = nonces,
           pc'[g] = pc[g], call'[g] = call[g], nonce'[g] = nonce[g],
           \A f \in Handlers : pc'[f] = "hook" => pc[f] = "hook" /\ nonce'[f] = nonce[f]
    PROVE  Consent(g)'
BY DEF Consent, Approved

-----------------------------------------------------------------------------
(* The steps. *)

LEMMA UnlockKeeps == ASSUME IInv, Unlock PROVE IInv'
<1>1. TypeOK'
  BY DEF Unlock, handlerVars, IInv, TypeOK
<1>2. Prepares'
  BY DEF Unlock, Prepares
<1>3. ASSUME NEW g \in Handlers PROVE Progress(g)' /\ Consent(g)' /\ Looking(g)'
  BY StandsStill, ConsentStands DEF Unlock, handlerVars, IInv
<1>4. OnlyPermitted' /\ HookConsented' /\ NothingBurned'
  BY OutputKeeps DEF Unlock, IInv, TypeOK
<1>5. KeysWhereCached'
  BY DEF Unlock, handlerVars, IInv, TypeOK, KeysWhereCached
<1>. QED
  BY <1>1, <1>2, <1>3, <1>4, <1>5 DEF IInv

LEMMA ServeKeeps == ASSUME IInv, Serve PROVE IInv'
<1>1. TypeOK'
  BY DEF Serve, handlerVars, IInv, TypeOK
<1>2. Prepares'
  BY DEF Serve, IInv, Prepares
<1>3. ASSUME NEW g \in Handlers PROVE Progress(g)' /\ Consent(g)' /\ Looking(g)'
  BY StandsStill, ConsentStands DEF Serve, handlerVars, IInv
<1>4. OnlyPermitted' /\ HookConsented' /\ NothingBurned'
  BY OutputKeeps DEF Serve, IInv, TypeOK
<1>5. KeysWhereCached'
  BY DEF Serve, handlerVars, IInv, TypeOK, KeysWhereCached
<1>. QED
  BY <1>1, <1>2, <1>3, <1>4, <1>5 DEF IInv

LEMMA ImportKeeps ==
    ASSUME IInv, NEW v \in Vaults, NEW k \in Keys, Import(v, k) PROVE IInv'
<1>1. TypeOK'
  BY DEF Import, handlerVars, IInv, TypeOK
<1>2. Prepares'
  BY DEF Import, IInv, Prepares
<1>3. ASSUME NEW g \in Handlers PROVE Progress(g)' /\ Consent(g)' /\ Looking(g)'
  BY StandsStill, ConsentStands DEF Import, handlerVars, IInv
<1>4. \A w \in Vaults : stored[w] \subseteq stored'[w]
  BY DEF Import, IInv, TypeOK
<1>5. OnlyPermitted' /\ HookConsented' /\ NothingBurned'
  BY <1>4, OutputKeeps DEF Import, IInv, TypeOK
<1>6. KeysWhereCached'
  BY <1>4 DEF Import, handlerVars, IInv, TypeOK, KeysWhereCached
<1>. QED
  BY <1>1, <1>2, <1>3, <1>5, <1>6 DEF IInv

LEMMA AcceptKeeps ==
    ASSUME IInv, NEW h \in Handlers, NEW c \in Calls, Accept(h, c) PROVE IInv'
<1>1. TypeOK'
  BY SignatoryAssumption DEF Accept, IInv, TypeOK
<1>2. Prepares'
  BY DEF Accept, IInv, Prepares
<1>3. ASSUME NEW g \in Handlers PROVE Progress(g)' /\ Consent(g)' /\ Looking(g)'
  <2>1. \A f \in Handlers : pc'[f] = "hook" => pc[f] = "hook" /\ nonce'[f] = nonce[f]
    BY DEF Accept, IInv, TypeOK
  <2>2. CASE pc'[g] = pc[g] /\ call'[g] = call[g]
    BY <2>1, <2>2, StandsStill, ConsentStands DEF Accept, IInv
  <2>3. CASE g = h /\ Admitted(c)
    <3>1. pc'[g] = "lookup" /\ call'[g] = c /\ proc' = "up"
      BY <2>3 DEF Accept, IInv, TypeOK
    <3>2. Admitted(call[g])'
      BY <2>3, <3>1 DEF Accept, Admitted, PolicyOf, User
    <3>3. Progress(g)' /\ Consent(g)'
      BY <3>1, <3>2 DEF Progress, Consent
    <3>4. Looking(g)'
      BY <2>3 DEF Accept, IInv, Looking
    <3>. QED
      BY <3>3, <3>4
  <2>. QED
    BY <2>2, <2>3 DEF Accept, IInv, TypeOK
<1>4. OnlyPermitted' /\ HookConsented' /\ NothingBurned'
  BY OutputKeeps DEF Accept, IInv, TypeOK
<1>5. KeysWhereCached'
  BY DEF Accept, IInv, TypeOK, KeysWhereCached, Looking
<1>. QED
  BY <1>1, <1>2, <1>3, <1>4, <1>5 DEF IInv

\* What the handler knows when the look-up has ended well.
LEMMA FoundMoves ==
    ASSUME IInv, NEW h \in Handlers, NEW v \in vaults, pc[h] \in {"lookup", "listing"},
           Found(h, v), conf' = conf, proc' = proc, vaults' = vaults
    PROVE  Progress(h)' /\ Consent(h)' /\ Looking(h)'
<1>1. CASE Return(h)
  BY <1>1, Returns DEF IInv
<1>2. CASE /\ call[h].op # "get"
           /\ pc' = [pc EXCEPT ![h] = "filter"]
           /\ found' = [found EXCEPT ![h] = v]
           /\ todo' = [todo EXCEPT ![h] = {}]
           /\ UNCHANGED <<call, nonce>>
  <2>1. pc'[h] = "filter" /\ call'[h] = call[h] /\ todo'[h] = {}
    BY <1>2 DEF IInv, TypeOK
  <2>2. Admitted(call[h])'
    BY <2>1 DEF IInv, Progress, Admitted, PolicyOf, User
  <2>3. Progress(h)'
    BY <1>2, <2>1, <2>2 DEF IInv, Progress
  <2>4. Consent(h)' /\ Looking(h)'
    BY <2>1 DEF Consent, Looking
  <2>. QED
    BY <2>3, <2>4
<1>. QED
  BY <1>1, <1>2 DEF Found

LEMMA GetPublicKeyKeeps ==
    ASSUME IInv, NEW h \in Handlers, getPublicKey(h) PROVE IInv'
<1>1. call[h] \in Calls /\ call[h].pkh \in Keys
  BY SignatoryAssumption DEF getPublicKey, IInv, TypeOK
<1>2. /\ cache[call[h].pkh] # NoVault =>
            cache[call[h].pkh] \in vaults /\ call[h].pkh \in stored[cache[call[h].pkh]]
      /\ vaults \subseteq Vaults
  BY <1>1 DEF IInv, KeysWhereCached, TypeOK
<1>3. TypeOK'
  BY <1>1, <1>2 DEF getPublicKey, Found, Return, IInv, TypeOK
<1>4. Prepares'
  BY DEF getPublicKey, IInv, Prepares
<1>5. ASSUME NEW g \in Handlers PROVE Progress(g)' /\ Consent(g)' /\ Looking(g)'
  <2>1. \A f \in Handlers : pc'[f] = "hook" => pc[f] = "hook" /\ nonce'[f] = nonce[f]
    BY DEF getPublicKey, Found, Return, IInv, TypeOK
  <2>2. CASE g # h
    <3>1. /\ pc'[g] = pc[g] /\ call'[g] = call[g] /\ todo'[g] = todo[g]
          /\ found'[g] = found[g] /\ nonce'[g] = nonce[g]
      BY <2>2 DEF getPublicKey, Found, Return, IInv, TypeOK
    <3>. QED
      BY <2>1, <3>1, StandsStill, ConsentStands DEF getPublicKey, IInv
  <2>3. CASE g = h
    <3>1. CASE cache[call[h].pkh] # NoVault /\ Found(h, cache[call[h].pkh])
      BY <1>2, <2>3, <3>1, FoundMoves DEF getPublicKey
    <3>2. CASE Return(h)
      BY <2>3, <3>2, Returns DEF getPublicKey, IInv
    <3>3. CASE /\ pc' = [pc EXCEPT ![h] = "listing"]
               /\ todo' = [todo EXCEPT ![h] = vaults]
               /\ UNCHANGED <<call, found, nonce>>
      <4>1. pc'[h] = "listing" /\ call'[h] = call[h] /\ todo'[h] = vaults
        BY <3>3 DEF IInv, TypeOK
      <4>2. Admitted(call[h])' /\ proc' = "up"
        BY <4>1 DEF getPublicKey, IInv, Progress, Admitted, PolicyOf, User
      <4>. QED
        BY <2>3, <4>1, <4>2 DEF getPublicKey, Progress, Consent, Looking
    <3>. QED
      BY <3>1, <3>2, <3>3 DEF getPublicKey
  <2>. QED
    BY <2>2, <2>3
<1>6. OnlyPermitted' /\ HookConsented' /\ NothingBurned'
  BY OutputKeeps DEF getPublicKey, IInv, TypeOK
<1>7. KeysWhereCached'
  BY <1>1, <1>2 DEF getPublicKey, Found, Return, IInv, TypeOK, KeysWhereCached
<1>. QED
  BY <1>3, <1>4, <1>5, <1>6, <1>7 DEF IInv

LEMMA ListPublicKeysKeeps ==
    ASSUME IInv, NEW h \in Handlers, NEW v \in vaults, NEW readable \in SUBSET stored[v],
           listPublicKeys(h, v, readable)
    PROVE  IInv'
<1> DEFINE here == IF call[h].pkh \in readable THEN v ELSE found[h]
<1>1. call[h] \in Calls /\ call[h].pkh \in Keys /\ v \in Vaults
  BY SignatoryAssumption DEF listPublicKeys, IInv, TypeOK
<1>2. here # NoVault => here \in vaults /\ here \in Vaults /\ call[h].pkh \in stored[here]
  BY <1>1 DEF IInv, KeysWhereCached, TypeOK
<1>3. here \in Vaults \cup {NoVault}
  BY <1>1 DEF IInv, TypeOK
<1>4. cache' \in [Keys -> Vaults \cup {NoVault}]
  BY <1>1 DEF listPublicKeys, Visit, IInv, TypeOK
<1>5. \/ /\ todo' = [todo EXCEPT ![h] = @ \ {v}]
         /\ found' = [found EXCEPT ![h] = here]
         /\ UNCHANGED <<pc, call, nonce>>
      \/ here # NoVault /\ Found(h, here)
      \/ Return(h)
  BY DEF listPublicKeys
<1> HIDE DEF here
<1>6. TypeOK'
  <2>1. conf' \in Configs /\ vaults' \subseteq Vaults /\ stored' \in [Vaults -> SUBSET Keys]
    BY DEF listPublicKeys, IInv, TypeOK
  <2>. QED
    BY <1>1, <1>2, <1>3, <1>4, <1>5, <2>1 DEF listPublicKeys, Found, Return, IInv, TypeOK
<1>7. Prepares'
  BY DEF listPublicKeys, IInv, Prepares
<1>8. ASSUME NEW g \in Handlers PROVE Progress(g)' /\ Consent(g)' /\ Looking(g)'
  <2>1. \A f \in Handlers : pc'[f] = "hook" => pc[f] = "hook" /\ nonce'[f] = nonce[f]
    BY <1>5 DEF Found, Return, IInv, TypeOK
  <2>2. CASE g # h
    <3>1. /\ pc'[g] = pc[g] /\ call'[g] = call[g] /\ todo'[g] = todo[g]
          /\ found'[g] = found[g] /\ nonce'[g] = nonce[g]
      BY <1>5, <2>2 DEF Found, Return, IInv, TypeOK
    <3>. QED
      BY <2>1, <3>1, StandsStill, ConsentStands DEF listPublicKeys, IInv
  <2>3. CASE g = h
    <3>1. CASE here # NoVault /\ Found(h, here)
      BY <1>2, <2>3, <3>1, FoundMoves DEF listPublicKeys
    <3>2. CASE Return(h)
      BY <2>3, <3>2, Returns DEF listPublicKeys, IInv
    <3>3. CASE /\ todo' = [todo EXCEPT ![h] = @ \ {v}]
               /\ found' = [found EXCEPT ![h] = here]
               /\ UNCHANGED <<pc, call, nonce>>
      <4>1. pc'[h] = "listing" /\ call'[h] = call[h] /\ todo'[h] \subseteq vaults
        BY <3>3 DEF listPublicKeys, IInv, TypeOK, Looking
      <4>2. Admitted(call[h])' /\ proc' = "up"
        BY <4>1 DEF listPublicKeys, IInv, Progress, Admitted, PolicyOf, User
      <4>. QED
        BY <2>3, <4>1, <4>2 DEF listPublicKeys, Progress, Consent, Looking
    <3>. QED
      BY <1>5, <3>1, <3>2, <3>3
  <2>. QED
    BY <2>2, <2>3
<1>9. OnlyPermitted' /\ HookConsented' /\ NothingBurned'
  BY OutputKeeps DEF listPublicKeys, IInv, TypeOK
<1>10. KeysWhereCached'
  <2>1. ASSUME NEW k \in Keys, cache'[k] # NoVault
        PROVE  cache'[k] \in vaults' /\ k \in stored'[cache'[k]]
    BY <2>1 DEF listPublicKeys, Visit, IInv, KeysWhereCached
  <2>2. ASSUME NEW g \in Handlers, found'[g] # NoVault
        PROVE  found'[g] \in vaults' /\ call'[g].pkh \in stored'[found'[g]]
    BY <1>2, <1>5, <2>2 DEF listPublicKeys, Found, Return, IInv, TypeOK, KeysWhereCached
  <2>. QED
    BY <2>1, <2>2 DEF KeysWhereCached
<1>. QED
  BY <1>6, <1>7, <1>8, <1>9, <1>10 DEF IInv

\* Drawing a nonce: no other handler has it, and no reply.
LEMMA FilterKeeps == ASSUME IInv, NEW h \in Handlers, Filter(h) PROVE IInv'
<1>1. \/ /\ Allowed(h)
         /\ pc' = [pc EXCEPT ![h] = "hook"]
         /\ nonce' = [nonce EXCEPT ![h] = nonces + 1]
         /\ nonces' = nonces + 1
         /\ UNCHANGED <<call, todo, found>>
      \/ /\ Allowed(h) /\ conf.hook = "none"
         /\ pc' = [pc EXCEPT ![h] = Guarded(h)]
         /\ UNCHANGED <<call, todo, found, nonce, nonces>>
      \/ Return(h) /\ UNCHANGED nonces
  BY DEF Filter
<1>2. /\ pc[h] = "filter"
      /\ UNCHANGED <<conf, proc, vaults, stored, cache, served, replies, granted, output>>
  BY DEF Filter
<1>3. nonces' \in Nat /\ nonces <= nonces'
  BY <1>1 DEF IInv, TypeOK
<1>4. TypeOK'
  BY <1>1, <1>2, <1>3 DEF Guarded, Return, IInv, TypeOK
<1>5. Prepares'
  BY <1>2 DEF IInv, Prepares
<1>6. ASSUME NEW g \in Handlers PROVE Progress(g)' /\ Consent(g)' /\ Looking(g)'
  <2>1. ASSUME g # h PROVE /\ pc'[g] = pc[g] /\ call'[g] = call[g] /\ todo'[g] = todo[g]
                           /\ found'[g] = found[g] /\ nonce'[g] = nonce[g]
    BY <1>1, <2>1 DEF Return, IInv, TypeOK
  <2>2. ASSUME NEW f \in Handlers
        PROVE  \/ pc'[f] = "hook" => pc[f] = "hook" /\ nonce'[f] = nonce[f]
               \/ f = h /\ nonce'[f] = nonces + 1
    BY <1>1 DEF Guarded, Return, IInv, TypeOK
  <2>3. CASE g # h
    <3>1. Consent(g)
      BY DEF IInv
    <3>2. nonces \in Nat
      BY DEF IInv, TypeOK
    <3>3. pc[g] = "hook" => nonce[g] \in 1..nonces' /\ nonce[g] # nonces + 1
      BY <1>3, <3>1, <3>2 DEF Consent
    <3>4. ASSUME pc[g] = "hook", NEW f \in Handlers, f # g, pc'[f] = "hook"
          PROVE  nonce'[f] # nonce[g]
      BY <2>2, <3>1, <3>3, <3>4 DEF Consent
    <3>5. Consent(g)'
      BY <1>2, <2>1, <2>3, <3>1, <3>3, <3>4 DEF Consent, Approved
    <3>. QED
      BY <1>2, <2>1, <2>3, <3>5, StandsStill DEF IInv
  <2>4. CASE g = h
    <3>1. CASE Return(h)
      BY <1>2, <2>4, <3>1, Returns DEF IInv
    <3>2. CASE /\ Allowed(h)
               /\ pc' = [pc EXCEPT ![h] = "hook"]
               /\ nonce' = [nonce EXCEPT ![h] = nonces + 1]
               /\ nonces' = nonces + 1
               /\ UNCHANGED <<call, todo, found>>
      <4>1. pc'[h] = "hook" /\ call'[h] = call[h] /\ nonce'[h] = nonces + 1
        BY <3>2 DEF IInv, TypeOK
      <4>2. Progress(h)'
        BY <1>2, <3>2, <4>1
           DEF IInv, Progress, Admitted, Allowed, PolicyOf, User, Client
      <4>3. \A f \in Handlers : f # h => nonce'[f] \in 0..nonces
        BY <3>2 DEF IInv, TypeOK
      <4>4. \A r \in replies : r.nonce \in 1..nonces
        BY DEF IInv, TypeOK
      <4>5. nonces \in Nat
        BY DEF IInv, TypeOK
      <4>6. Consent(h)'
        BY <1>2, <3>2, <4>1, <4>3, <4>4, <4>5 DEF Consent
      <4>7. Looking(h)'
        BY <1>2, <3>2, <4>1 DEF IInv, Looking
      <4>. QED
        BY <2>4, <4>2, <4>6, <4>7
    <3>3. CASE /\ Allowed(h) /\ conf.hook = "none"
               /\ pc' = [pc EXCEPT ![h] = Guarded(h)]
               /\ UNCHANGED <<call, todo, found, nonce, nonces>>
      <4>1. /\ pc'[h] = Guarded(h) /\ call'[h] = call[h] /\ nonce'[h] = nonce[h]
            /\ call[h] \in Calls
        BY <1>2, <3>3 DEF IInv, TypeOK
      <4>2. pc'[h] = "guard" => call[h].op = "sign"
        BY <4>1 DEF Guarded
      <4>3. pc'[h] = "vault" => call[h].msg.mark = NoMark
        BY <4>1, SignatoryAssumption DEF Guarded
      <4>4. pc'[h] \in {"guard", "vault"}
        BY <4>1 DEF Guarded
      <4>5. Progress(h)'
        BY <1>2, <3>3, <4>1, <4>2, <4>3, <4>4
           DEF IInv, Progress, Admitted, Allowed, PolicyOf, User, Client
      <4>6. Consent(h)'
        BY <1>2, <3>3, <4>4 DEF Consent, Approved
      <4>7. Looking(h)'
        BY <1>2, <3>3, <4>4 DEF IInv, Looking
      <4>. QED
        BY <2>4, <4>5, <4>6, <4>7
    <3>. QED
      BY <1>1, <3>1, <3>2, <3>3
  <2>. QED
    BY <2>3, <2>4
<1>7. OnlyPermitted' /\ HookConsented' /\ NothingBurned'
  BY <1>2, <1>3, OutputKeeps DEF IInv, TypeOK
<1>8. KeysWhereCached'
  BY <1>1, <1>2 DEF Return, IInv, TypeOK, KeysWhereCached
<1>. QED
  BY <1>4, <1>5, <1>6, <1>7, <1>8 DEF IInv

\* The hook says something of one handler's call: under a nonce no other
\* handler waits with.
LEMMA HookDecideKeeps ==
    ASSUME IInv, NEW h \in Handlers, NEW ok \in BOOLEAN, HookDecide(h, ok) PROVE IInv'
<1> DEFINE reply == [nonce |-> nonce[h], call |-> call[h], ok |-> ok]
<1>1. /\ pc[h] = "hook" /\ replies' = replies \cup {reply}
      /\ UNCHANGED <<conf, proc, vaults, stored, cache, handlerVars, served, nonces,
                     granted, output>>
  BY DEF HookDecide
<1>2. nonce[h] \in 1..nonces /\ call[h] \in Calls
  BY <1>1 DEF IInv, TypeOK, Consent
<1>3. TypeOK'
  BY <1>1, <1>2 DEF handlerVars, IInv, TypeOK
<1>4. Prepares'
  BY <1>1 DEF IInv, Prepares
<1>5. ASSUME NEW g \in Handlers PROVE Progress(g)' /\ Consent(g)' /\ Looking(g)'
  <2>1. Progress(g)' /\ Looking(g)'
    BY <1>1, StandsStill DEF handlerVars, IInv
  <2>2. Consent(g) /\ Consent(h)
    BY DEF IInv
  <2>3. Consent(g)'
    BY <1>1, <2>2 DEF handlerVars, Consent, Approved
  <2>. QED
    BY <2>1, <2>3
<1>6. OnlyPermitted' /\ HookConsented' /\ NothingBurned'
  BY <1>1, OutputKeeps DEF IInv, TypeOK
<1>7. KeysWhereCached'
  BY <1>1 DEF handlerVars, IInv, KeysWhereCached
<1>. QED
  BY <1>3, <1>4, <1>5, <1>6, <1>7 DEF IInv

\* A good reply, whatever the transport delivers, is the consent to this call.
LEMMA CallPolicyHookKeeps ==
    ASSUME IInv, NEW h \in Handlers, NEW r \in replies, callPolicyHook(h, r) PROVE IInv'
<1>1. \/ /\ GoodReply(h, r)
         /\ pc' = [pc EXCEPT ![h] = Guarded(h)]
         /\ UNCHANGED <<call, todo, found, nonce>>
      \/ Return(h)
  BY DEF callPolicyHook
<1>2. /\ pc[h] = "hook" /\ r \in Delivered(h)
      /\ UNCHANGED <<conf, proc, vaults, stored, cache, served, nonces, replies, granted,
                     output>>
  BY DEF callPolicyHook
<1>3. TypeOK'
  BY <1>1, <1>2 DEF Guarded, Return, IInv, TypeOK
<1>4. Prepares'
  BY <1>2 DEF IInv, Prepares
<1>5. ASSUME NEW g \in Handlers PROVE Progress(g)' /\ Consent(g)' /\ Looking(g)'
  <2>1. \A f \in Handlers : pc'[f] = "hook" => pc[f] = "hook" /\ nonce'[f] = nonce[f]
    BY <1>1 DEF Guarded, Return, IInv, TypeOK
  <2>2. CASE g # h
    <3>1. /\ pc'[g] = pc[g] /\ call'[g] = call[g] /\ todo'[g] = todo[g]
          /\ found'[g] = found[g] /\ nonce'[g] = nonce[g]
      BY <1>1, <2>2 DEF Return, IInv, TypeOK
    <3>. QED
      BY <1>2, <2>1, <3>1, StandsStill, ConsentStands DEF IInv
  <2>3. CASE g = h /\ Return(h)
    BY <1>2, <2>3, Returns DEF IInv
  <2>4. CASE /\ g = h /\ GoodReply(h, r)
             /\ pc' = [pc EXCEPT ![h] = Guarded(h)]
             /\ UNCHANGED <<call, todo, found, nonce>>
    <3>1. /\ pc'[h] = Guarded(h) /\ call'[h] = call[h] /\ nonce'[h] = nonce[h]
          /\ call[h] \in Calls
      BY <1>2, <2>4 DEF IInv, TypeOK
    <3>2. /\ pc'[h] = "guard" => call[h].op = "sign"
          /\ pc'[h] = "vault" => call[h].msg.mark = NoMark
          /\ pc'[h] \in {"guard", "vault"}
      BY <3>1, SignatoryAssumption DEF Guarded
    <3>3. Progress(h)'
      BY <1>2, <2>4, <3>1, <3>2 DEF IInv, Progress, Admitted, Allowed, PolicyOf, User, Client
    <3>4. conf.hook # "none" => r.nonce = nonce[h] /\ r.ok
      BY <1>2, <2>4, SignatoryAssumption DEF GoodReply, Delivered, IInv, TypeOK
    <3>5. r.nonce = nonce[h] => r.call = call[h]
      BY <1>2 DEF IInv, Consent
    <3>6. r \in [nonce : 1..nonces, call : Calls, ok : BOOLEAN]
      BY DEF IInv, TypeOK
    <3>7. Approved(call[h], nonce[h])
      BY <3>4, <3>5, <3>6 DEF Approved
    <3>8. Consent(h)'
      BY <1>2, <3>1, <3>2, <3>7 DEF Consent, Approved
    <3>9. Looking(h)'
      BY <1>2, <2>4, <3>2 DEF IInv, Looking
    <3>. QED
      BY <2>4, <3>3, <3>8, <3>9
  <2>. QED
    BY <1>1, <2>2, <2>3, <2>4
<1>6. OnlyPermitted' /\ HookConsented' /\ NothingBurned'
  BY <1>2, OutputKeeps DEF IInv, TypeOK
<1>7. KeysWhereCached'
  BY <1>1, <1>2 DEF Return, IInv, TypeOK, KeysWhereCached
<1>. QED
  BY <1>3, <1>4, <1>5, <1>6, <1>7 DEF IInv

LEMMA HookFailsKeeps == ASSUME IInv, NEW h \in Handlers, HookFails(h) PROVE IInv'
<1>1. /\ pc[h] = "hook" /\ Return(h)
      /\ UNCHANGED <<conf, proc, vaults, stored, cache, served, nonces, replies, granted,
                     output>>
  BY DEF HookFails
<1>2. TypeOK'
  BY <1>1 DEF Return, IInv, TypeOK
<1>3. Prepares'
  BY <1>1 DEF IInv, Prepares
<1>4. ASSUME NEW g \in Handlers PROVE Progress(g)' /\ Consent(g)' /\ Looking(g)'
  <2>1. \A f \in Handlers : pc'[f] = "hook" => pc[f] = "hook" /\ nonce'[f] = nonce[f]
    BY <1>1 DEF Return, IInv, TypeOK
  <2>2. CASE g # h
    <3>1. /\ pc'[g] = pc[g] /\ call'[g] = call[g] /\ todo'[g] = todo[g]
          /\ found'[g] = found[g] /\ nonce'[g] = nonce[g]
      BY <1>1, <2>2 DEF Return, IInv, TypeOK
    <3>. QED
      BY <1>1, <2>1, <3>1, StandsStill, ConsentStands DEF IInv
  <2>. QED
    BY <1>1, <2>2, Returns DEF IInv
<1>5. OnlyPermitted' /\ HookConsented' /\ NothingBurned'
  BY <1>1, OutputKeeps DEF IInv, TypeOK
<1>6. KeysWhereCached'
  BY <1>1 DEF Return, IInv, TypeOK, KeysWhereCached
<1>. QED
  BY <1>2, <1>3, <1>4, <1>5, <1>6 DEF IInv

\* What a handler past the policy has is permitted.
LEMMA AllowedIsPermitted ==
    ASSUME IInv, NEW h \in Handlers, pc[h] \in {"hook", "guard", "vault"}
    PROVE  LET c == call[h] IN
           /\ conf.auth # Unset => c.client \in conf.auth
           /\ c.op = "sign" => Permits(conf.tezos, c.pkh, Client(c), User(c), c.msg)
           /\ c.op = "prove" => c.pkh \in BLSKeys /\ conf.tezos[c.pkh].prove
<1> DEFINE c == call[h]
<1>1. c \in Calls /\ proc = "up" /\ Admitted(c) /\ c.op # "get" /\ Allowed(h)
  BY DEF IInv, TypeOK, Progress
<1>2. c.pkh \in DOMAIN conf.tezos
  BY <1>1 DEF Admitted, PolicyOf, fetchPolicyOrDefault
<1>3. fetchPolicyOrDefault(conf.tezos, c.pkh) # Invalid
  BY <1>1, <1>2 DEF IInv, Prepares
<1>4. conf.auth # Unset => c.client \in conf.auth
  BY <1>1 DEF Admitted
<1>5. c.op = "sign" => Permits(conf.tezos, c.pkh, Client(c), User(c), c.msg)
  BY <1>1, <1>2, <1>3, LetThroughIsPermitted DEF Admitted, Allowed, PolicyOf
<1>6. ASSUME c.op = "prove" PROVE c.pkh \in BLSKeys /\ conf.tezos[c.pkh].prove
  <2>1. fetchPolicyOrDefault(conf.tezos, c.pkh).prove
    BY <1>1, <1>6 DEF Allowed, PolicyOf
  <2>2. CASE conf.tezos[c.pkh] = Default
    <3>1. fetchPolicyOrDefault(conf.tezos, c.pkh) = defaultPolicy
      BY <1>2, <2>2 DEF fetchPolicyOrDefault
    <3>2. defaultPolicy.prove = FALSE
      BY DEF defaultPolicy
    <3>. QED
      BY <2>1, <3>1, <3>2
  <2>3. CASE conf.tezos[c.pkh] # Default
    BY <1>2, <1>3, <2>1, <2>3, Prepared, Zenon
  <2>. QED
    BY <2>2, <2>3
<1>. QED
  BY <1>4, <1>5, <1>6

\* The watermark is the last to be asked: what it grants is permitted, its key
\* is in a vault, and the hook has agreed.
LEMMA IsSafeToSignKeeps == ASSUME IInv, NEW h \in Handlers, IsSafeToSign(h) PROVE IInv'
<1> DEFINE c == call[h]
           m == c.msg.mark
<1>1. /\ pc[h] = "guard"
      /\ UNCHANGED <<conf, proc, vaults, stored, cache, served, nonces, replies, output>>
      /\ granted \subseteq granted'
      /\ \/ /\ m # NoMark => m \in granted'
            /\ pc' = [pc EXCEPT ![h] = "vault"]
            /\ UNCHANGED <<call, todo, found, nonce>>
         \/ Return(h) /\ granted' = granted
  BY DEF IsSafeToSign, WM!Grant
<1>2. /\ c \in Calls /\ c.op = "sign" /\ m \in Requests \cup {NoMark}
      /\ granted' \subseteq granted \cup ({m} \ {NoMark})
  BY SignatoryAssumption DEF IsSafeToSign, WM!Grant, IInv, TypeOK, Progress
<1>3. TypeOK'
  BY <1>1, <1>2 DEF Return, IInv, TypeOK
<1>4. Prepares'
  BY <1>1 DEF IInv, Prepares
<1>5. ASSUME NEW g \in Handlers PROVE Progress(g)' /\ Consent(g)' /\ Looking(g)'
  <2>1. \A f \in Handlers : pc'[f] = "hook" => pc[f] = "hook" /\ nonce'[f] = nonce[f]
    BY <1>1 DEF Return, IInv, TypeOK
  <2>2. CASE g # h
    <3>1. /\ pc'[g] = pc[g] /\ call'[g] = call[g] /\ todo'[g] = todo[g]
          /\ found'[g] = found[g] /\ nonce'[g] = nonce[g]
      BY <1>1, <2>2 DEF Return, IInv, TypeOK
    <3>. QED
      BY <1>1, <2>1, <3>1, StandsStill, ConsentStands DEF IInv
  <2>3. CASE g = h /\ Return(h)
    BY <1>1, <2>3, Returns DEF IInv
  <2>4. CASE /\ g = h
             /\ m # NoMark => m \in granted'
             /\ pc' = [pc EXCEPT ![h] = "vault"]
             /\ UNCHANGED <<call, todo, found, nonce>>
    <3>1. pc'[h] = "vault" /\ call'[h] = c /\ nonce'[h] = nonce[h]
      BY <2>4 DEF IInv, TypeOK
    <3>2. Progress(h)'
      BY <1>1, <2>4, <3>1 DEF IInv, Progress, Admitted, Allowed, PolicyOf, User, Client
    <3>3. Consent(h)' /\ Looking(h)'
      BY <1>1, <2>4, <3>1 DEF IInv, Consent, Approved, Looking
    <3>. QED
      BY <2>4, <3>2, <3>3
  <2>. QED
    BY <1>1, <2>2, <2>3, <2>4
<1>6. OnlyPermitted' /\ HookConsented'
  BY <1>1 DEF IInv, OnlyPermitted, HookConsented, Approved, Client, User
<1>7. NothingBurned'
  <2> DEFINE Behind(a) ==
               \E d \in Calls :
                  /\ d.msg.mark = a
                  /\ Permits(conf.tezos, d.pkh, Client(d), User(d), d.msg)
                  /\ \E v \in vaults : d.pkh \in stored[v]
                  /\ \E n \in 0..nonces : Approved(d, n)
  <2>1. \A a \in granted : Behind(a)
    BY DEF IInv, NothingBurned
  <2>2. Behind(m)
    <3>1. Permits(conf.tezos, c.pkh, Client(c), User(c), c.msg)
      BY <1>1, <1>2, AllowedIsPermitted
    <3>2. found[h] \in vaults /\ c.pkh \in stored[found[h]]
      BY <1>1 DEF IInv, TypeOK, KeysWhereCached
    <3>3. nonce[h] \in 0..nonces /\ Approved(c, nonce[h])
      BY <1>1 DEF IInv, TypeOK, Consent
    <3>. QED
      BY <1>2, <3>1, <3>2, <3>3
  <2>3. \A a \in granted' : Behind(a)
    BY <1>2, <2>1, <2>2
  <2>. QED
    BY <1>1, <2>3 DEF NothingBurned, Approved, Client, User
<1>8. KeysWhereCached'
  BY <1>1 DEF Return, IInv, TypeOK, KeysWhereCached
<1>. QED
  BY <1>3, <1>4, <1>5, <1>6, <1>7, <1>8 DEF IInv

LEMMA VaultSignKeeps == ASSUME IInv, NEW h \in Handlers, VaultSign(h) PROVE IInv'
<1> DEFINE o == [call |-> call[h], vault |-> found[h], nonce |-> nonce[h]]
<1>1. /\ pc[h] = "vault" /\ Return(h)
      /\ output' = output \cup {o} \/ output' = output
      /\ UNCHANGED <<conf, proc, vaults, stored, cache, served, nonces, replies, granted>>
  BY DEF VaultSign
<1>2. o \in [call : Calls, vault : Vaults, nonce : 0..nonces]
  BY <1>1 DEF IInv, TypeOK
<1>3. TypeOK'
  BY <1>1, <1>2 DEF Return, IInv, TypeOK
<1>4. Prepares'
  BY <1>1 DEF IInv, Prepares
<1>5. ASSUME NEW g \in Handlers PROVE Progress(g)' /\ Consent(g)' /\ Looking(g)'
  <2>1. \A f \in Handlers : pc'[f] = "hook" => pc[f] = "hook" /\ nonce'[f] = nonce[f]
    BY <1>1 DEF Return, IInv, TypeOK
  <2>2. CASE g # h
    <3>1. /\ pc'[g] = pc[g] /\ call'[g] = call[g] /\ todo'[g] = todo[g]
          /\ found'[g] = found[g] /\ nonce'[g] = nonce[g]
      BY <1>1, <2>2 DEF Return, IInv, TypeOK
    <3>. QED
      BY <1>1, <2>1, <3>1, StandsStill, ConsentStands DEF IInv
  <2>. QED
    BY <1>1, <2>2, Returns DEF IInv
<1>6. OnlyPermitted'
  <2>1. LET c == call[h] IN
        /\ conf.auth # Unset => c.client \in conf.auth
        /\ c.op = "sign" => Permits(conf.tezos, c.pkh, Client(c), User(c), c.msg)
        /\ c.op = "prove" => c.pkh \in BLSKeys /\ conf.tezos[c.pkh].prove
    BY <1>1, AllowedIsPermitted
  <2>. QED
    BY <1>1, <2>1 DEF IInv, OnlyPermitted, Client, User
<1>7. HookConsented'
  <2>1. o.call = call[h] /\ o.nonce = nonce[h] /\ Approved(call[h], nonce[h])
    BY <1>1 DEF IInv, Consent
  <2>2. \A p \in output' : Approved(p.call, p.nonce)
    BY <1>1, <2>1 DEF IInv, HookConsented
  <2>. QED
    BY <1>1, <2>2 DEF HookConsented, Approved
<1>8. NothingBurned'
  BY <1>1 DEF IInv, NothingBurned, Approved, Client, User
<1>9. KeysWhereCached'
  BY <1>1 DEF Return, IInv, TypeOK, KeysWhereCached
<1>. QED
  BY <1>3, <1>4, <1>5, <1>6, <1>7, <1>8, <1>9 DEF IInv

LEMMA InvariantHolds == Spec => []IInv
<1>1. Init => IInv
  <2> SUFFICES ASSUME Init PROVE IInv
    OBVIOUS
  <2>1. TypeOK
    BY SignatoryAssumption DEF Init, TypeOK
  <2>2. Prepares /\ OnlyPermitted /\ HookConsented /\ NothingBurned /\ KeysWhereCached
    BY DEF Init, Prepares, OnlyPermitted, HookConsented, NothingBurned, KeysWhereCached
  <2>3. \A h \in Handlers : Progress(h) /\ Consent(h) /\ Looking(h)
    BY DEF Init, Progress, Consent, Looking
  <2>. QED
    BY <2>1, <2>2, <2>3 DEF IInv
<1>2. IInv /\ [Next]_vars => IInv'
  <2> SUFFICES ASSUME IInv, [Next]_vars PROVE IInv'
    OBVIOUS
  <2>1. CASE Unlock \/ Serve
    BY <2>1, UnlockKeeps, ServeKeeps
  <2>2. ASSUME NEW v \in Vaults, NEW k \in Keys, Import(v, k) PROVE IInv'
    BY <2>2, ImportKeeps
  <2>3. ASSUME NEW h \in Handlers, NEW c \in Calls, Accept(h, c) PROVE IInv'
    BY <2>3, AcceptKeeps
  <2>4. ASSUME NEW h \in Handlers, NEW ok \in BOOLEAN, HookDecide(h, ok) PROVE IInv'
    BY <2>4, HookDecideKeeps
  <2>5. ASSUME NEW h \in Handlers, HookFails(h) PROVE IInv'
    BY <2>5, HookFailsKeeps
  <2>6. ASSUME NEW h \in Handlers, Step(h) PROVE IInv'
    BY <2>6, GetPublicKeyKeeps, ListPublicKeysKeeps, FilterKeeps, CallPolicyHookKeeps,
       IsSafeToSignKeeps, VaultSignKeeps DEF Step, Work
  <2>7. CASE UNCHANGED vars
    <3>1. TypeOK' /\ Prepares' /\ KeysWhereCached'
      BY <2>7 DEF vars, IInv, TypeOK, Prepares, KeysWhereCached
    <3>2. OnlyPermitted' /\ HookConsented' /\ NothingBurned'
      BY <2>7, OutputKeeps DEF vars, IInv, TypeOK
    <3>3. ASSUME NEW g \in Handlers PROVE Progress(g)' /\ Consent(g)' /\ Looking(g)'
      BY <2>7, StandsStill, ConsentStands DEF vars, IInv
    <3>. QED
      BY <3>1, <3>2, <3>3 DEF IInv
  <2>. QED
    BY <2>1, <2>2, <2>3, <2>4, <2>5, <2>6, <2>7 DEF Next
<1>. QED
  BY <1>1, <1>2, PTL DEF Spec

-----------------------------------------------------------------------------
(* The results. *)

\* Sign gives out no signature and ProvePossession no proof that the
\* configuration does not permit to the client and user that asked, whatever
\* the configuration, the order of the handlers' steps and the vaults' errors.
THEOREM SignsOnlyPermitted == Spec => [](TypeOK /\ OnlyPermitted)
<1>1. IInv => TypeOK /\ OnlyPermitted
  BY DEF IInv
<1>. QED
  BY <1>1, InvariantHolds, PTL

\* Behind every signature is the hook's approval of that very call: replies to
\* other calls, delivered again by a transport that is not trusted, do not
\* count (callPolicyHook's nonce).
THEOREM HookAlwaysConsents == Spec => []HookConsented
<1>1. IInv => HookConsented
  BY DEF IInv
<1>. QED
  BY <1>1, InvariantHolds, PTL

\* A round is used up only for a request that policy, key look-up and hook have
\* let through: the watermark is asked last.
THEOREM RoundsNotBurned == Spec => []NothingBurned
<1>1. IInv => NothingBurned
  BY DEF IInv
<1>. QED
  BY <1>1, InvariantHolds, PTL

\* The cache and the handlers' look-ups name vaults that hold the key, through
\* concurrent listings, failing vaults and imports by other processes.
THEOREM CacheIsRight == Spec => []KeysWhereCached
<1>1. IInv => KeysWhereCached
  BY DEF IInv
<1>. QED
  BY <1>1, InvariantHolds, PTL

\* Only VaultSign signs, and only what the watermark has let through.
LEMMA StepRefines ==
    ASSUME IInv, IInv', [Next]_vars PROVE [WM!Next]_(WM!vars)
<1>1. CASE UNCHANGED <<granted, output>>
  BY <1>1 DEF WM!vars, Signed
<1>2. ASSUME NEW h \in Handlers, IsSafeToSign(h) PROVE [WM!Next]_(WM!vars)
  <2> DEFINE m == call[h].msg.mark
  <2>1. Signed' = Signed
    BY <1>2 DEF IsSafeToSign, Signed
  <2>2. CASE m # NoMark /\ WM!Grant(m)
    <3>1. m \in Requests
      BY <1>2, <2>2, SignatoryAssumption DEF IsSafeToSign, IInv, TypeOK
    <3>. QED
      BY <2>2, <3>1 DEF WM!Next
  <2>3. CASE granted' = granted
    BY <2>1, <2>3 DEF WM!vars
  <2>. QED
    BY <1>2, <2>2, <2>3 DEF IsSafeToSign
<1>3. ASSUME NEW h \in Handlers, VaultSign(h) PROVE [WM!Next]_(WM!vars)
  <2> DEFINE m == call[h].msg.mark
             o == [call |-> call[h], vault |-> found[h], nonce |-> nonce[h]]
  <2>1. /\ granted' = granted /\ pc[h] = "vault" /\ call[h] \in Calls
        /\ output' = output \cup {o} \/ output' = output
    BY <1>3 DEF VaultSign, IInv, TypeOK
  <2>2. CASE output' = output \/ m = NoMark
    <3>1. Signed' = Signed
      BY <2>1, <2>2 DEF Signed
    <3>. QED
      BY <2>1, <3>1 DEF WM!vars
  <2>3. CASE output' = output \cup {o} /\ m # NoMark
    <3>1. Signed' = Signed \cup {m}
      <4>1. o.call.msg.mark = m /\ o \in output'
        BY <2>3
      <4>2. ASSUME NEW x \in Signed' PROVE x \in Signed \cup {m}
        BY <2>3, <4>1 DEF Signed
      <4>3. m \in Signed'
        BY <2>3, <4>1 DEF Signed
      <4>4. Signed \subseteq Signed'
        BY <2>3 DEF Signed
      <4>. QED
        BY <4>2, <4>3, <4>4
    <3>2. m \in granted /\ m \in Requests
      BY <2>1, <2>3, SignatoryAssumption DEF IInv, Progress
    <3>. QED
      BY <2>1, <3>1, <3>2 DEF WM!Next, WM!Sign
  <2>. QED
    BY <2>1, <2>2, <2>3
<1>4. ASSUME NEW h \in Handlers, Step(h), ~IsSafeToSign(h), ~VaultSign(h)
      PROVE  UNCHANGED <<granted, output>>
  BY <1>4 DEF Step, Work, getPublicKey, listPublicKeys, Filter, callPolicyHook
<1>5. ASSUME NEW h \in Handlers, Step(h) PROVE [WM!Next]_(WM!vars)
  BY <1>1, <1>2, <1>3, <1>4, <1>5
<1>6. ASSUME Next, \A h \in Handlers : ~Step(h) PROVE UNCHANGED <<granted, output>>
  BY <1>6 DEF Next, Unlock, Serve, Import, Accept, HookDecide, HookFails
<1>. QED
  BY <1>1, <1>5, <1>6 DEF vars

\* The service as a whole implements SignOnce: Sign never goes to the vault with
\* a watermarked request the backend has not let through.
THEOREM SignatoryRefinesSignOnce == Spec => RefinesSignOnce
<1>1. Init => WM!Init
  BY DEF Init, WM!Init, Signed
<1>2. IInv /\ IInv' /\ [Next]_vars => [WM!Next]_(WM!vars)
  BY StepRefines
<1>. QED
  BY <1>1, <1>2, InvariantHolds, PTL DEF Spec, RefinesSignOnce, WM!Spec

\* What a baker has signatory for: of the messages the service has had signed no
\* two differ for one chain, key, kind, level and round, whatever the requests,
\* the policy, the cache and the vaults do.
THEOREM ServiceNeverDoubleSigns == Spec => []WM!NoDoubleSign
<1> DEFINE J == Promised(granted, Signed)
<1>1. WM!Init => J
  BY DEF WM!Init, Promised, Ordered
<1>2. J /\ [WM!Next]_(WM!vars) => J'
  <2> SUFFICES ASSUME J, [WM!Next]_(WM!vars) PROVE J'
    OBVIOUS
  <2>1. \/ \E r \in Requests :
              /\ \A g \in granted : SameSlot(g, r) => g = r \/ SupersededBy(g, r)
              /\ granted' = granted \cup {r} /\ Signed' = Signed
        \/ \E r \in granted : granted' = granted /\ Signed' = Signed \cup {r}
        \/ granted' = granted /\ Signed' = Signed
    BY DEF WM!Next, WM!vars, WM!Grant, WM!Sign, WM!SameSlot, WM!Slot,
       WM!SupersededBy, SameSlot, Slot, SupersededBy
  <2>. QED
    BY <2>1, PromiseKept
<1>3. J => WM!NoDoubleSign
  <2>1. ASSUME J, NEW r \in Signed, NEW s \in Signed
        PROVE  ~WM!Conflict(r, s)
    BY <2>1, OrderedIsNoConflict DEF Promised, WM!Conflict, WM!SameSlot, WM!Slot,
       Conflict, SameSlot, Slot
  <2>. QED
    BY <2>1 DEF WM!NoDoubleSign
<1>. QED
  BY SignatoryRefinesSignOnce, <1>1, <1>2, <1>3, PTL DEF RefinesSignOnce, WM!Spec
=============================================================================
