--------------------------- MODULE PolicyDecision ---------------------------
(***************************************************************************)
(* The life of a policy: the root command prepares the `tezos' section of  *)
(* the configuration or refuses to go on (cmd/commands/root.go), and       *)
(* Signatory.Sign decides on a request by what was prepared.  Policies do  *)
(* not change after the start, so one question is asked.  The hook, the    *)
(* watermark and the vaults are in Signatory.                              *)
(***************************************************************************)
EXTENDS Policy

CONSTANTS
    Sections,      \* `tezos' sections: functions from listed keys to entries
    Questions      \* requests: [key, client, user, msg]

Entries == (UNION {{s[k] : k \in DOMAIN s} : s \in Sections}) \ {Default}

\* A request with a message is decoded by the protocol library, which knows
\* current names only; the lists of a section hold known clients.
ASSUME QuestionsAssumption ==
    /\ \A e \in Entries : e.clients # Unset => Unset \notin e.clients
    /\ \A q \in Questions :
          /\ q.msg.kind \in AvailRequests
          /\ \A op \in q.msg.ops : op[1] \in AvailOps /\ op = <<op[1], op[2]>>
          /\ q.msg.kind # "generic" => q.msg.ops = {}

\* The policies that can be prepared.
Policies ==
    [allowedRequests : SUBSET AvailRequests,
     allowedOps      : SUBSET (AvailOps \X (Votes \cup {""})),
     allowedChains   : {e.chains : e \in Entries} \cup {Unset},
     prove           : BOOLEAN,
     clients         : {e.clients : e \in Entries} \cup {Unset},
     users           : {e.users : e \in Entries} \cup {Unset}]

\* An error and a nil policy are none of them.
ASSUME PoliciesAssumption == Invalid \notin Policies /\ NotListed \notin Policies

VARIABLES
    section,     \* the section the program was started with
    phase,       \* "read", "refused", "serving" or "asked"
    decision     \* the question asked and its answer, or Unset

decisionVars == <<section, phase, decision>>

DecisionInit == section \in Sections /\ phase = "read" /\ decision = Unset

\* The root command: one entry that cannot be prepared stops the program.
Prepare ==
    /\ phase = "read"
    /\ phase' = IF \E k \in DOMAIN section : fetchPolicyOrDefault(section, k) = Invalid
                THEN "refused" ELSE "serving"
    /\ UNCHANGED <<section, decision>>

\* Signatory.Sign, as far as the policy goes.
Decide(q) ==
    LET policy == fetchPolicyOrDefault(section, q.key)
    IN  /\ phase = "serving"
        /\ phase' = "asked"
        /\ decision' = [q |-> q, ok |-> /\ policy # NotListed
                                        /\ jwtVerifyUser(q.user, policy)
                                        /\ matchFilter(policy, q.client, q.msg)]
        /\ UNCHANGED section

DecisionNext == Prepare \/ \E q \in Questions : Decide(q)

DecisionSpec == DecisionInit /\ [][DecisionNext]_decisionVars

-----------------------------------------------------------------------------
\* Prepared policies decide as the configuration says: renamed kinds, the
\* deprecated lists, ballots with and without a vote, nil and empty lists, keys
\* listed without options and keys not listed all included, PreparePolicy,
\* jwtVerifyUser and matchFilter together let through exactly what Permits.
AsConfigured ==
    phase = "asked" =>
        LET q == decision.q
        IN  decision.ok <=> Permits(section, q.key, q.client, q.user, q.msg)

\* The program refuses to start with a configuration that uses a name it does
\* not know, and with no other: a mistyped kind is never silently ignored.
UnknownNamesRefused ==
    /\ phase = "refused" =>
          \E k \in DOMAIN section : section[k] # Default /\ ~WellNamed(section[k])
    /\ phase \in {"serving", "asked"} =>
          \A k \in DOMAIN section : section[k] = Default \/ WellNamed(section[k])
=============================================================================
