----------------------------- MODULE Signatory ------------------------------
(***************************************************************************)
(* The signing service (pkg/server, pkg/signatory): handlers take a        *)
(* request through authentication, policy, the look-up of its key in the   *)
(* vaults, the remote policy hook, the watermark and the vault, each step  *)
(* interleaved with those of other handlers.  The watermark backend is     *)
(* SignOnce, which the four backends implement; what it refuses for        *)
(* reasons of its own is refused here at any time.                         *)
(***************************************************************************)
EXTENDS Watermarks, Policy, FiniteSets

CONSTANTS
    Handlers,      \* goroutines serving HTTP requests
    Calls,         \* requests clients may send
    NoCall,
    Vaults,        \* names in the configuration
    NoVault,
    Provers,       \* vaults whose keys are PossessionProvers
    Importers,     \* vaults that are Importers or Generators
    Configs,       \* configurations
    Stores,        \* what the vaults may hold at the start
    MaxCalls       \* bound on the requests served

\* A call is [op, pkh, client, user, msg]; msg is [kind, chain, ops, mark],
\* its mark being the watermarked request it is, or NoMark.  Only a sign call
\* has a message of consequence; a message that cannot be decoded is of kind
\* "garbled".
ASSUME SignatoryAssumption ==
    /\ NoCall \notin Calls
    /\ NoVault \notin Vaults
    /\ MaxCalls \in Nat
    /\ Stores \subseteq [Vaults -> SUBSET Keys]
    /\ \A f \in Configs : f.hook \in {"none", "plain", "signed"}
    /\ \A c \in Calls :
          /\ c.op \in {"sign", "prove", "get"}
          /\ c.pkh \in Keys
          /\ c.msg.mark \in Requests \cup {NoMark}
          /\ c.msg.mark # NoMark =>
                /\ c.op = "sign"
                /\ c.msg.mark.pkh = c.pkh
                /\ c.msg.mark.kind = c.msg.kind
                /\ c.msg.mark.chain = c.msg.chain

VARIABLES
    conf,        \* [tezos, auth, jwt, hook]
    proc,        \* "init", "unlocked", "up" or "exited"
    vaults,      \* Signatory.vaults: those whose New succeeded
    stored,      \* the keys in every vault
    cache,       \* keyCache: the vault a key is reached through
    pc,          \* per handler: idle, lookup, listing, filter, hook, guard, vault
    call,        \* per handler: the request it serves
    todo,        \* per handler: vaults its listing has yet to visit
    found,       \* per handler: the vault its listing found the key in
    nonce,       \* per handler: the nonce of its hook request
    served,      \* number of requests so far
    nonces,      \* number of nonces drawn so far: rand.Read never repeats one
    replies,     \* replies the hook has signed: [nonce, call, ok]
    granted,     \* watermarks let through
    output       \* signatures and proofs: [call, vault, nonce]

vars == <<conf, proc, vaults, stored, cache, pc, call, todo, found, nonce,
          served, nonces, replies, granted, output>>

handlerVars == <<pc, call, todo, found, nonce>>

Signed == {o.call.msg.mark : o \in output} \ {NoMark}
WM == INSTANCE SignOnce WITH signed <- Signed

Init ==
    /\ conf \in Configs
    /\ proc = "init"
    /\ vaults \in SUBSET Vaults          \* New skips a vault that fails
    /\ stored \in Stores
    /\ cache = [k \in Keys |-> NoVault]
    /\ pc = [h \in Handlers |-> "idle"]
    /\ call = [h \in Handlers |-> NoCall]
    /\ todo = [h \in Handlers |-> {}]
    /\ found = [h \in Handlers |-> NoVault]
    /\ nonce = [h \in Handlers |-> 0]
    /\ served = 0
    /\ nonces = 0
    /\ replies = {}
    /\ granted = {}
    /\ output = {}

-----------------------------------------------------------------------------
(* Start-up. *)

\* The root command: PreparePolicy for every key, and Unlock.
Unlock ==
    /\ proc = "init"
    /\ \/ /\ \A k \in DOMAIN conf.tezos : fetchPolicyOrDefault(conf.tezos, k) # Invalid
          /\ proc' = "unlocked"
          /\ cache' = [k \in Keys |-> NoVault]
       \/ /\ proc' = "exited"             \* some name or some vault is bad
          /\ UNCHANGED cache
    /\ UNCHANGED <<conf, vaults, stored, handlerVars, served, nonces, replies, granted, output>>

\* Mutant of Visit: unreadable keys are cached too.
VisitAll(v, readable) == [k \in Keys |-> v]

\* listPublicKeys of one vault: the keys it can read are cached one by one,
\* those it cannot are skipped (ErrKey).
Visit(v, readable) == [k \in Keys |-> IF k \in readable THEN v ELSE cache[k]]

\* serve lists all keys first, unless told not to, and gives up on an error.
Serve ==
    /\ proc = "unlocked"
    /\ \/ /\ proc' = "up"
          /\ ~(conf.jwt /\ conf.auth # Unset)
          /\ \/ UNCHANGED cache                                  \* --no-list
             \/ cache' \in {m \in [Keys -> vaults \cup {NoVault}] :
                              \A k \in Keys : m[k] # NoVault => k \in stored[m[k]]}
       \/ proc' = "exited" /\ UNCHANGED cache
    /\ UNCHANGED <<conf, vaults, stored, handlerVars, served, nonces, replies, granted, output>>

\* signatory-cli import and generate: another process puts a key into a
\* vault; its cache is not this one.
Import(v, k) ==
    /\ v \in Importers
    /\ k \notin stored[v]
    /\ stored' = [stored EXCEPT ![v] = @ \cup {k}]
    /\ UNCHANGED <<conf, proc, vaults, cache, handlerVars, served, nonces, replies,
                   granted, output>>

-----------------------------------------------------------------------------
(* The handlers. *)

\* signHandler and blsProveHandler know the client only where the server is
\* configured to authenticate; a user is known only through a token.
Client(c) == IF conf.auth = Unset THEN Unset ELSE c.client
User(c) == IF conf.jwt THEN c.user ELSE Unset
PolicyOf(c) == fetchPolicyOrDefault(conf.tezos, c.pkh)

\* authenticateSignRequest and the token, then Sign or ProvePossession up to
\* the look-up of the key.  getKeyHandler asks for a token and nothing else.
Admitted(c) ==
    /\ conf.auth # Unset /\ c.op # "get" => c.client \in conf.auth
    /\ conf.jwt => c.user # Unset
    /\ c.op # "get" =>
          /\ PolicyOf(c) # NotListed
          /\ jwtVerifyUser(User(c), PolicyOf(c))
    /\ c.op = "sign" => c.msg.kind # "garbled"

Accept(h, c) ==
    /\ proc = "up" /\ pc[h] = "idle" /\ served < MaxCalls
    /\ served' = served + 1
    /\ \/ /\ Admitted(c)
          /\ pc' = [pc EXCEPT ![h] = "lookup"]
          /\ call' = [call EXCEPT ![h] = c]
       \/ /\ ~Admitted(c)
          /\ UNCHANGED <<pc, call>>
    /\ UNCHANGED <<conf, proc, vaults, stored, cache, todo, found, nonce, nonces,
                   replies, granted, output>>

Return(h) ==
    /\ pc' = [pc EXCEPT ![h] = "idle"]
    /\ call' = [call EXCEPT ![h] = NoCall]
    /\ todo' = [todo EXCEPT ![h] = {}]
    /\ found' = [found EXCEPT ![h] = NoVault]
    /\ nonce' = [nonce EXCEPT ![h] = 0]

\* What follows the look-up: getKeyHandler answers.
Found(h, v) ==
    IF call[h].op = "get" THEN Return(h)
    ELSE /\ pc' = [pc EXCEPT ![h] = "filter"]
         /\ found' = [found EXCEPT ![h] = v]
         /\ todo' = [todo EXCEPT ![h] = {}]
         /\ UNCHANGED <<call, nonce>>

\* getPublicKey: the cache, else all vaults.
getPublicKey(h) ==
    /\ pc[h] = "lookup"
    /\ LET v == cache[call[h].pkh] IN
       \/ v # NoVault /\ Found(h, v)
       \/ /\ v = NoVault
          /\ vaults # {}
          /\ pc' = [pc EXCEPT ![h] = "listing"]
          /\ todo' = [todo EXCEPT ![h] = vaults]
          /\ UNCHANGED <<call, found, nonce>>
       \/ v = NoVault /\ vaults = {} /\ Return(h)
    /\ UNCHANGED <<conf, proc, vaults, stored, cache, served, nonces, replies, granted, output>>

\* listPublicKeys, one vault: what has been cached by then stays cached when
\* the vault fails, and the call fails even if its key is among it.
listPublicKeys(h, v, readable) ==
    LET k == call[h].pkh
        here == IF k \in readable THEN v ELSE found[h] IN
    /\ pc[h] = "listing" /\ v \in todo[h]
    /\ readable \subseteq stored[v]
    /\ cache' = Visit(v, readable)
    /\ \/ /\ todo[h] # {v}
          /\ todo' = [todo EXCEPT ![h] = @ \ {v}]
          /\ found' = [found EXCEPT ![h] = here]
          /\ UNCHANGED <<pc, call, nonce>>
       \/ /\ todo[h] = {v}
          /\ IF here # NoVault THEN Found(h, here) ELSE Return(h)
       \/ Return(h)                                       \* the vault fails
    /\ UNCHANGED <<conf, proc, vaults, stored, served, nonces, replies, granted, output>>

\* matchFilter of Sign, or the two conditions of ProvePossession.
Allowed(h) ==
    LET c == call[h] IN
    IF c.op = "sign" THEN matchFilter(PolicyOf(c), Client(c), c.msg)
    ELSE found[h] \in Provers /\ PolicyOf(c).prove

\* Mutant of Guarded: the watermark is not consulted.
GuardedNever(h) == "vault"

Guarded(h) == IF call[h].op = "sign" THEN "guard" ELSE "vault"

\* Mutant of Filter: a mutex is held from here to the hook's answer.
FilterLocked(h) ==
    /\ pc[h] = "filter"
    /\ \/ /\ Allowed(h) /\ conf.hook # "none"
          /\ \A g \in Handlers : pc[g] # "hook"
          /\ pc' = [pc EXCEPT ![h] = "hook"]
          /\ nonce' = [nonce EXCEPT ![h] = nonces + 1]
          /\ nonces' = nonces + 1
          /\ UNCHANGED <<call, todo, found>>
       \/ /\ Allowed(h) /\ conf.hook = "none"
          /\ pc' = [pc EXCEPT ![h] = Guarded(h)]
          /\ UNCHANGED <<call, todo, found, nonce, nonces>>
       \/ ~Allowed(h) /\ Return(h) /\ UNCHANGED nonces
    /\ UNCHANGED <<conf, proc, vaults, stored, cache, served, replies, granted, output>>

\* ... and the call of the policy hook with a fresh nonce.
Filter(h) ==
    /\ pc[h] = "filter"
    /\ \/ /\ Allowed(h) /\ conf.hook # "none"
          /\ pc' = [pc EXCEPT ![h] = "hook"]
          /\ nonce' = [nonce EXCEPT ![h] = nonces + 1]
          /\ nonces' = nonces + 1
          /\ UNCHANGED <<call, todo, found>>
       \/ /\ Allowed(h) /\ conf.hook = "none"
          /\ pc' = [pc EXCEPT ![h] = Guarded(h)]
          /\ UNCHANGED <<call, todo, found, nonce, nonces>>
       \/ ~Allowed(h) /\ Return(h) /\ UNCHANGED nonces
    /\ UNCHANGED <<conf, proc, vaults, stored, cache, served, replies, granted, output>>

\* The policy service answers; with `authorized_keys' it signs its reply.
HookDecide(h, ok) ==
    /\ pc[h] = "hook"
    /\ \A r \in replies : r.nonce # nonce[h]
    /\ replies' = replies \cup {[nonce |-> nonce[h], call |-> call[h], ok |-> ok]}
    /\ UNCHANGED <<conf, proc, vaults, stored, cache, handlerVars, served, nonces,
                   granted, output>>

\* What the transport may hand to a handler: the reply to its own call or,
\* where replies are signed since the transport is not trusted with them,
\* any reply made before.
Delivered(h) == {r \in replies : conf.hook = "plain" => r.nonce = nonce[h]}

\* Mutants of GoodReply: the nonce, or the status, is not looked at.
GoodReplyAnyNonce(h, r) == r.ok
GoodReplyAnyStatus(h, r) == r.nonce = nonce[h]

\* A reply is good if its nonce is that of the request (where it has one) and
\* its status, which must be that of the HTTP header, is 2xx.
GoodReply(h, r) == r.ok /\ (conf.hook = "signed" => r.nonce = nonce[h])

callPolicyHook(h, r) ==
    /\ pc[h] = "hook"
    /\ r \in Delivered(h)
    /\ \/ /\ GoodReply(h, r)
          /\ pc' = [pc EXCEPT ![h] = Guarded(h)]
          /\ UNCHANGED <<call, todo, found, nonce>>
       \/ ~GoodReply(h, r) /\ Return(h)
    /\ UNCHANGED <<conf, proc, vaults, stored, cache, served, nonces, replies, granted,
                   output>>

\* No reply: the connection fails, or the client leaves and its context ends.
HookFails(h) ==
    /\ pc[h] = "hook"
    /\ Return(h)
    /\ UNCHANGED <<conf, proc, vaults, stored, cache, served, nonces, replies, granted,
                   output>>

\* signFunc: Watermark.IsSafeToSign, which may also refuse what it could let
\* through.  Messages without a watermark pass.
IsSafeToSign(h) ==
    LET m == call[h].msg.mark IN
    /\ pc[h] = "guard"
    /\ UNCHANGED <<conf, proc, vaults, stored, cache, served, nonces, replies, output>>
    /\ \/ /\ \/ m # NoMark /\ WM!Grant(m)
             \/ m = NoMark /\ UNCHANGED granted
          /\ pc' = [pc EXCEPT ![h] = "vault"]
          /\ UNCHANGED <<call, todo, found, nonce>>
       \/ m # NoMark /\ Return(h) /\ UNCHANGED granted

\* key.Sign or prover.ProvePossession, and the answer to the client.
VaultSign(h) ==
    /\ pc[h] = "vault"
    /\ \/ output' = output \cup
             {[call |-> call[h], vault |-> found[h], nonce |-> nonce[h]]}
       \/ UNCHANGED output
    /\ Return(h)
    /\ UNCHANGED <<conf, proc, vaults, stored, cache, served, nonces, replies, granted>>

\* What a handler does by itself or with a vault, and with an answer of the hook.
Work(h) ==
    \/ getPublicKey(h)
    \/ \E v \in vaults : \E readable \in SUBSET stored[v] : listPublicKeys(h, v, readable)
    \/ Filter(h)
    \/ IsSafeToSign(h)
    \/ VaultSign(h)

Step(h) == Work(h) \/ \E r \in replies : callPolicyHook(h, r)

Next ==
    \/ Unlock
    \/ Serve
    \/ \E v \in Vaults, k \in Keys : Import(v, k)
    \/ \E h \in Handlers :
          \/ \E c \in Calls : Accept(h, c)
          \/ \E ok \in BOOLEAN : HookDecide(h, ok)
          \/ HookFails(h)
          \/ Step(h)

\* Handlers run, vaults return, and an answer the policy service gave arrives.
\* That it gives one is not assumed, and http.DefaultClient sets no limit to the
\* wait for it.
Fairness ==
    \A h \in Handlers :
        /\ WF_vars(Work(h))
        /\ WF_vars(\E r \in replies : r.nonce = nonce[h] /\ callPolicyHook(h, r))

Spec == Init /\ [][Next]_vars /\ Fairness

-----------------------------------------------------------------------------
\* Handlers are where the code can be; past the look-up a handler holds the
\* key's vault, and a signature names the vault that made it.
TypeOK ==
    /\ conf \in Configs
    /\ proc \in {"init", "unlocked", "up", "exited"}
    /\ vaults \subseteq Vaults
    /\ stored \in [Vaults -> SUBSET Keys]
    /\ cache \in [Keys -> Vaults \cup {NoVault}]
    /\ pc \in [Handlers -> {"idle", "lookup", "listing", "filter", "hook", "guard", "vault"}]
    /\ call \in [Handlers -> Calls \cup {NoCall}]
    /\ todo \in [Handlers -> SUBSET Vaults]
    /\ found \in [Handlers -> Vaults \cup {NoVault}]
    /\ nonce \in [Handlers -> 0..nonces]
    /\ \A h \in Handlers :
          /\ pc[h] # "idle" => call[h] \in Calls
          /\ pc[h] \in {"filter", "hook", "guard", "vault"} => found[h] # NoVault
    /\ served \in 0..MaxCalls
    /\ nonces \in Nat
    /\ replies \subseteq [nonce : 1..nonces, call : Calls, ok : BOOLEAN]
    /\ granted \subseteq Requests
    /\ output \subseteq [call : Calls, vault : Vaults, nonce : 0..nonces]

\* The service has approved the call, in a reply to this very request.
Approved(c, n) ==
    conf.hook # "none" => [nonce |-> n, call |-> c, ok |-> TRUE] \in replies

\* Sign gives out no signature the configuration does not permit to the client
\* and the user that asked, and ProvePossession no proof but for BLS keys that
\* are configured for it.
OnlyPermitted ==
    \A o \in output :
        LET c == o.call IN
        /\ conf.auth # Unset => c.client \in conf.auth
        /\ c.op = "sign" => Permits(conf.tezos, c.pkh, Client(c), User(c), c.msg)
        /\ c.op = "prove" => c.pkh \in BLSKeys /\ conf.tezos[c.pkh].prove

\* "If the hook returned an error the sign operation is denied": behind every
\* signature is an approval of that very call, never one given to another call
\* or an earlier attempt.
HookConsented == \A o \in output : Approved(o.call, o.nonce)

\* A request that Sign refuses for any other reason (policy, no such key, the
\* hook) has not used up its round: the watermark is the last check before the
\* vault.
NothingBurned ==
    \A m \in granted :
        \E c \in Calls :
            /\ c.msg.mark = m
            /\ Permits(conf.tezos, c.pkh, Client(c), User(c), c.msg)
            /\ \E v \in vaults : c.pkh \in stored[v]
            /\ \E n \in 0..nonces : Approved(c, n)

\* The vault a key is looked up in holds the key, also when a listing failed
\* half way or another handler's listing replaced the cached reference.
KeysWhereCached ==
    /\ \A k \in Keys : cache[k] # NoVault => cache[k] \in vaults /\ k \in stored[cache[k]]
    /\ \A h \in Handlers :
          found[h] # NoVault => found[h] \in vaults /\ call[h].pkh \in stored[found[h]]

\* Sign never goes to the vault with a watermarked request the backend has not
\* let through: the service as a whole keeps the promise of SignOnce.
RefinesSignOnce == WM!Spec

\* Only the policy service can keep a request from being answered: a handler
\* returns time and again, or it ends up waiting for a hook (callPolicyHook, with
\* no timeout) that has not answered it, and such a handler holds up no other.
OnlyHookWaits ==
    \A h \in Handlers :
        \/ []<>(pc[h] = "idle")
        \/ <>[](pc[h] = "hook" /\ \A r \in replies : r.nonce # nonce[h])
=============================================================================
