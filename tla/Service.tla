------------------------------- MODULE Service -------------------------------
(***************************************************************************)
(* The process of `signatory serve': its start and its stop                *)
(* (cmd/commands/serve.go), the utility server with the health check       *)
(* (pkg/server/utility.go), and the JWT credentials of its users, which a  *)
(* timer may exchange while requests are being authenticated               *)
(* (pkg/middlewares/jwt.go).                                               *)
(*                                                                         *)
(* A user has credentials, a password and a secret, of the generation      *)
(* "old" and perhaps of the generation "new".  Clients hold the tokens     *)
(* they were given; the configuration outlives the process.                *)
(***************************************************************************)
EXTENDS Naturals, FiniteSets

CONSTANTS
    Users,
    Clients,      \* requests to the API there can be at a time
    Checks,       \* health checks there can be at a time
    Nil,
    MaxLogins, MaxCalls, MaxStarts   \* bounds

Gens == {"old", "new"}

ASSUME ServiceAssumption ==
    /\ {MaxLogins, MaxCalls, MaxStarts} \subseteq Nat
    /\ Nil \notin Gens

VARIABLES
    config,     \* per user: the rotation configured: "none", "now" or "later"
    valid,      \* does the configuration pass validation?
    oneSecret,  \* do the users have the same secrets?
    due,        \* users whose old_cred_exp has passed
    phase,      \* of the process: "down", "serving", "utility" (shutting the
                \*   utility server down), "api" (... the API), "exited"
    users,      \* JWT.Users, per user: generations of the current and the new data
    timers,     \* users whose rotation is scheduled
    req,        \* per client: the request in flight, or Nil
    check,      \* the health checks in flight
    late,       \* has the shutdown's deadline passed?
    clean,      \* history: the process stopped on a signal, no error involved
    cut,        \* history: requests in flight when the process went away
    tokens,     \* the tokens clients hold: whose they are, the generation of the secret
                \*   they are signed with and that of the password they were given for
    rotated,    \* history: users whose credentials were exchanged, ever
    verdict,    \* history: what was last decided about a credential
    count

vars == <<config, valid, oneSecret, due, phase, users, timers, req, check, late, clean,
          cut, tokens, rotated, verdict, count>>

\* users[u] as the configuration has it.
Configured(u) == [cur |-> "old", new |-> IF config[u] = "none" THEN Nil ELSE "new"]

Bump(e, max) == count[e] < max /\ count' = [count EXCEPT ![e] = @ + 1]

Init ==
    /\ config \in [Users -> {"none", "now", "later"}]
    /\ valid \in BOOLEAN
    /\ oneSecret \in BOOLEAN
    /\ due = {}
    /\ phase = "down"
    /\ users = [u \in Users |-> Configured(u)]
    /\ timers = {}
    /\ req = [c \in Clients |-> Nil]
    /\ check = {}
    /\ late = FALSE
    /\ clean = TRUE
    /\ cut = {}
    /\ tokens = {}
    /\ rotated = {}
    /\ verdict = Nil
    /\ count = [e \in {"logins", "calls", "starts"} |-> 0]

-----------------------------------------------------------------------------
(* Credentials. *)

\* SetNewCred: the new credentials, if there are any, take the old ones' place.
SetNewCred(d) == IF d.new = Nil THEN d ELSE [cur |-> d.new, new |-> Nil]

\* CheckUpdateNewCred: exchange at once what is due, schedule the rest.
Immediate(u) == config[u] = "now" \/ (config[u] = "later" /\ u \in due)

\* Mutant of CheckUpdateNewCred: an expiry in the past is scheduled too.
CheckUpdateNewCredLate(d) ==
    /\ users' = [u \in Users |-> IF config[u] = "now" THEN SetNewCred(d[u]) ELSE d[u]]
    /\ timers' = {u \in Users : config[u] = "later"}
    /\ rotated' = rotated \cup {u \in Users : config[u] = "now"}

CheckUpdateNewCred(d) ==
    /\ users' = [u \in Users |-> IF Immediate(u) THEN SetNewCred(d[u]) ELSE d[u]]
    /\ timers' = {u \in Users : config[u] = "later" /\ ~Immediate(u)}
    /\ rotated' = rotated \cup {u \in Users : Immediate(u)}

\* The goroutine a rotation was left to wakes up.
Rotate(u) ==
    /\ phase \notin {"down", "exited"} /\ u \in timers /\ u \in due
    /\ users' = [users EXCEPT ![u] = SetNewCred(@)]
    /\ timers' = timers \ {u}
    /\ rotated' = rotated \cup {u}
    /\ UNCHANGED <<config, valid, oneSecret, due, phase, req, check, late, clean, cut,
                   tokens, verdict, count>>

\* The time old_cred_exp names comes.
TimePasses(u) ==
    /\ config[u] = "later" /\ u \notin due
    /\ due' = due \cup {u}
    /\ UNCHANGED <<config, valid, oneSecret, phase, users, timers, req, check, late,
                   clean, cut, tokens, rotated, verdict, count>>

-----------------------------------------------------------------------------
(* Requests to the API. *)

Accepting == phase \in {"serving", "utility"}

\* What was decided about a token in the name of user u: whether it was given or
\* accepted, whether its credentials had been exchanged by then, and whether
\* the user has them.
Decide(u, t, ok) ==
    verdict' = [user |-> u, token |-> t, ok |-> ok,
                gone |-> u \in rotated /\ t.gen = "old",
                known |-> t.gen \in {users[u].cur, users[u].new}]

\* LoginHandler compares the password with the user's data as they are ...
LoginHandler(c, u, g) ==
    /\ Accepting /\ req[c] = Nil
    /\ Bump("logins", MaxLogins)
    /\ \/ /\ g \in {users[u].cur, users[u].new}
          /\ req' = [req EXCEPT ![c] = [type |-> "login", user |-> u, gen |-> g]]
       \/ g \notin {users[u].cur, users[u].new} /\ UNCHANGED req
    /\ UNCHANGED <<config, valid, oneSecret, due, phase, users, timers, check, late,
                   clean, cut, tokens, rotated, verdict>>

\* Mutant of GenerateToken: without new data the current ones are kept.
GenerateTokenCurrent(u, g) ==
    IF g # users[u].cur /\ users[u].new # Nil THEN users[u].new ELSE users[u].cur

\* ... and GenerateToken reads them again: whose secret signs the token, or Nil.
GenerateToken(u, g) == IF g = users[u].cur THEN users[u].cur ELSE users[u].new

LoggedIn(c) ==
    /\ req[c] # Nil /\ req[c].type = "login" /\ phase \notin {"down", "exited"}
    /\ LET u == req[c].user
           g == req[c].gen
           signed == GenerateToken(u, g)
           token == [user |-> u, gen |-> IF signed = Nil THEN g ELSE signed, pass |-> g]
       IN
       /\ tokens' = tokens \cup IF signed = Nil THEN {} ELSE {token}
       /\ Decide(u, token, signed # Nil)
    /\ req' = [req EXCEPT ![c] = Nil]
    /\ UNCHANGED <<config, valid, oneSecret, due, phase, users, timers, check, late,
                   clean, cut, rotated, count>>

\* A token's signature checks with a secret of generation g of user u.
Parses(t, u, g) == t.gen = g /\ (t.user = u \/ oneSecret)

\* Mutant of Authenticate: no second try with the new secret.
AuthenticateCurrent(u, t) == Parses(t, u, users[u].cur) /\ t.user = u

\* Authenticate: by the user's secret or the new one, and for that user only.
Authenticate(u, t) ==
    /\ Parses(t, u, users[u].cur) \/ Parses(t, u, users[u].new)
    /\ t.user = u

\* AuthHandler lets the request through to its handler, or refuses it.
AuthHandler(c, u, t) ==
    /\ Accepting /\ req[c] = Nil /\ t \in tokens
    /\ Bump("calls", MaxCalls)
    /\ Decide(u, t, Authenticate(u, t))
    /\ \/ Authenticate(u, t) /\ req' = [req EXCEPT ![c] = [type |-> "call", user |-> u]]
       \/ ~Authenticate(u, t) /\ UNCHANGED req
    /\ UNCHANGED <<config, valid, oneSecret, due, phase, users, timers, check, late,
                   clean, cut, tokens, rotated>>

\* The handler answers.
Answer(c) ==
    /\ req[c] # Nil /\ req[c].type = "call" /\ phase \notin {"down", "exited"}
    /\ req' = [req EXCEPT ![c] = Nil]
    /\ UNCHANGED <<config, valid, oneSecret, due, phase, users, timers, check, late,
                   clean, cut, tokens, rotated, verdict, count>>

-----------------------------------------------------------------------------
(* The health check. *)

shuttingDown == phase \in {"utility", "api"}

\* readyHandler asks the vaults, for ten seconds at most, unless the server is
\* shutting down.
HealthBegins(h) ==
    /\ phase = "serving" /\ h \notin check
    /\ check' = check \cup {h}
    /\ UNCHANGED <<config, valid, oneSecret, due, phase, users, timers, req, late, clean,
                   cut, tokens, rotated, verdict, count>>

HealthEnds(h) ==
    /\ h \in check /\ phase \notin {"down", "exited"}
    /\ check' = check \ {h}
    /\ UNCHANGED <<config, valid, oneSecret, due, phase, users, timers, req, late, clean, cut,
                   tokens, rotated, verdict, count>>

-----------------------------------------------------------------------------
(* The process. *)

Serve ==
    /\ phase = "down"
    /\ Bump("starts", MaxStarts)
    /\ \/ /\ valid
          /\ CheckUpdateNewCred([u \in Users |-> Configured(u)])
          /\ phase' = "serving"
       \/ ~valid /\ phase' = "exited" /\ UNCHANGED <<users, timers, rotated>>
    /\ late' = FALSE
    /\ clean' = TRUE
    /\ cut' = {}
    /\ verdict' = Nil
    /\ UNCHANGED <<config, valid, oneSecret, due, req, check, tokens>>

Exit ==
    /\ phase' = "exited"
    /\ cut' = {c \in Clients : req[c] # Nil}
    /\ req' = [c \in Clients |-> Nil]
    /\ check' = {}
    /\ timers' = {}

\* SIGTERM or SIGINT: the utility server is shut down first.
Signalled ==
    /\ phase = "serving"
    /\ phase' = "utility"
    /\ UNCHANGED <<config, valid, oneSecret, due, users, timers, req, check, late, clean,
                   cut, tokens, rotated, verdict, count>>

\* Mutant of Deadline: the utility server's shutdown has none.
DeadlineAPI ==
    /\ phase = "api" /\ ~late
    /\ late' = TRUE
    /\ UNCHANGED <<config, valid, oneSecret, due, phase, users, timers, req, check, clean,
                   cut, tokens, rotated, verdict, count>>

\* The deadline both shutdowns share.
Deadline ==
    /\ shuttingDown /\ ~late
    /\ late' = TRUE
    /\ UNCHANGED <<config, valid, oneSecret, due, phase, users, timers, req, check, clean,
                   cut, tokens, rotated, verdict, count>>

\* Mutant of UtilityStopped: the API is not waited for.
UtilityStoppedLast ==
    /\ phase = "utility" /\ (check = {} \/ late)
    /\ Exit
    /\ UNCHANGED <<config, valid, oneSecret, due, users, late, clean, tokens, rotated,
                   verdict, count>>

\* utilitySrv.Shutdown returns when no check is in flight, or late.  If its
\* ListenAndServe had failed by itself, serve then returns that error.
UtilityStopped ==
    /\ phase = "utility" /\ (check = {} \/ late)
    /\ \/ phase' = "api" /\ UNCHANGED <<req, check, timers, cut, clean>>
       \/ Exit /\ clean' = FALSE
    /\ UNCHANGED <<config, valid, oneSecret, due, users, late, tokens, rotated,
                   verdict, count>>

\* srv.Shutdown returns when no request is in flight, or late.
APIStopped ==
    /\ phase = "api"
    /\ (\A c \in Clients : req[c] = Nil) \/ late
    /\ Exit
    /\ UNCHANGED <<config, valid, oneSecret, due, users, late, clean, tokens, rotated,
                   verdict, count>>

\* One of the servers fails: serve returns the error.
ServerFails ==
    /\ phase = "serving"
    /\ Exit
    /\ clean' = FALSE
    /\ UNCHANGED <<config, valid, oneSecret, due, users, late, tokens, rotated,
                   verdict, count>>

\* The supervisor starts the process again.
Restart ==
    /\ phase = "exited" /\ count["starts"] < MaxStarts
    /\ phase' = "down"
    /\ UNCHANGED <<config, valid, oneSecret, due, users, timers, req, check, late, clean,
                   cut, tokens, rotated, verdict, count>>

Next ==
    \/ \E u \in Users :
          \/ Rotate(u)
          \/ TimePasses(u)
          \/ \E c \in Clients :
                \/ \E g \in Gens : LoginHandler(c, u, g)
                \/ \E t \in tokens : AuthHandler(c, u, t)
    \/ \E c \in Clients : LoggedIn(c) \/ Answer(c)
    \/ \E h \in Checks : HealthBegins(h) \/ HealthEnds(h)
    \/ Serve \/ Signalled \/ Deadline \/ UtilityStopped \/ APIStopped \/ ServerFails \/ Restart

\* Goroutines run, and the deadline's timer fires.  Handlers may take as long
\* as they like.
Fairness ==
    /\ WF_vars(Deadline)
    /\ WF_vars(UtilityStopped)
    /\ WF_vars(APIStopped)
    /\ \A u \in Users : WF_vars(Rotate(u))

Spec == Init /\ [][Next]_vars /\ Fairness

-----------------------------------------------------------------------------
\* Credentials have a generation, and a login in flight remembers the one its
\* password was of.
TypeOK ==
    /\ config \in [Users -> {"none", "now", "later"}]
    /\ valid \in BOOLEAN /\ oneSecret \in BOOLEAN
    /\ due \subseteq Users
    /\ phase \in {"down", "serving", "utility", "api", "exited"}
    /\ users \in [Users -> [cur : Gens, new : Gens \cup {Nil}]]
    /\ timers \subseteq Users
    /\ req \in [Clients -> {Nil} \cup [type : {"login"}, user : Users, gen : Gens]
                               \cup [type : {"call"}, user : Users]]
    /\ check \subseteq Checks
    /\ late \in BOOLEAN /\ clean \in BOOLEAN
    /\ cut \subseteq Clients
    /\ tokens \subseteq [user : Users, gen : Gens, pass : Gens]
    /\ rotated \subseteq Users
    /\ count \in [{"logins", "calls", "starts"} -> Nat]

\* Credentials that were exchanged are not accepted again: no token is given
\* for them, though the login had begun before, none signed with their secret
\* is accepted, and a restart of the process does not bring them back.
ExchangedForGood == verdict # Nil /\ verdict.ok => ~verdict.gone

\* A token is given, and a request goes through in the name of a user, only for
\* the password this user had together with the secret that signs the token,
\* though the credentials may be exchanged between the login's two looks at them
\* (LoginHandler, GenerateToken), and though users may have the same secrets.
EarnedByPassword ==
    verdict # Nil /\ verdict.ok =>
        verdict.token.user = verdict.user /\ verdict.token.pass = verdict.token.gen

\* A user's token is refused only when its credentials are neither the current
\* nor the new ones: until the exchange, both work.
BothUntilExchanged ==
    verdict # Nil /\ ~verdict.ok /\ verdict.token.user = verdict.user => ~verdict.known

\* A stop on a signal cuts no request off, unless the deadline had passed; the
\* deadline is one for both servers, so a slow health check can use it up.
StopsGracefully == phase = "exited" /\ clean /\ ~late => cut = {}

\* Once signalled the process exits, whatever its handlers do.
StopEnds == phase = "utility" ~> phase = "exited"
=============================================================================
