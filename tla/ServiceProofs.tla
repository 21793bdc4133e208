--------------------------- MODULE ServiceProofs ----------------------------
(***************************************************************************)
(* The credentials and the shutdown of the service, for every set of       *)
(* users, clients and health checks and any number of restarts.            *)
(***************************************************************************)
EXTENDS Service, TLAPS

\* A user's data are as configured, or the new credentials have taken the
\* place of the old ones, which only happens to users that have new ones.
Exchanged(u) == users[u] = [cur |-> "new", new |-> Nil]
Data == \A u \in Users : users[u] = Configured(u) \/ Exchanged(u)

\* Timers run for the rotations configured for later.
Scheduled == \A u \in timers : config[u] = "later"

\* Credentials exchanged at any time are exchanged in the data, and would be
\* exchanged at once by the next start.
Lasting == \A u \in rotated : Exchanged(u) /\ Immediate(u)

\* Every token was given for the password that goes with its secret.
Earned == \A t \in tokens : t.pass = t.gen

IInv ==
    /\ TypeOK
    /\ Earned
    /\ Data
    /\ Scheduled
    /\ Lasting
    /\ ExchangedForGood
    /\ EarnedByPassword
    /\ BothUntilExchanged
    /\ StopsGracefully

Credentials == <<config, due, users, timers, rotated>>

-----------------------------------------------------------------------------
(* Lemmas. *)

\* SetNewCred on a user's data makes them exchanged, where there is something
\* to exchange.
LEMMA SetNewCredExchanges ==
    ASSUME NEW u \in Users, config[u] \in {"now", "later"}
    PROVE  /\ SetNewCred(Configured(u)) = [cur |-> "new", new |-> Nil]
           /\ SetNewCred([cur |-> "new", new |-> Nil]) = [cur |-> "new", new |-> Nil]
BY ServiceAssumption DEF SetNewCred, Configured, Gens

\* Steps that do not touch the credentials leave what is said of them.
LEMMA CredentialsKeep ==
    ASSUME IInv, UNCHANGED Credentials
    PROVE  Data' /\ Scheduled' /\ Lasting'
BY DEF IInv, Credentials, Data, Scheduled, Lasting, Exchanged, Configured, Immediate

\* ... and so do steps that decide nothing.
LEMMA VerdictKeeps ==
    ASSUME IInv, verdict' = verdict \/ verdict' = Nil
    PROVE  ExchangedForGood' /\ EarnedByPassword' /\ BothUntilExchanged'
BY DEF IInv, ExchangedForGood, EarnedByPassword, BothUntilExchanged

\* A decision is in order if it accepts only tokens of the user's own, of
\* credentials the user has and shown to have, and refuses only tokens of
\* credentials the user does not have.
LEMMA DecisionInOrder ==
    ASSUME IInv, NEW u \in Users, NEW t, t.gen \in Gens, NEW ok \in BOOLEAN,
           Decide(u, t, ok),
           ok => t.user = u /\ t.pass = t.gen /\ t.gen \in {users[u].cur, users[u].new},
           ~ok /\ t.user = u => t.gen \notin {users[u].cur, users[u].new}
    PROVE  ExchangedForGood' /\ EarnedByPassword' /\ BothUntilExchanged'
<1>1. /\ verdict'.ok = ok /\ verdict'.token = t /\ verdict'.user = u
      /\ verdict'.gone = (u \in rotated /\ t.gen = "old")
      /\ verdict'.known = (t.gen \in {users[u].cur, users[u].new})
  BY DEF Decide
<1>2. u \in rotated => users[u].cur = "new" /\ users[u].new = Nil
  BY DEF IInv, Lasting, Exchanged
<1>3. ok => ~(u \in rotated /\ t.gen = "old")
  BY <1>2, ServiceAssumption DEF Gens
<1>4. ExchangedForGood'
  BY <1>1, <1>3 DEF ExchangedForGood
<1>5. EarnedByPassword'
  BY <1>1 DEF EarnedByPassword
<1>6. BothUntilExchanged'
  BY <1>1 DEF BothUntilExchanged
<1>. QED
  BY <1>4, <1>5, <1>6

-----------------------------------------------------------------------------
(* The actions on credentials. *)

\* A rotation exchanges the credentials of a user that has new ones, whose
\* time has come.
LEMMA RotateKeeps ==
    ASSUME IInv, NEW u \in Users, Rotate(u)
    PROVE  IInv'
<1>1. /\ config[u] = "later" /\ u \in due
      /\ users' = [users EXCEPT ![u] = SetNewCred(users[u])]
      /\ UNCHANGED <<config, due>>
  BY DEF Rotate, IInv, Scheduled
<1>2. SetNewCred(users[u]) = [cur |-> "new", new |-> Nil]
  BY <1>1, SetNewCredExchanges DEF IInv, Data, Exchanged
<1>3. /\ users'[u] = [cur |-> "new", new |-> Nil]
      /\ \A v \in Users : v # u => users'[v] = users[v]
  BY <1>1, <1>2 DEF IInv, TypeOK
<1>4. TypeOK' /\ Earned'
  BY <1>1, <1>2 DEF IInv, TypeOK, Rotate, Gens, Earned
<1>5. Data'
  BY <1>1, <1>3 DEF IInv, Data, Exchanged, Configured
<1>6. Scheduled'
  BY DEF IInv, Scheduled, Rotate
<1>7. Lasting'
  BY <1>1, <1>3 DEF IInv, TypeOK, Lasting, Exchanged, Immediate, Rotate
<1>8. ExchangedForGood' /\ EarnedByPassword' /\ BothUntilExchanged'
  BY VerdictKeeps DEF Rotate
<1>9. StopsGracefully'
  BY DEF IInv, StopsGracefully, Rotate
<1>. QED
  BY <1>4, <1>5, <1>6, <1>7, <1>8, <1>9 DEF IInv

\* Time only brings more users' rotations due.
LEMMA TimePassesKeeps ==
    ASSUME IInv, NEW u \in Users, TimePasses(u)
    PROVE  IInv'
<1>1. TypeOK' /\ Earned'
  BY DEF IInv, TypeOK, TimePasses, Earned
<1>2. Data' /\ Scheduled' /\ Lasting'
  BY DEF IInv, TimePasses, Data, Scheduled, Lasting, Exchanged, Configured, Immediate
<1>3. ExchangedForGood' /\ EarnedByPassword' /\ BothUntilExchanged'
  BY VerdictKeeps DEF TimePasses
<1>4. StopsGracefully'
  BY DEF IInv, StopsGracefully, TimePasses
<1>. QED
  BY <1>1, <1>2, <1>3, <1>4 DEF IInv

\* A start reads the configuration again, and exchanges at once everything
\* that was exchanged before.
LEMMA ServeKeeps ==
    ASSUME IInv, Serve
    PROVE  IInv'
<1>1. UNCHANGED <<config, valid, oneSecret, due, req, check, tokens>> /\ cut' = {}
  BY DEF Serve
<1>2. ExchangedForGood' /\ EarnedByPassword' /\ BothUntilExchanged'
  BY VerdictKeeps DEF Serve
<1>3. StopsGracefully'
  BY <1>1 DEF StopsGracefully
<1>4. count' \in [{"logins", "calls", "starts"} -> Nat]
  BY DEF Serve, Bump, IInv, TypeOK
<1>5. CASE valid
  <2>1. /\ CheckUpdateNewCred([u \in Users |-> Configured(u)])
        /\ phase' = "serving"
    BY <1>5 DEF Serve
  <2>2. \A u \in Users :
           users'[u] = IF Immediate(u) THEN SetNewCred(Configured(u)) ELSE Configured(u)
    BY <2>1 DEF CheckUpdateNewCred
  <2>3. \A u \in Users : Immediate(u) => Exchanged(u)'
    BY <2>2, SetNewCredExchanges DEF Immediate, Exchanged
  <2>4. \A u \in Users : ~Immediate(u) => users'[u] = Configured(u)
    BY <2>2
  <2>5. \A u \in Users : Immediate(u)' = Immediate(u) /\ Configured(u)' = Configured(u)
    BY <1>1 DEF Immediate, Configured
  <2>6. Data'
    BY <2>3, <2>4, <2>5 DEF Data
  <2>7. Scheduled'
    BY <1>1, <2>1 DEF Scheduled, CheckUpdateNewCred
  <2>8. rotated' \subseteq Users /\ \A u \in rotated' : Immediate(u)
    BY <2>1 DEF CheckUpdateNewCred, IInv, Lasting, TypeOK
  <2>9. Lasting'
    BY <2>3, <2>5, <2>8 DEF Lasting
  <2>10. users' \in [Users -> [cur : Gens, new : Gens \cup {Nil}]]
    <3>1. ASSUME NEW u \in Users
          PROVE  users'[u] \in [cur : Gens, new : Gens \cup {Nil}]
      <4>1. CASE Immediate(u)
        <5>1. users'[u] = [cur |-> "new", new |-> Nil]
          BY <2>3, <4>1 DEF Exchanged
        <5>. QED
          BY <5>1 DEF Gens
      <4>2. CASE ~Immediate(u)
        <5>1. users'[u] = Configured(u)
          BY <2>4, <4>2
        <5>2. Configured(u) \in [cur : Gens, new : Gens \cup {Nil}]
          BY DEF Configured, Gens
        <5>. QED
          BY <5>1, <5>2
      <4>. QED
        BY <4>1, <4>2
    <3>. QED
      BY <3>1, <2>1 DEF CheckUpdateNewCred
  <2>11. TypeOK' /\ Earned'
    BY <1>1, <1>4, <2>1, <2>8, <2>10 DEF IInv, TypeOK, Serve, CheckUpdateNewCred, Earned
  <2>. QED
    BY <1>2, <1>3, <2>6, <2>7, <2>9, <2>11 DEF IInv
<1>6. CASE ~valid
  <2>1. UNCHANGED <<users, timers, rotated>> /\ phase' = "exited"
    BY <1>6 DEF Serve
  <2>2. Data' /\ Scheduled' /\ Lasting'
    BY <1>1, <2>1, CredentialsKeep DEF Credentials
  <2>3. TypeOK' /\ Earned'
    BY <1>1, <1>4, <2>1 DEF IInv, TypeOK, Serve, Earned
  <2>. QED
    BY <1>2, <1>3, <2>2, <2>3 DEF IInv
<1>. QED
  BY <1>5, <1>6

-----------------------------------------------------------------------------
(* The actions of requests. *)

\* A login whose password fits is only remembered.
LEMMA LoginHandlerKeeps ==
    ASSUME IInv, NEW c \in Clients, NEW u \in Users, NEW g \in Gens, LoginHandler(c, u, g)
    PROVE  IInv'
<1>1. TypeOK' /\ Earned'
  BY DEF IInv, TypeOK, LoginHandler, Bump, Accepting, Earned
<1>2. Data' /\ Scheduled' /\ Lasting'
  BY CredentialsKeep DEF LoginHandler, Credentials, Bump, Accepting
<1>3. ExchangedForGood' /\ EarnedByPassword' /\ BothUntilExchanged'
  BY VerdictKeeps DEF LoginHandler, Bump, Accepting
<1>4. StopsGracefully'
  BY DEF IInv, StopsGracefully, LoginHandler, Bump, Accepting
<1>. QED
  BY <1>1, <1>2, <1>3, <1>4 DEF IInv

\* The token of a login is signed with a secret the user still has.
LEMMA LoggedInKeeps ==
    ASSUME IInv, NEW c \in Clients, LoggedIn(c)
    PROVE  IInv'
<1>. DEFINE u == req[c].user
            g == req[c].gen
            signed == GenerateToken(u, g)
            token == [user |-> u, gen |-> IF signed = Nil THEN g ELSE signed, pass |-> g]
<1>1. u \in Users /\ g \in Gens
  BY DEF LoggedIn, IInv, TypeOK
<1>2. /\ users[u].cur \in Gens /\ signed \in {users[u].cur, users[u].new}
      /\ signed # Nil => signed \in Gens
      /\ signed = Nil => g \notin {users[u].cur, users[u].new}
      /\ signed # Nil => signed = g
  <2>1. users[u] = Configured(u) \/ Exchanged(u)
    BY <1>1 DEF IInv, Data
  <2>2. /\ users[u].cur \in Gens /\ users[u].new \in Gens \cup {Nil}
        /\ users[u].new # users[u].cur
    BY <1>1, <2>1, ServiceAssumption DEF IInv, TypeOK, Configured, Exchanged, Gens
  <2>. QED
    BY <1>1, <2>2, ServiceAssumption DEF GenerateToken, Gens
<1>3. /\ Decide(u, token, signed # Nil)
      /\ tokens' = tokens \cup IF signed = Nil THEN {} ELSE {token}
  BY DEF LoggedIn
<1>. HIDE DEF signed
<1>4. token.user = u /\ token.gen = g /\ token.pass = g /\ token \in [user : Users, gen : Gens, pass : Gens]
  BY <1>1, <1>2
<1>. HIDE DEF u, g, token
<1>5. ExchangedForGood' /\ EarnedByPassword' /\ BothUntilExchanged'
  BY <1>1, <1>2, <1>3, <1>4, DecisionInOrder
<1>6. tokens' \subseteq [user : Users, gen : Gens, pass : Gens] /\ Earned'
  BY <1>3, <1>4 DEF IInv, TypeOK, Earned
<1>7. TypeOK'
  BY <1>6 DEF IInv, TypeOK, LoggedIn
<1>8. Data' /\ Scheduled' /\ Lasting'
  BY CredentialsKeep DEF LoggedIn, Credentials
<1>9. StopsGracefully'
  BY DEF IInv, StopsGracefully, LoggedIn
<1>. QED
  BY <1>5, <1>6, <1>7, <1>8, <1>9 DEF IInv

\* A request is authenticated with the secrets the user has, in the name of
\* the token's user.
LEMMA AuthHandlerKeeps ==
    ASSUME IInv, NEW c \in Clients, NEW u \in Users, NEW t \in tokens, AuthHandler(c, u, t)
    PROVE  IInv'
<1>1. t.gen \in Gens /\ t.pass = t.gen
  BY DEF IInv, TypeOK, Earned
<1>2. Authenticate(u, t) \in BOOLEAN
  BY DEF Authenticate
<1>3. /\ Authenticate(u, t) => t.user = u /\ t.gen \in {users[u].cur, users[u].new}
      /\ ~Authenticate(u, t) /\ t.user = u => t.gen \notin {users[u].cur, users[u].new}
  BY DEF Authenticate, Parses
<1>4. Decide(u, t, Authenticate(u, t))
  BY DEF AuthHandler
<1>5. ExchangedForGood' /\ EarnedByPassword' /\ BothUntilExchanged'
  BY <1>1, <1>2, <1>3, <1>4, DecisionInOrder
<1>6. TypeOK' /\ Earned'
  BY DEF IInv, TypeOK, AuthHandler, Bump, Earned
<1>7. Data' /\ Scheduled' /\ Lasting'
  BY CredentialsKeep DEF AuthHandler, Credentials
<1>8. StopsGracefully'
  BY DEF IInv, StopsGracefully, AuthHandler
<1>. QED
  BY <1>5, <1>6, <1>7, <1>8 DEF IInv

\* An answered request is gone.
LEMMA AnswerKeeps ==
    ASSUME IInv, NEW c \in Clients, Answer(c)
    PROVE  IInv'
<1>1. TypeOK' /\ Earned'
  BY DEF IInv, TypeOK, Answer, Earned
<1>2. Data' /\ Scheduled' /\ Lasting'
  BY CredentialsKeep DEF Answer, Credentials
<1>3. ExchangedForGood' /\ EarnedByPassword' /\ BothUntilExchanged'
  BY VerdictKeeps DEF Answer
<1>4. StopsGracefully'
  BY DEF IInv, StopsGracefully, Answer
<1>. QED
  BY <1>1, <1>2, <1>3, <1>4 DEF IInv

-----------------------------------------------------------------------------
(* The actions of the process. *)

\* Health checks touch nothing else.
LEMMA HealthBeginsKeeps ==
    ASSUME IInv, NEW h \in Checks, HealthBegins(h)
    PROVE  IInv'
<1>1. TypeOK' /\ Earned'
  BY DEF IInv, TypeOK, HealthBegins, Earned
<1>2. Data' /\ Scheduled' /\ Lasting'
  BY CredentialsKeep DEF HealthBegins, Credentials
<1>3. ExchangedForGood' /\ EarnedByPassword' /\ BothUntilExchanged'
  BY VerdictKeeps DEF HealthBegins
<1>4. StopsGracefully'
  BY DEF IInv, StopsGracefully, HealthBegins
<1>. QED
  BY <1>1, <1>2, <1>3, <1>4 DEF IInv

\* ... at their end neither.
LEMMA HealthEndsKeeps ==
    ASSUME IInv, NEW h \in Checks, HealthEnds(h)
    PROVE  IInv'
<1>1. TypeOK' /\ Earned'
  BY DEF IInv, TypeOK, HealthEnds, Earned
<1>2. Data' /\ Scheduled' /\ Lasting'
  BY CredentialsKeep DEF HealthEnds, Credentials
<1>3. ExchangedForGood' /\ EarnedByPassword' /\ BothUntilExchanged'
  BY VerdictKeeps DEF HealthEnds
<1>4. StopsGracefully'
  BY DEF IInv, StopsGracefully, HealthEnds
<1>. QED
  BY <1>1, <1>2, <1>3, <1>4 DEF IInv

\* A signal begins the shutdown.
LEMMA SignalledKeeps ==
    ASSUME IInv, Signalled
    PROVE  IInv'
<1>1. TypeOK' /\ Earned'
  BY DEF IInv, TypeOK, Signalled, Earned
<1>2. Data' /\ Scheduled' /\ Lasting'
  BY CredentialsKeep DEF Signalled, Credentials
<1>3. ExchangedForGood' /\ EarnedByPassword' /\ BothUntilExchanged'
  BY VerdictKeeps DEF Signalled
<1>4. StopsGracefully'
  BY DEF IInv, StopsGracefully, Signalled
<1>. QED
  BY <1>1, <1>2, <1>3, <1>4 DEF IInv

\* After the deadline requests may be cut off.
LEMMA DeadlineKeeps ==
    ASSUME IInv, Deadline
    PROVE  IInv'
<1>1. TypeOK' /\ Earned'
  BY DEF IInv, TypeOK, Deadline, shuttingDown, Earned
<1>2. Data' /\ Scheduled' /\ Lasting'
  BY CredentialsKeep DEF Deadline, Credentials, shuttingDown
<1>3. ExchangedForGood' /\ EarnedByPassword' /\ BothUntilExchanged'
  BY VerdictKeeps DEF Deadline, shuttingDown
<1>4. StopsGracefully'
  BY DEF IInv, StopsGracefully, Deadline, shuttingDown
<1>. QED
  BY <1>1, <1>2, <1>3, <1>4 DEF IInv

\* The process goes away, with its timers; the users' data are those the next
\* start will find in the configuration, or exchanged.
LEMMA ExitKeeps ==
    ASSUME IInv, Exit, UNCHANGED <<config, due, users, rotated, verdict>>
    PROVE  /\ Data' /\ Scheduled' /\ Lasting'
           /\ ExchangedForGood' /\ EarnedByPassword' /\ BothUntilExchanged'
           /\ cut' \subseteq Clients /\ timers' \subseteq Users
           /\ (\A c \in Clients : req[c] = Nil) => cut' = {}
<1>1. Data' /\ Lasting'
  BY DEF IInv, Data, Lasting, Exchanged, Configured, Immediate
<1>2. Scheduled'
  BY DEF Scheduled, Exit
<1>3. ExchangedForGood' /\ EarnedByPassword' /\ BothUntilExchanged'
  BY VerdictKeeps
<1>. QED
  BY <1>1, <1>2, <1>3 DEF Exit

\* The utility server's end is an error, or the API is waited for.
LEMMA UtilityStoppedKeeps ==
    ASSUME IInv, UtilityStopped
    PROVE  IInv'
<1>1. CASE phase' = "api" /\ UNCHANGED <<req, check, timers, cut, clean>>
  <2>1. TypeOK' /\ Earned'
    BY <1>1 DEF IInv, TypeOK, UtilityStopped, Earned
  <2>2. Data' /\ Scheduled' /\ Lasting'
    BY <1>1, CredentialsKeep DEF UtilityStopped, Credentials
  <2>3. ExchangedForGood' /\ EarnedByPassword' /\ BothUntilExchanged'
    BY VerdictKeeps DEF UtilityStopped
  <2>4. StopsGracefully'
    BY <1>1 DEF StopsGracefully
  <2>. QED
    BY <2>1, <2>2, <2>3, <2>4 DEF IInv
<1>2. CASE Exit /\ clean' = FALSE
  <2>1. /\ Data' /\ Scheduled' /\ Lasting'
        /\ ExchangedForGood' /\ EarnedByPassword' /\ BothUntilExchanged'
        /\ cut' \subseteq Clients /\ timers' \subseteq Users
    BY <1>2, ExitKeeps DEF UtilityStopped
  <2>2. TypeOK' /\ Earned'
    BY <1>2, <2>1 DEF IInv, TypeOK, UtilityStopped, Exit, Earned
  <2>3. StopsGracefully'
    BY <1>2 DEF StopsGracefully
  <2>. QED
    BY <2>1, <2>2, <2>3 DEF IInv
<1>. QED
  BY <1>1, <1>2 DEF UtilityStopped

\* Before the deadline the API's server stops with no request in flight.
LEMMA APIStoppedKeeps ==
    ASSUME IInv, APIStopped
    PROVE  IInv'
<1>1. /\ Data' /\ Scheduled' /\ Lasting'
      /\ ExchangedForGood' /\ EarnedByPassword' /\ BothUntilExchanged'
      /\ cut' \subseteq Clients /\ timers' \subseteq Users
      /\ (\A c \in Clients : req[c] = Nil) => cut' = {}
  BY ExitKeeps DEF APIStopped
<1>2. TypeOK' /\ Earned'
  BY <1>1 DEF IInv, TypeOK, APIStopped, Exit, Earned
<1>3. StopsGracefully'
  BY <1>1 DEF StopsGracefully, APIStopped
<1>. QED
  BY <1>1, <1>2, <1>3 DEF IInv

\* A server's failure is an error.
LEMMA ServerFailsKeeps ==
    ASSUME IInv, ServerFails
    PROVE  IInv'
<1>1. /\ Data' /\ Scheduled' /\ Lasting'
      /\ ExchangedForGood' /\ EarnedByPassword' /\ BothUntilExchanged'
      /\ cut' \subseteq Clients /\ timers' \subseteq Users
  BY ExitKeeps DEF ServerFails
<1>2. TypeOK' /\ Earned'
  BY <1>1 DEF IInv, TypeOK, ServerFails, Exit, Earned
<1>3. StopsGracefully'
  BY DEF StopsGracefully, ServerFails
<1>. QED
  BY <1>1, <1>2, <1>3 DEF IInv

\* The supervisor changes nothing but the phase.
LEMMA RestartKeeps ==
    ASSUME IInv, Restart
    PROVE  IInv'
<1>1. TypeOK' /\ Earned'
  BY DEF IInv, TypeOK, Restart, Earned
<1>2. Data' /\ Scheduled' /\ Lasting'
  BY CredentialsKeep DEF Restart, Credentials
<1>3. ExchangedForGood' /\ EarnedByPassword' /\ BothUntilExchanged'
  BY VerdictKeeps DEF Restart
<1>4. StopsGracefully'
  BY DEF IInv, StopsGracefully, Restart
<1>. QED
  BY <1>1, <1>2, <1>3, <1>4 DEF IInv

-----------------------------------------------------------------------------
(* The invariant and what follows from it. *)

\* Nothing has been exchanged or decided at first.
LEMMA InitHolds == Init => IInv
<1>. SUFFICES ASSUME Init
              PROVE  IInv
  OBVIOUS
<1>1. TypeOK /\ Earned
  BY DEF Init, TypeOK, Configured, Gens, Earned
<1>2. Data /\ Scheduled /\ Lasting
  BY DEF Init, Data, Scheduled, Lasting
<1>3. ExchangedForGood /\ EarnedByPassword /\ BothUntilExchanged
  BY DEF Init, ExchangedForGood, EarnedByPassword, BothUntilExchanged
<1>4. StopsGracefully
  BY DEF Init, StopsGracefully
<1>. QED
  BY <1>1, <1>2, <1>3, <1>4 DEF IInv

\* The inductive invariant holds.
LEMMA InvariantHolds == Spec => []IInv
<1>1. IInv /\ [Next]_vars => IInv'
  <2>. SUFFICES ASSUME IInv, [Next]_vars
                PROVE  IInv'
    OBVIOUS
  <2>1. CASE UNCHANGED vars
    <3>1. TypeOK' /\ Earned' /\ StopsGracefully'
      BY <2>1 DEF vars, IInv, TypeOK, StopsGracefully, Earned
    <3>2. Data' /\ Scheduled' /\ Lasting'
      BY <2>1, CredentialsKeep DEF vars, Credentials
    <3>3. ExchangedForGood' /\ EarnedByPassword' /\ BothUntilExchanged'
      BY <2>1, VerdictKeeps DEF vars
    <3>. QED
      BY <3>1, <3>2, <3>3 DEF IInv
  <2>2. CASE \E u \in Users : Rotate(u) \/ TimePasses(u)
    BY <2>2, RotateKeeps, TimePassesKeeps
  <2>3. CASE \E u \in Users, c \in Clients, g \in Gens : LoginHandler(c, u, g)
    BY <2>3, LoginHandlerKeeps
  <2>4. CASE \E u \in Users, c \in Clients : \E t \in tokens : AuthHandler(c, u, t)
    BY <2>4, AuthHandlerKeeps
  <2>5. CASE \E c \in Clients : LoggedIn(c) \/ Answer(c)
    BY <2>5, LoggedInKeeps, AnswerKeeps
  <2>6. CASE \E h \in Checks : HealthBegins(h) \/ HealthEnds(h)
    BY <2>6, HealthBeginsKeeps, HealthEndsKeeps
  <2>7. CASE Serve \/ Signalled \/ Deadline \/ UtilityStopped \/ APIStopped
             \/ ServerFails \/ Restart
    BY <2>7, ServeKeeps, SignalledKeeps, DeadlineKeeps, UtilityStoppedKeeps,
       APIStoppedKeeps, ServerFailsKeeps, RestartKeeps
  <2>. QED
    BY <2>1, <2>2, <2>3, <2>4, <2>5, <2>6, <2>7 DEF Next
<1>. QED
  BY InitHolds, <1>1, PTL DEF Spec

\* No credentials are accepted once they have been exchanged: not by a login
\* that had begun before, not by a token signed with their secret, and not
\* after any number of restarts (SetNewCred, CheckUpdateNewCred).
THEOREM ExchangeLasts == Spec => [](TypeOK /\ ExchangedForGood)
<1>1. IInv => TypeOK /\ ExchangedForGood
  BY DEF IInv
<1>. QED
  BY InvariantHolds, <1>1, PTL

\* Tokens are given and accepted only for the password their user had together
\* with the secret that signs them, wherever an exchange of the credentials comes
\* between the steps of a login, and though users may share their secrets
\* (LoginHandler, GenerateToken, Authenticate).
THEOREM TokensAreEarned == Spec => []EarnedByPassword
<1>1. IInv => EarnedByPassword
  BY DEF IInv
<1>. QED
  BY InvariantHolds, <1>1, PTL

\* Current and new credentials both work until the exchange, for every
\* interleaving of requests with the rotation's timer.
THEOREM BothGenerationsWork == Spec => []BothUntilExchanged
<1>1. IInv => BothUntilExchanged
  BY DEF IInv
<1>. QED
  BY InvariantHolds, <1>1, PTL

\* A stop on a signal cuts off no request before the deadline both servers
\* share has passed.
THEOREM StopIsGraceful == Spec => []StopsGracefully
<1>1. IInv => StopsGracefully
  BY DEF IInv
<1>. QED
  BY InvariantHolds, <1>1, PTL
=============================================================================
