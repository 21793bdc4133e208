---------------------------- MODULE LedgerWorker ----------------------------
(***************************************************************************)
(* The Ledger vault (pkg/vault/ledger/vault.go, scan.go): callers queue    *)
(* their requests in a channel and wait for an answer or for the end of    *)
(* their context; one worker owns the device, opens it when it is needed,  *)
(* opens it again once when a signature fails, and closes it when its      *)
(* timer fires.                                                            *)
(***************************************************************************)
EXTENDS Naturals, Sequences

CONSTANTS
    Callers,       \* goroutines that sign or list keys
    QueueCap,      \* capacity of Vault.req: 10
    MaxCalls,      \* bound on the requests made
    NoCall

ASSUME LedgerAssumption ==
    /\ QueueCap \in Nat \ {0}
    /\ MaxCalls \in Nat
    /\ NoCall \notin 1..MaxCalls

Calls == 1..MaxCalls

VARIABLES
    pc,         \* per caller: "idle", "send" (to Vault.req) or "wait"
    mine,       \* per caller: its request
    calls,      \* number of requests so far
    kind,       \* per request: "get" or "sign"
    queue,      \* Vault.req
    sent,       \* per request: answers sent on its channels
    worker,     \* "select", "open", "use", "blocked" (on t.C) or "panicked"
    cur,        \* the request being worked on
    attempt,    \* of a signReq
    dev,        \* "nil", "open", or "dead": a handle that no longer works
    handles,    \* open handles of the device
    timer,      \* t: "nil", "running", "expired", or "received" from
    tch         \* tch is the timer's channel, not nil

vars == <<pc, mine, calls, kind, queue, sent, worker, cur, attempt, dev,
          handles, timer, tch>>

callerVars == <<pc, mine, calls, kind>>
devVars == <<dev, handles, timer, tch>>

Init ==
    /\ pc = [c \in Callers |-> "idle"]
    /\ mine = [c \in Callers |-> NoCall]
    /\ calls = 0
    /\ kind = [i \in Calls |-> "get"]
    /\ queue = <<>>
    /\ sent = [i \in Calls |-> 0]
    /\ worker = "select"
    /\ cur = NoCall
    /\ attempt = 0
    /\ dev = "nil"
    /\ handles = 0
    /\ timer = "nil"
    /\ tch = FALSE

-----------------------------------------------------------------------------
(* The callers: ledgerKey.Sign and Vault.getPublicKey. *)

Call(c, k) ==
    /\ pc[c] = "idle" /\ calls < MaxCalls
    /\ calls' = calls + 1
    /\ kind' = [kind EXCEPT ![calls'] = k]
    /\ mine' = [mine EXCEPT ![c] = calls']
    /\ pc' = [pc EXCEPT ![c] = "send"]
    /\ UNCHANGED <<queue, sent, worker, cur, attempt, devVars>>

\* v.req <- req: waits for room, whatever becomes of the caller's context.
Send(c) ==
    /\ pc[c] = "send" /\ Len(queue) < QueueCap
    /\ queue' = Append(queue, mine[c])
    /\ pc' = [pc EXCEPT ![c] = "wait"]
    /\ UNCHANGED <<mine, calls, kind, sent, worker, cur, attempt, devVars>>

Return(c) ==
    /\ pc' = [pc EXCEPT ![c] = "idle"]
    /\ mine' = [mine EXCEPT ![c] = NoCall]
    /\ UNCHANGED <<calls, kind, queue, sent, worker, cur, attempt, devVars>>

\* The channels are the request's own and hold one answer each.
Receive(c) == pc[c] = "wait" /\ sent[mine[c]] > 0 /\ Return(c)

\* ctx.Done: the request stays queued, and its answer is sent to nobody.
GiveUp(c) == pc[c] = "wait" /\ Return(c)

-----------------------------------------------------------------------------
(* The worker. *)

Take ==
    /\ worker = "select" /\ queue # <<>>
    /\ cur' = Head(queue)
    /\ queue' = Tail(queue)
    /\ attempt' = 0
    /\ worker' = "open"
    /\ UNCHANGED <<callerVars, sent, devVars>>

\* r.err <- err, r.res <- key, r.sig <- sig: and back to the select.
Answer ==
    /\ sent' = [sent EXCEPT ![cur] = @ + 1]
    /\ worker' = "select"
    /\ cur' = NoCall
    /\ attempt' = 0

\* A device that is open serves as it is, and its timer runs on.
KeepDev ==
    /\ worker = "open" /\ dev # "nil" /\ attempt = 0
    /\ worker' = "use"
    /\ UNCHANGED <<callerVars, queue, sent, cur, attempt, devVars>>

\* Mutant of Closing: the old handle is not closed before a retry.
ClosingNot == FALSE

\* A handle is there and this is the retry.
Closing == dev # "nil"

\* scanner.open, after closing what was open.  The timer is stopped and
\* started again: Stop reports false, and the receive that follows it waits,
\* for a timer whose tick the worker has received already.
OpenDev ==
    /\ worker = "open" /\ (dev = "nil" \/ attempt = 1)
    /\ LET left == handles - (IF Closing /\ handles > 0 THEN 1 ELSE 0) IN
       \/ /\ dev' = "nil" /\ handles' = left
          /\ Answer
          /\ UNCHANGED <<timer, tch>>
       \/ /\ dev' = "open" /\ handles' = left + 1
          /\ timer # "received"
          /\ timer' = "running" /\ tch' = TRUE
          /\ worker' = "use"
          /\ UNCHANGED <<sent, cur, attempt>>
       \/ /\ dev' = "open" /\ handles' = left + 1
          /\ timer = "received"
          /\ worker' = "blocked"
          /\ UNCHANGED <<sent, cur, attempt, timer, tch>>
    /\ UNCHANGED <<callerVars, queue>>

\* dev.GetPublicKey or dev.Sign succeeds.
UseDev ==
    /\ worker = "use" /\ dev = "open"
    /\ Answer
    /\ UNCHANGED <<callerVars, queue, devVars>>

\* Mutants of UseFails: the first error is sent as well; the last error is
\* not sent.
UseFailsTwice ==
    /\ worker = "use"
    /\ \/ /\ kind[cur] = "sign" /\ attempt = 0
          /\ attempt' = 1
          /\ sent' = [sent EXCEPT ![cur] = @ + 1]
          /\ worker' = "open"
          /\ UNCHANGED cur
       \/ /\ kind[cur] = "get" \/ attempt = 1
          /\ Answer
    /\ UNCHANGED <<callerVars, queue, devVars>>
UseFailsSilently ==
    /\ worker = "use"
    /\ \/ /\ kind[cur] = "sign" /\ attempt = 0
          /\ attempt' = 1
          /\ worker' = "open"
          /\ UNCHANGED <<sent, cur>>
       \/ /\ kind[cur] = "get" \/ attempt = 1
          /\ worker' = "select"
          /\ UNCHANGED <<sent, cur, attempt>>
    /\ UNCHANGED <<callerVars, queue, devVars>>

\* ... or fails: a signature is tried once more with the device opened anew.
UseFails ==
    /\ worker = "use"
    /\ \/ /\ kind[cur] = "sign" /\ attempt = 0
          /\ attempt' = 1
          /\ worker' = "open"
          /\ UNCHANGED <<sent, cur>>
       \/ /\ kind[cur] = "get" \/ attempt = 1
          /\ Answer
    /\ UNCHANGED <<callerVars, queue, devVars>>

\* case <-tch: dev.Close() panics on a nil device; when it fails, dev and tch
\* stay as they are.
CloseIdle ==
    /\ worker = "select" /\ tch /\ timer = "expired"
    /\ timer' = "received"
    /\ \/ /\ dev = "nil"
          /\ worker' = "panicked"
          /\ UNCHANGED <<dev, handles, tch>>
       \/ /\ dev # "nil"
          /\ dev' = "nil" /\ handles' = handles - 1 /\ tch' = FALSE
          /\ UNCHANGED worker
       \/ /\ dev # "nil"
          /\ dev' = "dead"
          /\ UNCHANGED <<worker, handles, tch>>
    /\ UNCHANGED <<callerVars, queue, sent, cur, attempt>>

-----------------------------------------------------------------------------
(* The world. *)

\* closeAfter has passed.
Expire ==
    /\ timer = "running"
    /\ timer' = "expired"
    /\ UNCHANGED <<callerVars, queue, sent, worker, cur, attempt, dev, handles, tch>>

\* The device is unplugged, locked or reset.
DeviceReset ==
    /\ dev = "open"
    /\ dev' = "dead"
    /\ UNCHANGED <<callerVars, queue, sent, worker, cur, attempt, handles, timer, tch>>

Work == Take \/ KeepDev \/ OpenDev \/ UseDev \/ UseFails \/ CloseIdle

Next ==
    \/ \E c \in Callers :
          \/ \E k \in {"get", "sign"} : Call(c, k)
          \/ Send(c)
          \/ Receive(c)
          \/ GiveUp(c)
    \/ Take
    \/ KeepDev
    \/ OpenDev
    \/ UseDev
    \/ UseFails
    \/ CloseIdle
    \/ Expire
    \/ DeviceReset

\* The worker and the callers run: no call of the device lasts for ever.  A
\* caller waiting for room in the channel gets its turn.  Nothing makes a
\* caller give up.
Fairness ==
    /\ WF_vars(Work)
    /\ \A c \in Callers : SF_vars(Send(c)) /\ WF_vars(Receive(c))

Spec == Init /\ [][Next]_vars /\ Fairness

-----------------------------------------------------------------------------
\* Requests are numbered, and the worker is where its code can be.
TypeOK ==
    /\ pc \in [Callers -> {"idle", "send", "wait"}]
    /\ mine \in [Callers -> Calls \cup {NoCall}]
    /\ calls \in 0..MaxCalls
    /\ kind \in [Calls -> {"get", "sign"}]
    /\ queue \in Seq(Calls) /\ Len(queue) <= QueueCap
    /\ sent \in [Calls -> Nat]
    /\ worker \in {"select", "open", "use", "blocked", "panicked"}
    /\ cur \in Calls \cup {NoCall}
    /\ attempt \in 0..1
    /\ dev \in {"nil", "open", "dead"}
    /\ handles \in Nat
    /\ timer \in {"nil", "running", "expired", "received"}
    /\ tch \in BOOLEAN

Queued(i) == \E n \in 1..Len(queue) : queue[n] = i
Unsent(i) == \E c \in Callers : mine[c] = i /\ pc[c] = "send"

\* Every request taken from the channel is answered exactly once, on all paths
\* through the retry loop: a second answer would fill its channel and block
\* the worker, a missing one leaves the caller waiting.
AnsweredOnce ==
    \A i \in Calls :
        sent[i] = IF i > calls \/ Unsent(i) \/ Queued(i) \/ cur = i THEN 0 ELSE 1

\* The worker never holds two handles of the device, and none it has forgotten:
\* the device would refuse to be opened again.
OneHandle ==
    /\ handles <= 1
    /\ dev = "nil" => handles = 0

\* As long as the timer has not closed the device, every caller gets an answer
\* or its turn to queue, however often the device fails.
AnsweredWhileOpen ==
    [](timer # "received") => \A c \in Callers : pc[c] # "idle" ~> pc[c] = "idle"

\* "Close the device after a certain period of inactivity": closed, to be
\* opened by the next request, which is answered like any other.  (A panic of
\* the worker ends the whole process, and the wait with it.)
AnsweredAfterIdle ==
    \A c \in Callers : pc[c] = "wait" ~> pc[c] = "idle" \/ worker = "panicked"
=============================================================================
