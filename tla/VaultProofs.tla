---------------------------- MODULE VaultProofs -----------------------------
(***************************************************************************)
(* The vaults that are reached over a link or a network.                   *)
(*                                                                         *)
(* The Ledger vault, for any number of callers, any capacity of the        *)
(* channel, any number of requests and any sizes of messages and packets:  *)
(* every request is answered once, the device is never held twice, the     *)
(* exchange of packets (LedgerLink) implements the worker, and what is     *)
(* handed out is what was asked for.                                       *)
(*                                                                         *)
(* The cloud and token vaults (Vaults), for any keys in any pages and any  *)
(* number of operations and faults: a listing has every key once, an       *)
(* imported key is usable, and a signature fails for a reason only.        *)
(*                                                                         *)
(* Both rest on what recursive functions compute (readCommand over the     *)
(* packets, Only and FlattenSeq over the keys), which is proved from the   *)
(* least number principle: the section on numbers comes first.             *)
(***************************************************************************)
EXTENDS LedgerLink, Vaults, SequencesExt, SequenceTheorems, WellFoundedInduction, TLAPS

-----------------------------------------------------------------------------
(* Numbers and recursive functions. *)

\* The order of the natural numbers, as a relation.
Smaller == {pr \in Nat \X Nat : pr[1] < pr[2]}

\* A set of numbers that is not empty has a least one.
LEMMA LeastNumber ==
    ASSUME NEW S \in SUBSET Nat, S # {}
    PROVE  \E m \in S : \A k \in S : m <= k
<1>1. IsWellFoundedOn(Smaller, Nat)
  BY NatLessThanWellFounded DEF OpToRel, Smaller
<1>2. PICK m \in S : \A k \in S : ~(<<k, m>> \in Smaller)
  BY <1>1, WFMin
<1>3. ASSUME NEW k \in S PROVE m <= k
  <2>1. m \in Nat /\ k \in Nat /\ <<k, m>> \notin Smaller
    BY <1>2
  <2>2. ~(k < m)
    BY <2>1 DEF Smaller
  <2>. QED
    BY <2>1, <2>2
<1>. QED
  BY <1>2, <1>3

\* What holds at 0, and at n when it holds at n - 1, holds up to N.
LEMMA UpTo ==
    ASSUME NEW N \in Nat, NEW S, 0 \in S, \A n \in 1..N : n - 1 \in S => n \in S
    PROVE  0..N \subseteq S
<1> SUFFICES ASSUME 0..N \ S # {} PROVE FALSE
  OBVIOUS
<1> DEFINE T == 0..N \ S
<1>1. T \in SUBSET Nat /\ T # {}
  OBVIOUS
<1> HIDE DEF T
<1>2. PICK m \in T : \A k \in T : m <= k
  BY <1>1, LeastNumber
<1> USE DEF T
<1>3. m \in 1..N /\ m - 1 \in 0..N
  BY <1>2
<1>4. m - 1 \in S
  BY <1>2, <1>3
<1>. QED
  BY <1>2, <1>3, <1>4

\* The values f takes up to N are made one from the other, the n-th by step[n].
Made(f, N, v, step) == f[0] = v /\ \A n \in 1..N : f[n] = step[n][f[n - 1]]

\* There are such values.
LEMMA Computed ==
    ASSUME NEW V, NEW N \in Nat, NEW v \in V, NEW step \in [1..N -> [V -> V]]
    PROVE  \E f \in [0..N -> V] : Made(f, N, v, step)
<1> DEFINE S == {m \in 0..N : \E f \in [0..m -> V] : Made(f, m, v, step)}
<1>1. 0 \in S
  <2> DEFINE f == [n \in 0..0 |-> v]
  <2>1. f \in [0..0 -> V] /\ Made(f, 0, v, step)
    BY DEF Made
  <2>. QED
    BY <2>1
<1>2. ASSUME NEW m \in 1..N, m - 1 \in S PROVE m \in S
  <2>1. PICK f \in [0..(m - 1) -> V] : Made(f, m - 1, v, step)
    BY <1>2
  <2> DEFINE g == [n \in 0..m |-> IF n = m THEN step[m][f[m - 1]] ELSE f[n]]
  <2>2. g \in [0..m -> V] /\ Made(g, m, v, step)
    BY <2>1 DEF Made
  <2>3. m \in 0..N
    OBVIOUS
  <2> HIDE DEF g
  <2>. QED
    BY <2>2, <2>3
<1>3. 0..N \subseteq S
  <2> HIDE DEF S
  <2>. QED
    BY <1>1, <1>2, UpTo
<1>. QED
  BY <1>3

-----------------------------------------------------------------------------
(* The Ledger worker: the inductive invariant. *)

\* A caller has a request while it is not idle, its own, that was made; so
\* does the worker from taking a request to answering it.
Owned ==
    /\ \A c \in Callers : IF pc[c] = "idle" THEN mine[c] = NoCall ELSE mine[c] \in 1..calls
    /\ \A c, d \in Callers : mine[c] = mine[d] /\ mine[c] # NoCall => c = d
    /\ IF worker \in {"select", "panicked"} THEN cur = NoCall ELSE cur \in 1..calls

\* The channel holds requests that were made, each of them once.
InChannel ==
    /\ \A n \in 1..Len(queue) : queue[n] \in 1..calls
    /\ \A m, n \in 1..Len(queue) : queue[m] = queue[n] => m = n

\* A request that waits to be sent is not in the channel, and neither is the
\* one the worker has.
Apart ==
    /\ \A i \in Calls : Unsent(i) => ~Queued(i) /\ cur # i
    /\ \A i \in Calls : Queued(i) => cur # i

\* dev stands for the one handle there is.
Held == handles = IF dev = "nil" THEN 0 ELSE 1

\* The inductive invariant of the worker.
IInv ==
    /\ TypeOK
    /\ Owned
    /\ InChannel
    /\ Apart
    /\ Held
    /\ AnsweredOnce

-----------------------------------------------------------------------------
(* The Ledger worker: requests and answers. *)

\* A request that has not been answered yet is one of these.
Pending(i) == i > calls \/ Unsent(i) \/ Queued(i) \/ cur = i

\* Steps that answer nothing and lose or find no request keep the account.
LEMMA NothingAnswered ==
    ASSUME AnsweredOnce, UNCHANGED sent, \A i \in Calls : Pending(i)' <=> Pending(i)
    PROVE  AnsweredOnce'
BY DEF AnsweredOnce, Pending

\* What is in the channel after a request has been sent.
LEMMA AppendQueued ==
    ASSUME queue \in Seq(Calls), NEW x \in Calls, queue' = Append(queue, x)
    PROVE  /\ queue' \in Seq(Calls) /\ Len(queue') = Len(queue) + 1
           /\ \A n \in 1..Len(queue) : queue'[n] = queue[n]
           /\ queue'[Len(queue) + 1] = x
           /\ \A i \in Calls : Queued(i)' <=> Queued(i) \/ i = x
<1>1. /\ queue' \in Seq(Calls) /\ Len(queue') = Len(queue) + 1
      /\ \A n \in 1..Len(queue) : queue'[n] = queue[n]
      /\ queue'[Len(queue) + 1] = x
  OBVIOUS
<1>2. Len(queue) \in Nat
  OBVIOUS
<1>. QED
  BY <1>1, <1>2 DEF Queued

\* ... and after one has been taken.
LEMMA TailQueued ==
    ASSUME queue \in Seq(Calls), queue # <<>>, queue' = Tail(queue)
    PROVE  /\ queue' \in Seq(Calls) /\ Len(queue') = Len(queue) - 1
           /\ \A n \in 1..Len(queue') : n + 1 \in 1..Len(queue) /\ queue'[n] = queue[n + 1]
           /\ 1 \in 1..Len(queue) /\ Head(queue) = queue[1]
           /\ \A i \in Calls : Queued(i) <=> Queued(i)' \/ i = Head(queue)
<1>1. /\ queue' \in Seq(Calls) /\ Len(queue') = Len(queue) - 1
      /\ Len(queue) \in Nat \ {0}
      /\ \A n \in 1..Len(queue') : n + 1 \in 1..Len(queue) /\ queue'[n] = queue[n + 1]
      /\ Head(queue) = queue[1]
  OBVIOUS
<1>2. ASSUME NEW i \in Calls, Queued(i) PROVE Queued(i)' \/ i = Head(queue)
  <2>1. PICK n \in 1..Len(queue) : queue[n] = i
    BY <1>2 DEF Queued
  <2>2. CASE n = 1
    BY <1>1, <2>1, <2>2
  <2>3. CASE n # 1
    <3>1. n - 1 \in 1..Len(queue') /\ queue'[n - 1] = queue[n]
      BY <1>1, <2>3
    <3>. QED
      BY <2>1, <3>1 DEF Queued
  <2>. QED
    BY <2>2, <2>3
<1>3. ASSUME NEW i \in Calls, Queued(i)' \/ i = Head(queue) PROVE Queued(i)
  BY <1>1, <1>3 DEF Queued
<1>. QED
  BY <1>1, <1>2, <1>3

\* Answering closes the account of the request the worker has.
LEMMA AnswerKeeps ==
    ASSUME IInv, worker \in {"open", "use"}, Answer, UNCHANGED <<callerVars, queue>>
    PROVE  /\ Owned' /\ InChannel' /\ Apart' /\ AnsweredOnce'
           /\ sent' \in [Calls -> Nat] /\ cur' \in Calls \cup {NoCall}
           /\ worker' = "select" /\ attempt' \in 0..1
<1>1. /\ cur \in 1..calls /\ calls \in 0..MaxCalls /\ cur \in Calls
      /\ ~Unsent(cur) /\ ~Queued(cur) /\ NoCall \notin Calls
  BY LedgerAssumption DEF IInv, TypeOK, Owned, Apart, Calls
<1>2. /\ sent' = [sent EXCEPT ![cur] = @ + 1] /\ worker' = "select" /\ cur' = NoCall
      /\ attempt' = 0
      /\ UNCHANGED <<pc, mine, calls, kind, queue>>
  BY DEF Answer, callerVars
<1>3. \A i \in Calls : (Unsent(i)' <=> Unsent(i)) /\ (Queued(i)' <=> Queued(i))
  BY <1>2 DEF Unsent, Queued
<1>4. Owned' /\ InChannel' /\ Apart'
  BY <1>1, <1>2, <1>3 DEF IInv, Owned, InChannel, Apart
<1>5. sent' \in [Calls -> Nat]
  BY <1>1, <1>2 DEF IInv, TypeOK
<1>6. AnsweredOnce'
  <2> SUFFICES ASSUME NEW i \in Calls
               PROVE  sent'[i] = IF i > calls \/ Unsent(i) \/ Queued(i) \/ cur' = i
                                 THEN 0 ELSE 1
    BY <1>2, <1>3 DEF AnsweredOnce
  <2>1. cur' # i
    BY <1>1, <1>2
  <2>2. CASE i = cur
    <3>1. sent[i] = 0 /\ sent'[i] = 1
      BY <1>1, <1>2, <2>2 DEF IInv, AnsweredOnce, TypeOK
    <3>2. ~(i > calls)
      BY <1>1, <2>2
    <3>. QED
      BY <1>1, <2>1, <2>2, <3>1, <3>2
  <2>3. CASE i # cur
    <3>1. sent'[i] = sent[i]
      BY <1>1, <1>2, <2>3 DEF IInv, TypeOK
    <3>. QED
      BY <2>1, <2>3, <3>1 DEF IInv, AnsweredOnce
  <2>. QED
    BY <2>2, <2>3
<1>. QED
  BY <1>1, <1>2, <1>4, <1>5, <1>6

\* Steps of the worker or the world that leave all requests where they are.
LEMMA RequestsStay ==
    ASSUME IInv, UNCHANGED <<callerVars, queue, sent, cur>>,
           worker' \in {"select", "panicked"} <=> worker \in {"select", "panicked"}
    PROVE  Owned' /\ InChannel' /\ Apart' /\ AnsweredOnce'
<1>1. UNCHANGED <<pc, mine, calls, kind, queue, sent, cur>>
  BY DEF callerVars
<1>2. Owned' /\ InChannel'
  BY <1>1 DEF IInv, Owned, InChannel
<1>3. \A i \in Calls : (Unsent(i)' <=> Unsent(i)) /\ (Queued(i)' <=> Queued(i))
  BY <1>1 DEF Unsent, Queued
<1>4. Apart'
  BY <1>1, <1>3 DEF IInv, Apart
<1>5. AnsweredOnce'
  BY <1>1, <1>3, NothingAnswered DEF IInv, Pending
<1>. QED
  BY <1>2, <1>4, <1>5

-----------------------------------------------------------------------------
(* The Ledger worker: its callers. *)

\* A new request is its caller's alone.
LEMMA CallKeeps ==
    ASSUME IInv, NEW c \in Callers, NEW k \in {"get", "sign"}, Call(c, k)
    PROVE  IInv'
<1>1. /\ pc[c] = "idle" /\ mine[c] = NoCall /\ calls \in Nat /\ calls + 1 \in Calls
      /\ calls' = calls + 1 /\ NoCall \notin Calls
      /\ \A i \in 1..calls : i \in Calls /\ i # calls + 1
  BY LedgerAssumption DEF Call, IInv, TypeOK, Owned, Calls
<1>2. /\ pc' = [pc EXCEPT ![c] = "send"] /\ mine' = [mine EXCEPT ![c] = calls + 1]
      /\ UNCHANGED <<queue, sent, worker, cur, attempt, dev, handles, timer, tch>>
  BY <1>1 DEF Call, devVars
<1>3. /\ pc'[c] = "send" /\ mine'[c] = calls + 1
      /\ \A d \in Callers : d # c => pc'[d] = pc[d] /\ mine'[d] = mine[d]
  BY <1>2 DEF IInv, TypeOK
<1>4. TypeOK'
  <2>1. calls' \in 0..MaxCalls /\ kind' \in [Calls -> {"get", "sign"}]
    BY <1>1 DEF Call, IInv, TypeOK, Calls
  <2>2. pc' \in [Callers -> {"idle", "send", "wait"}]
        /\ mine' \in [Callers -> Calls \cup {NoCall}]
    BY <1>1, <1>2 DEF IInv, TypeOK
  <2>. QED
    BY <1>2, <2>1, <2>2 DEF IInv, TypeOK
<1>5. Owned'
  <2>1. \A d \in Callers : IF pc'[d] = "idle" THEN mine'[d] = NoCall ELSE mine'[d] \in 1..calls'
    BY <1>1, <1>3 DEF IInv, Owned
  <2>2. \A d \in Callers : d # c => mine'[d] # calls + 1
    BY <1>1, <1>3 DEF IInv, Owned
  <2>3. \A d, e \in Callers : mine'[d] = mine'[e] /\ mine'[d] # NoCall => d = e
    BY <1>3, <2>2 DEF IInv, Owned
  <2>4. IF worker' \in {"select", "panicked"} THEN cur' = NoCall ELSE cur' \in 1..calls'
    BY <1>1, <1>2 DEF IInv, Owned
  <2>. QED
    BY <2>1, <2>3, <2>4 DEF Owned
<1>6. InChannel'
  BY <1>1, <1>2 DEF IInv, InChannel
<1>7. \A i \in Calls : /\ Unsent(i)' <=> Unsent(i) \/ i = calls + 1
                       /\ Queued(i)' <=> Queued(i)
  BY <1>1, <1>2, <1>3 DEF Unsent, Queued
<1>8. ~Queued(calls + 1) /\ cur # calls + 1
  BY <1>1 DEF IInv, InChannel, Owned, Queued
<1>9. Apart'
  BY <1>2, <1>7, <1>8 DEF IInv, Apart
<1>10. AnsweredOnce'
  <2>1. \A i \in Calls : i > calls + 1 \/ i = calls + 1 <=> i > calls
    BY <1>1 DEF Calls
  <2>. QED
    BY <1>1, <1>2, <1>7, <2>1, NothingAnswered DEF IInv, Pending
<1>11. Held'
  BY <1>2 DEF IInv, Held
<1>. QED
  BY <1>4, <1>5, <1>6, <1>9, <1>10, <1>11 DEF IInv

\* A request moves from its caller to the channel.
LEMMA SendKeeps ==
    ASSUME IInv, NEW c \in Callers, Send(c)
    PROVE  IInv'
<1>1. /\ pc[c] = "send" /\ mine[c] \in Calls /\ mine[c] \in 1..calls
      /\ Unsent(mine[c]) /\ ~Queued(mine[c]) /\ cur # mine[c]
  BY LedgerAssumption DEF Send, IInv, TypeOK, Owned, Calls, Apart, Unsent
<1>2. /\ queue' = Append(queue, mine[c]) /\ pc' = [pc EXCEPT ![c] = "wait"]
      /\ UNCHANGED <<mine, calls, kind, sent, worker, cur, attempt, dev, handles, timer, tch>>
  BY DEF Send, devVars
<1>3. /\ queue' \in Seq(Calls) /\ Len(queue') = Len(queue) + 1 /\ Len(queue) \in Nat
      /\ \A n \in 1..Len(queue) : queue'[n] = queue[n]
      /\ queue'[Len(queue) + 1] = mine[c]
      /\ \A i \in Calls : Queued(i)' <=> Queued(i) \/ i = mine[c]
  BY <1>1, <1>2, AppendQueued DEF IInv, TypeOK
<1>4. pc'[c] = "wait" /\ \A d \in Callers : d # c => pc'[d] = pc[d]
  BY <1>2 DEF IInv, TypeOK
<1>5. TypeOK'
  <2>1. Len(queue') <= QueueCap
    BY <1>3, LedgerAssumption DEF Send
  <2>2. pc' \in [Callers -> {"idle", "send", "wait"}]
    BY <1>2 DEF IInv, TypeOK
  <2>. QED
    BY <1>2, <1>3, <2>1, <2>2 DEF IInv, TypeOK
<1>6. Owned'
  BY <1>1, <1>2, <1>4 DEF IInv, Owned
<1>7. InChannel'
  <2>1. \A n \in 1..Len(queue') : n \in 1..Len(queue) \/ n = Len(queue) + 1
    BY <1>3
  <2>2. \A n \in 1..Len(queue) : queue[n] # mine[c]
    BY <1>1 DEF Queued
  <2>3. \A n \in 1..Len(queue') : queue'[n] \in 1..calls'
    BY <1>1, <1>2, <1>3, <2>1 DEF IInv, InChannel
  <2>4. \A m, n \in 1..Len(queue') : queue'[m] = queue'[n] => m = n
    BY <1>3, <2>1, <2>2 DEF IInv, InChannel
  <2>. QED
    BY <2>3, <2>4 DEF InChannel
<1>8. \A i \in Calls : Unsent(i)' <=> Unsent(i) /\ i # mine[c]
  <2>1. \A d \in Callers : mine[d] = mine[c] => d = c
    BY <1>1, LedgerAssumption DEF IInv, Owned, Calls
  <2>. QED
    BY <1>1, <1>2, <1>4, <2>1 DEF Unsent
<1>9. Apart'
  BY <1>1, <1>2, <1>3, <1>8 DEF IInv, Apart
<1>10. AnsweredOnce'
  BY <1>1, <1>2, <1>3, <1>8, NothingAnswered DEF IInv, Pending
<1>11. Held'
  BY <1>2 DEF IInv, Held
<1>. QED
  BY <1>5, <1>6, <1>7, <1>9, <1>10, <1>11 DEF IInv

\* A caller that got its answer, or gave up, forgets its request; the channel
\* and the worker do not.
LEMMA ReturnKeeps ==
    ASSUME IInv, NEW c \in Callers, Receive(c) \/ GiveUp(c)
    PROVE  IInv'
<1>1. /\ pc[c] = "wait" /\ pc' = [pc EXCEPT ![c] = "idle"]
      /\ mine' = [mine EXCEPT ![c] = NoCall]
      /\ UNCHANGED <<calls, kind, queue, sent, worker, cur, attempt, dev, handles, timer, tch>>
  BY DEF Receive, GiveUp, Return, devVars
<1>2. /\ pc'[c] = "idle" /\ mine'[c] = NoCall
      /\ \A d \in Callers : d # c => pc'[d] = pc[d] /\ mine'[d] = mine[d]
  BY <1>1 DEF IInv, TypeOK
<1>3. TypeOK'
  BY <1>1 DEF IInv, TypeOK
<1>4. Owned'
  BY <1>1, <1>2 DEF IInv, Owned
<1>5. InChannel' /\ Held'
  BY <1>1 DEF IInv, InChannel, Held
<1>6. \A i \in Calls : (Unsent(i)' <=> Unsent(i)) /\ (Queued(i)' <=> Queued(i))
  BY <1>1, <1>2 DEF Unsent, Queued
<1>7. Apart' /\ AnsweredOnce'
  BY <1>1, <1>6, NothingAnswered DEF IInv, Apart, Pending
<1>. QED
  BY <1>3, <1>4, <1>5, <1>7 DEF IInv

-----------------------------------------------------------------------------
(* The Ledger worker: its steps and the world. *)

\* The worker has what it takes, and the channel has it no more.
LEMMA TakeKeeps ==
    ASSUME IInv, Take
    PROVE  IInv'
<1>1. /\ worker = "select" /\ cur = NoCall /\ NoCall \notin Calls
      /\ cur' = Head(queue) /\ queue' = Tail(queue) /\ queue # <<>>
      /\ attempt' = 0 /\ worker' = "open"
      /\ UNCHANGED <<pc, mine, calls, kind, sent, dev, handles, timer, tch>>
  BY LedgerAssumption DEF Take, IInv, Owned, Calls, callerVars, devVars
<1>2. /\ queue' \in Seq(Calls) /\ Len(queue') = Len(queue) - 1 /\ Len(queue) \in Nat
      /\ \A n \in 1..Len(queue') : n + 1 \in 1..Len(queue) /\ queue'[n] = queue[n + 1]
      /\ 1 \in 1..Len(queue) /\ Head(queue) = queue[1]
      /\ \A i \in Calls : Queued(i) <=> Queued(i)' \/ i = Head(queue)
  BY <1>1, TailQueued DEF IInv, TypeOK
<1>3. /\ cur' \in 1..calls /\ cur' \in Calls
      /\ Queued(cur')
  BY <1>1, <1>2 DEF IInv, InChannel, TypeOK, Queued
<1>4. TypeOK'
  <2>1. Len(queue') <= QueueCap
    BY <1>2, LedgerAssumption DEF IInv, TypeOK
  <2>. QED
    BY <1>1, <1>2, <1>3, <2>1 DEF IInv, TypeOK
<1>5. Owned'
  BY <1>1, <1>3 DEF IInv, Owned
<1>6. InChannel' /\ ~Queued(cur)'
  <2>1. \A n \in 1..Len(queue') : n + 1 # 1 /\ queue'[n] # cur'
    BY <1>1, <1>2 DEF IInv, InChannel
  <2>2. \A n \in 1..Len(queue') : queue'[n] \in 1..calls'
    BY <1>1, <1>2 DEF IInv, InChannel
  <2>3. ASSUME NEW m \in 1..Len(queue'), NEW n \in 1..Len(queue'), queue'[m] = queue'[n]
        PROVE  m = n
    BY <1>2, <2>3 DEF IInv, InChannel
  <2>. QED
    BY <2>1, <2>2, <2>3 DEF InChannel, Queued
<1>7. \A i \in Calls : Unsent(i)' <=> Unsent(i)
  BY <1>1 DEF Unsent
<1>8. Apart'
  BY <1>1, <1>2, <1>3, <1>6, <1>7 DEF IInv, Apart
<1>9. AnsweredOnce'
  BY <1>1, <1>2, <1>7, NothingAnswered DEF IInv, Pending
<1>10. Held'
  BY <1>1 DEF IInv, Held
<1>. QED
  BY <1>4, <1>5, <1>6, <1>8, <1>9, <1>10 DEF IInv

\* The old handle is closed before the device is opened anew; a device that
\* cannot be opened is answered for.
LEMMA OpenDevKeeps ==
    ASSUME IInv, OpenDev
    PROVE  IInv'
<1>1. worker = "open" /\ UNCHANGED <<callerVars, queue>>
  BY DEF OpenDev
<1>. DEFINE left == handles - (IF Closing /\ handles > 0 THEN 1 ELSE 0)
<1>2. left = 0
  BY DEF IInv, Held, TypeOK, Closing
<1>3. CASE dev' = "nil" /\ handles' = 0 /\ Answer /\ UNCHANGED <<timer, tch>>
  <2>1. /\ Owned' /\ InChannel' /\ Apart' /\ AnsweredOnce'
        /\ sent' \in [Calls -> Nat] /\ cur' \in Calls \cup {NoCall}
        /\ worker' = "select" /\ attempt' \in 0..1
    BY <1>1, <1>3, AnswerKeeps
  <2>2. TypeOK' /\ Held'
    BY <1>1, <1>3, <2>1 DEF IInv, TypeOK, Held, callerVars
  <2>. QED
    BY <2>1, <2>2 DEF IInv
<1>4. CASE /\ dev' = "open" /\ handles' = 1
           /\ worker' \in {"use", "blocked"} /\ UNCHANGED <<sent, cur, attempt>>
           /\ timer' \in {"running", timer} /\ tch' \in {TRUE, tch}
  <2>1. Owned' /\ InChannel' /\ Apart' /\ AnsweredOnce'
    BY <1>1, <1>4, RequestsStay
  <2>2. TypeOK' /\ Held'
    BY <1>1, <1>4 DEF IInv, TypeOK, Held, callerVars
  <2>. QED
    BY <2>1, <2>2 DEF IInv
<1>5. \/ dev' = "nil" /\ handles' = left /\ Answer /\ UNCHANGED <<timer, tch>>
      \/ /\ dev' = "open" /\ handles' = left + 1
         /\ worker' \in {"use", "blocked"} /\ UNCHANGED <<sent, cur, attempt>>
         /\ timer' \in {"running", timer} /\ tch' \in {TRUE, tch}
  BY Zenon DEF OpenDev
<1>6. left + 1 = 1
  BY <1>2
<1>. HIDE DEF left
<1>. QED
  BY <1>2, <1>3, <1>4, <1>5, <1>6, Zenon

\* A use of the device ends with an answer or, once, with another attempt.
LEMMA UseKeeps ==
    ASSUME IInv, UseDev \/ UseFails
    PROVE  IInv'
<1>1. worker = "use" /\ UNCHANGED <<callerVars, queue, devVars>>
  BY DEF UseDev, UseFails
<1>2. CASE Answer
  <2>1. /\ Owned' /\ InChannel' /\ Apart' /\ AnsweredOnce'
        /\ sent' \in [Calls -> Nat] /\ cur' \in Calls \cup {NoCall}
        /\ worker' = "select" /\ attempt' \in 0..1
    BY <1>1, <1>2, AnswerKeeps
  <2>2. TypeOK' /\ Held'
    BY <1>1, <2>1 DEF IInv, TypeOK, Held, callerVars, devVars
  <2>. QED
    BY <2>1, <2>2 DEF IInv
<1>3. CASE attempt' = 1 /\ worker' = "open" /\ UNCHANGED <<sent, cur>>
  <2>1. Owned' /\ InChannel' /\ Apart' /\ AnsweredOnce'
    BY <1>1, <1>3, RequestsStay
  <2>2. TypeOK' /\ Held'
    BY <1>1, <1>3 DEF IInv, TypeOK, Held, callerVars, devVars
  <2>. QED
    BY <2>1, <2>2 DEF IInv
<1>. QED
  BY <1>2, <1>3 DEF UseDev, UseFails

\* The remaining steps touch no request.
LEMMA OtherKeeps ==
    ASSUME IInv, KeepDev \/ CloseIdle \/ Expire \/ DeviceReset \/ UNCHANGED vars
    PROVE  IInv'
<1>1. UNCHANGED <<pc, mine, calls, kind, queue, sent, cur, attempt>>
  BY DEF KeepDev, CloseIdle, Expire, DeviceReset, vars, callerVars, devVars
<1>2. worker' \in {"select", "panicked"} <=> worker \in {"select", "panicked"}
  BY DEF KeepDev, CloseIdle, Expire, DeviceReset, vars, callerVars, devVars
<1>3. Owned' /\ InChannel' /\ Apart' /\ AnsweredOnce'
  BY <1>1, <1>2, RequestsStay DEF callerVars
<1>4. Held'
  BY DEF IInv, TypeOK, Held, KeepDev, CloseIdle, Expire, DeviceReset, vars, devVars
<1>5. /\ worker' \in {"select", "open", "use", "blocked", "panicked"}
      /\ dev' \in {"nil", "open", "dead"}
      /\ timer' \in {"nil", "running", "expired", "received"}
      /\ tch' \in BOOLEAN
  BY DEF IInv, TypeOK, KeepDev, CloseIdle, Expire, DeviceReset, vars, devVars
<1>6. TypeOK'
  BY <1>1, <1>4, <1>5 DEF IInv, TypeOK, Held
<1>. QED
  BY <1>3, <1>4, <1>6 DEF IInv

-----------------------------------------------------------------------------
(* The Ledger worker: the invariant and what follows from it. *)

\* The worker begins with it.
LEMMA InitHolds == Init => IInv
<1>. SUFFICES ASSUME Init
              PROVE  IInv
  OBVIOUS
<1>1. TypeOK
  <2>1. queue \in Seq(Calls) /\ Len(queue) <= QueueCap
    BY LedgerAssumption DEF Init
  <2>2. calls \in 0..MaxCalls
    BY LedgerAssumption DEF Init
  <2>3. /\ pc \in [Callers -> {"idle", "send", "wait"}]
        /\ mine \in [Callers -> Calls \cup {NoCall}]
        /\ kind \in [Calls -> {"get", "sign"}]
        /\ sent \in [Calls -> Nat]
        /\ attempt \in 0..1 /\ handles \in Nat
    BY DEF Init
  <2>4. /\ worker \in {"select", "open", "use", "blocked", "panicked"}
        /\ cur \in Calls \cup {NoCall}
        /\ dev \in {"nil", "open", "dead"}
        /\ timer \in {"nil", "running", "expired", "received"}
        /\ tch \in BOOLEAN
    BY DEF Init
  <2>. QED
    BY <2>1, <2>2, <2>3, <2>4 DEF TypeOK
<1>2. Owned /\ InChannel /\ Apart /\ Held
  BY DEF Init, Owned, InChannel, Apart, Held, Unsent, Queued
<1>3. AnsweredOnce
  <2>1. \A i \in Calls : i > calls
    BY DEF Init, Calls
  <2>. QED
    BY <2>1 DEF Init, AnsweredOnce
<1>. QED
  BY <1>1, <1>2, <1>3 DEF IInv

\* Every step of the worker and its callers preserves the invariant.
LEMMA NextKeeps == IInv /\ [Next]_vars => IInv'
BY CallKeeps, SendKeeps, ReturnKeeps, TakeKeeps, OpenDevKeeps, UseKeeps, OtherKeeps DEF Next

\* Every step of the exchange of packets is a step of the worker, or none.
LEMMA LinkStep == [LinkNext]_allVars => [Next]_vars
<1>1. CASE Use
  <2>1. UseFails \/ UseDev \/ UNCHANGED vars
    BY <1>1, Zenon DEF Use, Replied, Fails
  <2>. QED
    BY <2>1 DEF Next
<1>2. CASE Gone
  BY <1>2 DEF Gone, Fails, Next
<1>3. CASE openPath
  BY <1>3 DEF openPath, Next
<1>4. CASE Other
  BY <1>4 DEF Other
<1>5. CASE (Take /\ out' = Nil /\ UNCHANGED <<transport, inbox, part, app, others>>)
           \/ ((KeepDev \/ CloseIdle) /\ UNCHANGED linkVars)
  BY <1>5 DEF Next
<1>6. CASE /\ \/ \E c \in Callers :
                     \/ \E k \in {"get", "sign"} : Call(c, k)
                     \/ Send(c)
                     \/ Receive(c)
                     \/ GiveUp(c)
              \/ Expire
              \/ DeviceReset
           /\ UNCHANGED linkVars
  BY <1>6 DEF Next
<1>7. CASE UNCHANGED allVars
  BY <1>7 DEF allVars
<1>. QED
  BY <1>1, <1>2, <1>3, <1>4, <1>5, <1>6, <1>7 DEF LinkNext, LinkWork

\* The vault down to the packets (tezosapp, ledger) behaves as its worker
\* does: commands, packets and refusals never take the worker where it cannot
\* go by itself.
THEOREM LinkRefinesWorker == LinkSpec => Init /\ [][Next]_vars
<1>1. LinkInit => Init
  BY DEF LinkInit
<1>. QED
  BY <1>1, LinkStep, PTL DEF LinkSpec

\* The inductive invariant holds of the vault, down to the packets.
LEMMA InvariantHolds == LinkSpec => []IInv
<1>1. Init /\ [][Next]_vars => []IInv
  BY InitHolds, NextKeeps, PTL
<1>. QED
  BY <1>1, LinkRefinesWorker, PTL

\* Every request taken from the channel is answered exactly once, on all paths
\* through the retry loop of Vault.worker, whether or not its caller waits.
THEOREM LedgerAnswersOnce == LinkSpec => [](TypeOK /\ AnsweredOnce)
<1>1. IInv => TypeOK /\ AnsweredOnce
  BY DEF IInv
<1>. QED
  BY InvariantHolds, <1>1, PTL

\* The worker never holds two handles of the device, nor one it has forgotten,
\* through retries, resets, and closings that fail.
THEOREM LedgerHoldsOne == LinkSpec => []OneHandle
<1>1. IInv => OneHandle
  BY DEF IInv, Held, OneHandle
<1>. QED
  BY InvariantHolds, <1>1, PTL

-----------------------------------------------------------------------------
(* The Ledger link: cutting data into packets. *)

\* The packets the USB transport cuts data into.
Packet == [own : BOOLEAN, seq : Nat, data : [1..chunkSize -> Nat]]

\* The data with its length before it, as it is cut up.
Framed(x) == <<Len(x) \div 256, Len(x) % 256>> \o x

\* The packets of w hold b, one byte after the other.
CutUp(w, b) ==
    \A n \in 1..Len(w), j \in 1..chunkSize :
        (n - 1) * chunkSize + j <= Len(b) => w[n].data[j] = b[(n - 1) * chunkSize + j]

\* A quotient and its remainder.
LEMMA Divided ==
    ASSUME NEW k \in Nat, NEW c \in Nat, c > 0
    PROVE  /\ k \div c \in Nat /\ k % c \in 0..(c - 1)
           /\ k = c * (k \div c) + (k % c)
OBVIOUS

\* The number of pieces of c that k is cut into.
LEMMA Pieces ==
    ASSUME NEW k \in Nat, NEW c \in Nat, c > 0, k > 0
    PROVE  LET n == (k + c - 1) \div c
           IN  n \in Nat /\ n >= 1 /\ n * c >= k /\ (n - 1) * c < k
OBVIOUS

\* Products grow with their factors.
LEMMA Times ==
    ASSUME NEW m \in Nat, NEW n \in Nat, NEW c \in Nat, m <= n
    PROVE  m * c \in Nat /\ n * c \in Nat /\ m * c <= n * c
OBVIOUS

\* Of two multiples of a number, the smaller one has the smaller factor.
LEMMA Fewer ==
    ASSUME NEW m \in Nat, NEW n \in Nat, NEW c \in Nat, m * c < n * c
    PROVE  m < n
<1>1. n <= m => n * c <= m * c
  BY Times
<1>2. m * c \in Nat /\ n * c \in Nat
  BY Times
<1>. QED
  BY <1>1, <1>2

\* Two sequences one after the other.
LEMMA Concat ==
    ASSUME NEW A, NEW s \in Seq(A), NEW t \in Seq(A)
    PROVE  /\ s \o t \in Seq(A) /\ Len(s \o t) = Len(s) + Len(t)
           /\ Len(s) \in Nat /\ Len(t) \in Nat
           /\ \A n \in 1..Len(s) : (s \o t)[n] = s[n]
           /\ \A n \in 1..Len(t) : (s \o t)[Len(s) + n] = t[n]
<1>1. /\ s \o t \in Seq(A) /\ Len(s \o t) = Len(s) + Len(t)
      /\ Len(s) \in Nat /\ Len(t) \in Nat
      /\ \A n \in 1..Len(s) : (s \o t)[n] = s[n]
  OBVIOUS
<1>2. \A n \in (Len(s) + 1)..(Len(s) + Len(t)) : (s \o t)[n] = t[n - Len(s)]
  OBVIOUS
<1>3. \A n \in 1..Len(t) : /\ Len(s) + n \in (Len(s) + 1)..(Len(s) + Len(t))
                           /\ (Len(s) + n) - Len(s) = n
  BY <1>1
<1>. QED
  BY <1>1, <1>2, <1>3

\* The length comes first, and can be read back.
LEMMA FramedIs ==
    ASSUME NEW x \in Seq(Nat)
    PROVE  /\ Framed(x) \in Seq(Nat) /\ Len(Framed(x)) = Len(x) + 2
           /\ Framed(x)[1] * 256 + Framed(x)[2] = Len(x)
           /\ \A k \in 1..Len(x) : Framed(x)[k + 2] = x[k]
<1>1. /\ Len(x) \in Nat /\ Len(x) \div 256 \in Nat /\ Len(x) % 256 \in Nat
      /\ (Len(x) \div 256) * 256 + (Len(x) % 256) = Len(x)
  BY Divided
<1> DEFINE h == <<Len(x) \div 256, Len(x) % 256>>
<1>2. h[1] = Len(x) \div 256 /\ h[2] = Len(x) % 256 /\ 1 \in 1..Len(h) /\ 2 \in 1..Len(h)
  BY <1>1
<1>7. h \in Seq(Nat)
  BY <1>1
<1>8. \A k \in 1..Len(x) : Len(h) + k = k + 2
  BY <1>1
<1>9. Len(h) + Len(x) = Len(x) + 2
  BY <1>1
<1>3. Framed(x) = h \o x
  BY DEF Framed
<1> HIDE DEF h
<1>4. /\ h \o x \in Seq(Nat) /\ Len(h \o x) = Len(h) + Len(x)
      /\ \A n \in 1..Len(h) : (h \o x)[n] = h[n]
      /\ \A n \in 1..Len(x) : (h \o x)[Len(h) + n] = x[n]
  BY <1>7, Concat
<1>5. (h \o x)[1] = h[1] /\ (h \o x)[2] = h[2]
  BY <1>2, <1>4
<1>6. \A k \in 1..Len(x) : (h \o x)[k + 2] = x[k]
  BY <1>4, <1>8
<1>. QED
  BY <1>1, <1>2, <1>3, <1>4, <1>5, <1>6, <1>9

\* The packets of a command or a reply: numbered from 0, marked as one's own,
\* holding the framed data one after the other.
LEMMA Written ==
    ASSUME NEW x \in Seq(Nat), NEW w, w = writeCommand(x)
    PROVE  /\ w \in Seq(Packet) /\ Len(w) \in Nat /\ Len(w) >= 1
           /\ \A n \in 1..Len(w) : w[n].own = TRUE /\ w[n].seq = n - 1
           /\ Len(w) * chunkSize >= Len(x) + 2
           /\ (Len(w) - 1) * chunkSize < Len(x) + 2
           /\ CutUp(w, Framed(x))
<1> DEFINE b == Framed(x)
           N == (Len(b) + chunkSize - 1) \div chunkSize
           z == [n \in 1..N |-> writePacket(TRUE, n - 1, b, (n - 1) * chunkSize)]
<1>1. b \in Seq(Nat) /\ Len(b) = Len(x) + 2 /\ Len(x) \in Nat
  BY FramedIs
<1>2. chunkSize \in Nat /\ chunkSize >= 2
  BY LinkAssumption
<1>3. w = z
  BY DEF writeCommand, Framed
<1>4. N \in Nat /\ N >= 1 /\ N * chunkSize >= Len(b) /\ (N - 1) * chunkSize < Len(b)
  <2> HIDE DEF b
  <2>1. Len(b) \in Nat /\ Len(b) > 0
    BY <1>1
  <2>. QED
    BY <1>2, <2>1, Pieces
<1> HIDE DEF b, N
<1>5. ASSUME NEW n \in 1..N
      PROVE  /\ z[n] \in Packet /\ z[n].own = TRUE /\ z[n].seq = n - 1
             /\ \A j \in 1..chunkSize :
                   (n - 1) * chunkSize + j <= Len(b)
                     => z[n].data[j] = b[(n - 1) * chunkSize + j]
  <2>1. (n - 1) * chunkSize \in Nat /\ n - 1 \in Nat
    BY <1>2, <1>4
  <2> DEFINE off == (n - 1) * chunkSize
             d == [j \in 1..chunkSize |-> IF off + j <= Len(b) THEN b[off + j] ELSE 0]
  <2>2. z[n] = [own |-> TRUE, seq |-> n - 1, data |-> d]
    BY DEF writePacket
  <2> HIDE DEF off
  <2>3. d \in [1..chunkSize -> Nat]
    <3>1. off \in Nat
      BY <2>1 DEF off
    <3>2. \A j \in 1..chunkSize : off + j <= Len(b) => b[off + j] \in Nat
      BY <1>1, <1>2, <3>1
    <3>. QED
      BY <3>2
  <2>4. \A j \in 1..chunkSize : off + j <= Len(b) => d[j] = b[off + j]
    OBVIOUS
  <2> HIDE DEF d, z
  <2>. QED
    BY <1>1, <2>1, <2>2, <2>3, <2>4 DEF Packet, off
<1>6. z \in Seq(Packet) /\ Len(z) = N
  <2>1. z \in [1..N -> Packet]
    BY <1>5
  <2> HIDE DEF z
  <2>. QED
    BY <2>1, <1>4
<1> HIDE DEF z
<1>7. CutUp(z, b)
  BY <1>5, <1>6 DEF CutUp
<1>8. \A n \in 1..Len(z) : z[n].own = TRUE /\ z[n].seq = n - 1
  BY <1>5, <1>6
<1>. QED
  BY <1>1, <1>3, <1>4, <1>6, <1>7, <1>8 DEF b

\* What the device is told is what was sent.
LEMMA ReceivedIs ==
    ASSUME NEW t \in {"usb", "tcp"}, NEW x \in Seq(Nat)
    PROVE  Received(t, Sent(t, x)) = x
<1>1. CASE t = "tcp"
  BY <1>1 DEF Received, Sent, tcpWrite
<1>2. CASE t = "usb"
  <2>0. PICK w : w = writeCommand(x)
    OBVIOUS
  <2> DEFINE byte(k) == w[(k \div chunkSize) + 1].data[(k % chunkSize) + 1]
  <2>1. chunkSize \in Nat /\ chunkSize >= 2
    BY LinkAssumption
  <2>2. Received(t, Sent(t, x)) = [k \in 1..(byte(0) * 256 + byte(1)) |-> byte(k + 1)]
    BY <1>2, <2>0 DEF Received, Sent
  <2>3. /\ w \in Seq(Packet) /\ Len(w) >= 1 /\ Len(w) \in Nat
        /\ Len(w) * chunkSize >= Len(x) + 2
        /\ CutUp(w, Framed(x))
    BY <2>0, Written
  <2>4. ASSUME NEW k \in 0..(Len(x) + 1) PROVE byte(k) = Framed(x)[k + 1]
    <3> DEFINE n == k \div chunkSize
               j == k % chunkSize
    <3>1. n \in Nat /\ j \in 0..(chunkSize - 1) /\ k = chunkSize * n + j
      BY <2>1, Divided, SMTT(30)
    <3> HIDE DEF n, j
    <3>2. byte(k) = w[n + 1].data[j + 1]
      BY DEF n, j
    <3>3. n + 1 \in 1..Len(w) /\ j + 1 \in 1..chunkSize
      <4>1. n * chunkSize < Len(w) * chunkSize
        BY <2>1, <2>3, <3>1
      <4>2. n < Len(w)
        BY <2>1, <2>3, <3>1, <4>1, Fewer
      <4>. QED
        BY <2>1, <2>3, <3>1, <4>2
    <3>4. ((n + 1) - 1) * chunkSize + (j + 1) = k + 1 /\ k + 1 <= Len(Framed(x))
      BY <2>1, <3>1, FramedIs
    <3>5. w[n + 1].data[j + 1] = Framed(x)[((n + 1) - 1) * chunkSize + (j + 1)]
      BY <2>3, <3>3, <3>4 DEF CutUp
    <3>. QED
      BY <3>2, <3>4, <3>5
  <2> HIDE DEF byte
  <2>5. Len(x) \in Nat
    OBVIOUS
  <2>6. byte(0) * 256 + byte(1) = Len(x)
    <3>1. 0 \in 0..(Len(x) + 1) /\ 1 \in 0..(Len(x) + 1)
      BY <2>5
    <3>2. byte(0) = Framed(x)[0 + 1] /\ byte(1) = Framed(x)[1 + 1]
      BY <2>4, <3>1
    <3>3. Framed(x)[1] * 256 + Framed(x)[2] = Len(x)
      BY FramedIs
    <3>. QED
      BY <3>2, <3>3
  <2>7. \A k \in 1..Len(x) : byte(k + 1) = x[k]
    <3> TAKE k \in 1..Len(x)
    <3>1. k + 1 \in 0..(Len(x) + 1) /\ (k + 1) + 1 = k + 2
      BY <2>5
    <3>. QED
      BY <2>4, <3>1, FramedIs, ZenonT(30)
  <2>8. x = [k \in 1..Len(x) |-> x[k]]
    OBVIOUS
  <2>. QED
    BY <2>2, <2>6, <2>7, <2>8
<1>. QED
  BY <1>1, <1>2

-----------------------------------------------------------------------------
(* The Ledger link: reading packets. *)

\* The first e entries of a sequence.
LEMMA Prefix ==
    ASSUME NEW x \in Seq(Nat), NEW e \in 0..Len(x), NEW z, z = SubSeq(x, 1, e)
    PROVE  z \in Seq(Nat) /\ Len(z) = e /\ \A j \in 1..e : z[j] = x[j]
OBVIOUS

\* The first m bytes of q carry on where the first k bytes of x end.
LEMMA Extended ==
    ASSUME NEW x \in Seq(Nat), NEW q \in Seq(Nat), NEW k \in 0..Len(x), NEW m \in 0..Len(q),
           k + m <= Len(x), \A j \in 1..m : q[j] = x[k + j]
    PROVE  SubSeq(x, 1, k) \o SubSeq(q, 1, m) = SubSeq(x, 1, k + m)
<1>1. Len(x) \in Nat /\ Len(q) \in Nat /\ k + m \in 0..Len(x)
  OBVIOUS
<1>2. PICK u, v, z : u = SubSeq(x, 1, k) /\ v = SubSeq(q, 1, m) /\ z = SubSeq(x, 1, k + m)
  OBVIOUS
<1>3. u \in Seq(Nat) /\ Len(u) = k /\ \A j \in 1..k : u[j] = x[j]
  BY <1>1, <1>2
<1>4. v \in Seq(Nat) /\ Len(v) = m /\ \A j \in 1..m : v[j] = q[j]
  BY <1>1, <1>2
<1>5. z \in Seq(Nat) /\ Len(z) = k + m /\ \A j \in 1..(k + m) : z[j] = x[j]
  BY <1>1, <1>2, Prefix
<1>7. PICK s : s = u \o v
  OBVIOUS
<1>6. /\ s \in Seq(Nat) /\ Len(s) = k + m
      /\ \A n \in 1..k : s[n] = u[n]
      /\ \A n \in 1..m : s[k + n] = v[n]
  <2>1. u \in Seq(Nat) /\ v \in Seq(Nat)
    BY <1>3, <1>4
  <2>2. /\ s \in Seq(Nat) /\ Len(s) = Len(u) + Len(v)
        /\ \A n \in 1..Len(u) : s[n] = u[n]
        /\ \A n \in 1..Len(v) : s[Len(u) + n] = v[n]
    BY <1>7, <2>1, Concat
  <2>. QED
    BY <1>3, <1>4, <2>2
<1>8. ASSUME NEW n \in 1..(k + m) PROVE s[n] = z[n]
  <2>1. CASE n \in 1..k
    BY <1>3, <1>5, <1>6, <1>7, <2>1
  <2>2. CASE n \notin 1..k
    <3>1. n - k \in 1..m /\ k + (n - k) = n
      BY <2>2
    <3>2. s[n] = v[n - k] /\ v[n - k] = q[n - k] /\ q[n - k] = x[n]
      BY <1>4, <1>6, <1>7, <3>1
    <3>. QED
      BY <1>5, <3>2
  <2>. QED
    BY <2>1, <2>2
<1>9. s = z
  <2>1. s \in Seq(Nat) /\ z \in Seq(Nat) /\ Len(s) = Len(z)
    BY <1>5, <1>6
  <2>2. \A i \in 1..Len(s) : s[i] = z[i]
    BY <1>6, <1>8
  <2>. QED
    BY <2>1, <2>2, SeqEqual, Zenon
<1>. QED
  BY <1>2, <1>7, <1>9

\* What the loop of readCommand knows.
Progress == [idx : Nat, own : BOOLEAN, len : Nat, data : Seq(Nat), bad : BOOLEAN]
\* Nothing has been read.
Blank == [idx |-> 0, own |-> TRUE, len |-> 0, data |-> <<>>, bad |-> FALSE]

\* f[n] is how far readCommand is after n packets of ps.
Reads(f, ps) ==
    /\ f[0] = Blank /\ readCommand(ps) = f[Len(ps)]
    /\ \A n \in 1..Len(ps) :
          f[n] = IF Complete(f[n - 1]) THEN f[n - 1] ELSE readPacket(f[n - 1], ps[n])

\* A packet's data as a sequence of bytes.
LEMMA PacketData ==
    ASSUME NEW p \in Packet
    PROVE  /\ p.data \in Seq(Nat) /\ Len(p.data) = chunkSize /\ chunkSize \in Nat
           /\ chunkSize >= 2 /\ p.own \in BOOLEAN /\ p.seq \in Nat
<1>1. chunkSize \in Nat /\ chunkSize >= 2
  BY LinkAssumption
<1>2. p.data \in [1..chunkSize -> Nat] /\ p.own \in BOOLEAN /\ p.seq \in Nat
  BY DEF Packet
<1>3. PICK d : d = p.data
  OBVIOUS
<1>4. d \in Seq(Nat) /\ Len(d) = chunkSize
  BY <1>1, <1>2, <1>3
<1>. QED
  BY <1>1, <1>2, <1>3, <1>4

\* One packet read.
LEMMA ReadTyped ==
    ASSUME NEW r \in Progress, NEW p \in Packet
    PROVE  readPacket(r, p) \in Progress
<1>1. /\ p.data \in Seq(Nat) /\ Len(p.data) = chunkSize /\ chunkSize \in Nat
      /\ chunkSize >= 2 /\ p.own \in BOOLEAN /\ p.seq \in Nat
  BY PacketData
<1>2. r.idx \in Nat /\ r.own \in BOOLEAN /\ r.len \in Nat /\ r.data \in Seq(Nat)
  BY DEF Progress
<1> DEFINE first == r.idx = 0
           len == IF first THEN p.data[1] * 256 + p.data[2] ELSE r.len
           own == IF first THEN p.own ELSE r.own
           pl == IF first THEN SubSeq(p.data, 3, Len(p.data)) ELSE p.data
           ln == IF Len(pl) > len - Len(r.data) THEN len - Len(r.data) ELSE Len(pl)
<1>3. readPacket(r, p) = [idx |-> r.idx + 1, own |-> own, len |-> len,
                          data |-> r.data \o SubSeq(pl, 1, ln),
                          bad |-> p.seq # r.idx \/ p.own # own]
  BY DEF readPacket
<1>4. len \in Nat
  <2>1. p.data[1] \in Nat /\ p.data[2] \in Nat
    BY <1>1
  <2>. QED
    BY <1>2, <2>1
<1>5. own \in BOOLEAN
  BY <1>1, <1>2
<1>6. pl \in Seq(Nat)
  BY <1>1
<1> HIDE DEF len, own, pl
<1>7. ln \in Int /\ ln <= Len(pl)
  BY <1>2, <1>4, <1>6
<1> HIDE DEF ln
<1>8. SubSeq(pl, 1, ln) \in Seq(Nat)
  BY <1>6, <1>7
<1>9. r.data \o SubSeq(pl, 1, ln) \in Seq(Nat)
  BY <1>2, <1>8, Concat
<1>10. (p.seq # r.idx \/ p.own # own) \in BOOLEAN /\ r.idx + 1 \in Nat
  BY <1>2
<1>. QED
  BY <1>3, <1>4, <1>5, <1>9, <1>10 DEF Progress

\* readCommand goes through the packets one by one.
LEMMA ReadEquation ==
    ASSUME NEW ps \in Seq(Packet)
    PROVE  \E f \in [0..Len(ps) -> Progress] : Reads(f, ps)
<1> DEFINE Turn(n, q) == IF Complete(q) THEN q ELSE readPacket(q, ps[n])
<1>1. SUFFICES ASSUME NEW N \in Nat, N = Len(ps),
                      NEW step \in [1..N -> [Progress -> Progress]],
                      \A n \in 1..N : \A q \in Progress : step[n][q] = Turn(n, q)
               PROVE  \E f \in [0..N -> Progress] : Reads(f, ps)
  <2> DEFINE st == [n \in 1..Len(ps) |-> [q \in Progress |-> Turn(n, q)]]
  <2>1. \A n \in 1..Len(ps), q \in Progress : Turn(n, q) \in Progress
    BY ReadTyped
  <2> HIDE DEF Turn
  <2>2. st \in [1..Len(ps) -> [Progress -> Progress]]
    BY <2>1
  <2>3. \A n \in 1..Len(ps) : \A q \in Progress : st[n][q] = Turn(n, q)
    OBVIOUS
  <2> HIDE DEF st
  <2>. QED
    BY <2>2, <2>3, SMTT(30)
<1>2. Blank \in Progress
  BY DEF Blank, Progress
<1>3. PICK f \in [0..N -> Progress] : Made(f, N, Blank, step)
  BY <1>2, Computed
<1>4. ASSUME NEW n \in 1..N PROVE f[n] = Turn(n, f[n - 1])
  <2>1. f[n - 1] \in Progress /\ f[n] = step[n][f[n - 1]]
    BY <1>3 DEF Made
  <2>. QED
    BY <1>1, <2>1, Zenon
<1> DEFINE Rec(g) == [n \in 0..N |-> IF n = 0 THEN Blank ELSE Turn(n, g[n - 1])]
           h == CHOOSE g : g = Rec(g)
<1>5. readCommand(ps) = h[N]
  BY <1>1, Zenon DEF readCommand, Blank
<1> HIDE DEF Turn
<1>6. f = Rec(f)
  <2>1. DOMAIN f = 0..N /\ f = [n \in 0..N |-> f[n]]
    BY <1>3
  <2>2. ASSUME NEW n \in 0..N PROVE f[n] = IF n = 0 THEN Blank ELSE Turn(n, f[n - 1])
    BY <1>3, <1>4 DEF Made
  <2>. QED
    BY <2>1, <2>2
<1>7. h = Rec(h)
  BY <1>6, Zenon
<1> HIDE DEF h
<1>8. ASSUME NEW n \in 0..N
      PROVE  h[n] = IF n = 0 THEN Blank ELSE Turn(n, h[n - 1])
  <2>1. Rec(h)[n] = IF n = 0 THEN Blank ELSE Turn(n, h[n - 1])
    OBVIOUS
  <2> HIDE DEF Rec
  <2>. QED
    BY <1>7, <2>1, Zenon
<1>9. \A n \in 0..N : h[n] = f[n]
  <2> DEFINE P == {n \in 0..N : h[n] = f[n]}
  <2>1. 0 \in P
    BY <1>3, <1>8 DEF Made
  <2>2. ASSUME NEW n \in 1..N, n - 1 \in P PROVE n \in P
    <3>1. n \in 0..N /\ n # 0 /\ h[n - 1] = f[n - 1]
      BY <2>2
    <3>2. h[n] = Turn(n, h[n - 1])
      BY <1>8, <3>1, Zenon
    <3>3. f[n] = Turn(n, f[n - 1])
      BY <1>4, Zenon
    <3>4. h[n] = f[n]
      BY <3>1, <3>2, <3>3
    <3>. QED
      BY <3>1, <3>4
  <2>3. 0..N \subseteq P
    <3> HIDE DEF P
    <3>. QED
      BY <2>1, <2>2, UpTo
  <2>. QED
    BY <2>3
<1>10. readCommand(ps) = f[N] /\ f[0] = Blank
  BY <1>3, <1>5, <1>9 DEF Made
<1>11. Reads(f, ps)
  BY <1>1, <1>4, <1>10, Zenon DEF Reads, Turn
<1>. QED
  BY <1>3, <1>11

\* What a packet does to the number read, to whom the reply is for, and to
\* whether it can be one.
LEMMA PacketRead ==
    ASSUME NEW q, NEW p, NEW r, r = readPacket(q, p)
    PROVE  /\ r.idx = q.idx + 1
           /\ r.own = IF q.idx = 0 THEN p.own ELSE q.own
           /\ r.bad <=> p.seq # q.idx \/ p.own # r.own
BY DEF readPacket

\* Whatever the packets are: the reply is for whom its first packet is for,
\* and a reply that is not bad is made of packets numbered from 0.
LEMMA ReadAny ==
    ASSUME NEW ps \in Seq(Packet), Len(ps) >= 1, NEW r, r = readCommand(ps)
    PROVE  /\ r \in Progress /\ r.idx \in 1..Len(ps) /\ r.own = ps[1].own
           /\ ~r.bad => \A j \in 1..r.idx : ps[j].seq = j - 1
<1>1. PICK f \in [0..Len(ps) -> Progress] : Reads(f, ps)
  BY ReadEquation
<1> DEFINE Right(n) ==
             /\ f[n].idx \in 0..n
             /\ f[n].idx = n \/ Complete(f[n])
             /\ f[n].idx > 0 => f[n].own = ps[1].own
             /\ ~f[n].bad => \A j \in 1..f[n].idx : ps[j].seq = j - 1
           S == {n \in 0..Len(ps) : Right(n)}
<1>2. 0 \in S
  BY <1>1 DEF Reads, Blank
<1>3. ASSUME NEW n \in 1..Len(ps), n - 1 \in S PROVE n \in S
  <2>1. /\ Right(n - 1) /\ n \in 0..Len(ps) /\ f[n - 1] \in Progress /\ f[n] \in Progress
        /\ ps[n] \in Packet
        /\ f[n] = IF Complete(f[n - 1]) THEN f[n - 1] ELSE readPacket(f[n - 1], ps[n])
    BY <1>1, <1>3 DEF Reads
  <2>2. CASE Complete(f[n - 1])
    <3>1. f[n] = f[n - 1]
      BY <2>1, <2>2
    <3>2. f[n - 1].idx \in 0..n
      BY <2>1
    <3>3. Right(n)
      BY <2>1, <2>2, <3>1, <3>2, Zenon
    <3>. QED
      BY <2>1, <3>3
  <2>3. CASE ~Complete(f[n - 1])
    <3>1. f[n - 1].idx = n - 1 /\ ~(n - 1 > 0 /\ f[n - 1].bad)
      BY <2>1, <2>3 DEF Complete
    <3>2. /\ f[n].idx = n
          /\ f[n].own = IF n = 1 THEN ps[n].own ELSE f[n - 1].own
          /\ ~f[n].bad => ps[n].seq = n - 1
      <4>1. f[n] = readPacket(f[n - 1], ps[n])
        BY <2>1, <2>3
      <4>2. /\ f[n].idx = f[n - 1].idx + 1
            /\ f[n].own = IF f[n - 1].idx = 0 THEN ps[n].own ELSE f[n - 1].own
            /\ f[n].bad <=> ps[n].seq # f[n - 1].idx \/ ps[n].own # f[n].own
        BY <4>1, PacketRead
      <4>. QED
        BY <2>1, <3>1, <4>2
    <3>3. f[n].own = ps[1].own
      BY <2>1, <3>1, <3>2
    <3>4. ~f[n].bad => \A j \in 1..n : ps[j].seq = j - 1
      BY <2>1, <3>1, <3>2
    <3>. QED
      BY <2>1, <3>2, <3>3, <3>4
  <2>. QED
    BY <2>2, <2>3
<1>4. Len(ps) \in S
  <2> HIDE DEF S
  <2>1. Len(ps) \in Nat
    OBVIOUS
  <2>2. 0..Len(ps) \subseteq S
    BY <1>2, <1>3, <2>1, UpTo
  <2>. QED
    BY <2>1, <2>2
<1>5. r = f[Len(ps)] /\ Right(Len(ps)) /\ r \in Progress
  BY <1>1, <1>4 DEF Reads
<1>6. r.idx > 0
  BY <1>5 DEF Complete
<1>. QED
  BY <1>5, <1>6

\* The first packet of data x: its length, and as much of x as there is room for.
LEMMA ReadFirst ==
    ASSUME NEW x \in Seq(Nat), NEW p \in Packet, p.own = TRUE, p.seq = 0,
           \A j \in 1..chunkSize : j <= Len(x) + 2 => p.data[j] = Framed(x)[j],
           NEW e, e = IF chunkSize - 2 < Len(x) THEN chunkSize - 2 ELSE Len(x)
    PROVE  readPacket(Blank, p) = [idx |-> 1, own |-> TRUE, len |-> Len(x),
                                   data |-> SubSeq(x, 1, e), bad |-> FALSE]
<1>1. /\ p.data \in Seq(Nat) /\ Len(p.data) = chunkSize /\ chunkSize \in Nat
      /\ chunkSize >= 2 /\ Len(x) \in Nat
  BY PacketData
<1>2. /\ Framed(x)[1] * 256 + Framed(x)[2] = Len(x)
      /\ \A k \in 1..Len(x) : Framed(x)[k + 2] = x[k]
  BY FramedIs
<1>3. p.data[1] * 256 + p.data[2] = Len(x)
  <2>1. p.data[1] = Framed(x)[1] /\ p.data[2] = Framed(x)[2]
    BY <1>1
  <2>. QED
    BY <1>2, <2>1
<1>4. PICK pl : pl = SubSeq(p.data, 3, Len(p.data))
  OBVIOUS
<1>5. /\ pl \in Seq(Nat) /\ Len(pl) = chunkSize - 2
      /\ \A j \in 1..(chunkSize - 2) : pl[j] = p.data[j + 2]
  <2>1. PICK d \in Seq(Nat) : d = p.data
    BY <1>1
  <2>2. pl = SubSeq(d, 3, Len(d)) /\ Len(d) = chunkSize
    BY <1>1, <1>4, <2>1
  <2>3. /\ pl \in Seq(Nat) /\ Len(pl) = Len(d) - 2
        /\ \A j \in 1..(Len(d) - 2) : pl[j] = d[j + 2]
    BY <1>1, <2>2
  <2>. QED
    BY <2>1, <2>2, <2>3
<1>6. e \in 0..Len(x) /\ e \in 0..Len(pl)
  BY <1>1, <1>5
<1>7. \A j \in 1..e : pl[j] = x[0 + j]
  BY <1>1, <1>2, <1>5, <1>6
<1>8. SubSeq(x, 1, 0) \o SubSeq(pl, 1, e) = SubSeq(x, 1, 0 + e)
  BY <1>1, <1>5, <1>6, <1>7, Extended
<1>9. SubSeq(x, 1, 0) = <<>> /\ 0 + e = e
  BY <1>6
<1>10. e = IF Len(pl) > Len(x) - Len(<<>>) THEN Len(x) - Len(<<>>) ELSE Len(pl)
  BY <1>1, <1>5
<1>. DEFINE ln == IF Len(pl) > Len(x) - Len(<<>>) THEN Len(x) - Len(<<>>) ELSE Len(pl)
<1>11. readPacket(Blank, p) = [idx |-> 0 + 1, own |-> p.own, len |-> Len(x),
                               data |-> <<>> \o SubSeq(pl, 1, ln),
                               bad |-> p.seq # 0 \/ p.own # p.own]
  <2>1. Blank.idx = 0 /\ Blank.data = <<>>
    BY DEF Blank
  <2>. QED
    BY <1>3, <1>4, <2>1, ZenonT(30) DEF readPacket
<1> HIDE DEF ln
<1>12. <<>> \o SubSeq(pl, 1, ln) = SubSeq(x, 1, e)
  BY <1>8, <1>9, <1>10 DEF ln
<1>13. (p.seq # 0 \/ p.own # p.own) = FALSE /\ 0 + 1 = 1
  OBVIOUS
<1>. QED
  BY <1>11, <1>12, <1>13

\* A packet that carries on with x after its first k bytes.
Carries(p, x, k) == \A j \in 1..chunkSize : k + j <= Len(x) => p.data[j] = x[k + j]

\* What has been read of x, and how far.
ReadTo(x, n, e) ==
    [idx |-> n, own |-> TRUE, len |-> Len(x), data |-> SubSeq(x, 1, e), bad |-> FALSE]

\* As far as x has come with the next packet.
Reach(x, k) == IF k + chunkSize < Len(x) THEN k + chunkSize ELSE Len(x)

\* A packet after n others.
LEMMA ReadLater ==
    ASSUME NEW x \in Seq(Nat), NEW n \in Nat, n >= 1, NEW p \in Packet, p.own = TRUE, p.seq = n,
           NEW k \in 0..Len(x), Carries(p, x, k),
           NEW e \in 0..Len(x), e = Reach(x, k)
    PROVE  readPacket(ReadTo(x, n, k), p) = ReadTo(x, n + 1, e)
<1>1. p.data \in Seq(Nat) /\ Len(p.data) = chunkSize
  BY PacketData
<1>2. chunkSize \in Nat /\ chunkSize >= 2 /\ Len(x) \in Nat
  BY LinkAssumption
<1>3. PICK u, pl : u = SubSeq(x, 1, k) /\ pl = p.data
  OBVIOUS
<1>4. pl \in Seq(Nat)
  BY <1>1, <1>3
<1>5. Len(pl) = chunkSize
  BY <1>1, <1>3
<1>6. Len(u) = k
  BY <1>3, Prefix
<1>7. PICK m : m = IF chunkSize > Len(x) - k THEN Len(x) - k ELSE chunkSize
  OBVIOUS
<1>8. m \in Nat /\ m <= chunkSize /\ k + m <= Len(x) /\ k + m = e
  BY <1>2, <1>7 DEF Reach
<1>9. \A j \in 1..m : pl[j] = x[k + j]
  <2> TAKE j \in 1..m
  <2>1. j \in 1..chunkSize /\ k + j <= Len(x)
    BY <1>2, <1>8
  <2>. QED
    BY <1>3, <2>1 DEF Carries
<1>10. m \in 0..Len(pl)
  BY <1>2, <1>5, <1>8
<1>11. SubSeq(x, 1, k) \o SubSeq(pl, 1, m) = SubSeq(x, 1, k + m)
  BY <1>4, <1>8, <1>9, <1>10, Extended
<1>12. u \o SubSeq(pl, 1, m) = SubSeq(x, 1, e)
  BY <1>3, <1>8, <1>11
<1>13. PICK q : q = ReadTo(x, n, k)
  OBVIOUS
<1>14. q.idx = n /\ ~(q.idx = 0) /\ q.own = TRUE /\ q.len = Len(x) /\ q.data = u
  BY <1>3, <1>13 DEF ReadTo
<1>15. m = IF Len(pl) > Len(x) - Len(u) THEN Len(x) - Len(u) ELSE Len(pl)
  BY <1>5, <1>6, <1>7, Zenon
<1>16. readPacket(q, p) = [idx |-> n + 1, own |-> TRUE, len |-> Len(x),
                           data |-> u \o SubSeq(pl, 1, m), bad |-> p.seq # n \/ p.own # TRUE]
  BY <1>3, <1>14, <1>15, Zenon DEF readPacket
<1>17. (p.seq # n \/ p.own # TRUE) = FALSE
  OBVIOUS
<1>. QED
  BY <1>12, <1>13, <1>16, <1>17 DEF ReadTo

\* One's own reply, read alone, is what was sent, to its last packet.
LEMMA ReadOwn ==
    ASSUME NEW x \in Seq(Nat), NEW w, w = writeCommand(x)
    PROVE  readCommand(w) = [idx |-> Len(w), own |-> TRUE, len |-> Len(x),
                             data |-> x, bad |-> FALSE]
<1>1. /\ w \in Seq(Packet) /\ Len(w) \in Nat /\ Len(w) >= 1
      /\ \A n \in 1..Len(w) : w[n].own = TRUE /\ w[n].seq = n - 1
      /\ Len(w) * chunkSize >= Len(x) + 2
      /\ (Len(w) - 1) * chunkSize < Len(x) + 2
      /\ CutUp(w, Framed(x))
  BY Written
<1>2. chunkSize \in Nat /\ chunkSize >= 2 /\ Len(x) \in Nat
  BY LinkAssumption
<1>3. /\ Len(Framed(x)) = Len(x) + 2
      /\ \A k \in 1..Len(x) : Framed(x)[k + 2] = x[k]
  BY FramedIs
<1>4. PICK f \in [0..Len(w) -> Progress] : Reads(f, w)
  BY <1>1, ReadEquation
<1> DEFINE Till(n) == IF n * chunkSize - 2 < Len(x) THEN n * chunkSize - 2 ELSE Len(x)
           At(n) == ReadTo(x, n, Till(n))
           S == {n \in 0..Len(w) : n > 0 => f[n] = At(n)}
<1>5. 0 \in S
  BY <1>1
<1>6. ASSUME NEW n \in 1..Len(w), n - 1 \in S PROVE n \in S
  <2>1. /\ w[n] \in Packet /\ w[n].own = TRUE /\ w[n].seq = n - 1 /\ n \in 0..Len(w)
        /\ f[n] = IF Complete(f[n - 1]) THEN f[n - 1] ELSE readPacket(f[n - 1], w[n])
    BY <1>1, <1>4 DEF Reads
  <2>2. CASE n = 1
    <3>1. f[0] = Blank /\ ~Complete(f[0]) /\ n - 1 = 0
      BY <1>4, <2>2 DEF Reads, Blank, Complete
    <3>2. f[n] = readPacket(Blank, w[n])
      BY <2>1, <3>1
    <3>3. Till(n) = IF chunkSize - 2 < Len(x) THEN chunkSize - 2 ELSE Len(x)
      BY <1>2, <2>2
    <3>4. ASSUME NEW j \in 1..chunkSize, j <= Len(x) + 2 PROVE w[n].data[j] = Framed(x)[j]
      <4>1. (n - 1) * chunkSize + j = j
        BY <1>2, <2>2
      <4>2. j <= Len(Framed(x))
        BY <1>3, <3>4
      <4>. QED
        BY <1>1, <4>1, <4>2, Zenon DEF CutUp
    <3> HIDE DEF Till
    <3>5. PICK e : e = Till(n)
      OBVIOUS
    <3>6. w[n].seq = 0
      BY <2>1, <2>2
    <3>7. readPacket(Blank, w[n]) = [idx |-> 1, own |-> TRUE, len |-> Len(x),
                                     data |-> SubSeq(x, 1, e), bad |-> FALSE]
      <4>1. PICK p : p = w[n]
        OBVIOUS
      <4>2. /\ p \in Packet /\ p.own = TRUE /\ p.seq = 0
            /\ \A j \in 1..chunkSize : j <= Len(x) + 2 => p.data[j] = Framed(x)[j]
            /\ e = IF chunkSize - 2 < Len(x) THEN chunkSize - 2 ELSE Len(x)
        BY <2>1, <3>3, <3>4, <3>5, <3>6, <4>1
      <4>. QED
        BY <4>1, <4>2, ReadFirst, ZenonT(30)
    <3>8. f[n] = At(n)
      BY <2>2, <3>2, <3>5, <3>7 DEF ReadTo
    <3>. QED
      BY <2>1, <3>8
  <2>3. CASE n # 1
    <3>1. n - 1 \in Nat /\ n - 1 >= 1 /\ f[n - 1] = At(n - 1)
      BY <1>6, <2>3
    <3>2. PICK k : k = (n - 1) * chunkSize - 2
      OBVIOUS
    <3>3. k \in Nat /\ k < Len(x) /\ k + chunkSize = n * chunkSize - 2
      <4>0. n - 1 <= Len(w) - 1 /\ Len(w) - 1 \in Nat /\ n - 1 \in Nat
        BY <1>1, <3>1
      <4>1. (n - 1) * chunkSize <= (Len(w) - 1) * chunkSize
        BY <1>2, <4>0, Times
      <4>2. (n - 1) * chunkSize >= 1 * chunkSize
        BY <1>2, <3>1, Times
      <4>3. (n - 1) * chunkSize \in Nat /\ (Len(w) - 1) * chunkSize \in Nat
        BY <1>2, <4>0, Times
      <4>4. k \in Nat /\ k < Len(x)
        <5>1. PICK y, z : y = (n - 1) * chunkSize /\ z = (Len(w) - 1) * chunkSize
          OBVIOUS
        <5>2. y \in Nat /\ z \in Nat /\ y <= z /\ y >= chunkSize /\ z < Len(x) + 2
          BY <1>1, <1>2, <4>1, <4>2, <4>3, <5>1
        <5>3. k = y - 2
          BY <3>2, <5>1
        <5>. QED
          BY <1>2, <5>2, <5>3
      <4>. QED
        BY <1>2, <3>2, <4>4
    <3>4. Till(n - 1) = k
          /\ Till(n) = IF k + chunkSize < Len(x) THEN k + chunkSize ELSE Len(x)
      BY <3>2, <3>3
    <3> HIDE DEF Till
    <3>5. PICK u : u = SubSeq(x, 1, k)
      OBVIOUS
    <3>6. Len(u) = k
      BY <1>2, <3>3, <3>5, Prefix
    <3>7. ~Complete(f[n - 1])
      BY <3>1, <3>3, <3>4, <3>5, <3>6 DEF Complete, ReadTo
    <3>8. ASSUME NEW j \in 1..chunkSize, k + j <= Len(x) PROVE w[n].data[j] = x[k + j]
      <4>1. (n - 1) * chunkSize + j = (k + j) + 2 /\ k + j \in 1..Len(x)
        BY <1>2, <3>2, <3>3, <3>8
      <4>2. w[n].data[j] = Framed(x)[(n - 1) * chunkSize + j]
        BY <1>1, <1>3, <3>8, <4>1 DEF CutUp
      <4>. QED
        BY <1>3, <4>1, <4>2
    <3>9. readPacket(At(n - 1), w[n]) = At((n - 1) + 1)
      <4>1. PICK m, e : m = n - 1 /\ e = Till(n)
        OBVIOUS
      <4>2. /\ m \in Nat /\ m >= 1 /\ w[n].seq = m /\ k \in 0..Len(x) /\ e \in 0..Len(x)
            /\ e = Reach(x, k)
        BY <1>2, <2>1, <3>1, <3>3, <3>4, <4>1 DEF Reach
      <4>3. readPacket(ReadTo(x, m, k), w[n]) = ReadTo(x, m + 1, e)
        <5>1. PICK p : p = w[n]
          OBVIOUS
        <5>2. p \in Packet /\ p.own = TRUE /\ p.seq = m /\ Carries(p, x, k)
          BY <2>1, <3>8, <4>2, <5>1 DEF Carries
        <5>. QED
          BY <4>2, <5>1, <5>2, ReadLater, Zenon
      <4>4. (n - 1) + 1 = n
        OBVIOUS
      <4>. QED
        BY <3>4, <4>1, <4>3, <4>4
    <3>10. f[n] = At(n)
      <4>1. (n - 1) + 1 = n
        OBVIOUS
      <4> HIDE DEF At
      <4>. QED
        BY <2>1, <3>1, <3>7, <3>9, <4>1
    <3>. QED
      BY <2>1, <3>10
  <2>. QED
    BY <2>2, <2>3
<1>7. 0..Len(w) \subseteq S
  <2> HIDE DEF S
  <2>. QED
    BY <1>1, <1>5, <1>6, UpTo
<1>8. f[Len(w)] = At(Len(w))
  BY <1>1, <1>7
<1>9. Till(Len(w)) = Len(x)
  BY <1>1, <1>2
<1>10. SubSeq(x, 1, Len(x)) = x
  BY <1>2
<1> HIDE DEF Till
<1>. QED
  BY <1>4, <1>8, <1>9, <1>10 DEF Reads, ReadTo

-----------------------------------------------------------------------------
(* The Ledger link: commands and replies. *)

\* The parts of a message: all but the last are full.
LEMMA PartsAre ==
    /\ Parts \in Nat /\ Parts >= 1 /\ Parts * maxAPDUSize >= MessageLength
    /\ \A n \in 1..Parts : /\ (n - 1) * maxAPDUSize \in Nat /\ n * maxAPDUSize \in Nat
                           /\ n * maxAPDUSize = (n - 1) * maxAPDUSize + maxAPDUSize
                           /\ (n - 1) * maxAPDUSize < MessageLength
                           /\ n < Parts => n * maxAPDUSize < MessageLength
<1>1. /\ maxAPDUSize \in Nat /\ maxAPDUSize > 0
      /\ MessageLength \in Nat /\ MessageLength > 0
  BY LinkAssumption
<1>2. /\ Parts \in Nat /\ Parts >= 1 /\ Parts * maxAPDUSize >= MessageLength
      /\ (Parts - 1) * maxAPDUSize < MessageLength
  BY <1>1, Pieces DEF Parts
<1>3. ASSUME NEW n \in Nat, n <= Parts - 1
      PROVE  n * maxAPDUSize \in Nat /\ n * maxAPDUSize < MessageLength
  <2>1. Parts - 1 \in Nat
    BY <1>2
  <2>2. /\ n * maxAPDUSize <= (Parts - 1) * maxAPDUSize /\ n * maxAPDUSize \in Nat
        /\ (Parts - 1) * maxAPDUSize \in Nat
    BY <1>1, <1>3, <2>1, Times
  <2>. QED
    BY <1>1, <1>2, <2>2
<1>4. ASSUME NEW n \in 1..Parts
      PROVE  /\ (n - 1) * maxAPDUSize \in Nat /\ n * maxAPDUSize \in Nat
             /\ n * maxAPDUSize = (n - 1) * maxAPDUSize + maxAPDUSize
             /\ (n - 1) * maxAPDUSize < MessageLength
             /\ n < Parts => n * maxAPDUSize < MessageLength
  <2>1. n \in Nat /\ n - 1 \in Nat /\ n - 1 <= Parts - 1 /\ (n < Parts => n <= Parts - 1)
    BY <1>2
  <2>2. (n - 1) * maxAPDUSize \in Nat /\ (n - 1) * maxAPDUSize < MessageLength
    BY <1>3, <2>1
  <2>3. n * maxAPDUSize = (n - 1) * maxAPDUSize + maxAPDUSize
    BY <1>1, <2>1
  <2>4. n < Parts => n * maxAPDUSize < MessageLength
    BY <1>3, <2>1
  <2>. QED
    BY <1>1, <2>2, <2>3, <2>4
<1>. QED
  BY <1>2, <1>4

\* The message of a request, as a sequence.
LEMMA MessageIs ==
    ASSUME NEW i \in Calls
    PROVE  /\ Message(i) \in Seq(Nat) /\ Len(Message(i)) = MessageLength
           /\ Path(i) \in Seq(Nat) /\ Len(Path(i)) = 1 /\ MessageLength \in Nat
<1>1. MessageLength \in Nat /\ i \in Nat
  BY LinkAssumption DEF Calls
<1>2. PICK m : m = Message(i)
  OBVIOUS
<1>3. m \in [1..MessageLength -> Nat]
  BY <1>1, <1>2 DEF Message
<1>4. m \in Seq(Nat) /\ Len(m) = MessageLength
  BY <1>1, <1>3
<1>5. Path(i) \in Seq(Nat) /\ Len(Path(i)) = 1
  BY <1>1 DEF Path
<1>. QED
  BY <1>1, <1>2, <1>4, <1>5

\* Where the n-th part of a message begins and ends.
PartFrom(n) == (n - 1) * maxAPDUSize
PartUpto(n) == IF n * maxAPDUSize > MessageLength THEN MessageLength ELSE n * maxAPDUSize

\* The parts follow each other, none is longer than a length byte can say,
\* and only the last one ends where the message does.
LEMMA UptoIs ==
    ASSUME NEW n \in 1..Parts
    PROVE  /\ PartFrom(n) \in 0..MessageLength /\ PartUpto(n) \in 0..MessageLength
           /\ PartFrom(n) <= PartUpto(n) /\ PartUpto(n) <= PartFrom(n) + 255
           /\ PartUpto(n) = MessageLength <=> n = Parts
           /\ n < Parts => PartUpto(n) = PartFrom(n + 1)
           /\ MessageLength \in Nat
<1>1. maxAPDUSize \in Nat /\ maxAPDUSize <= 255 /\ MessageLength \in Nat
  BY LinkAssumption
<1>2. PICK y, z : y = (n - 1) * maxAPDUSize /\ z = n * maxAPDUSize
  OBVIOUS
<1>3. /\ y \in Nat /\ z \in Nat /\ z = y + maxAPDUSize /\ y < MessageLength
      /\ n < Parts => z < MessageLength
  BY <1>2, PartsAre
<1>4. n = Parts => z >= MessageLength
  BY <1>2, PartsAre
<1>5. PartFrom(n) = y /\ PartUpto(n) = IF z > MessageLength THEN MessageLength ELSE z
  BY <1>2 DEF PartFrom, PartUpto
<1>6. PartFrom(n + 1) = z
  BY <1>2 DEF PartFrom
<1>7. n < Parts \/ n = Parts
  BY PartsAre
<1>. QED
  BY <1>1, <1>3, <1>4, <1>5, <1>6, <1>7

\* The part itself.
LEMMA PartIs ==
    ASSUME NEW i \in Calls, NEW n \in 1..Parts, NEW d,
           d = SubSeq(Message(i), (n - 1) * maxAPDUSize + 1, PartUpto(n))
    PROVE  /\ d \in Seq(Nat) /\ Len(d) <= 255 /\ Len(d) \in Nat
           /\ SubSeq(Message(i), 1, PartFrom(n)) \o d = SubSeq(Message(i), 1, PartUpto(n))
<1>1. /\ Message(i) \in Seq(Nat) /\ Len(Message(i)) = MessageLength
  BY MessageIs
<1>2. PICK m, y, z : m = Message(i) /\ y = PartFrom(n) /\ z = PartUpto(n)
  OBVIOUS
<1>3. /\ y \in 0..MessageLength /\ z \in 0..MessageLength /\ y <= z /\ z <= y + 255
      /\ MessageLength \in Nat
  BY <1>2, UptoIs
<1>4. m \in Seq(Nat)
  BY <1>1, <1>2
<1>5. d = SubSeq(m, y + 1, z)
  BY <1>2 DEF PartFrom
<1>6. y \in 0..Len(m) /\ z \in 0..Len(m)
  BY <1>1, <1>2, <1>3
<1>7. d \in Seq(Nat) /\ Len(d) = z - y /\ \A j \in 1..(z - y) : d[j] = m[y + j]
  <2>1. PICK a : a = y + 1
    OBVIOUS
  <2>2. a \in Int /\ z \in Int /\ \A j \in a..z : m[j] \in Nat
    BY <1>3, <1>4, <1>6, <2>1
  <2>3. d = SubSeq(m, a, z)
    BY <1>5, <2>1
  <2>4. /\ d \in Seq(Nat)
        /\ Len(d) = IF a <= z THEN z - a + 1 ELSE 0
        /\ \A j \in 1..(z - a + 1) : d[j] = m[a + j - 1]
    <3>1. /\ SubSeq(m, a, z) \in Seq(Nat)
          /\ Len(SubSeq(m, a, z)) = IF a <= z THEN z - a + 1 ELSE 0
          /\ \A j \in 1..(z - a + 1) : SubSeq(m, a, z)[j] = m[a + j - 1]
      BY <2>2, SubSeqProperties
    <3>. QED
      BY <2>3, <3>1, Zenon
  <2>5. IF a <= z THEN z - a + 1 = z - y ELSE z - y = 0
    BY <1>3, <2>1
  <2>6. Len(d) = z - y
    BY <2>4, <2>5, Zenon
  <2>7. ASSUME NEW j \in 1..(z - y) PROVE d[j] = m[y + j]
    <3>1. j \in 1..(z - a + 1) /\ a + j - 1 = y + j
      BY <1>3, <2>1
    <3>2. d[j] = m[a + j - 1]
      BY <2>4, <3>1, Zenon
    <3>. QED
      BY <3>1, <3>2
  <2>. QED
    BY <2>4, <2>6, <2>7
<1>8. PICK e : e = z - y
  OBVIOUS
<1>9. e \in 0..Len(d) /\ y + e <= Len(m) /\ y + e = z /\ \A j \in 1..e : d[j] = m[y + j]
  BY <1>3, <1>6, <1>7, <1>8
<1>10. d \in Seq(Nat)
  BY <1>7
<1>11. SubSeq(m, 1, y) \o SubSeq(d, 1, e) = SubSeq(m, 1, y + e)
  BY <1>4, <1>6, <1>9, <1>10, Extended
<1>12. SubSeq(d, 1, e) = d
  <2>1. e = Len(d)
    BY <1>7, <1>8
  <2>. QED
    BY <1>10, <2>1, SubSeqFull
<1>13. SubSeq(m, 1, y) \o d = SubSeq(m, 1, z)
  BY <1>9, <1>11, <1>12
<1>14. Len(d) \in Nat /\ Len(d) <= 255
  BY <1>3, <1>7
<1>. QED
  BY <1>2, <1>10, <1>13, <1>14

\* What the app reads from a command is what was put into it.
LEMMA BytesAre ==
    ASSUME NEW a, a.ins \in Nat, a.p1 \in Nat, a.data \in Seq(Nat), Len(a.data) <= 255,
           NEW cmd, cmd = Bytes(a)
    PROVE  /\ cmd \in Seq(Nat) /\ cmd[1] = a.ins /\ cmd[2] = a.p1
           /\ SubSeq(cmd, 4, 3 + cmd[3]) = a.data
<1>1. PICK d, L : d = a.data /\ L = Len(d)
  OBVIOUS
<1>2. d \in Seq(Nat)
  BY <1>1
<1>3. L \in Nat /\ L <= 255 /\ L % 256 = L
  <2>1. L \in Nat /\ L <= 255
    BY <1>1, <1>2
  <2>. QED
    BY <2>1
<1> DEFINE h == <<a.ins, a.p1, L % 256>>
<1>4. h[1] = a.ins /\ h[2] = a.p1 /\ h[3] = L /\ \A j \in 1..3 : j \in 1..Len(h)
  BY <1>3
<1>5. h \in Seq(Nat)
  BY <1>3
<1>6. \A j \in 1..L : Len(h) + j = 3 + j
  BY <1>3
<1>7. cmd = h \o d
  BY <1>1 DEF Bytes
<1>8. Len(h) + L = 3 + L
  OBVIOUS
<1> HIDE DEF h
<1>9. /\ cmd \in Seq(Nat) /\ Len(cmd) = Len(h) + Len(d)
      /\ \A n \in 1..Len(h) : cmd[n] = h[n]
      /\ \A n \in 1..Len(d) : cmd[Len(h) + n] = d[n]
  BY <1>2, <1>5, <1>7, Concat
<1>10. cmd[1] = a.ins /\ cmd[2] = a.p1 /\ cmd[3] = L
  BY <1>4, <1>9
<1>11. Len(cmd) = 3 + L /\ \A j \in 1..L : cmd[3 + j] = d[j]
  BY <1>1, <1>6, <1>8, <1>9
<1>12. PICK e, y : e = 3 + L /\ y = SubSeq(cmd, 4, e)
  OBVIOUS
<1>13. /\ y \in Seq(Nat)
       /\ Len(y) = IF 4 <= e THEN e - 4 + 1 ELSE 0
       /\ \A j \in 1..(e - 4 + 1) : y[j] = cmd[4 + j - 1]
  <2>1. 4 \in Int /\ e \in Int /\ \A j \in 4..e : cmd[j] \in Nat
    BY <1>3, <1>9, <1>11, <1>12, SMTT(30)
  <2>2. /\ SubSeq(cmd, 4, e) \in Seq(Nat)
        /\ Len(SubSeq(cmd, 4, e)) = IF 4 <= e THEN e - 4 + 1 ELSE 0
        /\ \A j \in 1..(e - 4 + 1) : SubSeq(cmd, 4, e)[j] = cmd[4 + j - 1]
    BY <2>1, SubSeqProperties
  <2>. QED
    BY <1>12, <2>2, Zenon
<1>14. Len(y) = L
  <2>1. (IF 4 <= e THEN e - 4 + 1 ELSE 0) = L
    BY <1>3, <1>12
  <2>. QED
    BY <1>13, <2>1, Zenon
<1>15. ASSUME NEW j \in 1..L PROVE y[j] = d[j]
  <2>1. j \in 1..(e - 4 + 1) /\ 4 + j - 1 = 3 + j
    BY <1>3, <1>12
  <2>2. y[j] = cmd[4 + j - 1]
    BY <1>13, <2>1, Zenon
  <2>. QED
    BY <1>11, <2>1, <2>2
<1>16. y = d
  <2>1. y \in Seq(Nat) /\ Len(y) = Len(d)
    BY <1>1, <1>13, <1>14
  <2>. QED
    BY <1>1, <1>15, <2>1, SeqEqual, SMTT(30)
<1>. QED
  BY <1>1, <1>9, <1>10, <1>12, <1>16

\* The n-th command of a request.
RightCommand(a, k, i, n) ==
    /\ a.ins \in Nat /\ a.p1 \in Nat /\ a.data \in Seq(Nat) /\ Len(a.data) <= 255
    /\ k = "get" => a.ins = insGetPublicKey /\ a.data = Path(i)
    /\ k = "sign" => a.ins = insSign
    /\ k = "sign" /\ n = 0 => a.p1 = 0 /\ a.data = Path(i)
    /\ k = "sign" /\ n > 0 =>
          /\ a.p1 = IF n = Parts THEN p1Next + p1Last ELSE p1Next
          /\ SubSeq(Message(i), 1, PartFrom(n)) \o a.data = SubSeq(Message(i), 1, PartUpto(n))

\* The commands of a request.
LEMMA CommandIs ==
    ASSUME NEW i \in Calls, NEW k \in {"get", "sign"}, NEW n \in 0..Parts, k = "get" => n = 0
    PROVE  RightCommand(Command(k, i, n), k, i, n)
<1>0. PICK a : a = Command(k, i, n)
  OBVIOUS
<1>. SUFFICES RightCommand(a, k, i, n)
  BY <1>0
<1>. USE <1>0 DEF RightCommand
<1>1. Path(i) \in Seq(Nat) /\ Len(Path(i)) <= 255
  <2>1. Path(i) \in Seq(Nat) /\ Len(Path(i)) = 1
    BY MessageIs
  <2>. QED
    BY <2>1
<1>2. CASE k = "get"
  <2>1. a = [ins |-> insGetPublicKey, p1 |-> 0, data |-> Path(i)]
    BY <1>2, Zenon DEF Command
  <2>2. a.ins = insGetPublicKey /\ a.p1 = 0 /\ a.data = Path(i)
    BY <2>1
  <2>3. a.ins \in Nat /\ a.p1 \in Nat
    BY <2>2 DEF insGetPublicKey
  <2>. QED
    BY <1>1, <1>2, <2>2, <2>3
<1>3. CASE k = "sign" /\ n = 0
  <2>1. a = [ins |-> insSign, p1 |-> 0, data |-> Path(i)]
    BY <1>3 DEF Command
  <2>2. a.ins = insSign /\ a.p1 = 0 /\ a.data = Path(i)
    BY <2>1
  <2>3. a.ins \in Nat /\ a.p1 \in Nat
    BY <2>2 DEF insSign
  <2>. QED
    BY <1>1, <1>3, <2>2, <2>3
<1>4. CASE k = "sign" /\ n # 0
  <2>1. n \in 1..Parts /\ n > 0
    BY <1>4
  <2>2. PICK d : d = SubSeq(Message(i), (n - 1) * maxAPDUSize + 1, PartUpto(n))
    OBVIOUS
  <2>3. /\ d \in Seq(Nat) /\ Len(d) <= 255
        /\ SubSeq(Message(i), 1, PartFrom(n)) \o d = SubSeq(Message(i), 1, PartUpto(n))
    BY <2>1, <2>2, PartIs
  <2>4. a = [ins |-> insSign,
             p1 |-> IF PartUpto(n) = MessageLength THEN p1Next + p1Last ELSE p1Next,
             data |-> d]
    BY <1>4, <2>2, Zenon DEF Command, PartUpto
  <2>5. PartUpto(n) = MessageLength <=> n = Parts
    BY <2>1, UptoIs
  <2>6. a.ins = insSign /\ a.data = d
        /\ a.p1 = IF n = Parts THEN p1Next + p1Last ELSE p1Next
    BY <2>4, <2>5
  <2>7. a.ins \in Nat /\ a.p1 \in Nat
    BY <2>6 DEF insSign, p1Next, p1Last
  <2>. QED
    BY <1>4, <2>3, <2>6, <2>7
<1>. QED
  BY <1>2, <1>3, <1>4

\* The app is told what the worker wrote, over either transport.
LEMMA ToldIs ==
    ASSUME NEW t \in {"usb", "tcp"}, NEW i \in Calls, NEW k \in {"get", "sign"},
           NEW n \in 0..Parts, k = "get" => n = 0
    PROVE  Told[t][k][i][n] = Bytes(Command(k, i, n))
<1>1. PICK a : a = Command(k, i, n)
  OBVIOUS
<1>2. a.ins \in Nat /\ a.p1 \in Nat /\ a.data \in Seq(Nat) /\ Len(a.data) <= 255
  BY <1>1, CommandIs DEF RightCommand
<1>3. PICK cmd : cmd = Bytes(a)
  OBVIOUS
<1>4. cmd \in Seq(Nat)
  BY <1>2, <1>3, BytesAre
<1>5. Told[t][k][i][n] = Received(t, Sent(t, cmd))
  <2>1. Told[t][k][i][n] = Received(t, Sent(t, Bytes(Command(k, i, n))))
    BY Zenon DEF Told
  <2>. QED
    BY <1>1, <1>3, <2>1, Zenon
<1>. QED
  BY <1>1, <1>3, <1>4, <1>5, ReceivedIs

\* A status at the end of a reply is taken off it again.
LEMMA Parsed ==
    ASSUME NEW d \in Seq(Nat), NEW y \in Nat, NEW z \in Nat
    PROVE  /\ d \o <<y, z>> \in Seq(Nat)
           /\ parseAPDUResponse(d \o <<y, z>>) = [data |-> d, sw |-> <<y, z>>]
<1> DEFINE s == <<y, z>>
<1>1. s[1] = y /\ s[2] = z /\ 1 \in 1..Len(s) /\ 2 \in 1..Len(s) /\ Len(s) = 2
  OBVIOUS
<1>2. s \in Seq(Nat)
  OBVIOUS
<1> HIDE DEF s
<1>3. PICK b : b = d \o s
  OBVIOUS
<1>4. /\ b \in Seq(Nat) /\ Len(b) = Len(d) + Len(s) /\ Len(d) \in Nat
      /\ \A n \in 1..Len(d) : b[n] = d[n]
      /\ \A n \in 1..Len(s) : b[Len(d) + n] = s[n]
  BY <1>2, <1>3, Concat
<1>5. PICK L : L = Len(d)
  OBVIOUS
<1>6. L \in Nat /\ Len(b) = L + 2 /\ b[L + 1] = y /\ b[L + 2] = z
  BY <1>1, <1>4, <1>5
<1>7. SubSeq(b, 1, L) = d
  <2>1. PICK u : u = SubSeq(b, 1, L)
    OBVIOUS
  <2>2. u \in Seq(Nat) /\ Len(u) = L /\ \A j \in 1..L : u[j] = b[j]
    <3>1. b \in Seq(Nat) /\ L \in 0..Len(b)
      BY <1>4, <1>6
    <3>. QED
      BY <2>1, <3>1, Prefix
  <2>3. \A j \in 1..L : u[j] = d[j]
    BY <1>4, <1>5, <2>2
  <2>4. u \in Seq(Nat) /\ Len(u) = Len(d) /\ \A j \in 1..Len(d) : u[j] = d[j]
    BY <1>5, <2>2, <2>3
  <2>5. u = d
    BY <2>4, SeqEqual, SMTT(30)
  <2>. QED
    BY <2>1, <2>5
<1>8. SubSeq(b, L + 1, L + 2) = <<y, z>>
  <2>1. PICK e, f, v : e = L + 1 /\ f = L + 2 /\ v = SubSeq(b, e, f)
    OBVIOUS
  <2>2. e \in Int /\ f \in Int /\ e <= f /\ \A j \in e..f : b[j] \in Nat
    BY <1>4, <1>6, <2>1
  <2>3. /\ v \in Seq(Nat) /\ Len(v) = IF e <= f THEN f - e + 1 ELSE 0
        /\ \A j \in 1..(f - e + 1) : v[j] = b[e + j - 1]
    <3>1. /\ SubSeq(b, e, f) \in Seq(Nat)
          /\ Len(SubSeq(b, e, f)) = IF e <= f THEN f - e + 1 ELSE 0
          /\ \A j \in 1..(f - e + 1) : SubSeq(b, e, f)[j] = b[e + j - 1]
      BY <2>2, SubSeqProperties
    <3>. QED
      BY <2>1, <3>1, Zenon
  <2>4. f - e + 1 = 2 /\ e + 1 - 1 = L + 1 /\ e + 2 - 1 = L + 2
    BY <1>6, <2>1
  <2>5. v[1] = b[e + 1 - 1] /\ v[2] = b[e + 2 - 1] /\ Len(v) = 2
    BY <2>2, <2>3, <2>4, SMTT(30)
  <2>6. v[1] = y /\ v[2] = z
    BY <1>6, <2>4, <2>5
  <2>7. v = <<y, z>>
    BY <2>3, <2>5, <2>6
  <2>. QED
    BY <2>1, <2>7
<1>9. Len(b) - 2 = L /\ Len(b) - 1 = L + 1 /\ ~(Len(b) < 2)
  BY <1>6
<1>10. parseAPDUResponse(b) = [data |-> SubSeq(b, 1, Len(b) - 2),
                               sw |-> SubSeq(b, Len(b) - 1, Len(b))]
  BY <1>9, Zenon DEF parseAPDUResponse
<1>11. parseAPDUResponse(b) = [data |-> d, sw |-> <<y, z>>]
  BY <1>6, <1>7, <1>8, <1>9, <1>10
<1>. QED
  BY <1>3, <1>4, <1>11 DEF s

-----------------------------------------------------------------------------
(* The Ledger link: the inductive invariant. *)

\* What the app has been told of the command it is at.
AppType == [path : Seq(Nat), data : Seq(Nat)]

\* What the app knows when it has been sent n commands of request i's signature.
Halfway(i, n) == [path |-> Path(i), data |-> SubSeq(Message(i), 1, PartFrom(n))]

\* Packets come over USB only, and the commands of a request are counted.
LinkTyped ==
    /\ transport \in {"usb", "tcp"}
    /\ inbox \in Seq(Packet)
    /\ transport = "tcp" => inbox = <<>>
    /\ part \in 0..Parts
    /\ app \in AppType

\* Parts are sent for a signature, while the worker uses the device.
InParts ==
    /\ worker # "use" => part = 0
    /\ part > 0 => kind[cur] = "sign"
    /\ out # Nil => out.call \in 1..calls

\* As long as no reply was left unread, the app knows just what was sent for
\* this signature.
AppKnows == worker = "use" /\ part > 0 /\ ~Unread => app = Halfway(cur, part)

\* The inductive invariant of the link.
LinkInv ==
    /\ IInv
    /\ LinkTyped
    /\ InParts
    /\ AppKnows
    /\ OwnReply

-----------------------------------------------------------------------------
(* The Ledger link: what is read. *)

\* With nothing else in the inbox, the reply is what the device sent.
LEMMA ReadAlone ==
    ASSUME LinkTyped, NEW y \in Seq(Nat), NEW ps, ps = Sent(transport, y),
           NEW r, r = Reading(ps)
    PROVE  /\ r.own = TRUE /\ r.bad = FALSE /\ r.data = y
           /\ SubSeq(ps, r.idx + 1, Len(ps)) = <<>>
<1>1. Len(ps) \in Nat /\ r.idx = Len(ps) /\ r.own = TRUE /\ r.bad = FALSE /\ r.data = y
  <2>1. CASE transport = "usb"
    <3>1. ps = writeCommand(y) /\ r = readCommand(ps)
      BY <2>1 DEF Sent, Reading
    <3>2. r = [idx |-> Len(ps), own |-> TRUE, len |-> Len(y), data |-> y, bad |-> FALSE]
      BY <3>1, ReadOwn
    <3>3. Len(ps) \in Nat
      BY <3>1, Written
    <3>. QED
      BY <3>2, <3>3
  <2>2. CASE transport = "tcp"
    <3>1. ps = <<[own |-> TRUE, seq |-> 0, data |-> y]>> /\ r = tcpRead(ps)
      BY <2>2 DEF Sent, Reading, tcpWrite
    <3>. QED
      BY <3>1 DEF tcpRead
  <2>. QED
    BY <2>1, <2>2 DEF LinkTyped
<1>2. SubSeq(ps, r.idx + 1, Len(ps)) = <<>>
  <2>1. r.idx + 1 \in Int /\ Len(ps) \in Int /\ Len(ps) < r.idx + 1
    BY <1>1
  <2>. QED
    BY <2>1, SubSeqEmpty
<1>. QED
  BY <1>1, <1>2

\* What comes after the first i entries.
LEMMA RestIs ==
    ASSUME NEW S, NEW ps \in Seq(S), NEW i \in 1..Len(ps), NEW L, L = Len(ps),
           NEW rest, rest = SubSeq(ps, i + 1, L)
    PROVE  /\ rest \in Seq(S) /\ DOMAIN rest = 1..(L - i)
           /\ \A j \in 1..(L - i) : rest[j] = ps[i + j]
<1>1. PICK e : e = i + 1
  OBVIOUS
<1>2. e \in Int /\ L \in Int /\ i \in 1..L /\ \A j \in e..L : ps[j] \in S
  BY <1>1
<1>3. /\ rest \in Seq(S) /\ Len(rest) = IF e <= L THEN L - e + 1 ELSE 0
      /\ \A j \in 1..(L - e + 1) : rest[j] = ps[e + j - 1]
  <2>1. /\ SubSeq(ps, e, L) \in Seq(S)
        /\ Len(SubSeq(ps, e, L)) = IF e <= L THEN L - e + 1 ELSE 0
        /\ \A j \in 1..(L - e + 1) : SubSeq(ps, e, L)[j] = ps[e + j - 1]
    BY <1>2, SubSeqProperties
  <2>. QED
    BY <1>1, <2>1, Zenon
<1>4. (IF e <= L THEN L - e + 1 ELSE 0) = L - i
  BY <1>1, <1>2
<1>5. Len(rest) = L - i
  BY <1>3, <1>4, Zenon
<1>6. ASSUME NEW j \in 1..(L - i) PROVE rest[j] = ps[i + j]
  <2>1. j \in 1..(L - e + 1) /\ e + j - 1 = i + j
    BY <1>1, <1>2
  <2>2. rest[j] = ps[e + j - 1]
    BY <1>3, <2>1, Zenon
  <2>. QED
    BY <2>1, <2>2
<1>7. DOMAIN rest = 1..Len(rest)
  BY <1>3
<1>. QED
  BY <1>3, <1>5, <1>6, <1>7

\* The packets left unread, and whether one's own is among them.
RestOf(ps, r) == SubSeq(ps, r.idx + 1, Len(ps))
OwnIn(ps) == \E n \in DOMAIN ps : ps[n].own

\* With the first packet of a reply at b, not first in the inbox: what is taken
\* for one's own begins with one's own packet, and that reply is left unread.
LEMMA ReadBefore ==
    ASSUME NEW ps \in Seq(Packet), NEW b \in 2..Len(ps), ps[b].own = TRUE, ps[b].seq = 0,
           NEW r, r = readCommand(ps)
    PROVE  /\ RestOf(ps, r) \in Seq(Packet)
           /\ ~r.bad /\ r.own => ps[1].own /\ OwnIn(RestOf(ps, r))
<1>0. PICK rest : rest = SubSeq(ps, r.idx + 1, Len(ps))
  OBVIOUS
<1>1. Len(ps) \in Nat /\ Len(ps) >= 1
  OBVIOUS
<1>2. /\ r \in Progress /\ r.idx \in 1..Len(ps) /\ r.own = ps[1].own
      /\ ~r.bad => \A j \in 1..r.idx : ps[j].seq = j - 1
  BY <1>1, ReadAny
<1>3. PICK e, L : e = r.idx /\ L = Len(ps)
  OBVIOUS
<1>4. e \in 1..Len(ps) /\ L \in Nat /\ rest = SubSeq(ps, e + 1, L)
  BY <1>0, <1>1, <1>2, <1>3
<1>5. /\ rest \in Seq(Packet) /\ DOMAIN rest = 1..(L - e)
      /\ \A j \in 1..(L - e) : rest[j] = ps[e + j]
  BY <1>3, <1>4, RestIs, SMTT(30)
<1>6. ASSUME ~r.bad, r.own
      PROVE  ps[1].own /\ \E n \in DOMAIN rest : rest[n].own
  <2>1. e < b
    <3>1. e \in Nat /\ b \in Nat
      BY <1>4
    <3>2. ASSUME b <= e PROVE FALSE
      <4>1. b \in 1..r.idx /\ b - 1 # 0
        BY <1>3, <3>1, <3>2
      <4>2. ps[b].seq = b - 1
        BY <1>2, <1>6, <4>1
      <4>. QED
        BY <4>1, <4>2
    <3>. QED
      BY <3>1, <3>2
  <2>2. PICK n : n = b - e
    OBVIOUS
  <2>3. n \in 1..(L - e) /\ e + n = b
    BY <1>3, <1>4, <2>1, <2>2
  <2>4. rest[n] = ps[b] /\ n \in DOMAIN rest
    BY <1>5, <2>3
  <2>. QED
    BY <1>2, <1>6, <2>4
<1>. QED
  BY <1>0, <1>5, <1>6 DEF RestOf, OwnIn

\* So it is with anything in the inbox when a reply comes.
LEMMA ReadStale ==
    ASSUME NEW box \in Seq(Packet), box # <<>>, NEW y \in Seq(Nat), NEW ps,
           ps = box \o writeCommand(y), NEW r, r = readCommand(ps)
    PROVE  /\ RestOf(ps, r) \in Seq(Packet)
           /\ ~r.bad /\ r.own => OwnIn(box) /\ OwnIn(RestOf(ps, r))
<1>0. PICK w : w = writeCommand(y)
  OBVIOUS
<1>1. /\ w \in Seq(Packet) /\ Len(w) \in Nat /\ Len(w) >= 1
      /\ \A n \in 1..Len(w) : w[n].own = TRUE /\ w[n].seq = n - 1
  BY <1>0, Written
<1>2. Len(box) \in Nat /\ Len(box) >= 1
  OBVIOUS
<1>3. /\ ps \in Seq(Packet) /\ Len(ps) = Len(box) + Len(w)
      /\ \A n \in 1..Len(box) : ps[n] = box[n]
      /\ \A n \in 1..Len(w) : ps[Len(box) + n] = w[n]
  BY <1>0, <1>1, Concat
<1>4. PICK b : b = Len(box) + 1
  OBVIOUS
<1>5. b \in 2..Len(ps) /\ ps[b] = w[1] /\ w[1].own = TRUE /\ w[1].seq = 0
  BY <1>1, <1>2, <1>3, <1>4
<1>6. ps[b].own = TRUE /\ ps[b].seq = 0
  BY <1>5
<1>7. ps[1] = box[1] /\ 1 \in DOMAIN box
  BY <1>2, <1>3
<1>8. /\ RestOf(ps, r) \in Seq(Packet)
      /\ ~r.bad /\ r.own => ps[1].own /\ OwnIn(RestOf(ps, r))
  <2>1. ps \in Seq(Packet)
    BY <1>3
  <2>2. b \in 2..Len(ps)
    BY <1>5
  <2>. QED
    BY <1>6, <2>1, <2>2, ReadBefore, Zenon
<1>. QED
  BY <1>7, <1>8, Zenon DEF OwnIn

-----------------------------------------------------------------------------
(* The Ledger link: what the app makes of a command. *)

\* What the app answers, and knows after it, when it does as it is told.
Obeyed(said, told) ==
    /\ kind[cur] = "get" => said = KeyBytes(Path(cur))
    /\ kind[cur] = "sign" /\ part < Parts /\ (part > 0 => app = Halfway(cur, part))
         => told = Halfway(cur, part + 1)
    /\ kind[cur] = "sign" /\ part = Parts /\ app = Halfway(cur, part)
         => said = SigBytes(Path(cur), Message(cur))

\* The device refuses, or the app has done as it was told.
LEMMA ReplyIs ==
    ASSUME LinkTyped, cur \in Calls, kind[cur] \in {"get", "sign"},
           kind[cur] = "get" => part = 0,
           NEW reply \in Replies(Bytes(Command(kind[cur], cur, part)))
    PROVE  /\ reply.app \in AppType
           /\ \/ reply.packets = Sent(transport, RefusedStatus)
              \/ \E said \in Seq(Nat) :
                    /\ reply.packets = Sent(transport, said \o OkStatus)
                    /\ Obeyed(said, reply.app)
<1>1. PICK a, cmd : a = Command(kind[cur], cur, part) /\ cmd = Bytes(a)
  OBVIOUS
<1>2. /\ a.ins \in Nat /\ a.p1 \in Nat /\ a.data \in Seq(Nat) /\ Len(a.data) <= 255
      /\ kind[cur] = "get" => a.ins = insGetPublicKey /\ a.data = Path(cur)
      /\ kind[cur] = "sign" => a.ins = insSign
      /\ kind[cur] = "sign" /\ part = 0 => a.p1 = 0 /\ a.data = Path(cur)
      /\ kind[cur] = "sign" /\ part > 0 =>
            /\ a.p1 = IF part = Parts THEN p1Next + p1Last ELSE p1Next
            /\ SubSeq(Message(cur), 1, PartFrom(part)) \o a.data
                 = SubSeq(Message(cur), 1, PartUpto(part))
  <2>1. part \in 0..Parts
    BY DEF LinkTyped
  <2>2. RightCommand(a, kind[cur], cur, part)
    BY <1>1, <2>1, CommandIs
  <2>. QED
    BY <2>2, Zenon DEF RightCommand
<1>3. /\ cmd[1] = a.ins /\ cmd[2] = a.p1
      /\ SubSeq(cmd, 4, 3 + cmd[3]) = a.data
  BY <1>1, <1>2, BytesAre
<1>4. reply \in Replies(cmd)
  BY <1>1, Zenon
<1>5. PICK told : told = IF a.p1 = 0 THEN [path |-> a.data, data |-> <<>>]
                         ELSE [app EXCEPT !.data = @ \o a.data]
  OBVIOUS
<1>6. PICK said : said = IF a.ins = insGetPublicKey THEN KeyBytes(a.data)
                             ELSE IF a.p1 >= p1Last THEN SigBytes(told.path, told.data)
                             ELSE <<>>
  OBVIOUS
<1>7. PICK next : next = IF a.ins # insSign THEN app
                         ELSE IF a.p1 >= p1Last THEN Untold ELSE told
  OBVIOUS
<1>8. \/ reply = [app |-> next, packets |-> Sent(transport, said \o OkStatus)]
      \/ reply = [app |-> app, packets |-> Sent(transport, RefusedStatus)]
  BY <1>3, <1>4, <1>5, <1>6, <1>7, Zenon DEF Replies
<1>9. app.path \in Seq(Nat) /\ app.data \in Seq(Nat) /\ app \in AppType
      /\ app = [path |-> app.path, data |-> app.data]
  BY DEF LinkTyped, AppType
<1>10. a.p1 # 0 => told = [path |-> app.path, data |-> app.data \o a.data]
  BY <1>5, <1>9 DEF AppType
<1>11. told \in AppType
  <2>1. app.data \o a.data \in Seq(Nat)
    BY <1>2, <1>9, Concat
  <2>2. <<>> \in Seq(Nat)
    OBVIOUS
  <2>. QED
    BY <1>2, <1>5, <1>9, <1>10, <2>1, <2>2 DEF AppType
<1>12. next \in AppType
  <2>1. Untold \in AppType
    BY DEF Untold, AppType
  <2>. QED
    BY <1>7, <1>9, <1>11, <2>1
<1>13. said \in Seq(Nat)
  <2>1. KeyBytes(a.data) \in Seq(Nat)
    <3>1. <<2, 2>> \in Seq(Nat)
      OBVIOUS
    <3>. QED
      BY <1>2, <3>1, Concat DEF KeyBytes
  <2>2. told.path \in Seq(Nat) /\ told.data \in Seq(Nat)
    BY <1>11 DEF AppType
  <2>3. SigBytes(told.path, told.data) \in Seq(Nat)
    BY <2>2, Concat DEF SigBytes
  <2>4. <<>> \in Seq(Nat)
    OBVIOUS
  <2>. QED
    BY <1>6, <2>1, <2>3, <2>4
<1>14. Obeyed(said, next)
  <2>1. ASSUME kind[cur] = "get" PROVE said = KeyBytes(Path(cur))
    BY <1>2, <1>6, <2>1
  <2>2. ASSUME kind[cur] = "sign", part = 0 PROVE next = Halfway(cur, part + 1)
    <3>1. a.ins = insSign /\ ~(a.p1 >= p1Last) /\ a.p1 = 0 /\ a.data = Path(cur)
      BY <1>2, <2>2 DEF p1Last
    <3>2. next = [path |-> Path(cur), data |-> <<>>]
      BY <1>5, <1>7, <3>1
    <3>3. PartFrom(part + 1) = 0
      BY <2>2, LinkAssumption DEF PartFrom
    <3>4. SubSeq(Message(cur), 1, 0) = <<>>
      BY SubSeqEmpty
    <3>. QED
      BY <3>2, <3>3, <3>4 DEF Halfway
  <2>3. ASSUME kind[cur] = "sign", part > 0, app = Halfway(cur, part)
        PROVE  /\ part < Parts => next = Halfway(cur, part + 1)
               /\ part = Parts => said = SigBytes(Path(cur), Message(cur))
    <3>1. part \in 1..Parts
      BY <2>3 DEF LinkTyped
    <3>2. /\ a.ins = insSign /\ a.p1 # 0
          /\ a.p1 = IF part = Parts THEN p1Next + p1Last ELSE p1Next
          /\ a.p1 >= p1Last <=> part = Parts
      BY <1>2, <2>3 DEF p1Next, p1Last
    <3>3. app.path = Path(cur) /\ app.data = SubSeq(Message(cur), 1, PartFrom(part))
      BY <2>3 DEF Halfway
    <3>4. told = [path |-> Path(cur), data |-> SubSeq(Message(cur), 1, PartUpto(part))]
      BY <1>2, <1>10, <2>3, <3>2, <3>3
    <3>5. ASSUME part < Parts PROVE next = Halfway(cur, part + 1)
      <4>1. PartUpto(part) = PartFrom(part + 1)
        BY <3>1, <3>5, UptoIs
      <4>2. ~(part = Parts)
        BY <3>1, <3>5, PartsAre
      <4>3. next = told
        BY <1>7, <3>2, <4>2
      <4>. QED
        BY <3>4, <4>1, <4>3 DEF Halfway
    <3>6. ASSUME part = Parts PROVE said = SigBytes(Path(cur), Message(cur))
      <4>1. PartUpto(part) = MessageLength
        BY <3>1, <3>6, UptoIs
      <4>2. SubSeq(Message(cur), 1, MessageLength) = Message(cur)
        BY MessageIs, SubSeqFull
      <4>3. a.ins # insGetPublicKey
        BY <3>2 DEF insSign, insGetPublicKey
      <4>4. said = SigBytes(told.path, told.data)
        BY <1>6, <3>2, <3>6, <4>3
      <4>5. told.path = Path(cur) /\ told.data = Message(cur)
        BY <3>4, <4>1, <4>2
      <4>. QED
        BY <4>4, <4>5
    <3>. QED
      BY <3>5, <3>6
  <2>4. part = 0 => part < Parts /\ part # Parts
    BY PartsAre
  <2>5. part = 0 \/ part > 0
    BY PartsAre DEF LinkTyped
  <2>. QED
    BY <2>1, <2>2, <2>3, <2>4, <2>5 DEF Obeyed
<1>15. CASE reply = [app |-> next, packets |-> Sent(transport, said \o OkStatus)]
  BY <1>12, <1>13, <1>14, <1>15
<1>16. CASE reply = [app |-> app, packets |-> Sent(transport, RefusedStatus)]
  BY <1>9, <1>16
<1>. QED
  BY <1>8, <1>15, <1>16

\* A key is read back from its bytes.
LEMMA KeyParsed ==
    ASSUME NEW i \in Calls
    PROVE  parsePublicKey(KeyBytes(Path(i))) = Path(i)
<1>1. i \in Nat
  BY DEF Calls
<1> DEFINE h == <<2, 2>>
           p == <<i>>
<1>2. h \in Seq(Nat) /\ p \in Seq(Nat)
  BY <1>1
<1>3. /\ h[1] = 2 /\ h[2] = 2 /\ p[1] = i /\ Len(h) + Len(p) = 3 /\ Len(h) + 1 = 3
      /\ 1 \in 1..Len(h) /\ 2 \in 1..Len(h) /\ 1 \in 1..Len(p)
  OBVIOUS
<1>4. KeyBytes(Path(i)) = h \o p /\ Path(i) = p
  BY DEF KeyBytes, Path
<1> HIDE DEF h, p
<1>5. PICK d : d = h \o p
  OBVIOUS
<1>6. /\ d \in Seq(Nat) /\ Len(d) = Len(h) + Len(p)
      /\ \A n \in 1..Len(h) : d[n] = h[n]
      /\ \A n \in 1..Len(p) : d[Len(h) + n] = p[n]
  BY <1>2, <1>5, Concat
<1>7. Len(d) = 3 /\ d[1] = 2 /\ d[2] = 2 /\ d[3] = i
  BY <1>3, <1>6
<1>8. ~(Len(d) < 2) /\ ~(d[1] > Len(d) - 1 \/ d[2] # 2 \/ d[1] # 2) /\ d[1] + 1 = 3
  BY <1>7
<1>9. parsePublicKey(d) = SubSeq(d, 3, d[1] + 1)
  BY <1>8, Zenon DEF parsePublicKey
<1>10. PICK v : v = SubSeq(d, 3, 3)
  OBVIOUS
<1>11. v \in Seq(Nat) /\ Len(v) = 1 /\ v[1] = i
  <2>1. \A j \in 3..3 : d[j] \in Nat
    BY <1>1, <1>7
  <2>2. /\ SubSeq(d, 3, 3) \in Seq(Nat)
        /\ Len(SubSeq(d, 3, 3)) = IF 3 <= 3 THEN 3 - 3 + 1 ELSE 0
        /\ \A j \in 1..(3 - 3 + 1) : SubSeq(d, 3, 3)[j] = d[3 + j - 1]
    BY <2>1, SubSeqProperties
  <2>3. /\ v \in Seq(Nat) /\ Len(v) = IF 3 <= 3 THEN 3 - 3 + 1 ELSE 0
        /\ \A j \in 1..(3 - 3 + 1) : v[j] = d[3 + j - 1]
    BY <1>10, <2>2, Zenon
  <2>. QED
    BY <1>7, <2>3
<1>12. v = p
  <2>1. v = <<i>>
    BY <1>11
  <2>. QED
    BY <2>1 DEF p
<1>. QED
  BY <1>4, <1>5, <1>8, <1>9, <1>10, <1>12

\* So is a signature.
LEMMA SigParsed ==
    ASSUME NEW i \in Calls
    PROVE  parseSignature(SigBytes(Path(i), Message(i))) = SigBytes(Path(i), Message(i))
<1>1. Path(i) \in Seq(Nat) /\ Message(i) \in Seq(Nat)
  BY MessageIs
<1>2. Len(Path(i)) = 1 /\ Len(Message(i)) = MessageLength
  BY MessageIs
<1>3. Len(Path(i) \o Message(i)) = Len(Path(i)) + Len(Message(i))
  BY <1>1, Concat
<1>4. Len(SigBytes(Path(i), Message(i))) = 1 + MessageLength
  BY <1>2, <1>3, Zenon DEF SigBytes
<1>. QED
  BY <1>4 DEF parseSignature

\* The two ways a reply can end.
LEMMA Ended ==
    ASSUME NEW d \in Seq(Nat)
    PROVE  /\ d \o OkStatus \in Seq(Nat) /\ d \o RefusedStatus \in Seq(Nat)
           /\ parseAPDUResponse(d \o OkStatus) = [data |-> d, sw |-> OkStatus]
           /\ parseAPDUResponse(d \o RefusedStatus) = [data |-> d, sw |-> RefusedStatus]
<1>1. 144 \in Nat /\ 0 \in Nat /\ 105 \in Nat /\ 133 \in Nat
  OBVIOUS
<1>2. \A y, z \in Nat : /\ d \o <<y, z>> \in Seq(Nat)
                         /\ parseAPDUResponse(d \o <<y, z>>) = [data |-> d, sw |-> <<y, z>>]
  BY Parsed, Zenon
<1>3. /\ d \o <<144, 0>> \in Seq(Nat)
      /\ parseAPDUResponse(d \o <<144, 0>>) = [data |-> d, sw |-> <<144, 0>>]
  BY <1>1, <1>2, Zenon
<1>4. /\ d \o <<105, 133>> \in Seq(Nat)
      /\ parseAPDUResponse(d \o <<105, 133>>) = [data |-> d, sw |-> <<105, 133>>]
  BY <1>1, <1>2, Zenon
<1>. QED
  BY <1>3, <1>4, Zenon DEF OkStatus, RefusedStatus

\* What an exchange leaves unread, and what its result can be: without a
\* reply of one's own left unread before it, the device's answer.
Outcome(told, rest, taken) ==
    /\ rest \in Seq(Packet)
    /\ transport = "tcp" => rest = <<>>
    /\ taken # Nil => \/ OwnIn(inbox) /\ OwnIn(rest)
                    \/ \E said \in Seq(Nat) :
                          /\ inbox = <<>> /\ Obeyed(said, told)
                          /\ taken = Result([data |-> said, sw |-> OkStatus])

\* Every exchange has such an outcome.
LEMMA ExchangeIs ==
    ASSUME LinkTyped, cur \in Calls, kind[cur] \in {"get", "sign"},
           kind[cur] = "get" => part = 0,
           NEW reply \in Replies(Bytes(Command(kind[cur], cur, part))),
           NEW ps, ps = inbox \o reply.packets, NEW r, r = Reading(ps),
           NEW taken, taken = Result(Exchange(r))
    PROVE  Outcome(reply.app, RestOf(ps, r), taken)
<1>1. \/ reply.packets = Sent(transport, RefusedStatus)
      \/ \E said \in Seq(Nat) : /\ reply.packets = Sent(transport, said \o OkStatus)
                                  /\ Obeyed(said, reply.app)
  BY ReplyIs, Zenon
<1>2. PICK y \in Seq(Nat) : /\ reply.packets = Sent(transport, y)
                            /\ \/ y = <<>> \o RefusedStatus
                               \/ \E said \in Seq(Nat) : /\ y = said \o OkStatus
                                                           /\ Obeyed(said, reply.app)
  <2>1. RefusedStatus \in Seq(Nat) /\ RefusedStatus = <<>> \o RefusedStatus
    BY DEF RefusedStatus
  <2>2. \A said \in Seq(Nat) : said \o OkStatus \in Seq(Nat)
    BY Ended, Zenon
  <2>. QED
    BY <1>1, <2>1, <2>2, Zenon
<1>3. taken # Nil => ~r.bad /\ r.own /\ Exchange(r) # Nil /\ Exchange(r).sw = OkStatus
  BY Zenon DEF Result, Exchange
<1>4. CASE inbox = <<>>
  <2>1. ps = Sent(transport, y)
    <3>1. ps = <<>> \o Sent(transport, y)
      BY <1>2, <1>4
    <3>2. CASE transport = "usb"
      <4>1. writeCommand(y) \in Seq(Packet)
        BY Written
      <4>. QED
        BY <3>1, <3>2, <4>1 DEF Sent
    <3>3. CASE transport = "tcp"
      BY <3>1, <3>3 DEF Sent, tcpWrite
    <3>. QED
      BY <3>2, <3>3 DEF LinkTyped
  <2>2. r.own = TRUE /\ r.bad = FALSE /\ r.data = y /\ RestOf(ps, r) = <<>>
    BY <2>1, ReadAlone DEF RestOf
  <2>3. Exchange(r) = parseAPDUResponse(y)
    BY <2>2 DEF Exchange
  <2>4. ASSUME taken # Nil
        PROVE  \E said \in Seq(Nat) :
                   /\ inbox = <<>> /\ Obeyed(said, reply.app)
                   /\ taken = Result([data |-> said, sw |-> OkStatus])
    <3>1. y # <<>> \o RefusedStatus
      <4>1. parseAPDUResponse(<<>> \o RefusedStatus) = [data |-> <<>>, sw |-> RefusedStatus]
        <5>1. <<>> \in Seq(Nat)
          OBVIOUS
        <5>. QED
          BY <5>1, Ended, Zenon
      <4>2. RefusedStatus # OkStatus
        BY DEF RefusedStatus, OkStatus
      <4>. QED
        BY <1>3, <2>3, <2>4, <4>1, <4>2
    <3>2. PICK said \in Seq(Nat) : y = said \o OkStatus /\ Obeyed(said, reply.app)
      BY <1>2, <3>1
    <3>3. parseAPDUResponse(said \o OkStatus) = [data |-> said, sw |-> OkStatus]
      BY Ended, Zenon
    <3>. QED
      BY <1>4, <2>3, <3>2, <3>3
  <2>5. <<>> \in Seq(Packet)
    OBVIOUS
  <2>. QED
    BY <2>2, <2>4, <2>5, Zenon DEF Outcome
<1>5. CASE inbox # <<>>
  <2>1. transport = "usb" /\ inbox \in Seq(Packet)
    BY <1>5 DEF LinkTyped
  <2>2. ps = inbox \o writeCommand(y) /\ r = readCommand(ps)
    BY <1>2, <2>1 DEF Sent, Reading
  <2>3. /\ RestOf(ps, r) \in Seq(Packet)
        /\ ~r.bad /\ r.own => OwnIn(inbox) /\ OwnIn(RestOf(ps, r))
    BY <1>5, <2>1, <2>2, ReadStale, Zenon
  <2>. QED
    BY <1>3, <2>1, <2>3 DEF Outcome
<1>. QED
  BY <1>4, <1>5

-----------------------------------------------------------------------------
(* The Ledger link: its steps. *)

\* An answer that was right stays right: requests do not change.
LEMMA AnswerStays ==
    ASSUME OwnReply, UNCHANGED out, out # Nil => out.call \in 1..calls,
           \A i \in 1..calls : kind'[i] = kind[i]
    PROVE  OwnReply'
<1>1. ASSUME out # Nil PROVE Due(out.call)' = Due(out.call)
  BY <1>1 DEF Due
<1>. QED
  BY <1>1 DEF OwnReply

\* Steps that leave the link as it is.
LEMMA LinkStays ==
    ASSUME LinkInv, IInv', UNCHANGED linkVars, calls <= calls',
           \A i \in 1..calls : kind'[i] = kind[i],
           \/ worker' = worker /\ cur' = cur
           \/ worker # "use"
    PROVE  LinkInv'
<1>1. /\ LinkTyped /\ InParts /\ AppKnows /\ OwnReply
      /\ calls \in Nat /\ calls' \in Nat
      /\ worker = "use" => cur \in 1..calls
  BY DEF LinkInv, IInv, Owned, TypeOK
<1>2. UNCHANGED <<transport, inbox, part, app, out, others>>
  BY DEF linkVars
<1>3. LinkTyped'
  BY <1>1, <1>2 DEF LinkTyped
<1>4. InParts'
  <2>1. worker' # "use" => part' = 0
    BY <1>1, <1>2 DEF InParts
  <2>2. part' > 0 => kind'[cur'] = "sign"
    <3>1. ASSUME part' > 0 PROVE worker = "use"
      BY <1>1, <1>2, <3>1 DEF InParts
    <3>. QED
      BY <1>1, <1>2, <3>1 DEF InParts
  <2>3. out' # Nil => out'.call \in 1..calls'
    BY <1>1, <1>2 DEF InParts
  <2>. QED
    BY <2>1, <2>2, <2>3 DEF InParts
<1>5. AppKnows'
  <2>1. Unread' <=> Unread
    BY <1>2 DEF Unread
  <2>2. ASSUME worker' = "use", part' > 0 PROVE worker = "use" /\ cur' = cur
    BY <1>1, <1>2, <2>2 DEF InParts
  <2>3. ASSUME worker' = "use", part' > 0, ~Unread' PROVE app' = Halfway(cur', part')
    BY <1>1, <1>2, <2>1, <2>2, <2>3 DEF AppKnows
  <2>. QED
    BY <2>3 DEF AppKnows, Halfway, PartFrom, Path, Message
<1>6. OwnReply'
  BY <1>1, <1>2, AnswerStays DEF InParts
<1>. QED
  BY <1>3, <1>4, <1>5, <1>6 DEF LinkInv

\* Steps after which no part is under way.
LEMMA NoParts ==
    ASSUME LinkInv, IInv', UNCHANGED <<transport, calls, kind>>, part' = 0,
           inbox' \in Seq(Packet), transport = "tcp" => inbox' = <<>>, app' \in AppType,
           out' # Nil => out'.call \in 1..calls, OwnReply'
    PROVE  LinkInv'
<1>1. LinkTyped'
  <2>1. 0 \in 0..Parts
    BY PartsAre
  <2>. QED
    BY <2>1 DEF LinkInv, LinkTyped
<1>2. InParts'
  BY DEF InParts
<1>3. AppKnows'
  BY DEF AppKnows
<1>. QED
  BY <1>1, <1>2, <1>3 DEF LinkInv

\* A request taken: its predecessor's answer is no more to be looked at.
LEMMA LinkTakeKeeps ==
    ASSUME LinkInv, IInv', Take, out' = Nil, UNCHANGED <<transport, inbox, part, app, others>>
    PROVE  LinkInv'
<1>1. worker = "select" /\ part = 0 /\ UNCHANGED <<calls, kind>>
  BY DEF Take, LinkInv, InParts, callerVars
<1>2. OwnReply'
  BY DEF OwnReply
<1>. QED
  BY <1>1, <1>2, NoParts DEF LinkInv, LinkTyped

\* A device opened anew: nothing is in the inbox.
LEMMA openPathKeeps ==
    ASSUME LinkInv, IInv', openPath
    PROVE  LinkInv'
<1>1. /\ worker = "open" /\ part = 0 /\ UNCHANGED <<calls, kind, out>>
      /\ inbox' = <<>> /\ UNCHANGED <<transport, part, app>>
  BY DEF openPath, OpenDev, LinkInv, InParts, callerVars
<1>2. out # Nil => out.call \in 1..calls
  BY DEF LinkInv, InParts
<1>3. OwnReply'
  BY <1>1, <1>2, AnswerStays DEF LinkInv
<1>4. <<>> \in Seq(Packet)
  OBVIOUS
<1>. QED
  BY <1>1, <1>2, <1>3, <1>4, NoParts DEF LinkInv, LinkTyped

\* A packet for another process.
LEMMA LinkOtherKeeps ==
    ASSUME LinkInv, IInv', Other
    PROVE  LinkInv'
<1>1. /\ transport = "usb" /\ worker = "use"
      /\ UNCHANGED <<worker, cur, calls, kind, transport, part, app, out>>
  BY DEF Other, vars
<1>2. PICK seq \in 0..1 :
         inbox' = Append(inbox, writePacket(FALSE, seq, <<0, 2>> \o OkStatus, 0))
  BY DEF Other
<1>3. PICK p : p = writePacket(FALSE, seq, <<0, 2>> \o OkStatus, 0)
  OBVIOUS
<1>4. p \in Packet /\ p.own = FALSE
  <2> DEFINE b == <<0, 2>> \o OkStatus
             d == [n \in 1..chunkSize |-> IF 0 + n <= Len(b) THEN b[0 + n] ELSE 0]
  <2>1. p = [own |-> FALSE, seq |-> seq, data |-> d]
    BY <1>3 DEF writePacket
  <2>2. b \in Seq(Nat)
    <3>1. <<0, 2>> \in Seq(Nat)
      OBVIOUS
    <3>. QED
      BY <3>1, Ended
  <2> HIDE DEF b
  <2>3. chunkSize \in Nat
    BY LinkAssumption
  <2>4. d \in [1..chunkSize -> Nat]
    BY <2>2, <2>3
  <2> HIDE DEF d
  <2>. QED
    BY <2>1, <2>4 DEF Packet
<1>5. inbox \in Seq(Packet) /\ inbox' = Append(inbox, p)
  BY <1>2, <1>3 DEF LinkInv, LinkTyped
<1>6. inbox' \in Seq(Packet) /\ (Unread => Unread')
  <2>1. /\ inbox' \in Seq(Packet) /\ DOMAIN inbox \subseteq DOMAIN inbox'
        /\ \A n \in DOMAIN inbox : inbox'[n] = inbox[n]
    BY <1>4, <1>5
  <2>. QED
    BY <2>1 DEF Unread
<1>7. LinkTyped' /\ InParts'
  BY <1>1, <1>6 DEF LinkInv, LinkTyped, InParts
<1>8. AppKnows'
  BY <1>1, <1>6 DEF LinkInv, AppKnows, Halfway, PartFrom, Path, Message
<1>9. OwnReply'
  BY <1>1, AnswerStays DEF LinkInv, InParts
<1>. QED
  BY <1>7, <1>8, <1>9 DEF LinkInv

\* An error ends the exchange.
LEMMA FailsKeeps ==
    ASSUME LinkInv, IInv', NEW rest \in Seq(Packet), transport = "tcp" => rest = <<>>,
           Fails(rest), app' \in AppType
    PROVE  LinkInv'
<1>1. /\ UNCHANGED <<calls, kind, transport, out>> /\ part' = 0 /\ inbox' = rest
  BY DEF Fails, UseFails, callerVars
<1>2. out # Nil => out.call \in 1..calls
  BY DEF LinkInv, InParts
<1>3. OwnReply'
  BY <1>1, <1>2, AnswerStays DEF LinkInv
<1>. QED
  BY <1>1, <1>2, <1>3, NoParts

\* An exchange with the device.
LEMMA LinkUseKeeps ==
    ASSUME LinkInv, IInv', Use
    PROVE  LinkInv'
<1>1. /\ worker = "use" /\ cur \in 1..calls /\ cur \in Calls /\ kind[cur] \in {"get", "sign"}
      /\ kind[cur] = "get" => part = 0
      /\ LinkTyped /\ InParts /\ AppKnows /\ OwnReply /\ part \in 0..Parts
      /\ UNCHANGED <<calls, kind>>
  <2>1. worker = "use" /\ UNCHANGED <<calls, kind>> /\ LinkTyped /\ InParts
        /\ AppKnows /\ OwnReply
    BY Zenon DEF Use, LinkInv, callerVars
  <2>2. cur \in 1..calls /\ cur \in Calls /\ kind[cur] \in {"get", "sign"}
    <3>1. cur \in 1..calls
      BY <2>1 DEF LinkInv, IInv, Owned
    <3>2. calls \in 0..MaxCalls /\ kind \in [Calls -> {"get", "sign"}] /\ MaxCalls \in Nat
      BY LedgerAssumption DEF LinkInv, IInv, TypeOK
    <3>3. cur \in Calls
      BY <3>1, <3>2 DEF Calls
    <3>. QED
      BY <3>1, <3>2, <3>3
  <2>3. part \in 0..Parts /\ (part = 0 \/ part > 0)
    BY <2>1, PartsAre DEF LinkTyped
  <2>. QED
    BY <2>1, <2>2, <2>3 DEF InParts
<1>2. PICK reply \in Replies(Bytes(Command(kind[cur], cur, part))) :
      \E ps \in {inbox \o reply.packets} : \E r \in {Reading(ps)} :
      \E taken \in {Result(Exchange(r))} :
         app' = reply.app /\ Replied(taken, SubSeq(ps, r.idx + 1, Len(ps)))
  <2>1. Told[transport][kind[cur]][cur][part] = Bytes(Command(kind[cur], cur, part))
    BY <1>1, ToldIs, Zenon DEF LinkTyped
  <2>. QED
    BY <2>1, Zenon DEF Use
<1>3. PICK ps, r, taken : /\ ps = inbox \o reply.packets /\ r = Reading(ps)
                        /\ taken = Result(Exchange(r))
                        /\ app' = reply.app /\ Replied(taken, RestOf(ps, r))
  BY <1>2, Zenon DEF RestOf
<1>4. PICK rest : rest = RestOf(ps, r)
  OBVIOUS
<1>5. /\ rest \in Seq(Packet)
      /\ transport = "tcp" => rest = <<>>
      /\ taken # Nil =>
            \/ OwnIn(inbox) /\ OwnIn(rest)
            \/ \E said \in Seq(Nat) :
                  /\ inbox = <<>> /\ Obeyed(said, reply.app)
                  /\ taken = Result([data |-> said, sw |-> OkStatus])
  <2>1. Outcome(reply.app, RestOf(ps, r), taken)
    BY <1>1, <1>3, ExchangeIs, Zenon
  <2>. QED
    BY <1>4, <2>1, Zenon DEF Outcome
<1>6. app' \in AppType
  BY <1>1, <1>3, ReplyIs, Zenon
<1>7. Replied(taken, rest)
  BY <1>3, <1>4
<1> HIDE <1>2
<1>8. inbox = <<>> => ~Unread
  BY DEF Unread
<1>9. CASE taken = Nil /\ Fails(rest)
  BY <1>5, <1>6, <1>9, FailsKeeps
<1>10. CASE /\ taken # Nil /\ More
            /\ part' = part + 1 /\ inbox' = rest
            /\ UNCHANGED <<vars, transport, out, others>>
  <2>1. /\ kind[cur] = "sign" /\ part < Parts /\ UNCHANGED <<worker, cur>>
        /\ part' = part + 1 /\ inbox' = rest /\ UNCHANGED <<transport, out>>
    BY <1>10, Zenon DEF More, vars
  <2>2. LinkTyped'
    <3>1. part + 1 \in 0..Parts
      BY <1>1, <2>1, PartsAre
    <3>. QED
      BY <1>1, <1>5, <1>6, <2>1, <3>1 DEF LinkTyped
  <2>3. InParts'
    BY <1>1, <2>1 DEF InParts
  <2>4. AppKnows'
    <3>1. ASSUME ~Unread' PROVE app' = Halfway(cur, part + 1)
      <4>1. ~OwnIn(rest)
        BY <2>1, <3>1 DEF Unread, OwnIn
      <4>2. PICK said \in Seq(Nat) : inbox = <<>> /\ Obeyed(said, reply.app)
        BY <1>5, <1>10, <4>1
      <4>3. part > 0 => app = Halfway(cur, part)
        BY <1>1, <1>8, <4>2 DEF AppKnows
      <4>4. reply.app = Halfway(cur, part + 1)
        BY <2>1, <4>2, <4>3 DEF Obeyed
      <4>. QED
        BY <1>3, <4>4
    <3>2. Halfway(cur', part') = Halfway(cur, part + 1)
      BY <2>1
    <3>. QED
      BY <2>1, <3>1, <3>2 DEF AppKnows
  <2>5. OwnReply'
    BY <1>1, <2>1, AnswerStays DEF InParts
  <2>. QED
    BY <2>2, <2>3, <2>4, <2>5 DEF LinkInv
<1>11. CASE /\ taken # Nil /\ ~More
            /\ UseDev
            /\ out' = [call |-> cur, is |-> taken, after |-> Unread]
            /\ part' = 0 /\ inbox' = rest
            /\ UNCHANGED <<transport, others>>
  <2>1. /\ part' = 0 /\ inbox' = rest /\ UNCHANGED transport
        /\ out'.call = cur /\ out'.is = taken /\ out'.after = Unread
    BY <1>11
  <2>2. ASSUME ~Unread PROVE taken = Due(cur)
    <3>1. ~OwnIn(inbox)
      BY <2>2 DEF Unread, OwnIn
    <3>2. PICK said \in Seq(Nat) : /\ inbox = <<>> /\ Obeyed(said, reply.app)
                                     /\ taken = Result([data |-> said, sw |-> OkStatus])
      BY <1>5, <1>11, <3>1
    <3>3. PICK res : res = [data |-> said, sw |-> OkStatus]
      OBVIOUS
    <3>4. res.data = said /\ res.sw = OkStatus
      BY <3>3
    <3>5. taken = Result(res) /\ taken # Nil
      BY <1>11, <3>2, <3>3, Zenon
    <3>6. CASE kind[cur] = "get"
      <4>1. taken = parsePublicKey(res.data)
        BY <3>5, <3>6, Zenon DEF Result
      <4>2. said = KeyBytes(Path(cur))
        BY <3>2, <3>6 DEF Obeyed
      <4>3. parsePublicKey(KeyBytes(Path(cur))) = Path(cur)
        BY <1>1, KeyParsed
      <4>. QED
        BY <3>4, <3>6, <4>1, <4>2, <4>3 DEF Due
    <3>7. CASE kind[cur] = "sign"
      <4>1. part = Parts /\ part > 0
        BY <1>1, <1>11, <3>7, PartsAre DEF More
      <4>2. app = Halfway(cur, part)
        BY <1>1, <2>2, <4>1 DEF AppKnows
      <4>3. said = SigBytes(Path(cur), Message(cur))
        BY <3>2, <3>7, <4>1, <4>2 DEF Obeyed
      <4>4. taken = parseSignature(res.data)
        BY <3>5, <3>7, <4>1 DEF Result
      <4>5. parseSignature(SigBytes(Path(cur), Message(cur))) = SigBytes(Path(cur), Message(cur))
        BY <1>1, SigParsed
      <4>. QED
        BY <3>4, <3>7, <4>3, <4>4, <4>5 DEF Due
    <3>. QED
      BY <1>1, <3>6, <3>7
  <2>3. OwnReply'
    <3>1. Due(cur)' = Due(cur') /\ \A i \in 1..calls : kind'[i] = kind[i]
      BY <1>1 DEF Due
    <3>2. ASSUME ~out'.after PROVE out'.is = (IF kind'[out'.call] = "get" THEN Path(out'.call)
                                 ELSE SigBytes(Path(out'.call), Message(out'.call)))
      BY <1>1, <2>1, <2>2, <3>2 DEF Due
    <3>. QED
      BY <3>2 DEF OwnReply, Due, Path, Message, SigBytes
  <2>4. out' # Nil => out'.call \in 1..calls
    BY <1>1, <2>1
  <2>. QED
    BY <1>1, <1>5, <1>6, <2>1, <2>3, <2>4, NoParts
<1>. QED
  BY <1>7, <1>9, <1>10, <1>11, Zenon DEF Replied

\* The link begins with its invariant.
LEMMA LinkInitHolds == LinkInit => LinkInv
<1>. SUFFICES ASSUME LinkInit PROVE LinkInv
  OBVIOUS
<1>1. IInv /\ worker = "select"
  BY InitHolds DEF LinkInit, Init
<1>2. LinkTyped
  <2>1. 0 \in 0..Parts
    BY PartsAre
  <2>2. app \in AppType
    BY DEF LinkInit, AppType
  <2>. QED
    BY <2>1, <2>2 DEF LinkInit, LinkTyped
<1>3. InParts /\ AppKnows /\ OwnReply
  BY <1>1 DEF LinkInit, InParts, AppKnows, OwnReply
<1>. QED
  BY <1>1, <1>2, <1>3 DEF LinkInv

\* Every step of the exchange preserves the invariant.
LEMMA LinkNextKeeps == LinkInv /\ [LinkNext]_allVars => LinkInv'
<1>. SUFFICES ASSUME LinkInv, [LinkNext]_allVars PROVE LinkInv'
  OBVIOUS
<1>1. IInv'
  BY LinkStep, NextKeeps DEF LinkInv
<1>2. CASE Use
  BY <1>1, <1>2, LinkUseKeeps
<1>3. CASE Gone
  <2>1. Fails(inbox) /\ UNCHANGED app
    BY <1>3 DEF Gone
  <2>. QED
    BY <1>1, <2>1, FailsKeeps DEF LinkInv, LinkTyped
<1>4. CASE openPath
  BY <1>1, <1>4, openPathKeeps
<1>5. CASE Other
  BY <1>1, <1>5, LinkOtherKeeps
<1>6. CASE Take /\ out' = Nil /\ UNCHANGED <<transport, inbox, part, app, others>>
  BY <1>1, <1>6, LinkTakeKeeps
<1>7. CASE (KeepDev \/ CloseIdle) /\ UNCHANGED linkVars
  <2>1. worker # "use" /\ UNCHANGED <<calls, kind>> /\ UNCHANGED linkVars
    BY <1>7 DEF KeepDev, CloseIdle, callerVars
  <2>2. calls <= calls'
    BY <2>1 DEF LinkInv, IInv, TypeOK
  <2>. QED
    BY <1>1, <2>1, <2>2, LinkStays
<1>8. CASE /\ \/ \E c \in Callers :
                     \/ \E k \in {"get", "sign"} : Call(c, k)
                     \/ Send(c)
                     \/ Receive(c)
                     \/ GiveUp(c)
              \/ Expire
              \/ DeviceReset
           /\ UNCHANGED linkVars
  <2>1. calls \in Nat /\ calls \in 0..MaxCalls /\ kind \in [Calls -> {"get", "sign"}]
    BY LedgerAssumption DEF LinkInv, IInv, TypeOK
  <2>2. ASSUME NEW c \in Callers, NEW k \in {"get", "sign"}, Call(c, k)
        PROVE  /\ UNCHANGED <<worker, cur>> /\ calls <= calls'
               /\ \A i \in 1..calls : kind'[i] = kind[i]
    BY <2>1, <2>2 DEF Call, Calls
  <2>3. ASSUME NEW c \in Callers, Send(c) \/ Receive(c) \/ GiveUp(c)
        PROVE  UNCHANGED <<worker, cur, calls, kind>>
    BY <2>3 DEF Send, Receive, GiveUp, Return
  <2>4. ASSUME Expire \/ DeviceReset
        PROVE  UNCHANGED <<worker, cur, calls, kind>>
    BY <2>4 DEF Expire, DeviceReset, callerVars
  <2>5. /\ UNCHANGED <<worker, cur>> /\ calls <= calls'
        /\ \A i \in 1..calls : kind'[i] = kind[i]
    BY <1>8, <2>1, <2>2, <2>3, <2>4
  <2>. QED
    BY <1>1, <1>8, <2>5, LinkStays
<1>9. CASE UNCHANGED allVars
  <2>1. UNCHANGED linkVars /\ UNCHANGED <<worker, cur, calls, kind>>
    BY <1>9 DEF allVars, vars
  <2>2. calls <= calls'
    BY <2>1 DEF LinkInv, IInv, TypeOK
  <2>. QED
    BY <1>1, <2>1, <2>2, LinkStays
<1>. QED
  BY <1>2, <1>3, <1>4, <1>5, <1>6, <1>7, <1>8, <1>9 DEF LinkNext, LinkWork

\* A key or a signature handed out is the one that was asked for: of the key
\* at the request's path, and over the whole of the request's message, cut
\* into parts by App.Sign (tezosapp), into packets by writeCommand (usbhid.go)
\* and put together again by readCommand, for any sizes of messages,
\* parts and packets, whatever other processes do with the device and however
\* often it is lost and opened again.  (OwnReply excepts the replies taken from
\* a handle with an unread reply in it.)
THEOREM LedgerOwnReply == LinkSpec => []OwnReply
<1>1. LinkInv => OwnReply
  BY DEF LinkInv
<1>. QED
  BY LinkInitHolds, LinkNextKeeps, <1>1, PTL DEF LinkSpec

-----------------------------------------------------------------------------
(* Sequences. *)

\* No entry is there twice.
OnceOnly(s) == \A m, n \in DOMAIN s : s[m] = s[n] => m = n

\* Appending to a sequence.
LEMMA Appended ==
    ASSUME NEW A, NEW s \in Seq(A), NEW e \in A
    PROVE  /\ Append(s, e) \in Seq(A)
           /\ Range(Append(s, e)) = Range(s) \cup {e}
           /\ OnceOnly(s) /\ e \notin Range(s) => OnceOnly(Append(s, e))
<1> DEFINE t == Append(s, e)
<1>1. /\ t \in Seq(A) /\ Len(t) = Len(s) + 1 /\ DOMAIN t = 1..Len(t) /\ DOMAIN s = 1..Len(s)
      /\ \A n \in 1..Len(s) : t[n] = s[n]
      /\ t[Len(s) + 1] = e
      /\ Len(s) \in Nat
  OBVIOUS
<1> HIDE DEF t
<1>2. Range(t) = Range(s) \cup {e}
  BY <1>1 DEF Range
<1>3. ASSUME OnceOnly(s), e \notin Range(s) PROVE OnceOnly(t)
  BY <1>1, <1>3 DEF OnceOnly, Range
<1>. QED
  BY <1>1, <1>2, <1>3 DEF t

\* f[n] is what Only makes of the first n entries.
Filters(f, s, S) ==
    /\ f[0] = <<>> /\ Only(s, S) = f[Len(s)]
    /\ \A n \in 1..Len(s) : f[n] = IF s[n] \in S THEN Append(f[n - 1], s[n]) ELSE f[n - 1]

\* Only goes along its sequence, entry by entry.
LEMMA OnlyEquation ==
    ASSUME NEW A, NEW s \in Seq(A), NEW S
    PROVE  \E f \in [0..Len(s) -> Seq(A)] : Filters(f, s, S)
<1>1. SUFFICES ASSUME NEW N \in Nat, N = Len(s), NEW none \in Seq(A), none = <<>>,
                      NEW step \in [1..N -> [Seq(A) -> Seq(A)]],
                      \A n \in 1..N : \A q \in Seq(A) :
                          step[n][q] = IF s[n] \in S THEN Append(q, s[n]) ELSE q
               PROVE  \E f \in [0..N -> Seq(A)] : Filters(f, s, S)
  <2> DEFINE step == [n \in 1..Len(s) |->
                         [q \in Seq(A) |-> IF s[n] \in S THEN Append(q, s[n]) ELSE q]]
  <2>1. Len(s) \in Nat /\ <<>> \in Seq(A) /\ step \in [1..Len(s) -> [Seq(A) -> Seq(A)]]
    OBVIOUS
  <2>2. \A n \in 1..Len(s) : \A q \in Seq(A) :
           step[n][q] = IF s[n] \in S THEN Append(q, s[n]) ELSE q
    OBVIOUS
  <2> HIDE DEF step
  <2>. QED
    BY <1>1, <2>1, <2>2, Zenon
<1>2. PICK f \in [0..N -> Seq(A)] : f[0] = none /\ \A n \in 1..N : f[n] = step[n][f[n - 1]]
  <2>1. \E f \in [0..N -> Seq(A)] : Made(f, N, none, step)
    BY <1>1, Computed
  <2>. QED
    BY <2>1, Zenon DEF Made
<1>3. ASSUME NEW n \in 1..N
      PROVE  /\ f[n] = IF s[n] \in S THEN Append(f[n - 1], s[n]) ELSE f[n - 1]
             /\ f[n - 1] \in Seq(A)
  <2>1. n - 1 \in 0..N
    OBVIOUS
  <2>2. f[n - 1] \in Seq(A)
    BY <1>2, <2>1
  <2>. QED
    BY <1>1, <1>2, <2>2, Zenon
<1> DEFINE Rec(g) == [n \in 0..N |-> IF n = 0 THEN <<>>
                                     ELSE IF s[n] \in S THEN Append(g[n - 1], s[n])
                                     ELSE g[n - 1]]
           h == CHOOSE g : g = Rec(g)
<1>4. f = Rec(f)
  <2> DEFINE R == Rec(f)
  <2>1. DOMAIN f = 0..N /\ DOMAIN R = 0..N /\ f = [n \in 0..N |-> f[n]]
    BY <1>2
  <2>2. ASSUME NEW n \in 0..N PROVE f[n] = R[n]
    <3>1. CASE n = 0
      BY <1>2, <3>1, <1>1
    <3>2. CASE n # 0
      <4>1. n \in 1..N
        BY <3>2
      <4>2. R[n] = IF s[n] \in S THEN Append(f[n - 1], s[n]) ELSE f[n - 1]
        BY <3>2
      <4> HIDE DEF R
      <4>. QED
        BY <1>3, <4>1, <4>2, Zenon
    <3>. QED
      BY <3>1, <3>2
  <2>3. R = [n \in 0..N |-> R[n]]
    OBVIOUS
  <2> HIDE DEF R
  <2>4. f = R
    BY <2>1, <2>2, <2>3
  <2>. QED
    BY <2>4 DEF R
<1>5. Only(s, S) = h[N]
  BY <1>1, Zenon DEF Only
<1>6. h = Rec(h)
  BY <1>4, Zenon
<1> HIDE DEF h
<1>7. ASSUME NEW n \in 0..N
      PROVE  h[n] = IF n = 0 THEN <<>>
                    ELSE IF s[n] \in S THEN Append(h[n - 1], s[n]) ELSE h[n - 1]
  <2>1. Rec(h)[n] = IF n = 0 THEN <<>>
                    ELSE IF s[n] \in S THEN Append(h[n - 1], s[n]) ELSE h[n - 1]
    OBVIOUS
  <2> HIDE DEF Rec
  <2>. QED
    BY <1>6, <2>1, Zenon
<1>8. \A n \in 0..N : h[n] = f[n]
  <2> DEFINE P == {n \in 0..N : h[n] = f[n]}
  <2>1. 0 \in P
    BY <1>1, <1>2, <1>7
  <2>2. ASSUME NEW n \in 1..N, n - 1 \in P PROVE n \in P
    <3>1. n \in 0..N /\ n # 0 /\ h[n - 1] = f[n - 1]
      BY <2>2
    <3>2. h[n] = IF s[n] \in S THEN Append(h[n - 1], s[n]) ELSE h[n - 1]
      BY <1>7, <3>1, Zenon
    <3>3. f[n] = IF s[n] \in S THEN Append(f[n - 1], s[n]) ELSE f[n - 1]
      BY <1>3, Zenon
    <3>4. h[n] = f[n]
      BY <3>1, <3>2, <3>3
    <3>. QED
      BY <3>1, <3>4
  <2>3. 0..N \subseteq P
    <3> HIDE DEF P
    <3>. QED
      BY <2>1, <2>2, UpTo
  <2>. QED
    BY <2>3
<1>9. Only(s, S) = f[N]
  BY <1>5, <1>8
<1>10. f[0] = <<>>
  BY <1>1, <1>2
<1>11. Filters(f, s, S)
  BY <1>1, <1>3, <1>9, <1>10, Zenon DEF Filters
<1>. QED
  BY <1>2, <1>11

\* Only keeps the entries that are in S and no other, each as often as it was.
LEMMA OnlyFacts ==
    ASSUME NEW A, NEW s \in Seq(A), NEW S, OnceOnly(s)
    PROVE  /\ Only(s, S) \in Seq(A)
           /\ Range(Only(s, S)) = Range(s) \cap S
           /\ OnceOnly(Only(s, S))
<1> DEFINE N == Len(s)
<1>0. PICK f \in [0..Len(s) -> Seq(A)] : Filters(f, s, S)
  BY OnlyEquation
<1>1. /\ f \in [0..N -> Seq(A)] /\ f[0] = <<>> /\ Only(s, S) = f[N]
      /\ \A n \in 1..N : f[n] = IF s[n] \in S THEN Append(f[n - 1], s[n]) ELSE f[n - 1]
  BY <1>0, Zenon DEF Filters
<1> DEFINE Good(n) == Range(f[n]) = {s[i] : i \in 1..n} \cap S /\ OnceOnly(f[n])
           P == {n \in 0..N : Good(n)}
<1>2. N \in Nat /\ DOMAIN s = 1..N
  OBVIOUS
<1>3. Good(0)
  <2>1. Range(<<>>) = {} /\ OnceOnly(<<>>)
    BY DEF Range, OnceOnly
  <2>2. {s[i] : i \in 1..0} = {}
    OBVIOUS
  <2>. QED
    BY <1>1, <2>1, <2>2
<1>4. ASSUME NEW n \in 1..N, Good(n - 1) PROVE Good(n)
  <2> DEFINE q == f[n - 1]
  <2>1. /\ q \in Seq(A) /\ s[n] \in A
        /\ Range(q) = {s[i] : i \in 1..(n - 1)} \cap S /\ OnceOnly(q)
    BY <1>1, <1>2, <1>4
  <2>2. {s[i] : i \in 1..n} = {s[i] : i \in 1..(n - 1)} \cup {s[n]}
    BY <1>2
  <2>3. s[n] \notin {s[i] : i \in 1..(n - 1)}
    BY <1>2 DEF OnceOnly
  <2>4. f[n] = IF s[n] \in S THEN Append(q, s[n]) ELSE q
    BY <1>1
  <2> HIDE DEF q
  <2>5. CASE s[n] \in S
    <3>1. f[n] = Append(q, s[n]) /\ s[n] \notin Range(q)
      BY <2>1, <2>3, <2>4, <2>5
    <3>2. Range(f[n]) = Range(q) \cup {s[n]} /\ OnceOnly(f[n])
      BY <2>1, <3>1, Appended
    <3>. QED
      BY <2>1, <2>2, <2>5, <3>2
  <2>6. CASE s[n] \notin S
    BY <2>1, <2>2, <2>4, <2>6
  <2>. QED
    BY <2>5, <2>6
<1>5. 0..N \subseteq P
  <2>1. 0 \in P /\ \A n \in 1..N : n - 1 \in P => n \in P
    <3> HIDE DEF Good, N
    <3>. QED
      BY <1>2, <1>3, <1>4
  <2> HIDE DEF P, N
  <2>. QED
    BY <1>2, <2>1, UpTo
<1>6. Good(N)
  BY <1>2, <1>5
<1>7. {s[i] : i \in 1..N} = Range(s)
  BY <1>2 DEF Range
<1>. QED
  BY <1>1, <1>2, <1>6, <1>7

\* Putting two sequences together.
LEMMA Joined ==
    ASSUME NEW A, NEW s \in Seq(A), NEW t \in Seq(A)
    PROVE  /\ s \o t \in Seq(A)
           /\ Range(s \o t) = Range(s) \cup Range(t)
           /\ OnceOnly(s) /\ OnceOnly(t) /\ Range(s) \cap Range(t) = {} => OnceOnly(s \o t)
<1> DEFINE u == s \o t
<1>1. /\ u \in Seq(A) /\ Len(u) = Len(s) + Len(t) /\ Len(s) \in Nat /\ Len(t) \in Nat
      /\ DOMAIN u = 1..Len(u) /\ DOMAIN s = 1..Len(s) /\ DOMAIN t = 1..Len(t)
      /\ \A n \in 1..Len(s) : u[n] = s[n]
      /\ \A n \in (Len(s) + 1)..(Len(s) + Len(t)) : u[n] = t[n - Len(s)]
  OBVIOUS
<1> HIDE DEF u
<1>2. \A n \in 1..Len(t) : u[Len(s) + n] = t[n] /\ Len(s) + n \in 1..Len(u)
  BY <1>1
<1>3. \A n \in 1..Len(u) : n \in 1..Len(s) \/ n - Len(s) \in 1..Len(t)
  BY <1>1
<1>4. \A n \in 1..Len(u) : n - Len(s) \in 1..Len(t) => u[n] = t[n - Len(s)]
  BY <1>1
<1>5. Range(u) = Range(s) \cup Range(t)
  <2>1. Range(s) = {s[n] : n \in 1..Len(s)} /\ Range(t) = {t[n] : n \in 1..Len(t)}
        /\ Range(u) = {u[n] : n \in 1..Len(u)}
    BY <1>1 DEF Range
  <2>2. Range(u) \subseteq Range(s) \cup Range(t)
    BY <1>1, <1>3, <1>4, <2>1
  <2>3. Range(s) \subseteq Range(u)
    <3>1. \A n \in 1..Len(s) : n \in 1..Len(u)
      BY <1>1
    <3>. QED
      BY <1>1, <2>1, <3>1
  <2>4. Range(t) \subseteq Range(u)
    BY <1>2, <2>1
  <2>. QED
    BY <2>2, <2>3, <2>4
<1>6. ASSUME OnceOnly(s), OnceOnly(t), Range(s) \cap Range(t) = {},
             NEW m \in DOMAIN u, NEW n \in DOMAIN u, u[m] = u[n]
      PROVE  m = n
  <2>1. \A i \in 1..Len(s), j \in 1..Len(t) : s[i] # t[j]
    BY <1>1, <1>6 DEF Range
  <2>2. m \in Nat /\ n \in Nat /\ m \in 1..Len(u) /\ n \in 1..Len(u)
    BY <1>1
  <2>3. CASE m \in 1..Len(s) /\ n \in 1..Len(s)
    BY <1>1, <1>6, <2>3 DEF OnceOnly
  <2>4. CASE m - Len(s) \in 1..Len(t) /\ n - Len(s) \in 1..Len(t)
    <3>1. t[m - Len(s)] = t[n - Len(s)]
      BY <1>4, <1>6, <2>2, <2>4
    <3>2. m - Len(s) = n - Len(s)
      BY <1>1, <1>6, <2>4, <3>1 DEF OnceOnly
    <3>. QED
      BY <1>1, <2>2, <3>2
  <2>5. CASE m \in 1..Len(s) /\ n - Len(s) \in 1..Len(t)
    BY <1>1, <1>4, <1>6, <2>1, <2>2, <2>5
  <2>6. CASE n \in 1..Len(s) /\ m - Len(s) \in 1..Len(t)
    BY <1>1, <1>4, <1>6, <2>1, <2>2, <2>6
  <2>. QED
    BY <1>3, <2>2, <2>3, <2>4, <2>5, <2>6
<1>7. OnceOnly(s) /\ OnceOnly(t) /\ Range(s) \cap Range(t) = {} => OnceOnly(u)
  BY <1>6 DEF OnceOnly
<1>. QED
  BY <1>1, <1>5, <1>7 DEF u

\* f[n] is what FlattenSeq makes of the first n sequences.
Flattens(f, ps) ==
    /\ f[0] = <<>> /\ FlattenSeq(ps) = f[Len(ps)]
    /\ \A n \in 1..Len(ps) : f[n] = f[n - 1] \o ps[n]

\* FlattenSeq puts its sequences together one by one.
LEMMA FlattenEquation ==
    ASSUME NEW A, NEW ps \in Seq(Seq(A))
    PROVE  \E f \in [0..Len(ps) -> Seq(A)] : Flattens(f, ps)
<1>1. SUFFICES ASSUME NEW N \in Nat, N = Len(ps), NEW none \in Seq(A), none = <<>>,
                      NEW step \in [1..N -> [Seq(A) -> Seq(A)]],
                      \A n \in 1..N : \A q \in Seq(A) : step[n][q] = q \o ps[n]
               PROVE  \E f \in [0..N -> Seq(A)] : Flattens(f, ps)
  <2> DEFINE step == [n \in 1..Len(ps) |-> [q \in Seq(A) |-> q \o ps[n]]]
  <2>0. ASSUME NEW n \in 1..Len(ps), NEW q \in Seq(A) PROVE q \o ps[n] \in Seq(A)
    <3>1. ps[n] \in Seq(A)
      OBVIOUS
    <3>. QED
      BY <3>1
  <2>1. Len(ps) \in Nat /\ <<>> \in Seq(A) /\ step \in [1..Len(ps) -> [Seq(A) -> Seq(A)]]
    BY <2>0
  <2>2. \A n \in 1..Len(ps) : \A q \in Seq(A) : step[n][q] = q \o ps[n]
    OBVIOUS
  <2> HIDE DEF step
  <2>. QED
    BY <1>1, <2>1, <2>2, Zenon
<1>2. PICK f \in [0..N -> Seq(A)] : Made(f, N, none, step)
  BY <1>1, Computed
<1>3. ASSUME NEW n \in 1..N PROVE f[n] = f[n - 1] \o ps[n] /\ f[n - 1] \in Seq(A)
  <2>1. n - 1 \in 0..N
    OBVIOUS
  <2>2. f[n - 1] \in Seq(A)
    BY <1>2, <2>1
  <2>3. f[n] = step[n][f[n - 1]]
    BY <1>2, Zenon DEF Made
  <2>. QED
    BY <1>1, <2>2, <2>3, Zenon
<1>4. f[0] = <<>>
  BY <1>1, <1>2 DEF Made
<1>5. CASE N = 0
  <2>1. Len(ps) = 0 /\ ps = <<>>
    BY <1>1, <1>5, EmptySeq
  <2>1a. FlattenSeq(ps) = ps
    BY <2>1, Zenon DEF FlattenSeq
  <2>2. Flattens(f, ps)
    BY <1>1, <1>3, <1>4, <1>5, <2>1, <2>1a DEF Flattens
  <2>. QED
    BY <1>2, <2>2
<1>6. CASE N # 0
  <2> DEFINE Rec(g) == [i \in 1..N |-> IF i = 1 THEN ps[i] ELSE g[i - 1] \o ps[i]]
             h == CHOOSE g : g = Rec(g)
             e == [i \in 1..N |-> f[i]]
  <2>1. f[1] = ps[1]
    <3>1. 1 \in 1..N /\ ps[1] \in Seq(A) /\ 1 - 1 = 0
      BY <1>1, <1>6
    <3>2. f[1] = f[1 - 1] \o ps[1]
      BY <1>3, <3>1
    <3>3. f[1] = <<>> \o ps[1]
      BY <1>4, <3>1, <3>2
    <3>. QED
      BY <3>1, <3>3
  <2>2. e = Rec(e)
    <3> DEFINE R == Rec(e)
    <3>1. ASSUME NEW n \in 1..N PROVE f[n] = R[n]
      <4>1. CASE n = 1
        BY <2>1, <4>1
      <4>2. CASE n # 1
        <5>1. n - 1 \in 1..N
          BY <4>2
        <5>2. R[n] = e[n - 1] \o ps[n] /\ e[n - 1] = f[n - 1]
          BY <4>2, <5>1
        <5> HIDE DEF R, e
        <5>. QED
          BY <1>3, <5>2, Zenon
      <4>. QED
        BY <4>1, <4>2
    <3>2. R = [n \in 1..N |-> R[n]]
      OBVIOUS
    <3> HIDE DEF R
    <3>3. e = R
      BY <3>1, <3>2
    <3>. QED
      BY <3>3 DEF R
  <2>3. FlattenSeq(ps) = h[N]
    BY <1>1, <1>6, Zenon DEF FlattenSeq
  <2> HIDE DEF e
  <2>4. h = Rec(h)
    BY <2>2, Zenon
  <2> HIDE DEF h
  <2>5. ASSUME NEW n \in 1..N
        PROVE  h[n] = IF n = 1 THEN ps[n] ELSE h[n - 1] \o ps[n]
    <3>1. Rec(h)[n] = IF n = 1 THEN ps[n] ELSE h[n - 1] \o ps[n]
      OBVIOUS
    <3> HIDE DEF Rec
    <3>. QED
      BY <2>4, <3>1, Zenon
  <2>6. \A n \in 1..N : h[n] = f[n]
    <3> DEFINE P == {n \in 0..N : n > 0 => h[n] = f[n]}
    <3>1. 0 \in P
      OBVIOUS
    <3>2. ASSUME NEW n \in 1..N, n - 1 \in P PROVE n \in P
      <4>1. CASE n = 1
        <5>1. h[n] = f[n]
          BY <2>1, <2>5, <4>1, <1>6
        <5>. QED
          BY <5>1
      <4>2. CASE n # 1
        <5>1. n - 1 > 0 /\ h[n - 1] = f[n - 1]
          BY <3>2, <4>2
        <5>2. h[n] = h[n - 1] \o ps[n]
          BY <2>5, <4>2, Zenon
        <5>3. h[n] = f[n]
          BY <1>3, <5>1, <5>2, Zenon
        <5>. QED
          BY <5>3
      <4>. QED
        BY <4>1, <4>2
    <3>3. 0..N \subseteq P
      <4> HIDE DEF P
      <4>. QED
        BY <3>1, <3>2, UpTo
    <3>. QED
      BY <3>3
  <2>7. FlattenSeq(ps) = f[N]
    BY <1>6, <2>3, <2>6
  <2>8. Flattens(f, ps)
    BY <1>1, <1>3, <1>4, <2>7, Zenon DEF Flattens
  <2>. QED
    BY <1>2, <2>8
<1>. QED
  BY <1>5, <1>6

\* FlattenSeq has the entries of all the sequences, each once if no two are
\* the same.
LEMMA FlattenFacts ==
    ASSUME NEW A, NEW ps \in Seq(Seq(A)), Distinct(ps)
    PROVE  /\ FlattenSeq(ps) \in Seq(A)
           /\ Range(FlattenSeq(ps)) = UNION {Range(ps[p]) : p \in DOMAIN ps}
           /\ OnceOnly(FlattenSeq(ps))
<1> DEFINE N == Len(ps)
           In(n) == UNION {Range(ps[p]) : p \in 1..n}
<1>1. PICK f \in [0..Len(ps) -> Seq(A)] : Flattens(f, ps)
  BY FlattenEquation
<1>2. /\ f \in [0..N -> Seq(A)] /\ f[0] = <<>> /\ FlattenSeq(ps) = f[N]
      /\ \A n \in 1..N : f[n] = f[n - 1] \o ps[n]
  BY <1>1, Zenon DEF Flattens
<1>3. N \in Nat /\ DOMAIN ps = 1..N /\ \A n \in 1..N : ps[n] \in Seq(A)
  OBVIOUS
<1> DEFINE Good(n) == Range(f[n]) = In(n) /\ OnceOnly(f[n])
           P == {n \in 0..N : Good(n)}
<1>4. Good(0)
  <2>1. Range(<<>>) = {} /\ OnceOnly(<<>>)
    BY DEF Range, OnceOnly
  <2>2. In(0) = {}
    OBVIOUS
  <2>. QED
    BY <1>2, <2>1, <2>2
<1> HIDE DEF N
<1>5. ASSUME NEW n \in 1..N, Good(n - 1) PROVE Good(n)
  <2>1. f[n - 1] \in Seq(A) /\ ps[n] \in Seq(A) /\ f[n] = f[n - 1] \o ps[n]
    <3>1. n - 1 \in 0..N
      BY <1>3
    <3>2. f[n - 1] \in Seq(A)
      BY <1>2, <3>1
    <3>. QED
      BY <1>2, <1>3, <3>2, Zenon
  <2>2. In(n) = In(n - 1) \cup Range(ps[n])
    <3>1. \A p : p \in 1..n <=> p \in 1..(n - 1) \/ p = n
      BY <1>3
    <3>. QED
      BY <3>1
  <2>3. OnceOnly(ps[n]) /\ In(n - 1) \cap Range(ps[n]) = {}
    <3>1. OnceOnly(ps[n])
      BY <1>3 DEF Distinct, OnceOnly
    <3>2. ASSUME NEW p \in 1..(n - 1), NEW i \in DOMAIN ps[p], NEW j \in DOMAIN ps[n]
          PROVE  ps[p][i] # ps[n][j]
      <4>1. p # n /\ p \in DOMAIN ps /\ n \in DOMAIN ps
        BY <1>3
      <4>. QED
        BY <4>1, Zenon DEF Distinct
    <3>. QED
      BY <3>1, <3>2 DEF Range
  <2> HIDE DEF In
  <2>4. Range(f[n]) = Range(f[n - 1]) \cup Range(ps[n]) /\ OnceOnly(f[n])
    BY <1>5, <2>1, <2>3, Joined
  <2>. QED
    BY <1>5, <2>2, <2>4
<1>6. 0..N \subseteq P
  <2>1. 0 \in P /\ \A n \in 1..N : n - 1 \in P => n \in P
    <3> HIDE DEF Good
    <3>. QED
      BY <1>3, <1>4, <1>5
  <2> HIDE DEF P
  <2>. QED
    BY <1>3, <2>1, UpTo
<1>7. Good(N)
  <2> HIDE DEF Good
  <2>. QED
    BY <1>3, <1>6
<1>8. In(N) = UNION {Range(ps[p]) : p \in DOMAIN ps}
  BY <1>3
<1>9. f[N] \in Seq(A)
  BY <1>2, <1>3
<1> HIDE DEF In
<1>. QED
  BY <1>2, <1>7, <1>8, <1>9

-----------------------------------------------------------------------------
(* The vaults: the inductive invariant. *)

\* The vaults whose iterators ask for page after page.
Paged == {"aws", "azure", "cloudkms"}

\* The vaults whose iterators go along a list that was read before.
AtOnce == {"hashicorp", "yubi", "pkcs11", "memory"}

\* The entries a listing in pages has left behind.
Passed(p, n) == p < it.page \/ (p = it.page /\ n <= it.idx)

\* A listing in pages keeps its place: what it has passed is collected, if it
\* was usable all along, and what is to come is not.
Paging ==
    task = "list" /\ backend \in Paged /\ ~partial /\ WellPaged =>
        /\ it.page \in 0..Len(pages)
        /\ it.idx <= IF it.page = 0 THEN 0 ELSE Len(pages[it.page])
        /\ backend = "cloudkms" => (it.open <=> it.page > 0)
        /\ \A p \in DOMAIN pages : \A n \in DOMAIN pages[p] :
              IF Passed(p, n) THEN pages[p][n] \in steady => pages[p][n] \in Range(got)
              ELSE pages[p][n] \notin Range(got)

\* The list that is gone along.
TheList == IF backend = "pkcs11" THEN vkeys ELSE it.list

\* A listing of keys that were read at once keeps its place too.
Along ==
    task = "list" /\ backend \in AtOnce =>
        IF TheList = Unset
        THEN it.idx = 0 /\ got = <<>> /\ backend \in {"hashicorp", "yubi"}
        ELSE /\ it.idx <= Len(TheList)
             /\ OnceOnly(TheList)
             /\ steady \subseteq Range(TheList)
             /\ \A n \in DOMAIN TheList :
                   IF n <= it.idx THEN TheList[n] \in steady => TheList[n] \in Range(got)
                   ELSE TheList[n] \notin Range(got)
             /\ backend = "yubi" => \A n \in DOMAIN TheList : status[TheList[n]] # "foreign"

\* Keys of a service that count as steady are usable; nothing is listed twice.
Steady ==
    task = "list" =>
        /\ backend \notin {"pkcs11", "memory"} => steady \subseteq Usable
        /\ ~partial /\ WellPaged => OnceOnly(got)

\* What is where: no key is in two places, and the imported key is new.
Store ==
    /\ Distinct(pages)
    /\ OnceOnly(vkeys)
    /\ Imported \in Range(vkeys) => acked
    /\ backend = "cloudkms" => \A p \in DOMAIN pages : OnePurpose(p)
    /\ task = "closed" => Imported \notin Listed /\ ~acked

\* An import under way has not been acknowledged, and its key is not there yet.
Importing ==
    task = "import" =>
        /\ ~acked /\ answer = "none" /\ Imported \notin Listed
        /\ stage \in IF backend = "cloudkms"
                     THEN {"key", "job", "pending job", "active job", "expired job"}
                     ELSE {"put"}

\* A signature under way: the attempts made so far are within the limit, and a
\* request to HashiCorp Vault without a token follows a login that failed.
SignUnderWay ==
    task = "sign" =>
        /\ stage \in {"login", "request", "backoff"}
        /\ stage = "backoff" => backend = "cloudkms" /\ tries < getMaxRetries
        /\ backend = "cloudkms" => tries <= getMaxRetries
        /\ backend = "hashicorp" /\ stage = "request" /\ ~token => "permanent" \in hurt

\* The inductive invariant of the vaults.
VInv ==
    /\ VaultsTypeOK
    /\ Paging /\ Along /\ Steady
    /\ Store /\ Importing /\ SignUnderWay
    /\ ListingComplete /\ FailsForAReason

-----------------------------------------------------------------------------
(* The vaults: what a step leaves alone. *)

\* Nothing is listed: an operation of another kind, or its answer.
LEMMA NotListing ==
    ASSUME task' # "list", answer' # ErrDone
    PROVE  Paging' /\ Along' /\ Steady' /\ ListingComplete'
BY DEF Paging, Along, Steady, ListingComplete

\* The keys stay where they are.
LEMMA StoreStays ==
    ASSUME VInv, UNCHANGED <<backend, pages, status, vkeys, acked>>, task' # "closed"
    PROVE  Store'
BY DEF VInv, Store, Listed, OnePurpose, Signing, Distinct, OnceOnly

\* No import goes on.
LEMMA NotImporting ==
    ASSUME task' # "import"
    PROVE  Importing'
BY DEF Importing

\* No signature is made and none has failed.
LEMMA NotSigning ==
    ASSUME task' # "sign", answer' # "no signature"
    PROVE  SignUnderWay' /\ FailsForAReason'
BY DEF SignUnderWay, FailsForAReason

\* The results of an iterator are told apart from keys and from each other.
LEMMA Results ==
    /\ AllKeys \cap {Again, ErrDone, ErrKey, Error, Panic} = {}
    /\ Again # ErrDone /\ Again # Error /\ Again # Panic /\ Again # ErrKey
    /\ ErrDone # Error /\ ErrDone # Panic /\ ErrDone # ErrKey
    /\ Error # Panic /\ Error # ErrKey /\ Panic # ErrKey
    /\ ErrDone # "no signature" /\ Error # "no signature" /\ Panic # "no signature"
    /\ ErrDone # "imported" /\ ErrDone # "signature" /\ ErrDone # "none"
BY VaultsAssumption DEF Again, ErrDone, ErrKey, Error, Panic

\* The limit on attempts is a number, whatever the configuration says.
LEMMA RetriesNat ==
    ASSUME VaultsTypeOK
    PROVE  getMaxRetries \in Nat
<1>1. defaultMaxRetries \in Nat /\ maxAllowedRetries \in Nat
  BY VaultsAssumption
<1>2. retries # Unset => retries \in Int
  BY DEF VaultsTypeOK
<1>. QED
  BY <1>1, <1>2 DEF getMaxRetries

\* Operations and faults are counted.
Counting == UNCHANGED count \/ \E e \in {"ops", "faults"}, max \in {MaxOps, MaxFaults} : Bump(e, max)

\* The counters stay numbers.
LEMMA Counted ==
    ASSUME VaultsTypeOK, Counting
    PROVE  count' \in [{"ops", "faults"} -> Nat]
<1>1. count \in [{"ops", "faults"} -> Nat]
  BY DEF VaultsTypeOK
<1>2. ASSUME NEW e \in {"ops", "faults"}, count' = [count EXCEPT ![e] = @ + 1]
      PROVE  count' \in [{"ops", "faults"} -> Nat]
  <2>1. count[e] + 1 \in Nat
    BY <1>1
  <2>. QED
    BY <1>1, <1>2, <2>1
<1>. QED
  BY <1>1, <1>2, Zenon DEF Counting, Bump

-----------------------------------------------------------------------------
(* The vaults: signatures. *)

\* A signature begins.
LEMMA SignKeeps ==
    ASSUME VInv, Sign
    PROVE  VInv'
<1>1. /\ task' = "sign" /\ answer' = "none" /\ hurt' = {} /\ ended' = FALSE /\ tries' = 0
      /\ stage' = IF backend = "hashicorp" THEN "login" ELSE "request"
      /\ Counting
      /\ UNCHANGED <<backend, pages, status, vkeys, token, retries, it, got, steady, partial, acked>>
  BY DEF Sign, Begin, Counting
<1>2. VaultsTypeOK'
  <2>1. count' \in [{"ops", "faults"} -> Nat]
    BY <1>1, Counted DEF VInv
  <2>. QED
    BY <1>1, <2>1 DEF VInv, VaultsTypeOK
<1>3. Paging' /\ Along' /\ Steady' /\ ListingComplete'
  BY <1>1, NotListing, Results
<1>4. Store' /\ Importing'
  BY <1>1, StoreStays, NotImporting
<1>5. SignUnderWay'
  <2>1. getMaxRetries' = getMaxRetries /\ getMaxRetries \in Nat
    BY <1>1, RetriesNat DEF VInv, getMaxRetries
  <2>. QED
    BY <1>1, <2>1 DEF SignUnderWay
<1>6. FailsForAReason'
  BY <1>1 DEF FailsForAReason
<1>. QED
  BY <1>2, <1>3, <1>4, <1>5, <1>6 DEF VInv

\* The HashiCorp vault logs in before a request, or fails to.
LEMMA LoginKeeps ==
    ASSUME VInv, login \/ LoginFails
    PROVE  VInv'
<1>1. /\ task = "sign" /\ task' = "sign" /\ stage = "login" /\ stage' = "request"
      /\ token' \/ (token' = token /\ hurt' = hurt \cup {"permanent"})
      /\ token' \in BOOLEAN
      /\ hurt' \in {hurt, hurt \cup {"permanent"}}
      /\ Counting
      /\ UNCHANGED <<backend, pages, status, vkeys, retries, it, got, tries, ended,
                   answer, steady, partial, acked>>
  BY DEF login, LoginFails, Counting, VInv, VaultsTypeOK
<1>2. VaultsTypeOK'
  <2>1. count' \in [{"ops", "faults"} -> Nat]
    BY <1>1, Counted DEF VInv
  <2>. QED
    BY <1>1, <2>1 DEF VInv, VaultsTypeOK
<1>3. Paging' /\ Along' /\ Steady' /\ ListingComplete'
  BY <1>1 DEF Paging, Along, Steady, ListingComplete
<1>4. Store' /\ Importing'
  BY <1>1, StoreStays, NotImporting
<1>5. SignUnderWay'
  <2>1. getMaxRetries' = getMaxRetries
    BY <1>1 DEF getMaxRetries
  <2>. QED
    BY <1>1, <2>1 DEF VInv, SignUnderWay
<1>6. FailsForAReason'
  BY <1>1 DEF FailsForAReason
<1>. QED
  BY <1>2, <1>3, <1>4, <1>5, <1>6 DEF VInv

\* What is done with an answer to a request.
LEMMA SignWithIs ==
    ASSUME VInv, NEW o, NEW n
    PROVE  SignWith(o, n) = IF backend = "cloudkms" THEN cloudkmsSign(o, n) ELSE Once(o)
BY VaultsAssumption DEF VInv, VaultsTypeOK, SignWith, awsSign, azureSign, hashicorpSign, yubiSign,
      pkcs11Sign, memorySign

\* The answer o to a request to sign, and what the vault does on it.
LEMMA RequestedKeeps ==
    ASSUME VInv, NEW o \in {"ok", "retryable", "permanent"}, Requested(o),
           hurt' \in {hurt, hurt \cup {o}},
           o # "ok" => ended \/ "permanent" \in hurt \/ hurt' = hurt \cup {o},
           hurt' \subseteq {"retryable", "permanent"},
           Counting
    PROVE  VInv'
<1>1. /\ task = "sign" /\ stage = "request"
      /\ \/ SignWith(o, tries) \in {"return", "fail"} /\ task' = "idle" /\ UNCHANGED stage
            /\ answer' = IF SignWith(o, tries) = "return" THEN "signature" ELSE "no signature"
         \/ SignWith(o, tries) = "wait" /\ stage' = "backoff" /\ UNCHANGED <<task, answer>>
      /\ UNCHANGED <<backend, pages, status, vkeys, token, retries, it, got, tries, ended, steady,
                   partial, acked>>
  BY DEF Requested, Finish
<1>2. getMaxRetries' = getMaxRetries /\ getMaxRetries \in Nat /\ tries \in Nat
  BY <1>1, RetriesNat DEF VInv, VaultsTypeOK, getMaxRetries
<1>3. VaultsTypeOK'
  <2>1. count' \in [{"ops", "faults"} -> Nat]
    BY Counted DEF VInv
  <2>. QED
    BY <1>1, <2>1, ZenonT(30) DEF VInv, VaultsTypeOK
<1>4. Paging' /\ Along' /\ Steady' /\ ListingComplete'
  BY <1>1, Results DEF Paging, Along, Steady, ListingComplete
<1>5. Store' /\ Importing'
  BY <1>1, StoreStays, NotImporting
<1>6. SignWith(o, tries) = IF backend = "cloudkms" THEN cloudkmsSign(o, tries) ELSE Once(o)
  BY SignWithIs
<1>7. SignUnderWay'
  <2>1. SignWith(o, tries) = "wait" => backend = "cloudkms" /\ tries < getMaxRetries
    BY <1>6 DEF cloudkmsSign, Once
  <2>. QED
    BY <1>1, <1>2, <2>1 DEF VInv, SignUnderWay
<1>8. FailsForAReason'
  <2>1. CASE SignWith(o, tries) = "fail"
    <3>1. o # "ok"
      BY <1>6, <2>1 DEF cloudkmsSign, Once
    <3>2. o = "retryable" /\ backend = "cloudkms" /\ ~ended => tries = getMaxRetries
      <4>1. ASSUME o = "retryable", backend = "cloudkms", ~ended PROVE ~(tries < getMaxRetries)
        BY <1>6, <2>1, <4>1, Zenon DEF cloudkmsSign, isRetryableError
      <4>2. backend = "cloudkms" => tries <= getMaxRetries
        BY <1>1 DEF VInv, SignUnderWay
      <4>. QED
        BY <1>2, <4>1, <4>2
    <3>. QED
      BY <1>1, <1>2, <3>1, <3>2 DEF FailsForAReason
  <2>2. CASE SignWith(o, tries) # "fail"
    BY <1>1, <2>2 DEF FailsForAReason
  <2>. QED
    BY <2>1, <2>2
<1>. QED
  BY <1>3, <1>4, <1>5, <1>7, <1>8 DEF VInv

\* The requests to sign.
LEMMA RequestKeeps ==
    ASSUME VInv,
           \/ SignAnswered \/ SignRefused
           \/ \E o \in {"retryable", "permanent"} : SignFails(o) \/ SignEnded(o)
    PROVE  VInv'
<1>1. hurt \subseteq {"retryable", "permanent"}
  BY DEF VInv, VaultsTypeOK
<1>2. CASE SignAnswered
  BY <1>1, <1>2, RequestedKeeps DEF SignAnswered, Counting
<1>3. CASE SignRefused
  <2>1. "permanent" \in hurt
    BY <1>3 DEF SignRefused, Requested, VInv, SignUnderWay
  <2>. QED
    BY <1>1, <1>3, <2>1, RequestedKeeps DEF SignRefused, Counting
<1>4. ASSUME NEW o \in {"retryable", "permanent"}, SignFails(o)
      PROVE  VInv'
  BY <1>1, <1>4, RequestedKeeps DEF SignFails, Counting
<1>5. ASSUME NEW o \in {"retryable", "permanent"}, SignEnded(o)
      PROVE  VInv'
  BY <1>1, <1>5, RequestedKeeps DEF SignEnded, Counting
<1>. QED
  BY <1>2, <1>3, <1>4, <1>5

\* The Cloud KMS vault waits before its next attempt; a context ends.
LEMMA BackoffKeeps ==
    ASSUME VInv, Backoff \/ ContextEnds
    PROVE  VInv'
<1>1. /\ task = "sign"
      /\ \/ stage = "backoff" /\ stage' = "request" /\ tries' = tries + 1 /\ UNCHANGED <<task, answer, ended>>
         \/ ended /\ task' = "idle" /\ answer' = "no signature" /\ UNCHANGED <<stage, tries, ended>>
         \/ ended' = TRUE /\ UNCHANGED <<task, answer, stage, tries>>
      /\ Counting
      /\ UNCHANGED <<backend, pages, status, vkeys, token, retries, it, got, steady, partial,
                   hurt, acked>>
  BY DEF Backoff, ContextEnds, Counting, Finish
<1>2. getMaxRetries' = getMaxRetries /\ getMaxRetries \in Nat /\ tries \in Nat
  BY <1>1, RetriesNat DEF VInv, VaultsTypeOK, getMaxRetries
<1>3. VaultsTypeOK'
  <2>1. count' \in [{"ops", "faults"} -> Nat]
    BY <1>1, Counted DEF VInv
  <2>2. tries' = tries + 1 \/ tries' = tries
    BY <1>1, Zenon
  <2>3. tries' \in Nat
    BY <1>2, <2>2
  <2>4. /\ task' \in {"closed", "idle", "list", "import", "sign"}
        /\ stage' \in {"none", "put", "key", "job", "pending job", "active job", "expired job",
                       "login", "request", "backoff"}
        /\ answer' \in {"none", ErrDone, Error, Panic, "imported", "signature", "no signature"}
        /\ ended' \in BOOLEAN
    <3>1. /\ task' \in {"idle", "sign"} /\ stage' \in {stage, "request"}
          /\ answer' \in {answer, "no signature"} /\ ended' \in BOOLEAN
      BY <1>1 DEF VInv, VaultsTypeOK
    <3>. QED
      BY <3>1 DEF VInv, VaultsTypeOK
  <2>5. UNCHANGED <<backend, pages, status, vkeys, token, retries, it, got, steady, partial,
                   hurt, acked>>
    BY <1>1
  <2>. QED
    BY <2>1, <2>3, <2>4, <2>5 DEF VInv, VaultsTypeOK
<1>4. Paging' /\ Along' /\ Steady' /\ ListingComplete'
  BY <1>1, Results DEF Paging, Along, Steady, ListingComplete
<1>5. Store' /\ Importing'
  BY <1>1, StoreStays, NotImporting
<1>6. SignUnderWay' /\ FailsForAReason'
  <2>1. stage = "backoff" => tries + 1 <= getMaxRetries /\ backend = "cloudkms"
    <3>1. stage = "backoff" => tries < getMaxRetries /\ backend = "cloudkms"
      BY <1>1, Zenon DEF VInv, SignUnderWay
    <3>. QED
      BY <1>2, <3>1
  <2>2. CASE stage = "backoff" /\ stage' = "request" /\ tries' = tries + 1 /\ UNCHANGED <<task, answer, ended>>
    BY <1>1, <1>2, <2>1, <2>2 DEF VInv, SignUnderWay, FailsForAReason
  <2>3. CASE ended /\ task' = "idle" /\ answer' = "no signature" /\ UNCHANGED <<stage, tries, ended>>
    BY <1>1, <1>2, <2>3 DEF VInv, SignUnderWay, FailsForAReason
  <2>4. CASE ended' = TRUE /\ UNCHANGED <<task, answer, stage, tries>>
    BY <1>1, <1>2, <2>4 DEF VInv, SignUnderWay, FailsForAReason
  <2>. QED
    BY <1>1, <2>2, <2>3, <2>4
<1>. QED
  BY <1>3, <1>4, <1>5, <1>6 DEF VInv

\* Entries of pages are keys.
LEMMA PageFacts ==
    ASSUME VaultsTypeOK
    PROVE  /\ DOMAIN pages = 1..Len(pages) /\ Len(pages) \in Nat
           /\ \A p \in DOMAIN pages :
                 /\ pages[p] \in Seq(AllKeys)
                 /\ Len(pages[p]) \in Nat /\ DOMAIN pages[p] = 1..Len(pages[p])
                 /\ \A n \in DOMAIN pages[p] : pages[p][n] \in AllKeys /\ pages[p][n] \in Listed
                 /\ Range(pages[p]) \subseteq AllKeys
           /\ Listed \subseteq AllKeys
           /\ \A k \in Listed : \E p \in DOMAIN pages : \E n \in DOMAIN pages[p] : pages[p][n] = k
<1>1. pages \in Seq(Seq(AllKeys))
  BY DEF VaultsTypeOK
<1>2. DOMAIN pages = 1..Len(pages) /\ Len(pages) \in Nat
  BY <1>1
<1>3. ASSUME NEW p \in DOMAIN pages
      PROVE  /\ pages[p] \in Seq(AllKeys)
             /\ Len(pages[p]) \in Nat /\ DOMAIN pages[p] = 1..Len(pages[p])
             /\ \A n \in DOMAIN pages[p] : pages[p][n] \in AllKeys
  <2>1. pages[p] \in Seq(AllKeys)
    BY <1>1
  <2>. QED
    BY <2>1
<1>4. \A p \in DOMAIN pages : Range(pages[p]) = {pages[p][n] : n \in DOMAIN pages[p]}
  BY DEF Range
<1>5. Listed = UNION {Range(pages[p]) : p \in DOMAIN pages}
  BY DEF Listed
<1>6. \A p \in DOMAIN pages : Range(pages[p]) \subseteq AllKeys
  BY <1>3, <1>4
<1>7. Listed \subseteq AllKeys
  BY <1>5, <1>6
<1>8. \A p \in DOMAIN pages : \A n \in DOMAIN pages[p] : pages[p][n] \in Listed
  BY <1>4, <1>5
<1>9. \A k \in Listed : \E p \in DOMAIN pages : \E n \in DOMAIN pages[p] : pages[p][n] = k
  BY <1>4, <1>5
<1>. QED
  BY <1>2, <1>3, <1>6, <1>7, <1>8, <1>9

-----------------------------------------------------------------------------
(* The vaults: the service. *)

\* A step of the service: keys are disabled or enabled, which no
\* operation sees before its next request.
LEMMA ServiceKeeps ==
    ASSUME VInv,
           UNCHANGED <<backend, pages, vkeys, retries, task, it, got, stage, tries, ended,
                       answer, partial, hurt, acked>>,
           token' \in BOOLEAN, task = "sign" => token' = token,
           status' \in [AllKeys -> Statuses], steady' \subseteq steady, Counting,
           \A k \in AllKeys : status'[k] = "foreign" <=> status[k] = "foreign",
           task = "list" /\ backend \notin {"pkcs11", "memory"} => steady' \subseteq Usable'
    PROVE  VInv'
<1>1. VaultsTypeOK'
  <2>1. count' \in [{"ops", "faults"} -> Nat]
    BY Counted DEF VInv
  <2>2. steady' \subseteq AllKeys
    BY DEF VInv, VaultsTypeOK
  <2>3. UNCHANGED <<backend, pages, vkeys, retries, task, it, got, stage, tries, ended,
                    answer, partial, hurt, acked>>
    OBVIOUS
  <2>4. /\ backend' \in Backends /\ pages' \in Seq(Seq(AllKeys)) /\ vkeys' \in Seq(AllKeys)
        /\ retries' = Unset \/ retries' \in Int
        /\ it' \in [page : Nat, idx : Nat, open : BOOLEAN, list : Seq(AllKeys) \cup {Unset}]
        /\ got' \in Seq(AllKeys)
    BY <2>3 DEF VInv, VaultsTypeOK
  <2>5. /\ task' \in {"closed", "idle", "list", "import", "sign"}
        /\ stage' \in {"none", "put", "key", "job", "pending job", "active job", "expired job",
                       "login", "request", "backoff"}
        /\ tries' \in Nat
        /\ answer' \in {"none", ErrDone, Error, Panic, "imported", "signature", "no signature"}
        /\ hurt' \subseteq {"retryable", "permanent"}
    BY <2>3 DEF VInv, VaultsTypeOK
  <2>6. ended' \in BOOLEAN /\ partial' \in BOOLEAN /\ acked' \in BOOLEAN
    BY <2>3 DEF VInv, VaultsTypeOK
  <2>. QED
    BY <2>1, <2>2, <2>4, <2>5, <2>6, Zenon DEF VaultsTypeOK
<1>2. Listed' = Listed /\ WellPaged' = WellPaged
  BY DEF Listed, WellPaged
<1>3. Paging'
  <2>1. \A p, n : Passed(p, n)' <=> Passed(p, n)
    BY DEF Passed
  <2>. QED
    BY <1>2, <2>1 DEF VInv, Paging
<1>4. Along'
  <2>1. TheList' = TheList /\ UNCHANGED <<task, backend, it, got>>
    BY DEF TheList
  <2>2. task = "list" /\ backend = "yubi" /\ TheList # Unset =>
           \A n \in DOMAIN TheList : TheList[n] \in AllKeys
    <3>1. it.list = Unset \/ it.list \in Seq(AllKeys)
      BY DEF VInv, VaultsTypeOK
    <3>. QED
      BY <3>1 DEF TheList
  <2>3. task = "list" /\ backend = "yubi" /\ TheList # Unset =>
           \A n \in DOMAIN TheList : status'[TheList[n]] # "foreign"
    BY <2>2 DEF VInv, Along, AtOnce
  <2>4. OnceOnly(TheList)' <=> OnceOnly(TheList)
    BY <2>1 DEF OnceOnly
  <2>. QED
    BY <2>1, <2>3, <2>4 DEF VInv, Along
<1>5. Steady' /\ ListingComplete'
  <2>1. OnceOnly(got)' = OnceOnly(got)
    BY DEF OnceOnly
  <2>. QED
    BY <1>2, <2>1 DEF VInv, Steady, ListingComplete
<1>6. Store'
  <2>1. Distinct(pages)' /\ OnceOnly(vkeys)'
    BY DEF VInv, Store, Distinct, OnceOnly
  <2>2. backend = "cloudkms" => \A p \in DOMAIN pages : OnePurpose(p)'
    <3>1. ASSUME NEW p \in DOMAIN pages, NEW k \in Range(pages[p]) PROVE k \in AllKeys
      BY PageFacts DEF VInv
    <3>2. ASSUME NEW p \in DOMAIN pages, backend = "cloudkms"
          PROVE  OnePurpose(p)'
      <4>1. OnePurpose(p)
        BY <3>2 DEF VInv, Store
      <4>. QED
        BY <3>1, <4>1 DEF OnePurpose, Signing
    <3>. QED
      BY <3>2
  <2>. QED
    BY <1>2, <2>1, <2>2 DEF VInv, Store
<1>7. Importing'
  BY <1>2 DEF VInv, Importing
<1>8. getMaxRetries' = getMaxRetries
  BY DEF getMaxRetries
<1>9. SignUnderWay' /\ FailsForAReason'
  BY <1>8 DEF VInv, SignUnderWay, FailsForAReason
<1>. QED
  BY <1>1, <1>3, <1>4, <1>5, <1>6, <1>7, <1>9 DEF VInv

\* Keys are disabled and enabled.
LEMMA DisableKeeps ==
    ASSUME VInv, NEW k \in Keys, Disable(k) \/ Enable(k)
    PROVE  VInv'
<1>1. /\ UNCHANGED <<backend, pages, vkeys, token, retries, task, it, got, stage, tries, ended,
                     answer, partial, hurt, acked>>
      /\ Counting
      /\ \/ status[k] = "usable" /\ status' = [status EXCEPT ![k] = "refused"] /\ steady' = steady \ {k}
         \/ status[k] = "refused" /\ status' = [status EXCEPT ![k] = "usable"] /\ steady' = steady
  BY DEF Disable, Enable, Counting
<1>2. status \in [AllKeys -> Statuses] /\ k \in AllKeys
  BY DEF VInv, VaultsTypeOK, AllKeys
<1>3. /\ status' \in [AllKeys -> Statuses]
      /\ \A j \in AllKeys : j # k => status'[j] = status[j]
      /\ status'[k] # "foreign" /\ status[k] # "foreign"
      /\ status[k] = "refused" => status'[k] = "usable"
  BY <1>1, <1>2 DEF Statuses
<1>4. steady' \subseteq steady /\ (status[k] = "usable" => steady' = steady \ {k})
  BY <1>1
<1>5. ASSUME task = "list", backend \notin {"pkcs11", "memory"}
      PROVE  steady' \subseteq Usable'
  <2>1. Listed' = Listed /\ Listed \subseteq AllKeys
    BY <1>1, PageFacts DEF Listed, VInv
  <2>2. \A j \in steady : j \in Listed /\ status[j] = "usable"
    BY <1>5 DEF VInv, Steady, Usable
  <2>. QED
    BY <1>3, <1>4, <2>1, <2>2 DEF Usable
<1>6. token' \in BOOLEAN
  BY <1>1 DEF VInv, VaultsTypeOK
<1>7. \A j \in AllKeys : status'[j] = "foreign" <=> status[j] = "foreign"
  BY <1>3
<1>. QED
  BY <1>1, <1>3, <1>4, <1>5, <1>6, <1>7, ServiceKeeps

\* A token expires, or nothing happens.
LEMMA ExpireKeeps ==
    ASSUME VInv, ExpireToken \/ UNCHANGED vaultVars
    PROVE  VInv'
<1>1. /\ UNCHANGED <<backend, pages, status, vkeys, retries, task, it, got, stage, tries, ended,
                     answer, steady, partial, hurt, acked>>
      /\ Counting /\ token' \in BOOLEAN /\ (task = "sign" => token' = token)
  BY DEF ExpireToken, vaultVars, Counting, VInv, VaultsTypeOK
<1>2. status' \in [AllKeys -> Statuses]
  BY <1>1 DEF VInv, VaultsTypeOK
<1>3. Usable' = Usable
  BY <1>1 DEF Usable, Listed
<1>4. task = "list" /\ backend \notin {"pkcs11", "memory"} => steady' \subseteq Usable'
  BY <1>1, <1>3 DEF VInv, Steady
<1>. QED
  BY <1>1, <1>2, <1>4, ServiceKeeps

-----------------------------------------------------------------------------
(* The vaults: imports. *)

\* An import begins.
LEMMA ImportKeeps ==
    ASSUME VInv, Import
    PROVE  VInv'
<1>1. /\ task' = "import" /\ answer' = "none" /\ hurt' = {} /\ ended' = FALSE
      /\ stage' = IF backend = "cloudkms" THEN "key" ELSE "put"
      /\ Imported \notin Listed /\ ~acked /\ Counting
      /\ UNCHANGED <<backend, pages, status, vkeys, token, retries, it, got, tries, steady, partial, acked>>
  BY DEF Import, Begin, Counting
<1>2. VaultsTypeOK'
  <2>1. count' \in [{"ops", "faults"} -> Nat]
    BY <1>1, Counted DEF VInv
  <2>. QED
    BY <1>1, <2>1 DEF VInv, VaultsTypeOK
<1>3. Paging' /\ Along' /\ Steady' /\ ListingComplete' /\ SignUnderWay' /\ FailsForAReason'
  BY <1>1, NotListing, NotSigning, Results
<1>4. Store'
  BY <1>1, StoreStays
<1>5. Importing'
  <2>1. Listed' = Listed
    BY <1>1 DEF Listed
  <2>. QED
    BY <1>1, <2>1 DEF Importing
<1>. QED
  BY <1>2, <1>3, <1>4, <1>5 DEF VInv

\* A page of its own for the imported key.
LEMMA Added ==
    ASSUME VInv, AddKey, Imported \notin Listed
    PROVE  /\ pages' \in Seq(Seq(AllKeys))
           /\ Distinct(pages)'
<1> DEFINE N == Len(pages)
<1>1. /\ Imported \in AllKeys /\ pages \in Seq(Seq(AllKeys)) /\ <<Imported>> \in Seq(AllKeys)
      /\ N \in Nat /\ DOMAIN pages = 1..N
  <2>1. Imported \in AllKeys
    BY DEF AllKeys
  <2>2. <<Imported>> \in Seq(AllKeys)
    BY <2>1
  <2>3. pages \in Seq(Seq(AllKeys)) /\ VaultsTypeOK
    BY DEF VInv, VaultsTypeOK
  <2>. QED
    BY <2>1, <2>2, <2>3, PageFacts
<1>2. /\ pages' \in Seq(Seq(AllKeys)) /\ DOMAIN pages' = 1..(N + 1)
      /\ pages'[N + 1] = <<Imported>>
      /\ \A p \in 1..N : pages'[p] = pages[p]
  BY <1>1 DEF AddKey
<1> HIDE DEF N
<1>3. DOMAIN <<Imported>> = {1} /\ <<Imported>>[1] = Imported /\ Range(<<Imported>>) = {Imported}
  BY DEF Range
<1>4. \A p \in 1..N : \A n \in DOMAIN pages[p] : pages[p][n] # Imported
  BY <1>1 DEF Listed, Range
<1>5. \A p \in 1..(N + 1) : p \in 1..N \/ p = N + 1
  BY <1>1
<1>6. Distinct(pages')
  <2>1. Distinct(pages)
    BY DEF VInv, Store
  <2>2. ASSUME NEW p \in DOMAIN pages', NEW q \in DOMAIN pages',
               NEW m \in DOMAIN pages'[p], NEW n \in DOMAIN pages'[q], pages'[p][m] = pages'[q][n]
        PROVE  p = q /\ m = n
    <3>1. CASE p \in 1..N /\ q \in 1..N
      BY <1>1, <1>2, <2>1, <2>2, <3>1 DEF Distinct
    <3>2. CASE p = N + 1 /\ q = N + 1
      BY <1>2, <1>3, <2>2, <3>2
    <3>3. CASE p = N + 1 /\ q \in 1..N
      BY <1>2, <1>3, <1>4, <2>2, <3>3
    <3>4. CASE q = N + 1 /\ p \in 1..N
      BY <1>2, <1>3, <1>4, <2>2, <3>4
    <3>. QED
      BY <1>2, <1>5, <3>1, <3>2, <3>3, <3>4
  <2>. QED
    BY <2>2 DEF Distinct
<1>. QED
  BY <1>2, <1>6

\* An empty page, for the crypto key made in Cloud KMS.
LEMMA EmptyAdded ==
    ASSUME VInv, pages' = Append(pages, <<>>), UNCHANGED <<backend, status>>
    PROVE  /\ pages' \in Seq(Seq(AllKeys))
           /\ Distinct(pages)'
           /\ Listed' = Listed
           /\ backend = "cloudkms" => \A p \in DOMAIN pages' : OnePurpose(p)'
<1> DEFINE N == Len(pages)
<1>1. /\ pages \in Seq(Seq(AllKeys)) /\ <<>> \in Seq(AllKeys)
      /\ N \in Nat /\ DOMAIN pages = 1..N
  <2>1. pages \in Seq(Seq(AllKeys)) /\ VaultsTypeOK
    BY DEF VInv, VaultsTypeOK
  <2>. QED
    BY <2>1, PageFacts
<1>2. /\ pages' \in Seq(Seq(AllKeys)) /\ DOMAIN pages' = 1..(N + 1)
      /\ pages'[N + 1] = <<>>
      /\ \A p \in 1..N : pages'[p] = pages[p]
  BY <1>1
<1> HIDE DEF N
<1>3. DOMAIN pages'[N + 1] = {} /\ Range(pages'[N + 1]) = {}
  <2>1. DOMAIN <<>> = {}
    OBVIOUS
  <2>2. Range(<<>>) = {}
    BY <2>1 DEF Range
  <2>. QED
    BY <1>2, <2>1, <2>2, Zenon
<1>4. 1..(N + 1) = 1..N \cup {N + 1}
  BY <1>1
<1>5. Distinct(pages')
  <2>1. Distinct(pages)
    BY DEF VInv, Store
  <2>2. ASSUME NEW p \in DOMAIN pages', NEW q \in DOMAIN pages',
               NEW m \in DOMAIN pages'[p], NEW n \in DOMAIN pages'[q], pages'[p][m] = pages'[q][n]
        PROVE  p = q /\ m = n
    <3>1. p \in 1..N /\ q \in 1..N
      BY <1>2, <1>3, <1>4
    <3>. QED
      BY <1>1, <1>2, <2>1, <2>2, <3>1 DEF Distinct
  <2>. QED
    BY <2>2 DEF Distinct
<1>6. Listed' = Listed
  <2>1. Listed' = UNION {Range(pages'[p]) : p \in 1..N \cup {N + 1}}
    BY <1>2, <1>4 DEF Listed
  <2>2. Listed = UNION {Range(pages[p]) : p \in 1..N}
    BY <1>1 DEF Listed
  <2>3. \A p \in 1..N : Range(pages'[p]) = Range(pages[p])
    BY <1>2
  <2>. QED
    BY <1>3, <2>1, <2>2, <2>3
<1>7. ASSUME backend = "cloudkms", NEW p \in DOMAIN pages'
      PROVE  OnePurpose(p)'
  <2>1. CASE p \in 1..N
    <3>1. OnePurpose(p) /\ pages'[p] = pages[p]
      BY <1>1, <1>2, <1>7, <2>1 DEF VInv, Store
    <3>. QED
      BY <3>1 DEF OnePurpose, Signing
  <2>2. CASE p = N + 1
    BY <1>3, <2>2 DEF OnePurpose, Signing
  <2>. QED
    BY <1>2, <1>4, <2>1, <2>2
<1>. QED
  BY <1>2, <1>5, <1>6, <1>7

\* What an import leaves alone, and what is left to be shown when it has
\* answered or goes on.
LEMMA ImportFrame ==
    ASSUME VInv, task = "import", Counting,
           UNCHANGED <<backend, status, token, retries, it, got, tries, ended, steady, partial, hurt>>,
           pages' \in Seq(Seq(AllKeys)), vkeys' \in Seq(AllKeys),
           stage' \in {stage, "job", "pending job", "active job", "expired job"},
           acked' = (acked \/ answer' = "imported"),
           \/ task' = "import" /\ answer' = answer
           \/ task' = "idle" /\ answer' \in {"imported", Error},
           Distinct(pages)', OnceOnly(vkeys)', Imported \in Range(vkeys') => acked',
           backend = "cloudkms" => \A p \in DOMAIN pages' : OnePurpose(p)',
           Importing'
    PROVE  VInv'
<1>1. ~acked /\ answer = "none" /\ VaultsTypeOK
  BY DEF VInv, Importing
<1>2. VaultsTypeOK'
  <2>1. count' \in [{"ops", "faults"} -> Nat]
    BY Counted DEF VInv
  <2>2. acked' \in BOOLEAN
    BY <1>1
  <2>3. /\ task' \in {"closed", "idle", "list", "import", "sign"}
        /\ stage' \in {"none", "put", "key", "job", "pending job", "active job", "expired job",
                       "login", "request", "backoff"}
        /\ answer' \in {"none", ErrDone, Error, Panic, "imported", "signature", "no signature"}
    BY <1>1 DEF VaultsTypeOK
  <2>4. UNCHANGED <<backend, status, token, retries, it, got, tries, ended, steady, partial, hurt>>
    OBVIOUS
  <2>5. /\ backend' \in Backends /\ status' \in [AllKeys -> Statuses] /\ token' \in BOOLEAN
        /\ retries' = Unset \/ retries' \in Int
        /\ it' \in [page : Nat, idx : Nat, open : BOOLEAN, list : Seq(AllKeys) \cup {Unset}]
        /\ got' \in Seq(AllKeys) /\ tries' \in Nat /\ ended' \in BOOLEAN
        /\ steady' \subseteq AllKeys /\ partial' \in BOOLEAN /\ hurt' \subseteq {"retryable", "permanent"}
    BY <1>1, <2>4 DEF VaultsTypeOK
  <2>. QED
    BY <2>1, <2>2, <2>3, <2>5 DEF VaultsTypeOK
<1>3. Paging' /\ Along' /\ Steady' /\ ListingComplete' /\ SignUnderWay' /\ FailsForAReason'
  BY <1>1, NotListing, NotSigning, Results
<1>4. Store'
  BY DEF Store
<1>. QED
  BY <1>2, <1>3, <1>4 DEF VInv

\* What the store is like while an import is under way.
LEMMA BeforeImport ==
    ASSUME VInv, task = "import"
    PROVE  /\ VaultsTypeOK /\ pages \in Seq(Seq(AllKeys)) /\ vkeys \in Seq(AllKeys)
           /\ Distinct(pages) /\ OnceOnly(vkeys) /\ ~acked /\ answer = "none"
           /\ Imported \in AllKeys /\ Imported \notin Listed /\ Imported \notin Range(vkeys)
           /\ backend = "cloudkms" => \A p \in DOMAIN pages : OnePurpose(p)
           /\ backend = "cloudkms" => stage # "put"
           /\ backend # "cloudkms" => stage = "put"
BY DEF VInv, VaultsTypeOK, Store, Importing, AllKeys

\* Pages and keys that stay as they are.
LEMMA PagesStay ==
    ASSUME VInv, UNCHANGED <<backend, status, pages>>
    PROVE  /\ pages' \in Seq(Seq(AllKeys)) /\ Distinct(pages)' /\ Listed' = Listed
           /\ backend = "cloudkms" => \A p \in DOMAIN pages' : OnePurpose(p)'
<1>1. Distinct(pages)'
  BY DEF VInv, Store, Distinct
<1>2. pages' \in Seq(Seq(AllKeys)) /\ Listed' = Listed
  BY DEF VInv, VaultsTypeOK, Listed
<1>3. backend = "cloudkms" => \A p \in DOMAIN pages' : OnePurpose(p)'
  BY DEF VInv, Store, OnePurpose, Signing
<1>. QED
  BY <1>1, <1>2, <1>3

LEMMA KeysStay ==
    ASSUME VInv, task = "import", vkeys' = vkeys
    PROVE  vkeys' \in Seq(AllKeys) /\ OnceOnly(vkeys)' /\ Imported \notin Range(vkeys')
<1>1. vkeys \in Seq(AllKeys) /\ OnceOnly(vkeys) /\ Imported \notin Range(vkeys)
  BY BeforeImport
<1>2. OnceOnly(vkeys)'
  BY <1>1 DEF OnceOnly
<1>. QED
  BY <1>1, <1>2

\* Each step of an import, and its end, acknowledged or not.
LEMMA ImportStepKeeps ==
    ASSUME VInv, ImportStep
    PROVE  VInv'
<1>1. /\ task = "import" /\ acked' = (acked \/ answer' = "imported") /\ Counting
      /\ UNCHANGED <<backend, token, retries, it, got, tries, ended, steady, partial, hurt>>
  BY DEF ImportStep, Counting
<1>2. /\ VaultsTypeOK /\ pages \in Seq(Seq(AllKeys)) /\ vkeys \in Seq(AllKeys)
      /\ Distinct(pages) /\ OnceOnly(vkeys) /\ ~acked /\ answer = "none"
      /\ Imported \in AllKeys /\ Imported \notin Listed /\ Imported \notin Range(vkeys)
  BY <1>1, BeforeImport
<1>3. CASE /\ AddKey /\ task' = "idle" /\ answer' = "imported"
           /\ backend # "cloudkms"
           /\ UNCHANGED <<vkeys, stage, status>>
  <2>1. pages' \in Seq(Seq(AllKeys)) /\ Distinct(pages)'
    BY <1>2, <1>3, Added
  <2>2. vkeys' \in Seq(AllKeys) /\ OnceOnly(vkeys)' /\ Imported \notin Range(vkeys')
    BY <1>1, <1>3, KeysStay
  <2>3. Importing'
    BY <1>3, NotImporting
  <2>. QED
    BY <1>1, <1>3, <2>1, <2>2, <2>3, ImportFrame
<1>4. CASE /\ vkeys' = Append(vkeys, Imported) /\ task' = "idle" /\ answer' = "imported"
           /\ backend # "cloudkms"
           /\ UNCHANGED <<pages, stage, status>>
  <2>1. vkeys' \in Seq(AllKeys) /\ OnceOnly(vkeys')
    BY <1>2, <1>4, Appended
  <2>2. OnceOnly(vkeys)' /\ acked'
    BY <1>1, <1>4, <2>1 DEF OnceOnly
  <2>3. pages' \in Seq(Seq(AllKeys)) /\ Distinct(pages)'
    BY <1>1, <1>4, PagesStay
  <2>4. Importing'
    BY <1>4, NotImporting
  <2>. QED
    BY <1>1, <1>4, <2>1, <2>2, <2>3, <2>4, ImportFrame
<1>5. CASE backend = "cloudkms" /\ cloudkmsImport
  <2>0. /\ vkeys' = vkeys /\ status' = status
        /\ vkeys' \in Seq(AllKeys) /\ OnceOnly(vkeys)' /\ Imported \notin Range(vkeys')
    <3>1. vkeys' = vkeys /\ status' = status
      BY <1>5 DEF cloudkmsImport
    <3>. QED
      BY <1>1, <3>1, KeysStay
  <2>1. CASE stage = "key" /\ pages' = Append(pages, <<>>) /\ stage' = "job" /\ UNCHANGED <<task, answer>>
    <3>1. /\ pages' \in Seq(Seq(AllKeys)) /\ Distinct(pages)' /\ Listed' = Listed
          /\ \A p \in DOMAIN pages' : OnePurpose(p)'
      BY <1>1, <1>5, <2>0, <2>1, EmptyAdded
    <3>2. Importing'
      BY <1>1, <1>2, <1>5, <2>1, <3>1 DEF Importing
    <3>. QED
      BY <1>1, <2>0, <2>1, <3>1, <3>2, ImportFrame
  <2>2. CASE stage = "job" /\ stage' = "pending job" /\ UNCHANGED <<pages, task, answer>>
    <3>1. /\ pages' \in Seq(Seq(AllKeys)) /\ Distinct(pages)' /\ Listed' = Listed
          /\ \A p \in DOMAIN pages' : OnePurpose(p)'
      BY <1>1, <1>5, <2>0, <2>2, PagesStay
    <3>2. Importing'
      BY <1>1, <1>2, <1>5, <2>2, <3>1 DEF Importing
    <3>. QED
      BY <1>1, <2>0, <2>2, <3>1, <3>2, ImportFrame
  <2>3. CASE task' = "idle" /\ answer' = Error /\ UNCHANGED <<pages, stage>>
    <3>1. /\ pages' \in Seq(Seq(AllKeys)) /\ Distinct(pages)'
          /\ \A p \in DOMAIN pages' : OnePurpose(p)'
      BY <1>1, <1>5, <2>0, <2>3, PagesStay
    <3>2. Importing'
      BY <2>3, NotImporting
    <3>. QED
      BY <1>1, <2>0, <2>3, <3>1, <3>2, ImportFrame
  <2>. QED
    BY <1>5, <2>1, <2>2, <2>3 DEF cloudkmsImport, Finish, ParsePKIXPublicKey
<1>. QED
  BY <1>3, <1>4, <1>5 DEF ImportStep, azureImport, yubiImport, memoryImportKey, Finish

\* The service is done with the import job.
LEMMA JobReadyKeeps ==
    ASSUME VInv, JobReady
    PROVE  VInv'
<1>1. /\ task = "import" /\ task' = "import" /\ Counting /\ stage = "pending job"
      /\ stage' \in {"active job", "expired job"}
      /\ UNCHANGED <<backend, pages, status, vkeys, token, retries, it, got, tries, ended,
                     answer, steady, partial, hurt, acked>>
  BY DEF JobReady, Counting
<1>2. /\ ~acked /\ answer = "none" /\ Imported \notin Listed /\ backend = "cloudkms"
  BY <1>1, BeforeImport
<1>3. /\ pages' \in Seq(Seq(AllKeys)) /\ Distinct(pages)' /\ Listed' = Listed
      /\ \A p \in DOMAIN pages' : OnePurpose(p)'
  BY <1>1, <1>2, PagesStay
<1>4. vkeys' \in Seq(AllKeys) /\ OnceOnly(vkeys)' /\ Imported \notin Range(vkeys')
  BY <1>1, KeysStay
<1>5. Importing'
  BY <1>1, <1>2, <1>3 DEF Importing
<1>6. acked' = (acked \/ answer' = "imported")
  <2>1. acked \in BOOLEAN /\ acked' = acked /\ answer' # "imported"
    BY <1>1, <1>2 DEF VInv, VaultsTypeOK
  <2>. QED
    BY <2>1, Zenon
<1>. QED
  BY <1>1, <1>3, <1>4, <1>5, <1>6, ImportFrame

\* A request of an import that failed may have been carried out.
LEMMA ImportFailsKeeps ==
    ASSUME VInv, ImportFails
    PROVE  VInv'
<1>1. /\ task = "import" /\ task' = "idle" /\ answer' = Error /\ Counting
      /\ \/ stage = "put" /\ AddKey
         \/ stage = "key" /\ pages' = Append(pages, <<>>)
         \/ UNCHANGED pages
      /\ UNCHANGED <<backend, status, vkeys, token, retries, it, got, stage, tries, ended, steady,
                     partial, hurt, acked>>
  BY DEF ImportFails, Finish, Counting
<1>2. ~acked /\ Imported \notin Listed /\ (backend = "cloudkms" => stage # "put")
  BY <1>1, BeforeImport
<1>3. /\ pages' \in Seq(Seq(AllKeys)) /\ Distinct(pages)'
      /\ backend = "cloudkms" => \A p \in DOMAIN pages' : OnePurpose(p)'
  BY <1>1, <1>2, Added, EmptyAdded, PagesStay
<1>4. vkeys' \in Seq(AllKeys) /\ OnceOnly(vkeys)' /\ Imported \notin Range(vkeys')
  BY <1>1, KeysStay
<1>5. Importing'
  BY <1>1, NotImporting
<1>6. acked' = (acked \/ answer' = "imported")
  <2>1. acked \in BOOLEAN /\ acked' = acked /\ answer' # "imported"
    BY <1>1, <1>2, Results DEF VInv, VaultsTypeOK, Error
  <2>. QED
    BY <2>1, Zenon
<1>. QED
  BY <1>1, <1>3, <1>4, <1>5, <1>6, ImportFrame

-----------------------------------------------------------------------------
(* The vaults: opening a vault. *)

\* The keys a vault is opened with are the service's, each once.
LEMMA NewFacts ==
    ASSUME VaultsTypeOK, Store, NEW keys \in New, keys # Unset
    PROVE  keys \in Seq(AllKeys) /\ OnceOnly(keys) /\ Range(keys) \subseteq Listed
<1>1. /\ Flat \in Seq(AllKeys) /\ Range(Flat) = Listed /\ OnceOnly(Flat)
  BY FlattenFacts DEF VaultsTypeOK, Store, Flat, Listed
<1>2. <<>> \in Seq(AllKeys) /\ OnceOnly(<<>>) /\ Range(<<>>) = {}
  BY DEF OnceOnly, Range
<1>3. /\ enumKeys \in Seq(AllKeys) /\ Range(enumKeys) \subseteq Listed /\ OnceOnly(enumKeys)
  <2>1. /\ Only(Flat, Usable) \in Seq(AllKeys) /\ OnceOnly(Only(Flat, Usable))
        /\ Range(Only(Flat, Usable)) = Range(Flat) \cap Usable
    BY <1>1, OnlyFacts
  <2>. QED
    BY <1>1, <2>1 DEF enumKeys
<1>4. keys \in {<<>>, enumKeys, Flat}
  <2>1. backend \in {"aws", "azure", "cloudkms", "hashicorp", "yubi", "pkcs11", "memory"}
    BY VaultsAssumption DEF VaultsTypeOK
  <2>2. CASE backend = "pkcs11"
    BY <2>2 DEF New, pkcs11New, initStatic
  <2>3. CASE backend = "memory"
    <3>1. PICK raw \in fileNew \cup memNew : keys = memoryUnlock(raw)
      BY <2>3 DEF New
    <3>. QED
      BY <3>1 DEF memoryUnlock, fileNew, memNew
  <2>4. CASE backend \in {"aws", "azure", "cloudkms", "hashicorp", "yubi"}
    BY <2>4 DEF New, awsNew, azureNew, cloudkmsNew, hashicorpNew, yubiNew
  <2>. QED
    BY <2>1, <2>2, <2>3, <2>4
<1>. QED
  BY <1>1, <1>2, <1>3, <1>4

\* A vault is opened.
LEMMA OpenKeeps ==
    ASSUME VInv, Open
    PROVE  VInv'
<1>1. /\ task = "closed" /\ answer = "none" /\ token' \in BOOLEAN
      /\ \/ answer' = Error /\ UNCHANGED <<task, vkeys>>
         \/ task' = "idle" /\ answer' = "none" /\ \E keys \in New : keys # Unset /\ vkeys' = keys
      /\ UNCHANGED <<backend, pages, status, retries, it, got, stage, tries, ended, steady,
                     partial, hurt, acked, count>>
  BY DEF Open
<1>2. Imported \notin Listed /\ ~acked /\ VaultsTypeOK /\ Store
  BY <1>1 DEF VInv, Store
<1>3. vkeys' \in Seq(AllKeys) /\ OnceOnly(vkeys') /\ Imported \notin Range(vkeys')
  <2>1. CASE vkeys' = vkeys
    BY <1>2, <2>1 DEF VaultsTypeOK, Store
  <2>2. ASSUME NEW keys \in New, keys # Unset, vkeys' = keys
        PROVE  vkeys' \in Seq(AllKeys) /\ OnceOnly(vkeys') /\ Imported \notin Range(vkeys')
    BY <1>2, <2>2, NewFacts
  <2>. QED
    BY <1>1, <2>1, <2>2
<1>4. task' \in {"closed", "idle"} /\ answer' \in {"none", Error}
  BY <1>1
<1>5. VaultsTypeOK'
  BY <1>1, <1>2, <1>3, <1>4 DEF VaultsTypeOK
<1>6. Paging' /\ Along' /\ Steady' /\ ListingComplete' /\ SignUnderWay' /\ FailsForAReason'
  BY <1>4, NotListing, NotSigning, Results
<1>7. Store'
  <2>1. /\ Distinct(pages)' /\ Listed' = Listed
        /\ backend = "cloudkms" => \A p \in DOMAIN pages' : OnePurpose(p)'
    BY <1>1, <1>2 DEF Store, Distinct, Listed, OnePurpose, Signing
  <2>. QED
    BY <1>1, <1>2, <1>3, <2>1 DEF Store
<1>8. Importing'
  BY <1>4, NotImporting
<1>. QED
  BY <1>5, <1>6, <1>7, <1>8 DEF VInv

-----------------------------------------------------------------------------
(* The vaults: a listing begins. *)

\* An iterator is made.
LEMMA ListKeeps ==
    ASSUME VInv, List
    PROVE  VInv'
<1>1. /\ task' = "list" /\ answer' = "none" /\ hurt' = {} /\ ended' = FALSE /\ Counting
      /\ it' = [NoIterator EXCEPT !.list = IF backend = "memory" THEN vkeys ELSE Unset]
      /\ got' = <<>> /\ partial' = FALSE /\ tries' = 0
      /\ steady' = IF backend \in {"pkcs11", "memory"} THEN Range(vkeys) ELSE Usable
      /\ stage' = "none"
      /\ UNCHANGED <<backend, pages, status, vkeys, token, retries, acked>>
  BY DEF List, Begin, Counting
<1>2. /\ it'.page = 0 /\ it'.idx = 0 /\ it'.open = FALSE
      /\ it'.list = IF backend = "memory" THEN vkeys ELSE Unset
      /\ it' \in [page : Nat, idx : Nat, open : BOOLEAN, list : Seq(AllKeys) \cup {Unset}]
      /\ vkeys \in Seq(AllKeys) /\ vkeys # Unset /\ VaultsTypeOK
  <2>1. vkeys \in Seq(AllKeys) /\ vkeys # Unset
    BY VaultsAssumption DEF VInv, VaultsTypeOK
  <2>2. it' = [page |-> 0, idx |-> 0, open |-> FALSE, list |-> IF backend = "memory" THEN vkeys ELSE Unset]
    BY <1>1 DEF NoIterator
  <2>. QED
    BY <2>1, <2>2 DEF VInv
<1>3. Range(got') = {} /\ OnceOnly(got') /\ got' \in Seq(AllKeys)
  <2>1. got' = <<>>
    BY <1>1
  <2>2. Range(<<>>) = {} /\ OnceOnly(<<>>) /\ <<>> \in Seq(AllKeys)
    BY DEF Range, OnceOnly
  <2>. QED
    BY <2>1, <2>2, Zenon
<1>4. Usable' = Usable /\ Usable \subseteq AllKeys /\ Range(vkeys) \subseteq AllKeys
  <2>1. Usable' = Usable
    BY <1>1 DEF Usable, Listed
  <2>2. Usable \subseteq AllKeys
    BY <1>2, PageFacts DEF Usable
  <2>3. Range(vkeys) \subseteq AllKeys
    BY <1>2 DEF Range
  <2>. QED
    BY <2>1, <2>2, <2>3
<1>5. VaultsTypeOK'
  <2>1. count' \in [{"ops", "faults"} -> Nat]
    BY <1>1, Counted DEF VInv
  <2>2. steady' \subseteq AllKeys
    BY <1>1, <1>4
  <2>. QED
    BY <1>1, <1>2, <1>3, <2>1, <2>2 DEF VaultsTypeOK
<1>6. Paging'
  <2>0. pages' = pages /\ Len(pages) \in Nat /\ DOMAIN pages = 1..Len(pages)
        /\ \A p \in DOMAIN pages : DOMAIN pages[p] = 1..Len(pages[p]) /\ Len(pages[p]) \in Nat
    BY <1>1, <1>2, PageFacts
  <2>1. \A p \in DOMAIN pages' : \A n \in DOMAIN pages'[p] : ~Passed(p, n)'
    BY <1>2, <2>0 DEF Passed
  <2>2. it'.page \in 0..Len(pages')
    BY <1>2, <2>0
  <2>. QED
    BY <1>2, <1>3, <2>1, <2>2 DEF Paging
<1>7. Along'
  <2>1. TheList' = IF backend \in {"pkcs11", "memory"} THEN vkeys ELSE Unset
    BY <1>1, <1>2 DEF TheList
  <2>2. CASE backend \in {"pkcs11", "memory"}
    <3>1. TheList' = vkeys /\ OnceOnly(vkeys) /\ steady' = Range(vkeys) /\ backend' # "yubi"
      BY <1>1, <2>1, <2>2 DEF VInv, Store
    <3>2. Len(vkeys) \in Nat /\ \A n \in DOMAIN vkeys : ~(n <= 0)
      BY <1>2
    <3>3. OnceOnly(TheList)'
      BY <3>1 DEF OnceOnly
    <3>4. \A n \in DOMAIN TheList' : ~(n <= it'.idx) /\ TheList'[n] \notin Range(got')
      BY <1>2, <1>3, <3>1, <3>2
    <3>5. TheList' # Unset /\ it'.idx <= Len(TheList')
      BY <1>2, <3>1, <3>2
    <3>. QED
      BY <3>1, <3>3, <3>4, <3>5 DEF Along
  <2>3. CASE backend \notin {"pkcs11", "memory"}
    BY <1>1, <1>2, <1>3, <2>1, <2>3 DEF Along, AtOnce
  <2>. QED
    BY <2>2, <2>3
<1>8. Steady' /\ ListingComplete'
  <2>1. OnceOnly(got)'
    BY <1>3 DEF OnceOnly
  <2>. QED
    BY <1>1, <1>4, <2>1 DEF Steady, ListingComplete
<1>9. Store' /\ Importing' /\ SignUnderWay' /\ FailsForAReason'
  BY <1>1, StoreStays, NotImporting, NotSigning
<1>. QED
  BY <1>5, <1>6, <1>7, <1>8, <1>9 DEF VInv

\* A listing that fails keeps nothing.
LEMMA ListFailsKeeps ==
    ASSUME VInv, ListFails
    PROVE  VInv'
<1>1. /\ task' = "idle" /\ answer' = Error /\ got' = <<>> /\ Counting
      /\ UNCHANGED <<backend, pages, status, vkeys, token, retries, it, stage, tries, ended,
                     steady, partial, hurt, acked>>
  BY Results DEF ListFails, Collect, Finish, Counting
<1>2. VaultsTypeOK'
  <2>1. count' \in [{"ops", "faults"} -> Nat]
    BY <1>1, Counted DEF VInv
  <2>2. got' \in Seq(AllKeys)
    BY <1>1
  <2>. QED
    BY <1>1, <2>1, <2>2 DEF VInv, VaultsTypeOK
<1>3. Paging' /\ Along' /\ Steady' /\ ListingComplete' /\ SignUnderWay' /\ FailsForAReason'
  BY <1>1, NotListing, NotSigning, Results
<1>4. Store' /\ Importing'
  BY <1>1, StoreStays, NotImporting
<1>. QED
  BY <1>2, <1>3, <1>4 DEF VInv

-----------------------------------------------------------------------------
(* The vaults: the steps of a listing. *)

\* The states of an iterator.
IteratorType == [page : Nat, idx : Nat, open : BOOLEAN, list : Seq(AllKeys) \cup {Unset}]

\* The variables a step of a listing leaves alone.
LEMMA ListFrame ==
    ASSUME VInv, task = "list", Counting,
           UNCHANGED <<backend, pages, status, vkeys, token, retries, stage, tries, ended, steady,
                       hurt, acked>>,
           partial' \in BOOLEAN, it' \in IteratorType, got' \in Seq(AllKeys),
           \/ task' = "list" /\ answer' = answer
           \/ task' = "idle" /\ answer' \in {ErrDone, Error, Panic},
           Paging' /\ Along' /\ Steady' /\ ListingComplete'
    PROVE  VInv'
<1>1. VaultsTypeOK'
  <2>1. count' \in [{"ops", "faults"} -> Nat]
    BY Counted DEF VInv
  <2>2. /\ task' \in {"closed", "idle", "list", "import", "sign"}
        /\ answer' \in {"none", ErrDone, Error, Panic, "imported", "signature", "no signature"}
    BY DEF VInv, VaultsTypeOK
  <2>3. UNCHANGED <<backend, pages, status, vkeys, token, retries, stage, tries, ended, steady,
                    hurt, acked>>
    OBVIOUS
  <2>. QED
    BY <2>1, <2>2, <2>3 DEF VInv, VaultsTypeOK, IteratorType
<1>2. Store' /\ Importing'
  BY StoreStays, NotImporting
<1>3. SignUnderWay' /\ FailsForAReason'
  BY Results DEF SignUnderWay, FailsForAReason
<1>. QED
  BY <1>1, <1>2, <1>3 DEF VInv

\* What Collect does with a result.
LEMMA CollectIs ==
    ASSUME NEW r, Collect(r)
    PROVE  /\ r \in AllKeys \cup {Again, ErrKey, ErrDone, Error, Panic}
           /\ r \in AllKeys => got' = Append(got, r) /\ UNCHANGED <<task, answer>>
           /\ r \in {Again, ErrKey} => UNCHANGED <<got, task, answer>>
           /\ r = ErrDone => task' = "idle" /\ answer' = ErrDone /\ got' = got
           /\ r \in {Error, Panic} => task' = "idle" /\ answer' = r /\ got' = <<>>
BY Results DEF Collect, Finish

\* What a result does to the keys collected and to the listing.
LEMMA CollectType ==
    ASSUME VInv, task = "list", NEW r, Collect(r)
    PROVE  /\ got' \in Seq(AllKeys)
           /\ \/ task' = "list" /\ answer' = answer
              \/ task' = "idle" /\ answer' \in {ErrDone, Error, Panic}
<1>1. got \in Seq(AllKeys) /\ <<>> \in Seq(AllKeys)
  <2>1. <<>> \in Seq(AllKeys)
    OBVIOUS
  <2>. QED
    BY <2>1 DEF VInv, VaultsTypeOK
<1>2. r \in AllKeys => Append(got, r) \in Seq(AllKeys)
  BY <1>1
<1>. QED
  BY <1>1, <1>2, CollectIs

\* Pages the iterators do not expect, and listings that were refused: nothing
\* is claimed of them.
LEMMA Unclaimed ==
    ASSUME VInv, task = "list", backend \in Paged, partial' \/ ~WellPaged,
           UNCHANGED <<backend, pages, status, steady>>
    PROVE  Paging' /\ Along' /\ Steady' /\ ListingComplete'
<1>1. WellPaged' = WellPaged /\ Usable' = Usable
  BY DEF WellPaged, Usable, Listed
<1>2. backend' \notin AtOnce /\ backend' \in Paged
  BY DEF Paged, AtOnce
<1>. QED
  BY <1>1, <1>2 DEF VInv, Paging, Along, Steady, ListingComplete

\* A listing that is refused.
LEMMA RefusedKeeps ==
    ASSUME VInv, ListRefused
    PROVE  VInv'
<1>1. /\ task = "list" /\ backend = "cloudkms" /\ Counting /\ partial' = TRUE
      /\ UNCHANGED <<backend, pages, status, vkeys, token, retries, stage, tries, ended, steady,
                     hurt, acked>>
  BY DEF ListRefused, Counting
<1>2. PICK o \in cloudkmsRefused(it) : it' = o[1] /\ Collect(o[2])
  BY DEF ListRefused
<1>3. it' \in IteratorType
  <2>1. it \in IteratorType
    BY DEF VInv, VaultsTypeOK, IteratorType
  <2>2. [it EXCEPT !.open = FALSE] \in IteratorType
    BY <2>1 DEF IteratorType
  <2>3. it' \in {it, [it EXCEPT !.open = FALSE]}
    BY <1>2 DEF cloudkmsRefused
  <2>. QED
    BY <2>1, <2>2, <2>3
<1>4. Paging' /\ Along' /\ Steady' /\ ListingComplete'
  BY <1>1, Unclaimed DEF Paged
<1>5. /\ got' \in Seq(AllKeys)
      /\ \/ task' = "list" /\ answer' = answer
         \/ task' = "idle" /\ answer' \in {ErrDone, Error, Panic}
  BY <1>1, <1>2, CollectType
<1>. QED
  BY <1>1, <1>3, <1>4, <1>5, ListFrame

\* The entry of a page is looked at that comes next.
LEMMA PagedVisit ==
    ASSUME VInv, task = "list", backend \in Paged, ~partial, WellPaged,
           UNCHANGED <<backend, pages, status, partial, steady, task>>,
           NEW P \in DOMAIN pages, NEW N \in DOMAIN pages[P], ~Passed(P, N),
           it'.page = P, it'.idx = N, backend = "cloudkms" => it'.open,
           \A p \in DOMAIN pages : \A n \in DOMAIN pages[p] :
              Passed(p, n)' <=> Passed(p, n) \/ (p = P /\ n = N),
           got' = Append(got, pages[P][N]) \/ (got' = got /\ pages[P][N] \notin steady)
    PROVE  Paging' /\ Along' /\ Steady' /\ ListingComplete'
<1> DEFINE k == pages[P][N]
<1>1. /\ k \in AllKeys /\ got \in Seq(AllKeys) /\ k \notin Range(got) /\ OnceOnly(got)
      /\ DOMAIN pages = 1..Len(pages) /\ Len(pages) \in Nat
      /\ DOMAIN pages[P] = 1..Len(pages[P]) /\ Len(pages[P]) \in Nat
  <2>1. k \notin Range(got)
    BY DEF VInv, Paging
  <2>2. OnceOnly(got)
    BY DEF VInv, Steady
  <2>3. VaultsTypeOK /\ got \in Seq(AllKeys)
    BY DEF VInv, VaultsTypeOK
  <2>. QED
    BY <2>1, <2>2, <2>3, PageFacts
<1>2. WellPaged' = WellPaged /\ Usable' = Usable
  BY DEF WellPaged, Usable, Listed
<1>3. ASSUME NEW p \in DOMAIN pages, NEW n \in DOMAIN pages[p], pages[p][n] = k
      PROVE  p = P /\ n = N
  BY <1>3 DEF VInv, Store, Distinct
<1>4. Range(got') \in {Range(got), Range(got) \cup {k}} /\ OnceOnly(got')
      /\ (k \in steady => k \in Range(got'))
  <2>1. CASE got' = Append(got, k)
    BY <1>1, <2>1, Appended
  <2>2. CASE got' = got /\ k \notin steady
    BY <1>1, <2>2
  <2>. QED
    BY <2>1, <2>2
<1>5. Paging'
  <2>1. /\ it'.page \in 0..Len(pages')
        /\ it'.idx <= IF it'.page = 0 THEN 0 ELSE Len(pages'[it'.page])
        /\ it'.page > 0
    BY <1>1
  <2>2. ASSUME NEW p \in DOMAIN pages, NEW n \in DOMAIN pages[p]
        PROVE  IF Passed(p, n)' THEN pages[p][n] \in steady => pages[p][n] \in Range(got')
               ELSE pages[p][n] \notin Range(got')
    <3>1. IF Passed(p, n) THEN pages[p][n] \in steady => pages[p][n] \in Range(got)
          ELSE pages[p][n] \notin Range(got)
      BY DEF VInv, Paging
    <3>2. CASE p = P /\ n = N
      BY <1>4, <3>2
    <3>3. CASE ~(p = P /\ n = N)
      <4>1. pages[p][n] # k /\ (Passed(p, n)' <=> Passed(p, n))
        BY <1>3, <3>3
      <4>. QED
        BY <1>4, <3>1, <4>1
    <3>. QED
      BY <3>2, <3>3
  <2>. QED
    BY <2>1, <2>2 DEF Paging
<1>6. Along'
  BY DEF Along, Paged, AtOnce
<1>7. Steady' /\ ListingComplete'
  <2>1. OnceOnly(got)'
    BY <1>4 DEF OnceOnly
  <2>. QED
    BY <1>2, <2>1 DEF VInv, Steady, ListingComplete
<1>. QED
  BY <1>5, <1>6, <1>7

\* Pages are passed over that have no steady key.
LEMMA PagedSkip ==
    ASSUME VInv, task = "list", backend \in Paged, ~partial, WellPaged,
           UNCHANGED <<backend, pages, status, partial, steady, task, got>>,
           it'.page \in DOMAIN pages, it'.idx = 0, it'.open,
           \A p \in DOMAIN pages : \A n \in DOMAIN pages[p] :
              /\ Passed(p, n) => Passed(p, n)'
              /\ Passed(p, n)' => Passed(p, n) \/ pages[p][n] \notin steady
    PROVE  Paging' /\ Along' /\ Steady' /\ ListingComplete'
<1>1. WellPaged' = WellPaged /\ Usable' = Usable
  BY DEF WellPaged, Usable, Listed
<1>2. Paging'
  <2>1. Len(pages[it'.page]) \in Nat /\ it'.page \in 0..Len(pages) /\ it'.page > 0
    BY PageFacts DEF VInv
  <2>2. it'.idx <= IF it'.page = 0 THEN 0 ELSE Len(pages'[it'.page])
    BY <2>1
  <2>3. ASSUME NEW p \in DOMAIN pages, NEW n \in DOMAIN pages[p]
        PROVE  IF Passed(p, n)' THEN pages[p][n] \in steady => pages[p][n] \in Range(got')
               ELSE pages[p][n] \notin Range(got')
    <3>1. IF Passed(p, n) THEN pages[p][n] \in steady => pages[p][n] \in Range(got)
          ELSE pages[p][n] \notin Range(got)
      BY DEF VInv, Paging
    <3>. QED
      BY <3>1
  <2>. QED
    BY <2>1, <2>2, <2>3 DEF Paging
<1>3. Along'
  BY DEF Along, Paged, AtOnce
<1>4. Steady' /\ ListingComplete'
  <2>1. OnceOnly(got)' <=> OnceOnly(got)
    BY DEF OnceOnly
  <2>. QED
    BY <1>1, <2>1 DEF VInv, Steady, ListingComplete
<1>. QED
  BY <1>2, <1>3, <1>4

\* All that is left has no steady key.
LEMMA PagedDone ==
    ASSUME VInv, task = "list", backend \in Paged, ~partial, WellPaged,
           UNCHANGED <<backend, pages, status, partial, steady, got>>,
           task' = "idle", answer' = ErrDone,
           \A p \in DOMAIN pages : \A n \in DOMAIN pages[p] :
              Passed(p, n) \/ pages[p][n] \notin steady
    PROVE  Paging' /\ Along' /\ Steady' /\ ListingComplete'
<1>1. Paging' /\ Along' /\ Steady'
  BY DEF Paging, Along, Steady
<1>2. steady \subseteq Usable /\ OnceOnly(got)
  BY DEF VInv, Steady, Paged
<1>3. ASSUME NEW k \in steady PROVE k \in Range(got)
  <2>1. k \in Listed /\ VaultsTypeOK
    BY <1>2 DEF Usable, VInv
  <2>2. PICK p \in DOMAIN pages : \E n \in DOMAIN pages[p] : pages[p][n] = k
    BY <2>1, PageFacts
  <2>3. PICK n \in DOMAIN pages[p] : pages[p][n] = k
    BY <2>2
  <2>4. Passed(p, n)
    BY <2>3
  <2>. QED
    BY <2>3, <2>4 DEF VInv, Paging
<1>4. ListingComplete'
  BY <1>2, <1>3 DEF ListingComplete, OnceOnly
<1>. QED
  BY <1>1, <1>4

\* What a step of a listing does, besides the iterator's own.
StepOf(o) ==
    /\ task = "list"
    /\ it' = o[1] /\ Collect(o[2])
    /\ UNCHANGED <<backend, pages, status, vkeys, token, retries, stage, tries, ended, steady,
                   partial, hurt, acked, count>>

\* A new page and index.
LEMMA Moved ==
    ASSUME VInv, NEW P \in Nat, NEW N \in Nat
    PROVE  /\ [it EXCEPT !.page = P, !.idx = N] \in IteratorType
           /\ [it EXCEPT !.page = P, !.idx = N].page = P
           /\ [it EXCEPT !.page = P, !.idx = N].idx = N
           /\ [it EXCEPT !.page = P, !.idx = N].open = it.open
           /\ [it EXCEPT !.page = P, !.idx = N].list = it.list
           /\ [it EXCEPT !.idx = N] \in IteratorType
           /\ [it EXCEPT !.idx = N].page = it.page
           /\ [it EXCEPT !.idx = N].idx = N
           /\ [it EXCEPT !.idx = N].open = it.open
           /\ [it EXCEPT !.idx = N].list = it.list
BY DEF VInv, VaultsTypeOK, IteratorType

\* A listing that is given up claims nothing.
LEMMA GivenUp ==
    ASSUME NEW o, StepOf(o), o[2] \in {Error, Panic}
    PROVE  Paging' /\ Along' /\ Steady' /\ ListingComplete'
BY CollectIs, NotListing, Results DEF StepOf

\* A key that is usable all along is passed on, or the listing ends.
Faithful(k, r) == r \in {k, Again, ErrKey, Error} /\ (k \in steady => r \in {k, Error})

\* The entry that comes next, looked at by whichever iterator.
LEMMA PagedTurn ==
    ASSUME VInv, backend \in Paged, ~partial, WellPaged,
           NEW o, StepOf(o),
           NEW P \in DOMAIN pages, NEW N \in DOMAIN pages[P], ~Passed(P, N),
           it'.page = P, it'.idx = N, backend = "cloudkms" => it'.open,
           \A p \in DOMAIN pages : \A n \in DOMAIN pages[p] :
              Passed(p, n)' <=> Passed(p, n) \/ (p = P /\ n = N),
           Faithful(pages[P][N], o[2])
    PROVE  Paging' /\ Along' /\ Steady' /\ ListingComplete'
<1>1. CASE o[2] = Error
  BY <1>1, GivenUp
<1>2. CASE o[2] # Error
  <2>1. pages[P][N] \in AllKeys
    BY PageFacts DEF VInv
  <2>2. /\ UNCHANGED <<backend, pages, status, partial, steady, task>> /\ task = "list"
        /\ got' = Append(got, pages[P][N]) \/ (got' = got /\ pages[P][N] \notin steady)
    BY <1>2, <2>1, CollectIs, Results, ZenonT(30) DEF StepOf, Faithful
  <2>. QED
    BY <2>2, PagedVisit
<1>. QED
  BY <1>1, <1>2

\* Where a listing in pages is.
LEMMA Place ==
    ASSUME VInv, task = "list", backend \in Paged, ~partial, WellPaged
    PROVE  /\ it \in IteratorType
           /\ it.page \in 0..Len(pages) /\ Len(pages) \in Nat /\ DOMAIN pages = 1..Len(pages)
           /\ it.idx \in Nat
           /\ it.page = 0 => it.idx = 0
           /\ it.page # 0 => it.page \in DOMAIN pages /\ it.idx <= Len(pages[it.page])
           /\ \A p \in DOMAIN pages : DOMAIN pages[p] = 1..Len(pages[p]) /\ Len(pages[p]) \in Nat
           /\ backend = "cloudkms" => (it.open <=> it.page > 0)
           /\ steady \subseteq Usable
<1>1. it \in IteratorType /\ it.idx \in Nat
  BY DEF VInv, VaultsTypeOK, IteratorType
<1>2. /\ it.page \in 0..Len(pages)
      /\ it.idx <= IF it.page = 0 THEN 0 ELSE Len(pages[it.page])
      /\ backend = "cloudkms" => (it.open <=> it.page > 0)
  BY DEF VInv, Paging
<1>3. /\ Len(pages) \in Nat /\ DOMAIN pages = 1..Len(pages)
      /\ \A p \in DOMAIN pages : DOMAIN pages[p] = 1..Len(pages[p]) /\ Len(pages[p]) \in Nat
  BY PageFacts DEF VInv
<1>4. steady \subseteq Usable
  BY DEF VInv, Steady, Paged
<1>. QED
  BY <1>1, <1>2, <1>3, <1>4

\* The next entry of the page, or the first of the next page.
LEMMA NextEntry ==
    ASSUME VInv, task = "list", backend \in Paged, ~partial, WellPaged, UNCHANGED pages,
           NEW P, NEW N,
           it'.page = P, it'.idx = N,
           \/ it.page # 0 /\ P = it.page /\ N = it.idx + 1 /\ it.idx < Len(pages[P])
           \/ /\ it.page = 0 \/ it.idx = Len(pages[it.page])
              /\ P = it.page + 1 /\ P <= Len(pages) /\ N = 1 /\ Len(pages[P]) > 0
    PROVE  /\ P \in DOMAIN pages /\ N \in DOMAIN pages[P] /\ ~Passed(P, N)
           /\ \A p \in DOMAIN pages : \A n \in DOMAIN pages[p] :
                 Passed(p, n)' <=> Passed(p, n) \/ (p = P /\ n = N)
<1>1. /\ it.page \in 0..Len(pages) /\ Len(pages) \in Nat /\ DOMAIN pages = 1..Len(pages)
      /\ it.idx \in Nat /\ (it.page = 0 => it.idx = 0)
      /\ it.page # 0 => it.page \in DOMAIN pages /\ it.idx <= Len(pages[it.page])
      /\ \A p \in DOMAIN pages : DOMAIN pages[p] = 1..Len(pages[p]) /\ Len(pages[p]) \in Nat
  BY Place
<1>2. CASE it.page # 0 /\ P = it.page /\ N = it.idx + 1 /\ it.idx < Len(pages[P])
  <2>1. P \in DOMAIN pages /\ N \in DOMAIN pages[P]
    BY <1>1, <1>2
  <2>2. ~Passed(P, N)
    BY <1>1, <1>2 DEF Passed
  <2>3. ASSUME NEW p \in DOMAIN pages, NEW n \in DOMAIN pages[p]
        PROVE  Passed(p, n)' <=> Passed(p, n) \/ (p = P /\ n = N)
    <3>1. p \in Nat /\ n \in Nat
      BY <1>1
    <3>. QED
      BY <1>1, <1>2, <3>1 DEF Passed
  <2>. QED
    BY <2>1, <2>2, <2>3
<1>3. CASE /\ it.page = 0 \/ it.idx = Len(pages[it.page])
           /\ P = it.page + 1 /\ P <= Len(pages) /\ N = 1 /\ Len(pages[P]) > 0
  <2>1. P \in DOMAIN pages
    BY <1>1, <1>3
  <2>2. N \in DOMAIN pages[P]
    BY <1>1, <1>3, <2>1
  <2>3. ~Passed(P, N)
    BY <1>1, <1>3 DEF Passed
  <2>4. ASSUME NEW p \in DOMAIN pages, NEW n \in DOMAIN pages[p]
        PROVE  Passed(p, n)' <=> Passed(p, n) \/ (p = P /\ n = N)
    <3>1. p \in Nat /\ p > 0 /\ n \in Nat /\ n > 0 /\ n <= Len(pages[p]) /\ Len(pages[p]) \in Nat
      BY <1>1
    <3>2. Passed(p, n)' <=> p <= it.page \/ (p = P /\ n = 1)
      BY <1>1, <1>3, <3>1 DEF Passed
    <3>3. Passed(p, n) <=> p <= it.page
      BY <1>1, <1>3, <3>1 DEF Passed
    <3>. QED
      BY <1>3, <3>2, <3>3
  <2>. QED
    BY <2>1, <2>2, <2>3, <2>4
<1>. QED
  BY <1>2, <1>3

-----------------------------------------------------------------------------
(* The vaults: AWS KMS, Azure Key Vault and Cloud KMS. *)

\* The iterator of the AWS vault: type first, then its place in the one page.
LEMMA AwsSteps ==
    ASSUME VInv, backend = "aws", NEW o \in awsNext(it), StepOf(o)
    PROVE  it' \in IteratorType /\ Paging' /\ Along' /\ Steady' /\ ListingComplete'
<1> DEFINE turn == it.page = 0 \/ it.idx = Len(pages[it.page])
           page == IF turn THEN it.page + 1 ELSE it.page
<1>1. it \in IteratorType /\ it.page \in Nat /\ it.idx \in Nat /\ page \in Nat /\ it.idx + 1 \in Nat
  <2>1. it \in IteratorType /\ it.page \in Nat /\ it.idx \in Nat
    BY DEF VInv, VaultsTypeOK, IteratorType
  <2> HIDE DEF turn
  <2>. QED
    BY <2>1
<1>2. \/ turn /\ it.page = Len(pages) /\ it.page > 0 /\ o = <<it, ErrDone>>
      \/ ~(turn /\ it.page = Len(pages) /\ it.page > 0) /\ o = <<it, Panic>>
      \/ /\ ~(turn /\ it.page = Len(pages) /\ it.page > 0) /\ ~(it.idx >= Len(pages[page]))
         /\ o = <<[it EXCEPT !.page = page, !.idx = it.idx + 1],
                  awsGetPublicKey(pages[page][it.idx + 1])>>
  BY DEF awsNext
<1> HIDE DEF turn, page
<1>3. it' \in IteratorType
  <2>1. [it EXCEPT !.page = page, !.idx = it.idx + 1] \in IteratorType
    BY <1>1, Moved
  <2>2. o[1] \in {it, [it EXCEPT !.page = page, !.idx = it.idx + 1]}
    BY <1>2
  <2>. QED
    BY <1>1, <2>1, <2>2 DEF StepOf
<1>4. CASE partial \/ ~WellPaged
  BY <1>3, <1>4, Unclaimed DEF StepOf, Paged
<1>5. CASE ~partial /\ WellPaged
  <2>1. task = "list" /\ backend \in Paged /\ Len(pages) = 1 /\ pages[1] # <<>>
    BY <1>5 DEF StepOf, Paged, WellPaged
  <2>2. /\ it.page \in 0..1 /\ DOMAIN pages = 1..1 /\ it.idx \in Nat
        /\ (it.page = 0 => it.idx = 0) /\ (it.page # 0 => it.idx <= Len(pages[it.page]))
        /\ DOMAIN pages[1] = 1..Len(pages[1]) /\ Len(pages[1]) \in Nat /\ steady \subseteq Usable
    BY <1>5, <2>1, Place
  <2>3. Len(pages[1]) > 0
    <3>1. pages[1] \in Seq(AllKeys)
      BY <2>2, PageFacts DEF VInv
    <3>. QED
      BY <2>1, <2>2, <3>1, EmptySeq
  <2>4. CASE turn /\ it.page = Len(pages) /\ it.page > 0 /\ o = <<it, ErrDone>>
    <3>1. \A p \in DOMAIN pages : \A n \in DOMAIN pages[p] : Passed(p, n)
      BY <2>1, <2>2, <2>4 DEF Passed, turn
    <3>. QED
      BY <1>3, <1>5, <2>1, <2>4, <3>1, CollectIs, PagedDone, Results DEF StepOf
  <2>5. CASE o = <<it, Panic>>
    BY <1>3, <2>5, GivenUp
  <2>6. CASE /\ ~(turn /\ it.page = Len(pages) /\ it.page > 0) /\ ~(it.idx >= Len(pages[page]))
             /\ o = <<[it EXCEPT !.page = page, !.idx = it.idx + 1],
                      awsGetPublicKey(pages[page][it.idx + 1])>>
    <3>1. it'.page = page /\ it'.idx = it.idx + 1
      BY <1>1, <2>6, Moved DEF StepOf
    <3>2. /\ page \in DOMAIN pages /\ it.idx + 1 \in DOMAIN pages[page] /\ ~Passed(page, it.idx + 1)
          /\ \A p \in DOMAIN pages : \A n \in DOMAIN pages[p] :
                Passed(p, n)' <=> Passed(p, n) \/ (p = page /\ n = it.idx + 1)
      <4>1. \/ it.page # 0 /\ page = it.page /\ it.idx < Len(pages[page])
            \/ it.page = 0 /\ page = it.page + 1 /\ page <= Len(pages) /\ it.idx + 1 = 1 /\ Len(pages[page]) > 0
        BY <2>1, <2>2, <2>3, <2>6 DEF turn, page
      <4>. QED
        BY <1>5, <2>1, <3>1, <4>1, NextEntry DEF StepOf
    <3>3. ASSUME NEW k \in AllKeys PROVE Faithful(k, awsGetPublicKey(k))
      <4>1. k \in steady => status[k] = "usable"
        BY <2>2 DEF Usable
      <4>. QED
        BY <4>1 DEF Faithful, awsGetPublicKey, ParsePKIXPublicKey
    <3>4. Faithful(pages[page][it.idx + 1], o[2])
      BY <2>6, <3>2, <3>3, PageFacts DEF VInv
    <3>. QED
      BY <1>3, <1>5, <2>1, <3>1, <3>2, <3>4, PagedTurn
  <2>. QED
    BY <1>2, <2>4, <2>5, <2>6
<1>. QED
  BY <1>3, <1>4, <1>5

\* The iterator of the Azure vault, over any number of pages that have keys.
LEMMA AzureSteps ==
    ASSUME VInv, backend = "azure", NEW o \in azureNext(it), StepOf(o)
    PROVE  it' \in IteratorType /\ Paging' /\ Along' /\ Steady' /\ ListingComplete'
<1> DEFINE turn == it.page = 0 \/ it.idx = Len(pages[it.page])
           page == IF turn THEN it.page + 1 ELSE it.page
           idx == IF turn THEN 1 ELSE it.idx + 1
<1>1. it \in IteratorType /\ it.page \in Nat /\ it.idx \in Nat /\ page \in Nat /\ idx \in Nat
  <2>1. it \in IteratorType /\ it.page \in Nat /\ it.idx \in Nat
    BY DEF VInv, VaultsTypeOK, IteratorType
  <2> HIDE DEF turn
  <2>. QED
    BY <2>1
<1>2. \/ turn /\ (it.page = Len(pages) \/ pages[page] = <<>>) /\ o = <<it, ErrDone>>
      \/ /\ ~(turn /\ (it.page = Len(pages) \/ pages[page] = <<>>))
         /\ o = <<[it EXCEPT !.page = page, !.idx = idx], azureGetKey(pages[page][idx])>>
  BY DEF azureNext
<1> HIDE DEF turn, page, idx
<1>3. it' \in IteratorType
  <2>1. [it EXCEPT !.page = page, !.idx = idx] \in IteratorType
    BY <1>1, Moved
  <2>2. o[1] \in {it, [it EXCEPT !.page = page, !.idx = idx]}
    BY <1>2
  <2>. QED
    BY <1>1, <2>1, <2>2 DEF StepOf
<1>4. CASE partial \/ ~WellPaged
  BY <1>3, <1>4, Unclaimed DEF StepOf, Paged
<1>5. CASE ~partial /\ WellPaged
  <2>1. task = "list" /\ backend \in Paged /\ \A p \in DOMAIN pages : pages[p] # <<>>
    BY <1>5 DEF StepOf, Paged, WellPaged
  <2>2. /\ it.page \in 0..Len(pages) /\ Len(pages) \in Nat /\ DOMAIN pages = 1..Len(pages)
        /\ it.idx \in Nat
        /\ (it.page = 0 => it.idx = 0) /\ (it.page # 0 => it.page \in DOMAIN pages /\ it.idx <= Len(pages[it.page]))
        /\ \A p \in DOMAIN pages : DOMAIN pages[p] = 1..Len(pages[p]) /\ Len(pages[p]) \in Nat
        /\ steady \subseteq Usable
    BY <1>5, <2>1, Place
  <2>3. \A p \in DOMAIN pages : Len(pages[p]) > 0
    <3>1. \A p \in DOMAIN pages : pages[p] \in Seq(AllKeys)
      BY PageFacts DEF VInv
    <3>. QED
      BY <2>1, <2>2, <3>1, EmptySeq
  <2>4. CASE turn /\ (it.page = Len(pages) \/ pages[page] = <<>>) /\ o = <<it, ErrDone>>
    <3>1. it.page = Len(pages)
      <4>1. it.page # Len(pages) => page \in DOMAIN pages
        BY <2>2, <2>4 DEF page
      <4>. QED
        BY <2>1, <2>4, <4>1
    <3>2. ASSUME NEW p \in DOMAIN pages, NEW n \in DOMAIN pages[p] PROVE Passed(p, n)
      <4>1. p \in Nat /\ p > 0 /\ p <= it.page /\ n \in Nat /\ n <= Len(pages[p]) /\ Len(pages[p]) \in Nat
        BY <2>2, <3>1
      <4>. QED
        BY <2>2, <2>4, <4>1 DEF Passed, turn
    <3>. QED
      BY <1>3, <1>5, <2>1, <2>4, <3>2, CollectIs, PagedDone, Results DEF StepOf
  <2>5. CASE /\ ~(turn /\ (it.page = Len(pages) \/ pages[page] = <<>>))
             /\ o = <<[it EXCEPT !.page = page, !.idx = idx], azureGetKey(pages[page][idx])>>
    <3>1. it'.page = page /\ it'.idx = idx
      BY <1>1, <2>5, Moved DEF StepOf
    <3>2. /\ page \in DOMAIN pages /\ idx \in DOMAIN pages[page] /\ ~Passed(page, idx)
          /\ \A p \in DOMAIN pages : \A n \in DOMAIN pages[p] :
                Passed(p, n)' <=> Passed(p, n) \/ (p = page /\ n = idx)
      <4>1. \/ it.page # 0 /\ page = it.page /\ idx = it.idx + 1 /\ it.idx < Len(pages[page])
            \/ /\ it.page = 0 \/ it.idx = Len(pages[it.page])
               /\ page = it.page + 1 /\ page <= Len(pages) /\ idx = 1 /\ Len(pages[page]) > 0
        <5>1. CASE turn
          <6>1. page = it.page + 1 /\ idx = 1 /\ page \in DOMAIN pages /\ page <= Len(pages)
            BY <2>2, <2>5, <5>1 DEF page, idx
          <6>. QED
            BY <2>3, <5>1, <6>1 DEF turn
        <5>2. CASE ~turn
          BY <2>2, <5>2 DEF turn, page, idx
        <5>. QED
          BY <5>1, <5>2
      <4>. QED
        BY <1>5, <2>1, <3>1, <4>1, NextEntry DEF StepOf
    <3>3. ASSUME NEW k \in AllKeys PROVE Faithful(k, azureGetKey(k))
      <4>1. (k \in steady => status[k] = "usable") /\ status[k] \in Statuses
        BY <2>2 DEF Usable, VInv, VaultsTypeOK
      <4>. QED
        BY <4>1 DEF Faithful, azureGetKey, Statuses
    <3>4. Faithful(pages[page][idx], o[2])
      BY <2>5, <3>2, <3>3, PageFacts DEF VInv
    <3>. QED
      BY <1>3, <1>5, <2>1, <3>1, <3>2, <3>4, PagedTurn
  <2>. QED
    BY <1>2, <2>4, <2>5
<1>. QED
  BY <1>3, <1>4, <1>5

\* The crypto keys of Cloud KMS that sign and are yet to come.
Later == {p \in DOMAIN pages : p > it.page /\ Signing(p)}
\* ... and the first of them, which is the page the iterator goes on with.
NextLater == CHOOSE p \in Later : \A q \in Later : p <= q

\* It is there when there are any.
LEMMA NextLaterIs ==
    ASSUME VInv, Later # {}
    PROVE  /\ NextLater \in DOMAIN pages /\ NextLater > it.page /\ NextLater \in Nat
           /\ \A q \in Later : NextLater <= q
<1>1. Later \in SUBSET Nat
  BY PageFacts DEF VInv, Later
<1>2. \E m \in Later : \A k \in Later : m <= k
  BY <1>1, LeastNumber
<1>3. NextLater \in Later /\ \A q \in Later : NextLater <= q
  BY <1>2 DEF NextLater
<1>. QED
  BY <1>1, <1>3 DEF Later

\* The iterator of the Cloud KMS vault: the versions of a crypto key, or the
\* next crypto key that signs.
LEMMA CloudkmsSteps ==
    ASSUME VInv, backend = "cloudkms", NEW o \in cloudkmsNext(it), StepOf(o)
    PROVE  it' \in IteratorType /\ Paging' /\ Along' /\ Steady' /\ ListingComplete'
<1> DEFINE inside == it.open /\ it.idx < Len(pages[it.page])
<1>1. it \in IteratorType /\ it.page \in Nat /\ it.idx \in Nat /\ it.idx + 1 \in Nat
  <2>1. it \in IteratorType /\ it.page \in Nat /\ it.idx \in Nat
    BY DEF VInv, VaultsTypeOK, IteratorType
  <2>. QED
    BY <2>1
<1>2. \/ /\ inside
         /\ o[1] = [it EXCEPT !.idx = it.idx + 1]
         /\ o[2] \in cloudkmsGetPublicKey(pages[it.page][it.idx + 1])
      \/ ~inside /\ Later = {} /\ o = <<[it EXCEPT !.open = FALSE], ErrDone>>
      \/ ~inside /\ Later # {} /\ o = <<[it EXCEPT !.page = NextLater, !.idx = 0, !.open = TRUE], Again>>
  BY DEF cloudkmsNext, Later, NextLater
<1> HIDE DEF inside
<1>3. it' \in IteratorType
  <2>1. [it EXCEPT !.idx = it.idx + 1] \in IteratorType
    BY <1>1, Moved
  <2>2. [it EXCEPT !.open = FALSE] \in IteratorType
    BY <1>1 DEF IteratorType
  <2>3. Later # {} => [it EXCEPT !.page = NextLater, !.idx = 0, !.open = TRUE] \in IteratorType
    BY <1>1, NextLaterIs DEF IteratorType
  <2>4. \/ o[1] \in {[it EXCEPT !.idx = it.idx + 1], [it EXCEPT !.open = FALSE]}
        \/ Later # {} /\ o[1] = [it EXCEPT !.page = NextLater, !.idx = 0, !.open = TRUE]
    BY <1>2
  <2>. QED
    BY <2>1, <2>2, <2>3, <2>4 DEF StepOf
<1>4. CASE partial \/ ~WellPaged
  BY <1>3, <1>4, Unclaimed DEF StepOf, Paged
<1>5. CASE ~partial /\ WellPaged
  <2>1. task = "list" /\ backend \in Paged
    BY DEF StepOf, Paged
  <2>2. /\ it.page \in 0..Len(pages) /\ Len(pages) \in Nat /\ DOMAIN pages = 1..Len(pages)
        /\ it.idx \in Nat
        /\ (it.page = 0 => it.idx = 0) /\ (it.page # 0 => it.page \in DOMAIN pages /\ it.idx <= Len(pages[it.page]))
        /\ \A p \in DOMAIN pages : DOMAIN pages[p] = 1..Len(pages[p]) /\ Len(pages[p]) \in Nat
        /\ it.open <=> it.page > 0
        /\ steady \subseteq Usable
    BY <1>5, <2>1, Place
  <2>3. CASE /\ inside
             /\ o[1] = [it EXCEPT !.idx = it.idx + 1]
             /\ o[2] \in cloudkmsGetPublicKey(pages[it.page][it.idx + 1])
    <3>1. it'.page = it.page /\ it'.idx = it.idx + 1 /\ it'.open = it.open
      <4>1. it' = [it EXCEPT !.idx = it.idx + 1]
        BY <2>3 DEF StepOf
      <4>. QED
        BY <1>1, <4>1, Moved
    <3>2. it.open /\ it.page # 0 /\ it.idx < Len(pages[it.page])
      BY <2>2, <2>3 DEF inside
    <3>3. /\ it.page \in DOMAIN pages /\ it.idx + 1 \in DOMAIN pages[it.page]
          /\ ~Passed(it.page, it.idx + 1)
          /\ \A p \in DOMAIN pages : \A n \in DOMAIN pages[p] :
                Passed(p, n)' <=> Passed(p, n) \/ (p = it.page /\ n = it.idx + 1)
      BY <1>5, <2>1, <3>1, <3>2, NextEntry DEF StepOf
    <3>4. ASSUME NEW k \in AllKeys, NEW r \in cloudkmsGetPublicKey(k), r # Panic
          PROVE  Faithful(k, r)
      <4>1. (k \in steady => status[k] = "usable") /\ status[k] \in Statuses
        BY <2>2 DEF Usable, VInv, VaultsTypeOK
      <4>2. r \in {k, Again, Error} /\ (status[k] = "usable" => r = k)
        BY <3>4, <4>1, Zenon DEF cloudkmsGetPublicKey, ParsePKIXPublicKey, Statuses
      <4>. QED
        BY <4>1, <4>2 DEF Faithful
    <3>5. CASE o[2] = Panic
      BY <1>3, <3>5, GivenUp
    <3>6. CASE o[2] # Panic
      <4>1. pages[it.page][it.idx + 1] \in AllKeys
        BY <3>3, PageFacts DEF VInv
      <4>2. Faithful(pages[it.page][it.idx + 1], o[2])
        BY <2>3, <3>4, <3>6, <4>1
      <4>. QED
        BY <1>3, <1>5, <2>1, <3>1, <3>2, <3>3, <4>2, PagedTurn
    <3>. QED
      BY <3>5, <3>6
  <2>4. ASSUME ~inside, NEW p \in DOMAIN pages, NEW n \in DOMAIN pages[p]
        PROVE  Passed(p, n) <=> p <= it.page
    <3>1. p \in Nat /\ p > 0 /\ n \in Nat /\ n <= Len(pages[p]) /\ Len(pages[p]) \in Nat
      BY <2>2
    <3>2. it.page # 0 => it.idx = Len(pages[it.page])
      BY <2>2, <2>4 DEF inside
    <3>. QED
      BY <2>2, <3>1, <3>2 DEF Passed
  <2>5. ASSUME NEW p \in DOMAIN pages, NEW n \in DOMAIN pages[p], p > it.page, p \notin Later
        PROVE  pages[p][n] \notin steady
    <3>1. ~Signing(p) /\ OnePurpose(p)
      BY <2>5 DEF Later, VInv, Store
    <3>2. pages[p][n] \in Range(pages[p])
      BY DEF Range
    <3>3. status[pages[p][n]] = "foreign"
      BY <3>1, <3>2 DEF OnePurpose
    <3>. QED
      BY <2>2, <3>3 DEF Usable
  <2>6. CASE ~inside /\ Later = {} /\ o = <<[it EXCEPT !.open = FALSE], ErrDone>>
    <3>1. ASSUME NEW p \in DOMAIN pages, NEW n \in DOMAIN pages[p]
          PROVE  Passed(p, n) \/ pages[p][n] \notin steady
      <4>1. p <= it.page \/ p > it.page
        BY <2>2
      <4>. QED
        BY <2>4, <2>5, <2>6, <4>1
    <3>. QED
      BY <1>3, <1>5, <2>1, <2>6, <3>1, CollectIs, PagedDone, Results DEF StepOf
  <2>7. CASE ~inside /\ Later # {} /\ o = <<[it EXCEPT !.page = NextLater, !.idx = 0, !.open = TRUE], Again>>
    <3>1. /\ NextLater \in DOMAIN pages /\ NextLater > it.page /\ NextLater \in Nat
          /\ \A q \in Later : NextLater <= q
      BY <2>7, NextLaterIs
    <3>2. it'.page = NextLater /\ it'.idx = 0 /\ it'.open
      BY <1>1, <2>7 DEF StepOf, IteratorType
    <3>3. ASSUME NEW p \in DOMAIN pages, NEW n \in DOMAIN pages[p]
          PROVE  /\ Passed(p, n) => Passed(p, n)'
                 /\ Passed(p, n)' => Passed(p, n) \/ pages[p][n] \notin steady
      <4>1. p \in Nat /\ n \in Nat /\ n > 0
        BY <2>2
      <4>2. Passed(p, n)' <=> p < NextLater
        BY <3>1, <3>2, <4>1 DEF Passed
      <4>3. Passed(p, n) <=> p <= it.page
        BY <2>4, <2>7
      <4>4. p < NextLater => p \notin Later
        BY <3>1, <4>1
      <4>5. p <= it.page \/ p > it.page
        BY <2>2, <4>1
      <4>6. p <= it.page => p < NextLater
        BY <2>2, <3>1, <4>1
      <4>. QED
        BY <2>5, <4>2, <4>3, <4>4, <4>5, <4>6
    <3>4. UNCHANGED <<backend, pages, status, partial, steady, task, got>>
      BY <2>7, CollectIs DEF StepOf
    <3>. QED
      BY <1>3, <1>5, <2>1, <3>1, <3>2, <3>3, <3>4, PagedSkip
  <2>. QED
    BY <1>2, <2>3, <2>6, <2>7
<1>. QED
  BY <1>3, <1>4, <1>5

-----------------------------------------------------------------------------
(* The vaults: HashiCorp Vault, YubiHSM, PKCS#11 and the memory vault. *)

\* The list a listing goes along.
LEMMA ListIs ==
    ASSUME VInv, task = "list", backend \in AtOnce
    PROVE  /\ it \in IteratorType /\ it.idx \in Nat
           /\ TheList = Unset => it.idx = 0 /\ got = <<>> /\ backend \in {"hashicorp", "yubi"}
           /\ TheList # Unset =>
                 /\ TheList \in Seq(AllKeys) /\ Len(TheList) \in Nat /\ DOMAIN TheList = 1..Len(TheList)
                 /\ it.idx <= Len(TheList)
                 /\ OnceOnly(TheList)
                 /\ steady \subseteq Range(TheList)
                 /\ \A n \in DOMAIN TheList : TheList[n] \in AllKeys
                 /\ backend = "yubi" => \A n \in DOMAIN TheList : status[TheList[n]] # "foreign"
           /\ WellPaged /\ (~partial => OnceOnly(got)) /\ got \in Seq(AllKeys)
<1>1. it \in IteratorType /\ it.idx \in Nat /\ got \in Seq(AllKeys) /\ vkeys \in Seq(AllKeys)
      /\ it.list \in Seq(AllKeys) \cup {Unset}
  BY DEF VInv, VaultsTypeOK, IteratorType
<1>2. TheList # Unset => TheList \in Seq(AllKeys)
  BY <1>1 DEF TheList
<1>3. TheList # Unset => /\ Len(TheList) \in Nat /\ DOMAIN TheList = 1..Len(TheList)
                         /\ \A n \in DOMAIN TheList : TheList[n] \in AllKeys
  BY <1>2
<1>4. WellPaged
  BY DEF WellPaged, AtOnce
<1>5. ~partial => OnceOnly(got)
  BY <1>4 DEF VInv, Steady
<1>. QED
  BY <1>1, <1>2, <1>3, <1>4, <1>5 DEF VInv, Along

\* The next key of the list, looked at by whichever iterator.
LEMMA AlongTurn ==
    ASSUME VInv, backend \in AtOnce, TheList # Unset, it.idx < Len(TheList),
           NEW o, StepOf(o), it' = [it EXCEPT !.idx = it.idx + 1],
           Faithful(TheList[it.idx + 1], o[2])
    PROVE  Paging' /\ Along' /\ Steady' /\ ListingComplete'
<1> DEFINE k == TheList[it.idx + 1]
<1>1. CASE o[2] = Error
  BY <1>1, GivenUp
<1>2. CASE o[2] # Error
  <2>1. /\ it.idx \in Nat /\ Len(TheList) \in Nat /\ DOMAIN TheList = 1..Len(TheList)
        /\ OnceOnly(TheList) /\ steady \subseteq Range(TheList)
        /\ \A n \in DOMAIN TheList : TheList[n] \in AllKeys
        /\ backend = "yubi" => \A n \in DOMAIN TheList : status[TheList[n]] # "foreign"
        /\ WellPaged /\ (~partial => OnceOnly(got)) /\ got \in Seq(AllKeys)
    BY ListIs DEF StepOf
  <2>2. it.idx + 1 \in DOMAIN TheList /\ ~(it.idx + 1 <= it.idx) /\ it.idx + 1 \in Nat
    BY <2>1
  <2>3. k \in AllKeys /\ k \notin Range(got)
    BY <2>1, <2>2 DEF VInv, Along, StepOf
  <2>4. UNCHANGED <<backend, pages, status, vkeys, partial, steady, task>> /\ task = "list"
        /\ (got' = Append(got, k) \/ (got' = got /\ k \notin steady))
    BY <1>2, <2>3, CollectIs, Results DEF StepOf, Faithful
  <2>5. it'.idx = it.idx + 1 /\ it'.list = it.list
    BY <2>2, Moved
  <2>6. TheList' = TheList /\ WellPaged' = WellPaged /\ Usable' = Usable
    BY <2>4, <2>5 DEF TheList, WellPaged, Usable, Listed
  <2>7. /\ Range(got') \in {Range(got), Range(got) \cup {k}}
        /\ (~partial => OnceOnly(got')) /\ (k \in steady => k \in Range(got'))
    <3>1. CASE got' = Append(got, k)
      BY <2>1, <2>3, <3>1, Appended
    <3>2. CASE got' = got /\ k \notin steady
      BY <2>1, <3>2
    <3>. QED
      BY <2>4, <3>1, <3>2
  <2>8. ASSUME NEW n \in DOMAIN TheList
        PROVE  IF n <= it.idx + 1 THEN TheList[n] \in steady => TheList[n] \in Range(got')
               ELSE TheList[n] \notin Range(got')
    <3>1. IF n <= it.idx THEN TheList[n] \in steady => TheList[n] \in Range(got)
          ELSE TheList[n] \notin Range(got)
      BY DEF VInv, Along, StepOf
    <3>2. CASE n = it.idx + 1
      BY <2>1, <2>7, <3>2
    <3>3. CASE n # it.idx + 1
      <4>1. TheList[n] # k
        BY <2>1, <2>2, <3>3 DEF OnceOnly
      <4>2. n <= it.idx + 1 <=> n <= it.idx
        BY <2>1, <3>3
      <4>. QED
        BY <2>7, <3>1, <4>1, <4>2
    <3>. QED
      BY <3>2, <3>3
  <2>9. Along'
    <3>1. OnceOnly(TheList)' /\ it'.idx <= Len(TheList')
      BY <2>1, <2>2, <2>5, <2>6 DEF OnceOnly
    <3>. QED
      BY <2>1, <2>4, <2>5, <2>6, <2>8, <3>1 DEF Along
  <2>10. Paging'
    BY <2>4 DEF Paging, Paged, AtOnce
  <2>11. Steady' /\ ListingComplete'
    <3>1. ~partial => OnceOnly(got)'
      BY <2>7 DEF OnceOnly
    <3>. QED
      BY <2>4, <2>6, <3>1 DEF VInv, Steady, ListingComplete
  <2>. QED
    BY <2>9, <2>10, <2>11
<1>. QED
  BY <1>1, <1>2

\* The end of the list.
LEMMA AlongDone ==
    ASSUME VInv, backend \in AtOnce, TheList # Unset, it.idx >= Len(TheList),
           NEW o, StepOf(o), o[2] = ErrDone
    PROVE  Paging' /\ Along' /\ Steady' /\ ListingComplete'
<1>1. /\ task = "list" /\ task' = "idle" /\ answer' = ErrDone /\ UNCHANGED <<got, steady, partial>>
  BY CollectIs DEF StepOf
<1>2. Paging' /\ Along' /\ Steady'
  BY <1>1 DEF Paging, Along, Steady
<1>3. /\ it.idx \in Nat /\ Len(TheList) \in Nat /\ DOMAIN TheList = 1..Len(TheList)
      /\ steady \subseteq Range(TheList) /\ (~partial => OnceOnly(got))
  BY <1>1, ListIs
<1>4. ASSUME NEW n \in DOMAIN TheList, TheList[n] \in steady PROVE TheList[n] \in Range(got)
  <2>1. n <= it.idx
    BY <1>3
  <2>. QED
    BY <1>1, <1>4, <2>1 DEF VInv, Along
<1>5. steady \subseteq Range(got)
  BY <1>3, <1>4 DEF Range
<1>6. ListingComplete'
  BY <1>1, <1>3, <1>5 DEF ListingComplete, OnceOnly
<1>. QED
  BY <1>2, <1>6

\* The list is read.
LEMMA AlongRead ==
    ASSUME VInv, backend \in {"hashicorp", "yubi"}, it.list = Unset,
           NEW o, StepOf(o), o[2] = Again, NEW s \in Seq(AllKeys), it' = [it EXCEPT !.list = s],
           OnceOnly(s), Usable \subseteq Range(s),
           backend = "yubi" => \A n \in DOMAIN s : status[s[n]] # "foreign"
    PROVE  it' \in IteratorType /\ Paging' /\ Along' /\ Steady' /\ ListingComplete'
<1>1. /\ task = "list" /\ UNCHANGED <<backend, pages, status, vkeys, partial, steady, task, got, answer>>
  BY CollectIs DEF StepOf
<1>2. backend \in AtOnce /\ backend # "pkcs11" /\ TheList = Unset /\ s # Unset
  BY VaultsAssumption DEF AtOnce, TheList
<1>3. it \in IteratorType /\ it.idx = 0 /\ got = <<>>
  BY <1>1, <1>2, ListIs
<1>4. it' \in IteratorType /\ it'.idx = 0 /\ it'.list = s
  BY <1>3 DEF IteratorType
<1>5. TheList' = s /\ Usable' = Usable /\ Range(got') = {}
  <2>1. Range(<<>>) = {}
    BY DEF Range
  <2>2. Range(got') = {}
    BY <1>1, <1>3, <2>1
  <2>. QED
    BY <1>1, <1>2, <1>4, <2>2 DEF TheList, Usable, Listed
<1>6. steady \subseteq Usable
  BY <1>1 DEF VInv, Steady
<1>7. Along'
  <2>1. OnceOnly(TheList)'
    BY <1>5 DEF OnceOnly
  <2>2. Len(s) \in Nat /\ \A n \in DOMAIN s : ~(n <= 0)
    OBVIOUS
  <2>. QED
    BY <1>1, <1>2, <1>4, <1>5, <1>6, <2>1, <2>2 DEF Along
<1>8. Paging'
  BY <1>1 DEF Paging, Paged
<1>9. Steady' /\ ListingComplete'
  <2>1. OnceOnly(got)' <=> OnceOnly(got)
    BY <1>1 DEF OnceOnly
  <2>2. WellPaged' = WellPaged
    BY <1>1 DEF WellPaged
  <2>. QED
    BY <1>1, <1>5, <2>1, <2>2 DEF VInv, Steady, ListingComplete
<1>. QED
  BY <1>4, <1>7, <1>8, <1>9

\* The keys of all pages, and the objects of the YubiHSM, each once.
LEMMA FlatIs ==
    ASSUME VInv
    PROVE  /\ Flat \in Seq(AllKeys) /\ Range(Flat) = Listed /\ OnceOnly(Flat)
           /\ listObjects \in Seq(AllKeys) /\ OnceOnly(listObjects)
           /\ Range(listObjects) = {k \in Listed : status[k] # "foreign"}
<1>1. /\ Flat \in Seq(AllKeys) /\ Range(Flat) = Listed /\ OnceOnly(Flat)
  BY FlattenFacts DEF VInv, VaultsTypeOK, Store, Flat, Listed
<1> DEFINE S == {k \in Listed : status[k] # "foreign"}
<1>2. Listed \cap S = S
  OBVIOUS
<1> HIDE DEF S
<1>3. Only(Flat, S) \in Seq(AllKeys) /\ OnceOnly(Only(Flat, S)) /\ Range(Only(Flat, S)) = Range(Flat) \cap S
  BY <1>1, OnlyFacts
<1>. QED
  BY <1>1, <1>2, <1>3 DEF S, listObjects

\* The iterator of the HashiCorp vault.
LEMMA HashicorpSteps ==
    ASSUME VInv, backend = "hashicorp", NEW o \in hashicorpNext(it), StepOf(o)
    PROVE  it' \in IteratorType /\ Paging' /\ Along' /\ Steady' /\ ListingComplete'
<1>1. task = "list" /\ backend \in AtOnce /\ TheList = it.list
  BY DEF StepOf, AtOnce, TheList
<1>2. it \in IteratorType /\ it.idx \in Nat /\ it.idx + 1 \in Nat
  <2>1. it \in IteratorType /\ it.idx \in Nat
    BY <1>1, ListIs
  <2>. QED
    BY <2>1
<1>3. CASE it.list = Unset
  <2>1. \/ o[1] = [it EXCEPT !.list = Flat] /\ o[2] = Again
        \/ o[1] = [it EXCEPT !.list = Unset] /\ o[2] \in {Error, Panic}
    <3>1. PICK a \in hashicorpListKeys : o = <<[it EXCEPT !.list = a[1]], a[2]>>
      BY <1>3 DEF hashicorpNext
    <3>2. a \in {<<Flat, Again>>, <<Unset, Error>>, <<Unset, Panic>>}
      BY DEF hashicorpListKeys
    <3>. QED
      BY <3>1, <3>2
  <2>2. CASE o[1] = [it EXCEPT !.list = Flat] /\ o[2] = Again
    <3>1. Usable \subseteq Range(Flat)
      BY FlatIs DEF Usable
    <3>. QED
      BY <1>3, <2>2, <3>1, FlatIs, AlongRead DEF StepOf
  <2>3. CASE o[1] = [it EXCEPT !.list = Unset] /\ o[2] \in {Error, Panic}
    <3>1. it' \in IteratorType
      BY <1>2, <2>3 DEF StepOf, IteratorType
    <3>. QED
      BY <2>3, <3>1, GivenUp
  <2>. QED
    BY <2>1, <2>2, <2>3
<1>4. CASE it.list # Unset /\ it.idx = Len(it.list)
  <2>1. o = <<it, ErrDone>>
    BY <1>4 DEF hashicorpNext
  <2>. QED
    BY <1>1, <1>2, <1>4, <2>1, AlongDone DEF StepOf
<1>5. CASE it.list # Unset /\ it.idx # Len(it.list)
  <2>1. o = <<[it EXCEPT !.idx = it.idx + 1], hashicorpGetPublicKey(it.list[it.idx + 1])>>
    BY <1>5 DEF hashicorpNext
  <2>2. /\ Len(TheList) \in Nat /\ it.idx <= Len(TheList) /\ DOMAIN TheList = 1..Len(TheList)
        /\ \A n \in DOMAIN TheList : TheList[n] \in AllKeys
    BY <1>1, <1>5, ListIs
  <2>3. it.idx < Len(TheList) /\ TheList[it.idx + 1] \in AllKeys
    BY <1>1, <1>2, <1>5, <2>2
  <2>4. ASSUME NEW k \in AllKeys PROVE Faithful(k, hashicorpGetPublicKey(k))
    <3>1. (k \in steady => status[k] = "usable") /\ status[k] \in Statuses
      BY <1>1 DEF VInv, VaultsTypeOK, Steady, Usable
    <3>. QED
      BY <3>1 DEF Faithful, hashicorpGetPublicKey, hashicorpGetKey, Statuses
  <2>5. Faithful(TheList[it.idx + 1], o[2])
    BY <1>1, <2>1, <2>3, <2>4
  <2>6. it' = [it EXCEPT !.idx = it.idx + 1] /\ it' \in IteratorType
    BY <1>2, <2>1, Moved DEF StepOf
  <2>. QED
    BY <1>1, <1>5, <2>3, <2>5, <2>6, AlongTurn
<1>. QED
  BY <1>3, <1>4, <1>5

\* The iterator of the YubiHSM vault.
LEMMA YubiSteps ==
    ASSUME VInv, backend = "yubi", NEW o \in yubiNext(it), StepOf(o)
    PROVE  it' \in IteratorType /\ Paging' /\ Along' /\ Steady' /\ ListingComplete'
<1>1. task = "list" /\ backend \in AtOnce /\ TheList = it.list
  BY DEF StepOf, AtOnce, TheList
<1>2. it \in IteratorType /\ it.idx \in Nat /\ it.idx + 1 \in Nat
  <2>1. it \in IteratorType /\ it.idx \in Nat
    BY <1>1, ListIs
  <2>. QED
    BY <2>1
<1>3. CASE it.list = Unset
  <2>1. o = <<[it EXCEPT !.list = listObjects], Again>>
    BY <1>3 DEF yubiNext
  <2>2. Usable \subseteq Range(listObjects)
    BY FlatIs DEF Usable
  <2>3. \A n \in DOMAIN listObjects : status[listObjects[n]] # "foreign"
    <3>1. \A n \in DOMAIN listObjects : listObjects[n] \in Range(listObjects)
      BY DEF Range
    <3>. QED
      BY <3>1, FlatIs
  <2>. QED
    BY <1>3, <2>1, <2>2, <2>3, FlatIs, AlongRead DEF StepOf
<1>4. CASE it.list # Unset /\ it.idx = Len(it.list)
  <2>1. o = <<it, ErrDone>>
    BY <1>4 DEF yubiNext
  <2>. QED
    BY <1>1, <1>2, <1>4, <2>1, AlongDone DEF StepOf
<1>5. CASE it.list # Unset /\ it.idx # Len(it.list)
  <2> DEFINE k == it.list[it.idx + 1]
  <2>1. o = <<IF status[k] = "refused" THEN it ELSE [it EXCEPT !.idx = it.idx + 1], yubiParsePublicKey(k)>>
    BY <1>5 DEF yubiNext
  <2>2. /\ Len(TheList) \in Nat /\ it.idx <= Len(TheList) /\ DOMAIN TheList = 1..Len(TheList)
        /\ \A n \in DOMAIN TheList : TheList[n] \in AllKeys /\ status[TheList[n]] # "foreign"
    BY <1>1, <1>5, ListIs
  <2>3. it.idx < Len(TheList) /\ k \in AllKeys /\ status[k] # "foreign"
    BY <1>1, <1>2, <1>5, <2>2
  <2>4. (k \in steady => status[k] = "usable") /\ status[k] \in Statuses
    BY <1>1, <2>3 DEF VInv, VaultsTypeOK, Steady, Usable
  <2> HIDE DEF k
  <2>5. Faithful(k, yubiParsePublicKey(k)) /\ (status[k] = "refused" => yubiParsePublicKey(k) = Error)
    BY <2>3, <2>4 DEF Faithful, yubiParsePublicKey, Statuses
  <2>6. CASE status[k] = "refused"
    <3>1. o[2] = Error /\ it' = it
      BY <2>1, <2>5, <2>6 DEF StepOf
    <3>. QED
      BY <1>2, <3>1, GivenUp
  <2>7. CASE status[k] # "refused"
    <3>1. it' = [it EXCEPT !.idx = it.idx + 1] /\ it' \in IteratorType
      BY <1>2, <2>1, <2>7, Moved DEF StepOf
    <3>2. Faithful(TheList[it.idx + 1], o[2])
      BY <1>1, <2>1, <2>5 DEF k
    <3>. QED
      BY <1>1, <1>5, <2>3, <3>1, <3>2, AlongTurn
  <2>. QED
    BY <2>6, <2>7
<1>. QED
  BY <1>3, <1>4, <1>5

\* The iterators of the PKCS#11 vault and the memory vault.
LEMMA LocalSteps ==
    ASSUME VInv, NEW o, StepOf(o),
           \/ backend = "pkcs11" /\ o \in pkcs11Next(it)
           \/ backend = "memory" /\ o \in memoryNext(it)
    PROVE  it' \in IteratorType /\ Paging' /\ Along' /\ Steady' /\ ListingComplete'
<1>1. task = "list" /\ backend \in AtOnce
  BY DEF StepOf, AtOnce
<1>2. TheList # Unset
  BY <1>1, ListIs
<1>3. TheList = IF backend = "pkcs11" THEN vkeys ELSE it.list
  BY DEF TheList
<1>4. it \in IteratorType /\ it.idx \in Nat /\ it.idx + 1 \in Nat
  <2>1. it \in IteratorType /\ it.idx \in Nat
    BY <1>1, ListIs
  <2>. QED
    BY <2>1
<1>5. \/ it.idx >= Len(TheList) /\ o = <<it, ErrDone>>
      \/ ~(it.idx >= Len(TheList)) /\ o = <<[it EXCEPT !.idx = it.idx + 1], TheList[it.idx + 1]>>
  BY <1>3 DEF pkcs11Next, memoryNext
<1>6. CASE it.idx >= Len(TheList) /\ o = <<it, ErrDone>>
  BY <1>1, <1>2, <1>4, <1>6, AlongDone DEF StepOf
<1>7. CASE ~(it.idx >= Len(TheList)) /\ o = <<[it EXCEPT !.idx = it.idx + 1], TheList[it.idx + 1]>>
  <2>1. it.idx < Len(TheList)
    BY <1>1, <1>2, <1>4, <1>7, ListIs
  <2>2. it' = [it EXCEPT !.idx = it.idx + 1] /\ it' \in IteratorType
    BY <1>4, <1>7, Moved DEF StepOf
  <2>3. Faithful(TheList[it.idx + 1], o[2])
    BY <1>7 DEF Faithful
  <2>. QED
    BY <1>1, <1>2, <2>1, <2>2, <2>3, AlongTurn
<1>. QED
  BY <1>5, <1>6, <1>7

\* A step of a listing, of any of the vaults.
LEMMA ListStepKeeps ==
    ASSUME VInv, ListStep
    PROVE  VInv'
<1>1. task = "list" /\ Counting /\ partial' \in BOOLEAN
      /\ UNCHANGED <<backend, pages, status, vkeys, token, retries, stage, tries, ended, steady,
                     partial, hurt, acked, count>>
  BY DEF ListStep, Counting, VInv, VaultsTypeOK
<1>2. PICK o \in IteratorNext(it) : it' = o[1] /\ Collect(o[2])
  BY DEF ListStep
<1>3. StepOf(o)
  BY <1>1, <1>2 DEF StepOf
<1>4. it' \in IteratorType /\ Paging' /\ Along' /\ Steady' /\ ListingComplete'
  <2>1. backend \in {"aws", "azure", "cloudkms", "hashicorp", "yubi", "pkcs11", "memory"}
    BY VaultsAssumption DEF VInv, VaultsTypeOK
  <2>2. \/ backend = "aws" /\ o \in awsNext(it)
        \/ backend = "azure" /\ o \in azureNext(it)
        \/ backend = "cloudkms" /\ o \in cloudkmsNext(it)
        \/ backend = "hashicorp" /\ o \in hashicorpNext(it)
        \/ backend = "yubi" /\ o \in yubiNext(it)
        \/ backend = "pkcs11" /\ o \in pkcs11Next(it)
        \/ backend = "memory" /\ o \in memoryNext(it)
    BY <1>2, <2>1 DEF IteratorNext
  <2>. QED
    BY <1>3, <2>2, AwsSteps, AzureSteps, CloudkmsSteps, HashicorpSteps, YubiSteps, LocalSteps
<1>5. /\ got' \in Seq(AllKeys)
      /\ \/ task' = "list" /\ answer' = answer
         \/ task' = "idle" /\ answer' \in {ErrDone, Error, Panic}
  BY <1>1, <1>2, CollectType
<1>. QED
  BY <1>1, <1>4, <1>5, ListFrame

-----------------------------------------------------------------------------
(* The vaults: the invariant and what follows from it. *)

\* A vault begins with the invariant.
LEMMA VaultsInitHolds == VaultsInit => VInv
<1> SUFFICES ASSUME VaultsInit PROVE VInv
  OBVIOUS
<1>1. pages \in Seq(Seq(Keys)) /\ Distinct(pages)
  BY VaultsAssumption DEF VaultsInit
<1>2. pages \in Seq(Seq(AllKeys))
  <2>1. Keys \subseteq AllKeys
    BY DEF AllKeys
  <2>2. Seq(Keys) \subseteq Seq(AllKeys)
    BY <2>1
  <2>. QED
    BY <1>1, <2>2
<1>3. Imported \notin Listed
  <2>1. \A p \in DOMAIN pages : pages[p] \in Seq(Keys)
    BY <1>1
  <2>2. \A p \in DOMAIN pages : \A n \in DOMAIN pages[p] : pages[p][n] \in Keys
    BY <2>1
  <2>. QED
    BY <2>2, VaultsAssumption DEF Listed, Range
<1>4. Imported \in AllKeys /\ status \in [AllKeys -> Statuses]
  BY DEF VaultsInit, AllKeys
<1>5. VaultsTypeOK
  <2>1. retries = Unset \/ retries \in Int
    <3>1. retries \in RetrySettings \/ retries = Unset
      BY DEF VaultsInit
    <3>. QED
      BY <3>1, VaultsAssumption
  <2>2. it \in [page : Nat, idx : Nat, open : BOOLEAN, list : Seq(AllKeys) \cup {Unset}]
    BY DEF VaultsInit, NoIterator
  <2>3. vkeys \in Seq(AllKeys) /\ got \in Seq(AllKeys)
    BY DEF VaultsInit
  <2>4. count \in [{"ops", "faults"} -> Nat]
    BY DEF VaultsInit
  <2>5. /\ backend \in Backends /\ token = FALSE /\ task = "closed" /\ stage = "none" /\ tries = 0
        /\ ended = FALSE /\ answer = "none" /\ steady = {} /\ partial = FALSE /\ hurt = {}
        /\ acked = FALSE
    BY DEF VaultsInit
  <2>. QED
    BY <1>2, <1>4, <2>1, <2>2, <2>3, <2>4, <2>5 DEF VaultsTypeOK
<1>6. /\ task = "closed" /\ answer = "none" /\ acked = FALSE /\ stage = "none" /\ vkeys = <<>>
      /\ backend = "cloudkms" => \A p \in DOMAIN pages : OnePurpose(p)
  BY DEF VaultsInit
<1>7. Store
  <2>1. OnceOnly(vkeys) /\ Range(vkeys) = {}
    BY <1>6 DEF OnceOnly, Range
  <2>. QED
    BY <1>1, <1>3, <1>4, <1>6, <2>1 DEF Store
<1>8. Paging /\ Along /\ Steady /\ ListingComplete /\ SignUnderWay /\ FailsForAReason
  BY <1>6 DEF Paging, Along, Steady, ListingComplete, SignUnderWay, FailsForAReason
<1>9. Importing
  BY <1>6 DEF Importing
<1>. QED
  BY <1>5, <1>7, <1>8, <1>9 DEF VInv

\* Every step of a vault preserves the invariant.
LEMMA VaultsNextKeeps == VInv /\ [VaultsNext]_vaultVars => VInv'
BY OpenKeeps, ListKeeps, ListStepKeeps, ListFailsKeeps, RefusedKeeps, ImportKeeps, ImportStepKeeps,
   JobReadyKeeps, ImportFailsKeeps, SignKeeps, LoginKeeps, RequestKeeps, BackoffKeeps, DisableKeeps,
   ExpireKeeps DEF VaultsNext

\* The invariant holds.
LEMMA VaultsInvHolds == VaultsSpec => []VInv
BY VaultsInitHolds, VaultsNextKeeps, PTL DEF VaultsSpec

\* A listing that ends as it should (vault.Collect over the iterators of the
\* seven vaults) has every key that was usable all through it, and each once,
\* for any keys in any pages, whatever is disabled or enabled between
\* two requests of the iterator.
THEOREM VaultsListAll == VaultsSpec => []ListingComplete
<1>1. VInv => ListingComplete
  BY DEF VInv
<1>. QED
  BY <1>1, VaultsInvHolds, PTL

\* A signature is refused for a reason only: the context ended, the service
\* said what no retry would change, or all the attempts the retry loop of the
\* Cloud KMS vault may make have failed.  An expired token of HashiCorp Vault
\* is renewed by a login before the request.
THEOREM VaultsSayWhy == VaultsSpec => []FailsForAReason
<1>1. VInv => FailsForAReason
  BY DEF VInv
<1>. QED
  BY <1>1, VaultsInvHolds, PTL
=============================================================================
