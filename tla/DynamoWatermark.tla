-------------------------- MODULE DynamoWatermark ---------------------------
(***************************************************************************)
(* The DynamoDB backend (pkg/signatory/watermark/aws.go), shared by any    *)
(* number of Signatory instances: one conditional PutItem per request, all *)
(* the checking done by the table.  The network is as bad as a network is: *)
(* a call may be executed late, after its caller has given up; an answer   *)
(* may be lost; the SDK may send a call again.                             *)
(***************************************************************************)
EXTENDS Watermarks

CONSTANTS
    Workers,      \* request handlers, of all instances together
    NoRequest

ASSUME DynamoAssumption == NoRequest \notin Requests

VARIABLES
    table,        \* the DynamoDB table
    pc,           \* [Workers -> "idle" | "put" | "safe"]
    req,          \* [Workers -> the request being served]
    reply,        \* [Workers -> "none" | "ok" | "failed"], on its way back
    late,         \* calls that may still be executed with nobody waiting
    granted,      \* requests some PutItem has succeeded for
    signatures    \* [Requests -> how often the vaults have signed it]

vars == <<table, pc, req, reply, late, granted, signatures>>

Init ==
    /\ table = [c \in Chains |-> NoMarks]
    /\ pc = [w \in Workers |-> "idle"]
    /\ req = [w \in Workers |-> NoRequest]
    /\ reply = [w \in Workers |-> "none"]
    /\ late = {}
    /\ granted = {}
    /\ signatures = [r \in Requests |-> 0]

-----------------------------------------------------------------------------
(* The table. *)

\* Mutants of Condition: `round <= :new_round'; the equality of the levels
\* left out; an equal item accepted, as the backends in memory and on file do.
ConditionNonStrict(r) ==
    LET item == table[r.chain][Slot(r)]
    IN  item # NoMark => \/ item.level < r.level
                         \/ item.level = r.level /\ item.round <= r.round
ConditionEither(r) ==
    LET item == table[r.chain][Slot(r)]
    IN  item # NoMark => item.level < r.level \/ item.round < r.round
ConditionRepeat(r) ==
    LET item == table[r.chain][Slot(r)]
    IN  item # NoMark => item = NewWatermark(r) \/ SupersededBy(item, r)

\* attribute_not_exists(idx) or lvl < :new_lvl
\* or (lvl = :new_lvl and round < :new_round)
Condition(r) ==
    LET item == table[r.chain][Slot(r)]
    IN  item # NoMark => SupersededBy(item, r)

PutItem(r) ==
    /\ table' = Advance(table, r)
    /\ granted' = granted \cup {r}

\* The table executes the call of a waiting worker.
Execute(w) ==
    /\ pc[w] = "put" /\ reply[w] = "none"
    /\ \/ /\ Condition(req[w])
          /\ PutItem(req[w])
          /\ reply' = [reply EXCEPT ![w] = "ok"]
       \/ /\ ~Condition(req[w])
          /\ reply' = [reply EXCEPT ![w] = "failed"]
          /\ UNCHANGED <<table, granted>>
    /\ UNCHANGED <<pc, req, late, signatures>>

\* The table executes a call nobody waits for, or a copy of one.
ExecuteLate(r) ==
    /\ r \in late
    /\ Condition(r)
    /\ PutItem(r)
    /\ UNCHANGED <<pc, req, reply, late, signatures>>

-----------------------------------------------------------------------------
(* The callers. *)

Return(w) ==
    /\ pc' = [pc EXCEPT ![w] = "idle"]
    /\ req' = [req EXCEPT ![w] = NoRequest]

\* IsSafeToSign calls PutItem.
IsSafeToSign(w, r) ==
    /\ pc[w] = "idle"
    /\ pc' = [pc EXCEPT ![w] = "put"]
    /\ req' = [req EXCEPT ![w] = r]
    /\ UNCHANGED <<table, reply, late, granted, signatures>>

\* Mutant of Resend: retries without a limit.
ResendForever(w) ==
    /\ pc[w] = "put"
    /\ late' = late \cup {req[w]}
    /\ reply' = [reply EXCEPT ![w] = "none"]
    /\ UNCHANGED <<table, pc, req, granted, signatures>>

\* The SDK hears nothing and sends the call once more.
Resend(w) ==
    /\ pc[w] = "put"
    /\ req[w] \notin late
    /\ late' = late \cup {req[w]}
    /\ reply' = [reply EXCEPT ![w] = "none"]
    /\ UNCHANGED <<table, pc, req, granted, signatures>>

\* putItem returns nil, or ErrWatermark for a failed condition.
Receive(w) ==
    /\ pc[w] = "put" /\ reply[w] # "none"
    /\ reply' = [reply EXCEPT ![w] = "none"]
    /\ \/ /\ reply[w] = "ok"
          /\ pc' = [pc EXCEPT ![w] = "safe"]
          /\ UNCHANGED req
       \/ /\ reply[w] = "failed"
          /\ Return(w)
    /\ UNCHANGED <<table, late, granted, signatures>>

\* Any other error, the client's timeout included, is ErrWatermark too; so
\* is the end of the instance for the request it was serving.
GiveUp(w) ==
    /\ pc[w] = "put"
    /\ late' = late \cup {req[w]}
    /\ reply' = [reply EXCEPT ![w] = "none"]
    /\ Return(w)
    /\ UNCHANGED <<table, granted, signatures>>

\* Signatory.Sign goes on to the vault, which may refuse.
VaultSign(w) ==
    /\ pc[w] = "safe"
    /\ \/ signatures' = [signatures EXCEPT ![req[w]] = @ + 1]
       \/ UNCHANGED signatures
    /\ Return(w)
    /\ UNCHANGED <<table, reply, late, granted>>

Next ==
    \/ \E r \in Requests : ExecuteLate(r)
    \/ \E w \in Workers :
          \/ \E r \in Requests : IsSafeToSign(w, r)
          \/ Execute(w)
          \/ Resend(w)
          \/ Receive(w)
          \/ GiveUp(w)
          \/ VaultSign(w)

\* The table answers and a running handler goes on; nothing makes a client
\* send, a call arrive late or a handler give up.
Fairness ==
    \A w \in Workers : WF_vars(Execute(w) \/ Receive(w) \/ VaultSign(w))

Spec == Init /\ [][Next]_vars /\ Fairness

-----------------------------------------------------------------------------
\* Items hold int32 watermarks, and a handler past its call still has the
\* request it is about.
TypeOK ==
    /\ table \in MarkMap
    /\ pc \in [Workers -> {"idle", "put", "safe"}]
    /\ req \in [Workers -> Requests \cup {NoRequest}]
    /\ \A w \in Workers : pc[w] # "idle" => req[w] \in Requests
    /\ reply \in [Workers -> {"none", "ok", "failed"}]
    /\ late \subseteq Requests
    /\ granted \subseteq Requests
    /\ signatures \in [Requests -> Nat]

\* Every request some PutItem succeeded for stays covered by its item,
\* whatever is executed late or twice.
GrantsInTable == \A g \in granted : Covers(table[g.chain][Slot(g)], g)

\* w has been told, or is being told, that it may sign r.
MaySign(w, r) ==
    /\ req[w] = r
    /\ pc[w] = "safe" \/ (pc[w] = "put" /\ reply[w] = "ok")

\* "When running multiple Signatory instances for redundancy, watermarks
\* prevent multiple instances from simultaneously signing the same operation":
\* of all handlers of all instances at most one is let through for a request,
\* and once it has signed, none.
OneSigner ==
    \A r \in Requests :
        /\ \A v, w \in Workers : MaySign(v, r) /\ MaySign(w, r) => v = w
        /\ signatures[r] <= 1
        /\ signatures[r] = 1 => \A w \in Workers : ~MaySign(w, r)

\* The DynamoDB backend keeps the promise of SignOnce, all instances together.
Guard == INSTANCE SignOnce WITH signed <- {r \in Requests : signatures[r] > 0}
RefinesSignOnce == Guard!Spec

\* A handler that has sent its call gets an answer and returns.
AllAnswered == \A w \in Workers : pc[w] # "idle" ~> pc[w] = "idle"
=============================================================================
