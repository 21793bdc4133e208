------------------------- MODULE FirestoreWatermark -------------------------
(***************************************************************************)
(* The Firestore backend (pkg/signatory/watermark/gcp.go), shared by any   *)
(* number of Signatory instances: checkAndSet reads the document, compares *)
(* in the program, and writes under a precondition on the document it read *)
(* (create-only, or an unchanged update time), starting over when it loses *)
(* a race, at most casMaxAttempts times.  Calls may be executed late or    *)
(* twice, and answers may be lost.                                         *)
(***************************************************************************)
EXTENDS Watermarks

CONSTANTS
    Workers,          \* request handlers, of all instances together
    NoRequest,
    casMaxAttempts

ASSUME FirestoreAssumption ==
    /\ NoRequest \notin Requests
    /\ casMaxAttempts \in Nat \ {0}

VARIABLES
    docs,         \* the watermark documents
    version,      \* their update times, 0 for a document that does not exist
    pc,           \* [Workers -> "idle" | "get" | "write" | "safe"]
    req,          \* [Workers -> the request being served]
    read,         \* [Workers -> update time of the document it read]
    attempt,      \* [Workers -> attempts used up]
    reply,        \* [Workers -> "none" | "ok" | "failed"], on its way back
    late,         \* writes that may still be executed with nobody waiting
    granted,      \* requests some write has succeeded for
    signatures,   \* [Requests -> how often the vaults have signed it]
    began         \* history: the document's update time when w began

vars == <<docs, version, pc, req, read, attempt, reply, late, granted,
          signatures, began>>

workerVars == <<pc, req, read, attempt, began>>

Init ==
    /\ docs = [c \in Chains |-> NoMarks]
    /\ version = [c \in Chains |-> [s \in Keys \X Kinds |-> 0]]
    /\ pc = [w \in Workers |-> "idle"]
    /\ req = [w \in Workers |-> NoRequest]
    /\ read = [w \in Workers |-> 0]
    /\ attempt = [w \in Workers |-> 0]
    /\ reply = [w \in Workers |-> "none"]
    /\ late = {}
    /\ granted = {}
    /\ signatures = [r \in Requests |-> 0]
    /\ began = [w \in Workers |-> 0]

-----------------------------------------------------------------------------
(* Firestore. *)

\* Mutant of Write: no precondition.
WriteAnyway(r, at) ==
    /\ docs' = Advance(docs, r)
    /\ version' = [version EXCEPT ![r.chain][Slot(r)] = @ + 1]
    /\ granted' = granted \cup {r}

\* A write under its precondition: Create for at = 0, else Update with
\* LastUpdateTime(at).  All fields of the document are set.
Write(r, at) ==
    /\ At(version, r) = at
    /\ docs' = Advance(docs, r)
    /\ version' = [version EXCEPT ![r.chain][Slot(r)] = @ + 1]
    /\ granted' = granted \cup {r}

Execute(w) ==
    /\ pc[w] = "write" /\ reply[w] = "none"
    /\ \/ /\ Write(req[w], read[w])
          /\ reply' = [reply EXCEPT ![w] = "ok"]
       \/ /\ At(version, req[w]) # read[w]     \* AlreadyExists, FailedPrecondition
          /\ reply' = [reply EXCEPT ![w] = "failed"]
          /\ UNCHANGED <<docs, version, granted>>
    /\ UNCHANGED <<workerVars, late, signatures>>

ExecuteLate(m) ==
    /\ m \in late
    /\ Write(m.req, m.at)
    /\ UNCHANGED <<workerVars, reply, late, signatures>>

-----------------------------------------------------------------------------
(* checkAndSet. *)

Return(w) ==
    /\ pc' = [pc EXCEPT ![w] = "idle"]
    /\ req' = [req EXCEPT ![w] = NoRequest]
    /\ read' = [read EXCEPT ![w] = 0]
    /\ attempt' = [attempt EXCEPT ![w] = 0]
    /\ began' = [began EXCEPT ![w] = 0]

IsSafeToSign(w, r) ==
    /\ pc[w] = "idle"
    /\ pc' = [pc EXCEPT ![w] = "get"]
    /\ req' = [req EXCEPT ![w] = r]
    /\ began' = [began EXCEPT ![w] = At(version, r)]
    /\ UNCHANGED <<docs, version, read, attempt, reply, late, granted, signatures>>

\* Mutants of Passes: an equal document accepted; only the levels compared.
PassesRepeat(r) ==
    At(docs, r) # NoMark => At(docs, r) = NewWatermark(r) \/ SupersededBy(At(docs, r), r)
PassesLevel(r) == At(docs, r) # NoMark => At(docs, r).level <= r.level

\* The document read lets r pass.
Passes(r) == At(docs, r) # NoMark => SupersededBy(At(docs, r), r)

\* docRef.Get, and the comparison with what it returned.
Get(w) ==
    LET r == req[w] IN
    /\ pc[w] = "get"
    /\ \/ /\ Passes(r)
          /\ pc' = [pc EXCEPT ![w] = "write"]
          /\ read' = [read EXCEPT ![w] = At(version, r)]
          /\ UNCHANGED <<req, attempt, began>>
       \/ ~Passes(r) /\ Return(w)              \* ErrWatermark
    /\ UNCHANGED <<docs, version, reply, late, granted, signatures>>

Sent(w) == [req |-> req[w], at |-> read[w]]

\* Mutant of Resend: retries without a limit.
ResendForever(w) ==
    /\ pc[w] = "write"
    /\ late' = late \cup {Sent(w)}
    /\ reply' = [reply EXCEPT ![w] = "none"]
    /\ UNCHANGED <<docs, version, workerVars, granted, signatures>>

\* The client library hears nothing and sends the write once more.
Resend(w) ==
    /\ pc[w] = "write"
    /\ Sent(w) \notin late
    /\ late' = late \cup {Sent(w)}
    /\ reply' = [reply EXCEPT ![w] = "none"]
    /\ UNCHANGED <<docs, version, workerVars, granted, signatures>>

\* Mutant of LostRace: any error taken for a lost race.
LostRaceAny(w) == reply[w] # "ok"

\* AlreadyExists or FailedPrecondition: someone else has written.
LostRace(w) == reply[w] = "failed"

MayRetry(w) == attempt[w] + 1 < casMaxAttempts

\* The answer to the write: done, another attempt, or attempts exhausted.
Receive(w) ==
    /\ pc[w] = "write"
    /\ reply' = [reply EXCEPT ![w] = "none"]
    /\ \/ /\ reply[w] = "ok"
          /\ pc' = [pc EXCEPT ![w] = "safe"]
          /\ UNCHANGED <<req, read, attempt, began>>
       \/ /\ LostRace(w) /\ MayRetry(w)
          /\ attempt' = [attempt EXCEPT ![w] = @ + 1]
          /\ pc' = [pc EXCEPT ![w] = "get"]
          /\ UNCHANGED <<req, read, began>>
       \/ LostRace(w) /\ ~MayRetry(w) /\ Return(w)
    /\ UNCHANGED <<docs, version, late, granted, signatures>>

\* Any other error of either call, the caller's timeout included, and the
\* end of the instance.
GiveUp(w) ==
    /\ pc[w] \in {"get", "write"}
    /\ late' = IF pc[w] = "write" THEN late \cup {Sent(w)} ELSE late
    /\ reply' = [reply EXCEPT ![w] = "none"]
    /\ Return(w)
    /\ UNCHANGED <<docs, version, granted, signatures>>

\* Signatory.Sign goes on to the vault, which may refuse.
VaultSign(w) ==
    /\ pc[w] = "safe"
    /\ \/ signatures' = [signatures EXCEPT ![req[w]] = @ + 1]
       \/ UNCHANGED signatures
    /\ Return(w)
    /\ UNCHANGED <<docs, version, reply, late, granted>>

Next ==
    \/ \E m \in late : ExecuteLate(m)
    \/ \E w \in Workers :
          \/ \E r \in Requests : IsSafeToSign(w, r)
          \/ Execute(w)
          \/ Get(w)
          \/ Resend(w)
          \/ Receive(w)
          \/ GiveUp(w)
          \/ VaultSign(w)

\* Firestore answers and a running handler goes on; nothing makes a client
\* send, a write arrive late or a handler give up.
Fairness ==
    \A w \in Workers : WF_vars(Execute(w) \/ Get(w) \/ Receive(w) \/ VaultSign(w))

Spec == Init /\ [][Next]_vars /\ Fairness

-----------------------------------------------------------------------------
\* Documents hold int32 watermarks, a handler past its call still has the
\* request it is about, and checkAndSet stays within casMaxAttempts.
TypeOK ==
    /\ docs \in MarkMap
    /\ version \in [Chains -> [Keys \X Kinds -> Nat]]
    /\ pc \in [Workers -> {"idle", "get", "write", "safe"}]
    /\ req \in [Workers -> Requests \cup {NoRequest}]
    /\ \A w \in Workers : pc[w] # "idle" => req[w] \in Requests
    /\ read \in [Workers -> Nat]
    /\ attempt \in [Workers -> 0 .. casMaxAttempts - 1]
    /\ reply \in [Workers -> {"none", "ok", "failed"}]
    /\ late \subseteq [req : Requests, at : Nat]
    /\ granted \subseteq Requests
    /\ signatures \in [Requests -> Nat]
    /\ began \in [Workers -> Nat]

\* Every request a write succeeded for stays covered by its document, though
\* the comparison is made in the program against a document that may have
\* changed since: the precondition rejects a decision made on a stale read.
GrantsInDocs == \A g \in granted : Covers(At(docs, g), g)

\* w has been told, or is being told, that it may sign r.
MaySign(w, r) ==
    /\ req[w] = r
    /\ pc[w] = "safe" \/ (pc[w] = "write" /\ reply[w] = "ok")

\* "When running multiple Signatory instances for redundancy, watermarks
\* prevent multiple instances from simultaneously signing the same operation".
OneSigner ==
    \A r \in Requests :
        /\ \A v, w \in Workers : MaySign(v, r) /\ MaySign(w, r) => v = w
        /\ signatures[r] <= 1
        /\ signatures[r] = 1 => \A w \in Workers : ~MaySign(w, r)

\* checkAndSet starts over only because the document has been written since
\* the attempt began: k attempts used up mean at least k writes by others (or
\* by an own call executed twice) since the request came in.  Without
\* contention no request runs out of attempts.
RetriesAreLostRaces ==
    \A w \in Workers :
        pc[w] \in {"get", "write"} => attempt[w] <= At(version, req[w]) - began[w]

\* The Firestore backend keeps the promise of SignOnce, all instances together.
Guard == INSTANCE SignOnce WITH signed <- {r \in Requests : signatures[r] > 0}
RefinesSignOnce == Guard!Spec

\* checkAndSet returns: losing races does not keep a handler for ever.
AllAnswered == \A w \in Workers : pc[w] # "idle" ~> pc[w] = "idle"
=============================================================================
