------------------------------- MODULE Enclave -------------------------------
(***************************************************************************)
(* The two vaults that keep their keys in an enclave: Nitro                *)
(* (pkg/vault/nitro) and Confidential Space (pkg/vault/confidentialspace). *)
(* A vault talks to the enclave's signer over one connection, in lockstep: *)
(* requests and replies carry no identifier.  The signer keeps the keys it *)
(* was given in memory, under handles; the vault keeps the encrypted keys  *)
(* in a file or a table and imports them again when it starts.             *)
(*                                                                         *)
(* A vault's mutex (and the client's, inside it) serialises its            *)
(* operations, so a process has at most one under way.  Several processes, *)
(* the service and the command line tool, share the storage and the        *)
(* enclave.  Frames are read whole: a frame cut in the middle by a         *)
(* cancellation is left out.                                               *)
(***************************************************************************)
EXTENDS Naturals, Sequences, FiniteSets, Functions

CONSTANTS
    Servers,     \* processes of `signatory serve': they sign
    Tools,       \* runs of `signatory-cli': they import and generate
    Keys,        \* the keys there can be
    Msgs,        \* messages to sign
    Proof,       \* what ProvePossession signs
    Nil,         \* no connection, no operation, no result
    NoBlob,      \* a nil EncryptedPrivateKey
    Failed,      \* an RPC that returned an error other than the signer's
    Generated,   \* how many keys a Generate is asked for
    MaxOps,      \* bounds: operations, process starts,
    MaxStarts,
    MaxFaults    \*   calls cancelled, connections lost, signer restarts, storage
                 \*   errors, processes killed at work or running side by side

ASSUME EnclaveAssumption ==
    /\ Proof \notin Msgs
    /\ NoBlob \notin Keys
    /\ Nil \notin Keys
    /\ {Generated, MaxOps, MaxStarts, MaxFaults} \subseteq Nat
    /\ Servers \cap Tools = {}

Procs == Servers \cup Tools

VARIABLES
    vault,      \* "nitro" or "confidentialspace"
    driver,     \* the storage: "file" or "table" (DynamoDB, Firestore)
    up,         \* per process: "down", "starting" or "ready"
    conn,       \* per process: Client.conn
    keys,       \* per process: the vault's keys, in order
    cache,      \* per process: fileStorage.keys
    op,         \* per process: the operation that holds the vault's mutex
    last,       \* per process: what the last signing operation returned
    stored,     \* the encrypted keys in the file or the table
    table,      \* per process: the keys behind the handles it was given, Nil
                \*   after a restart of the signer
    acked,      \* history: keys whose import or generation was acknowledged
    shared,     \* history: two tools had the storage open at once
    hurt,       \* history, per process: what befell the operation, a "fault" or
                \*   a connection with a reply "left" over
    count       \* how often each bounded event happened

vars == <<vault, driver, up, conn, keys, cache, op, last, stored, table, acked,
          shared, hurt, count>>

\* A connection: whether it works, the replies in its stream, and whether a
\* cancelled call was left on it.
Fresh == [ok |-> TRUE, replies |-> <<>>, left |-> FALSE]

NoCounts == [e \in {"ops", "starts", "faults"} |-> 0]
Bump(e, max) == count[e] < max /\ count' = [count EXCEPT ![e] = @ + 1]

Init ==
    /\ vault \in {"nitro", "confidentialspace"}
    /\ driver \in {"file", "table"}
    /\ up = [p \in Procs |-> "down"]
    /\ conn = [p \in Procs |-> Nil]
    /\ keys = [p \in Procs |-> <<>>]
    /\ cache = [p \in Procs |-> {}]
    /\ op = [p \in Procs |-> Nil]
    /\ last = [p \in Procs |-> Nil]
    /\ stored \in {{}, {[pub |-> k, blob |-> k] : k \in Keys}}
    /\ table = [p \in Procs |-> <<>>]
    /\ acked = {}
    /\ shared = FALSE
    /\ hurt = [p \in Procs |-> {}]
    /\ count = NoCounts

-----------------------------------------------------------------------------
(* The requests of rpc.Client, and what the signer answers. *)

SignRequest(h, m) == [verb |-> "Sign", handle |-> h, msg |-> m]
ProvePossession(h) == [verb |-> "ProvePossession", handle |-> h, msg |-> Proof]
ImportRequest(b) == [verb |-> "Import", blob |-> b]
ImportUnencrypted(k) == [verb |-> "ImportUnencrypted", key |-> k]
GenerateAndImport == [verb |-> "GenerateAndImport"]

\* What PublicKey.PublicKey, Signature.Signature and isStaleHandleError make
\* of a reply: a signature, a key, the signer's "invalid handle", or an error.
\* The decoder skips fields it does not know, and leaves a missing one zero.
SigReply(k, m) == [type |-> "sig", pub |-> k, msg |-> m]
KeyReply(k, h, b) == [type |-> "key", pub |-> k, handle |-> h, blob |-> b]
StaleReply == [type |-> "stale"]
ErrorReply == [type |-> "error"]
IsSignature(r) == r # Failed /\ r.type = "sig"
IsKey(r) == r # Failed /\ r.type = "key"
IsStaleHandleError(r) == r # Failed /\ r.type = "stale"

Known(p, h) == h \in DOMAIN table[p] /\ table[p][h] # Nil

\* A generated key is a new one, as long as there are any in the model.
Unused == Keys \ ({i.pub : i \in stored} \cup UNION {Range(table[p]) : p \in Procs})
NewKeys == IF Unused = {} THEN Keys ELSE Unused

\* The signer: what it may answer to a request of process p, and the handles
\* p has then.
Signer(p, req) ==
    LET held == table[p]
        give(k, blob) == <<KeyReply(k, Len(held) + 1, blob), Append(held, k)>>
    IN  CASE req.verb \in {"Sign", "ProvePossession"} ->
                {<<IF Known(p, req.handle) THEN SigReply(held[req.handle], req.msg)
                   ELSE StaleReply, held>>}
          [] req.verb = "Import" ->
                {IF req.blob = NoBlob THEN <<ErrorReply, held>> ELSE give(req.blob, NoBlob)}
          [] req.verb = "ImportUnencrypted" -> {give(req.key, req.key)}
          [] req.verb = "GenerateAndImport" -> {give(k, k) : k \in NewKeys}

-----------------------------------------------------------------------------
(* An operation: the call it is making, and how it goes on. *)

\* Operations are records: kind, stage of the operation, phase of the call,
\* attempt and request of the call, and what the operation works on: an index
\* in keys, a message, a number of keys, items.
Operation(kind, req) ==
    [kind |-> kind, stage |-> "first", phase |-> "call", attempt |-> 1, req |-> req,
     idx |-> 0, msg |-> Proof, n |-> 1, todo |-> {}, item |-> Nil]

Call(p, stage, req) ==
    op' = [op EXCEPT ![p].stage = stage, ![p].phase = "call", ![p].attempt = 1,
                     ![p].req = req]

\* Mutant of Fail: an error return without the deferred Unlock.
FailLocked(p) == op' = [op EXCEPT ![p].phase = "locked"]

\* The caller gets an error, and the deferred Unlock runs.
Fail(p) == op' = [op EXCEPT ![p] = Nil]

ReturnSig(p, r) ==
    LET o == op[p]
        k == keys[p][o.idx]
    IN
    /\ op' = [op EXCEPT ![p] = Nil]
    /\ last' = [last EXCEPT ![p] =
                   [pub |-> k.pub, msg |-> o.msg, handle |-> k.handle,
                    got |-> IF IsSignature(r) THEN r ELSE Failed]]
    /\ UNCHANGED <<keys, up>>

\* nitroKeyRef returns what the client returns.
nitroSign(p, r) == ReturnSig(p, r)
nitroProvePossession(p, r) == ReturnSig(p, r)

\* reimportLocked does not look at the public key: a reply of another kind
\* than it expects has a zero handle.
HandleOf(r) == IF IsKey(r) THEN r.handle ELSE 0

\* Mutant of reimportLocked: the entry keeps its old handle.
reimportForgotten(p, r, req) ==
    /\ Call(p, "again", req)
    /\ UNCHANGED <<keys, last, up>>

\* The second half of reimportLocked, and the call that follows it.
reimportLocked(p, r, req) ==
    /\ keys' = [keys EXCEPT ![p][op[p].idx].handle = HandleOf(r)]
    /\ Call(p, "again", [req EXCEPT !.handle = HandleOf(r)])
    /\ UNCHANGED <<last, up>>

\* A handle the signer does not know is imported again, once, from the blob
\* cached beside it, and the request made again.
SignOrReimport(p, r, req) ==
    LET stage == op[p].stage
        blob == keys[p][op[p].idx].blob
        stale == stage = "first" /\ IsStaleHandleError(r)
        answered == IsKey(r) \/ IsSignature(r)
    IN
    \/ stage # "reimport" /\ ~stale /\ ReturnSig(p, r)
    \/ stale /\ blob = NoBlob /\ ReturnSig(p, Failed)
    \/ /\ stale /\ blob # NoBlob
       /\ Call(p, "reimport", ImportRequest(blob))
       /\ UNCHANGED <<keys, last, up>>
    \/ stage = "reimport" /\ answered /\ reimportLocked(p, r, req)
    \/ stage = "reimport" /\ ~answered /\ ReturnSig(p, Failed)

confidentialSign(p, r) ==
    SignOrReimport(p, r, SignRequest(keys[p][op[p].idx].handle, op[p].msg))

confidentialProvePossession(p, r) ==
    SignOrReimport(p, r, ProvePossession(keys[p][op[p].idx].handle))

\* v.keys = append(v.keys, key), and on to storage.ImportKey.
ListKey(p, r, blob) ==
    \/ /\ IsKey(r)
       /\ keys' = [keys EXCEPT ![p] = Append(@, [pub |-> r.pub, handle |-> r.handle,
                                                 blob |-> blob])]
       /\ op' = [op EXCEPT ![p].phase = "store",
                           ![p].item = [pub |-> r.pub, blob |-> r.blob]]
       /\ UNCHANGED <<last, up>>
    \/ ~IsKey(r) /\ Fail(p) /\ UNCHANGED <<keys, last, up>>

Blob(r) == IF IsKey(r) THEN r.blob ELSE NoBlob

nitroImport(p, r) == ListKey(p, r, NoBlob)
nitroGenerate(p, r) == ListKey(p, r, NoBlob)
confidentialImport(p, r) == ListKey(p, r, Blob(r))
confidentialGenerate(p, r) == ListKey(p, r, Blob(r))

\* newWithClient imports what the storage holds, one key after the other; an
\* error closes the client.
AbandonStart(p) ==
    /\ up' = [up EXCEPT ![p] = "down"]
    /\ keys' = [keys EXCEPT ![p] = <<>>]
    /\ Fail(p)
    /\ UNCHANGED last

LoadNext(p, todo) ==
    /\ \/ /\ todo = {}
          /\ op' = [op EXCEPT ![p] = Nil]
          /\ up' = [up EXCEPT ![p] = "ready"]
       \/ /\ todo # {}
          /\ LET i == CHOOSE i \in todo : TRUE IN
             op' = [op EXCEPT ![p].todo = todo, ![p].item = i, ![p].stage = "load",
                              ![p].phase = "call", ![p].attempt = 1,
                              ![p].req = ImportRequest(i.blob)]
          /\ UNCHANGED up
    /\ UNCHANGED last

Loaded(p, r, blob) ==
    \/ /\ IsKey(r)
       /\ keys' = [keys EXCEPT ![p] = Append(@, [pub |-> r.pub, handle |-> r.handle,
                                                 blob |-> blob])]
       /\ LoadNext(p, op[p].todo \ {op[p].item})
    \/ ~IsKey(r) /\ AbandonStart(p)

nitroNew(p, r) == Loaded(p, r, NoBlob)
confidentialNew(p, r) == Loaded(p, r, op[p].item.blob)

\* The operation goes on with what its call returned; c is the connection the
\* call leaves behind.
Resume(p, r, c) ==
    LET is(v, kind) == vault = v /\ op[p].kind = kind IN
    /\ \/ is("nitro", "sign") /\ nitroSign(p, r)
       \/ is("nitro", "prove") /\ nitroProvePossession(p, r)
       \/ is("nitro", "import") /\ nitroImport(p, r)
       \/ is("nitro", "generate") /\ nitroGenerate(p, r)
       \/ is("nitro", "new") /\ nitroNew(p, r)
       \/ is("confidentialspace", "sign") /\ confidentialSign(p, r)
       \/ is("confidentialspace", "prove") /\ confidentialProvePossession(p, r)
       \/ is("confidentialspace", "import") /\ confidentialImport(p, r)
       \/ is("confidentialspace", "generate") /\ confidentialGenerate(p, r)
       \/ is("confidentialspace", "new") /\ confidentialNew(p, r)
    /\ conn' = [conn EXCEPT ![p] = IF up'[p] = "down" THEN Nil ELSE c]
    /\ UNCHANGED <<vault, driver, cache, stored, table, acked, shared>>

-----------------------------------------------------------------------------
(* rpc.Client: one call, on a connection that may fail. *)

\* What doRPC does when fn failed: another attempt on a new connection, and
\* if not, whether the connection is kept.  outcome is "connection" or
\* "cancelled".
nitroDoRPC(attempt, outcome) ==
    [again |-> outcome = "connection" /\ attempt = 1, keep |-> TRUE]

\* Mutant of confidentialDoRPC: as the Nitro client does.
confidentialDoRPCKeeps(attempt, outcome) ==
    [again |-> outcome = "connection" /\ attempt = 1, keep |-> TRUE]

\* ... of Confidential Space: a cancelled first attempt takes its connection
\* with it; a cancelled second attempt does not.
confidentialDoRPC(attempt, outcome) ==
    [again |-> outcome = "connection" /\ attempt = 1,
     keep |-> ~(outcome = "cancelled" /\ attempt = 1)]

DoRPC(attempt, outcome) ==
    IF vault = "nitro" THEN nitroDoRPC(attempt, outcome)
    ELSE confidentialDoRPC(attempt, outcome)

\* Left over: a cancelled call's reply may come on a connection that is kept.
KeepsCancelled(attempt) == vault = "nitro" \/ attempt = 2

Calling(p) == op[p] # Nil /\ op[p].phase = "call"
Awaiting(p) == op[p] # Nil /\ op[p].phase = "await"
Faulty(p) == hurt' = [hurt EXCEPT ![p] = @ \cup {"fault"}]

\* connectLocked dials and runs Initialize, or leaves no connection behind and
\* the call fails.
connectLocked(c) == IF c = Nil THEN Fresh ELSE c

ConnectFails(p) ==
    /\ Calling(p) /\ conn[p] = Nil /\ op[p].stage # "connect"
    /\ Bump("faults", MaxFaults)
    /\ Faulty(p)
    /\ Resume(p, Failed, Nil)

\* RoundTripRaw writes the request, and the signer serves it; into a broken
\* connection it writes in vain.  (A connection that breaks before the signer
\* has the request is one that breaks before the write.)
Send(p) ==
    /\ Calling(p) /\ op[p].stage # "connect"
    /\ op' = [op EXCEPT ![p].phase = "await"]
    /\ LET c == connectLocked(conn[p]) IN
       \/ /\ c.ok
          /\ \E answer \in Signer(p, op[p].req) :
                /\ conn' = [conn EXCEPT ![p] = [c EXCEPT !.replies = Append(@, answer[1])]]
                /\ table' = [table EXCEPT ![p] = answer[2]]
       \/ ~c.ok /\ UNCHANGED <<conn, table>>
    /\ UNCHANGED <<vault, driver, up, keys, cache, last, stored, acked, shared, hurt, count>>

\* RoundTripRaw reads a reply, whatever request it belongs to.
Receive(p) ==
    /\ Awaiting(p) /\ conn[p].replies # <<>>
    /\ Resume(p, Head(conn[p].replies), [conn[p] EXCEPT !.replies = Tail(@)])
    /\ UNCHANGED <<hurt, count>>

\* A connection-level failure: connectLocked closes the old connection and the
\* call goes through Connect again, or it fails.
ConnError(p) ==
    /\ Awaiting(p) /\ ~conn[p].ok /\ conn[p].replies = <<>>
    /\ LET d == DoRPC(op[p].attempt, "connection") IN
       \/ /\ d.again
          /\ op' = [op EXCEPT ![p].phase = "call", ![p].attempt = 2]
          /\ conn' = [conn EXCEPT ![p] = Nil]
          /\ UNCHANGED <<vault, driver, up, keys, cache, last, stored, table, acked, shared,
                         hurt>>
       \/ /\ ~d.again
          /\ hurt' = [hurt EXCEPT ![p] = IF op[p].attempt = 2 THEN @ \cup {"fault"} ELSE @]
          /\ Resume(p, Failed, IF d.keep THEN conn[p] ELSE Nil)
    /\ UNCHANGED count

\* The caller's context ends while the call waits, or just when it has read.
Cancel(p) ==
    /\ Awaiting(p)
    /\ Bump("faults", MaxFaults)
    /\ Faulty(p)
    /\ LET d == DoRPC(op[p].attempt, "cancelled")
           c == conn[p]
       IN
       \/ ~d.keep /\ Resume(p, Failed, Nil)
       \/ d.keep /\ Resume(p, Failed, [c EXCEPT !.left = @ \/ KeepsCancelled(op[p].attempt)])
       \/ /\ d.keep /\ c.replies # <<>>
          /\ Resume(p, Failed, [c EXCEPT !.replies = Tail(@)])

-----------------------------------------------------------------------------
(* The operations. *)

Idle(p) == up[p] = "ready" /\ op[p] = Nil

Begin(p, o) ==
    /\ Bump("ops", MaxOps)
    /\ op' = [op EXCEPT ![p] = o]
    /\ last' = [last EXCEPT ![p] = Nil]
    /\ hurt' = [hurt EXCEPT ![p] = IF conn[p] # Nil /\ conn[p].left THEN {"left"} ELSE {}]
    /\ UNCHANGED <<vault, driver, up, conn, keys, cache, stored, table, acked, shared>>

\* The references a listing gives out stand for the entries of v.keys.
nitroList(p) == DOMAIN keys[p]
confidentialList(p) == DOMAIN keys[p]
List(p) == IF vault = "nitro" THEN nitroList(p) ELSE confidentialList(p)

Sign(p, i, m) ==
    /\ Idle(p) /\ i \in List(p)
    /\ Begin(p, [Operation("sign", SignRequest(keys[p][i].handle, m)) EXCEPT
                    !.idx = i, !.msg = m])

Prove(p, i) ==
    /\ Idle(p) /\ i \in List(p)
    /\ Begin(p, [Operation("prove", ProvePossession(keys[p][i].handle)) EXCEPT !.idx = i])

Import(p, k) == Idle(p) /\ Begin(p, Operation("import", ImportUnencrypted(k)))

Generate(p, n) ==
    Idle(p) /\ Begin(p, [Operation("generate", GenerateAndImport) EXCEPT !.n = n])

-----------------------------------------------------------------------------
(* The storage. *)

\* newFileStorage reads the file once; the tables are read when they are asked.
newFileStorage == stored
newAWSStorage == {}
newGCPStorage == {}

nitroNewStorage == IF driver = "file" THEN newFileStorage ELSE newAWSStorage
confidentialNewStorage == IF driver = "file" THEN newFileStorage ELSE newGCPStorage

newStorage == IF vault = "nitro" THEN nitroNewStorage ELSE confidentialNewStorage

\* A process starts: its storage is opened before the enclave is connected to.
Start(p) ==
    /\ up[p] = "down"
    /\ LET beside == \E q \in Procs \ {p} : up[q] # "down" IN
       /\ count["starts"] < MaxStarts
       /\ beside => count["faults"] < MaxFaults
       /\ count' = [count EXCEPT !["starts"] = @ + 1,
                                !["faults"] = IF beside THEN @ + 1 ELSE @]
    /\ up' = [up EXCEPT ![p] = "starting"]
    /\ cache' = [cache EXCEPT ![p] = newStorage]
    /\ shared' = (shared \/ (p \in Tools /\ \E q \in Tools \ {p} : up[q] # "down"))
    /\ op' = [op EXCEPT ![p] = [Operation("new", Nil) EXCEPT !.stage = "connect"]]
    /\ last' = [last EXCEPT ![p] = Nil]
    /\ hurt' = [hurt EXCEPT ![p] = {}]
    /\ UNCHANGED <<vault, driver, conn, keys, stored, table, acked>>

\* GetKeys: the file as it was read, a scan of the table (which fits in one
\* page of the service, the only one the code reads), or all the documents.
fileGetKeys(p) == cache[p]
awsGetKeys(p) == stored
gcpGetKeys(p) == stored

GetKeys(p) ==
    IF driver = "file" THEN fileGetKeys(p)
    ELSE IF vault = "nitro" THEN awsGetKeys(p) ELSE gcpGetKeys(p)

\* newWithClient: Connect, then GetKeys; either may fail.
Load(p) ==
    /\ Calling(p) /\ op[p].stage = "connect"
    /\ \/ /\ conn' = [conn EXCEPT ![p] = connectLocked(@)]
          /\ LoadNext(p, GetKeys(p))
          /\ UNCHANGED keys
          /\ UNCHANGED count
       \/ AbandonStart(p) /\ Bump("faults", MaxFaults) /\ UNCHANGED conn
    /\ UNCHANGED <<vault, driver, cache, stored, table, acked, shared, hurt>>

\* Mutant of fileImportKey: the file is written before the key joins the list.
fileImportKeyLate(p, item, written) ==
    /\ cache' = [cache EXCEPT ![p] = @ \cup {item}]
    /\ stored' = IF written THEN cache[p] ELSE stored

\* fileStorage.ImportKey: the key joins the list, and the whole list replaces
\* the file.
fileImportKey(p, item, written) ==
    /\ cache' = [cache EXCEPT ![p] = @ \cup {item}]
    /\ stored' = IF written THEN cache'[p] ELSE stored

\* awsStorage.ImportKey and gcpStorage.ImportKey replace the item of this key.
Put(item) == {i \in stored : i.pub # item.pub} \cup {item}

awsImportKey(p, item, written) ==
    stored' = (IF written THEN Put(item) ELSE stored) /\ UNCHANGED cache

gcpImportKey(p, item, written) ==
    stored' = (IF written THEN Put(item) ELSE stored) /\ UNCHANGED cache

ImportKey(p, item, written) ==
    \/ driver = "file" /\ fileImportKey(p, item, written)
    \/ driver = "table" /\ vault = "nitro" /\ awsImportKey(p, item, written)
    \/ driver = "table" /\ vault = "confidentialspace" /\ gcpImportKey(p, item, written)

\* A stored key is acknowledged, or, in Generate, followed by the next.
Stored(p) ==
    /\ op[p] # Nil /\ op[p].phase = "store"
    /\ ImportKey(p, op[p].item, TRUE)
    /\ LET made == op[p].todo \cup {op[p].item.pub} IN
       \/ /\ op[p].n = 1
          /\ op' = [op EXCEPT ![p] = Nil]
          /\ acked' = acked \cup made
       \/ /\ op[p].n > 1
          /\ op' = [op EXCEPT ![p] = [op[p] EXCEPT !.n = @ - 1, !.todo = made, !.stage = "first",
                                                   !.phase = "call", !.attempt = 1]]
          /\ UNCHANGED acked
    /\ UNCHANGED <<vault, driver, up, conn, keys, last, table, shared, hurt, count>>

\* The storage reports an error; a table may have the item all the same.
StoreFails(p) ==
    /\ op[p] # Nil /\ op[p].phase = "store"
    /\ \E written \in {FALSE, driver = "table"} : ImportKey(p, op[p].item, written)
    /\ Bump("faults", MaxFaults)
    /\ Fail(p)
    /\ UNCHANGED <<vault, driver, up, conn, keys, last, table, acked, shared, hurt>>

-----------------------------------------------------------------------------
(* The world. *)

\* The process is stopped (Close) or dies; nobody uses its handles any more.
Stop(p) ==
    /\ up[p] # "down"
    /\ \/ op[p] = Nil /\ UNCHANGED count
       \/ op[p] # Nil /\ Bump("faults", MaxFaults)
    /\ up' = [up EXCEPT ![p] = "down"]
    /\ conn' = [conn EXCEPT ![p] = Nil]
    /\ keys' = [keys EXCEPT ![p] = <<>>]
    /\ cache' = [cache EXCEPT ![p] = {}]
    /\ op' = [op EXCEPT ![p] = Nil]
    /\ last' = [last EXCEPT ![p] = Nil]
    /\ table' = [table EXCEPT ![p] = <<>>]
    /\ hurt' = [hurt EXCEPT ![p] = {}]
    /\ UNCHANGED <<vault, driver, stored, acked, shared>>

Broken(c) == IF c = Nil THEN Nil ELSE [c EXCEPT !.ok = FALSE, !.replies = <<>>]

\* A connection breaks, and what was on its way is lost.
Break(p) ==
    /\ conn[p] # Nil /\ conn[p].ok
    /\ Bump("faults", MaxFaults)
    /\ conn' = [conn EXCEPT ![p] = Broken(@)]
    /\ UNCHANGED <<vault, driver, up, keys, cache, op, last, stored, table, acked, shared,
                   hurt>>

\* The signer restarts with an empty table.  Assumed of it: the handles it gives
\* out from then on are fresh, as the fake signer of the repository's tests has
\* them; reimportLocked does not compare public keys, so with a handle used again
\* a key could sign for another.
Reboot ==
    /\ Bump("faults", MaxFaults)
    /\ table' = [p \in Procs |-> [h \in DOMAIN table[p] |-> Nil]]
    /\ conn' = [p \in Procs |-> Broken(conn[p])]
    /\ hurt' = [p \in Procs |-> IF op[p] # Nil /\ op[p].stage = "again"
                                THEN hurt[p] \cup {"fault"} ELSE hurt[p]]
    /\ UNCHANGED <<vault, driver, up, keys, cache, op, last, stored, acked, shared>>

Next ==
    \/ \E p \in Servers, i \in 1..Cardinality(Keys) :
          Prove(p, i) \/ \E m \in Msgs : Sign(p, i, m)
    \/ \E p \in Tools :
          \/ \E k \in Keys : Import(p, k)
          \/ Generate(p, Generated)
    \/ \E p \in Procs :
          \/ Start(p)
          \/ Load(p)
          \/ ConnectFails(p)
          \/ Send(p)
          \/ Receive(p)
          \/ ConnError(p)
          \/ Cancel(p)
          \/ Stored(p)
          \/ StoreFails(p)
          \/ Stop(p)
          \/ Break(p)
    \/ Reboot

Work(p) ==
    Load(p) \/ Send(p) \/ Receive(p) \/ ConnError(p) \/ Stored(p)

\* The goroutine of an operation runs, and the signer answers.
Fairness == \A p \in Procs : WF_vars(Work(p))

Spec == Init /\ [][Next]_vars /\ Fairness

-----------------------------------------------------------------------------
(* Types. *)

Messages == Msgs \cup {Proof}
Blobs == Keys \cup {NoBlob}
Items == [pub : Keys, blob : Blobs]
Entries == [pub : Keys, handle : Nat, blob : Blobs]

Signatures == [type : {"sig"}, pub : Keys, msg : Messages]
KeyReplies == [type : {"key"}, pub : Keys, handle : Nat, blob : Blobs]
Replies == Signatures \cup KeyReplies \cup {StaleReply, ErrorReply}

SignRequests == [verb : {"Sign", "ProvePossession"}, handle : Nat, msg : Messages]
ImportRequests == [verb : {"Import"}, blob : Blobs]
NewKeyRequests == [verb : {"ImportUnencrypted"}, key : Keys] \cup {GenerateAndImport}

Connections == [ok : BOOLEAN, replies : Seq(Replies), left : BOOLEAN]

Operations ==
    [kind : {"sign", "prove", "import", "generate", "new"},
     stage : {"first", "reimport", "again", "connect", "load"},
     phase : {"call", "await", "store"},
     attempt : {1, 2},
     req : SignRequests \cup ImportRequests \cup NewKeyRequests \cup {Nil},
     idx : Nat, msg : Messages, n : Nat,
     todo : SUBSET (Items \cup Keys), item : Items \cup {Nil}]

Results == [pub : Keys, msg : Messages, handle : Nat, got : Replies \cup {Failed}]

ASSUME NoValueAssumption ==
    /\ Nil \notin Operations \cup Connections \cup Results
    /\ Failed \notin Replies

\* Processes hold connections, entries and operations of these shapes, and only
\* keys of the model are stored or acknowledged.
TypeOK ==
    /\ vault \in {"nitro", "confidentialspace"} /\ driver \in {"file", "table"}
    /\ up \in [Procs -> {"down", "starting", "ready"}]
    /\ conn \in [Procs -> Connections \cup {Nil}]
    /\ keys \in [Procs -> Seq(Entries)]
    /\ cache \in [Procs -> SUBSET Items]
    /\ op \in [Procs -> Operations \cup {Nil}]
    /\ last \in [Procs -> Results \cup {Nil}]
    /\ stored \subseteq Items
    /\ table \in [Procs -> Seq(Keys \cup {Nil})]
    /\ acked \subseteq Keys
    /\ shared \in BOOLEAN
    /\ hurt \in [Procs -> SUBSET {"fault", "left"}]
    /\ count \in [{"ops", "starts", "faults"} -> Nat]

-----------------------------------------------------------------------------
Returned(p) == op[p] = Nil /\ last[p] # Nil

\* A signature handed to a caller is the one it asked for, of its key and its
\* message, across reconnections, retries and restarts of the signer: the
\* protocol has no request identifiers, so this rests on every call reading
\* its own reply.  (Excepted: connections the client kept after a call on them
\* was cancelled, as Nitro's always does and that of Confidential Space does
\* after a second attempt: the reply left there is the next call's.)
OwnAnswer ==
    \A p \in Procs :
        Returned(p) /\ last[p].got # Failed /\ "left" \notin hurt[p] =>
            last[p].got = SigReply(last[p].pub, last[p].msg)

\* A signing operation fails only for a reason: its context ended, a connection
\* could not be made, or was lost twice in one call, or the signer restarted
\* again just after a key was imported anew.  A lost connection and, for
\* Confidential Space, a restart of the signer are recovered from; the Nitro
\* vault's handles are void once the signer has restarted.
SignsUnlessHurt ==
    \A p \in Procs :
        Returned(p) /\ last[p].got = Failed =>
            \/ hurt[p] # {}
            \/ vault = "nitro" /\ ~Known(p, last[p].handle)

\* An acknowledged key stays in the storage, whatever fails later and whichever
\* process stores keys too; with a file, as long as no two tools had it open at
\* once, since each writes the file from its own list.
AcknowledgedKept ==
    driver = "table" \/ ~shared =>
        \A k \in acked : \E i \in stored : i.pub = k

\* Every operation ends, and gives the vault's mutex back: the signer answers,
\* or the connection is found broken.
EveryCallEnds == \A p \in Procs : op[p] # Nil ~> op[p] = Nil
=============================================================================
