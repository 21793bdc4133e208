---------------------------- MODULE EnclaveProofs ---------------------------
(***************************************************************************)
(* The enclave vaults, for any number of processes, keys, messages and     *)
(* faults: every caller gets its own signature though replies carry no     *)
(* identifier, signing fails only for a reason, and keys whose import was  *)
(* acknowledged stay stored.                                               *)
(***************************************************************************)
EXTENDS Enclave, TLAPS

-----------------------------------------------------------------------------
(* One process and its connection. *)

Key(p) == keys[p][op[p].idx]

\* What a process is doing while it is up.
Life(p) ==
    /\ up[p] = "down" => op[p] = Nil /\ conn[p] = Nil
    /\ up[p] = "starting" => op[p] # Nil /\ op[p].kind = "new"
    /\ op[p] # Nil /\ op[p].kind = "new" => up[p] = "starting"
    /\ op[p] # Nil => last[p] = Nil

\* The call of a signing operation that asks for a signature.
AsksToSign(p) ==
    /\ op[p].req \in SignRequests
    /\ op[p].req.handle = Key(p).handle /\ op[p].req.msg = op[p].msg

Signing(p) ==
    /\ p \in Servers /\ op[p].phase # "store" /\ op[p].idx \in DOMAIN keys[p]
    /\ \/ op[p].stage \in {"first", "again"} /\ AsksToSign(p)
       \/ op[p].stage = "reimport" /\ op[p].req = ImportRequest(Key(p).blob)
    /\ op[p].stage # "first" => vault = "confidentialspace"
    /\ op[p].kind = "prove" => op[p].msg = Proof

Loading(p) ==
    /\ op[p].phase # "store" /\ op[p].todo \subseteq Items
    /\ conn[p] # Nil => ~conn[p].left
    /\ \/ op[p].stage = "connect" /\ op[p].phase = "call" /\ conn[p] = Nil
       \/ /\ op[p].stage = "load" /\ op[p].item \in Items
          /\ op[p].req = ImportRequest(op[p].item.blob)

Adding(p) ==
    /\ p \in Tools /\ op[p].stage = "first" /\ op[p].req \in NewKeyRequests
    /\ op[p].todo \subseteq Keys
    /\ op[p].phase = "store" => op[p].item \in Items

\* An operation makes the calls of its kind.
Shape(p) ==
    op[p] # Nil =>
        /\ op[p].kind \in {"sign", "prove"} => Signing(p)
        /\ op[p].kind = "new" => Loading(p)
        /\ op[p].kind \in {"import", "generate"} => Adding(p)

\* A handle stands for its key, or for none since the signer has restarted.
Handles(p) ==
    \A i \in DOMAIN keys[p] :
        LET h == keys[p][i].handle
        IN  h = 0 \/ (h \in 1..Len(table[p]) /\ table[p][h] \in {keys[p][i].pub, Nil})

\* The service can import its keys of Confidential Space again.
Restorable(p) ==
    vault = "confidentialspace" /\ p \in Servers =>
        \A i \in DOMAIN keys[p] : keys[p][i].blob = keys[p][i].pub

\* A reply is the answer to the call under way.
Answers(p, a) ==
    /\ op[p].req \in SignRequests =>
          \/ a = SigReply(Key(p).pub, op[p].msg)
          \/ a = StaleReply /\ ~Known(p, op[p].req.handle)
    /\ op[p].req \in ImportRequests =>
          IF op[p].req.blob = NoBlob THEN a = ErrorReply
          ELSE a \in KeyReplies /\ a.pub = op[p].req.blob
    /\ op[p].req \in NewKeyRequests => a \in KeyReplies

\* The replies on a connection: keys are those behind their handles, and, unless
\* a cancelled call was left, nothing is there but the answer to the call.
Stream(p) ==
    /\ Awaiting(p) => conn[p] # Nil
    /\ conn[p] # Nil =>
         LET c == conn[p] IN
         /\ \A n \in 1..Len(c.replies) :
               c.replies[n] \in KeyReplies =>
                   /\ c.replies[n].handle \in 1..Len(table[p])
                   /\ table[p][c.replies[n].handle] = c.replies[n].pub
         /\ ~c.left /\ c.replies # <<>> =>
               Awaiting(p) /\ Len(c.replies) = 1 /\ Answers(p, c.replies[1])
         /\ op[p] # Nil /\ c.left => "left" \in hurt[p]

\* In Confidential Space at most one reply is left over, so that a key being
\* imported again gets its own handle or none.
Lag(p) ==
    vault = "confidentialspace" /\ p \in Servers =>
        /\ Calling(p) /\ op[p].attempt = 2 => conn[p] = Nil
        /\ conn[p] # Nil =>
             LET r == conn[p].replies IN
             /\ Len(r) <= IF Awaiting(p) /\ op[p].attempt = 1 THEN 2 ELSE 1
             /\ Awaiting(p) /\ op[p].stage = "first" /\ Len(r) = 2 => r[2] \notin KeyReplies
             /\ op[p] # Nil /\ op[p].stage = "reimport" /\ r # <<>> =>
                   IF Calling(p) THEN r[1] \notin KeyReplies
                   ELSE r[1] \in KeyReplies => r[1].pub = Key(p).pub

\* A key just imported again is known to the signer.
Imported(p) ==
    op[p] # Nil /\ op[p].stage = "again" /\ hurt[p] = {} => Known(p, op[p].req.handle)

\* OwnAnswer and SignsUnlessHurt, of one process.
OwnHere(p) ==
    Returned(p) /\ last[p].got # Failed /\ "left" \notin hurt[p] =>
        last[p].got = SigReply(last[p].pub, last[p].msg)
HurtHere(p) ==
    Returned(p) /\ last[p].got = Failed =>
        \/ hurt[p] # {}
        \/ vault = "nitro" /\ ~Known(p, last[p].handle)

Local(p) ==
    /\ Life(p) /\ Shape(p) /\ Handles(p) /\ Restorable(p) /\ Stream(p) /\ Lag(p)
    /\ Imported(p) /\ OwnHere(p) /\ HurtHere(p)

-----------------------------------------------------------------------------
(* The storage all processes share. *)

Safe == driver = "table" \/ ~shared
InStorage(k) == \E i \in stored : i.pub = k

\* A tool that has the file for itself has all of it in its list, and the keys
\* of a Generate under way are stored.
Storage ==
    /\ \A p, q \in Tools : up[p] # "down" /\ up[q] # "down" /\ p # q => shared
    /\ driver = "file" /\ ~shared =>
          \A p \in Tools : up[p] # "down" => stored \subseteq cache[p]
    /\ Safe => \A p \in Tools : op[p] # Nil /\ op[p].kind # "new" =>
                  \A k \in op[p].todo : InStorage(k)
    /\ AcknowledgedKept

IInv ==
    /\ TypeOK
    /\ \A p \in Procs : Local(p)
    /\ Storage

-----------------------------------------------------------------------------
(* Lemmas. *)

\* How the client's tests tell replies apart.
LEMMA ReplyKinds ==
    ASSUME NEW r \in Replies \cup {Failed}
    PROVE  /\ IsSignature(r) <=> r \in Signatures
           /\ IsKey(r) <=> r \in KeyReplies
           /\ IsStaleHandleError(r) <=> r = StaleReply
           /\ r \in KeyReplies => r \notin Signatures /\ r # StaleReply /\ r # ErrorReply
           /\ r \in Signatures => r # StaleReply /\ r # ErrorReply
           /\ r = StaleReply => r # ErrorReply
           /\ r = Failed => r \notin Replies
<1>1. CASE r = Failed
  BY <1>1, NoValueAssumption DEF IsSignature, IsKey, IsStaleHandleError, Replies
<1>2. CASE r \in Replies
  <2>1. r # Failed
    BY <1>2, NoValueAssumption
  <2>2. /\ r \in Signatures => r.type = "sig"
        /\ r \in KeyReplies => r.type = "key"
        /\ r = StaleReply => r.type = "stale"
        /\ r = ErrorReply => r.type = "error"
    BY DEF Signatures, KeyReplies, StaleReply, ErrorReply
  <2>3. r \in Signatures \/ r \in KeyReplies \/ r = StaleReply \/ r = ErrorReply
    BY <1>2 DEF Replies
  <2>. QED
    BY <2>1, <2>2, <2>3 DEF IsSignature, IsKey, IsStaleHandleError
<1>. QED
  BY <1>1, <1>2

\* Requests of different kinds differ.
LEMMA RequestKinds ==
    /\ SignRequests \cap ImportRequests = {}
    /\ SignRequests \cap NewKeyRequests = {}
    /\ ImportRequests \cap NewKeyRequests = {}
BY DEF SignRequests, ImportRequests, NewKeyRequests, GenerateAndImport

\* A process none of whose state is touched keeps what is said of it.
LEMMA LocalStays ==
    ASSUME NEW q \in Procs, Local(q), vault' = vault,
           up'[q] = up[q], conn'[q] = conn[q], keys'[q] = keys[q], op'[q] = op[q],
           last'[q] = last[q], table'[q] = table[q], hurt'[q] = hurt[q]
    PROVE  Local(q)'
<1>1. Life(q)' /\ Shape(q)'
  BY DEF Local, Life, Shape, Signing, AsksToSign, Loading, Adding, Key
<1>2. Handles(q)' /\ Restorable(q)'
  BY DEF Local, Handles, Restorable
<1>3. \A a : Answers(q, a)' <=> Answers(q, a)
  BY DEF Answers, Key, Known
<1>4. Stream(q)'
  BY <1>3 DEF Local, Stream, Awaiting
<1>5. Lag(q)'
  BY DEF Local, Lag, Calling, Awaiting, Key
<1>6. Imported(q)' /\ OwnHere(q)' /\ HurtHere(q)'
  BY DEF Local, Imported, OwnHere, HurtHere, Known, Returned
<1>. QED
  BY <1>1, <1>2, <1>4, <1>5, <1>6 DEF Local

\* Steps that leave the storage alone.
LEMMA StorageStays ==
    ASSUME Storage, UNCHANGED <<driver, shared, stored, acked>>,
           \A q \in Tools : up'[q] # "down" => up[q] # "down" /\ cache[q] \subseteq cache'[q],
           \A q \in Tools : op'[q] # Nil /\ op'[q].kind # "new" =>
              \/ op'[q].todo = {}
              \/ op[q] # Nil /\ op[q].kind # "new" /\ op'[q].todo = op[q].todo
    PROVE  Storage'
<1>1. AcknowledgedKept'
  BY DEF Storage, AcknowledgedKept
<1>2. (\A p, q \in Tools : up[p] # "down" /\ up[q] # "down" /\ p # q => shared)'
  BY DEF Storage
<1>3. (driver = "file" /\ ~shared =>
         \A p \in Tools : up[p] # "down" => stored \subseteq cache[p])'
  BY DEF Storage
<1>4. (Safe => \A p \in Tools : op[p] # Nil /\ op[p].kind # "new" =>
                  \A k \in op[p].todo : InStorage(k))'
  BY DEF Storage, Safe, InStorage
<1>. QED
  BY <1>1, <1>2, <1>3, <1>4 DEF Storage

-----------------------------------------------------------------------------
(* What a call returns to its operation. *)

Consistent(p, replies) ==
    \A n \in 1..Len(replies) :
        replies[n] \in KeyReplies =>
            /\ replies[n].handle \in 1..Len(table[p])
            /\ table[p][replies[n].handle] = replies[n].pub

\* A call returns the answer to its own request unless a reply was left over,
\* an error only if something befell it, and leaves connection c behind.
Delivers(p, r, c) ==
    /\ r \in Replies \cup {Failed}
    /\ hurt[p] \subseteq hurt'[p]
    /\ r = Failed => hurt'[p] # {}
    /\ r # Failed /\ ("left" \notin hurt'[p] \/ op[p].kind = "new") => Answers(p, r)
    /\ r \in KeyReplies => /\ r.handle \in 1..Len(table[p])
                           /\ table[p][r.handle] = r.pub
    /\ vault = "confidentialspace" /\ p \in Servers /\ op[p].stage = "reimport" =>
          (r \in KeyReplies => r.pub = Key(p).pub)
    /\ c \in Connections \cup {Nil}
    /\ c # Nil =>
          /\ Consistent(p, c.replies)
          /\ ~c.left => c.replies = <<>>
          /\ c.left /\ r # Failed => "left" \in hurt'[p] /\ op[p].kind # "new"
          /\ vault = "confidentialspace" /\ p \in Servers =>
                /\ Len(c.replies) <= 1
                /\ op[p].stage = "first" /\ r = StaleReply /\ c.replies # <<>> =>
                      c.replies[1] \notin KeyReplies

\* A signing operation that goes on is that of a process that is ready.
LEMMA SigningReady ==
    ASSUME TypeOK, NEW p \in Procs, Local(p), op[p] # Nil, op[p].kind \in {"sign", "prove"}
    PROVE  up[p] = "ready" /\ Signing(p) /\ op[p] \in Operations
           /\ op[p].idx \in DOMAIN keys[p] /\ Key(p) \in Entries
<1>1. Signing(p) /\ op[p] \in Operations
  BY DEF Local, Shape, TypeOK
<1>2. up[p] = "ready"
  BY DEF Local, Life, TypeOK
<1>3. op[p].idx \in DOMAIN keys[p] /\ keys[p] \in Seq(Entries)
  BY <1>1 DEF Signing, TypeOK
<1>. QED
  BY <1>1, <1>2, <1>3 DEF Key

\* The signing operation returns what it got.
LEMMA SigReturned ==
    ASSUME TypeOK, NEW p \in Procs, Local(p), op[p] # Nil, op[p].kind \in {"sign", "prove"},
           NEW r, NEW c, Delivers(p, r, c), NEW g, ReturnSig(p, g),
           conn'[p] = c, vault' = vault, table' = table,
           \/ /\ g = r /\ op[p].stage \in {"first", "again"}
              /\ ~(vault = "confidentialspace" /\ op[p].stage = "first" /\ r = StaleReply)
           \/ g = Failed /\ op[p].stage = "reimport" /\ r \notin KeyReplies
    PROVE  Local(p)' /\ last' \in [Procs -> Results \cup {Nil}]
<1>1. /\ up[p] = "ready" /\ Signing(p) /\ op[p] \in Operations /\ Key(p) \in Entries
      /\ r \in Replies \cup {Failed}
  BY SigningReady DEF Delivers
<1>2. /\ op'[p] = Nil /\ keys' = keys /\ up' = up
      /\ last'[p] = [pub |-> Key(p).pub, msg |-> op[p].msg, handle |-> Key(p).handle,
                     got |-> IF IsSignature(g) THEN g ELSE Failed]
      /\ last' = [last EXCEPT ![p] = last'[p]]
  BY DEF ReturnSig, TypeOK, Key
<1>3. g \in Replies \cup {Failed} /\ (IsSignature(g) <=> g \in Signatures)
      /\ ~IsSignature(Failed)
  BY <1>1, ReplyKinds DEF IsSignature
<1>4. last'[p] \in Results
  BY <1>1, <1>2, <1>3 DEF Results, Entries, Operations
<1>5. last' \in [Procs -> Results \cup {Nil}]
  BY <1>2, <1>4 DEF TypeOK
<1>6. Life(p)' /\ Shape(p)' /\ Handles(p)' /\ Restorable(p)' /\ Imported(p)'
  BY <1>1, <1>2 DEF Local, Life, Shape, Handles, Restorable, Imported
<1>7. Stream(p)' /\ Lag(p)'
  BY <1>2 DEF Stream, Lag, Awaiting, Calling, Delivers, Consistent
<1>8. g \in Signatures \/ (g # Failed /\ g = r) => op[p].req \in SignRequests
      /\ op[p].req.handle = Key(p).handle
  BY <1>1, <1>3, ReplyKinds DEF Signing, AsksToSign, Replies, IsSignature
<1>9. OwnHere(p)'
  <2> SUFFICES ASSUME IsSignature(g), "left" \notin hurt'[p]
               PROVE  g = SigReply(Key(p).pub, op[p].msg)
    BY <1>2, <1>3 DEF OwnHere, SigReply
  <2>1. g = r /\ g # Failed /\ g # StaleReply /\ Answers(p, g)
    BY <1>1, <1>3, ReplyKinds DEF Delivers
  <2>. QED
    BY <1>3, <1>8, <2>1 DEF Answers
<1>10. HurtHere(p)'
  <2> SUFFICES ASSUME ~IsSignature(g), hurt'[p] = {}
               PROVE  vault = "nitro" /\ ~Known(p, Key(p).handle)
    <3>1. last'[p].got = Failed => ~IsSignature(g)
      BY <1>2, <1>3, NoValueAssumption DEF Replies
    <3>. QED
      BY <1>2, <3>1 DEF HurtHere, Known
  <2>1. r # Failed /\ hurt[p] = {} /\ Answers(p, r)
    BY DEF Delivers
  <2>2. CASE g = r
    <3>1. r = StaleReply /\ ~Known(p, Key(p).handle)
      <4>1. r # SigReply(Key(p).pub, op[p].msg)
        BY <2>1, <2>2 DEF IsSignature, SigReply
      <4>. QED
        BY <1>8, <2>1, <2>2, <4>1 DEF Answers
    <3>2. vault = "nitro"
      <4>1. op[p].stage = "again" => Known(p, op[p].req.handle)
        BY <2>1 DEF Local, Imported
      <4>. QED
        BY <1>8, <2>1, <2>2, <3>1, <4>1 DEF TypeOK
    <3>. QED
      BY <3>1, <3>2
  <2>3. CASE g = Failed /\ op[p].stage = "reimport" /\ r \notin KeyReplies
    <3>1. op[p].req = ImportRequest(Key(p).blob) /\ vault = "confidentialspace"
      BY <1>1, <2>3 DEF Signing
    <3>2. Key(p).blob = Key(p).pub /\ Key(p).pub # NoBlob
      BY <1>1, <3>1, EnclaveAssumption DEF Local, Restorable, Signing, Key, Entries
    <3>3. op[p].req \in ImportRequests /\ op[p].req.blob # NoBlob
      BY <1>1, <3>1, <3>2 DEF ImportRequest, ImportRequests, Entries
    <3>. QED
      BY <2>1, <2>3, <3>3, RequestKinds DEF Answers
  <2>. QED
    BY <2>2, <2>3
<1>. QED
  BY <1>5, <1>6, <1>7, <1>9, <1>10 DEF Local

\* An operation that goes on to its next call.
Onwards(o, st, q) == [o EXCEPT !.stage = st, !.phase = "call", !.attempt = 1, !.req = q]

WithHandle(q, h) == [q EXCEPT !.handle = h]

LEMMA CallFields ==
    ASSUME NEW o \in Operations, NEW st \in {"reimport", "again"},
           NEW q \in SignRequests \cup ImportRequests
    PROVE  LET n == Onwards(o, st, q)
           IN  /\ n \in Operations /\ n # Nil
               /\ n.kind = o.kind /\ n.stage = st /\ n.phase = "call" /\ n.attempt = 1
               /\ n.req = q /\ n.idx = o.idx /\ n.msg = o.msg
<1> DEFINE n == Onwards(o, st, q)
<1>1. /\ n.kind = o.kind /\ n.stage = st /\ n.phase = "call" /\ n.attempt = 1
      /\ n.req = q /\ n.idx = o.idx /\ n.msg = o.msg
  BY DEF Onwards, Operations
<1>2. n \in Operations
  BY DEF Onwards, Operations
<1>. QED
  BY <1>1, <1>2, NoValueAssumption

\* The key's blob is sent to the signer again.
LEMMA ReimportCalled ==
    ASSUME TypeOK, NEW p \in Procs, Local(p), op[p] # Nil, op[p].kind \in {"sign", "prove"},
           NEW c, Delivers(p, StaleReply, c), op[p].stage = "first",
           vault = "confidentialspace",
           Call(p, "reimport", ImportRequest(Key(p).blob)), UNCHANGED <<keys, last, up>>,
           conn'[p] = c, vault' = vault, table' = table
    PROVE  Local(p)' /\ op'[p] \in Operations
<1>1. /\ up[p] = "ready" /\ Signing(p) /\ op[p] \in Operations /\ Key(p) \in Entries
      /\ op[p].idx \in DOMAIN keys[p] /\ last[p] = Nil
  BY SigningReady DEF Local, Life
<1>2. /\ op'[p] \in Operations /\ op'[p] # Nil
      /\ op'[p].kind = op[p].kind /\ op'[p].stage = "reimport" /\ op'[p].phase = "call"
      /\ op'[p].attempt = 1 /\ op'[p].req = ImportRequest(Key(p).blob)
      /\ op'[p].idx = op[p].idx /\ op'[p].msg = op[p].msg
  <2>1. op'[p] = Onwards(op[p], "reimport", ImportRequest(Key(p).blob))
    BY DEF Call, TypeOK, Onwards
  <2>2. ImportRequest(Key(p).blob) \in ImportRequests
    BY <1>1 DEF ImportRequest, ImportRequests, Entries
  <2>. QED
    BY <1>1, <2>1, <2>2, CallFields
<1>3. Key(p)' = Key(p)
  BY <1>2 DEF Key
<1>4. Life(p)' /\ Shape(p)'
  BY <1>1, <1>2, <1>3 DEF Life, Shape, Signing, Local
<1>5. Handles(p)' /\ Restorable(p)' /\ Imported(p)' /\ OwnHere(p)' /\ HurtHere(p)'
  BY <1>2 DEF Local, Handles, Restorable, Imported, OwnHere, HurtHere, Returned
<1>6. StaleReply # Failed
  BY NoValueAssumption DEF Replies
<1>7. Stream(p)' /\ Lag(p)'
  BY <1>2, <1>6 DEF Stream, Lag, Awaiting, Calling, Delivers, Consistent
<1>. QED
  BY <1>2, <1>4, <1>5, <1>7 DEF Local

\* The key has its new handle, and the request is made again.
LEMMA Reimported ==
    ASSUME TypeOK, NEW p \in Procs, Local(p), op[p] # Nil, op[p].kind \in {"sign", "prove"},
           NEW r, NEW c, Delivers(p, r, c), op[p].stage = "reimport",
           vault = "confidentialspace", r \in KeyReplies \/ r \in Signatures,
           NEW req \in SignRequests, req.msg = op[p].msg,
           reimportLocked(p, r, req),
           conn'[p] = c, vault' = vault, table' = table
    PROVE  Local(p)' /\ op'[p] \in Operations /\ keys'[p] \in Seq(Entries)
<1> DEFINE h == HandleOf(r)
           i == op[p].idx
<1>1. /\ up[p] = "ready" /\ Signing(p) /\ op[p] \in Operations /\ Key(p) \in Entries
      /\ i \in DOMAIN keys[p] /\ last[p] = Nil /\ p \in Servers
  BY SigningReady DEF Local, Life, Signing
<1>2. /\ r \in Replies /\ r # Failed
      /\ IF r \in KeyReplies
         THEN h = r.handle /\ h \in 1..Len(table[p]) /\ table[p][h] = Key(p).pub
         ELSE h = 0
  BY <1>1, ReplyKinds, NoValueAssumption DEF HandleOf, Delivers, Replies
<1>3. h \in Nat
  BY <1>2 DEF TypeOK
<1>4. /\ keys[p] \in Seq(Entries)
      /\ keys'[p] = [keys[p] EXCEPT ![i].handle = h]
  BY DEF reimportLocked, TypeOK
<1>5. /\ keys'[p] \in Seq(Entries) /\ DOMAIN keys'[p] = DOMAIN keys[p]
      /\ \A j \in DOMAIN keys[p] : /\ keys'[p][j].pub = keys[p][j].pub
                                   /\ keys'[p][j].blob = keys[p][j].blob
                                   /\ j # i => keys'[p][j] = keys[p][j]
      /\ keys'[p][i].handle = h
  <2>1. [keys[p][i] EXCEPT !.handle = h] \in Entries
    BY <1>1, <1>3, <1>4 DEF Entries, Key
  <2>2. keys'[p] = [keys[p] EXCEPT ![i] = [keys[p][i] EXCEPT !.handle = h]]
    BY <1>4
  <2>3. keys'[p] \in Seq(Entries) /\ DOMAIN keys'[p] = DOMAIN keys[p]
    <3>1. keys[p] \in [1..Len(keys[p]) -> Entries] /\ Len(keys[p]) \in Nat
      BY <1>4
    <3>2. keys'[p] \in [1..Len(keys[p]) -> Entries]
      BY <2>1, <2>2, <3>1
    <3>. QED
      BY <3>1, <3>2
  <2>. QED
    BY <1>1, <1>4, <2>2, <2>3 DEF Key, Entries
<1>6. /\ op'[p] \in Operations /\ op'[p] # Nil
      /\ op'[p].kind = op[p].kind /\ op'[p].stage = "again" /\ op'[p].phase = "call"
      /\ op'[p].attempt = 1
      /\ op'[p].idx = i /\ op'[p].msg = op[p].msg
      /\ op'[p].req \in SignRequests /\ op'[p].req.handle = h /\ op'[p].req.msg = op[p].msg
  <2>1. op'[p] = Onwards(op[p], "again", WithHandle(req, h))
    BY DEF Call, TypeOK, reimportLocked, Onwards, WithHandle
  <2>2. /\ WithHandle(req, h) \in SignRequests
        /\ WithHandle(req, h).handle = h /\ WithHandle(req, h).msg = op[p].msg
    BY <1>3 DEF SignRequests, WithHandle
  <2>3. op'[p] \in Operations /\ op'[p] # Nil
    BY <1>1, <2>1, <2>2, CallFields
  <2>4. /\ op'[p].kind = op[p].kind /\ op'[p].stage = "again"
        /\ op'[p].phase = "call" /\ op'[p].attempt = 1
    BY <1>1, <2>1 DEF Onwards, Operations
  <2>5. op'[p].idx = op[p].idx /\ op'[p].msg = op[p].msg
    BY <1>1, <2>1 DEF Onwards, Operations
  <2>6. op'[p].req = WithHandle(req, h)
    BY <1>1, <2>1 DEF Onwards, Operations
  <2>. QED
    BY <2>2, <2>3, <2>4, <2>5, <2>6
<1>7. up' = up /\ last' = last
  BY DEF reimportLocked
<1>8. Life(p)' /\ Shape(p)'
  <2>1. AsksToSign(p)'
    BY <1>5, <1>6 DEF AsksToSign, Key
  <2>. QED
    BY <1>1, <1>5, <1>6, <1>7, <2>1 DEF Life, Shape, Signing
<1>9. Handles(p)'
  <2>1. /\ Handles(p) /\ table'[p] = table[p]
        /\ h = 0 \/ (h \in 1..Len(table[p]) /\ table[p][h] \in {Key(p).pub, Nil})
    BY <1>2 DEF Local
  <2>2. ASSUME NEW j \in DOMAIN keys[p]
        PROVE  LET g == keys'[p][j].handle
               IN  g = 0 \/ (g \in 1..Len(table[p]) /\ table[p][g] \in {keys'[p][j].pub, Nil})
    <3>1. CASE j = i
      BY <1>5, <2>1, <3>1 DEF Key
    <3>2. CASE j # i
      BY <1>5, <2>1, <3>2 DEF Handles
    <3>. QED
      BY <3>1, <3>2
  <2>. QED
    BY <1>5, <2>1, <2>2 DEF Handles
<1>10. Restorable(p)'
  BY <1>5 DEF Local, Restorable
<1>11. OwnHere(p)' /\ HurtHere(p)'
  BY <1>6 DEF OwnHere, HurtHere, Returned
<1>12. Imported(p)'
  <2> SUFFICES ASSUME hurt'[p] = {}
               PROVE  h \in DOMAIN table[p] /\ table[p][h] # Nil
    BY <1>6 DEF Imported, Known
  <2>1. Answers(p, r)
    BY <1>2 DEF Delivers
  <2>2. /\ op[p].req = ImportRequest(Key(p).blob)
        /\ Key(p).blob = Key(p).pub /\ Key(p).pub \in Keys
    BY <1>1, EnclaveAssumption DEF Signing, Local, Restorable, Key, Entries
  <2>3. op[p].req \in ImportRequests /\ op[p].req.blob # NoBlob
    BY <2>2, EnclaveAssumption DEF ImportRequest, ImportRequests, Blobs
  <2>4. r \in KeyReplies
    BY <2>1, <2>3 DEF Answers
  <2>. QED
    BY <1>2, <2>2, <2>4, EnclaveAssumption DEF TypeOK
<1>13. Stream(p)' /\ Lag(p)'
  BY <1>2, <1>6 DEF Stream, Lag, Awaiting, Calling, Delivers, Consistent
<1>. QED
  BY <1>5, <1>6, <1>8, <1>9, <1>10, <1>11, <1>12, <1>13 DEF Local

\* A step of process p.
StepOf(p) ==
    /\ \E u \in {"down", "starting", "ready"} : up' = [up EXCEPT ![p] = u]
    /\ \E e \in Seq(Entries) : keys' = [keys EXCEPT ![p] = e]
    /\ \E o \in Operations \cup {Nil} : op' = [op EXCEPT ![p] = o]
    /\ \E l \in Results \cup {Nil} : last' = [last EXCEPT ![p] = l]

\* Writing one process' own value back changes nothing.
LEMMA SameStep ==
    ASSUME TypeOK, NEW p \in Procs
    PROVE  /\ UNCHANGED up => \E u \in {"down", "starting", "ready"} : up' = [up EXCEPT ![p] = u]
           /\ UNCHANGED keys => \E e \in Seq(Entries) : keys' = [keys EXCEPT ![p] = e]
           /\ UNCHANGED op => \E o \in Operations \cup {Nil} : op' = [op EXCEPT ![p] = o]
           /\ UNCHANGED last => \E l \in Results \cup {Nil} : last' = [last EXCEPT ![p] = l]
<1>1. /\ up[p] \in {"down", "starting", "ready"} /\ up = [up EXCEPT ![p] = up[p]]
      /\ keys[p] \in Seq(Entries) /\ keys = [keys EXCEPT ![p] = keys[p]]
      /\ op[p] \in Operations \cup {Nil} /\ op = [op EXCEPT ![p] = op[p]]
      /\ last[p] \in Results \cup {Nil} /\ last = [last EXCEPT ![p] = last[p]]
  BY DEF TypeOK
<1>. QED
  BY <1>1

\* A signing operation goes on.
LEMMA ResumeSigning ==
    ASSUME TypeOK, NEW p \in Procs, Local(p), op[p] # Nil, op[p].kind \in {"sign", "prove"},
           NEW r, NEW c, Delivers(p, r, c), Resume(p, r, c)
    PROVE  Local(p)' /\ StepOf(p)
<1>1. /\ up[p] = "ready" /\ Signing(p) /\ op[p] \in Operations /\ Key(p) \in Entries
      /\ op[p].stage \in {"first", "again", "reimport"}
      /\ r \in Replies \cup {Failed} /\ c \in Connections \cup {Nil}
      /\ op[p].kind = "prove" => op[p].msg = Proof
  BY SigningReady DEF Delivers, Signing
<1>2. vault' = vault /\ table' = table
  BY DEF Resume
<1>3. /\ IsKey(r) <=> r \in KeyReplies
      /\ IsSignature(r) <=> r \in Signatures
      /\ IsStaleHandleError(r) <=> r = StaleReply
  BY <1>1, ReplyKinds
<1>4. \/ vault = "nitro" /\ ReturnSig(p, r)
      \/ /\ vault = "confidentialspace"
         /\ \E req \in SignRequests : req.msg = op[p].msg /\ SignOrReimport(p, r, req)
  <2>1. /\ SignRequest(Key(p).handle, op[p].msg) \in SignRequests
        /\ SignRequest(Key(p).handle, op[p].msg).msg = op[p].msg
        /\ ProvePossession(Key(p).handle) \in SignRequests
        /\ ProvePossession(Key(p).handle).msg = Proof
    BY <1>1 DEF SignRequest, ProvePossession, SignRequests, Entries, Operations, Messages
  <2>2. CASE op[p].kind = "sign"
    BY <2>1, <2>2 DEF Resume, nitroSign, confidentialSign, Key
  <2>3. CASE op[p].kind = "prove"
    BY <1>1, <2>1, <2>3 DEF Resume, nitroProvePossession, confidentialProvePossession, Key
  <2>. QED
    BY <2>2, <2>3
<1>5. ASSUME NEW g, ReturnSig(p, g),
             \/ /\ g = r /\ op[p].stage \in {"first", "again"}
                /\ ~(vault = "confidentialspace" /\ op[p].stage = "first" /\ r = StaleReply)
             \/ g = Failed /\ op[p].stage = "reimport" /\ r \notin KeyReplies
      PROVE  Local(p)' /\ StepOf(p)
  <2>1. UNCHANGED <<keys, up>>
    BY <1>5 DEF ReturnSig
  <2>2. conn'[p] = c
    BY <1>1, <2>1 DEF Resume, TypeOK
  <2>3. Local(p)' /\ last' \in [Procs -> Results \cup {Nil}]
    BY <1>2, <1>5, <2>2, SigReturned
  <2>4. last' = [last EXCEPT ![p] = last'[p]] /\ last'[p] \in Results \cup {Nil}
    BY <1>5, <2>3 DEF ReturnSig, TypeOK
  <2>5. op' = [op EXCEPT ![p] = Nil]
    BY <1>5 DEF ReturnSig
  <2>. QED
    BY <2>1, <2>3, <2>4, <2>5, SameStep DEF StepOf
<1>6. CASE vault = "nitro"
  <2>1. op[p].stage = "first"
    BY <1>1, <1>6 DEF Signing
  <2>. QED
    BY <1>4, <1>5, <1>6, <2>1
<1>7. CASE vault = "confidentialspace"
  <2>1. PICK req \in SignRequests : req.msg = op[p].msg /\ SignOrReimport(p, r, req)
    BY <1>4, <1>7
  <2>2. Key(p).blob # NoBlob
    <3>1. Key(p).blob = Key(p).pub
      BY <1>1, <1>7 DEF Local, Restorable, Signing, Key
    <3>. QED
      BY <1>1, <3>1, EnclaveAssumption DEF Entries
  <2>3. CASE op[p].stage # "reimport" /\ ~(op[p].stage = "first" /\ r = StaleReply)
             /\ ReturnSig(p, r)
    BY <1>1, <1>5, <2>3
  <2>4. CASE op[p].stage = "first" /\ r = StaleReply
             /\ Call(p, "reimport", ImportRequest(Key(p).blob)) /\ UNCHANGED <<keys, last, up>>
    <3>1. conn'[p] = c
      BY <1>1, <2>4 DEF Resume, TypeOK
    <3>2. Local(p)' /\ op'[p] \in Operations
      BY <1>2, <1>7, <2>4, <3>1, ReimportCalled
    <3>3. op' = [op EXCEPT ![p] = op'[p]]
      BY <2>4 DEF Call, TypeOK
    <3>. QED
      BY <2>4, <3>2, <3>3, SameStep DEF StepOf
  <2>5. CASE op[p].stage = "reimport" /\ (r \in KeyReplies \/ r \in Signatures)
             /\ reimportLocked(p, r, req)
    <3>1. conn'[p] = c /\ UNCHANGED <<up, last>>
      BY <1>1, <2>5 DEF Resume, TypeOK, reimportLocked
    <3>2. Local(p)' /\ op'[p] \in Operations /\ keys'[p] \in Seq(Entries)
      BY <1>2, <1>7, <2>1, <2>5, <3>1, Reimported
    <3>3. op' = [op EXCEPT ![p] = op'[p]]
      BY <2>5 DEF reimportLocked, Call, TypeOK
    <3>4. keys' = [keys EXCEPT ![p] = keys'[p]]
      BY <2>5 DEF reimportLocked, TypeOK
    <3>. QED
      BY <3>1, <3>2, <3>3, <3>4, SameStep DEF StepOf
  <2>6. CASE op[p].stage = "reimport" /\ r \notin KeyReplies /\ ReturnSig(p, Failed)
    BY <1>5, <2>6
  <2>. QED
    BY <1>3, <2>1, <2>2, <2>3, <2>4, <2>5, <2>6 DEF SignOrReimport, Key
<1>. QED
  BY <1>6, <1>7 DEF TypeOK

\* The vault's list grows by the key of a reply.
LEMMA KeyListed ==
    ASSUME TypeOK, NEW p \in Procs, Local(p), NEW r \in KeyReplies, NEW b \in Blobs,
           r.handle \in 1..Len(table[p]), table[p][r.handle] = r.pub,
           vault = "confidentialspace" /\ p \in Servers => b = r.pub,
           keys' = [keys EXCEPT ![p] = Append(@, [pub |-> r.pub, handle |-> r.handle,
                                                  blob |-> b])],
           vault' = vault, table' = table
    PROVE  /\ Handles(p)' /\ Restorable(p)'
           /\ \E e \in Seq(Entries) : keys' = [keys EXCEPT ![p] = e]
<1> DEFINE e == [pub |-> r.pub, handle |-> r.handle, blob |-> b]
<1>1. /\ e \in Entries /\ keys[p] \in Seq(Entries)
      /\ e.pub = r.pub /\ e.handle = r.handle /\ e.blob = b
  BY DEF Entries, KeyReplies, TypeOK
<1>2. keys'[p] = Append(keys[p], e) /\ keys' = [keys EXCEPT ![p] = Append(keys[p], e)]
  BY DEF TypeOK
<1> HIDE DEF e
<1>3. /\ Append(keys[p], e) \in Seq(Entries)
      /\ DOMAIN keys'[p] = 1..(Len(keys[p]) + 1) /\ DOMAIN keys[p] = 1..Len(keys[p])
      /\ Len(keys[p]) \in Nat
      /\ \A j \in 1..Len(keys[p]) : keys'[p][j] = keys[p][j]
      /\ keys'[p][Len(keys[p]) + 1] = e
  BY <1>1, <1>2
<1>4. \A j \in DOMAIN keys'[p] : j \in DOMAIN keys[p] \/ j = Len(keys[p]) + 1
  BY <1>3
<1>5. Handles(p)'
  BY <1>1, <1>3, <1>4 DEF Local, Handles
<1>6. Restorable(p)'
  BY <1>1, <1>3, <1>4 DEF Local, Restorable
<1>. QED
  BY <1>2, <1>3, <1>5, <1>6

\* The next of the stored keys is asked for, or the vault is ready.
LEMMA LoadsNext ==
    ASSUME TypeOK, NEW p \in Procs, up[p] = "starting", last[p] = Nil,
           op[p] \in Operations, op[p].kind = "new",
           NEW todo, todo \subseteq Items, LoadNext(p, todo),
           Handles(p)', Restorable(p)', conn'[p] \in Connections \cup {Nil},
           conn'[p] # Nil => ~conn'[p].left /\ conn'[p].replies = <<>>
    PROVE  /\ Local(p)'
           /\ \E u \in {"down", "starting", "ready"} : up' = [up EXCEPT ![p] = u]
           /\ \E o \in Operations \cup {Nil} : op' = [op EXCEPT ![p] = o]
           /\ \E l \in Results \cup {Nil} : last' = [last EXCEPT ![p] = l]
<1>1. last' = last
  BY DEF LoadNext
<1>2. CASE todo = {}
  <2>1. /\ op' = [op EXCEPT ![p] = Nil] /\ up' = [up EXCEPT ![p] = "ready"]
        /\ op'[p] = Nil /\ up'[p] = "ready"
    BY <1>2 DEF LoadNext, TypeOK
  <2>2. Life(p)' /\ Shape(p)' /\ Imported(p)' /\ OwnHere(p)' /\ HurtHere(p)'
    BY <1>1, <2>1 DEF Life, Shape, Imported, OwnHere, HurtHere, Returned
  <2>3. Stream(p)' /\ Lag(p)'
    BY <2>1 DEF Stream, Lag, Awaiting, Calling
  <2>. QED
    BY <1>1, <2>1, <2>2, <2>3, SameStep DEF Local
<1>3. CASE todo # {}
  <2> DEFINE i == CHOOSE j \in todo : TRUE
             o == [op[p] EXCEPT !.todo = todo, !.item = i, !.stage = "load",
                                !.phase = "call", !.attempt = 1,
                                !.req = ImportRequest(i.blob)]
  <2>1. i \in todo /\ i \in Items
    BY <1>3
  <2>2. up' = up /\ op' = [op EXCEPT ![p] = o] /\ op'[p] = o
    BY <1>3 DEF LoadNext, TypeOK
  <2> HIDE DEF i
  <2>3. ImportRequest(i.blob) \in ImportRequests
    BY <2>1 DEF ImportRequest, ImportRequests, Items
  <2>4. o \in Operations
    BY <2>1, <2>3 DEF Operations
  <2>5. /\ op'[p] # Nil /\ op'[p].kind = "new" /\ op'[p].phase = "call"
        /\ op'[p].stage = "load" /\ op'[p].item = i /\ op'[p].req = ImportRequest(i.blob)
        /\ op'[p].attempt = 1 /\ op'[p].todo = todo
    <3>1. o # Nil
      BY <2>4, NoValueAssumption
    <3>2. /\ o.kind = "new" /\ o.phase = "call" /\ o.stage = "load" /\ o.item = i
          /\ o.req = ImportRequest(i.blob) /\ o.attempt = 1 /\ o.todo = todo
      BY DEF Operations
    <3> HIDE DEF o
    <3>. QED
      BY <2>2, <3>1, <3>2
  <2> HIDE DEF o
  <2>6. Life(p)' /\ Shape(p)' /\ Imported(p)' /\ OwnHere(p)' /\ HurtHere(p)'
    BY <1>1, <2>1, <2>2, <2>5 DEF Life, Shape, Loading, Imported, OwnHere, HurtHere, Returned
  <2>7. Stream(p)' /\ Lag(p)'
    BY <2>5 DEF Stream, Lag, Awaiting, Calling
  <2>. QED
    BY <1>1, <2>2, <2>4, <2>6, <2>7, SameStep DEF Local
<1>. QED
  BY <1>2, <1>3

\* The process is gone.
LEMMA Gone ==
    ASSUME NEW p \in Procs, up'[p] = "down", op'[p] = Nil, conn'[p] = Nil,
           keys'[p] = <<>>, last'[p] = Nil
    PROVE  Local(p)'
<1>1. Handles(p)' /\ Restorable(p)'
  BY DEF Handles, Restorable
<1>2. Stream(p)' /\ Lag(p)'
  BY DEF Stream, Lag, Awaiting, Calling
<1>. QED
  BY <1>1, <1>2 DEF Local, Life, Shape, Imported, OwnHere, HurtHere, Returned

\* A vault that is being opened goes on.
LEMMA ResumeLoading ==
    ASSUME TypeOK, NEW p \in Procs, Local(p), op[p] # Nil, op[p].kind = "new",
           op[p].stage # "connect",
           NEW r, NEW c, Delivers(p, r, c), Resume(p, r, c)
    PROVE  Local(p)' /\ StepOf(p)
<1>1. /\ up[p] = "starting" /\ last[p] = Nil /\ op[p] \in Operations
      /\ op[p].todo \subseteq Items /\ op[p].item \in Items
      /\ op[p].req = ImportRequest(op[p].item.blob)
      /\ r \in Replies \cup {Failed} /\ c \in Connections \cup {Nil}
  BY DEF Local, Life, Shape, Loading, Delivers, TypeOK
<1>2. op[p].item.blob \in Blobs /\ op[p].req \in ImportRequests
      /\ op[p].req.blob = op[p].item.blob
  BY <1>1 DEF Items, ImportRequest, ImportRequests
<1>3. vault' = vault /\ table' = table
      /\ conn'[p] = IF up'[p] = "down" THEN Nil ELSE c
  BY DEF Resume, TypeOK
<1>4. PICK b \in Blobs : Loaded(p, r, b)
                         /\ (vault = "confidentialspace" => b = op[p].item.blob)
  BY <1>2 DEF Resume, nitroNew, confidentialNew, Blobs
<1>5. CASE r \in KeyReplies
  <2>1. /\ keys' = [keys EXCEPT ![p] = Append(@, [pub |-> r.pub, handle |-> r.handle,
                                                  blob |-> b])]
        /\ LoadNext(p, op[p].todo \ {op[p].item})
    BY <1>1, <1>4, <1>5, ReplyKinds DEF Loaded
  <2>2. r # Failed /\ r # ErrorReply
    BY <1>1, <1>5, ReplyKinds DEF Replies
  <2>3. Answers(p, r)
    BY <2>2 DEF Delivers
  <2>4. r.pub = op[p].item.blob
    BY <1>2, <2>2, <2>3 DEF Answers
  <2>5. Handles(p)' /\ Restorable(p)' /\ \E e \in Seq(Entries) : keys' = [keys EXCEPT ![p] = e]
    <3>1. r.handle \in 1..Len(table[p]) /\ table[p][r.handle] = r.pub
      BY <1>5 DEF Delivers
    <3>2. vault = "confidentialspace" /\ p \in Servers => b = r.pub
      BY <1>4, <2>4
    <3>. QED
      BY <1>3, <1>5, <2>1, <3>1, <3>2, KeyListed
  <2>6. conn'[p] \in Connections \cup {Nil}
        /\ (conn'[p] # Nil => ~conn'[p].left /\ conn'[p].replies = <<>>)
    BY <1>1, <1>3, <2>2 DEF Delivers
  <2>7. op[p].todo \ {op[p].item} \subseteq Items
    BY <1>1
  <2>. QED
    BY <1>1, <2>1, <2>5, <2>6, <2>7, LoadsNext DEF StepOf
<1>6. CASE r \notin KeyReplies
  <2>1. AbandonStart(p)
    BY <1>1, <1>4, <1>6, ReplyKinds DEF Loaded
  <2>2. /\ up' = [up EXCEPT ![p] = "down"] /\ keys' = [keys EXCEPT ![p] = <<>>]
        /\ op' = [op EXCEPT ![p] = Nil] /\ last' = last
    BY <2>1 DEF AbandonStart, Fail
  <2>3. up'[p] = "down" /\ keys'[p] = <<>> /\ op'[p] = Nil /\ last'[p] = Nil
        /\ <<>> \in Seq(Entries)
    BY <1>1, <2>2 DEF TypeOK
  <2>4. Local(p)'
    BY <1>3, <2>3, Gone
  <2>. QED
    BY <2>2, <2>3, <2>4, SameStep DEF StepOf
<1>. QED
  BY <1>5, <1>6

\* An import or a generation goes on.
LEMMA ResumeAdding ==
    ASSUME TypeOK, NEW p \in Procs, Local(p), op[p] # Nil,
           op[p].kind \in {"import", "generate"},
           NEW r, NEW c, Delivers(p, r, c), Resume(p, r, c)
    PROVE  Local(p)' /\ StepOf(p)
<1>1. /\ up[p] = "ready" /\ last[p] = Nil /\ op[p] \in Operations
      /\ Adding(p) /\ p \in Tools /\ p \notin Servers
      /\ r \in Replies \cup {Failed} /\ c \in Connections \cup {Nil}
  BY EnclaveAssumption DEF Local, Life, Shape, Adding, Delivers, TypeOK
<1>2. PICK b : ListKey(p, r, b) /\ b \in Blobs
  <2>1. Blob(r) \in Blobs
    BY <1>1, ReplyKinds DEF Blob, Blobs, KeyReplies
  <2>. QED
    BY <2>1 DEF Resume, nitroImport, nitroGenerate, confidentialImport,
       confidentialGenerate, Blobs
<1>3. up' = up /\ last' = last
  BY <1>2 DEF ListKey
<1>4. vault' = vault /\ table' = table /\ conn'[p] = c
  BY <1>1, <1>3 DEF Resume, TypeOK
<1>5. CASE r \in KeyReplies
  <2> DEFINE o == [op[p] EXCEPT !.phase = "store", !.item = [pub |-> r.pub, blob |-> r.blob]]
  <2>1. /\ keys' = [keys EXCEPT ![p] = Append(@, [pub |-> r.pub, handle |-> r.handle,
                                                  blob |-> b])]
        /\ op' = [op EXCEPT ![p] = o] /\ op'[p] = o
    BY <1>1, <1>2, <1>5, ReplyKinds DEF ListKey, TypeOK
  <2>2. [pub |-> r.pub, blob |-> r.blob] \in Items
    BY <1>5 DEF Items, KeyReplies
  <2>3. o \in Operations
    BY <1>1, <2>2 DEF Operations
  <2>4. /\ op'[p] # Nil /\ op'[p].kind = op[p].kind /\ op'[p].stage = op[p].stage
        /\ op'[p].req = op[p].req /\ op'[p].todo = op[p].todo /\ op'[p].phase = "store"
        /\ op'[p].item \in Items
    <3>1. o # Nil
      BY <2>3, NoValueAssumption
    <3>2. /\ o.kind = op[p].kind /\ o.stage = op[p].stage /\ o.req = op[p].req
          /\ o.todo = op[p].todo /\ o.phase = "store"
          /\ o.item = [pub |-> r.pub, blob |-> r.blob]
      BY <1>1 DEF Operations
    <3> HIDE DEF o
    <3>. QED
      BY <2>1, <2>2, <3>1, <3>2
  <2> HIDE DEF o
  <2>5. r # Failed
    BY <1>1, <1>5, ReplyKinds DEF Replies
  <2>6. Handles(p)' /\ Restorable(p)' /\ \E e \in Seq(Entries) : keys' = [keys EXCEPT ![p] = e]
    <3>1. r.handle \in 1..Len(table[p]) /\ table[p][r.handle] = r.pub
      BY <1>5 DEF Delivers
    <3>. QED
      BY <1>1, <1>2, <1>4, <1>5, <2>1, <3>1, KeyListed
  <2>7. Life(p)' /\ Shape(p)'
    BY <1>1, <1>3, <2>4 DEF Life, Shape, Adding
  <2>8. Imported(p)' /\ OwnHere(p)' /\ HurtHere(p)'
    BY <1>1, <2>4 DEF Imported, OwnHere, HurtHere, Returned, Adding
  <2>9. Stream(p)' /\ Lag(p)'
    BY <1>1, <1>4, <2>4, <2>5 DEF Stream, Lag, Awaiting, Calling, Delivers, Consistent
  <2>. QED
    BY <1>3, <2>1, <2>3, <2>6, <2>7, <2>8, <2>9, SameStep DEF StepOf, Local
<1>6. CASE r \notin KeyReplies
  <2>1. op' = [op EXCEPT ![p] = Nil] /\ op'[p] = Nil /\ keys' = keys
    BY <1>1, <1>2, <1>6, ReplyKinds DEF ListKey, Fail, TypeOK
  <2>2. Life(p)' /\ Shape(p)' /\ Imported(p)' /\ OwnHere(p)' /\ HurtHere(p)'
    BY <1>1, <1>3, <2>1 DEF Life, Shape, Imported, OwnHere, HurtHere, Returned
  <2>3. Handles(p)' /\ Restorable(p)'
    BY <1>4, <2>1 DEF Local, Handles, Restorable
  <2>4. Stream(p)' /\ Lag(p)'
    BY <1>1, <1>4, <2>1 DEF Stream, Lag, Awaiting, Calling, Delivers, Consistent
  <2>. QED
    BY <1>3, <2>1, <2>2, <2>3, <2>4, SameStep DEF StepOf, Local
<1>. QED
  BY <1>5, <1>6

-----------------------------------------------------------------------------
(* From one process to all of them. *)

\* What a step of process p may do to its connection, its handles and its faults.
WiresOf(p) ==
    /\ \E c \in Connections \cup {Nil} : conn' = [conn EXCEPT ![p] = c]
    /\ \E t \in Seq(Keys \cup {Nil}) : table' = [table EXCEPT ![p] = t]
    /\ \E h \in SUBSET {"fault", "left"} : hurt' = [hurt EXCEPT ![p] = h]

LEMMA SameWires ==
    ASSUME TypeOK, NEW p \in Procs
    PROVE  /\ UNCHANGED conn => \E c \in Connections \cup {Nil} : conn' = [conn EXCEPT ![p] = c]
           /\ UNCHANGED table => \E t \in Seq(Keys \cup {Nil}) : table' = [table EXCEPT ![p] = t]
           /\ UNCHANGED hurt =>
                 \E h \in SUBSET {"fault", "left"} : hurt' = [hurt EXCEPT ![p] = h]
<1>1. /\ conn[p] \in Connections \cup {Nil} /\ conn = [conn EXCEPT ![p] = conn[p]]
      /\ table[p] \in Seq(Keys \cup {Nil}) /\ table = [table EXCEPT ![p] = table[p]]
      /\ hurt[p] \in SUBSET {"fault", "left"} /\ hurt = [hurt EXCEPT ![p] = hurt[p]]
  BY DEF TypeOK
<1>. QED
  BY <1>1

\* The storage and the history keep their types.
RestTyped ==
    /\ UNCHANGED <<vault, driver>>
    /\ cache' \in [Procs -> SUBSET Items]
    /\ stored' \subseteq Items
    /\ acked' \subseteq Keys
    /\ shared' \in BOOLEAN
    /\ count' \in [{"ops", "starts", "faults"} -> Nat]

\* A step of one process leaves what is said of the others.
LEMMA OneSteps ==
    ASSUME TypeOK, \A q \in Procs : Local(q), NEW p \in Procs,
           Local(p)', StepOf(p), WiresOf(p), RestTyped
    PROVE  TypeOK' /\ \A q \in Procs : Local(q)'
<1>1. /\ up' \in [Procs -> {"down", "starting", "ready"}]
      /\ keys' \in [Procs -> Seq(Entries)]
      /\ op' \in [Procs -> Operations \cup {Nil}]
      /\ last' \in [Procs -> Results \cup {Nil}]
  BY DEF StepOf, TypeOK
<1>2. /\ conn' \in [Procs -> Connections \cup {Nil}]
      /\ table' \in [Procs -> Seq(Keys \cup {Nil})]
      /\ hurt' \in [Procs -> SUBSET {"fault", "left"}]
  BY DEF WiresOf, TypeOK
<1>3. TypeOK'
  BY <1>1, <1>2 DEF RestTyped, TypeOK
<1>4. ASSUME NEW q \in Procs, q # p
      PROVE  Local(q)'
  <2>1. up'[q] = up[q] /\ keys'[q] = keys[q] /\ op'[q] = op[q] /\ last'[q] = last[q]
    BY <1>4 DEF StepOf, TypeOK
  <2>2. conn'[q] = conn[q] /\ table'[q] = table[q] /\ hurt'[q] = hurt[q]
    BY <1>4 DEF WiresOf, TypeOK
  <2>3. vault' = vault
    BY DEF RestTyped
  <2>. QED
    BY <2>1, <2>2, <2>3, LocalStays
<1>. QED
  BY <1>3, <1>4

LEMMA Bumped ==
    ASSUME TypeOK, NEW e \in {"ops", "starts", "faults"}, NEW m, Bump(e, m)
    PROVE  count' \in [{"ops", "starts", "faults"} -> Nat]
BY DEF Bump, TypeOK

\* What an operation goes on with does not change its list of stored keys.
LEMMA ResumeKeepsList ==
    ASSUME TypeOK, NEW p \in Procs, Local(p), op[p] # Nil, NEW r, NEW c, Resume(p, r, c),
           p \in Tools
    PROVE  /\ up'[p] # "down" => up[p] # "down"
           /\ op'[p] # Nil /\ op'[p].kind # "new" =>
                 op[p].kind # "new" /\ op'[p].todo = op[p].todo
<1>1. /\ p \notin Servers /\ op[p] \in Operations /\ up[p] # "down"
      /\ op[p].kind \in {"import", "generate", "new"}
  BY EnclaveAssumption DEF TypeOK, Local, Life, Shape, Signing, Operations
<1>2. CASE op[p].kind = "new"
  <2>1. PICK b : Loaded(p, r, b)
    BY <1>2 DEF Resume, nitroNew, confidentialNew
  <2>2. op'[p] = Nil \/ op'[p].kind = "new"
    <3>1. AbandonStart(p) => op'[p] = Nil
      BY DEF AbandonStart, Fail, TypeOK
    <3>2. ASSUME NEW todo, LoadNext(p, todo)
          PROVE  op'[p] = Nil \/ op'[p].kind = "new"
      <4>1. todo = {} => op'[p] = Nil
        BY <3>2 DEF LoadNext, TypeOK
      <4>2. ASSUME todo # {}
            PROVE  op'[p].kind = "new"
        <5> DEFINE i == CHOOSE j \in todo : TRUE
        <5>1. op'[p] = [op[p] EXCEPT !.todo = todo, !.item = i, !.stage = "load",
                                     !.phase = "call", !.attempt = 1,
                                     !.req = ImportRequest(i.blob)]
          BY <3>2, <4>2 DEF LoadNext, TypeOK
        <5> HIDE DEF i
        <5>. QED
          BY <1>1, <1>2, <5>1 DEF Operations
      <4>. QED
        BY <4>1, <4>2
    <3>. QED
      BY <2>1, <3>1, <3>2 DEF Loaded
  <2>. QED
    BY <1>1, <2>2
<1>3. CASE op[p].kind # "new"
  <2>1. PICK b : ListKey(p, r, b)
    BY <1>1, <1>3 DEF Resume, nitroImport, nitroGenerate, confidentialImport,
       confidentialGenerate
  <2>. QED
    BY <1>1, <1>3, <2>1 DEF ListKey, Fail, TypeOK, Operations
<1>. QED
  BY <1>2, <1>3

\* An operation goes on with what its call returned.
LEMMA Resumed ==
    ASSUME IInv, NEW p \in Procs, op[p] # Nil, op[p].stage # "connect",
           NEW r, NEW c, Delivers(p, r, c), Resume(p, r, c),
           NEW h \in SUBSET {"fault", "left"}, hurt' = [hurt EXCEPT ![p] = h],
           count' \in [{"ops", "starts", "faults"} -> Nat]
    PROVE  IInv'
<1>1. TypeOK /\ Local(p) /\ op[p].kind \in {"sign", "prove", "import", "generate", "new"}
  BY DEF IInv, TypeOK, Operations
<1>2. Local(p)' /\ StepOf(p)
  BY <1>1, ResumeSigning, ResumeLoading, ResumeAdding
<1>3. WiresOf(p)
  <2>1. c \in Connections \cup {Nil} /\ table' = table
    BY DEF Delivers, Resume
  <2>2. \E d \in Connections \cup {Nil} : conn' = [conn EXCEPT ![p] = d]
    BY <2>1 DEF Resume
  <2>. QED
    BY <1>1, <2>1, <2>2, SameWires DEF WiresOf
<1>4. RestTyped
  BY <1>1 DEF RestTyped, Resume, TypeOK
<1>5. TypeOK' /\ \A q \in Procs : Local(q)'
  BY <1>1, <1>2, <1>3, <1>4, OneSteps DEF IInv
<1>6. Storage'
  <2>1. UNCHANGED <<driver, shared, stored, acked, cache>>
    BY DEF Resume
  <2>2. \A q \in Procs : q # p => up'[q] = up[q] /\ op'[q] = op[q]
    BY <1>1, <1>2 DEF StepOf, TypeOK
  <2>3. p \in Tools => /\ up'[p] # "down" => up[p] # "down"
                       /\ op'[p] # Nil /\ op'[p].kind # "new" =>
                             op[p].kind # "new" /\ op'[p].todo = op[p].todo
    BY <1>1, ResumeKeepsList
  <2>4. Tools \subseteq Procs
    BY DEF Procs
  <2>. QED
    BY <2>1, <2>2, <2>3, <2>4, StorageStays DEF IInv
<1>. QED
  BY <1>5, <1>6 DEF IInv

-----------------------------------------------------------------------------
(* The calls. *)

\* A call that fails returns no answer, and leaves a connection on which
\* nothing but a cancelled call's replies can come.
LEMMA FailureDelivers ==
    ASSUME TypeOK, NEW p \in Procs, hurt[p] \subseteq hurt'[p], "fault" \in hurt'[p],
           NEW c \in Connections \cup {Nil},
           c # Nil => /\ Consistent(p, c.replies)
                      /\ ~c.left => c.replies = <<>>
                      /\ vault = "confidentialspace" /\ p \in Servers => Len(c.replies) <= 1
    PROVE  Delivers(p, Failed, c)
<1>1. Failed \notin KeyReplies /\ Failed # StaleReply
  BY NoValueAssumption DEF Replies
<1>. QED
  BY <1>1 DEF Delivers

LEMMA ConnectFailsHolds ==
    ASSUME IInv, NEW p \in Procs, ConnectFails(p)
    PROVE  IInv'
<1>1. TypeOK /\ op[p] # Nil /\ op[p].stage # "connect" /\ Resume(p, Failed, Nil)
  BY DEF IInv, ConnectFails, Calling
<1>2. /\ hurt[p] \cup {"fault"} \in SUBSET {"fault", "left"}
      /\ hurt' = [hurt EXCEPT ![p] = hurt[p] \cup {"fault"}]
      /\ hurt'[p] = hurt[p] \cup {"fault"}
  BY <1>1 DEF ConnectFails, Faulty, TypeOK
<1>3. Delivers(p, Failed, Nil)
  BY <1>1, <1>2, FailureDelivers
<1>4. count' \in [{"ops", "starts", "faults"} -> Nat]
  BY <1>1, Bumped DEF ConnectFails
<1>. QED
  BY <1>1, <1>2, <1>3, <1>4, Resumed

LEMMA NotEmpty ==
    ASSUME NEW S, NEW s \in Seq(S), s # <<>>
    PROVE  Len(s) \in Nat /\ Len(s) >= 1
OBVIOUS

LEMMA ReceiveHolds ==
    ASSUME IInv, NEW p \in Procs, Receive(p)
    PROVE  IInv'
<1> DEFINE replies == conn[p].replies
           r == Head(replies)
           c == [conn[p] EXCEPT !.replies = Tail(@)]
<1>1. /\ TypeOK /\ Local(p) /\ Awaiting(p) /\ op[p] # Nil /\ op[p].stage # "connect"
      /\ op[p].phase = "await"
  BY DEF IInv, Receive, Awaiting, Local, Shape, Loading, Adding, Signing, TypeOK, Operations
<1>2. conn[p] \in Connections /\ conn[p] # Nil /\ replies \in Seq(Replies) /\ replies # <<>>
  BY <1>1, NoValueAssumption DEF Receive, TypeOK, Local, Stream, Connections
<1>3. /\ r = replies[1] /\ r \in Replies /\ Len(replies) \in Nat /\ Len(replies) >= 1
      /\ Tail(replies) \in Seq(Replies) /\ Len(Tail(replies)) = Len(replies) - 1
      /\ \A n \in 1..Len(Tail(replies)) : Tail(replies)[n] = replies[n + 1]
                                          /\ n + 1 \in 1..Len(replies)
  BY <1>2
<1>4. /\ c \in Connections /\ c.replies = Tail(replies) /\ c.left = conn[p].left
  BY <1>2, <1>3 DEF Connections
<1>5. hurt' = hurt /\ count' = count /\ Resume(p, r, c)
  BY DEF Receive
<1>6. Consistent(p, replies)
  BY <1>1, <1>2 DEF Local, Stream, Consistent
<1>7. Consistent(p, c.replies)
  BY <1>3, <1>4, <1>6 DEF Consistent
<1>8. r # Failed
  BY <1>3, NoValueAssumption
<1>9. ~c.left => Len(replies) = 1 /\ Answers(p, r)
  BY <1>1, <1>2, <1>3, <1>4 DEF Local, Stream
<1>10. c.left => "left" \in hurt[p] /\ op[p].kind # "new"
  BY <1>1, <1>2, <1>4 DEF Local, Stream, Shape, Loading
<1>11. ~c.left => c.replies = <<>>
  BY <1>3, <1>4, <1>9
<1>12. ASSUME vault = "confidentialspace", p \in Servers
       PROVE  /\ Len(c.replies) <= 1
              /\ op[p].stage = "reimport" /\ r \in KeyReplies => r.pub = Key(p).pub
              /\ op[p].stage = "first" /\ c.replies # <<>> => c.replies[1] \notin KeyReplies
  <2>1. /\ Len(replies) <= 2
        /\ op[p].stage = "first" /\ Len(replies) = 2 => replies[2] \notin KeyReplies
        /\ op[p].stage = "reimport" /\ replies # <<>> /\ replies[1] \in KeyReplies =>
              replies[1].pub = Key(p).pub
    BY <1>1, <1>2, <1>12 DEF Local, Lag, Calling
  <2>2. Tail(replies) # <<>> => Len(replies) = 2 /\ Tail(replies)[1] = replies[2]
    <3> SUFFICES ASSUME Tail(replies) # <<>>
                 PROVE  Len(replies) = 2 /\ Tail(replies)[1] = replies[2]
      OBVIOUS
    <3>1. Len(Tail(replies)) \in Nat /\ Len(Tail(replies)) >= 1
      BY <1>3, NotEmpty
    <3>2. Len(replies) = 2 /\ Len(Tail(replies)) = 1
      <4>1. /\ Len(replies) \in Nat /\ Len(replies) <= 2
            /\ Len(Tail(replies)) = Len(replies) - 1
        BY <1>3, <2>1
      <4>2. \A m, k \in Nat : m <= 2 /\ k = m - 1 /\ k >= 1 => m = 2 /\ k = 1
        OBVIOUS
      <4>. QED
        BY <3>1, <4>1, <4>2, Zenon
    <3>3. 1 \in 1..1 /\ 1 + 1 = 2
      OBVIOUS
    <3>. QED
      BY <1>3, <3>2, <3>3
  <2> HIDE DEF r, c
  <2>3. Len(c.replies) <= 1
    BY <1>3, <1>4, <2>1
  <2>4. op[p].stage = "first" /\ c.replies # <<>> => c.replies[1] \notin KeyReplies
    BY <1>4, <2>1, <2>2
  <2>5. op[p].stage = "reimport" /\ r \in KeyReplies => r.pub = Key(p).pub
    BY <1>2, <1>3, <2>1
  <2>. QED
    BY <2>3, <2>4, <2>5
<1>13. r \in KeyReplies => r.handle \in 1..Len(table[p]) /\ table[p][r.handle] = r.pub
  BY <1>3, <1>6 DEF Consistent
<1> HIDE DEF r, c
<1>14. Delivers(p, r, c)
  BY <1>3, <1>4, <1>5, <1>7, <1>8, <1>9, <1>10, <1>11, <1>12, <1>13 DEF Delivers
<1>15. hurt[p] \in SUBSET {"fault", "left"} /\ hurt' = [hurt EXCEPT ![p] = hurt[p]]
       /\ count' \in [{"ops", "starts", "faults"} -> Nat]
  BY <1>1, <1>5 DEF TypeOK
<1>. QED
  BY <1>1, <1>5, <1>14, <1>15, Resumed

LEMMA CancelHolds ==
    ASSUME IInv, NEW p \in Procs, Cancel(p)
    PROVE  IInv'
<1>1. /\ TypeOK /\ Local(p) /\ Awaiting(p) /\ op[p] # Nil /\ op[p].stage # "connect"
      /\ op[p].attempt \in {1, 2}
  BY DEF IInv, Cancel, Awaiting, Local, Shape, Loading, Adding, Signing, TypeOK, Operations
<1>2. conn[p] \in Connections /\ conn[p] # Nil /\ conn[p].replies \in Seq(Replies)
  BY <1>1, NoValueAssumption DEF TypeOK, Local, Stream, Connections
<1>3. /\ hurt[p] \cup {"fault"} \in SUBSET {"fault", "left"}
      /\ hurt' = [hurt EXCEPT ![p] = hurt[p] \cup {"fault"}]
      /\ hurt'[p] = hurt[p] \cup {"fault"}
  BY <1>1 DEF Cancel, Faulty, TypeOK
<1>4. count' \in [{"ops", "starts", "faults"} -> Nat]
  BY <1>1, Bumped DEF Cancel
<1>5. Consistent(p, conn[p].replies)
  BY <1>1, <1>2 DEF Local, Stream, Consistent
<1>6. DoRPC(op[p].attempt, "cancelled").keep <=> KeepsCancelled(op[p].attempt)
  <2>1. CASE vault = "nitro"
    BY <2>1 DEF DoRPC, nitroDoRPC, KeepsCancelled
  <2>2. CASE vault = "confidentialspace"
    <3>1. DoRPC(op[p].attempt, "cancelled") = confidentialDoRPC(op[p].attempt, "cancelled")
      BY <2>2 DEF DoRPC
    <3>2. KeepsCancelled(op[p].attempt) <=> op[p].attempt = 2
      BY <2>2 DEF KeepsCancelled
    <3>3. ~confidentialDoRPC(1, "cancelled").keep
      BY DEF confidentialDoRPC
    <3>4. ASSUME NEW a, a # 1
          PROVE  confidentialDoRPC(a, "cancelled").keep
      BY <3>4 DEF confidentialDoRPC
    <3>5. 2 # 1
      OBVIOUS
    <3>. QED
      BY <1>1, <3>1, <3>2, <3>3, <3>4, <3>5
  <2>. QED
    BY <1>1, <2>1, <2>2 DEF TypeOK
<1>7. vault = "confidentialspace" /\ p \in Servers =>
         /\ Len(conn[p].replies) <= 2
         /\ op[p].attempt = 2 => Len(conn[p].replies) <= 1
  BY <1>1, <1>2 DEF Local, Lag
<1>8. CASE Resume(p, Failed, Nil)
  BY <1>1, <1>3, <1>4, <1>8, FailureDelivers, Resumed
<1>9. ASSUME KeepsCancelled(op[p].attempt),
             Resume(p, Failed, [conn[p] EXCEPT !.left = @ \/ KeepsCancelled(op[p].attempt)])
      PROVE  IInv'
  <2> DEFINE c == [conn[p] EXCEPT !.left = @ \/ KeepsCancelled(op[p].attempt)]
  <2>1. c \in Connections /\ c.left = TRUE /\ c.replies = conn[p].replies
    BY <1>2, <1>9 DEF Connections, KeepsCancelled
  <2>2. vault = "confidentialspace" => op[p].attempt = 2
    BY <1>9 DEF KeepsCancelled
  <2> HIDE DEF c
  <2>3. Delivers(p, Failed, c)
    BY <1>1, <1>3, <1>5, <1>7, <2>1, <2>2, FailureDelivers
  <2>4. Resume(p, Failed, c)
    BY <1>9 DEF c
  <2>. QED
    BY <1>1, <1>3, <1>4, <2>3, <2>4, Resumed
<1>10. ASSUME conn[p].replies # <<>>,
              Resume(p, Failed, [conn[p] EXCEPT !.replies = Tail(@)])
       PROVE  IInv'
  <2> DEFINE replies == conn[p].replies
             c == [conn[p] EXCEPT !.replies = Tail(@)]
  <2>1. /\ Tail(replies) \in Seq(Replies) /\ Len(Tail(replies)) = Len(replies) - 1
        /\ Len(replies) \in Nat
        /\ \A n \in 1..Len(Tail(replies)) : Tail(replies)[n] = replies[n + 1]
                                            /\ n + 1 \in 1..Len(replies)
    BY <1>2, <1>10
  <2>2. c \in Connections /\ c.left = conn[p].left /\ c.replies = Tail(replies)
    BY <1>2, <2>1 DEF Connections
  <2>3. Consistent(p, c.replies)
    BY <1>5, <2>1, <2>2 DEF Consistent
  <2>4. ~c.left => Len(replies) = 1
    BY <1>1, <1>2, <1>10, <2>2 DEF Local, Stream
  <2>5. ~c.left => c.replies = <<>>
    BY <2>1, <2>2, <2>4
  <2>6. vault = "confidentialspace" /\ p \in Servers => Len(c.replies) <= 1
    BY <1>7, <2>1, <2>2
  <2> HIDE DEF c
  <2>7. Delivers(p, Failed, c)
    BY <1>1, <1>3, <2>2, <2>3, <2>5, <2>6, FailureDelivers
  <2>8. Resume(p, Failed, c)
    BY <1>10 DEF c
  <2>. QED
    BY <1>1, <1>3, <1>4, <2>7, <2>8, Resumed
<1>. QED
  BY <1>6, <1>8, <1>9, <1>10 DEF Cancel

LEMMA ConnErrorHolds ==
    ASSUME IInv, NEW p \in Procs, ConnError(p)
    PROVE  IInv'
<1>1. /\ TypeOK /\ Local(p) /\ Awaiting(p) /\ op[p] # Nil /\ op[p].stage # "connect"
      /\ op[p].attempt \in {1, 2} /\ op[p] \in Operations
      /\ conn[p].replies = <<>> /\ count' = count
  BY DEF IInv, ConnError, Awaiting, Local, Shape, Loading, Adding, Signing, TypeOK, Operations
<1>2. conn[p] \in Connections /\ conn[p] # Nil
  BY <1>1, NoValueAssumption DEF TypeOK, Local, Stream
<1>3. /\ DoRPC(op[p].attempt, "connection").again <=> op[p].attempt = 1
      /\ DoRPC(op[p].attempt, "connection").keep
  BY <1>1 DEF DoRPC, nitroDoRPC, confidentialDoRPC
<1>4. count' \in [{"ops", "starts", "faults"} -> Nat]
  BY <1>1 DEF TypeOK
<1>5. CASE op[p].attempt = 2
  <2>1. /\ hurt' = [hurt EXCEPT ![p] = hurt[p] \cup {"fault"}]
        /\ Resume(p, Failed, conn[p])
    BY <1>1, <1>3, <1>5 DEF ConnError, TypeOK
  <2>2. /\ hurt[p] \cup {"fault"} \in SUBSET {"fault", "left"}
        /\ hurt'[p] = hurt[p] \cup {"fault"}
    BY <1>1, <2>1 DEF TypeOK
  <2>3. Delivers(p, Failed, conn[p])
    BY <1>1, <1>2, <2>2, FailureDelivers DEF Consistent
  <2>. QED
    BY <1>1, <1>4, <2>1, <2>2, <2>3, Resumed
<1>6. CASE op[p].attempt = 1
  <2> DEFINE o == [op[p] EXCEPT !.phase = "call", !.attempt = 2]
  <2>1. /\ op' = [op EXCEPT ![p] = o] /\ op'[p] = o
        /\ conn' = [conn EXCEPT ![p] = Nil] /\ conn'[p] = Nil
        /\ UNCHANGED <<vault, driver, up, keys, cache, last, stored, table, acked, shared, hurt>>
    BY <1>1, <1>3, <1>6 DEF ConnError, TypeOK
  <2>2. o \in Operations
    BY <1>1 DEF Operations
  <2>3. /\ o # Nil /\ o.kind = op[p].kind /\ o.stage = op[p].stage /\ o.phase = "call"
        /\ o.req = op[p].req /\ o.idx = op[p].idx /\ o.msg = op[p].msg /\ o.todo = op[p].todo
        /\ o.item = op[p].item
    <3>1. o # Nil
      BY <2>2, NoValueAssumption
    <3>. QED
      BY <1>1, <3>1 DEF Operations
  <2> HIDE DEF o
  <2>4. Key(p)' = Key(p)
    BY <2>1, <2>3 DEF Key
  <2>5. Life(p)' /\ Shape(p)'
    BY <1>1, <2>1, <2>3, <2>4 DEF Local, Life, Shape, Signing, AsksToSign, Loading, Adding
  <2>6. Handles(p)' /\ Restorable(p)'
    BY <1>1, <2>1 DEF Local, Handles, Restorable
  <2>7. Stream(p)' /\ Lag(p)'
    BY <2>1, <2>3 DEF Stream, Lag, Awaiting
  <2>8. Imported(p)' /\ OwnHere(p)' /\ HurtHere(p)'
    BY <1>1, <2>1, <2>3 DEF Local, Imported, Known, OwnHere, HurtHere, Returned
  <2>9. StepOf(p) /\ WiresOf(p)
    BY <1>1, <2>1, <2>2, SameStep, SameWires DEF StepOf, WiresOf
  <2>10. RestTyped
    BY <1>1, <1>4, <2>1 DEF RestTyped, TypeOK
  <2>11. TypeOK' /\ \A q \in Procs : Local(q)'
    BY <1>1, <2>5, <2>6, <2>7, <2>8, <2>9, <2>10, OneSteps DEF IInv, Local
  <2>12. Storage'
    <3>1. \A q \in Tools : op'[q] = op[q] \/ (q = p /\ op[q] # Nil
                                              /\ op'[q].kind = op[q].kind
                                              /\ op'[q].todo = op[q].todo)
      BY <1>1, <2>1, <2>3 DEF TypeOK, Procs
    <3>. QED
      BY <2>1, <3>1, StorageStays DEF IInv
  <2>. QED
    BY <2>11, <2>12 DEF IInv
<1>. QED
  BY <1>1, <1>5, <1>6

\* The signer gives out a new handle for a key, or changes nothing.
LEMMA SignerReplies ==
    ASSUME TypeOK, NEW p \in Procs,
           NEW req \in SignRequests \cup ImportRequests \cup NewKeyRequests,
           NEW answer \in Signer(p, req)
    PROVE  \/ /\ answer[2] = table[p]
              /\ \/ /\ req \in SignRequests /\ Known(p, req.handle)
                    /\ answer[1] = SigReply(table[p][req.handle], req.msg)
                 \/ req \in SignRequests /\ ~Known(p, req.handle) /\ answer[1] = StaleReply
                 \/ req \in ImportRequests /\ req.blob = NoBlob /\ answer[1] = ErrorReply
           \/ \E k \in Keys, b \in Blobs :
                 /\ answer[1] = KeyReply(k, Len(table[p]) + 1, b)
                 /\ answer[2] = Append(table[p], k)
                 /\ \/ req \in ImportRequests /\ req.blob # NoBlob /\ k = req.blob
                    \/ req \in NewKeyRequests
<1>1. CASE req \in SignRequests
  <2>1. req.verb \in {"Sign", "ProvePossession"}
    BY <1>1 DEF SignRequests
  <2>2. Signer(p, req) = {<<IF Known(p, req.handle)
                            THEN SigReply(table[p][req.handle], req.msg)
                            ELSE StaleReply, table[p]>>}
    BY <2>1 DEF Signer
  <2>. QED
    BY <1>1, <2>2
<1>2. CASE req \in ImportRequests
  <2>1. req.verb = "Import" /\ req.blob \in Blobs
    BY <1>2 DEF ImportRequests
  <2>2. Signer(p, req) = {IF req.blob = NoBlob THEN <<ErrorReply, table[p]>>
                          ELSE <<KeyReply(req.blob, Len(table[p]) + 1, NoBlob),
                                 Append(table[p], req.blob)>>}
    BY <2>1 DEF Signer
  <2>3. req.blob # NoBlob => req.blob \in Keys
    BY <2>1 DEF Blobs
  <2>4. NoBlob \in Blobs
    BY DEF Blobs
  <2>. QED
    BY <1>2, <2>2, <2>3, <2>4
<1>3. CASE req \in NewKeyRequests
  <2>1. CASE req.verb = "ImportUnencrypted"
    <3>1. req.key \in Keys /\ req.key \in Blobs
      BY <1>3, <2>1 DEF NewKeyRequests, GenerateAndImport, Blobs
    <3>2. Signer(p, req) = {<<KeyReply(req.key, Len(table[p]) + 1, req.key),
                              Append(table[p], req.key)>>}
      BY <2>1 DEF Signer
    <3>. QED
      BY <1>3, <3>1, <3>2
  <2>2. CASE req.verb # "ImportUnencrypted"
    <3>1. req.verb = "GenerateAndImport"
      BY <1>3, <2>2 DEF NewKeyRequests, GenerateAndImport
    <3>2. Signer(p, req) = {<<KeyReply(k, Len(table[p]) + 1, k), Append(table[p], k)>> :
                            k \in NewKeys}
      BY <3>1 DEF Signer
    <3>3. NewKeys \subseteq Keys /\ Keys \subseteq Blobs
      BY DEF NewKeys, Unused, Blobs
    <3>. QED
      BY <1>3, <3>2, <3>3
  <2>. QED
    BY <2>1, <2>2
<1>. QED
  BY <1>1, <1>2, <1>3

\* The answer to the call under way, and the handles that go with it.
LEMMA SignerAnswers ==
    ASSUME TypeOK, NEW p \in Procs, Local(p), op[p] # Nil, op[p].stage # "connect",
           op[p].req \in SignRequests \cup ImportRequests \cup NewKeyRequests,
           NEW answer \in Signer(p, op[p].req)
    PROVE  /\ answer[1] \in Replies /\ answer[2] \in Seq(Keys \cup {Nil})
           /\ Len(table[p]) <= Len(answer[2])
           /\ \A h \in 1..Len(table[p]) : answer[2][h] = table[p][h]
           /\ answer[1] \in KeyReplies => /\ answer[1].handle \in 1..Len(answer[2])
                                          /\ answer[2][answer[1].handle] = answer[1].pub
           /\ op[p].req \in SignRequests => answer[2] = table[p] /\ answer[1] \notin KeyReplies
           /\ Answers(p, answer[1])
<1> DEFINE req == op[p].req
           a == answer[1]
           t == answer[2]
<1>1. table[p] \in Seq(Keys \cup {Nil}) /\ Len(table[p]) \in Nat
  BY DEF TypeOK
<1>2. CASE req \in SignRequests /\ t = table[p]
           /\ \/ Known(p, req.handle) /\ a = SigReply(table[p][req.handle], req.msg)
              \/ ~Known(p, req.handle) /\ a = StaleReply
  <2>1. AsksToSign(p) /\ Key(p) \in Entries /\ op[p].idx \in DOMAIN keys[p]
    <3>1. op[p].kind \in {"sign", "prove"}
      <4>1. op[p].kind \in {"sign", "prove", "import", "generate", "new"}
        BY DEF TypeOK, Operations
      <4>2. op[p].kind \notin {"import", "generate"}
        BY <1>2, RequestKinds DEF Local, Shape, Adding
      <4>3. op[p].kind # "new"
        BY <1>2 DEF Local, Shape, Loading, ImportRequest, SignRequests
      <4>. QED
        BY <4>1, <4>2, <4>3
    <3>2. Signing(p) /\ op[p].idx \in DOMAIN keys[p] /\ Key(p) \in Entries
      BY <3>1, SigningReady
    <3>3. op[p].req # ImportRequest(Key(p).blob)
      BY <1>2 DEF ImportRequest, SignRequests
    <3>. QED
      BY <3>2, <3>3 DEF Signing
  <2>2. /\ req.handle = Key(p).handle /\ req.msg = op[p].msg /\ req.msg \in Messages
        /\ req.handle \in Nat /\ Key(p).pub \in Keys
    BY <1>2, <2>1 DEF AsksToSign, SignRequests, Entries
  <2>3. Known(p, req.handle) => table[p][req.handle] = Key(p).pub
    BY <1>1, <2>1, <2>2 DEF Known, Local, Handles, Key
  <2>4. a = SigReply(Key(p).pub, op[p].msg) \/ (a = StaleReply /\ ~Known(p, req.handle))
    BY <1>2, <2>2, <2>3
  <2>5. a \in Replies /\ a \notin KeyReplies
    BY <2>2, <2>4 DEF SigReply, Replies, Signatures, KeyReplies, StaleReply
  <2>6. Answers(p, a)
    BY <1>2, <2>4, RequestKinds DEF Answers
  <2>. QED
    BY <1>1, <1>2, <2>5, <2>6
<1>3. CASE req \in ImportRequests /\ t = table[p] /\ req.blob = NoBlob /\ a = ErrorReply
  <2>1. a \in Replies /\ a \notin KeyReplies
    BY <1>3 DEF Replies, ErrorReply, KeyReplies
  <2>2. Answers(p, a)
    BY <1>3, RequestKinds DEF Answers
  <2>. QED
    BY <1>1, <1>3, <2>1, <2>2, RequestKinds
<1>4. CASE \E k \in Keys, b \in Blobs :
              /\ a = KeyReply(k, Len(table[p]) + 1, b) /\ t = Append(table[p], k)
              /\ \/ req \in ImportRequests /\ req.blob # NoBlob /\ k = req.blob
                 \/ req \in NewKeyRequests
  <2>1. PICK k \in Keys, b \in Blobs :
              /\ a = KeyReply(k, Len(table[p]) + 1, b) /\ t = Append(table[p], k)
              /\ \/ req \in ImportRequests /\ req.blob # NoBlob /\ k = req.blob
                 \/ req \in NewKeyRequests
    BY <1>4
  <2>2. a \in KeyReplies /\ a.handle = Len(table[p]) + 1 /\ a.pub = k
    BY <1>1, <2>1 DEF KeyReply, KeyReplies
  <2>3. /\ t \in Seq(Keys \cup {Nil}) /\ Len(t) = Len(table[p]) + 1
        /\ \A h \in 1..Len(table[p]) : t[h] = table[p][h]
        /\ t[Len(table[p]) + 1] = k
    BY <1>1, <2>1
  <2>4. a.handle \in 1..Len(t) /\ Len(table[p]) <= Len(t)
    BY <1>1, <2>2, <2>3
  <2>5. Answers(p, a)
    BY <2>1, <2>2, RequestKinds DEF Answers
  <2>6. req \notin SignRequests
    BY <2>1, RequestKinds
  <2>7. a \in Replies
    BY <2>2 DEF Replies
  <2>. QED
    BY <2>2, <2>3, <2>4, <2>5, <2>6, <2>7
<1>. QED
  BY <1>2, <1>3, <1>4, SignerReplies

\* The connection a request is written to.
LEMMA Connected ==
    ASSUME TypeOK, NEW p \in Procs, Local(p), op[p] # Nil, op[p].phase = "call",
           NEW c, c = connectLocked(conn[p])
    PROVE  /\ c \in Connections /\ c # Nil /\ c.replies \in Seq(Replies)
           /\ Consistent(p, c.replies)
           /\ ~c.left => c.replies = <<>>
           /\ c.left => "left" \in hurt[p] /\ op[p].kind # "new"
           /\ vault = "confidentialspace" /\ p \in Servers =>
                 /\ Len(c.replies) <= 1
                 /\ op[p].attempt = 2 => c.replies = <<>>
                 /\ op[p].stage = "reimport" /\ c.replies # <<>> => c.replies[1] \notin KeyReplies
<1>1. CASE conn[p] = Nil
  <2>1. c = Fresh
    BY <1>1 DEF connectLocked
  <2>2. c \in Connections /\ c.replies = <<>> /\ c.left = FALSE
    BY <2>1 DEF Fresh, Connections
  <2>3. c # Nil
    BY <2>2, NoValueAssumption
  <2>. QED
    BY <2>2, <2>3 DEF Consistent
<1>2. CASE conn[p] # Nil
  <2>1. c = conn[p] /\ c \in Connections /\ c # Nil /\ c.replies \in Seq(Replies)
    BY <1>2 DEF connectLocked, TypeOK, Connections
  <2>2. Consistent(p, c.replies)
    BY <1>2, <2>1 DEF Local, Stream, Consistent
  <2>3. ~Awaiting(p) /\ Calling(p)
    BY DEF Awaiting, Calling
  <2>4. ~c.left => c.replies = <<>>
    BY <1>2, <2>1, <2>3 DEF Local, Stream
  <2>5. c.left => "left" \in hurt[p] /\ op[p].kind # "new"
    BY <1>2, <2>1 DEF Local, Stream, Shape, Loading
  <2>6. vault = "confidentialspace" /\ p \in Servers =>
                 /\ Len(c.replies) <= 1
                 /\ op[p].attempt = 2 => c.replies = <<>>
                 /\ op[p].stage = "reimport" /\ c.replies # <<>> => c.replies[1] \notin KeyReplies
    BY <1>2, <2>1, <2>3 DEF Local, Lag
  <2>. QED
    BY <2>1, <2>2, <2>4, <2>5, <2>6
<1>. QED
  BY <1>1, <1>2

\* The request is written: what the signer's table and the stream hold then.
LEMMA SendHolds ==
    ASSUME IInv, NEW p \in Procs, Send(p)
    PROVE  IInv'
<1> DEFINE o == [op[p] EXCEPT !.phase = "await"]
           c == connectLocked(conn[p])
<1>1. /\ TypeOK /\ Local(p) /\ op[p] # Nil /\ op[p] \in Operations /\ op[p].phase = "call"
      /\ op[p].stage # "connect" /\ op[p].attempt \in {1, 2}
      /\ UNCHANGED <<vault, driver, up, keys, cache, last, stored, acked, shared, hurt, count>>
  BY DEF IInv, Send, Calling, TypeOK, Operations
<1>2. /\ op' = [op EXCEPT ![p] = o] /\ op'[p] = o /\ o \in Operations /\ o # Nil
      /\ o.kind = op[p].kind /\ o.stage = op[p].stage /\ o.phase = "await"
      /\ o.attempt = op[p].attempt /\ o.req = op[p].req /\ o.idx = op[p].idx
      /\ o.msg = op[p].msg /\ o.todo = op[p].todo /\ o.item = op[p].item
  <2>1. op' = [op EXCEPT ![p] = o] /\ op'[p] = o
    BY <1>1 DEF Send, TypeOK
  <2>2. o \in Operations
    BY <1>1 DEF Operations
  <2>3. o # Nil
    BY <2>2, NoValueAssumption
  <2>4. /\ o.kind = op[p].kind /\ o.stage = op[p].stage /\ o.phase = "await"
        /\ o.attempt = op[p].attempt /\ o.req = op[p].req /\ o.idx = op[p].idx
        /\ o.msg = op[p].msg /\ o.todo = op[p].todo /\ o.item = op[p].item
    BY <1>1 DEF Operations
  <2> HIDE DEF o
  <2>. QED
    BY <2>1, <2>2, <2>3, <2>4
<1> HIDE DEF o
<1>3. /\ c \in Connections /\ c # Nil /\ c.replies \in Seq(Replies)
      /\ Consistent(p, c.replies)
      /\ ~c.left => c.replies = <<>>
      /\ c.left => "left" \in hurt[p] /\ op[p].kind # "new"
      /\ vault = "confidentialspace" /\ p \in Servers =>
            /\ Len(c.replies) <= 1
            /\ op[p].attempt = 2 => c.replies = <<>>
            /\ op[p].stage = "reimport" /\ c.replies # <<>> => c.replies[1] \notin KeyReplies
  BY <1>1, Connected
<1>4. \/ /\ c.ok
         /\ \E answer \in Signer(p, op[p].req) :
               /\ conn' = [conn EXCEPT ![p] = [c EXCEPT !.replies = Append(@, answer[1])]]
               /\ table' = [table EXCEPT ![p] = answer[2]]
      \/ ~c.ok /\ UNCHANGED <<conn, table>>
  BY DEF Send
<1>5. Key(p)' = Key(p) /\ Awaiting(p)' /\ ~Calling(p)' /\ ~Returned(p)'
  BY <1>1, <1>2 DEF Key, Awaiting, Calling, Returned
<1>6. op[p].kind = "new" => ~c.left
  BY <1>3
<1>7. /\ StepOf(p)
      /\ \E h \in SUBSET {"fault", "left"} : hurt' = [hurt EXCEPT ![p] = h]
      /\ RestTyped
  BY <1>1, <1>2, SameStep, SameWires DEF StepOf, RestTyped, TypeOK
<1>8. ~c.ok => conn[p] # Nil /\ conn[p] = c
  BY DEF connectLocked, Fresh
<1> HIDE DEF c
<1>9. ASSUME conn'[p] # Nil, conn'[p].left = c.left
      PROVE  Life(p)' /\ Shape(p)' /\ Restorable(p)' /\ OwnHere(p)' /\ HurtHere(p)'
  <2>1. Life(p)' /\ Restorable(p)' /\ OwnHere(p)' /\ HurtHere(p)'
    BY <1>1, <1>2, <1>5, <1>9 DEF Local, Life, Restorable, OwnHere, HurtHere
  <2>2. Signing(p) => Signing(p)'
    BY <1>1, <1>2, <1>5 DEF Signing, AsksToSign
  <2>3. Loading(p) /\ op[p].kind = "new" => Loading(p)'
    BY <1>1, <1>2, <1>6, <1>9 DEF Loading
  <2>4. Adding(p) => Adding(p)'
    BY <1>1, <1>2 DEF Adding
  <2>5. Shape(p)'
    BY <1>1, <1>2, <2>2, <2>3, <2>4 DEF Local, Shape
  <2>. QED
    BY <2>1, <2>5
<1>10. ASSUME c.ok
       PROVE  Local(p)' /\ WiresOf(p)
  <2>1. op[p].req \in SignRequests \cup ImportRequests \cup NewKeyRequests
    <3>1. op[p].kind \in {"sign", "prove"} => op[p].req \in SignRequests \cup ImportRequests
      <4>1. op[p].kind \in {"sign", "prove"} =>
               ImportRequest(Key(p).blob) \in ImportRequests /\ Signing(p)
        BY <1>1, SigningReady DEF ImportRequest, ImportRequests, Entries
      <4>. QED
        BY <4>1 DEF Signing, AsksToSign
    <3>2. op[p].kind = "new" => op[p].req \in ImportRequests
      BY <1>1 DEF Local, Shape, Loading, ImportRequest, ImportRequests, Items
    <3>3. op[p].kind \in {"import", "generate"} => op[p].req \in NewKeyRequests
      BY <1>1 DEF Local, Shape, Adding
    <3>. QED
      BY <1>1, <3>1, <3>2, <3>3 DEF Operations
  <2>2. PICK answer \in Signer(p, op[p].req) :
               /\ conn' = [conn EXCEPT ![p] = [c EXCEPT !.replies = Append(@, answer[1])]]
               /\ table' = [table EXCEPT ![p] = answer[2]]
    BY <1>4, <1>10
  <2> DEFINE a == answer[1]
             t == answer[2]
             d == [c EXCEPT !.replies = Append(@, a)]
  <2>3. /\ a \in Replies /\ t \in Seq(Keys \cup {Nil}) /\ Len(table[p]) <= Len(t)
        /\ \A h \in 1..Len(table[p]) : t[h] = table[p][h]
        /\ a \in KeyReplies => a.handle \in 1..Len(t) /\ t[a.handle] = a.pub
        /\ op[p].req \in SignRequests => t = table[p] /\ a \notin KeyReplies
        /\ Answers(p, a)
    BY <1>1, <2>1, SignerAnswers
  <2>4. table[p] \in Seq(Keys \cup {Nil}) /\ Len(table[p]) \in Nat /\ Len(t) \in Nat
        /\ DOMAIN table[p] = 1..Len(table[p]) /\ DOMAIN t = 1..Len(t)
    BY <1>1, <2>3 DEF TypeOK
  <2>5. /\ conn' = [conn EXCEPT ![p] = d] /\ conn'[p] = d
        /\ table' = [table EXCEPT ![p] = t] /\ table'[p] = t
    BY <1>1, <2>2 DEF TypeOK
  <2>6. d \in Connections /\ d.left = c.left /\ d.replies = Append(c.replies, a)
    BY <1>3, <2>3 DEF Connections
  <2>7. d # Nil
    BY <2>6, NoValueAssumption
  <2> HIDE DEF a, t, d
  <2>8. Life(p)' /\ Shape(p)' /\ Restorable(p)' /\ OwnHere(p)' /\ HurtHere(p)'
    BY <1>9, <2>5, <2>6, <2>7
  <2>9. Handles(p)'
    <3> SUFFICES ASSUME NEW i \in DOMAIN keys[p]
                 PROVE  LET h == keys[p][i].handle
                        IN  h = 0 \/ (h \in 1..Len(t) /\ t[h] \in {keys[p][i].pub, Nil})
      BY <1>1, <2>5 DEF Handles
    <3>1. LET h == keys[p][i].handle
          IN  h = 0 \/ (h \in 1..Len(table[p]) /\ table[p][h] \in {keys[p][i].pub, Nil})
      BY <1>1 DEF Local, Handles
    <3>2. \A h \in 1..Len(table[p]) : h \in 1..Len(t)
      BY <2>3, <2>4
    <3>. QED
      BY <2>3, <3>1, <3>2
  <2>10. Imported(p)'
    <3>1. \A h : Known(p, h) => h \in DOMAIN t /\ t[h] # Nil
      BY <2>3, <2>4 DEF Known
    <3>2. \A h : Known(p, h) => Known(p, h)'
      BY <2>5, <3>1 DEF Known
    <3>. QED
      BY <1>1, <1>2, <3>2 DEF Local, Imported
  <2>11. /\ Len(d.replies) = Len(c.replies) + 1 /\ Len(c.replies) \in Nat
         /\ \A n \in 1..Len(c.replies) : d.replies[n] = c.replies[n]
         /\ d.replies[Len(c.replies) + 1] = a
    BY <1>3, <2>3, <2>6
  <2>12. Answers(p, a)'
    <3>1. op[p].req \in SignRequests => (Known(p, op[p].req.handle)' <=> Known(p, op[p].req.handle))
      BY <1>2, <2>3, <2>5 DEF Known
    <3>. QED
      BY <1>2, <1>5, <2>3, <3>1 DEF Answers
  <2>13. ASSUME NEW n \in 1..Len(d.replies), d.replies[n] \in KeyReplies
         PROVE  d.replies[n].handle \in 1..Len(t) /\ t[d.replies[n].handle] = d.replies[n].pub
    <3>1. CASE n = Len(c.replies) + 1
      BY <2>3, <2>11, <2>13, <3>1
    <3>2. CASE n # Len(c.replies) + 1
      <4>1. n \in 1..Len(c.replies)
        BY <2>11, <3>2
      <4>2. c.replies[n].handle \in 1..Len(table[p])
            /\ table[p][c.replies[n].handle] = c.replies[n].pub
        BY <1>3, <2>11, <2>13, <4>1 DEF Consistent
      <4>3. \A h \in 1..Len(table[p]) : h \in 1..Len(t)
        BY <2>3, <2>4
      <4>. QED
        BY <2>3, <2>11, <4>1, <4>2, <4>3
    <3>. QED
      BY <3>1, <3>2
  <2>14. ~d.left => Len(d.replies) = 1 /\ d.replies[1] = a
    BY <1>3, <2>6, <2>11
  <2>15. Stream(p)'
    BY <1>1, <1>3, <1>5, <2>5, <2>6, <2>7, <2>12, <2>13, <2>14 DEF Stream
  <2>16. Lag(p)'
    <3> SUFFICES ASSUME vault = "confidentialspace", p \in Servers
                 PROVE  /\ Len(d.replies) <= IF op[p].attempt = 1 THEN 2 ELSE 1
                        /\ op[p].stage = "first" /\ Len(d.replies) = 2 =>
                              d.replies[2] \notin KeyReplies
                        /\ op[p].stage = "reimport" /\ d.replies[1] \in KeyReplies =>
                              d.replies[1].pub = Key(p).pub
      BY <1>1, <1>2, <1>5, <2>5 DEF Lag
    <3>1. Len(d.replies) <= IF op[p].attempt = 1 THEN 2 ELSE 1
      BY <1>1, <1>3, <2>11
    <3>2. ASSUME op[p].stage = "first", Len(d.replies) = 2
          PROVE  d.replies[2] \notin KeyReplies
      <4>1. d.replies[2] = a
        BY <2>11, <3>2
      <4>2. op[p].kind \in {"sign", "prove"}
        BY <1>1, <3>2, EnclaveAssumption DEF Local, Shape, Adding, Loading, Operations
      <4>3. op[p].req \in SignRequests
        BY <1>1, <3>2, <4>2 DEF Local, Shape, Signing, AsksToSign
      <4>. QED
        BY <2>3, <4>1, <4>3
    <3>3. ASSUME op[p].stage = "reimport", d.replies[1] \in KeyReplies
          PROVE  d.replies[1].pub = Key(p).pub
      <4>1. c.replies = <<>>
        BY <1>3, <2>11, <3>3, NotEmpty
      <4>2. d.replies[1] = a
        BY <2>11, <4>1
      <4>3. op[p].kind \in {"sign", "prove"}
        BY <1>1, <3>3 DEF Local, Shape, Adding, Loading, Operations
      <4>4. Key(p) \in Entries /\ op[p].req = ImportRequest(Key(p).blob)
        BY <1>1, <3>3, <4>3, SigningReady DEF Signing
      <4>5. Key(p).blob = Key(p).pub
        BY <1>1, <4>3, SigningReady DEF Local, Restorable, Key
      <4>6. op[p].req \in ImportRequests /\ op[p].req.blob = Key(p).pub
            /\ Key(p).pub # NoBlob
        BY <4>4, <4>5, EnclaveAssumption DEF ImportRequest, ImportRequests, Entries
      <4>. QED
        BY <2>3, <4>2, <4>6 DEF Answers
    <3>. QED
      BY <3>1, <3>2, <3>3
  <2>17. WiresOf(p)
    BY <1>7, <2>3, <2>5, <2>6 DEF WiresOf
  <2>. QED
    BY <2>8, <2>9, <2>10, <2>15, <2>16, <2>17 DEF Local
<1>11. ASSUME ~c.ok
       PROVE  Local(p)' /\ WiresOf(p)
  <2>1. UNCHANGED <<conn, table>> /\ conn[p] = c
    BY <1>4, <1>8, <1>11
  <2>2. Life(p)' /\ Shape(p)' /\ Restorable(p)' /\ OwnHere(p)' /\ HurtHere(p)'
    BY <1>3, <1>9, <2>1
  <2>3. Handles(p)' /\ Imported(p)'
    BY <1>1, <1>2, <2>1 DEF Local, Handles, Imported, Known
  <2>4. Stream(p)'
    BY <1>1, <1>3, <1>5, <2>1 DEF Stream, Consistent
  <2>5. Lag(p)'
    BY <1>1, <1>2, <1>3, <1>5, <2>1 DEF Lag
  <2>6. WiresOf(p)
    BY <1>1, <1>7, <2>1, SameWires DEF WiresOf
  <2>. QED
    BY <2>2, <2>3, <2>4, <2>5, <2>6 DEF Local
<1>12. TypeOK' /\ \A q \in Procs : Local(q)'
  BY <1>1, <1>7, <1>10, <1>11, OneSteps DEF IInv
<1>13. Storage'
  <2>1. \A q \in Tools : op'[q] = op[q] \/ (q = p /\ op[q] # Nil /\ op'[q].kind = op[q].kind
                                            /\ op'[q].todo = op[q].todo)
    BY <1>1, <1>2 DEF TypeOK, Procs
  <2>. QED
    BY <1>1, <2>1, StorageStays DEF IInv
<1>. QED
  BY <1>12, <1>13 DEF IInv

-----------------------------------------------------------------------------
(* Operations begin. *)

LEMMA BeginHolds ==
    ASSUME IInv, NEW p \in Procs, Idle(p), NEW o \in Operations, Begin(p, o),
           o.stage = "first", o.phase = "call", o.attempt = 1, o.todo = {},
           o.kind \in {"sign", "prove"} =>
              /\ p \in Servers /\ o.idx \in DOMAIN keys[p] /\ o.req \in SignRequests
              /\ o.req.handle = keys[p][o.idx].handle /\ o.req.msg = o.msg
              /\ o.kind = "prove" => o.msg = Proof,
           o.kind \notin {"sign", "prove"} =>
              p \in Tools /\ o.kind # "new" /\ o.req \in NewKeyRequests
    PROVE  IInv'
<1>1. /\ TypeOK /\ Local(p) /\ op[p] = Nil /\ up[p] = "ready" /\ o # Nil
      /\ o.kind \in {"sign", "prove", "import", "generate"}
  BY NoValueAssumption DEF IInv, Idle, Operations
<1>2. /\ op' = [op EXCEPT ![p] = o] /\ op'[p] = o
      /\ last' = [last EXCEPT ![p] = Nil] /\ last'[p] = Nil
      /\ UNCHANGED <<vault, driver, up, conn, keys, cache, stored, table, acked, shared>>
  BY <1>1 DEF Begin, TypeOK
<1>3. PICK h \in SUBSET {"fault", "left"} :
         /\ hurt' = [hurt EXCEPT ![p] = h] /\ hurt'[p] = h
         /\ conn[p] # Nil /\ conn[p].left => "left" \in h
  BY <1>1 DEF Begin, TypeOK
<1>4. Life(p)' /\ Imported(p)' /\ OwnHere(p)' /\ HurtHere(p)'
  BY <1>1, <1>2 DEF Life, Imported, OwnHere, HurtHere, Returned
<1>5. Shape(p)'
  BY <1>1, <1>2 DEF Shape, Signing, AsksToSign, Adding, Key
<1>6. Handles(p)' /\ Restorable(p)'
  BY <1>1, <1>2 DEF Local, Handles, Restorable
<1>7. ~Awaiting(p) /\ ~Awaiting(p)' /\ ~Calling(p)
  BY <1>1, <1>2 DEF Awaiting, Calling
<1>8. Stream(p)'
  BY <1>1, <1>2, <1>3, <1>7 DEF Local, Stream
<1>9. Lag(p)'
  BY <1>1, <1>2, <1>7 DEF Local, Lag
<1>10. StepOf(p) /\ WiresOf(p)
  BY <1>1, <1>2, <1>3, SameStep, SameWires DEF StepOf, WiresOf
<1>11. RestTyped
  BY <1>1, <1>2, Bumped DEF Begin, RestTyped, TypeOK
<1>12. TypeOK' /\ \A q \in Procs : Local(q)'
  BY <1>1, <1>4, <1>5, <1>6, <1>8, <1>9, <1>10, <1>11, OneSteps DEF IInv, Local
<1>13. Storage'
  <2>1. \A q \in Tools : op'[q] = op[q] \/ op'[q].todo = {}
    BY <1>1, <1>2 DEF TypeOK, Procs
  <2>. QED
    BY <1>2, <2>1, StorageStays DEF IInv
<1>. QED
  BY <1>12, <1>13 DEF IInv

LEMMA SignHolds ==
    ASSUME IInv, NEW p \in Servers, NEW i, NEW m \in Msgs, Sign(p, i, m)
    PROVE  IInv'
<1> DEFINE o == [Operation("sign", SignRequest(keys[p][i].handle, m)) EXCEPT
                    !.idx = i, !.msg = m]
<1>1. p \in Procs /\ Idle(p) /\ i \in DOMAIN keys[p] /\ i \in Nat /\ keys[p][i] \in Entries
      /\ Begin(p, o)
  <2>1. p \in Procs /\ keys[p] \in Seq(Entries)
    BY DEF IInv, TypeOK, Procs
  <2>2. Idle(p) /\ i \in DOMAIN keys[p] /\ Begin(p, o)
    BY DEF Sign, List, nitroList, confidentialList
  <2>. QED
    BY <2>1, <2>2
<1>2. /\ SignRequest(keys[p][i].handle, m) \in SignRequests
      /\ SignRequest(keys[p][i].handle, m).handle = keys[p][i].handle
      /\ SignRequest(keys[p][i].handle, m).msg = m
  BY <1>1 DEF SignRequest, SignRequests, Entries, Messages
<1>3. /\ o \in Operations /\ o.kind = "sign" /\ o.stage = "first" /\ o.phase = "call"
      /\ o.attempt = 1 /\ o.todo = {} /\ o.idx = i /\ o.msg = m
      /\ o.req = SignRequest(keys[p][i].handle, m)
  BY <1>1, <1>2 DEF Operation, Operations, Messages
<1> HIDE DEF o
<1>. QED
  BY <1>1, <1>2, <1>3, BeginHolds

LEMMA ProveHolds ==
    ASSUME IInv, NEW p \in Servers, NEW i, Prove(p, i)
    PROVE  IInv'
<1> DEFINE o == [Operation("prove", ProvePossession(keys[p][i].handle)) EXCEPT !.idx = i]
<1>1. p \in Procs /\ Idle(p) /\ i \in DOMAIN keys[p] /\ i \in Nat /\ keys[p][i] \in Entries
      /\ Begin(p, o)
  <2>1. p \in Procs /\ keys[p] \in Seq(Entries)
    BY DEF IInv, TypeOK, Procs
  <2>2. Idle(p) /\ i \in DOMAIN keys[p] /\ Begin(p, o)
    BY DEF Prove, List, nitroList, confidentialList
  <2>. QED
    BY <2>1, <2>2
<1>2. /\ ProvePossession(keys[p][i].handle) \in SignRequests
      /\ ProvePossession(keys[p][i].handle).handle = keys[p][i].handle
      /\ ProvePossession(keys[p][i].handle).msg = Proof
  BY <1>1 DEF ProvePossession, SignRequests, Entries, Messages
<1>3. /\ o \in Operations /\ o.kind = "prove" /\ o.stage = "first" /\ o.phase = "call"
      /\ o.attempt = 1 /\ o.todo = {} /\ o.idx = i /\ o.msg = Proof
      /\ o.req = ProvePossession(keys[p][i].handle)
  BY <1>1, <1>2 DEF Operation, Operations, Messages
<1> HIDE DEF o
<1>. QED
  BY <1>1, <1>2, <1>3, BeginHolds

LEMMA ImportHolds ==
    ASSUME IInv, NEW p \in Tools, NEW k \in Keys, Import(p, k)
    PROVE  IInv'
<1> DEFINE o == Operation("import", ImportUnencrypted(k))
<1>1. p \in Procs /\ Idle(p) /\ Begin(p, o)
  BY DEF Import, Procs
<1>2. ImportUnencrypted(k) \in NewKeyRequests
  BY DEF ImportUnencrypted, NewKeyRequests
<1>3. /\ o \in Operations /\ o.kind = "import" /\ o.stage = "first" /\ o.phase = "call"
      /\ o.attempt = 1 /\ o.todo = {} /\ o.req = ImportUnencrypted(k)
  BY <1>2 DEF Operation, Operations, Messages
<1> HIDE DEF o
<1>. QED
  BY <1>1, <1>2, <1>3, BeginHolds

LEMMA GenerateHolds ==
    ASSUME IInv, NEW p \in Tools, NEW n \in Nat, Generate(p, n)
    PROVE  IInv'
<1> DEFINE o == [Operation("generate", GenerateAndImport) EXCEPT !.n = n]
<1>1. p \in Procs /\ Idle(p) /\ Begin(p, o)
  BY DEF Generate, Procs
<1>2. GenerateAndImport \in NewKeyRequests
  BY DEF NewKeyRequests
<1>3. /\ o \in Operations /\ o.kind = "generate" /\ o.stage = "first" /\ o.phase = "call"
      /\ o.attempt = 1 /\ o.todo = {} /\ o.req = GenerateAndImport
  BY <1>2 DEF Operation, Operations, Messages
<1> HIDE DEF o
<1>. QED
  BY <1>1, <1>2, <1>3, BeginHolds

-----------------------------------------------------------------------------
(* Processes start and stop; connections and the signer fail. *)

LEMMA StartHolds ==
    ASSUME IInv, NEW p \in Procs, Start(p)
    PROVE  IInv'
<1> DEFINE o == [Operation("new", Nil) EXCEPT !.stage = "connect"]
<1>1. TypeOK /\ Local(p) /\ up[p] = "down" /\ op[p] = Nil /\ conn[p] = Nil
  BY DEF IInv, Start, Local, Life
<1>2. /\ up' = [up EXCEPT ![p] = "starting"] /\ up'[p] = "starting"
      /\ op' = [op EXCEPT ![p] = o] /\ op'[p] = o
      /\ last' = [last EXCEPT ![p] = Nil] /\ last'[p] = Nil
      /\ hurt' = [hurt EXCEPT ![p] = {}]
      /\ cache' = [cache EXCEPT ![p] = newStorage]
      /\ UNCHANGED <<vault, driver, conn, keys, stored, table, acked>>
  BY <1>1 DEF Start, TypeOK
<1>3. /\ o \in Operations /\ o.kind = "new" /\ o.stage = "connect" /\ o.phase = "call"
      /\ o.attempt = 1 /\ o.todo = {}
  BY DEF Operation, Operations, Messages
<1>4. o # Nil
  BY <1>3, NoValueAssumption
<1> HIDE DEF o
<1>5. newStorage \in SUBSET Items /\ (driver = "file" => newStorage = stored)
  BY <1>1 DEF newStorage, nitroNewStorage, confidentialNewStorage, newFileStorage,
     newAWSStorage, newGCPStorage, TypeOK
<1>6. Local(p)'
  <2>1. Life(p)' /\ Shape(p)' /\ Imported(p)' /\ OwnHere(p)' /\ HurtHere(p)'
    BY <1>1, <1>2, <1>3, <1>4 DEF Life, Shape, Loading, Imported, OwnHere, HurtHere, Returned
  <2>2. Handles(p)' /\ Restorable(p)'
    BY <1>1, <1>2 DEF Local, Handles, Restorable
  <2>3. Stream(p)' /\ Lag(p)'
    BY <1>1, <1>2, <1>3 DEF Stream, Lag, Awaiting, Calling
  <2>. QED
    BY <2>1, <2>2, <2>3 DEF Local
<1>7. StepOf(p) /\ WiresOf(p)
  BY <1>1, <1>2, <1>3, SameStep, SameWires DEF StepOf, WiresOf
<1>8. /\ shared' \in BOOLEAN /\ (shared => shared')
      /\ \A q \in Tools \ {p} : p \in Tools /\ up[q] # "down" => shared'
  BY <1>1 DEF Start, TypeOK
<1>9. count' \in [{"ops", "starts", "faults"} -> Nat]
  <2>1. /\ count \in [{"ops", "starts", "faults"} -> Nat]
        /\ \E f \in {count["faults"], count["faults"] + 1} :
              count' = [count EXCEPT !["starts"] = count["starts"] + 1, !["faults"] = f]
    BY <1>1 DEF Start, TypeOK
  <2>. QED
    BY <2>1
<1>10. RestTyped
  BY <1>1, <1>2, <1>5, <1>8, <1>9 DEF RestTyped, TypeOK
<1>11. TypeOK' /\ \A q \in Procs : Local(q)'
  BY <1>1, <1>6, <1>7, <1>10, OneSteps DEF IInv
<1>12. Storage'
  <2>1. \A q \in Tools : q # p => up'[q] = up[q] /\ cache'[q] = cache[q] /\ op'[q] = op[q]
    BY <1>1, <1>2 DEF TypeOK, Procs
  <2>2. cache'[p] = newStorage
    BY <1>1, <1>2 DEF TypeOK
  <2>3. (\A x, y \in Tools : up[x] # "down" /\ up[y] # "down" /\ x # y => shared)'
    BY <1>8, <2>1 DEF IInv, Storage
  <2>4. (driver = "file" /\ ~shared =>
           \A x \in Tools : up[x] # "down" => stored \subseteq cache[x])'
    BY <1>2, <1>5, <1>8, <2>1, <2>2 DEF IInv, Storage
  <2>5. (Safe => \A x \in Tools : op[x] # Nil /\ op[x].kind # "new" =>
                    \A k \in op[x].todo : InStorage(k))'
    <3>1. Safe' => Safe
      BY <1>2, <1>8 DEF Safe
    <3>. QED
      BY <1>2, <1>3, <2>1, <3>1 DEF IInv, Storage, InStorage
  <2>6. AcknowledgedKept'
    BY <1>2, <1>8 DEF IInv, Storage, AcknowledgedKept
  <2>. QED
    BY <2>3, <2>4, <2>5, <2>6 DEF Storage
<1>. QED
  BY <1>11, <1>12 DEF IInv

LEMMA LoadHolds ==
    ASSUME IInv, NEW p \in Procs, Load(p)
    PROVE  IInv'
<1>1. /\ TypeOK /\ Local(p) /\ op[p] # Nil /\ op[p] \in Operations /\ op[p].stage = "connect"
      /\ UNCHANGED <<vault, driver, cache, stored, table, acked, shared, hurt>>
  BY DEF IInv, Load, Calling, TypeOK
<1>2. op[p].kind = "new" /\ up[p] = "starting" /\ last[p] = Nil /\ conn[p] = Nil
  BY <1>1 DEF Local, Life, Shape, Signing, Loading, Adding, Operations
<1>3. GetKeys(p) \subseteq Items
  BY <1>1 DEF GetKeys, fileGetKeys, awsGetKeys, gcpGetKeys, TypeOK
<1>4. \/ /\ conn' = [conn EXCEPT ![p] = connectLocked(@)]
         /\ LoadNext(p, GetKeys(p)) /\ UNCHANGED keys /\ UNCHANGED count
      \/ AbandonStart(p) /\ Bump("faults", MaxFaults) /\ UNCHANGED conn
  BY DEF Load
<1>5. ASSUME conn' = [conn EXCEPT ![p] = connectLocked(@)],
             LoadNext(p, GetKeys(p)), UNCHANGED keys, UNCHANGED count
      PROVE  Local(p)' /\ StepOf(p) /\ WiresOf(p) /\ RestTyped
  <2>1. conn' = [conn EXCEPT ![p] = Fresh] /\ conn'[p] = Fresh
    BY <1>1, <1>2, <1>5 DEF connectLocked, TypeOK
  <2>2. Fresh \in Connections /\ ~Fresh.left /\ Fresh.replies = <<>>
    BY DEF Fresh, Connections
  <2>3. Handles(p)' /\ Restorable(p)'
    BY <1>1, <1>5 DEF Local, Handles, Restorable
  <2>4. /\ Local(p)'
        /\ \E u \in {"down", "starting", "ready"} : up' = [up EXCEPT ![p] = u]
        /\ \E o \in Operations \cup {Nil} : op' = [op EXCEPT ![p] = o]
        /\ \E l \in Results \cup {Nil} : last' = [last EXCEPT ![p] = l]
    BY <1>1, <1>2, <1>3, <1>5, <2>1, <2>2, <2>3, LoadsNext
  <2>5. WiresOf(p)
    BY <1>1, <2>1, <2>2, SameWires DEF WiresOf
  <2>6. RestTyped
    BY <1>1, <1>5 DEF RestTyped, TypeOK
  <2>. QED
    BY <1>1, <1>5, <2>4, <2>5, <2>6, SameStep DEF StepOf
<1>6. ASSUME AbandonStart(p), Bump("faults", MaxFaults), UNCHANGED conn
      PROVE  Local(p)' /\ StepOf(p) /\ WiresOf(p) /\ RestTyped
  <2>1. /\ up' = [up EXCEPT ![p] = "down"] /\ keys' = [keys EXCEPT ![p] = <<>>]
        /\ op' = [op EXCEPT ![p] = Nil] /\ last' = last
    BY <1>6 DEF AbandonStart, Fail
  <2>2. up'[p] = "down" /\ keys'[p] = <<>> /\ op'[p] = Nil /\ last'[p] = Nil
        /\ conn'[p] = Nil /\ <<>> \in Seq(Entries)
    BY <1>1, <1>2, <1>6, <2>1 DEF TypeOK
  <2>3. Local(p)'
    BY <2>2, Gone
  <2>4. StepOf(p) /\ WiresOf(p)
    BY <1>1, <1>6, <2>1, <2>2, SameStep, SameWires DEF StepOf, WiresOf
  <2>5. RestTyped
    BY <1>1, <1>6, Bumped DEF RestTyped, TypeOK
  <2>. QED
    BY <2>3, <2>4, <2>5
<1>7. TypeOK' /\ (\A q \in Procs : Local(q)') /\ StepOf(p)
  BY <1>1, <1>4, <1>5, <1>6, OneSteps DEF IInv
<1>8. Storage'
  <2>1. \A q \in Tools : q # p => up'[q] = up[q] /\ op'[q] = op[q]
    BY <1>1, <1>7 DEF StepOf, TypeOK, Procs
  <2>2. op'[p] = Nil \/ op'[p].kind = "new"
    <3>1. CASE AbandonStart(p)
      BY <1>1, <3>1 DEF AbandonStart, Fail, TypeOK
    <3>2. CASE LoadNext(p, GetKeys(p))
      <4>1. GetKeys(p) = {} => op'[p] = Nil
        BY <1>1, <3>2 DEF LoadNext, TypeOK
      <4>2. ASSUME GetKeys(p) # {}
            PROVE  op'[p].kind = "new"
        <5> DEFINE i == CHOOSE j \in GetKeys(p) : TRUE
                   todo == GetKeys(p)
        <5>1. op'[p] = [op[p] EXCEPT !.todo = todo, !.item = i, !.stage = "load",
                                     !.phase = "call", !.attempt = 1,
                                     !.req = ImportRequest(i.blob)]
          BY <1>1, <3>2, <4>2 DEF LoadNext, TypeOK
        <5> HIDE DEF i, todo
        <5>. QED
          BY <1>1, <1>2, <5>1 DEF Operations
      <4>. QED
        BY <4>1, <4>2
    <3>. QED
      BY <1>4, <3>1, <3>2
  <2>. QED
    BY <1>1, <1>2, <2>1, <2>2, StorageStays DEF IInv
<1>. QED
  BY <1>7, <1>8 DEF IInv

LEMMA StopHolds ==
    ASSUME IInv, NEW p \in Procs, Stop(p)
    PROVE  IInv'
<1>1. TypeOK /\ Local(p)
  BY DEF IInv
<1>2. /\ up' = [up EXCEPT ![p] = "down"] /\ keys' = [keys EXCEPT ![p] = <<>>]
      /\ op' = [op EXCEPT ![p] = Nil] /\ last' = [last EXCEPT ![p] = Nil]
      /\ conn' = [conn EXCEPT ![p] = Nil] /\ cache' = [cache EXCEPT ![p] = {}]
      /\ table' = [table EXCEPT ![p] = <<>>] /\ hurt' = [hurt EXCEPT ![p] = {}]
      /\ UNCHANGED <<vault, driver, stored, acked, shared>>
  BY DEF Stop
<1>3. <<>> \in Seq(Entries) /\ <<>> \in Seq(Keys \cup {Nil})
  OBVIOUS
<1>4. Local(p)'
  <2>1. up'[p] = "down" /\ keys'[p] = <<>> /\ op'[p] = Nil /\ last'[p] = Nil /\ conn'[p] = Nil
    BY <1>1, <1>2 DEF TypeOK
  <2>. QED
    BY <2>1, Gone
<1>5. StepOf(p) /\ WiresOf(p)
  BY <1>2, <1>3 DEF StepOf, WiresOf
<1>6. RestTyped
  BY <1>1, <1>2, Bumped DEF Stop, RestTyped, TypeOK
<1>7. TypeOK' /\ \A q \in Procs : Local(q)'
  BY <1>1, <1>4, <1>5, <1>6, OneSteps DEF IInv
<1>8. Storage'
  <2>1. \A q \in Tools : \/ up'[q] = "down" /\ op'[q] = Nil
                         \/ up'[q] = up[q] /\ op'[q] = op[q] /\ cache'[q] = cache[q]
    BY <1>1, <1>2 DEF TypeOK, Procs
  <2>. QED
    BY <1>2, <2>1, StorageStays DEF IInv
<1>. QED
  BY <1>7, <1>8 DEF IInv

\* What a broken connection still says.
LEMMA BrokenStream ==
    ASSUME TypeOK, NEW p \in Procs, Local(p), conn'[p] = Broken(conn[p]),
           op' = op, vault' = vault, up' = up, keys' = keys,
           hurt[p] \subseteq hurt'[p], last' = last
    PROVE  /\ conn'[p] \in Connections \cup {Nil}
           /\ Life(p)' /\ Shape(p)' /\ Restorable(p)' /\ Stream(p)' /\ Lag(p)'
<1>1. /\ conn[p] = Nil <=> conn'[p] = Nil
      /\ conn'[p] # Nil => /\ conn'[p] \in Connections /\ conn'[p].replies = <<>>
                           /\ conn'[p].left = conn[p].left
  <2>1. CASE conn[p] = Nil
    BY <2>1 DEF Broken
  <2>2. CASE conn[p] # Nil
    <3>1. /\ conn'[p] \in Connections /\ conn'[p].replies = <<>>
          /\ conn'[p].left = conn[p].left
      <4>1. conn[p] \in Connections
        BY <2>2 DEF TypeOK
      <4>2. conn'[p] = [conn[p] EXCEPT !.ok = FALSE, !.replies = <<>>]
        BY <2>2 DEF Broken
      <4>3. <<>> \in Seq(Replies)
        OBVIOUS
      <4>4. conn'[p] \in Connections
        BY <4>1, <4>2, <4>3 DEF Connections
      <4>5. conn'[p].replies = <<>> /\ conn'[p].left = conn[p].left
        BY <4>1, <4>2 DEF Connections
      <4>. QED
        BY <4>4, <4>5
    <3>. QED
      BY <2>2, <3>1, NoValueAssumption
  <2>. QED
    BY <2>1, <2>2
<1>2. Life(p)' /\ Restorable(p)'
  BY <1>1 DEF Local, Life, Restorable
<1>3. Shape(p)'
  BY <1>1 DEF Local, Shape, Signing, AsksToSign, Loading, Adding, Key
<1>4. Stream(p)' /\ Lag(p)'
  BY <1>1 DEF Local, Stream, Lag, Awaiting, Calling
<1>. QED
  BY <1>1, <1>2, <1>3, <1>4

LEMMA BreakHolds ==
    ASSUME IInv, NEW p \in Procs, Break(p)
    PROVE  IInv'
<1>1. TypeOK /\ Local(p)
      /\ UNCHANGED <<vault, driver, up, keys, cache, op, last, stored, table, acked, shared, hurt>>
  BY DEF IInv, Break
<1>2. conn' = [conn EXCEPT ![p] = Broken(conn[p])] /\ conn'[p] = Broken(conn[p])
  BY <1>1 DEF Break, TypeOK
<1>3. /\ conn'[p] \in Connections \cup {Nil}
      /\ Life(p)' /\ Shape(p)' /\ Restorable(p)' /\ Stream(p)' /\ Lag(p)'
  BY <1>1, <1>2, BrokenStream
<1>4. Handles(p)' /\ Imported(p)' /\ OwnHere(p)' /\ HurtHere(p)'
  BY <1>1 DEF Local, Handles, Imported, OwnHere, HurtHere, Returned, Known
<1>5. StepOf(p) /\ WiresOf(p)
  BY <1>1, <1>2, <1>3, SameStep, SameWires DEF StepOf, WiresOf
<1>6. RestTyped
  BY <1>1, Bumped DEF Break, RestTyped, TypeOK
<1>7. TypeOK' /\ \A q \in Procs : Local(q)'
  BY <1>1, <1>3, <1>4, <1>5, <1>6, OneSteps DEF IInv, Local
<1>8. Storage'
  BY <1>1, StorageStays DEF IInv
<1>. QED
  BY <1>7, <1>8 DEF IInv

LEMMA RebootHolds ==
    ASSUME IInv, Reboot
    PROVE  IInv'
<1>1. TypeOK /\ UNCHANGED <<vault, driver, up, keys, cache, op, last, stored, acked, shared>>
  BY DEF IInv, Reboot
<1>2. ASSUME NEW p \in Procs
      PROVE  /\ conn'[p] = Broken(conn[p])
             /\ table'[p] = [h \in DOMAIN table[p] |-> Nil]
             /\ hurt'[p] \in SUBSET {"fault", "left"} /\ hurt[p] \subseteq hurt'[p]
             /\ op[p] = Nil => hurt'[p] = hurt[p]
             /\ op[p] # Nil /\ op[p].stage = "again" => hurt'[p] # {}
  BY <1>1 DEF Reboot, TypeOK
<1>3. ASSUME NEW p \in Procs
      PROVE  conn'[p] \in Connections \cup {Nil} /\ Local(p)'
             /\ table'[p] \in Seq(Keys \cup {Nil})
  <2>1. Local(p)
    BY DEF IInv
  <2>2. /\ conn'[p] \in Connections \cup {Nil}
        /\ Life(p)' /\ Shape(p)' /\ Restorable(p)' /\ Stream(p)' /\ Lag(p)'
    BY <1>1, <1>2, <2>1, BrokenStream
  <2>3. /\ table[p] \in Seq(Keys \cup {Nil}) /\ DOMAIN table[p] = 1..Len(table[p])
        /\ Len(table[p]) \in Nat
    BY <1>1 DEF TypeOK
  <2>4. /\ table'[p] \in Seq(Keys \cup {Nil}) /\ Len(table'[p]) = Len(table[p])
        /\ DOMAIN table'[p] = DOMAIN table[p]
        /\ \A h \in DOMAIN table[p] : table'[p][h] = Nil
    <3>1. table'[p] = [h \in 1..Len(table[p]) |-> Nil]
      BY <1>2, <2>3
    <3>. QED
      BY <2>3, <3>1
  <2>5. Handles(p)'
    BY <1>1, <2>1, <2>3, <2>4 DEF Local, Handles
  <2>6. Imported(p)'
    BY <1>1, <1>2 DEF Imported
  <2>7. OwnHere(p)'
    BY <1>1, <1>2, <2>1 DEF Local, OwnHere, Returned
  <2>8. HurtHere(p)'
    <3>1. \A h : Known(p, h)' => Known(p, h)
      BY <2>4 DEF Known
    <3>. QED
      BY <1>1, <1>2, <2>1, <3>1 DEF Local, HurtHere, Returned
  <2>. QED
    BY <2>2, <2>4, <2>5, <2>6, <2>7, <2>8 DEF Local
<1>4. TypeOK'
  <2>1. /\ conn' \in [Procs -> Connections \cup {Nil}]
        /\ table' \in [Procs -> Seq(Keys \cup {Nil})]
    BY <1>3 DEF Reboot
  <2>2. hurt' \in [Procs -> SUBSET {"fault", "left"}]
    BY <1>2 DEF Reboot
  <2>3. count' \in [{"ops", "starts", "faults"} -> Nat]
    BY <1>1, Bumped DEF Reboot
  <2>. QED
    BY <1>1, <2>1, <2>2, <2>3 DEF TypeOK
<1>5. Storage'
  BY <1>1, StorageStays DEF IInv
<1>. QED
  BY <1>3, <1>4, <1>5 DEF IInv

-----------------------------------------------------------------------------
(* The storage is written. *)

\* A tool that stores a key: what it is doing.
LEMMA StoringTool ==
    ASSUME IInv, NEW p \in Procs, op[p] # Nil, op[p].phase = "store"
    PROVE  /\ p \in Tools /\ p \notin Servers /\ up[p] = "ready" /\ last[p] = Nil
           /\ op[p] \in Operations /\ op[p].kind \in {"import", "generate"} /\ Adding(p)
           /\ op[p].item \in Items /\ op[p].todo \subseteq Keys
<1>1. TypeOK /\ Local(p) /\ op[p] \in Operations
  BY DEF IInv, TypeOK
<1>2. op[p].kind \in {"import", "generate"}
  BY <1>1 DEF Local, Shape, Signing, Loading, Operations
<1>3. Adding(p)
  BY <1>1, <1>2 DEF Local, Shape
<1>4. up[p] = "ready" /\ last[p] = Nil
  BY <1>1, <1>2 DEF Local, Life, TypeOK
<1>. QED
  BY <1>1, <1>2, <1>3, <1>4, EnclaveAssumption DEF Adding

\* The storage keeps the keys it has, and a key that was written is there.
LEMMA ImportKeyKeeps ==
    ASSUME IInv, NEW p \in Procs, op[p] # Nil, op[p].phase = "store",
           NEW written \in BOOLEAN, ImportKey(p, op[p].item, written)
    PROVE  /\ stored' \subseteq Items /\ cache' \in [Procs -> SUBSET Items]
           /\ Safe => \A k : InStorage(k) => \E i \in stored' : i.pub = k
           /\ Safe /\ written => \E i \in stored' : i.pub = op[p].item.pub
           /\ driver = "file" => /\ cache[p] \subseteq cache'[p]
                                 /\ stored \subseteq cache[p] => stored' \subseteq cache'[p]
<1> DEFINE item == op[p].item
<1>1. TypeOK /\ p \in Tools /\ item \in Items /\ up[p] = "ready"
  BY StoringTool DEF IInv
<1>2. CASE driver = "file"
  <2>1. /\ cache' = [cache EXCEPT ![p] = cache[p] \cup {item}]
        /\ stored' = IF written THEN cache'[p] ELSE stored
    BY <1>2 DEF ImportKey, fileImportKey
  <2>2. cache'[p] = cache[p] \cup {item} /\ cache' \in [Procs -> SUBSET Items]
    BY <1>1, <2>1 DEF TypeOK
  <2>3. Safe => stored \subseteq cache[p]
    BY <1>1, <1>2 DEF IInv, Storage, Safe
  <2>4. Safe => stored \subseteq stored'
    BY <2>1, <2>2, <2>3
  <2>5. stored' \subseteq Items
    BY <1>1, <2>1, <2>2 DEF TypeOK
  <2>6. Safe => \A k : InStorage(k) => \E i \in stored' : i.pub = k
    BY <2>4 DEF InStorage
  <2>7. written => item \in stored'
    BY <2>1, <2>2
  <2>8. cache[p] \subseteq cache'[p] /\ (stored \subseteq cache[p] => stored' \subseteq cache'[p])
    BY <2>1, <2>2
  <2>. QED
    BY <1>2, <2>2, <2>5, <2>6, <2>7, <2>8
<1>3. CASE driver = "table"
  <2>1. stored' = (IF written THEN Put(item) ELSE stored) /\ cache' = cache
    BY <1>1, <1>3 DEF ImportKey, awsImportKey, gcpImportKey, TypeOK
  <2>2. Put(item) \subseteq Items /\ item \in Put(item)
    BY <1>1 DEF Put, TypeOK
  <2>3. \A k : InStorage(k) => \E i \in Put(item) : i.pub = k
    BY DEF Put, InStorage
  <2>. QED
    BY <1>1, <1>3, <2>1, <2>2, <2>3 DEF TypeOK, InStorage
<1>. QED
  BY <1>1, <1>2, <1>3 DEF TypeOK

\* The operation is over, or, in a Generate, makes its next call.
LEMMA StoredLocal ==
    ASSUME TypeOK, NEW p \in Procs, Local(p), op[p] # Nil, op[p].phase = "store",
           up[p] = "ready", last[p] = Nil, op[p] \in Operations, p \in Tools, p \notin Servers,
           Adding(p), NEW o, op' = [op EXCEPT ![p] = o],
           \/ o = Nil
           \/ /\ o \in Operations /\ o.kind \in {"import", "generate"}
              /\ o.stage = "first" /\ o.phase = "call"
              /\ o.req = op[p].req /\ o.todo \subseteq Keys,
           UNCHANGED <<vault, up, conn, keys, last, table, hurt>>
    PROVE  Local(p)' /\ StepOf(p) /\ WiresOf(p)
<1>1. op'[p] = o
  BY DEF TypeOK
<1>2. o # Nil => /\ o \in Operations /\ o.kind \in {"import", "generate"}
                 /\ o.stage = "first" /\ o.phase = "call"
                 /\ o.req = op[p].req /\ o.todo \subseteq Keys
  OBVIOUS
<1>3. Life(p)' /\ OwnHere(p)' /\ HurtHere(p)'
  BY <1>1, <1>2 DEF Life, OwnHere, HurtHere, Returned
<1>4. Shape(p)' /\ Imported(p)'
  BY <1>1, <1>2 DEF Shape, Adding, Imported
<1>5. Handles(p)' /\ Restorable(p)' /\ Lag(p)'
  BY DEF Local, Handles, Restorable, Lag
<1>6. ~Awaiting(p) /\ ~Awaiting(p)'
  BY <1>1, <1>2 DEF Awaiting
<1>7. Stream(p)'
  BY <1>6 DEF Local, Stream
<1>8. StepOf(p) /\ WiresOf(p)
  BY <1>2, SameStep, SameWires DEF StepOf, WiresOf
<1>. QED
  BY <1>3, <1>4, <1>5, <1>7, <1>8 DEF Local

LEMMA StoredHolds ==
    ASSUME IInv, NEW p \in Procs, Stored(p)
    PROVE  IInv'
<1> DEFINE made == op[p].todo \cup {op[p].item.pub}
           next == [op[p] EXCEPT !.n = @ - 1, !.todo = made, !.stage = "first",
                                 !.phase = "call", !.attempt = 1]
<1>1. /\ TypeOK /\ Local(p) /\ op[p] # Nil /\ op[p].phase = "store"
      /\ ImportKey(p, op[p].item, TRUE)
      /\ UNCHANGED <<vault, driver, up, conn, keys, last, table, shared, hurt, count>>
  BY DEF IInv, Stored, ImportKey, fileImportKey, awsImportKey, gcpImportKey
<1>2. /\ p \in Tools /\ p \notin Servers /\ up[p] = "ready" /\ last[p] = Nil
      /\ op[p] \in Operations /\ op[p].kind \in {"import", "generate"} /\ Adding(p)
      /\ op[p].item \in Items /\ op[p].todo \subseteq Keys
  BY <1>1, StoringTool
<1>3. /\ stored' \subseteq Items /\ cache' \in [Procs -> SUBSET Items]
      /\ Safe => \A k : InStorage(k) => \E i \in stored' : i.pub = k
      /\ Safe => \E i \in stored' : i.pub = op[p].item.pub
      /\ driver = "file" => /\ cache[p] \subseteq cache'[p]
                            /\ stored \subseteq cache[p] => stored' \subseteq cache'[p]
  BY <1>1, ImportKeyKeeps
<1>4. made \subseteq Keys
  BY <1>2 DEF Items
<1>5. \/ op' = [op EXCEPT ![p] = Nil] /\ acked' = acked \cup made
      \/ op[p].n > 1 /\ op' = [op EXCEPT ![p] = next] /\ acked' = acked
  BY DEF Stored
<1>6. op[p].n > 1 => /\ next \in Operations /\ next.kind = op[p].kind /\ next.stage = "first"
                     /\ next.phase = "call" /\ next.req = op[p].req /\ next.todo = made
  <2>1. op[p].n > 1 => op[p].n - 1 \in Nat
    BY <1>2 DEF Operations
  <2>2. made \in SUBSET (Items \cup Keys)
    BY <1>4
  <2> HIDE DEF made
  <2>. QED
    BY <1>2, <2>1, <2>2 DEF Operations
<1> HIDE DEF made, next
<1>7. Local(p)' /\ StepOf(p) /\ WiresOf(p)
  BY <1>1, <1>2, <1>4, <1>5, <1>6, StoredLocal
<1>8. RestTyped
  BY <1>1, <1>3, <1>4, <1>5 DEF RestTyped, TypeOK
<1>9. TypeOK' /\ \A q \in Procs : Local(q)'
  BY <1>1, <1>7, <1>8, OneSteps DEF IInv
<1>10. Storage'
  <2>1. Safe' <=> Safe
    BY <1>1 DEF Safe
  <2>2. Safe => \A k \in made : \E i \in stored' : i.pub = k
    BY <1>1, <1>2, <1>3 DEF IInv, Storage, made
  <2>3. AcknowledgedKept'
    <3>1. Safe => \A k \in acked : \E i \in stored' : i.pub = k
      BY <1>3 DEF IInv, Storage, AcknowledgedKept, Safe, InStorage
    <3>. QED
      BY <1>1, <1>5, <2>2, <3>1 DEF AcknowledgedKept, Safe
  <2>4. (Safe => \A x \in Tools : op[x] # Nil /\ op[x].kind # "new" =>
                    \A k \in op[x].todo : InStorage(k))'
    <3>1. ASSUME Safe, NEW x \in Tools, x # p, op'[x] # Nil, op'[x].kind # "new",
                 NEW k \in op'[x].todo
          PROVE  \E i \in stored' : i.pub = k
      <4>1. op'[x] = op[x]
        BY <1>1, <1>5, <3>1 DEF TypeOK, Procs
      <4>2. InStorage(k)
        BY <3>1, <4>1 DEF IInv, Storage
      <4>. QED
        BY <1>3, <3>1, <4>2
    <3>2. ASSUME Safe, op'[p] # Nil, NEW k \in op'[p].todo
          PROVE  \E i \in stored' : i.pub = k
      <4>1. op'[p].todo = made
        BY <1>1, <1>5, <1>6, <3>2 DEF TypeOK
      <4>. QED
        BY <2>2, <3>2, <4>1
    <3>. QED
      BY <2>1, <3>1, <3>2 DEF InStorage
  <2>5. (\A x, y \in Tools : up[x] # "down" /\ up[y] # "down" /\ x # y => shared)'
    BY <1>1 DEF IInv, Storage
  <2>6. (driver = "file" /\ ~shared =>
           \A x \in Tools : up[x] # "down" => stored \subseteq cache[x])'
    <3>1. \A x \in Tools : ~shared /\ up[x] # "down" => x = p
      BY <1>2 DEF IInv, Storage
    <3>. QED
      BY <1>1, <1>2, <1>3, <3>1 DEF IInv, Storage
  <2>. QED
    BY <2>3, <2>4, <2>5, <2>6 DEF Storage
<1>. QED
  BY <1>9, <1>10 DEF IInv

LEMMA StoreFailsHolds ==
    ASSUME IInv, NEW p \in Procs, StoreFails(p)
    PROVE  IInv'
<1>1. /\ TypeOK /\ Local(p) /\ op[p] # Nil /\ op[p].phase = "store"
      /\ op' = [op EXCEPT ![p] = Nil]
      /\ UNCHANGED <<vault, driver, up, conn, keys, last, table, acked, shared, hurt>>
  BY DEF IInv, StoreFails, Fail
<1>2. /\ p \in Tools /\ p \notin Servers /\ up[p] = "ready" /\ last[p] = Nil
      /\ op[p] \in Operations /\ Adding(p)
  BY <1>1, StoringTool
<1>3. /\ stored' \subseteq Items /\ cache' \in [Procs -> SUBSET Items]
      /\ Safe => \A k : InStorage(k) => \E i \in stored' : i.pub = k
      /\ driver = "file" => /\ cache[p] \subseteq cache'[p]
                            /\ stored \subseteq cache[p] => stored' \subseteq cache'[p]
  <2>1. PICK written \in BOOLEAN : ImportKey(p, op[p].item, written)
    BY DEF StoreFails
  <2>. QED
    BY <1>1, <2>1, ImportKeyKeeps
<1>4. Local(p)' /\ StepOf(p) /\ WiresOf(p)
  BY <1>1, <1>2, StoredLocal
<1>5. RestTyped
  BY <1>1, <1>3, Bumped DEF StoreFails, RestTyped, TypeOK
<1>6. TypeOK' /\ \A q \in Procs : Local(q)'
  BY <1>1, <1>4, <1>5, OneSteps DEF IInv
<1>7. Storage'
  <2>1. AcknowledgedKept'
    BY <1>1, <1>3 DEF IInv, Storage, AcknowledgedKept, Safe, InStorage
  <2>2. (Safe => \A x \in Tools : op[x] # Nil /\ op[x].kind # "new" =>
                    \A k \in op[x].todo : InStorage(k))'
    <3>1. \A x \in Tools : op'[x] # Nil => op'[x] = op[x]
      BY <1>1 DEF TypeOK, Procs
    <3>2. Safe' <=> Safe
      BY <1>1 DEF Safe
    <3>3. Safe => \A k : InStorage(k) => InStorage(k)'
      BY <1>3 DEF InStorage
    <3>. QED
      BY <3>1, <3>2, <3>3 DEF IInv, Storage
  <2>3. (\A x, y \in Tools : up[x] # "down" /\ up[y] # "down" /\ x # y => shared)'
    BY <1>1 DEF IInv, Storage
  <2>4. (driver = "file" /\ ~shared =>
           \A x \in Tools : up[x] # "down" => stored \subseteq cache[x])'
    <3>1. \A x \in Tools : ~shared /\ up[x] # "down" => x = p
      BY <1>2 DEF IInv, Storage
    <3>. QED
      BY <1>1, <1>2, <1>3, <3>1 DEF IInv, Storage
  <2>. QED
    BY <2>1, <2>2, <2>3, <2>4 DEF Storage
<1>. QED
  BY <1>6, <1>7 DEF IInv

-----------------------------------------------------------------------------
(* The results. *)

LEMMA InitHolds == Init => IInv
<1> SUFFICES ASSUME Init
             PROVE  IInv
  OBVIOUS
<1>1. TypeOK
  <2>1. <<>> \in Seq(Entries) /\ <<>> \in Seq(Keys \cup {Nil})
    OBVIOUS
  <2>2. stored \subseteq Items
    BY DEF Init, Items, Blobs
  <2>3. count \in [{"ops", "starts", "faults"} -> Nat]
    BY DEF Init, NoCounts
  <2>. QED
    BY <2>1, <2>2, <2>3 DEF Init, TypeOK
<1>2. ASSUME NEW p \in Procs
      PROVE  Local(p)
  <2>1. up[p] = "down" /\ op[p] = Nil /\ conn[p] = Nil /\ keys[p] = <<>> /\ last[p] = Nil
    BY DEF Init
  <2>2. Handles(p) /\ Restorable(p)
    BY <2>1 DEF Handles, Restorable
  <2>3. Stream(p) /\ Lag(p)
    BY <2>1 DEF Stream, Lag, Awaiting, Calling
  <2>. QED
    BY <2>1, <2>2, <2>3 DEF Local, Life, Shape, Imported, OwnHere, HurtHere, Returned
<1>3. Storage
  BY DEF Init, Storage, AcknowledgedKept, Procs
<1>. QED
  BY <1>1, <1>2, <1>3 DEF IInv

\* Nothing happens: everything stays as it was.
LEMMA StutterHolds ==
    ASSUME IInv, UNCHANGED vars
    PROVE  IInv'
<1>1. TypeOK'
  BY DEF IInv, vars, TypeOK
<1>2. \A q \in Procs : Local(q)'
  BY LocalStays DEF IInv, vars
<1>3. Storage'
  BY StorageStays DEF IInv, vars
<1>. QED
  BY <1>1, <1>2, <1>3 DEF IInv

LEMMA NextHolds == IInv /\ [Next]_vars => IInv'
<1> SUFFICES ASSUME IInv, [Next]_vars
             PROVE  IInv'
  OBVIOUS
<1>1. CASE UNCHANGED vars
  BY <1>1, StutterHolds
<1>2. ASSUME NEW p \in Servers, NEW i \in 1..Cardinality(Keys),
             Prove(p, i) \/ \E m \in Msgs : Sign(p, i, m)
      PROVE  IInv'
  BY <1>2, SignHolds, ProveHolds
<1>3. ASSUME NEW p \in Tools, (\E k \in Keys : Import(p, k)) \/ Generate(p, Generated)
      PROVE  IInv'
  <2>1. Generated \in Nat
    BY EnclaveAssumption
  <2>. QED
    BY <1>3, <2>1, ImportHolds, GenerateHolds
<1>4. ASSUME NEW p \in Procs, Start(p) \/ Load(p) \/ Stop(p) \/ Break(p)
      PROVE  IInv'
  BY <1>4, StartHolds, LoadHolds, StopHolds, BreakHolds
<1>5. ASSUME NEW p \in Procs,
             ConnectFails(p) \/ Send(p) \/ Receive(p) \/ ConnError(p) \/ Cancel(p)
      PROVE  IInv'
  BY <1>5, ConnectFailsHolds, SendHolds, ReceiveHolds, ConnErrorHolds, CancelHolds
<1>6. ASSUME NEW p \in Procs, Stored(p) \/ StoreFails(p)
      PROVE  IInv'
  BY <1>6, StoredHolds, StoreFailsHolds
<1>7. CASE Reboot
  BY <1>7, RebootHolds
<1>. QED
  BY <1>1, <1>2, <1>3, <1>4, <1>5, <1>6, <1>7 DEF Next

LEMMA InvariantHolds == Spec => []IInv
BY InitHolds, NextHolds, PTL DEF Spec

\* A signature handed to a caller of an enclave vault is the one it asked for,
\* of its key and its message, for any number of processes, keys, messages,
\* cancelled calls, lost connections and restarts of the signer, unless a
\* cancelled call was left on the connection it was read from.
THEOREM EnclaveAnswersAreOwn == Spec => [](TypeOK /\ OwnAnswer)
<1>1. IInv => TypeOK /\ OwnAnswer
  BY DEF IInv, Local, OwnHere, OwnAnswer
<1>. QED
  BY <1>1, InvariantHolds, PTL

\* A signing operation of an enclave vault fails only when something befell it:
\* Confidential Space recovers from a lost connection and from a restart of the
\* signer, Nitro from a lost connection.
THEOREM EnclaveRecovers == Spec => []SignsUnlessHurt
<1>1. IInv => SignsUnlessHurt
  BY DEF IInv, Local, HurtHere, SignsUnlessHurt
<1>. QED
  BY <1>1, InvariantHolds, PTL

\* A key whose import or generation was acknowledged stays in the file or the
\* table, for a file as long as no two tools had it open at once.
THEOREM EnclaveKeepsKeys == Spec => []AcknowledgedKept
<1>1. IInv => AcknowledgedKept
  BY DEF IInv, Storage
<1>. QED
  BY <1>1, InvariantHolds, PTL
=============================================================================
