---------------------- MODULE FirestoreWatermarkProofs ----------------------
(***************************************************************************)
(* The Firestore backend never lets two handlers sign for one round, for   *)
(* any number of instances and handlers and any delay, loss or repetition  *)
(* of writes, although each compares against a document that may have      *)
(* changed by the time its write arrives.                                  *)
(***************************************************************************)
EXTENDS FirestoreWatermark, WatermarkLemmas

Signed == {r \in Requests : signatures[r] > 0}

\* The comparison a write of r rests on, made against update time at, still
\* holds if the document has not been written since.
Justified(d, v, r, at) ==
    /\ at <= At(v, r)
    /\ At(v, r) = at => (At(d, r) # NoMark => SupersededBy(At(d, r), r))

\* Every write that may still be executed is justified.
Decisions ==
    /\ \A w \in Workers : pc[w] = "write" => Justified(docs, version, req[w], read[w])
    /\ \A m \in late : Justified(docs, version, m.req, m.at)

\* Attempts are used up by versions: the read of attempt k is at least k
\* writes after the beginning, and a failed write means one more since.
Attempts ==
    \A w \in Workers :
        /\ pc[w] = "get" => began[w] + attempt[w] <= At(version, req[w])
        /\ pc[w] = "write" => began[w] + attempt[w] <= read[w]
        /\ reply[w] = "failed" => read[w] < At(version, req[w])

\* Only what Firestore has accepted is, or will be, signed.
OnlyGranted ==
    /\ \A w \in Workers : MaySign(w, req[w]) => req[w] \in granted
    /\ \A r \in Requests : signatures[r] > 0 => r \in granted

\* A reply is on its way only to a caller that waits for it; an idle handler
\* has used no attempt.
Quiet ==
    \A w \in Workers :
        /\ pc[w] # "write" => reply[w] = "none"
        /\ pc[w] = "idle" => attempt[w] = 0

IInv == /\ TypeOK /\ GrantsInDocs /\ Decisions /\ Attempts
        /\ OnlyGranted /\ Quiet /\ OneSigner

-----------------------------------------------------------------------------
\* The document and the update time of a request are of their types.
LEMMA DocType ==
    ASSUME TypeOK, NEW r \in Requests
    PROVE  At(docs, r) \in Mark \cup {NoMark} /\ At(version, r) \in Nat
BY SlotType DEF TypeOK, MarkMap, At

\* A write that meets its precondition: the document moves forward, and the
\* request is one that no write has succeeded for, newer than all that have
\* been in its slot.  Every other write waiting for the document is void.
LEMMA WriteGrants ==
    ASSUME IInv, NEW r \in Requests, NEW at \in Nat, Justified(docs, version, r, at), Write(r, at)
    PROVE  /\ docs' \in MarkMap
           /\ version' \in [Chains -> [Keys \X Kinds -> Nat]]
           /\ granted' = granted \cup {r}
           /\ GrantsInDocs'
           /\ r \notin granted
           /\ \A g \in granted : SameSlot(g, r) => SupersededBy(g, r)
           /\ \A q \in Requests :
                 /\ SameSlot(q, r) => At(version', q) = At(version, q) + 1
                 /\ ~SameSlot(q, r) => At(version', q) = At(version, q) /\ At(docs', q) = At(docs, q)
<1>1. /\ r.chain \in Chains /\ Slot(r) \in Keys \X Kinds
      /\ r.level \in Int /\ r.round \in Int
  BY SlotType, RequestsAssumption DEF Request, Int32
<1>2. /\ At(docs, r) \in Mark \cup {NoMark} /\ docs \in MarkMap
      /\ version \in [Chains -> [Keys \X Kinds -> Nat]]
  BY DocType DEF IInv, TypeOK
<1>3. NewWatermark(r) \in Mark /\ NewWatermark(r) # NoMark
  BY NewWatermarkType
<1>4. At(docs, r) # NoMark => SupersededBy(At(docs, r), r)
  BY DEF Justified, Write
<1>5. NotBehind(NewWatermark(r), At(docs, r))
  <2>1. ASSUME At(docs, r) # NoMark PROVE SupersededBy(At(docs, r), NewWatermark(r))
    BY <1>4, <2>1 DEF SupersededBy, NewWatermark
  <2>. QED
    BY <1>3, <2>1 DEF NotBehind
<1>6. /\ docs' \in MarkMap /\ granted' = granted \cup {r}
      /\ docs'[r.chain][Slot(r)] = NewWatermark(r)
      /\ MapNotBehind(docs', docs)
      /\ \A c \in Chains, s \in Keys \X Kinds :
            docs'[c][s] = IF c = r.chain /\ s = Slot(r) THEN NewWatermark(r) ELSE docs[c][s]
  BY <1>2, <1>5, AdvanceForward DEF Write, At
<1>7. /\ version' \in [Chains -> [Keys \X Kinds -> Nat]]
      /\ \A c \in Chains, s \in Keys \X Kinds :
            version'[c][s] = IF c = r.chain /\ s = Slot(r) THEN version[c][s] + 1
                             ELSE version[c][s]
  <2> DEFINE row == [version[r.chain] EXCEPT ![Slot(r)] = version[r.chain][Slot(r)] + 1]
  <2>1. version' = [version EXCEPT ![r.chain] = row]
    BY DEF Write
  <2>2. version[r.chain] \in [Keys \X Kinds -> Nat]
    BY <1>1, <1>2
  <2>3. /\ row \in [Keys \X Kinds -> Nat]
        /\ \A s \in Keys \X Kinds :
              row[s] = IF s = Slot(r) THEN version[r.chain][s] + 1 ELSE version[r.chain][s]
    BY <1>1, <2>2
  <2> HIDE DEF row
  <2>4. /\ version' \in [Chains -> [Keys \X Kinds -> Nat]]
        /\ \A c \in Chains : version'[c] = IF c = r.chain THEN row ELSE version[c]
    BY <1>1, <1>2, <2>1, <2>3
  <2>. QED
    BY <2>3, <2>4
<1>8. ASSUME NEW q \in Requests
      PROVE  /\ SameSlot(q, r) => At(version', q) = At(version, q) + 1
             /\ ~SameSlot(q, r) => At(version', q) = At(version, q) /\ At(docs', q) = At(docs, q)
  <2>1. q.chain \in Chains /\ Slot(q) \in Keys \X Kinds
    BY SlotType
  <2>. QED
    BY <1>6, <1>7, <2>1 DEF SameSlot, At
<1>9. ASSUME NEW g \in granted, SameSlot(g, r) PROVE SupersededBy(g, r)
  <2>1. g \in Requests /\ Covers(At(docs, r), g) /\ At(docs, r) \in Mark /\ At(docs, r) # NoMark
    BY <1>2, <1>9 DEF IInv, TypeOK, GrantsInDocs, SameSlot, Covers, At
  <2>2. /\ At(docs, r).level \in Int /\ At(docs, r).round \in Int
        /\ g.level \in Int /\ g.round \in Int
    BY <2>1, RequestsAssumption DEF Mark, Request, Int32
  <2>3. CASE At(docs, r) = NewWatermark(g)
    BY <1>4, <2>1, <2>3 DEF SupersededBy, NewWatermark
  <2>4. CASE SupersededBy(g, At(docs, r))
    BY <1>1, <1>4, <2>1, <2>2, <2>4, SupersededTransitive
  <2>. QED
    BY <2>1, <2>3, <2>4 DEF Covers
<1>10. r \notin granted
  <2>1. SameSlot(r, r) /\ ~SupersededBy(r, r)
    BY <1>1 DEF SameSlot, SupersededBy
  <2>. QED
    BY <1>9, <2>1
<1>11. GrantsInDocs'
  <2>1. \A g \in granted : Covers(docs'[g.chain][Slot(g)], g)
    BY <1>2, <1>6, StillCovered DEF IInv, TypeOK, GrantsInDocs, At
  <2>2. Covers(docs'[r.chain][Slot(r)], r)
    BY <1>3, <1>6 DEF Covers
  <2>. QED
    BY <1>6, <2>1, <2>2 DEF GrantsInDocs, At
<1>. QED
  BY <1>6, <1>7, <1>8, <1>9, <1>10, <1>11

\* A write leaves every justified write justified.
LEMMA StillJustified ==
    ASSUME IInv, NEW r \in Requests, NEW at \in Nat, Justified(docs, version, r, at), Write(r, at),
           NEW q \in Requests, NEW t \in Nat, Justified(docs, version, q, t)
    PROVE  Justified(docs', version', q, t) /\ At(version, q) <= At(version', q)
<1>1. At(version, q) \in Nat
  BY DocType DEF IInv
<1>2. /\ SameSlot(q, r) => At(version', q) = At(version, q) + 1
      /\ ~SameSlot(q, r) => At(version', q) = At(version, q) /\ At(docs', q) = At(docs, q)
  BY WriteGrants
<1>3. CASE SameSlot(q, r)
  BY <1>1, <1>2, <1>3 DEF Justified
<1>4. CASE ~SameSlot(q, r)
  BY <1>1, <1>2, <1>4 DEF Justified
<1>. QED
  BY <1>3, <1>4

\* Update times only grow.
LEMMA VersionGrows ==
    ASSUME IInv, NEW r \in Requests, NEW at \in Nat, Justified(docs, version, r, at), Write(r, at),
           NEW q \in Requests
    PROVE  At(version, q) \in Nat /\ At(version', q) \in Nat /\ At(version, q) <= At(version', q)
<1>1. At(version, q) \in Nat
  BY DocType DEF IInv
<1>. QED
  BY <1>1, WriteGrants

\* The initial states satisfy the invariant.
LEMMA InitIInv == Init => IInv
<1> SUFFICES ASSUME Init PROVE IInv
  OBVIOUS
<1>1. TypeOK
  <2>1. docs \in MarkMap
    BY DEF Init, MarkMap, NoMarks
  <2>2. 0 \in 0 .. casMaxAttempts - 1
    BY FirestoreAssumption
  <2>. QED
    BY <2>1, <2>2 DEF Init, TypeOK
<1>2. GrantsInDocs /\ Decisions /\ Attempts
  BY DEF Init, GrantsInDocs, Decisions, Attempts
<1>3. OnlyGranted /\ Quiet /\ OneSigner
  BY DEF Init, OnlyGranted, Quiet, OneSigner, MaySign
<1>. QED
  BY <1>1, <1>2, <1>3 DEF IInv
\* Firestore's executions.
LEMMA ExecuteIInv ==
    ASSUME IInv,
           (\E w \in Workers : Execute(w)) \/ (\E m \in late : ExecuteLate(m))
    PROVE  IInv'
<1>1. ASSUME NEW r \in Requests, NEW at \in Nat, Justified(docs, version, r, at), Write(r, at),
             UNCHANGED <<workerVars, late, signatures>>,
             reply' \in [Workers -> {"none", "ok", "failed"}]
      PROVE  TypeOK' /\ GrantsInDocs' /\ Decisions'
  <2>1. TypeOK'
    BY <1>1, WriteGrants DEF IInv, TypeOK, workerVars
  <2>2. Decisions'
    <3>1. ASSUME NEW w \in Workers, pc'[w] = "write" PROVE Justified(docs', version', req'[w], read'[w])
      <4>1. /\ pc[w] = "write" /\ req[w] \in Requests /\ read[w] \in Nat
            /\ req' = req /\ read' = read /\ Justified(docs, version, req[w], read[w])
        BY <1>1, <3>1 DEF workerVars, IInv, TypeOK, Decisions
      <4>2. Justified(docs', version', req[w], read[w])
        BY <1>1, <4>1, StillJustified
      <4>. QED
        BY <4>1, <4>2
    <3>2. ASSUME NEW m \in late PROVE Justified(docs', version', m.req, m.at)
      <4>1. m.req \in Requests /\ m.at \in Nat /\ Justified(docs, version, m.req, m.at)
        BY DEF IInv, TypeOK, Decisions
      <4>. QED
        BY <1>1, <4>1, StillJustified
    <3>. QED
      BY <1>1, <3>1, <3>2 DEF Decisions
  <2>. QED
    BY <1>1, <2>1, <2>2, WriteGrants
<1>2. ASSUME NEW w \in Workers, Execute(w) PROVE IInv'
  <2>1. /\ pc[w] = "write" /\ reply[w] = "none" /\ req[w] \in Requests
        /\ read[w] \in Nat /\ Justified(docs, version, req[w], read[w])
        /\ UNCHANGED <<workerVars, late, signatures>>
        /\ UNCHANGED <<pc, req, read, attempt, began>>
    BY <1>2 DEF Execute, IInv, TypeOK, Decisions, workerVars
  <2>2. CASE Write(req[w], read[w]) /\ reply' = [reply EXCEPT ![w] = "ok"]
    <3>1. reply' \in [Workers -> {"none", "ok", "failed"}]
      BY <2>2 DEF IInv, TypeOK
    <3>2. TypeOK' /\ GrantsInDocs' /\ Decisions'
      BY <1>1, <2>1, <2>2, <3>1
    <3>3. granted' = granted \cup {req[w]} /\ req[w] \notin granted
      BY <2>1, <2>2, WriteGrants
    <3>4. Attempts'
      <4>1. ASSUME NEW v \in Workers, pc[v] # "idle"
            PROVE  /\ At(version, req[v]) \in Nat /\ At(version', req[v]) \in Nat
                   /\ At(version, req[v]) <= At(version', req[v])
        <5>1. req[v] \in Requests
          BY <4>1 DEF IInv, TypeOK
        <5>. QED
          BY <2>1, <2>2, <5>1, VersionGrows
      <4>2. ASSUME NEW v \in Workers
            PROVE  /\ pc[v] = "get" => began[v] + attempt[v] <= At(version', req[v])
                   /\ pc[v] = "write" => began[v] + attempt[v] <= read[v]
                   /\ reply'[v] = "failed" => read[v] < At(version', req[v])
        <5>1. began[v] + attempt[v] \in Nat /\ read[v] \in Nat
          BY FirestoreAssumption DEF IInv, TypeOK
        <5>2. reply'[v] = "failed" => reply[v] = "failed" /\ pc[v] = "write"
          BY <2>2 DEF IInv, TypeOK, Quiet
        <5>. QED
          BY <4>1, <5>1, <5>2 DEF IInv, Attempts
      <4>. QED
        BY <2>1, <4>2 DEF Attempts
    <3>5. \A v \in Workers, r \in Requests :
            MaySign(v, r)' => MaySign(v, r) \/ (v = w /\ r = req[w])
      BY <2>1, <2>2 DEF MaySign, IInv, TypeOK
    <3>6. \A v \in Workers : ~MaySign(v, req[w])
      BY <3>3 DEF IInv, OnlyGranted, MaySign
    <3>7. signatures[req[w]] = 0
      BY <2>1, <3>3 DEF IInv, OnlyGranted, TypeOK
    <3>8. OneSigner'
      BY <2>1, <3>5, <3>6, <3>7 DEF IInv, OneSigner
    <3>9. OnlyGranted' /\ Quiet'
      BY <2>1, <2>2, <3>3 DEF IInv, OnlyGranted, Quiet, MaySign, TypeOK
    <3>. QED
      BY <3>2, <3>4, <3>8, <3>9 DEF IInv
  <2>3. CASE /\ At(version, req[w]) # read[w]
             /\ reply' = [reply EXCEPT ![w] = "failed"]
             /\ UNCHANGED <<docs, version, granted>>
    <3>1. \A r : At(docs', r) = At(docs, r) /\ At(version', r) = At(version, r)
      BY <2>3 DEF At
    <3>2. TypeOK' /\ GrantsInDocs' /\ Decisions'
      BY <2>1, <2>3 DEF IInv, TypeOK, GrantsInDocs, Decisions, Justified, At
    <3>3. read[w] < At(version, req[w])
      BY <2>1, <2>3, DocType DEF Justified, IInv
    <3>4. Attempts'
      BY <2>1, <2>3, <3>1, <3>3 DEF IInv, TypeOK, Attempts, At
    <3>5. OnlyGranted' /\ Quiet' /\ OneSigner'
      BY <2>1, <2>3 DEF IInv, TypeOK, OnlyGranted, Quiet, OneSigner, MaySign
    <3>. QED
      BY <3>2, <3>4, <3>5 DEF IInv
  <2>. QED
    BY <1>2, <2>2, <2>3 DEF Execute
<1>3. ASSUME NEW m \in late, ExecuteLate(m) PROVE IInv'
  <2>1. /\ m.req \in Requests /\ m.at \in Nat /\ Justified(docs, version, m.req, m.at)
        /\ Write(m.req, m.at) /\ UNCHANGED <<workerVars, late, signatures>>
        /\ UNCHANGED <<pc, req, read, attempt, began, reply>>
    BY <1>3 DEF ExecuteLate, IInv, TypeOK, Decisions, workerVars
  <2>2. TypeOK' /\ GrantsInDocs' /\ Decisions'
    BY <1>1, <2>1 DEF IInv, TypeOK
  <2>3. granted' = granted \cup {m.req}
    BY <2>1, WriteGrants
  <2>4. Attempts'
    <3>1. ASSUME NEW v \in Workers, pc[v] # "idle"
          PROVE  /\ At(version, req[v]) \in Nat /\ At(version', req[v]) \in Nat
                 /\ At(version, req[v]) <= At(version', req[v])
      <4>1. req[v] \in Requests
        BY <3>1 DEF IInv, TypeOK
      <4>. QED
        BY <2>1, <4>1, VersionGrows
    <3>2. ASSUME NEW v \in Workers
          PROVE  /\ pc[v] = "get" => began[v] + attempt[v] <= At(version', req[v])
                 /\ pc[v] = "write" => began[v] + attempt[v] <= read[v]
                 /\ reply[v] = "failed" => read[v] < At(version', req[v])
      <4>1. began[v] + attempt[v] \in Nat /\ read[v] \in Nat
        BY FirestoreAssumption DEF IInv, TypeOK
      <4>2. reply[v] = "failed" => pc[v] = "write"
        BY DEF IInv, Quiet
      <4>. QED
        BY <3>1, <4>1, <4>2 DEF IInv, Attempts
    <3>. QED
      BY <2>1, <3>2 DEF Attempts
  <2>5. OnlyGranted' /\ Quiet' /\ OneSigner'
    BY <2>1, <2>3 DEF IInv, OnlyGranted, Quiet, OneSigner, MaySign
  <2>. QED
    BY <2>2, <2>4, <2>5 DEF IInv
<1>. QED
  BY <1>2, <1>3

\* A handler that returns is idle, with nothing of the call left.
LEMMA ReturnType ==
    ASSUME TypeOK, NEW w \in Workers, Return(w)
    PROVE  /\ pc' \in [Workers -> {"idle", "get", "write", "safe"}]
           /\ req' \in [Workers -> Requests \cup {NoRequest}]
           /\ \A v \in Workers : pc'[v] # "idle" => req'[v] \in Requests
           /\ read' \in [Workers -> Nat]
           /\ attempt' \in [Workers -> 0 .. casMaxAttempts - 1]
           /\ began' \in [Workers -> Nat]
           /\ pc'[w] = "idle"
           /\ \A v \in Workers \ {w} :
                 pc'[v] = pc[v] /\ req'[v] = req[v] /\ read'[v] = read[v]
<1>1. 0 \in 0 .. casMaxAttempts - 1
  BY FirestoreAssumption
<1>. QED
  BY <1>1 DEF Return, TypeOK

\* The steps of checkAndSet and of its caller.
LEMMA CallerIInv ==
    ASSUME IInv, NEW w \in Workers,
           \/ \E r \in Requests : IsSafeToSign(w, r)
           \/ Get(w) \/ Resend(w) \/ Receive(w) \/ GiveUp(w) \/ VaultSign(w)
    PROVE  IInv'
<1> USE DEF IInv
<1>0. \A r \in Requests : At(version, r) \in Nat
  BY DocType
<1>1. ASSUME NEW r \in Requests, IsSafeToSign(w, r) PROVE IInv'
  <2>1. /\ pc[w] = "idle" /\ reply[w] = "none" /\ attempt[w] = 0
        /\ pc' = [pc EXCEPT ![w] = "get"] /\ req' = [req EXCEPT ![w] = r]
        /\ began' = [began EXCEPT ![w] = At(version, r)]
        /\ UNCHANGED <<docs, version, read, attempt, reply, late, granted, signatures>>
    BY <1>1 DEF IsSafeToSign, Quiet
  <2>2. TypeOK' /\ GrantsInDocs' /\ Decisions'
    BY <1>0, <2>1 DEF TypeOK, GrantsInDocs, Decisions
  <2>3. Attempts'
    BY <1>0, <2>1 DEF TypeOK, Attempts, Quiet
  <2>4. \A v \in Workers, q \in Requests : MaySign(v, q)' => MaySign(v, q)
    BY <2>1 DEF TypeOK, MaySign
  <2>5. OnlyGranted' /\ Quiet' /\ OneSigner'
    BY <2>1, <2>4 DEF TypeOK, OnlyGranted, Quiet, OneSigner, MaySign
  <2>. QED
    BY <2>2, <2>3, <2>5
<1>2. CASE Get(w)
  <2>1. /\ pc[w] = "get" /\ req[w] \in Requests /\ reply[w] = "none"
        /\ UNCHANGED <<docs, version, reply, late, granted, signatures>>
    BY <1>2 DEF Get, TypeOK, Quiet
  <2>2. CASE /\ At(docs, req[w]) # NoMark => SupersededBy(At(docs, req[w]), req[w])
             /\ pc' = [pc EXCEPT ![w] = "write"]
             /\ read' = [read EXCEPT ![w] = At(version, req[w])]
             /\ UNCHANGED <<req, attempt, began>>
    <3>1. Justified(docs, version, req[w], At(version, req[w]))
      BY <1>0, <2>1, <2>2 DEF Justified
    <3>2. TypeOK' /\ GrantsInDocs'
      BY <1>0, <2>1, <2>2 DEF TypeOK, GrantsInDocs
    <3>3. Decisions'
      BY <2>1, <2>2, <3>1 DEF TypeOK, Decisions
    <3>4. Attempts'
      BY <2>1, <2>2 DEF TypeOK, Attempts, Quiet
    <3>5. OnlyGranted' /\ Quiet' /\ OneSigner'
      BY <2>1, <2>2 DEF TypeOK, OnlyGranted, Quiet, OneSigner, MaySign
    <3>. QED
      BY <3>2, <3>3, <3>4, <3>5
  <2>3. CASE Return(w)
    <3>0. TypeOK'
      BY <2>1, <2>3, ReturnType DEF TypeOK
    <3>1. GrantsInDocs' /\ Decisions'
      BY <2>1, <2>3, ReturnType DEF GrantsInDocs, Decisions
    <3>2. Attempts' /\ OnlyGranted' /\ Quiet' /\ OneSigner'
      BY <2>1, <2>3 DEF Return, TypeOK, Attempts, OnlyGranted, Quiet, OneSigner, MaySign
    <3>. QED
      BY <3>0, <3>1, <3>2
  <2>. QED
    BY <1>2, <2>2, <2>3 DEF Get, Passes
<1>3. CASE Resend(w)
  <2>1. /\ pc[w] = "write" /\ req[w] \in Requests /\ read[w] \in Nat
        /\ late' = late \cup {Sent(w)} /\ reply' = [reply EXCEPT ![w] = "none"]
        /\ UNCHANGED <<docs, version, pc, req, read, attempt, began, granted, signatures>>
    BY <1>3 DEF Resend, TypeOK, workerVars
  <2>2. Sent(w) \in [req : Requests, at : Nat] /\ Sent(w).req = req[w] /\ Sent(w).at = read[w]
    BY <2>1 DEF Sent
  <2>3. TypeOK' /\ GrantsInDocs' /\ Decisions'
    BY <2>1, <2>2 DEF TypeOK, GrantsInDocs, Decisions
  <2>4. Attempts' /\ OnlyGranted' /\ Quiet' /\ OneSigner'
    BY <2>1 DEF TypeOK, Attempts, OnlyGranted, Quiet, OneSigner, MaySign
  <2>. QED
    BY <2>3, <2>4
<1>4. CASE Receive(w)
  <2>1. /\ pc[w] = "write" /\ req[w] \in Requests /\ reply' = [reply EXCEPT ![w] = "none"]
        /\ UNCHANGED <<docs, version, late, granted, signatures>>
    BY <1>4 DEF Receive, TypeOK
  <2>2. CASE reply[w] = "ok" /\ pc' = [pc EXCEPT ![w] = "safe"]
             /\ UNCHANGED <<req, read, attempt, began>>
    <3>1. TypeOK' /\ GrantsInDocs' /\ Decisions' /\ Attempts'
      BY <2>1, <2>2 DEF TypeOK, GrantsInDocs, Decisions, Attempts
    <3>2. OnlyGranted' /\ Quiet' /\ OneSigner'
      BY <2>1, <2>2 DEF TypeOK, OnlyGranted, Quiet, OneSigner, MaySign
    <3>. QED
      BY <3>1, <3>2
  <2>3. CASE /\ reply[w] = "failed" /\ attempt[w] + 1 < casMaxAttempts
             /\ attempt' = [attempt EXCEPT ![w] = @ + 1]
             /\ pc' = [pc EXCEPT ![w] = "get"]
             /\ UNCHANGED <<req, read, began>>
    <3>1. /\ began[w] + attempt[w] <= read[w] /\ read[w] < At(version, req[w])
          /\ began[w] \in Nat /\ attempt[w] \in Nat /\ read[w] \in Nat
          /\ At(version, req[w]) \in Nat
      BY <1>0, <2>1, <2>3 DEF TypeOK, Attempts
    <3>0. attempt[w] + 1 \in 0 .. casMaxAttempts - 1
      BY <2>3, <3>1, FirestoreAssumption
    <3>2. TypeOK' /\ GrantsInDocs' /\ Decisions'
      BY <2>1, <2>3, <3>0 DEF TypeOK, GrantsInDocs, Decisions
    <3>3. Attempts'
      BY <2>1, <2>3, <3>1 DEF TypeOK, Attempts
    <3>4. OnlyGranted' /\ Quiet' /\ OneSigner'
      BY <2>1, <2>3 DEF TypeOK, OnlyGranted, Quiet, OneSigner, MaySign
    <3>. QED
      BY <3>2, <3>3, <3>4
  <2>4. CASE Return(w) /\ reply[w] = "failed"
    <3>0. TypeOK'
      BY <2>1, <2>4, ReturnType DEF TypeOK
    <3>1. GrantsInDocs' /\ Decisions'
      BY <2>1, <2>4, ReturnType DEF GrantsInDocs, Decisions
    <3>2. Attempts' /\ OnlyGranted' /\ Quiet' /\ OneSigner'
      BY <2>1, <2>4 DEF Return, TypeOK, Attempts, OnlyGranted, Quiet, OneSigner, MaySign
    <3>. QED
      BY <3>0, <3>1, <3>2
  <2>. QED
    BY <1>4, <2>2, <2>3, <2>4 DEF Receive, LostRace, MayRetry
<1>5. CASE GiveUp(w)
  <2>1. /\ pc[w] \in {"get", "write"} /\ req[w] \in Requests /\ read[w] \in Nat
        /\ late' = IF pc[w] = "write" THEN late \cup {Sent(w)} ELSE late
        /\ reply' = [reply EXCEPT ![w] = "none"] /\ Return(w)
        /\ UNCHANGED <<docs, version, granted, signatures>>
    BY <1>5 DEF GiveUp, TypeOK
  <2>2. Sent(w) \in [req : Requests, at : Nat] /\ Sent(w).req = req[w] /\ Sent(w).at = read[w]
    BY <2>1 DEF Sent
  <2>3. TypeOK' /\ GrantsInDocs'
    BY <2>1, <2>2, ReturnType DEF TypeOK, GrantsInDocs
  <2>4. Decisions'
    BY <2>1, <2>2, ReturnType DEF TypeOK, Decisions
  <2>5. Attempts' /\ OnlyGranted' /\ Quiet' /\ OneSigner'
    BY <2>1 DEF Return, TypeOK, Attempts, OnlyGranted, Quiet, OneSigner, MaySign
  <2>. QED
    BY <2>3, <2>4, <2>5
<1>6. CASE VaultSign(w)
  <2>1. /\ pc[w] = "safe" /\ req[w] \in Requests /\ Return(w)
        /\ UNCHANGED <<docs, version, reply, late, granted>>
        /\ \/ signatures' = [signatures EXCEPT ![req[w]] = @ + 1]
           \/ signatures' = signatures
    BY <1>6 DEF VaultSign, TypeOK
  <2>2. TypeOK' /\ GrantsInDocs' /\ Decisions'
    <3>1. signatures' \in [Requests -> Nat]
      BY <2>1 DEF TypeOK
    <3>2. TypeOK'
      BY <2>1, <3>1, ReturnType DEF TypeOK
    <3>3. GrantsInDocs' /\ Decisions'
      BY <2>1, ReturnType DEF GrantsInDocs, Decisions
    <3>. QED
      BY <3>2, <3>3
  <2>3. Attempts' /\ Quiet'
    BY <2>1 DEF Return, TypeOK, Attempts, Quiet
  <2>4. /\ MaySign(w, req[w]) /\ req[w] \in granted /\ signatures[req[w]] = 0
        /\ signatures \in [Requests -> Nat]
    <3>1. MaySign(w, req[w])
      BY <2>1 DEF MaySign
    <3>2. signatures \in [Requests -> Nat] /\ signatures[req[w]] \in Nat
      BY <2>1 DEF TypeOK
    <3>3. signatures[req[w]] <= 1 /\ signatures[req[w]] # 1
      BY <2>1, <3>1 DEF OneSigner
    <3>. QED
      BY <3>1, <3>2, <3>3 DEF OnlyGranted
  <2>5. \A v \in Workers, q \in Requests : MaySign(v, q)' => v # w /\ MaySign(v, q)
    BY <2>1, ReturnType DEF TypeOK, MaySign
  <2>6. \A q \in Requests : \/ signatures'[q] = signatures[q]
                            \/ q = req[w] /\ signatures'[q] = 1
    BY <2>1, <2>4
  <2>7. OnlyGranted'
    <3>1. \A v \in Workers : MaySign(v, req[v])' => req'[v] \in granted
      BY <2>1, <2>5, ReturnType DEF OnlyGranted, MaySign, TypeOK
    <3>. QED
      BY <2>1, <2>4, <2>6, <3>1 DEF OnlyGranted
  <2>8. OneSigner'
    BY <2>4, <2>5, <2>6 DEF OneSigner
  <2>. QED
    BY <2>2, <2>3, <2>7, <2>8
<1>. QED
  BY <1>1, <1>2, <1>3, <1>4, <1>5, <1>6

\* Every step preserves the invariant.
LEMMA NextIInv == IInv /\ [Next]_vars => IInv'
<1> SUFFICES ASSUME IInv, [Next]_vars PROVE IInv'
  OBVIOUS
<1>1. CASE UNCHANGED vars
  <2>1. TypeOK' /\ GrantsInDocs' /\ Quiet'
    BY <1>1 DEF vars, IInv, TypeOK, GrantsInDocs, Quiet
  <2>2. Decisions' /\ Attempts'
    BY <1>1 DEF vars, IInv, Decisions, Attempts
  <2>3. OnlyGranted' /\ OneSigner'
    BY <1>1 DEF vars, IInv, OnlyGranted, OneSigner, MaySign
  <2>. QED
    BY <2>1, <2>2, <2>3 DEF IInv
<1>. QED
  BY <1>1, ExecuteIInv, CallerIInv DEF Next

-----------------------------------------------------------------------------
\* The inductive invariant holds in every instance of the Firestore backend.
LEMMA InvariantHolds == Spec => []IInv
BY InitIInv, NextIInv, PTL DEF Spec

\* Type correctness and GrantsInDocs: what checkAndSet has let through stays
\* covered by its document, though decisions are made on reads that may be stale.
THEOREM FirestoreKeepsGrants == Spec => [](TypeOK /\ GrantsInDocs)
<1>1. IInv => TypeOK /\ GrantsInDocs
  BY DEF IInv
<1>. QED
  BY InvariantHolds, <1>1, PTL

\* Of all handlers of all instances at most one is let through by checkAndSet
\* for any request, and it signs at most once.
THEOREM FirestoreOneSigner == Spec => []OneSigner
<1>1. IInv => OneSigner
  BY DEF IInv
<1>. QED
  BY InvariantHolds, <1>1, PTL

\* Every attempt checkAndSet has used up answers to a write of the document by
\* someone else, or by an own call executed late, since the request came in.
THEOREM FirestoreRetriesAreLostRaces == Spec => []RetriesAreLostRaces
<1>1. IInv => RetriesAreLostRaces
  <2> SUFFICES ASSUME IInv, NEW w \in Workers, pc[w] \in {"get", "write"}
               PROVE  attempt[w] <= At(version, req[w]) - began[w]
    BY DEF RetriesAreLostRaces
  <2>1. /\ At(version, req[w]) \in Nat /\ began[w] \in Nat /\ read[w] \in Nat
        /\ attempt[w] \in Nat
    <3>1. req[w] \in Requests /\ TypeOK
      BY DEF IInv, TypeOK
    <3>2. 0 .. casMaxAttempts - 1 \subseteq Nat
      OBVIOUS
    <3>. QED
      BY <3>1, <3>2, DocType DEF TypeOK
  <2>2. began[w] + attempt[w] <= At(version, req[w])
    BY <2>1 DEF IInv, Attempts, Decisions, Justified
  <2>. QED
    BY <2>1, <2>2
<1>. QED
  BY InvariantHolds, <1>1, PTL

\* The Firestore backend implements SignOnce: a write that meets its
\* precondition is a grant newer than all before it, and only granted
\* requests are signed.
THEOREM FirestoreRefinesSignOnce == Spec => RefinesSignOnce
<1>1. Init => Guard!Init
  BY DEF Init, Guard!Init
<1>2. IInv /\ [Next]_vars => [Guard!Next]_(Guard!vars)
  <2> SUFFICES ASSUME IInv, [Next]_vars PROVE [Guard!Next]_(Guard!vars)
    OBVIOUS
  <2>1. ASSUME NEW r \in Requests, NEW at \in Nat, Justified(docs, version, r, at),
               Write(r, at), signatures' = signatures
        PROVE  [Guard!Next]_(Guard!vars)
    <3>1. /\ granted' = granted \cup {r}
          /\ \A g \in granted : SameSlot(g, r) => SupersededBy(g, r)
      BY <2>1, WriteGrants
    <3>2. Guard!Grant(r)
      BY <2>1, <3>1 DEF Guard!Grant, Guard!SameSlot, Guard!Slot, Guard!SupersededBy,
                        SameSlot, Slot, SupersededBy
    <3>. QED
      BY <3>2 DEF Guard!Next
  <2>2. ASSUME NEW w \in Workers, VaultSign(w) PROVE [Guard!Next]_(Guard!vars)
    <3>1. req[w] \in Requests /\ req[w] \in granted /\ granted' = granted
      BY <2>2 DEF VaultSign, IInv, TypeOK, OnlyGranted, MaySign
    <3>2. \/ signatures' = signatures
          \/ signatures' = [signatures EXCEPT ![req[w]] = @ + 1]
      BY <2>2 DEF VaultSign
    <3>3. signatures \in [Requests -> Nat]
      BY DEF IInv, TypeOK
    <3>4. \/ Signed' = Signed
          \/ Signed' = Signed \cup {req[w]}
      BY <3>1, <3>2, <3>3 DEF Signed
    <3>. QED
      BY <3>1, <3>4 DEF Guard!Next, Guard!Sign, Guard!vars, Signed
  <2>3. CASE UNCHANGED <<granted, signatures>>
    BY <2>3 DEF Guard!vars
  <2>4. \/ \E r \in Requests, at \in Nat :
              /\ Justified(docs, version, r, at) /\ Write(r, at)
              /\ signatures' = signatures
        \/ \E w \in Workers : VaultSign(w)
        \/ UNCHANGED <<granted, signatures>>
    <3>1. ASSUME NEW w \in Workers, Execute(w)
          PROVE  \/ /\ req[w] \in Requests /\ read[w] \in Nat
                    /\ Justified(docs, version, req[w], read[w])
                    /\ Write(req[w], read[w]) /\ signatures' = signatures
                 \/ UNCHANGED <<granted, signatures>>
      BY <3>1 DEF Execute, IInv, TypeOK, Decisions
    <3>2. ASSUME NEW m \in late, ExecuteLate(m)
          PROVE  /\ m.req \in Requests /\ m.at \in Nat
                 /\ Justified(docs, version, m.req, m.at)
                 /\ Write(m.req, m.at) /\ signatures' = signatures
      BY <3>2 DEF ExecuteLate, IInv, TypeOK, Decisions
    <3>3. ASSUME NEW w \in Workers,
                 \/ \E r \in Requests : IsSafeToSign(w, r)
                 \/ Get(w) \/ Resend(w) \/ Receive(w) \/ GiveUp(w)
          PROVE  UNCHANGED <<granted, signatures>>
      BY <3>3 DEF IsSafeToSign, Get, Resend, Receive, GiveUp
    <3>. QED
      BY <3>1, <3>2, <3>3 DEF Next, vars
  <2>. QED
    BY <2>1, <2>2, <2>3, <2>4
<1>. QED
  BY InvariantHolds, <1>1, <1>2, PTL DEF Spec, RefinesSignOnce, Guard!Spec

\* No two instances, and no instance twice, sign different messages for one
\* chain, key, kind, level and round: watermark/gcp.go on its own keeps bakers of
\* one key apart.
THEOREM FirestoreNeverDoubleSigns == Spec => []Guard!NoDoubleSign
<1> DEFINE J == Promised(granted, Signed)
<1>1. Guard!Init => J
  BY DEF Guard!Init, Promised, Ordered, Signed
<1>2. J /\ [Guard!Next]_(Guard!vars) => J'
  <2> SUFFICES ASSUME J, [Guard!Next]_(Guard!vars) PROVE J'
    OBVIOUS
  <2>1. \/ \E r \in Requests :
              /\ \A g \in granted : SameSlot(g, r) => g = r \/ SupersededBy(g, r)
              /\ granted' = granted \cup {r} /\ Signed' = Signed
        \/ \E r \in granted : granted' = granted /\ Signed' = Signed \cup {r}
        \/ granted' = granted /\ Signed' = Signed
    BY DEF Guard!Next, Guard!vars, Guard!Grant, Guard!Sign, Guard!SameSlot, Guard!Slot,
       Guard!SupersededBy, SameSlot, Slot, SupersededBy, Signed
  <2>. QED
    BY <2>1, PromiseKept
<1>3. J => Guard!NoDoubleSign
  <2>1. ASSUME J, NEW r \in Signed, NEW s \in Signed
        PROVE  ~Guard!Conflict(r, s)
    BY <2>1, OrderedIsNoConflict DEF Promised, Guard!Conflict, Guard!SameSlot, Guard!Slot,
       Conflict, SameSlot, Slot
  <2>. QED
    BY <2>1 DEF Guard!NoDoubleSign, Signed
<1>. QED
  BY FirestoreRefinesSignOnce, <1>1, <1>2, <1>3, PTL DEF RefinesSignOnce, Guard!Spec
=============================================================================
