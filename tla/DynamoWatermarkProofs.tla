----------------------- MODULE DynamoWatermarkProofs ------------------------
(***************************************************************************)
(* The DynamoDB backend never lets two handlers sign for one round, for    *)
(* any number of instances and handlers and any delay, loss or repetition  *)
(* of calls.  DynamoDB compares unbounded numbers: nothing is assumed      *)
(* about the sign of levels.                                               *)
(***************************************************************************)
EXTENDS DynamoWatermark, WatermarkLemmas

Signed == {r \in Requests : signatures[r] > 0}

\* Only what the table has accepted is, or will be, signed.
OnlyGranted ==
    /\ \A w \in Workers : MaySign(w, req[w]) => req[w] \in granted
    /\ \A r \in Requests : signatures[r] > 0 => r \in granted

\* A reply is on its way only to a caller that waits for it.
Quiet == \A w \in Workers : pc[w] # "put" => reply[w] = "none"

IInv == TypeOK /\ GrantsInTable /\ OnlyGranted /\ Quiet /\ OneSigner

\* A successful PutItem: the table moves forward, and the request is one that
\* no PutItem has succeeded for, newer than all that have been in its slot.
LEMMA PutItemGrants ==
    ASSUME IInv, NEW r \in Requests, Condition(r), PutItem(r)
    PROVE  /\ table' \in MarkMap
           /\ granted' = granted \cup {r}
           /\ GrantsInTable'
           /\ r \notin granted
           /\ \A g \in granted : SameSlot(g, r) => SupersededBy(g, r)
<1> DEFINE item == table[r.chain][Slot(r)]
<1>1. /\ r.chain \in Chains /\ Slot(r) \in Keys \X Kinds
      /\ r.level \in Int /\ r.round \in Int
  BY SlotType, RequestsAssumption DEF Request, Int32
<1>2. item \in Mark \cup {NoMark} /\ table \in MarkMap
  BY <1>1 DEF IInv, TypeOK, MarkMap
<1>3. NewWatermark(r) \in Mark /\ NewWatermark(r) # NoMark
  BY NewWatermarkType
<1>4. NotBehind(NewWatermark(r), item)
  <2>1. ASSUME item # NoMark PROVE SupersededBy(item, NewWatermark(r))
    BY <2>1 DEF Condition, SupersededBy, NewWatermark
  <2>. QED
    BY <1>3, <2>1 DEF NotBehind
<1>5. /\ table' \in MarkMap /\ granted' = granted \cup {r}
      /\ table'[r.chain][Slot(r)] = NewWatermark(r)
      /\ MapNotBehind(table', table)
  BY <1>2, <1>4, AdvanceForward DEF PutItem
<1>6. ASSUME NEW g \in granted, SameSlot(g, r) PROVE SupersededBy(g, r)
  <2>1. g \in Requests /\ Covers(item, g) /\ item \in Mark /\ item # NoMark
    BY <1>2, <1>6 DEF IInv, TypeOK, GrantsInTable, SameSlot, Covers
  <2>2. SupersededBy(item, r)
    BY <2>1 DEF Condition
  <2>3. /\ item.level \in Int /\ item.round \in Int
        /\ g.level \in Int /\ g.round \in Int
    BY <2>1, RequestsAssumption DEF Mark, Request, Int32
  <2> HIDE DEF item
  <2>4. CASE item = NewWatermark(g)
    BY <2>2, <2>4 DEF SupersededBy, NewWatermark
  <2>5. CASE SupersededBy(g, item)
    BY <1>1, <2>2, <2>3, <2>5, SupersededTransitive
  <2>. QED
    BY <2>1, <2>4, <2>5 DEF Covers
<1>7. r \notin granted
  <2>1. SameSlot(r, r) /\ ~SupersededBy(r, r)
    BY <1>1 DEF SameSlot, SupersededBy
  <2>. QED
    BY <1>6, <2>1
<1>8. GrantsInTable'
  <2>1. \A g \in granted : Covers(table'[g.chain][Slot(g)], g)
    BY <1>2, <1>5, StillCovered DEF IInv, TypeOK, GrantsInTable
  <2>2. Covers(table'[r.chain][Slot(r)], r)
    BY <1>3, <1>5 DEF Covers
  <2>. QED
    BY <1>5, <2>1, <2>2 DEF GrantsInTable
<1>. QED
  BY <1>5, <1>6, <1>7, <1>8

\* The initial states satisfy the invariant.
LEMMA InitIInv == Init => IInv
<1> SUFFICES ASSUME Init PROVE IInv
  OBVIOUS
<1>1. TypeOK
  BY DEF Init, TypeOK, MarkMap, NoMarks
<1>2. GrantsInTable /\ OnlyGranted /\ Quiet /\ OneSigner
  BY DEF Init, GrantsInTable, OnlyGranted, Quiet, OneSigner, MaySign
<1>. QED
  BY <1>1, <1>2 DEF IInv

\* The table's executions.
LEMMA ExecuteIInv ==
    ASSUME IInv,
           (\E w \in Workers : Execute(w)) \/ (\E r \in Requests : ExecuteLate(r))
    PROVE  IInv'
<1>1. ASSUME NEW w \in Workers, Execute(w) PROVE IInv'
  <2>1. /\ pc[w] = "put" /\ reply[w] = "none" /\ req[w] \in Requests
        /\ UNCHANGED <<pc, req, late, signatures>>
    BY <1>1 DEF Execute, IInv, TypeOK
  <2>2. CASE /\ Condition(req[w]) /\ PutItem(req[w])
             /\ reply' = [reply EXCEPT ![w] = "ok"]
    <3>1. /\ table' \in MarkMap /\ granted' = granted \cup {req[w]}
          /\ GrantsInTable' /\ req[w] \notin granted
      BY <2>1, <2>2, PutItemGrants
    <3>2. TypeOK'
      BY <2>1, <2>2, <3>1 DEF IInv, TypeOK
    <3>3. \A v \in Workers, r \in Requests :
            MaySign(v, r)' => MaySign(v, r) \/ (v = w /\ r = req[w])
      BY <2>1, <2>2 DEF MaySign, IInv, TypeOK
    <3>4. \A v \in Workers : ~MaySign(v, req[w])
      BY <3>1 DEF IInv, OnlyGranted, MaySign
    <3>5. signatures[req[w]] = 0
      BY <2>1, <3>1 DEF IInv, OnlyGranted, TypeOK
    <3>6. OneSigner'
      BY <2>1, <3>3, <3>4, <3>5 DEF IInv, OneSigner
    <3>7. OnlyGranted' /\ Quiet'
      BY <2>1, <2>2, <3>1 DEF IInv, OnlyGranted, Quiet, MaySign, TypeOK
    <3>. QED
      BY <3>1, <3>2, <3>6, <3>7 DEF IInv
  <2>3. CASE /\ reply' = [reply EXCEPT ![w] = "failed"] /\ UNCHANGED <<table, granted>>
    BY <2>1, <2>3 DEF IInv, TypeOK, GrantsInTable, OnlyGranted, Quiet, OneSigner, MaySign
  <2>. QED
    BY <1>1, <2>2, <2>3 DEF Execute
<1>2. ASSUME NEW r \in Requests, ExecuteLate(r) PROVE IInv'
  <2>1. /\ Condition(r) /\ PutItem(r)
        /\ UNCHANGED <<pc, req, reply, late, signatures>>
    BY <1>2 DEF ExecuteLate
  <2>2. table' \in MarkMap /\ granted' = granted \cup {r} /\ GrantsInTable'
    BY <2>1, PutItemGrants
  <2>. QED
    BY <2>1, <2>2 DEF IInv, TypeOK, OnlyGranted, Quiet, OneSigner, MaySign
<1>. QED
  BY <1>1, <1>2

\* The steps of a caller.
LEMMA CallerIInv ==
    ASSUME IInv, NEW w \in Workers,
           \/ \E r \in Requests : IsSafeToSign(w, r)
           \/ Resend(w) \/ Receive(w) \/ GiveUp(w) \/ VaultSign(w)
    PROVE  IInv'
<1> USE DEF IInv
<1>1. ASSUME NEW r \in Requests, IsSafeToSign(w, r) PROVE IInv'
  <2>1. TypeOK' /\ GrantsInTable'
    BY <1>1 DEF IsSafeToSign, TypeOK, GrantsInTable
  <2>2. reply[w] = "none"
    BY <1>1 DEF IsSafeToSign, Quiet
  <2>3. \A v \in Workers, q \in Requests : MaySign(v, q)' => MaySign(v, q)
    BY <1>1, <2>2 DEF IsSafeToSign, TypeOK, MaySign
  <2>. QED
    BY <1>1, <2>1, <2>2, <2>3 DEF IsSafeToSign, OnlyGranted, Quiet, OneSigner, MaySign, TypeOK
<1>2. CASE Resend(w)
  BY <1>2 DEF Resend, TypeOK, GrantsInTable, OnlyGranted, Quiet, OneSigner, MaySign
<1>3. CASE Receive(w)
  BY <1>3 DEF Receive, Return, TypeOK, GrantsInTable, OnlyGranted, Quiet, OneSigner, MaySign
<1>4. CASE GiveUp(w)
  BY <1>4 DEF GiveUp, Return, TypeOK, GrantsInTable, OnlyGranted, Quiet, OneSigner, MaySign
<1>5. CASE VaultSign(w)
  BY <1>5 DEF VaultSign, Return, TypeOK, GrantsInTable, OnlyGranted, Quiet, OneSigner, MaySign
<1>. QED
  BY <1>1, <1>2, <1>3, <1>4, <1>5
\* Every step preserves the invariant.
LEMMA NextIInv == IInv /\ [Next]_vars => IInv'
<1> SUFFICES ASSUME IInv, [Next]_vars PROVE IInv'
  OBVIOUS
<1>1. CASE UNCHANGED vars
  BY <1>1 DEF vars, IInv, TypeOK, GrantsInTable, OnlyGranted, Quiet, OneSigner, MaySign
<1>. QED
  BY <1>1, ExecuteIInv, CallerIInv DEF Next

-----------------------------------------------------------------------------
\* The inductive invariant holds in every instance of the DynamoDB backend.
LEMMA InvariantHolds == Spec => []IInv
BY InitIInv, NextIInv, PTL DEF Spec

\* Type correctness and OneSigner: of all handlers of all instances at most one
\* is let through by PutItem for any request, and it signs at most once.
THEOREM DynamoOneSigner == Spec => [](TypeOK /\ OneSigner)
<1>1. IInv => TypeOK /\ OneSigner
  BY DEF IInv
<1>. QED
  BY InvariantHolds, <1>1, PTL

\* What PutItem has let through stays covered by the item in the table, however
\* late or often calls are executed.
THEOREM DynamoKeepsGrants == Spec => []GrantsInTable
<1>1. IInv => GrantsInTable
  BY DEF IInv
<1>. QED
  BY InvariantHolds, <1>1, PTL

\* The DynamoDB backend implements SignOnce: a successful PutItem is a grant
\* newer than all before it, and only granted requests are signed.
THEOREM DynamoRefinesSignOnce == Spec => RefinesSignOnce
<1>1. Init => Guard!Init
  BY DEF Init, Guard!Init
<1>2. IInv /\ [Next]_vars => [Guard!Next]_(Guard!vars)
  <2> SUFFICES ASSUME IInv, [Next]_vars PROVE [Guard!Next]_(Guard!vars)
    OBVIOUS
  <2>1. ASSUME NEW r \in Requests, Condition(r), PutItem(r), signatures' = signatures
        PROVE  [Guard!Next]_(Guard!vars)
    <3>1. /\ granted' = granted \cup {r}
          /\ \A g \in granted : SameSlot(g, r) => SupersededBy(g, r)
      BY <2>1, PutItemGrants
    <3>2. Guard!Grant(r)
      BY <2>1, <3>1 DEF Guard!Grant, Guard!SameSlot, Guard!Slot, Guard!SupersededBy,
                        SameSlot, Slot, SupersededBy
    <3>. QED
      BY <3>2 DEF Guard!Next
  <2>2. ASSUME NEW w \in Workers, VaultSign(w) PROVE [Guard!Next]_(Guard!vars)
    <3>1. req[w] \in Requests /\ req[w] \in granted /\ granted' = granted
      BY <2>2 DEF VaultSign, IInv, TypeOK, OnlyGranted, MaySign
    <3>2. \/ signatures' = signatures
          \/ signatures' = [signatures EXCEPT ![req[w]] = @ + 1]
      BY <2>2 DEF VaultSign
    <3>3. signatures \in [Requests -> Nat]
      BY DEF IInv, TypeOK
    <3>4. \/ Signed' = Signed
          \/ Signed' = Signed \cup {req[w]}
      BY <3>1, <3>2, <3>3 DEF Signed
    <3>. QED
      BY <3>1, <3>4 DEF Guard!Next, Guard!Sign, Guard!vars, Signed
  <2>3. CASE UNCHANGED <<granted, signatures>>
    BY <2>3 DEF Guard!vars
  <2>4. \/ \E r \in Requests : Condition(r) /\ PutItem(r) /\ signatures' = signatures
        \/ \E w \in Workers : VaultSign(w)
        \/ UNCHANGED <<granted, signatures>>
    <3>1. ASSUME NEW w \in Workers, Execute(w)
          PROVE  \/ Condition(req[w]) /\ PutItem(req[w]) /\ signatures' = signatures
                 \/ UNCHANGED <<granted, signatures>>
      BY <3>1 DEF Execute
    <3>2. \A w \in Workers : Execute(w) => req[w] \in Requests
      BY DEF Execute, IInv, TypeOK
    <3>3. ASSUME NEW r \in Requests, ExecuteLate(r)
          PROVE  Condition(r) /\ PutItem(r) /\ signatures' = signatures
      BY <3>3 DEF ExecuteLate
    <3>4. ASSUME NEW w \in Workers,
                 \/ \E r \in Requests : IsSafeToSign(w, r)
                 \/ Resend(w) \/ Receive(w) \/ GiveUp(w)
          PROVE  UNCHANGED <<granted, signatures>>
      BY <3>4 DEF IsSafeToSign, Resend, Receive, GiveUp
    <3>. QED
      BY <3>1, <3>2, <3>3, <3>4 DEF Next, vars
  <2>. QED
    BY <2>1, <2>2, <2>3, <2>4
<1>. QED
  BY InvariantHolds, <1>1, <1>2, PTL DEF Spec, RefinesSignOnce, Guard!Spec

\* No two instances, and no instance twice, sign different messages for one
\* chain, key, kind, level and round: watermark/aws.go on its own keeps bakers of
\* one key apart.
THEOREM DynamoNeverDoubleSigns == Spec => []Guard!NoDoubleSign
<1> DEFINE J == Promised(granted, Signed)
<1>1. Guard!Init => J
  BY DEF Guard!Init, Promised, Ordered, Signed
<1>2. J /\ [Guard!Next]_(Guard!vars) => J'
  <2> SUFFICES ASSUME J, [Guard!Next]_(Guard!vars) PROVE J'
    OBVIOUS
  <2>1. \/ \E r \in Requests :
              /\ \A g \in granted : SameSlot(g, r) => g = r \/ SupersededBy(g, r)
              /\ granted' = granted \cup {r} /\ Signed' = Signed
        \/ \E r \in granted : granted' = granted /\ Signed' = Signed \cup {r}
        \/ granted' = granted /\ Signed' = Signed
    BY DEF Guard!Next, Guard!vars, Guard!Grant, Guard!Sign, Guard!SameSlot, Guard!Slot,
       Guard!SupersededBy, SameSlot, Slot, SupersededBy, Signed
  <2>. QED
    BY <2>1, PromiseKept
<1>3. J => Guard!NoDoubleSign
  <2>1. ASSUME J, NEW r \in Signed, NEW s \in Signed
        PROVE  ~Guard!Conflict(r, s)
    BY <2>1, OrderedIsNoConflict DEF Promised, Guard!Conflict, Guard!SameSlot, Guard!Slot,
       Conflict, SameSlot, Slot
  <2>. QED
    BY <2>1 DEF Guard!NoDoubleSign, Signed
<1>. QED
  BY DynamoRefinesSignOnce, <1>1, <1>2, <1>3, PTL DEF RefinesSignOnce, Guard!Spec
=============================================================================
