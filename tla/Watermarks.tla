----------------------------- MODULE Watermarks -----------------------------
(***************************************************************************)
(* The data every watermark backend works on: signing requests, the        *)
(* (level, round, hash) record of pkg/signatory/request, and the two ways  *)
(* the code compares them.  Requests that carry no watermark (generic      *)
(* operations and the like) return early from every IsSafeToSign and have  *)
(* no effect on any backend, so Requests holds only blocks, preattesta-    *)
(* tions and attestations.                                                 *)
(***************************************************************************)
EXTENDS Integers

CONSTANTS
    Chains,      \* chain identifiers
    Keys,        \* public key hashes
    Kinds,       \* names SignRequestKind returns
    Digests,     \* blake2b digests of the messages
    Requests,    \* the requests clients may send
    Half,        \* 2^31 in the code: an int32 ranges over -Half..Half-1
    NoHash,      \* tz.None in Watermark.Hash
    NoMark       \* no entry in a backend's map, table or collection

Int32 == -Half .. Half - 1

Request ==
    [chain : Chains, pkh : Keys, kind : Kinds,
     level : Int32, round : Int32, digest : Digests]

Mark == [level : Int32, round : Int32, hash : Digests \cup {NoHash}]

(***************************************************************************)
(* A digest is taken over the whole message, so equal digests mean equal   *)
(* messages (blake2b is taken to be injective).  The key is not part of    *)
(* the message.                                                            *)
(***************************************************************************)
ASSUME RequestsAssumption ==
    /\ Half \in Nat \ {0}
    /\ NoMark \notin Mark
    /\ NoHash \notin Digests
    /\ Requests \subseteq Request
    /\ \A r, s \in Requests :
          r.digest = s.digest =>
            /\ r.chain = s.chain /\ r.kind = s.kind
            /\ r.level = s.level /\ r.round = s.round

\* Levels and rounds are never negative on a Tezos chain; the int32 fields
\* of the wire format could carry negative values.
NonNegative == \A r \in Requests : r.level >= 0 /\ r.round >= 0

(***************************************************************************)
(* Go's int32 subtraction.  The difference of two int32 values is at most  *)
(* one modulus away from its wrapped result.                               *)
(***************************************************************************)
Sub32(a, b) ==
    LET d == a - b
    IN  IF d >= Half THEN d - 2 * Half
        ELSE IF d < -Half THEN d + 2 * Half
        ELSE d

NewWatermark(r) == [level |-> r.level, round |-> r.round, hash |-> r.digest]

\* Watermark.Validate: l may follow stored.
Validate(l, stored) ==
    \/ /\ l.hash # NoHash
       /\ stored.hash # NoHash
       /\ l.hash = stored.hash
    \/ LET d == Sub32(l.level, stored.level)
           diff == IF d = 0 THEN Sub32(l.round, stored.round) ELSE d
       IN  diff > 0

\* The strict order of (level, round) pairs: GCPWatermark.supersededBy, and
\* the condition of the DynamoDB PutItem.
SupersededBy(w, next) ==
    \/ w.level < next.level
    \/ w.level = next.level /\ w.round < next.round

\* The place of a request in a chain's map: delegate, then request kind.
Slot(r) == <<r.pkh, r.kind>>

\* What a map from chains to slots holds for a request.
At(map, r) == map[r.chain][Slot(r)]

NoMarks == [s \in Keys \X Kinds |-> NoMark]

MarkMap == [Chains -> [Keys \X Kinds -> Mark \cup {NoMark}]]

\* The comparison of InMemory.isSafeToSignUnlocked.
SafeAgainst(stored, r) == stored # NoMark => Validate(NewWatermark(r), stored)

\* ... and its update of the map.
Advance(m, r) == [m EXCEPT ![r.chain][Slot(r)] = NewWatermark(r)]

-----------------------------------------------------------------------------
\* Vocabulary of the properties.

SameSlot(r, s) == r.chain = s.chain /\ Slot(r) = Slot(s)

\* Signing both is a double signature: same chain, key, kind, level, round.
Conflict(r, s) ==
    /\ SameSlot(r, s)
    /\ r.level = s.level
    /\ r.round = s.round
    /\ r.digest # s.digest

\* A stored mark stands for r or for something strictly newer.
Covers(mark, r) ==
    /\ mark # NoMark
    /\ mark = NewWatermark(r) \/ SupersededBy(r, mark)

\* A stored mark whose hash is that of a request has the request's level and
\* round, and none of its numbers is negative.
Honest(mark) ==
    /\ mark.level >= 0 /\ mark.round >= 0
    /\ \A r \in Requests :
          mark.hash = r.digest => mark.level = r.level /\ mark.round = r.round

\* New is what a map may hold after old: the same mark or a newer one.
NotBehind(new, old) ==
    old # NoMark => new # NoMark /\ (new = old \/ SupersededBy(old, new))
=============================================================================
