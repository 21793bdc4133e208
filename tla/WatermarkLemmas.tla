-------------------------- MODULE WatermarkLemmas ---------------------------
(***************************************************************************)
(* Facts about the comparisons of module Watermarks, for every set of      *)
(* requests and every integer width.                                       *)
(***************************************************************************)
EXTENDS Watermarks, TLAPS

\* request.Watermark.Validate on levels and rounds that are not negative:
\* the int32 subtraction cannot wrap, so the comparison is the strict order
\* of (level, round), with equal hashes as the only exception.
THEOREM ValidateIsOrder ==
    ASSUME NEW l \in Mark, NEW stored \in Mark,
           l.level >= 0, l.round >= 0, stored.level >= 0, stored.round >= 0
    PROVE  Validate(l, stored) <=>
              \/ l.hash # NoHash /\ l.hash = stored.hash
              \/ SupersededBy(stored, l)
<1>1. /\ l.level \in 0 .. Half - 1 /\ l.round \in 0 .. Half - 1
      /\ stored.level \in 0 .. Half - 1 /\ stored.round \in 0 .. Half - 1
      /\ Half \in Nat
  BY RequestsAssumption DEF Mark, Int32
<1>2. \A a, b \in 0 .. Half - 1 : Sub32(a, b) = a - b
  BY <1>1 DEF Sub32
<1>3. /\ Sub32(l.level, stored.level) = l.level - stored.level
      /\ Sub32(l.round, stored.round) = l.round - stored.round
  BY <1>1, <1>2
<1>. QED
  BY <1>1, <1>3 DEF Validate, SupersededBy

\* The watermark NewWatermark makes of a request is a mark with a hash.
LEMMA NewWatermarkType ==
    ASSUME NEW r \in Requests
    PROVE  /\ NewWatermark(r) \in Mark
           /\ NewWatermark(r) # NoMark
           /\ NewWatermark(r).hash # NoHash
<1>1. r \in Request
  BY RequestsAssumption
<1>2. NewWatermark(r) \in Mark
  BY <1>1 DEF NewWatermark, Mark, Request
<1>3. NewWatermark(r) # NoMark /\ NewWatermark(r).hash # NoHash
  BY <1>1, <1>2, RequestsAssumption DEF NewWatermark, Request
<1>. QED
  BY <1>2, <1>3

\* ... and an honest one.
LEMMA NewWatermarkHonest ==
    ASSUME NonNegative, NEW r \in Requests
    PROVE  /\ NewWatermark(r) \in Mark
           /\ NewWatermark(r) # NoMark
           /\ NewWatermark(r).hash # NoHash
           /\ Honest(NewWatermark(r))
<1>1. r.level >= 0 /\ r.round >= 0
  BY DEF NonNegative
<1>2. Honest(NewWatermark(r))
  BY <1>1, RequestsAssumption DEF Honest, NewWatermark
<1>. QED
  BY <1>2, NewWatermarkType

\* The order of (level, round) pairs is transitive.
LEMMA SupersededTransitive ==
    ASSUME NEW a, NEW b, NEW c,
           a.level \in Int, a.round \in Int, b.level \in Int, b.round \in Int,
           c.level \in Int, c.round \in Int,
           SupersededBy(a, b), SupersededBy(b, c)
    PROVE  SupersededBy(a, c)
BY DEF SupersededBy

\* What isSafeToSignUnlocked stores is never behind what it replaces: the
\* equal-hash exception only ever stores the same mark again.
LEMMA SafeIsNotBehind ==
    ASSUME NonNegative, NEW r \in Requests, NEW stored \in Mark \cup {NoMark},
           stored # NoMark => Honest(stored),
           SafeAgainst(stored, r)
    PROVE  NotBehind(NewWatermark(r), stored)
<1>1. CASE stored = NoMark
  BY <1>1 DEF NotBehind
<1>2. CASE stored # NoMark
  <2>1. stored \in Mark /\ Honest(stored) /\ Validate(NewWatermark(r), stored)
    BY <1>2 DEF SafeAgainst
  <2>2. /\ NewWatermark(r) \in Mark /\ NewWatermark(r) # NoMark
        /\ Honest(NewWatermark(r)) /\ NewWatermark(r).hash = r.digest
    BY NewWatermarkHonest DEF NewWatermark
  <2>3. \/ NewWatermark(r).hash = stored.hash
        \/ SupersededBy(stored, NewWatermark(r))
    BY <2>1, <2>2, ValidateIsOrder DEF Honest
  <2>4. ASSUME NewWatermark(r).hash = stored.hash
        PROVE  NewWatermark(r) = stored
    <3>1. stored.level = r.level /\ stored.round = r.round /\ stored.hash = r.digest
      BY <2>1, <2>2, <2>4 DEF Honest
    <3>2. stored = [level |-> stored.level, round |-> stored.round, hash |-> stored.hash]
      BY <2>1 DEF Mark
    <3>. QED
      BY <3>1, <3>2 DEF NewWatermark
  <2>. QED
    BY <2>2, <2>3, <2>4 DEF NotBehind
<1>. QED
  BY <1>1, <1>2

\* NotBehind is transitive.
LEMMA NotBehindTransitive ==
    ASSUME NEW a \in Mark \cup {NoMark}, NEW b \in Mark \cup {NoMark},
           NEW c \in Mark \cup {NoMark},
           NotBehind(b, a), NotBehind(c, b)
    PROVE  NotBehind(c, a)
<1>1. \A m \in Mark : m.level \in Int /\ m.round \in Int
  BY RequestsAssumption DEF Mark, Int32
<1>. QED
  BY <1>1, SupersededTransitive DEF NotBehind

\* A covered request stays covered when its mark moves forward.
LEMMA CoversMonotone ==
    ASSUME NEW g \in Requests, NEW old \in Mark \cup {NoMark},
           NEW new \in Mark \cup {NoMark},
           Covers(old, g), NotBehind(new, old)
    PROVE  Covers(new, g)
<1>1. \A m \in Mark : m.level \in Int /\ m.round \in Int
  BY RequestsAssumption DEF Mark, Int32
<1>2. g.level \in Int /\ g.round \in Int
  BY RequestsAssumption DEF Request, Int32
<1>3. old \in Mark /\ new \in Mark /\ new # NoMark
  BY DEF Covers, NotBehind
<1>4. CASE new = old
  BY <1>4
<1>5. CASE SupersededBy(old, new)
  <2>1. CASE old = NewWatermark(g)
    BY <1>3, <1>5, <2>1 DEF Covers, SupersededBy, NewWatermark
  <2>2. CASE SupersededBy(g, old)
    BY <1>1, <1>2, <1>3, <1>5, <2>2, SupersededTransitive DEF Covers
  <2>. QED
    BY <2>1, <2>2 DEF Covers
<1>. QED
  BY <1>3, <1>4, <1>5 DEF NotBehind, Covers

\* A mark that is a request's own covers only that request and older ones.
LEMMA CoveredIsSameOrOlder ==
    ASSUME NEW g \in Requests, NEW r \in Requests,
           SameSlot(g, r), Covers(NewWatermark(r), g)
    PROVE  g = r \/ SupersededBy(g, r)
<1>1. g \in Request /\ r \in Request
  BY RequestsAssumption
<1>2. CASE NewWatermark(r) = NewWatermark(g)
  <2>1. g.level = r.level /\ g.round = r.round /\ g.digest = r.digest
    BY <1>2 DEF NewWatermark
  <2>2. g.chain = r.chain /\ g.pkh = r.pkh /\ g.kind = r.kind
    BY DEF SameSlot, Slot
  <2>. QED
    BY <1>1, <2>1, <2>2 DEF Request
<1>3. CASE SupersededBy(g, NewWatermark(r))
  BY <1>3 DEF SupersededBy, NewWatermark
<1>. QED
  BY <1>2, <1>3 DEF Covers

\* A request newer than everything granted in its slot conflicts with none.
LEMMA NewerIsNoConflict ==
    ASSUME NEW g \in Requests, NEW r \in Requests,
           SameSlot(g, r) => g = r \/ SupersededBy(g, r)
    PROVE  ~Conflict(g, r) /\ ~Conflict(r, g)
<1>1. /\ g.level \in Int /\ g.round \in Int
      /\ r.level \in Int /\ r.round \in Int
  BY RequestsAssumption DEF Request, Int32
<1>. QED
  BY <1>1 DEF Conflict, SameSlot, SupersededBy

-----------------------------------------------------------------------------
(* Sets of granted requests. *)

\* Granted requests of one slot are totally ordered.
Ordered(grants) ==
    \A g, h \in grants :
        SameSlot(g, h) => g = h \/ SupersededBy(g, h) \/ SupersededBy(h, g)

\* A request newer than the ones before it keeps them ordered.
LEMMA GrantKeepsOrder ==
    ASSUME NEW grants, Ordered(grants), NEW r,
           \A g \in grants : SameSlot(g, r) => g = r \/ SupersededBy(g, r)
    PROVE  Ordered(grants \cup {r})
<1>1. \A g \in grants : SameSlot(g, r) <=> SameSlot(r, g)
  BY DEF SameSlot
<1>. QED
  BY <1>1 DEF Ordered

\* Ordered requests do not conflict.
LEMMA OrderedIsNoConflict ==
    ASSUME NEW grants, grants \subseteq Requests, Ordered(grants),
           NEW r \in grants, NEW s \in grants
    PROVE  ~Conflict(r, s)
<1>1. SameSlot(r, s) <=> SameSlot(s, r)
  BY DEF SameSlot
<1>2. CASE SameSlot(r, s) => r = s \/ SupersededBy(r, s)
  BY <1>2, NewerIsNoConflict
<1>3. CASE SameSlot(s, r) => s = r \/ SupersededBy(s, r)
  BY <1>3, NewerIsNoConflict
<1>. QED
  BY <1>1, <1>2, <1>3 DEF Ordered

\* The sets of a backend that keeps the promise of SignOnce.
Promised(grants, signatures) ==
    signatures \subseteq grants /\ grants \subseteq Requests /\ Ordered(grants)

\* A step of SignOnce keeps the promise.
LEMMA PromiseKept ==
    ASSUME NEW G, NEW S, NEW G2, NEW S2, Promised(G, S),
           \/ \E r \in Requests :
                 /\ \A g \in G : SameSlot(g, r) => g = r \/ SupersededBy(g, r)
                 /\ G2 = G \cup {r} /\ S2 = S
           \/ \E r \in G : G2 = G /\ S2 = S \cup {r}
           \/ G2 = G /\ S2 = S
    PROVE  Promised(G2, S2)
BY GrantKeepsOrder DEF Promised

-----------------------------------------------------------------------------
(* Whole maps. *)

HonestMap(m) ==
    \A c \in Chains, s \in Keys \X Kinds : m[c][s] # NoMark => Honest(m[c][s])

MapNotBehind(new, old) ==
    \A c \in Chains, s \in Keys \X Kinds : NotBehind(new[c][s], old[c][s])

\* A map is not behind itself.
LEMMA NotBehindReflexive ==
    ASSUME NEW m \in MarkMap PROVE MapNotBehind(m, m)
BY DEF MapNotBehind, NotBehind

\* Where a request's mark is kept.
LEMMA SlotType ==
    ASSUME NEW r \in Requests
    PROVE  r.chain \in Chains /\ Slot(r) \in Keys \X Kinds
BY RequestsAssumption DEF Request, Slot

\* MapNotBehind is transitive.
LEMMA MapTransitive ==
    ASSUME NEW a \in MarkMap, NEW b \in MarkMap, NEW c \in MarkMap,
           MapNotBehind(b, a), MapNotBehind(c, b)
    PROVE  MapNotBehind(c, a)
<1> SUFFICES ASSUME NEW h \in Chains, NEW s \in Keys \X Kinds
             PROVE  NotBehind(c[h][s], a[h][s])
  BY DEF MapNotBehind
<1>1. /\ a[h][s] \in Mark \cup {NoMark} /\ b[h][s] \in Mark \cup {NoMark}
      /\ c[h][s] \in Mark \cup {NoMark}
  BY DEF MarkMap
<1>. QED
  BY <1>1, NotBehindTransitive DEF MapNotBehind

\* Storing a request's mark where it is not behind what it replaces moves the
\* map forward, in that slot only.
LEMMA AdvanceForward ==
    ASSUME NEW m \in MarkMap, NEW r \in Requests,
           NotBehind(NewWatermark(r), m[r.chain][Slot(r)])
    PROVE  /\ Advance(m, r) \in MarkMap
           /\ Advance(m, r)[r.chain][Slot(r)] = NewWatermark(r)
           /\ \A c \in Chains, s \in Keys \X Kinds :
                 Advance(m, r)[c][s] = IF c = r.chain /\ s = Slot(r) THEN NewWatermark(r)
                                       ELSE m[c][s]
           /\ MapNotBehind(Advance(m, r), m)
<1>1. r.chain \in Chains /\ Slot(r) \in Keys \X Kinds
  BY SlotType
<1>2. NewWatermark(r) \in Mark
  BY NewWatermarkType
<1>3. Advance(m, r) \in MarkMap
  BY <1>1, <1>2 DEF Advance, MarkMap
<1>4. \A c \in Chains, s \in Keys \X Kinds :
        Advance(m, r)[c][s] = IF c = r.chain /\ s = Slot(r) THEN NewWatermark(r)
                              ELSE m[c][s]
  BY <1>1 DEF Advance, MarkMap
<1>5. MapNotBehind(Advance(m, r), m)
  BY <1>4 DEF MapNotBehind, NotBehind
<1>. QED
  BY <1>1, <1>3, <1>4, <1>5

\* What isSafeToSignUnlocked does to the map in memory.
LEMMA AdvanceType ==
    ASSUME NonNegative, NEW m \in MarkMap, NEW r \in Requests,
           HonestMap(m), SafeAgainst(m[r.chain][Slot(r)], r)
    PROVE  /\ Advance(m, r) \in MarkMap
           /\ HonestMap(Advance(m, r))
           /\ Advance(m, r)[r.chain][Slot(r)] = NewWatermark(r)
           /\ MapNotBehind(Advance(m, r), m)
<1>1. r.chain \in Chains /\ Slot(r) \in Keys \X Kinds
  BY SlotType
<1>2. NewWatermark(r) \in Mark /\ Honest(NewWatermark(r))
  BY NewWatermarkHonest
<1>3. NotBehind(NewWatermark(r), m[r.chain][Slot(r)])
  BY <1>1, SafeIsNotBehind DEF MarkMap, HonestMap
<1>4. HonestMap(Advance(m, r))
  BY <1>2, <1>3, AdvanceForward DEF HonestMap
<1>. QED
  BY <1>3, <1>4, AdvanceForward

\* A map that only moves forward keeps covering what has been granted.
LEMMA StillCovered ==
    ASSUME NEW d \in MarkMap, NEW e \in MarkMap, MapNotBehind(e, d),
           NEW g \in Requests, Covers(d[g.chain][Slot(g)], g)
    PROVE  Covers(e[g.chain][Slot(g)], g)
<1>1. g.chain \in Chains /\ Slot(g) \in Keys \X Kinds
  BY SlotType
<1>2. /\ d[g.chain][Slot(g)] \in Mark \cup {NoMark}
      /\ e[g.chain][Slot(g)] \in Mark \cup {NoMark}
      /\ NotBehind(e[g.chain][Slot(g)], d[g.chain][Slot(g)])
  BY <1>1 DEF MarkMap, MapNotBehind
<1>. QED
  BY <1>2, CoversMonotone

=============================================================================
