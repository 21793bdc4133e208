-------------------------- MODULE MCFileWatermark ---------------------------
(* Instances of FileWatermark: faults with and without older data, and the *)
(* upgrade of the kinds that were renamed.                                 *)
EXTENDS FileWatermark, RequestSets

CONSTANTS c1, c2, k1, t1, t2

MCKinds == {"block", "preattestation", "attestation"}
MCThreads == {t1, t2}

MarkAt(l, rd, h) == [level |-> l, round |-> rd, hash |-> h]
V1At(l, rd, o, h) == [level |-> l, round |-> rd, order |-> o, hash |-> h]

None == [v1 |-> NoLegacy, v0 |-> NoLegacy, signed |-> {}]

\* Two payloads for a round, a later round and an attestation that is written
\* into the same file, and two payloads on another chain.
FaultRequests ==
    RequestsOver({c1, c2}, {k1}, {"block"}, 1..1, 0..0, {"A", "B"})
    \cup RequestsOver({c1}, {k1}, {"block"}, 1..1, 1..1, {"A"})
    \cup RequestsOver({c1}, {k1}, {"attestation"}, 1..1, 0..0, {"A"})
FaultDigests == DigestsOf(FaultRequests)

Before(c, kd) ==
    CHOOSE r \in RequestsOver({c}, {k1}, {kd}, {1}, {0}, {"A"}) : TRUE

\* Blocks of level 1 signed on both chains, kept in each of the layouts.
V0Blocks ==
    [v1 |-> NoLegacy,
     v0 |-> [c \in Chains |-> [s \in OldKinds \X Keys |->
                IF s[1] = "block" THEN MarkAt(1, 0, Before(c, "block").digest)
                ELSE NoMark]],
     signed |-> {Before(c, "block") : c \in Chains}]
V1Blocks ==
    [v1 |-> [c \in Chains |-> [k \in Keys |->
                V1At(1, 0, 0, Before(c, "block").digest)]],
     v0 |-> NoLegacy,
     signed |-> {Before(c, "block") : c \in Chains}]
BlockUpgrades == {None, V0Blocks, V1Blocks}

\* An attestation of level 1 signed before the upgrade, after its block.
KindRequests == RequestsOver({c1}, {k1}, {"block", "attestation"}, 1..1, 0..0, {"A", "B"})
KindDigests == DigestsOf(KindRequests)
V1Attested ==
    [v1 |-> [c \in Chains |-> [k \in Keys |->
                V1At(1, 0, 2, Before(c, "attestation").digest)]],
     v0 |-> NoLegacy,
     signed |-> {Before(c, "attestation") : c \in Chains}]
V0Attested ==
    [v1 |-> NoLegacy,
     v0 |-> [c \in Chains |-> [s \in OldKinds \X Keys |->
                IF s[1] = "endorsement" THEN MarkAt(1, 0, Before(c, "attestation").digest)
                ELSE NoMark]],
     signed |-> {Before(c, "attestation") : c \in Chains}]
KindUpgrades == {V0Attested, V1Attested}
=============================================================================
