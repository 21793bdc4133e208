------------------------ MODULE FileWatermarkProofs -------------------------
(***************************************************************************)
(* The file backend never double-signs, for any number of goroutines,      *)
(* chains, keys and kinds, any content of the older directories, and any   *)
(* number of kills, restarts and failed writes.                            *)
(***************************************************************************)
EXTENDS FileWatermark, WatermarkLemmas

\* The marks the older program left are honest.
LegacyHonest ==
    \A l \in Legacies :
        /\ l.v1 # NoLegacy =>
              \A c \in Chains, k \in Keys :
                  l.v1[c][k] # NoMark => Honest(l.v1[c][k])
        /\ l.v0 # NoLegacy =>
              \A c \in Chains, s \in OldKinds \X Keys :
                  l.v0[c][s] # NoMark => Honest(l.v0[c][s])

-----------------------------------------------------------------------------
(* The inductive invariant. *)

\* Without the directory there is no file.
NoDirNoFiles == ~dirV2 => disk = Nothing

\* From the first step of a start to the exit, memory is not behind the files.
Current == proc # "down" => MapNotBehind(mem, disk)

\* A goroutine between check and write holds the mutex, and the map in
\* memory still holds the mark of its request.
Writing(t) ==
    pc[t] \in {"checked", "writing"} =>
        /\ lock = t
        /\ req[t] \in Requests
        /\ mem[req[t].chain][Slot(req[t])] = NewWatermark(req[t])

Serving ==
    /\ (\E t \in Threads : pc[t] # "idle") => proc = "up"
    /\ \A t \in Threads :
          /\ Writing(t)
          /\ pc[t] = "writing" => dirV2
          /\ pc[t] = "safe" => req[t] \in granted

IInv ==
    /\ TypeOK
    /\ HonestMap(mem) /\ HonestMap(disk)
    /\ NoDirNoFiles
    /\ Current
    /\ Serving
    /\ GrantsOnDisk

-----------------------------------------------------------------------------
(* Upgrades. *)

\* The older program left a mark for everything it had signed, in the layout
\* NewFileWatermark reads, and under a name requests still have.
UpgradeReadable ==
    \A l \in Legacies : \A q \in l.signed :
        \/ /\ l.v1 # NoLegacy
           /\ LET m == l.v1[q.chain][q.pkh]
              IN  /\ m # NoMark /\ V1Request(m.order) = q.kind
                  /\ Covers([level |-> m.level, round |-> m.round, hash |-> m.hash], q)
        \/ /\ l.v1 = NoLegacy /\ l.v0 # NoLegacy
           /\ q.kind \in OldKinds
           /\ Covers(l.v0[q.chain][<<q.kind, q.pkh>>], q)

\* Until a fault, the current directory exists only while the process runs
\* that migrated the older ones: its map covers what was signed before.
Carried ==
    faults = 0 =>
        /\ proc = "down" => ~dirV2
        /\ proc # "down" => \A q \in legacy.signed : Covers(mem[q.chain][Slot(q)], q)
        /\ \A g \in granted, q \in legacy.signed : ~Conflict(g, q)

-----------------------------------------------------------------------------
\* The empty map.
LEMMA NothingType == /\ Nothing \in MarkMap
                     /\ HonestMap(Nothing)
                     /\ \A m \in MarkMap : MapNotBehind(m, Nothing)
                     /\ \A c \in Chains, s \in Keys \X Kinds : Nothing[c][s] = NoMark
BY DEF Nothing, NoMarks, MarkMap, HonestMap, MapNotBehind, NotBehind

\* The migrated maps are maps of honest marks.
LEMMA MigratedType ==
    ASSUME LegacyHonest, legacy \in Legacies
    PROVE  /\ legacy.v1 # NoLegacy => tryV1 \in MarkMap /\ HonestMap(tryV1)
           /\ legacy.v0 # NoLegacy => tryV0 \in MarkMap /\ HonestMap(tryV0)
<1>1. ASSUME legacy.v1 # NoLegacy
      PROVE  tryV1 \in MarkMap /\ HonestMap(tryV1)
  <2>1. legacy.v1 \in [Chains -> [Keys -> V1Mark \cup {NoMark}]]
    BY <1>1, FileAssumption
  <2>2. ASSUME NEW c \in Chains, NEW s \in Keys \X Kinds
        PROVE  /\ tryV1[c][s] \in Mark \cup {NoMark}
               /\ tryV1[c][s] # NoMark => Honest(tryV1[c][s])
    <3> DEFINE m == legacy.v1[c][s[1]]
    <3>1. s[1] \in Keys /\ m \in V1Mark \cup {NoMark}
      BY <2>1
    <3>2. m # NoMark => Honest(m)
      BY <1>1, <3>1 DEF LegacyHonest
    <3>3. tryV1[c][s] = IF m # NoMark /\ V1Request(m.order) = s[2]
                        THEN [level |-> m.level, round |-> m.round, hash |-> m.hash]
                        ELSE NoMark
      BY DEF tryV1
    <3> HIDE DEF m
    <3>4. CASE m # NoMark /\ V1Request(m.order) = s[2]
      <4>1. m \in V1Mark /\ Honest(m)
        BY <3>1, <3>2, <3>4
      <4>. QED
        BY <3>3, <3>4, <4>1 DEF Honest, Mark, V1Mark
    <3>5. CASE ~(m # NoMark /\ V1Request(m.order) = s[2])
      BY <3>3, <3>5
    <3>. QED
      BY <3>4, <3>5
  <2>. QED
    BY <2>2 DEF MarkMap, HonestMap, tryV1
<1>2. ASSUME legacy.v0 # NoLegacy
      PROVE  tryV0 \in MarkMap /\ HonestMap(tryV0)
  <2>1. legacy.v0 \in [Chains -> [OldKinds \X Keys -> Mark \cup {NoMark}]]
    BY <1>2, FileAssumption
  <2>2. ASSUME NEW c \in Chains, NEW s \in Keys \X Kinds
        PROVE  /\ tryV0[c][s] \in Mark \cup {NoMark}
               /\ tryV0[c][s] # NoMark => Honest(tryV0[c][s])
    <3>1. tryV0[c][s] = IF s[2] \in OldKinds THEN legacy.v0[c][<<s[2], s[1]>>]
                        ELSE NoMark
      BY DEF tryV0
    <3>2. s[2] \in OldKinds => <<s[2], s[1]>> \in OldKinds \X Keys
      OBVIOUS
    <3>. QED
      BY <1>2, <2>1, <3>1, <3>2 DEF LegacyHonest
  <2>. QED
    BY <2>2 DEF MarkMap, HonestMap, tryV0
<1>. QED
  BY <1>1, <1>2

-----------------------------------------------------------------------------
\* Writing one chain's map into its file.
LEMMA WriteChain ==
    ASSUME NEW m \in MarkMap, NEW d \in MarkMap, NEW ch \in Chains,
           HonestMap(m), HonestMap(d), MapNotBehind(m, d)
    PROVE  LET e == [d EXCEPT ![ch] = m[ch]]
           IN  e \in MarkMap /\ HonestMap(e) /\ MapNotBehind(m, e) /\ MapNotBehind(e, d)
<1> DEFINE e == [d EXCEPT ![ch] = m[ch]]
<1>1. e \in MarkMap
  BY DEF MarkMap
<1>2. \A c \in Chains : e[c] = IF c = ch THEN m[ch] ELSE d[c]
  BY DEF MarkMap
<1> HIDE DEF e
<1>3. HonestMap(e)
  BY <1>2 DEF HonestMap
<1>4. MapNotBehind(m, e)
  BY <1>2 DEF MapNotBehind, NotBehind
<1>5. MapNotBehind(e, d)
  BY <1>2 DEF MapNotBehind, NotBehind
<1>. QED
  BY <1>1, <1>3, <1>4, <1>5 DEF e

-----------------------------------------------------------------------------
(* Every step preserves the invariant: one lemma per group of actions. *)

\* The initial states satisfy the invariant.
LEMMA InitIInv == Init => IInv
<1> SUFFICES ASSUME Init PROVE IInv
  OBVIOUS
<1>0. MaxFaults \in Nat
  BY FileAssumption
<1>1. TypeOK
  <2>1. mem \in MarkMap /\ disk \in MarkMap
    BY NothingType DEF Init
  <2>2. faults \in 0..MaxFaults
    BY <1>0 DEF Init
  <2>. QED
    BY <2>1, <2>2 DEF Init, TypeOK
<1>2. HonestMap(mem) /\ HonestMap(disk) /\ NoDirNoFiles /\ Current
  BY NothingType DEF Init, NoDirNoFiles, Current
<1>3. Serving /\ GrantsOnDisk
  BY DEF Init, Serving, Writing, GrantsOnDisk
<1>. QED
  BY <1>1, <1>2, <1>3 DEF IInv

\* NewFileWatermark: whichever layout it finds, what it loads is not behind
\* the files of the current one.
LEMMA StartIInv ==
    ASSUME LegacyHonest, IInv, Start PROVE IInv'
<1> USE DEF IInv
<1>1. /\ UNCHANGED <<lock, pc, req, dirV2, disk, legacy, faults, granted, signed>>
      /\ proc = "down" /\ pc = [t \in Threads |-> "idle"]
  BY DEF Start, Serving, TypeOK
<1>2. ASSUME NEW m \in MarkMap, NEW todo \in SUBSET Chains, Migrate(m, todo),
             HonestMap(m), MapNotBehind(m, disk)
      PROVE  IInv'
  <2>1. mem' = m /\ pending' = todo /\ proc' \in {"up", "migrating"}
    BY <1>2 DEF Migrate
  <2>2. TypeOK'
    BY <1>1, <2>1 DEF TypeOK
  <2>3. HonestMap(mem)' /\ HonestMap(disk)' /\ NoDirNoFiles' /\ Current'
    BY <1>1, <1>2, <2>1 DEF HonestMap, NoDirNoFiles, Current, MapNotBehind, Nothing, NoMarks
  <2>4. Serving' /\ GrantsOnDisk'
    BY <1>1 DEF Serving, Writing, GrantsOnDisk
  <2>. QED
    BY <2>2, <2>3, <2>4
<1>3. CASE dirV2 /\ Migrate(disk, {})
  BY <1>2, <1>3, NotBehindReflexive DEF TypeOK
<1>4. CASE ~dirV2 /\ legacy.v1 # NoLegacy /\ Migrate(tryV1, V1Chains)
  <2>1. tryV1 \in MarkMap /\ HonestMap(tryV1) /\ V1Chains \subseteq Chains
    BY <1>4, MigratedType DEF TypeOK, V1Chains
  <2>2. MapNotBehind(tryV1, disk)
    BY <1>4, <2>1, NothingType DEF NoDirNoFiles
  <2>. QED
    BY <1>2, <1>4, <2>1, <2>2
<1>5. CASE ~dirV2 /\ legacy.v0 # NoLegacy /\ Migrate(tryV0, V0Chains)
  <2>1. tryV0 \in MarkMap /\ HonestMap(tryV0) /\ V0Chains \subseteq Chains
    BY <1>5, MigratedType DEF TypeOK, V0Chains
  <2>2. MapNotBehind(tryV0, disk)
    BY <1>5, <2>1, NothingType DEF NoDirNoFiles
  <2>. QED
    BY <1>2, <1>5, <2>1, <2>2
<1>6. CASE ~dirV2 /\ Migrate(Nothing, {})
  <2>1. MapNotBehind(Nothing, disk)
    BY <1>6, NothingType DEF NoDirNoFiles
  <2>. QED
    BY <1>2, <1>6, <2>1, NothingType
<1>. QED
  BY <1>3, <1>4, <1>5, <1>6 DEF Start

\* writeAll: each chain's file moves up to the map in memory.
LEMMA MigrateIInv ==
    ASSUME IInv, MigrateMkdir \/ \E c \in Chains : MigrateChain(c) PROVE IInv'
<1> USE DEF IInv
<1>1. CASE MigrateMkdir
  BY <1>1 DEF MigrateMkdir, TypeOK, HonestMap, NoDirNoFiles, Current, MapNotBehind,
              Serving, Writing, GrantsOnDisk
<1>2. ASSUME NEW c \in Chains, MigrateChain(c) PROVE IInv'
  <2>1. /\ UNCHANGED <<mem, lock, pc, req, dirV2, legacy, faults, granted, signed>>
        /\ proc = "migrating" /\ dirV2 /\ proc' \in {"up", "migrating"}
        /\ pending' \subseteq Chains
        /\ disk' = [disk EXCEPT ![c] = mem[c]]
    BY <1>2 DEF MigrateChain, TypeOK
  <2>2. mem \in MarkMap /\ disk \in MarkMap /\ MapNotBehind(mem, disk)
    BY <2>1 DEF TypeOK, Current
  <2>3. /\ disk' \in MarkMap /\ HonestMap(disk') /\ MapNotBehind(mem, disk')
        /\ MapNotBehind(disk', disk)
    BY <2>1, <2>2, WriteChain
  <2>4. TypeOK'
    BY <2>1, <2>3 DEF TypeOK
  <2>5. HonestMap(mem)' /\ HonestMap(disk)' /\ NoDirNoFiles' /\ Current'
    BY <2>1, <2>3 DEF HonestMap, NoDirNoFiles, Current, MapNotBehind
  <2>6. Serving'
    BY <2>1 DEF Serving, Writing
  <2>7. GrantsOnDisk'
    BY <2>1, <2>2, <2>3, StillCovered DEF GrantsOnDisk, TypeOK
  <2>. QED
    BY <2>4, <2>5, <2>6, <2>7
<1>. QED
  BY <1>1, <1>2

\* A kill loses memory and nothing on disk.
LEMMA CrashIInv ==
    ASSUME IInv, Crash PROVE IInv'
<1> USE DEF IInv
<1>1. /\ proc' = "down" /\ mem' = Nothing /\ lock' = NoThread /\ pending' = {}
      /\ pc' = [t \in Threads |-> "idle"] /\ req' = [t \in Threads |-> NoRequest]
      /\ faults' = faults + 1 /\ faults < MaxFaults
      /\ UNCHANGED <<dirV2, disk, legacy, granted, signed>>
  BY DEF Crash, Exit
<1>2. TypeOK'
  BY <1>1, NothingType, FileAssumption DEF TypeOK
<1>3. HonestMap(mem)' /\ HonestMap(disk)' /\ NoDirNoFiles' /\ Current'
  BY <1>1, NothingType DEF HonestMap, NoDirNoFiles, Current, Nothing, NoMarks
<1>4. Serving' /\ GrantsOnDisk'
  BY <1>1 DEF Serving, Writing, GrantsOnDisk
<1>. QED
  BY <1>2, <1>3, <1>4

\* isSafeToSignUnlocked moves memory forward under the mutex.
LEMMA CheckIInv ==
    ASSUME NonNegative, IInv, NEW t \in Threads, NEW r \in Requests, Check(t, r)
    PROVE  IInv'
<1> USE DEF IInv
<1>1. /\ proc = "up" /\ lock = NoThread /\ pc[t] = "idle"
      /\ SafeAgainst(mem[r.chain][Slot(r)], r)
      /\ mem' = Advance(mem, r) /\ lock' = t
      /\ pc' = [pc EXCEPT ![t] = "checked"] /\ req' = [req EXCEPT ![t] = r]
      /\ UNCHANGED <<proc, dirV2, disk, pending, legacy, faults, granted, signed>>
  BY DEF Check
<1>2. mem \in MarkMap /\ disk \in MarkMap /\ MapNotBehind(mem, disk)
  BY <1>1 DEF TypeOK, Current
<1>3. /\ mem' \in MarkMap /\ HonestMap(mem')
      /\ mem'[r.chain][Slot(r)] = NewWatermark(r)
      /\ MapNotBehind(mem', mem)
  BY <1>1, <1>2, AdvanceType
<1>4. MapNotBehind(mem', disk)
  BY <1>2, <1>3, MapTransitive
<1>5. TypeOK'
  BY <1>1, <1>3 DEF TypeOK
<1>6. HonestMap(mem)' /\ HonestMap(disk)' /\ NoDirNoFiles' /\ Current'
  BY <1>1, <1>3, <1>4 DEF HonestMap, NoDirNoFiles, Current, MapNotBehind
<1>7. Serving'
  <2>1. \A u \in Threads : pc[u] \notin {"checked", "writing"}
    BY <1>1, FileAssumption DEF Serving, Writing
  <2>2. \A u \in Threads \ {t} : pc'[u] = pc[u] /\ req'[u] = req[u]
    BY <1>1 DEF TypeOK
  <2>3. pc'[t] = "checked" /\ req'[t] = r
    BY <1>1 DEF TypeOK
  <2>. QED
    BY <1>1, <1>3, <2>1, <2>2, <2>3 DEF Serving, Writing
<1>8. GrantsOnDisk'
  BY <1>1 DEF GrantsOnDisk
<1>. QED
  BY <1>5, <1>6, <1>7, <1>8

\* WriteRename moves the file forward, and its request is newer than, or the
\* same as, everything granted before in its slot.
LEMMA RenameIInv ==
    ASSUME NonNegative, IInv, NEW t \in Threads, WriteRename(t)
    PROVE  /\ IInv'
           /\ req[t] \in Requests
           /\ \A g \in granted : SameSlot(g, req[t]) =>
                                    g = req[t] \/ SupersededBy(g, req[t])
<1> USE DEF IInv
<1> DEFINE r == req[t]
<1>1. /\ pc[t] = "writing" /\ lock' = NoThread
      /\ disk' = [disk EXCEPT ![r.chain] = mem[r.chain]]
      /\ granted' = granted \cup {r}
      /\ \/ pc' = [pc EXCEPT ![t] = "safe"] /\ UNCHANGED <<req, faults>>
         \/ /\ faults < MaxFaults /\ faults' = faults + 1
            /\ pc' = [pc EXCEPT ![t] = "idle"] /\ req' = [req EXCEPT ![t] = NoRequest]
      /\ UNCHANGED <<proc, mem, dirV2, pending, legacy, signed>>
  BY DEF WriteRename
<1>2. /\ proc = "up" /\ lock = t /\ dirV2 /\ r \in Requests
      /\ mem[r.chain][Slot(r)] = NewWatermark(r)
  BY <1>1 DEF Serving, Writing
<1>3. r.chain \in Chains /\ Slot(r) \in Keys \X Kinds
  BY <1>2, SlotType
<1>4. mem \in MarkMap /\ disk \in MarkMap /\ MapNotBehind(mem, disk)
  BY <1>2 DEF TypeOK, Current
<1>5. /\ disk' \in MarkMap /\ HonestMap(disk') /\ MapNotBehind(mem, disk')
      /\ MapNotBehind(disk', disk)
  BY <1>1, <1>3, <1>4, WriteChain
<1>6. disk'[r.chain][Slot(r)] = NewWatermark(r)
  BY <1>1, <1>2, <1>3, <1>4 DEF MarkMap
<1>7. TypeOK'
  BY <1>1, <1>2, <1>5, FileAssumption DEF TypeOK
<1>8. HonestMap(mem)' /\ HonestMap(disk)' /\ NoDirNoFiles' /\ Current'
  BY <1>1, <1>2, <1>5 DEF HonestMap, NoDirNoFiles, Current, MapNotBehind
<1>9. Serving'
  <2>1. \A u \in Threads \ {t} :
          pc'[u] = pc[u] /\ req'[u] = req[u] /\ pc[u] \notin {"checked", "writing"}
    BY <1>1, <1>2 DEF TypeOK, Serving, Writing
  <2>2. \/ pc'[t] = "safe" /\ req'[t] = r
        \/ pc'[t] = "idle"
    BY <1>1 DEF TypeOK
  <2>. QED
    BY <1>1, <1>2, <2>1, <2>2 DEF Serving, Writing
<1>10. GrantsOnDisk'
  <2>1. \A g \in granted : Covers(disk'[g.chain][Slot(g)], g)
    BY <1>4, <1>5, StillCovered DEF GrantsOnDisk, TypeOK
  <2>2. Covers(disk'[r.chain][Slot(r)], r)
    BY <1>2, <1>6, NewWatermarkHonest DEF Covers
  <2>. QED
    BY <1>1, <2>1, <2>2 DEF GrantsOnDisk
<1>11. ASSUME NEW g \in granted, SameSlot(g, r) PROVE g = r \/ SupersededBy(g, r)
  <2>1. g \in Requests /\ Covers(disk'[g.chain][Slot(g)], g)
    BY <1>4, <1>5, StillCovered DEF GrantsOnDisk, TypeOK
  <2>2. Covers(NewWatermark(r), g)
    BY <1>6, <1>11, <2>1 DEF SameSlot
  <2>. QED
    BY <1>2, <1>11, <2>1, <2>2, CoveredIsSameOrOlder
<1>. QED
  BY <1>2, <1>7, <1>8, <1>9, <1>10, <1>11

\* The remaining steps of a handler.
LEMMA OtherIInv ==
    ASSUME IInv, NEW t \in Threads, WriteMkdir(t) \/ WriteFail(t) \/ VaultSign(t)
    PROVE  IInv'
<1> USE DEF IInv
<1>1. CASE WriteMkdir(t)
  BY <1>1 DEF WriteMkdir, TypeOK, HonestMap, NoDirNoFiles, Current, MapNotBehind,
              Serving, Writing, GrantsOnDisk
<1>2. CASE WriteFail(t)
  <2>1. /\ pc[t] \in {"checked", "writing"} /\ lock' = NoThread
        /\ faults' \in 0..MaxFaults
        /\ pc' = [pc EXCEPT ![t] = "idle"] /\ req' = [req EXCEPT ![t] = NoRequest]
        /\ UNCHANGED <<proc, mem, dirV2, disk, pending, legacy, granted, signed>>
    BY <1>2, FileAssumption DEF WriteFail, TypeOK
  <2>2. \A u \in Threads \ {t} :
          pc'[u] = pc[u] /\ req'[u] = req[u] /\ pc[u] \notin {"checked", "writing"}
    BY <2>1 DEF TypeOK, Serving, Writing
  <2>3. Serving'
    BY <2>1, <2>2 DEF Serving, Writing, TypeOK
  <2>4. TypeOK'
    BY <2>1 DEF TypeOK
  <2>. QED
    BY <2>1, <2>3, <2>4 DEF HonestMap, NoDirNoFiles, Current, MapNotBehind, GrantsOnDisk
<1>3. CASE VaultSign(t)
  <2>1. /\ pc[t] = "safe" /\ req[t] \in granted
        /\ signed' \in {signed, signed \cup {req[t]}}
        /\ pc' = [pc EXCEPT ![t] = "idle"] /\ req' = [req EXCEPT ![t] = NoRequest]
        /\ UNCHANGED <<proc, mem, lock, dirV2, disk, pending, legacy, faults, granted>>
    BY <1>3 DEF VaultSign, Serving
  <2>2. \A u \in Threads \ {t} : pc'[u] = pc[u] /\ req'[u] = req[u]
    BY <2>1 DEF TypeOK
  <2>3. Serving'
    BY <2>1, <2>2 DEF Serving, Writing, TypeOK
  <2>4. TypeOK'
    BY <2>1 DEF TypeOK
  <2>. QED
    BY <2>1, <2>3, <2>4 DEF HonestMap, NoDirNoFiles, Current, MapNotBehind, GrantsOnDisk
<1>. QED
  BY <1>1, <1>2, <1>3

\* Every step preserves the invariant.
LEMMA NextIInv ==
    ASSUME NonNegative, LegacyHonest, IInv, [Next]_vars PROVE IInv'
<1>1. CASE Start
  BY <1>1, StartIInv
<1>2. CASE MigrateMkdir \/ \E c \in Chains : MigrateChain(c)
  BY <1>2, MigrateIInv
<1>3. CASE Crash
  BY <1>3, CrashIInv
<1>4. ASSUME NEW t \in Threads, Handle(t) PROVE IInv'
  BY <1>4, CheckIInv, RenameIInv, OtherIInv DEF Handle
<1>5. CASE UNCHANGED vars
  BY <1>5 DEF vars, IInv, TypeOK, HonestMap, NoDirNoFiles, Current, MapNotBehind,
              Serving, Writing, GrantsOnDisk, Nothing, NoMarks
<1>. QED
  BY <1>1, <1>2, <1>3, <1>4, <1>5 DEF Next

-----------------------------------------------------------------------------
(* Every step keeps what an upgrade carried over. *)

\* The migrated map covers everything the older program signed.
LEMMA MigrationCovers ==
    ASSUME UpgradeReadable, legacy \in Legacies, NEW q \in legacy.signed
    PROVE  /\ legacy.v1 # NoLegacy => Covers(tryV1[q.chain][Slot(q)], q)
           /\ legacy.v1 = NoLegacy =>
                 legacy.v0 # NoLegacy /\ Covers(tryV0[q.chain][Slot(q)], q)
<1>1. q \in Requests
  BY FileAssumption
<1>2. q.chain \in Chains /\ Slot(q) \in Keys \X Kinds
  BY <1>1, SlotType
<1>3. Slot(q)[1] = q.pkh /\ Slot(q)[2] = q.kind
  BY DEF Slot
<1>4. ASSUME legacy.v1 # NoLegacy PROVE Covers(tryV1[q.chain][Slot(q)], q)
  <2> DEFINE m == legacy.v1[q.chain][q.pkh]
  <2>1. /\ m # NoMark /\ V1Request(m.order) = q.kind
        /\ Covers([level |-> m.level, round |-> m.round, hash |-> m.hash], q)
    BY <1>4 DEF UpgradeReadable
  <2>2. tryV1[q.chain][Slot(q)]
          = IF m # NoMark /\ V1Request(m.order) = q.kind
            THEN [level |-> m.level, round |-> m.round, hash |-> m.hash] ELSE NoMark
    BY <1>2, <1>3 DEF tryV1
  <2> HIDE DEF m
  <2>. QED
    BY <2>1, <2>2
<1>5. ASSUME legacy.v1 = NoLegacy
      PROVE  legacy.v0 # NoLegacy /\ Covers(tryV0[q.chain][Slot(q)], q)
  <2>1. /\ legacy.v0 # NoLegacy /\ q.kind \in OldKinds
        /\ Covers(legacy.v0[q.chain][<<q.kind, q.pkh>>], q)
    BY <1>5 DEF UpgradeReadable
  <2>2. tryV0[q.chain][Slot(q)] = legacy.v0[q.chain][<<q.kind, q.pkh>>]
    BY <1>2, <1>3, <2>1 DEF tryV0
  <2>. QED
    BY <2>1, <2>2
<1>. QED
  BY <1>4, <1>5

\* A request about to be granted does not conflict with what was signed
\* before: memory covers both.
LEMMA WriterIsClear ==
    ASSUME IInv, Carried, faults = 0, NEW t \in Threads, pc[t] = "writing",
           NEW q \in legacy.signed
    PROVE  ~Conflict(req[t], q)
<1>1. /\ req[t] \in Requests /\ proc = "up"
      /\ mem[req[t].chain][Slot(req[t])] = NewWatermark(req[t])
  BY DEF IInv, Serving, Writing
<1>2. q \in Requests /\ Covers(mem[q.chain][Slot(q)], q)
  BY <1>1, FileAssumption DEF Carried, IInv, TypeOK
<1>3. SameSlot(q, req[t]) => Covers(NewWatermark(req[t]), q)
  BY <1>1, <1>2 DEF SameSlot
<1>4. SameSlot(q, req[t]) => q = req[t] \/ SupersededBy(q, req[t])
  BY <1>1, <1>2, <1>3, CoveredIsSameOrOlder
<1>. QED
  BY <1>1, <1>2, <1>4, NewerIsNoConflict

\* Every step keeps it.
LEMMA NextCarried ==
    ASSUME NonNegative, UpgradeReadable, IInv, Carried, [Next]_vars
    PROVE  Carried'
<1> SUFFICES ASSUME faults' = 0 PROVE Carried'
  BY DEF Carried
<1>0. legacy \in Legacies /\ faults \in Nat /\ mem \in MarkMap
  BY FileAssumption DEF IInv, TypeOK
<1>1. CASE Start
  <2>1. /\ proc = "down" /\ UNCHANGED <<dirV2, legacy, faults, granted>>
        /\ ~dirV2 /\ faults = 0
    BY <1>1 DEF Start, Carried
  <2>2. \A q \in legacy.signed : Covers(mem'[q.chain][Slot(q)], q)
    BY <1>0, <1>1, <2>1, MigrationCovers DEF Start, Migrate
  <2>3. proc' # "down"
    BY <1>1 DEF Start, Migrate
  <2>. QED
    BY <2>1, <2>2, <2>3 DEF Carried
<1>2. CASE MigrateMkdir \/ \E c \in Chains : MigrateChain(c)
  <2>1. /\ proc # "down" /\ proc' # "down"
        /\ UNCHANGED <<mem, legacy, faults, granted>>
    BY <1>2 DEF MigrateMkdir, MigrateChain
  <2>. QED
    BY <2>1 DEF Carried
<1>3. CASE Crash
  BY <1>0, <1>3 DEF Crash, Exit
<1>4. ASSUME NEW t \in Threads, NEW r \in Requests, Check(t, r) PROVE Carried'
  <2>1. /\ proc = "up" /\ SafeAgainst(mem[r.chain][Slot(r)], r)
        /\ mem' = Advance(mem, r) /\ UNCHANGED <<proc, legacy, faults, granted>>
    BY <1>4 DEF Check
  <2>2. mem' \in MarkMap /\ MapNotBehind(mem', mem)
    BY <1>0, <2>1, AdvanceType DEF IInv
  <2>3. \A q \in legacy.signed : Covers(mem'[q.chain][Slot(q)], q)
    BY <1>0, <2>1, <2>2, StillCovered, FileAssumption DEF Carried
  <2>. QED
    BY <2>1, <2>3 DEF Carried
<1>5. ASSUME NEW t \in Threads, WriteRename(t) PROVE Carried'
  <2>1. /\ pc[t] = "writing" /\ UNCHANGED <<proc, mem, dirV2, legacy>>
        /\ granted' = granted \cup {req[t]} /\ faults = 0
    BY <1>0, <1>5 DEF WriteRename
  <2>2. proc = "up"
    BY <2>1 DEF IInv, Serving
  <2>3. \A q \in legacy.signed : ~Conflict(req[t], q)
    BY <2>1, WriterIsClear
  <2>. QED
    BY <2>1, <2>2, <2>3 DEF Carried
<1>6. ASSUME NEW t \in Threads, WriteMkdir(t) \/ WriteFail(t) \/ VaultSign(t)
      PROVE  Carried'
  <2>1. pc[t] # "idle" /\ UNCHANGED <<proc, mem, legacy, granted>> /\ faults = 0
    BY <1>0, <1>6 DEF WriteMkdir, WriteFail, VaultSign
  <2>2. proc = "up"
    BY <2>1 DEF IInv, Serving
  <2>. QED
    BY <2>1, <2>2 DEF Carried
<1>7. CASE UNCHANGED vars
  BY <1>7 DEF vars, Carried
<1>. QED
  BY <1>1, <1>2, <1>3, <1>4, <1>5, <1>6, <1>7 DEF Next, Handle

-----------------------------------------------------------------------------
\* The inductive invariant holds in every instance of the file backend.
LEMMA InvariantHolds ==
    ASSUME NonNegative, LegacyHonest
    PROVE  Spec => []IInv
<1>1. Init => IInv
  BY InitIInv
<1>2. IInv /\ [Next]_vars => IInv'
  BY NextIInv
<1>. QED
  BY <1>1, <1>2, PTL DEF Spec

\* Type correctness and GrantsOnDisk: what File.IsSafeToSign has let through
\* is covered by the chain's file for ever after.
THEOREM FileKeepsGrants ==
    ASSUME NonNegative, LegacyHonest
    PROVE  Spec => [](TypeOK /\ GrantsOnDisk)
<1>1. IInv => TypeOK /\ GrantsOnDisk
  BY DEF IInv
<1>. QED
  BY InvariantHolds, <1>1, PTL

\* While requests are served the map in memory, the only one IsSafeToSign
\* reads, never trails the files, in every interleaving of writes, failed
\* writes and restarts.
THEOREM MemoryLeadsFiles ==
    ASSUME NonNegative, LegacyHonest
    PROVE  Spec => []MemNotBehindDisk
<1>1. IInv => MemNotBehindDisk
  BY DEF IInv, Current, MapNotBehind, MemNotBehindDisk
<1>. QED
  BY InvariantHolds, <1>1, PTL

\* Until the first kill or failed write, an upgrade from either older layout
\* (migration.go) re-signs nothing the older program had signed, provided its
\* directory has a mark for each of those under a name that is still in use.
THEOREM UpgradeIsSafe ==
    ASSUME NonNegative, LegacyHonest, UpgradeReadable
    PROVE  Spec => []UpgradeKeeps
<1>1. Init => Carried
  BY DEF Init, Carried
<1>2. IInv /\ Carried /\ [Next]_vars => Carried'
  BY NextCarried
<1>3. IInv /\ Carried => UpgradeKeeps
  BY DEF IInv, TypeOK, Carried, UpgradeKeeps, NoResign
<1>. QED
  BY InvariantHolds, <1>1, <1>2, <1>3, PTL DEF Spec

\* The file backend implements SignOnce: every rename that puts a request's
\* watermark in place is a grant newer than all before it, every signature is
\* of a granted request, and nothing else changes either set.
THEOREM FileRefinesSignOnce ==
    ASSUME NonNegative, LegacyHonest
    PROVE  Spec => RefinesSignOnce
<1>1. Init => Guard!Init
  BY DEF Init, Guard!Init
<1>2. IInv /\ [Next]_vars => [Guard!Next]_(Guard!vars)
  <2> SUFFICES ASSUME IInv, [Next]_vars PROVE [Guard!Next]_(Guard!vars)
    OBVIOUS
  <2>1. ASSUME NEW t \in Threads, WriteRename(t) PROVE [Guard!Next]_(Guard!vars)
    <3>1. /\ req[t] \in Requests
          /\ \A g \in granted : SameSlot(g, req[t]) =>
                                   g = req[t] \/ SupersededBy(g, req[t])
      BY <2>1, RenameIInv
    <3>2. granted' = granted \cup {req[t]} /\ signed' = signed
      BY <2>1 DEF WriteRename
    <3>3. Guard!Grant(req[t])
      BY <3>1, <3>2 DEF Guard!Grant, Guard!SameSlot, Guard!Slot, Guard!SupersededBy,
                        SameSlot, Slot, SupersededBy
    <3>. QED
      BY <3>1, <3>3 DEF Guard!Next
  <2>2. ASSUME NEW t \in Threads, VaultSign(t) PROVE [Guard!Next]_(Guard!vars)
    <3>1. req[t] \in granted /\ req[t] \in Requests /\ granted' = granted
      BY <2>2 DEF VaultSign, IInv, Serving, TypeOK
    <3>2. signed' = signed \/ signed' = signed \cup {req[t]}
      BY <2>2 DEF VaultSign
    <3>. QED
      BY <3>1, <3>2 DEF Guard!Next, Guard!Sign, Guard!vars
  <2>3. CASE UNCHANGED <<granted, signed>>
    BY <2>3 DEF Guard!vars
  <2>4. \/ \E t \in Threads : WriteRename(t) \/ VaultSign(t)
        \/ UNCHANGED <<granted, signed>>
    BY DEF Next, vars, Start, MigrateMkdir, MigrateChain, Crash, Handle, Check,
           WriteMkdir, WriteFail
  <2>. QED
    BY <2>1, <2>2, <2>3, <2>4
<1>. QED
  BY InvariantHolds, <1>1, <1>2, PTL DEF Spec, RefinesSignOnce, Guard!Spec

\* Whatever keeps the promise of SignOnce (IsSafeToSign of every backend,
\* followed by the vault's Sign) never signs two different messages for one
\* chain, key, kind, level and round.
THEOREM SignOnceIsSafe == Guard!Spec => [](Guard!TypeOK /\ Guard!NoDoubleSign)
<1> DEFINE J == Promised(granted, signed)
<1>1. Guard!Init => J
  BY DEF Guard!Init, Promised, Ordered
<1>2. J /\ [Guard!Next]_(Guard!vars) => J'
  <2> SUFFICES ASSUME J, [Guard!Next]_(Guard!vars) PROVE J'
    OBVIOUS
  <2>1. \/ \E r \in Requests :
              /\ \A g \in granted : SameSlot(g, r) => g = r \/ SupersededBy(g, r)
              /\ granted' = granted \cup {r} /\ signed' = signed
        \/ \E r \in granted : granted' = granted /\ signed' = signed \cup {r}
        \/ granted' = granted /\ signed' = signed
    BY DEF Guard!Next, Guard!vars, Guard!Grant, Guard!Sign, Guard!SameSlot, Guard!Slot,
       Guard!SupersededBy, SameSlot, Slot, SupersededBy
  <2>. QED
    BY <2>1, PromiseKept
<1>3. J => Guard!NoDoubleSign
  <2>1. ASSUME J, NEW r \in signed, NEW s \in signed
        PROVE  ~Guard!Conflict(r, s)
    BY <2>1, OrderedIsNoConflict DEF Promised, Guard!Conflict, Guard!SameSlot, Guard!Slot,
       Conflict, SameSlot, Slot
  <2>. QED
    BY <2>1 DEF Guard!NoDoubleSign
<1>4. J => Guard!TypeOK
  BY DEF Promised, Guard!TypeOK
<1>. QED
  BY <1>1, <1>2, <1>3, <1>4, PTL DEF Guard!Spec

\* The file backend never signs two different messages for one chain, key, kind,
\* level and round, through migration, failed writes, kills and restarts.
THEOREM FileNeverDoubleSigns ==
    ASSUME NonNegative, LegacyHonest
    PROVE  Spec => []Guard!NoDoubleSign
BY FileRefinesSignOnce, SignOnceIsSafe, PTL DEF RefinesSignOnce
=============================================================================
