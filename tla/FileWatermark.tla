--------------------------- MODULE FileWatermark ----------------------------
(***************************************************************************)
(* The file backend (pkg/signatory/watermark/file.go and migration.go):    *)
(* start-up with its migration from the two older layouts, IsSafeToSign    *)
(* under the mutex, and the write of one JSON file per chain.  Request     *)
(* handlers run as goroutines; the process may be killed between any two   *)
(* steps and started again; a write may fail.                              *)
(*                                                                         *)
(* A chain with no file and a chain whose file holds no entry are read     *)
(* back as the same map, so the content of watermark_v2 is one map per     *)
(* chain; only the existence of the directory itself is kept apart, since  *)
(* start-up decides on it.                                                 *)
(***************************************************************************)
EXTENDS Watermarks

CONSTANTS
    Threads,        \* goroutines serving sign requests
    NoThread,
    NoRequest,
    Legacies,       \* the contents of the older directories a start may find
    NoLegacy,       \* a layout whose directory does not exist
    MaxFaults       \* bound on kills and failed writes

\* Kind names of the older program, as the older directories spell them.
OldKinds == {"block", "preendorsement", "endorsement"}

V1Mark == [level : Int32, round : Int32, order : 0..2,
           hash : Digests \cup {NoHash}]

ASSUME FileAssumption ==
    /\ NoThread \notin Threads
    /\ NoRequest \notin Requests
    /\ MaxFaults \in Nat
    /\ \A l \in Legacies :
          /\ l.signed \subseteq Requests
          /\ l.v1 # NoLegacy =>
                l.v1 \in [Chains -> [Keys -> V1Mark \cup {NoMark}]]
          /\ l.v0 # NoLegacy =>
                l.v0 \in [Chains -> [OldKinds \X Keys -> Mark \cup {NoMark}]]

VARIABLES
    proc,      \* "down", "migrating" (inside writeAll) or "up"
    mem,       \* File.mem.chains
    lock,      \* holder of File.mem.mtx
    pc,        \* [Threads -> "idle" | "checked" | "writing" | "safe"]
    req,       \* [Threads -> the request being served]
    dirV2,     \* watermark_v2 exists
    disk,      \* what the files in watermark_v2 hold
    pending,   \* chains writeAll has yet to write
    legacy,    \* watermark_v1 and watermark, and what the older program signed
    faults,    \* kills and failed writes so far
    granted,   \* requests whose watermark reached its file
    signed     \* requests signed by this program

vars == <<proc, mem, lock, pc, req, dirV2, disk, pending, legacy, faults,
          granted, signed>>

Nothing == [c \in Chains |-> NoMarks]

Init ==
    /\ proc = "down"
    /\ mem = Nothing
    /\ lock = NoThread
    /\ pc = [t \in Threads |-> "idle"]
    /\ req = [t \in Threads |-> NoRequest]
    /\ dirV2 = FALSE
    /\ disk = Nothing
    /\ pending = {}
    /\ legacy \in Legacies
    /\ faults = 0
    /\ granted = {}
    /\ signed = {}

-----------------------------------------------------------------------------
(* Migration: what the older directories are turned into. *)

\* Mutant of V1Request: orders counted from one.
V1RequestFromOne(order) ==
    CASE order = 1 -> "block"
      [] order = 2 -> "preendorsement"
      [] OTHER     -> "endorsement"

\* The request name tryV1 files a delegate's only watermark under.
V1Request(order) ==
    CASE order = 0 -> "block"
      [] order = 1 -> "preendorsement"
      [] OTHER     -> "endorsement"

\* tryV1: one watermark per delegate, under the name of its order.  A name
\* that no current request has is kept in the map and never looked up.
tryV1 ==
    [c \in Chains |-> [s \in Keys \X Kinds |->
        LET m == legacy.v1[c][s[1]]
        IN  IF m # NoMark /\ V1Request(m.order) = s[2]
            THEN [level |-> m.level, round |-> m.round, hash |-> m.hash]
            ELSE NoMark]]

\* tryV0: kind -> delegate turned into delegate -> kind, names unchanged.
tryV0 ==
    [c \in Chains |-> [s \in Keys \X Kinds |->
        IF s[2] \in OldKinds THEN legacy.v0[c][<<s[2], s[1]>>] ELSE NoMark]]

\* The chains a directory has a file for: writeAll's range.
V1Chains == {c \in Chains : \E k \in Keys : legacy.v1[c][k] # NoMark}
V0Chains == {c \in Chains : \E s \in OldKinds \X Keys : legacy.v0[c][s] # NoMark}

-----------------------------------------------------------------------------
(* NewFileWatermark. *)

Migrate(m, todo) ==
    /\ mem' = m
    /\ pending' = todo
    /\ proc' = IF todo = {} THEN "up" ELSE "migrating"

\* Mutant of Start: the files of the current layout are not loaded.
StartEmpty ==
    /\ proc = "down"
    /\ Migrate(Nothing, {})
    /\ UNCHANGED <<lock, pc, req, dirV2, disk, legacy, faults, granted, signed>>

\* A directory that cannot be read makes the start fail with nothing changed.
Start ==
    /\ proc = "down"
    /\ \/ /\ dirV2                               \* tryLoad succeeds
          /\ Migrate(disk, {})
       \/ /\ ~dirV2 /\ legacy.v1 # NoLegacy
          /\ Migrate(tryV1, V1Chains)
       \/ /\ ~dirV2 /\ legacy.v1 = NoLegacy /\ legacy.v0 # NoLegacy
          /\ Migrate(tryV0, V0Chains)
       \/ /\ ~dirV2 /\ legacy.v1 = NoLegacy /\ legacy.v0 = NoLegacy
          /\ Migrate(Nothing, {})
    /\ UNCHANGED <<lock, pc, req, dirV2, disk, legacy, faults, granted, signed>>

\* The MkdirAll of writeAll's first write.
MigrateMkdir ==
    /\ proc = "migrating" /\ ~dirV2
    /\ dirV2' = TRUE
    /\ UNCHANGED <<proc, mem, lock, pc, req, disk, pending, legacy, faults,
                   granted, signed>>

\* Mutant of MigrateChain: the loop does not advance.
MigrateChainAgain(c) ==
    /\ proc = "migrating" /\ dirV2
    /\ c \in pending
    /\ disk' = [disk EXCEPT ![c] = mem[c]]
    /\ UNCHANGED <<proc, mem, lock, pc, req, dirV2, pending, legacy, faults,
                   granted, signed>>

\* One turn of writeAll's loop, over a Go map: in any order.
MigrateChain(c) ==
    /\ proc = "migrating" /\ dirV2
    /\ c \in pending
    /\ disk' = [disk EXCEPT ![c] = mem[c]]
    /\ pending' = pending \ {c}
    /\ proc' = IF pending' = {} THEN "up" ELSE "migrating"
    /\ UNCHANGED <<mem, lock, pc, req, dirV2, legacy, faults, granted, signed>>

\* The process is gone with all it had in memory: killed at any point, or
\* out of start-up with the error of a failed write.
Exit ==
    /\ proc' = "down"
    /\ mem' = Nothing
    /\ lock' = NoThread
    /\ pc' = [t \in Threads |-> "idle"]
    /\ req' = [t \in Threads |-> NoRequest]
    /\ pending' = {}
    /\ faults' = faults + 1

Crash ==
    /\ proc # "down" /\ faults < MaxFaults
    /\ Exit
    /\ UNCHANGED <<dirV2, disk, legacy, granted, signed>>

-----------------------------------------------------------------------------
(* IsSafeToSign and the signing that follows it. *)

\* Mutant of Check: the mutex is released before the write.
CheckUnlocked(t, r) ==
    /\ proc = "up" /\ pc[t] = "idle"
    /\ SafeAgainst(mem[r.chain][Slot(r)], r)
    /\ mem' = Advance(mem, r)
    /\ pc' = [pc EXCEPT ![t] = "checked"]
    /\ req' = [req EXCEPT ![t] = r]
    /\ UNCHANGED <<proc, lock, dirV2, disk, pending, legacy, faults, granted, signed>>

\* Lock, isSafeToSignUnlocked.  A rejected request changes nothing.
Check(t, r) ==
    /\ proc = "up" /\ pc[t] = "idle" /\ lock = NoThread
    /\ SafeAgainst(mem[r.chain][Slot(r)], r)
    /\ mem' = Advance(mem, r)
    /\ lock' = t
    /\ pc' = [pc EXCEPT ![t] = "checked"]
    /\ req' = [req EXCEPT ![t] = r]
    /\ UNCHANGED <<proc, dirV2, disk, pending, legacy, faults, granted, signed>>

\* Mutant of WriteMkdir: Mkdir, tried until it succeeds.
WriteMkdirNew(t) ==
    /\ pc[t] = "checked" /\ ~dirV2
    /\ dirV2' = TRUE
    /\ pc' = [pc EXCEPT ![t] = "writing"]
    /\ UNCHANGED <<proc, mem, lock, req, disk, pending, legacy, faults,
                   granted, signed>>

\* write: MkdirAll.
WriteMkdir(t) ==
    /\ pc[t] = "checked"
    /\ dirV2' = TRUE
    /\ pc' = [pc EXCEPT ![t] = "writing"]
    /\ UNCHANGED <<proc, mem, lock, req, disk, pending, legacy, faults,
                   granted, signed>>

\* Mutant of WriteRename: an error drops the entry again, so that the client
\* may repeat its request.
WriteRenameUndo(t) ==
    LET r == req[t] IN
    /\ pc[t] = "writing"
    /\ disk' = [disk EXCEPT ![r.chain] = mem[r.chain]]
    /\ lock' = NoThread
    /\ granted' = granted \cup {r}
    /\ \/ /\ pc' = [pc EXCEPT ![t] = "safe"]
          /\ UNCHANGED <<mem, req, faults>>
       \/ /\ faults < MaxFaults
          /\ faults' = faults + 1
          /\ mem' = [mem EXCEPT ![r.chain][Slot(r)] = NoMark]
          /\ pc' = [pc EXCEPT ![t] = "idle"]
          /\ req' = [req EXCEPT ![t] = NoRequest]
    /\ UNCHANGED <<proc, dirV2, pending, legacy, signed>>

\* WriteRename: the chain's file takes the value of the chain's whole map,
\* atomically.  The mutex is released and the request may be signed, unless
\* closing the temporary file fails: the file is in place all the same.
WriteRename(t) ==
    LET r == req[t] IN
    /\ pc[t] = "writing"
    /\ disk' = [disk EXCEPT ![r.chain] = mem[r.chain]]
    /\ lock' = NoThread
    /\ granted' = granted \cup {r}
    /\ \/ /\ pc' = [pc EXCEPT ![t] = "safe"]
          /\ UNCHANGED <<req, faults>>
       \/ /\ faults < MaxFaults
          /\ faults' = faults + 1
          /\ pc' = [pc EXCEPT ![t] = "idle"]
          /\ req' = [req EXCEPT ![t] = NoRequest]
    /\ UNCHANGED <<proc, mem, dirV2, pending, legacy, signed>>

\* Any earlier failure: the caller gets an error, the map in memory has
\* already moved on, the file has not.
WriteFail(t) ==
    /\ pc[t] \in {"checked", "writing"}
    /\ faults < MaxFaults
    /\ faults' = faults + 1
    /\ lock' = NoThread
    /\ pc' = [pc EXCEPT ![t] = "idle"]
    /\ req' = [req EXCEPT ![t] = NoRequest]
    /\ UNCHANGED <<proc, mem, dirV2, disk, pending, legacy, granted, signed>>

\* Signatory.Sign goes on to the vault without the mutex; the vault may
\* refuse.
VaultSign(t) ==
    /\ pc[t] = "safe"
    /\ signed' \in {signed, signed \cup {req[t]}}
    /\ pc' = [pc EXCEPT ![t] = "idle"]
    /\ req' = [req EXCEPT ![t] = NoRequest]
    /\ UNCHANGED <<proc, mem, lock, dirV2, disk, pending, legacy, faults, granted>>

Handle(t) ==
    \/ \E r \in Requests : Check(t, r)
    \/ WriteMkdir(t)
    \/ WriteRename(t)
    \/ WriteFail(t)
    \/ VaultSign(t)

Next ==
    \/ Start
    \/ MigrateMkdir
    \/ \E c \in Chains : MigrateChain(c)
    \/ Crash
    \/ \E t \in Threads : Handle(t)

\* The Go scheduler runs every goroutine, and start-up runs to its end; a
\* client need not send a request.
Fairness ==
    /\ WF_vars(Start)
    /\ WF_vars(MigrateMkdir)
    /\ \A c \in Chains : WF_vars(MigrateChain(c))
    /\ \A t \in Threads :
          WF_vars(WriteMkdir(t) \/ WriteRename(t) \/ VaultSign(t))

Spec == Init /\ [][Next]_vars /\ Fairness

-----------------------------------------------------------------------------
\* Maps and files hold int32 watermarks, handlers are where the code can be,
\* and every signature follows a write of its watermark.
TypeOK ==
    /\ proc \in {"down", "migrating", "up"}
    /\ mem \in MarkMap
    /\ lock \in Threads \cup {NoThread}
    /\ pc \in [Threads -> {"idle", "checked", "writing", "safe"}]
    /\ req \in [Threads -> Requests \cup {NoRequest}]
    /\ dirV2 \in BOOLEAN
    /\ disk \in MarkMap
    /\ pending \subseteq Chains
    /\ legacy \in Legacies
    /\ faults \in 0..MaxFaults
    /\ granted \subseteq Requests
    /\ signed \subseteq granted

\* File.IsSafeToSign answers only after writeWatermarkData: every request let
\* through stays covered by the chain's file, through every later write,
\* failed write, kill and restart.
GrantsOnDisk == \A g \in granted : Covers(disk[g.chain][Slot(g)], g)

\* While requests are served the map in memory is never behind a file: a
\* request the files would reject is not let through by the map, although
\* IsSafeToSign never reads the files again after start-up.
MemNotBehindDisk ==
    proc = "up" =>
        \A c \in Chains, s \in Keys \X Kinds :
            NotBehind(mem[c][s], disk[c][s])

\* The file backend keeps the promise of SignOnce through migration, failed
\* writes, kills and restarts, for what this program itself grants and signs.
Guard == INSTANCE SignOnce
RefinesSignOnce == Guard!Spec

\* "watermarks ensure that system restarts or errors don't result in
\* re-signing operations that were already signed": also those the program
\* signed before the upgrade that NewFileWatermark migrates.
NoResign == \A r \in signed, l \in legacy.signed : ~Conflict(r, l)

\* ... as long as no fault has come in between: an upgrade that is interrupted
\* does not keep its watermarks.
UpgradeKeeps == faults = 0 => NoResign

\* Every request that took the mutex is answered: nothing in write waits for
\* ever, and a kill ends the handlers with the process.
AllAnswered == \A t \in Threads : pc[t] # "idle" ~> pc[t] = "idle"

\* NewFileWatermark, migration included, ends with the service up.
ComesUp == proc # "up" ~> proc = "up"
=============================================================================
