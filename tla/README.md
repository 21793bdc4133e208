# Signatory in TLA+

Signatory is a remote signer for Tezos: bakers and other clients send it
messages over HTTP, it decides whether it may sign them, and a *vault* (an HSM,
a cloud KMS, an enclave, a Ledger device, a file) makes the signature. What it
must never do is sign two different blocks, preattestations or attestations for
one level and round. This directory models the parts that decide that, checks
them with TLC, and proves the most important results with TLAPS.

## The system

| Component | State it keeps | Operations | Talks to |
|---|---|---|---|
| Watermark records (`pkg/signatory/request`) | level, round, hash | `NewWatermark`, `Validate` | all backends |
| In-memory, file, DynamoDB, Firestore watermarks (`pkg/signatory/watermark`) | last watermark of each chain, key, kind: in a map, in JSON files, in a table, in documents | `IsSafeToSign`; start-up and migration of the file backend | `Signatory.Sign`; AWS, GCP, the file system; other Signatory instances through the shared store |
| Signing policies (`PreparePolicy`, `matchFilter`, ...) | policies, fixed at start-up | preparation, the checks of a request | configuration, `Sign`, `ProvePossession` |
| Signing service (`pkg/signatory`) | vaults, key cache | `Sign`, `ProvePossession`, `ListPublicKeys`, `GetPublicKey`, `Unlock`, `Import`, `Generate`, `Ready` | server, vaults, watermark, policy hook |
| HTTP server (`pkg/server`, `pkg/auth`) | requests in flight | sign, prove, get key, list authorized keys; readiness and metrics | signing service |
| JWT middleware (`pkg/middlewares`) | users, their current and new credentials, timers | login, authentication, exchange of credentials | server |
| Start-up and shutdown (`cmd/commands`) | two servers, a signal, a deadline | root command, `serve` | everything |
| Ledger vault (`pkg/vault/ledger`) | device handle, timer, channel of requests, packets not read yet | list, sign; the worker; commands and packets | USB or TCP device, other processes using it |
| Nitro and Confidential Space vaults | enclave connection, key handles, stored key list | RPC, import, generate, list, sign | enclave, storage, the command line tool |
| Memory, file, cloud and token vaults | key lists, iterators, tokens | list, sign, import, unlock | services, modules |
| Approve-list service (`cmd/approve-list-svc`) | list of addresses | the policy hook's other side | signing service |
| Key wrapping and recovery tool (`pkg/crypto/kwp`) | none | wrap, unwrap | files |
| Metrics, logging, command line tools | counters | | |

The hard behaviours: HTTP requests are served by concurrent goroutines; several
Signatory instances may share one watermark store; the process may be killed
between the check, the store and the signature; calls to the stores may be
executed late, twice or without an answer; vaults may fail half way through a
listing, and their keys change while they are listed; the hook's transport is
not trusted with its replies; the Ledger's worker serves callers who stop
waiting, over packets that other processes receive too; the enclave's protocol
has no request identifiers, so a cancelled call can leave its reply for the
next one; the enclave forgets its keys when it restarts; two processes store
keys in one file; a timer exchanges credentials while requests are
authenticated; one deadline serves the shutdown of two servers. `PROJECT.json`
lists these as hazards, each at its line, with the properties that would notice
it going wrong.

What makes a component correct:

* a watermark backend grants requests in strictly increasing (level, round)
  order for each chain, key and kind, a repetition of the last one excepted
  where the backend allows it, and never forgets a grant;
* a policy decides what the configuration says, and a configuration with names
  the program does not know stops it from starting;
* the service signs only what policy, hook and watermark have let through, asks
  the watermark last, and answers every request, unless the policy service it
  asked does not answer;
* the Ledger worker answers every request once, with what was asked for, and
  keeps one handle;
* an enclave vault returns the signature that was asked for, fails only for a
  reason, and an acknowledged key is in its storage for good;
* the other vaults list every key that can be used, take the keys they are
  given, and sign unless the service will not;
* exchanged credentials are gone, a token is good only for the user and the
  secret whose password earned it, and a shutdown ends and cuts nothing off before its deadline.

## Modules

`Watermarks` holds the data all backends share: requests, marks, `Validate` with
Go's wrapping `int32` subtraction (`Half` stands for 2^31), the maps and their
update, and the vocabulary of the properties (`Conflict`, `Covers`,
`NotBehind`). Requests without a watermark return early from every backend and
are left out. A digest is an injective name of a message.

`SignOnce` is the abstract specification: a set of granted requests, where a new
one is the same as or newer than every earlier one of its slot, and a set of
signed requests among the granted. All backends and the service are shown to
implement it.

`FileWatermark` models `file.go` and `migration.go`. Start-up (`Start`) loads
`watermark_v2` or migrates one of the two older layouts; `MigrateMkdir` and
`MigrateChain` are the steps of `writeAll`. A handler's `IsSafeToSign` is
`Check` (lock, compare, update the map: all of `isSafeToSignUnlocked`, and so
of the in-memory backend), `WriteMkdir`, `WriteRename` (or `WriteFail`), and
then `VaultSign` without the mutex. `Crash` may come between any two steps. The
content of a chain's file and the absence of the file are read back alike, so
files are one map per chain. A renamed file is taken to be durable.

`DynamoWatermark` models `aws.go`: `IsSafeToSign` sends a conditional `PutItem`,
`Execute` is the table, `Resend`, `ExecuteLate` and `GiveUp` are the network, the
SDK's retries and callers who leave. `FirestoreWatermark` models `gcp.go` in the
same world: `Get` (read and compare), `Write` (under its precondition), the retry
loop with `casMaxAttempts`. Handlers of all instances are one set, `Workers`: an
instance that dies is handlers that give up.

`Policy` holds `PreparePolicy` and the checks as pure operators, and next to them
`Permits`, a reading of the configuration itself that knows nothing of prepared
policies. Lists are sets; `Unset` is a nil list, which is not the empty one.
`PolicyDecision` is the little there is of state: `Prepare` is the root command,
which stops at the first entry it cannot prepare, `Decide` is what `Sign` does with
the prepared policies.

`Signatory` composes them: handlers go through `Accept` (authentication, token,
policy look-up, decoding), `getPublicKey`, `listPublicKeys` (one vault at a
step), `Filter`, the hook, `IsSafeToSign`, `VaultSign`. `Unlock` and `Serve` are
start-up; `Import` is another process putting a key into a vault. The watermark
is `SignOnce` itself, plus refusals at will. The keys of one vault are pushed to
the cache in one step: between the pushes of one listing another handler could
at most see fewer of them, as it does when the vault fails.

`LedgerWorker` models `ledger/vault.go`: callers (`Call`, `Send`, `Receive`,
`GiveUp`), the channel, and the worker (`Take`, `KeepDev`, `OpenDev`, `UseDev`,
`UseFails`, `CloseIdle`). The timer has the semantics of Go 1.23 and later, which
`go.mod` selects: `Stop` on a timer that has expired and was not received from
discards the tick and reports true.

`LedgerLink` extends it downwards and replaces the worker's use of the device by
the commands of the Tezos app (one to read a key; the path and then the parts of
the message to sign) and the packets they are cut into over USB, or their
length-prefixed form over TCP. Packets of other processes' replies come to the
same handle. Bytes are numbers and sizes are scaled down.

`Enclave` models the vaults `nitro` and `confidentialspace` with their RPC
clients and the three storages (file, DynamoDB, Firestore; the last two behave
alike and are `table`). A process, the service or the tool, runs one operation at
a time under the vault's mutex: `Start` and `Load` (every stored key is imported
into the enclave), `Sign`, `Prove`, `Import`, `Generate`; the steps of a call
are `Send`, `Receive`, `ConnError` (with its reconnection and second attempt)
and `Cancel`; `Stored` is the storage. `Reboot` is the signer restarting,
`Break` a connection lost, `Stop` a process going away. What the two vaults do
differently (the connection after a cancelled call; importing again a key whose
handle the signer no longer knows) is in operators named after each.

`Vaults` models seven drivers over one service with pages of keys: how each is
opened (`awsNew`, `azureNew`, ...), its iterator's `Next` (one turn of its loop
a step), `Sign` with the retries of Cloud KMS and the second login of HashiCorp
Vault, and `Import`. An import into Cloud KMS ends at the job's public key, which
the program cannot read (see the limits below); what follows in the code
(`cloudkms.go:413-454`) cannot be reached. What the iterators read at once (`Only`, over all pages) is
a recursive function, so that it can be proved about. Keys are disabled and enabled meanwhile, requests fail,
contexts end, tokens expire. `memory` is also the vault behind the file driver;
`fileNew` and `memNew` differ in what they find at the start.

`Service` models `serve.go`, the utility server and `jwt.go`: requests and health
checks in flight, logins in two steps (`LoginHandler` checks the password,
`LoggedIn` signs the token with what is then the secret), `AuthHandler`, `Rotate`
at start-up or from a timer, `Signalled`, the deadline shared by both servers,
`ServerFails` and `Restart`. A credential is its generation; a token is its user, the
generation of the secret it is signed with, and, for the properties only, the
generation of the password it was given for. Users may share secrets.

`RequestSets` and the `MC*` modules build the instances.

## Runs

| Run | Expect | Question |
|---|---|---|
| `file_faults` | pass | Two handlers, two chains, two faults (kills or failed writes), with and without data of either older layout: `GrantsOnDisk`, `MemNotBehindDisk`, `UpgradeKeeps` (after an upgrade without faults nothing signed before can be contradicted), refinement of `SignOnce`, every handler returns and start-up ends. |
| `file_kinds` | violation | The same for an attestation: both migrations keep the kind's old name. |
| `dynamo` | pass | Two instances, four requests over two levels: `GrantsInTable`, `OneSigner`, refinement, every handler returns. |
| `firestore` | pass | As `dynamo`, with two attempts, and `RetriesAreLostRaces`. |
| `policy` | pass | Every small entry, alone or beside a key without options, against every small message and both keys, listed or not: `AsConfigured`, `UnknownNamesRefused`. |
| `signatory` | pass | The whole service: `OnlyPermitted`, `HookConsented`, `NothingBurned`, `KeysWhereCached`, refinement, and `OnlyHookWaits` (a request is answered, or waits for a policy service that has not answered it and keeps no other waiting). |
| `ledger` | pass | `LedgerLink`: two callers, three requests, a channel of one, both transports, one packet for another process: `AnsweredOnce`, `OneHandle`, `OwnReply`, `AnsweredWhileOpen`. |
| `ledger_idle` | violation | The first request after the device was closed by the timer is never answered. |
| `enclave` | pass | A server and a tool, two keys, two operations, two starts and two faults, for both vaults and both kinds of storage: `OwnAnswer`, `SignsUnlessHurt`, `AcknowledgedKept`, every operation ends. One process stores keys here; several at once are the business of the theorem `EnclaveKeepsKeys`. |
| `vaults` | pass | Seven drivers, three keys in six layouts of pages, five retry settings, two operations and one fault: `ListingComplete`, `FailsForAReason`, every operation ends. |
| `aws_pages` | violation | The AWS iterator over more than one page, none of them empty. |
| `service` | pass | Two users with all rotation settings, two clients, a health check, two logins, calls and starts: `ExchangedForGood`, `EarnedByPassword`, `BothUntilExchanged`, `StopsGracefully`, and a shutdown ends. |

Bounds. `Half = 4` makes every difference of two levels in use fit, as 2^31
does for levels of a chain. Two payloads for a round make a conflict possible;
two rounds and two levels make both halves of the order count; two handlers make
a race; the third request of a slot makes an intermediate winner. Two faults
give a fault during the recovery from a fault. Firestore's two attempts (four in
the code) give a lost race, a retry and exhaustion; the proofs hold for any
number. Two vaults sharing a key make the order of listing matter. In `ledger`
a channel of one (ten in the code) fills up with three requests, a message of
four bytes needs two commands of `maxAPDUSize = 2`, and commands and replies need up
to two packets of `chunkSize = 5`. In `enclave` two starts give a restart that loads what was
stored, two operations a call after a cancelled one, two faults a lost connection
in the second attempt. In `vaults` three keys make a skipped one between two
others, over one to three pages, an empty page among them; the retry settings are
unset, zero, one in range, one too large and a negative one. In `service` two
users with one secret make it possible to use another's token, two logins give
one that begins before an exchange and ends after it, two starts make credentials that
must stay exchanged over a restart. Deadlock is checked where the system has no
end of its own; bounded runs (faults, calls, operations) and runs in which
clients may stop asking say so.

Fairness. Goroutines that can run do run; a store answers the call of a caller
still waiting; vaults answer. The policy service need not (nothing in
`callPolicyHook` limits its wait), but an answer it gave arrives. Senders on a Go channel are served in order (strong fairness of
`Send`). The Ledger answers a command, with a refusal perhaps; the enclave's
signer answers, or the connection is found broken; a key management service
answers a request, with an error perhaps, and in the end has
an import job ready. The deadline of a shutdown fires, as do the rotation timers;
handlers may take as long as they like. Clients need not send, nobody need give
up, nothing need fail.

## What the violations show

* `file_kinds`: `tryV1` writes `endorsement` and `preendorsement`, requests ask
  for `attestation` and `preattestation`. `tryV1` also keeps one kind of each
  delegate only; the older layout recorded no more.
* `ledger_idle`: `if !t.Stop() { <-t.C }` after the tick was received in the
  select. Two more things the model shows on the way: `openDev` does not restart
  the timer when the device is open, so `close_after` counts from the opening and
  not from the last use; and a retry that cannot open the device leaves `dev` nil
  with the timer running, so the tick calls `Close` on nil and the process panics
  (`worker = "panicked"`).
* `aws_pages`: `Next` replaces the page and keeps the index. With one key on each
  of three pages, the second page is read with index 1, out of range, and the
  program panics; a longer second page would lose its first key. `ListingComplete`
  therefore looks at AWS listings of one page only (`WellPaged`).

## Limits the properties leave out

A property that names an exception does so because the code has it:

* `UpgradeKeeps` is about upgrades without faults. `writeAll` creates
  `watermark_v2` with its first file, and the next start takes the directory's
  existence for a completed migration: an interrupted one loses the other chains.
* The rename of a watermark file is not followed by a sync; after a loss of power
  the file system may show the file before it. The model has kills, no loss of
  power.
* The kind is part of the slot in every backend, so a round attested with and
  without DAL content is two slots, and both are let through
  (`docs/dal_bls_attestations.md:111` asks for both permissions).
* The watermark moves before the signature is made, whatever the order of the
  steps in `docs/watermarks.md`: after a vault error or a lost answer of a shared
  store the same request is refused by DynamoDB and Firestore (the file and
  memory backends let the identical request through again).
* `Validate` compares through a wrapping difference: with negative levels on one
  side, which no chain has, a lower level can pass.
* `OwnAnswer` excepts connections kept after a cancelled call. Nitro's client
  always keeps its connection; that of Confidential Space gives it up after a
  cancelled first attempt and keeps it after a cancelled second one, though the
  comment at `confidentialspace/rpc/client.go:25-29` speaks of every call.
* `AcknowledgedKept` excepts two tools that have one key file open at once: each
  writes the file from its own list.
* `OwnReply` excepts a handle kept with a reply nobody has read: a packet for
  another process taken for the reply to the reading of a key leaves the real
  reply to the next command.
* `ListingComplete` excepts Cloud KMS listings cut short by a refusal and an
  empty Azure page with a link to the next, which ends the listing. An RSA key
  makes the whole listing fail in Cloud KMS and AWS (the comment at
  `cloudkms.go:265` says "List signing EC keys only"; line 279 returns the error).
* Where an AWS account has no keys, the first page is empty and `Next` reads
  `Keys[0]` of it all the same (`awskms.go:88`): the listing panics instead of
  being empty. `AWSListsAll` and `ListingComplete` leave empty AWS pages out.
* An import into Cloud KMS always fails, and the model has no acknowledged one.
  `Import` parses the public key of its import job with the repository's
  `x509.ParsePKIXPublicKey` (`cloudkms.go:408`), which knows ECDSA and Ed25519 only
  (`cryptoutils/x509/pkcs.go:172-202`), and the job's method makes that key an RSA
  key; `docs/gcp_kms.md:139` shows an import that succeeds. What was made before
  the failure, an empty crypto key, stays behind, and its name cannot be used
  again.
* `OwnAnswer` and the theorem `EnclaveAnswersAreOwn` rest on an assumption about
  the signer of Confidential Space, which is not in the repository: after a
  restart it gives out fresh handles, none that it gave out before (`Reboot`). A
  test double does so (`confidentialspace_test.go:47-50`); the comment at
  `confidentialspace.go:254-256` says only that the table in memory is wiped. If
  handles were numbered from the start again, a handle kept here could stand for
  another key there, and `reimportLocked` (`confidentialspace.go:281-293`) does not
  compare the public key of what it imported.
* A health check that takes long can use up the deadline of the API server's
  shutdown; `StopsGracefully` says what holds before the deadline.

## Proofs

All for arbitrary constants, by induction over steps; no bound of a run plays a
part, except as an arbitrary natural number. The first theorem about each
specification includes its type invariant. `IInv` is the inductive invariant of
each proofs module.

* `WatermarkLemmas`: `ValidateIsOrder` (for non-negative levels and rounds the
  wrapping comparison is the order), what `Advance`, `Covers`, `NotBehind`
  preserve, and `PromiseKept`: when grants come in order and signatures only of
  grants, no two signatures conflict. A grant newer than all before cannot
  conflict with any of them; two grants that conflict would each have to be newer
  than the other.
* `FileWatermarkProofs`: `FileKeepsGrants`, `MemoryLeadsFiles`,
  `FileRefinesSignOnce`, and with `SignOnceIsSafe`, the safety of the abstract
  specification, `FileNeverDoubleSigns`. Hypotheses: `NonNegative` levels and
  rounds, and `LegacyHonest` (a migrated mark with the digest of a request has
  its level and round). `GrantsOnDisk` alone is not inductive: it needs that the
  map is never behind the files while the process is up, that a handler between
  check and write holds the mutex and that its mark is the one in the map, and
  that all marks are honest, since `Validate` lets an equal hash through without
  looking at level and round. `UpgradeIsSafe` also needs `UpgradeReadable`: the
  older directory has a mark, under a kind's name that is still in use, for each
  request the older program had signed. Its strengthening (`Carried`) follows
  that mark from the old files to the map to the new files. The older
  directories of `file_faults` satisfy the three hypotheses; those of `file_kinds`,
  with attestations under their older name, are not `UpgradeReadable`, and that
  run shows what happens then.
* `DynamoWatermarkProofs`: `DynamoOneSigner`, `DynamoKeepsGrants`,
  `DynamoRefinesSignOnce` and `DynamoNeverDoubleSigns`, for any number of
  instances, late and repeated calls. The strengthening says that only what the
  table has accepted is, or will be, signed (`OnlyGranted`), and that a reply is
  on its way only to a caller that waits for it (`Quiet`).
* `FirestoreWatermarkProofs`: `FirestoreKeepsGrants`, `FirestoreOneSigner`,
  `FirestoreRetriesAreLostRaces`, `FirestoreRefinesSignOnce` and
  `FirestoreNeverDoubleSigns`. The strengthening (`Decisions`) says that a write
  whose precondition still holds was decided against the document as it is now:
  versions only grow, and an unchanged version means an unchanged document. The
  same holds of the writes in `late`. `Attempts` says that the read of attempt k
  is at least k writes after the request came in.
* `SignatoryProofs`: about the operators of `Policy`, `PolicyAsConfigured` and
  `UnknownNamesStop` for every configuration and message, and about the decisions
  made by them `DecidesAsConfigured` and `RefusesUnknownNames`, where the run looks
  at a table of sections and requests; about the service, `SignsOnlyPermitted`,
  `HookAlwaysConsents`, `RoundsNotBurned`, `CacheIsRight`,
  `SignatoryRefinesSignOnce` and `ServiceNeverDoubleSigns`. The strengthening
  says for each handler what it has behind it where it stands: admission, policy,
  the watermark (`Progress`); a nonce of its own, and the hook's approval of this
  very call under it (`Consent`); and that it looks only into the service's
  vaults (`Looking`). `Prepares` says that a process that serves has a valid
  policy for every configured key.
* `ServiceProofs`: `ExchangeLasts`, `TokensAreEarned`, `BothGenerationsWork` and
  `StopIsGraceful`. `ExchangedForGood` needs that a user's data are as configured
  or exchanged, nothing in between (`Data`), that timers run only for rotations
  configured for later (`Scheduled`), and that what was ever exchanged would be
  exchanged at once by the next start (`Lasting`). `EarnedByPassword` needs that
  every token there is was given for the password of its secret's generation
  (`Earned`), whenever the exchange came during its login.
* `VaultProofs`, the Ledger vault: `LinkRefinesWorker` (the vault down to the
  packets takes only steps of its worker), and of that composition
  `LedgerAnswersOnce`, `LedgerHoldsOne` and `LedgerOwnReply`. A request that waits
  to be sent, one in the channel and the one the worker has are never the same
  (`Owned`, `InChannel`, `Apart`), and `dev` stands for the one handle there is
  (`Held`). `OwnReply` rests on two things. One is what the code computes: data
  of any length cut up by `writeCommand` are read back by `readCommand` as they
  were (`ReadOwn`), with the packets of another process before them the reply is
  taken for that process's (`ReadBefore`), the parts of a message follow each
  other and only the last ends with it (`UptoIs`, `PartIs`), and a status is taken
  off the reply it was put on (`Parsed`, `Ended`). The other is what is known
  between two commands (`LinkInv`): the app has been told the path and all the
  parts before this one (`AppKnows`), as long as nobody else's reply was taken for
  ours, and a signature is in parts only while it is being made (`InParts`).
* `VaultProofs`, the other vaults: `VaultsListAll` and
  `VaultsSayWhy`, for any keys in any pages, any settings, and any number of
  operations and faults. `ListingComplete` speaks of the end of a listing; what
  holds on the way (`Paging`, `Along`) is that the iterator keeps its place: of
  the entries behind it every steady key has been collected, and of those ahead
  none has, so that none is collected twice. It needs that keys are listed in one
  place only (`Store`), that a key disabled or enabled meanwhile changes no
  entry's place, and that an imported key comes after the iterator's place or
  before the listing (an import and a listing are not under way together).
  `Importing` follows the stages of an import, `SignUnderWay` counts the attempts
  of a signature.
  The module also holds the lemmas both proofs rest on: every set of numbers has a
  least one (`LeastNumber`), so what holds at 0 and from each number to the next
  holds up to N (`UpTo`), and a recursive function is made of its steps
  (`Computed`). With `UpTo` over a *set* of numbers, what `readCommand`, `Only` and
  `FlattenSeq` compute is proved for every input without the library's
  induction rules, which take an operator.
* `EnclaveProofs`: `EnclaveAnswersAreOwn`, `EnclaveRecovers` and
  `EnclaveKeepsKeys`, for both vaults, any number of processes, cancelled calls,
  lost connections and restarts. What holds of a process by itself (`Local`)
  describes its stage (`Life`, `Shape`), which keys its handles stand for
  (`Handles`, `Restorable`, `Imported`) and the replies still in its connection
  (`Stream`, `Lag`). `Lag` is the part that took finding: a connection of
  Confidential Space carries at most one left-over reply, so that a key imported
  again gets its own handle or none. `Storage` says that a tool alone with the
  key file has all of the file in its list. TLC checked this invariant on the
  instance of the `enclave` run before it was proved, as it did `LinkInv` on that of
  `ledger` and `VInv` on that of `vaults`.

Assumptions on constants, which TLC evaluates in the runs: model values for "no
mark", "no call", "no vault" and the like are none of the things they stand in
for (`RequestsAssumption`, `FileAssumption`, `DynamoAssumption`,
`FirestoreAssumption`, `SignatoryAssumption`, `LedgerAssumption`,
`ServiceAssumption`, `EnclaveAssumption`, `NoValueAssumption`, `PoliciesAssumption`,
`VaultsAssumption`); a call's
watermark is of the call's key, kind and chain, as `NewWatermark` makes it, and
the hook's mode is one of the configuration's three (`SignatoryAssumption`); the
older names policies may use are not in the protocol library's lists
(`RenamedAssumption`), requests have the kinds and operations of these lists, and
only generic ones have operations (`QuestionsAssumption`); no key is in two places
of a service's listing (`VaultsAssumption`); sizes are positive, and a part of a
message is at most as long as the length byte of a command can say (230 in the
code, `LinkAssumption`).

Only model-checked: all liveness (`AllAnswered`, `ComesUp`, `OnlyHookWaits`, `AnsweredWhileOpen`,
`EveryCallEnds`, `EveryOperationEnds`, `StopEnds`), which the prover cannot express.
Every invariant and every refinement a passing run checks is also stated by a
theorem.

## Not modelled, and why

* JSON, base58, hex and Tezos encodings are taken to read back what they wrote;
  cryptography is abstract; metrics and logs are read by nothing. The creation of
  the DynamoDB table changes nothing the model keeps.
* Keys never leave a vault in the program, so a stale entry of the service's key
  cache has no promise to break.
* Ledger: the command line's commands (baking set-up, high watermarks), the
  version exchange, BIP32 paths and device names made from mnemonics: one command
  and one reply each, over the link that is modelled.
* Enclave: a frame cut in the middle by a cancellation; the proxy; the encryption
  of keys by KMS.
* Vaults: how YubiHSM and PKCS#11 sessions are configured, and key encodings
  beyond what a listing distinguishes; the rest of Cloud KMS's `Import`
  (`cloudkms.go:413-454`), which is unreachable. The readiness checks of Azure and YubiHSM
  only read.
* Service: tokens expire by their `exp`, which the JWT library checks; the
  strength of passwords and secrets is configuration checking (`valid`).
* The watermark registry, cloud credentials and the approve-list service have no
  state; key wrapping is byte arithmetic around a cipher, which a model would
  only restate; the command line tools parse arguments around operations modelled
  elsewhere.

## Plan

1. `Watermarks`, `SignOnce`, the backends, their proofs: done.
2. `Policy`, `Signatory`, `LedgerWorker`, `LedgerLink`, `Enclave`, `Vaults`,
   `Service`: done.
3. Proofs about all of them: done, but for liveness.
4. Left: what is under "Not modelled", of which the set-up commands of the Ledger
   and the enclave's proxy have steps that can fail half way.
