------------------------------- MODULE Vaults -------------------------------
(***************************************************************************)
(* The vaults that reach their keys through a service, a token or a file:  *)
(* AWS KMS, Azure Key Vault, Google Cloud KMS, HashiCorp Vault, YubiHSM,   *)
(* PKCS#11 and the memory vault behind the file and mem drivers            *)
(* (pkg/vault/<name>).  Each offers List (an iterator that vault.Collect   *)
(* and Signatory drain), Sign, and some of them Import.                    *)
(*                                                                         *)
(* One operation is under way at a time; meanwhile keys are disabled or    *)
(* enabled at the service, requests fail and contexts end.  A turn of an   *)
(* iterator's loop is one step: it makes at most one request for a key.    *)
(* The service's keys come in pages; for Cloud KMS, whose iterators hide   *)
(* the pages, a page is a crypto key and its entries are the key's         *)
(* versions.                                                               *)
(***************************************************************************)
EXTENDS Integers, Sequences, FiniteSets, SequencesExt

CONSTANTS
    Backends,            \* the vaults looked at
    Keys,                \* the keys there can be
    Imported,            \* the key an import brings
    Layouts,             \* how the service may spread its keys over pages
    RetrySettings,       \* values of max_retries in the configuration
    defaultMaxRetries,
    maxAllowedRetries,
    Unset,               \* no setting; a list that was not read yet
    MaxOps, MaxFaults    \* bounds

AllKeys == Keys \cup {Imported}

\* What Next returns besides keys; Again: the loop goes round.
Again == "again"
ErrDone == "done"
ErrKey == "errkey"
Error == "error"
Panic == "panic"

\* No key is listed in two places.
Distinct(pgs) ==
    \A p, q \in DOMAIN pgs : \A m \in DOMAIN pgs[p], n \in DOMAIN pgs[q] :
        pgs[p][m] = pgs[q][n] => p = q /\ m = n

ASSUME VaultsAssumption ==
    /\ Backends \subseteq {"aws", "azure", "cloudkms", "hashicorp", "yubi", "pkcs11", "memory"}
    /\ Imported \notin Keys
    /\ AllKeys \cap {Again, ErrDone, ErrKey, Error, Panic} = {}
    /\ \A pgs \in Layouts : pgs \in Seq(Seq(Keys)) /\ Distinct(pgs)
    /\ \A n \in RetrySettings : n = Unset \/ n \in Int
    /\ Unset \notin Seq(AllKeys)
    /\ {defaultMaxRetries, maxAllowedRetries, MaxOps, MaxFaults} \subseteq Nat

VARIABLES
    backend,   \* the vault's driver
    pages,     \* the service's keys, page by page
    status,    \* what asking the service for a key gives, see Statuses
    vkeys,     \* PKCS11Vault.keys and memory.Vault.keys
    token,     \* HashiCorp: is the client's token valid?
    retries,   \* Cloud KMS: MaxRetries
    task,      \* "closed", or the operation under way, or "idle"
    it,        \* the iterator
    got,       \* what Collect has collected
    stage,     \* of an import or a signature
    tries,     \* of a signature
    ended,     \* has the operation's context ended?
    answer,    \* what the last operation returned
    steady,    \* history: keys usable ever since the listing began
    partial,   \* history: the listing itself was refused along the way
    hurt,      \* history: the requests of the operation that failed
    acked,     \* history: was the import acknowledged?
    count

vaultVars == <<backend, pages, status, vkeys, token, retries, task, it, got, stage, tries,
               ended, answer, steady, partial, hurt, acked, count>>

\* A key can be used; is refused (disabled, no permission, gone); is not one to
\* sign with; is an RSA key; or the service's answer about it makes no sense.
Statuses == {"usable", "refused", "foreign", "rsa", "broken"}

Listed == UNION {Range(pages[p]) : p \in DOMAIN pages}
Usable == {k \in Listed : status[k] = "usable"}
Flat == FlattenSeq(pages)

\* The entries of s that are in S.
Only(s, S) ==
    LET f[n \in 0..Len(s)] ==
            IF n = 0 THEN <<>>
            ELSE IF s[n] \in S THEN Append(f[n - 1], s[n]) ELSE f[n - 1]
    IN  f[Len(s)]

NoIterator == [page |-> 0, idx |-> 0, open |-> FALSE, list |-> Unset]

\* The versions of a crypto key of Cloud KMS serve its one purpose.
Signing(p) == \A k \in Range(pages[p]) : status[k] # "foreign"
OnePurpose(p) == Signing(p) \/ \A k \in Range(pages[p]) : status[k] = "foreign"

Bump(e, max) == count[e] < max /\ count' = [count EXCEPT ![e] = @ + 1]

VaultsInit ==
    /\ backend \in Backends
    /\ pages \in Layouts
    /\ status \in {f \in [AllKeys -> Statuses] :
                    \A k \in AllKeys \ Listed : f[k] = "usable"}
    /\ backend = "cloudkms" => \A p \in DOMAIN pages : OnePurpose(p)
    /\ vkeys = <<>>
    /\ token = FALSE
    /\ retries \in IF backend = "cloudkms" THEN RetrySettings ELSE {Unset}
    /\ task = "closed"
    /\ it = NoIterator
    /\ got = <<>>
    /\ stage = "none"
    /\ tries = 0
    /\ ended = FALSE
    /\ answer = "none"
    /\ steady = {}
    /\ partial = FALSE
    /\ hurt = {}
    /\ acked = FALSE
    /\ count = [e \in {"ops", "faults"} |-> 0]

-----------------------------------------------------------------------------
(* Opening a vault: what its keys are then, or Unset if New fails. *)

\* enumKeys takes the private keys it can pair, initStatic the configured ones,
\* all of them or none.
enumKeys == Only(Flat, Usable)
initStatic == IF \A k \in Listed : status[k] = "usable" THEN Flat ELSE Unset

\* The module, the session and the search for objects may fail as well.
pkcs11New == {initStatic, enumKeys, Unset}

\* The file of the file vault may be unreadable; the entries of either are
\* parsed and decrypted by Unlock, all of them or none.
fileNew == {Flat, Unset}
memNew == {Flat}
memoryUnlock(raw) ==
    IF raw # Unset /\ \A k \in Range(raw) : status[k] = "usable" THEN raw ELSE Unset

\* The others have a client made, or a session; HashiCorp's logs in first.
awsNew == {<<>>, Unset}
azureNew == {<<>>, Unset}
cloudkmsNew == {<<>>, Unset}
hashicorpNew == {<<>>, Unset}
yubiNew == {<<>>, Unset}

New ==
    CASE backend = "aws" -> awsNew
      [] backend = "azure" -> azureNew
      [] backend = "cloudkms" -> cloudkmsNew
      [] backend = "hashicorp" -> hashicorpNew
      [] backend = "yubi" -> yubiNew
      [] backend = "pkcs11" -> pkcs11New
      [] backend = "memory" -> {memoryUnlock(raw) : raw \in fileNew \cup memNew}

Open ==
    /\ task = "closed" /\ answer = "none"
    /\ \E keys \in New :
       \/ keys = Unset /\ answer' = Error /\ UNCHANGED <<task, vkeys>>
       \/ keys # Unset /\ task' = "idle" /\ vkeys' = keys /\ UNCHANGED answer
    /\ token' = (backend = "hashicorp")
    /\ UNCHANGED <<backend, pages, status, retries, it, got, stage, tries, ended, steady,
                   partial, hurt, acked, count>>

-----------------------------------------------------------------------------
(* The iterators: the pairs <<iterator, result>> a turn of Next's loop may end *)
(* in.                                                                         *)

\* The public key k in an answer of status s.  Only elliptic curve and Ed25519
\* keys are known; the error for RSA is not crypt.ErrUnsupportedKeyType.
ParsePKIXPublicKey(k, s) == IF s = "usable" THEN k ELSE Error

awsGetPublicKey(k) ==
    IF status[k] \in {"refused", "foreign"} THEN Again ELSE ParsePKIXPublicKey(k, status[k])

\* The index is not set back when a page has been read.
awsNext(i) ==
    LET turn == i.page = 0 \/ i.idx = Len(pages[i.page])
        page == IF turn THEN i.page + 1 ELSE i.page
    IN  IF turn /\ i.page = Len(pages) /\ i.page > 0 THEN {<<i, ErrDone>>}
        ELSE IF i.idx >= Len(pages[page]) THEN {<<i, Panic>>}
        ELSE {<<[i EXCEPT !.page = page, !.idx = @ + 1],
                awsGetPublicKey(pages[page][i.idx + 1])>>}

\* A JWK is an elliptic curve key, an RSA key, or not understood: there is no
\* third type for which Next has its ErrKey.
azureGetKey(k) ==
    CASE status[k] = "usable" -> k
      [] status[k] = "rsa" -> Again
      [] status[k] \in {"refused", "foreign", "broken"} -> Error

\* Mutant of azureNext: the index is not set back on a new page.
azureNextKeepsIndex(i) == awsNext(i)

\* A page without keys ends the listing.
azureNext(i) ==
    LET turn == i.page = 0 \/ i.idx = Len(pages[i.page])
        page == IF turn THEN i.page + 1 ELSE i.page
        idx == IF turn THEN 1 ELSE i.idx + 1
    IN  IF turn /\ (i.page = Len(pages) \/ pages[page] = <<>>) THEN {<<i, ErrDone>>}
        ELSE {<<[i EXCEPT !.page = page, !.idx = idx], azureGetKey(pages[page][idx])>>}

\* Only the versions of signing keys are listed, and of them the ones whose
\* public key can be read.  An answer that is no PEM leaves a nil block, which
\* getPublicKey does not look for.
cloudkmsGetPublicKey(k) ==
    CASE status[k] = "refused" -> {Again}
      [] status[k] = "broken" -> {ParsePKIXPublicKey(k, status[k]), Panic}
      [] status[k] \in {"usable", "foreign", "rsa"} -> {ParsePKIXPublicKey(k, status[k])}

\* The version iterator is left (Again) when its listing is refused; a refused
\* listing of the keys ends it all.
cloudkmsNext(i) ==
    LET later == {p \in DOMAIN pages : p > i.page /\ Signing(p)}
        next == CHOOSE p \in later : \A q \in later : p <= q
    IN  IF i.open /\ i.idx < Len(pages[i.page])
        THEN {<<[i EXCEPT !.idx = @ + 1], r>> :
                  r \in cloudkmsGetPublicKey(pages[i.page][i.idx + 1])}
        ELSE IF later = {} THEN {<<[i EXCEPT !.open = FALSE], ErrDone>>}
        ELSE {<<[i EXCEPT !.page = next, !.idx = 0, !.open = TRUE], Again>>}

cloudkmsRefused(i) ==
    IF i.open /\ i.idx < Len(pages[i.page]) THEN {<<[i EXCEPT !.open = FALSE], Again>>}
    ELSE {<<i, ErrDone>>}

\* Keys of other types have an error of their own; an answer that is not 32
\* bytes is an error.
hashicorpGetKey(k) ==
    CASE status[k] \in {"usable", "broken"} -> k
      [] status[k] \in {"foreign", "rsa"} -> ErrKey
      [] status[k] = "refused" -> Error

hashicorpGetPublicKey(k) == IF status[k] = "broken" THEN Error ELSE hashicorpGetKey(k)

\* ListKeys leaves out the path of imported keys.  Without a key there may be
\* that path alone, no answer, which is an error, or an empty answer, whose
\* length less one makes no slice.
hashicorpListKeys ==
    IF Flat # <<>> THEN {<<Flat, Again>>}
    ELSE {<<Flat, Again>>, <<Unset, Error>>, <<Unset, Panic>>}

\* The index moves on before the answer about a key is looked at.
hashicorpNext(i) ==
    IF i.list = Unset THEN {<<[i EXCEPT !.list = o[1]], o[2]>> : o \in hashicorpListKeys}
    ELSE IF i.idx = Len(i.list) THEN {<<i, ErrDone>>}
    ELSE {<<[i EXCEPT !.idx = @ + 1], hashicorpGetPublicKey(i.list[i.idx + 1])>>}

yubiParsePublicKey(k) ==
    CASE status[k] = "usable" -> k
      [] status[k] = "rsa" -> Again
      [] status[k] \in {"refused", "broken"} -> Error

listObjects == Only(Flat, {k \in Listed : status[k] # "foreign"})

\* Mutant of yubiNext: the index stays where a key is skipped.
yubiNextStuck(i) ==
    IF i.list = Unset THEN {<<[i EXCEPT !.list = listObjects], Again>>}
    ELSE IF i.idx = Len(i.list) THEN {<<i, ErrDone>>}
    ELSE LET k == i.list[i.idx + 1] IN
         {<<IF status[k] = "rsa" THEN i ELSE [i EXCEPT !.idx = @ + 1],
            yubiParsePublicKey(k)>>}

yubiNext(i) ==
    IF i.list = Unset THEN {<<[i EXCEPT !.list = listObjects], Again>>}
    ELSE IF i.idx = Len(i.list) THEN {<<i, ErrDone>>}
    ELSE LET k == i.list[i.idx + 1] IN
         {<<IF status[k] = "refused" THEN i ELSE [i EXCEPT !.idx = @ + 1],
            yubiParsePublicKey(k)>>}

\* PKCS#11 iterates over the vault's keys, memory over the keys as they were
\* when List was called.
pkcs11Next(i) ==
    IF i.idx >= Len(vkeys) THEN {<<i, ErrDone>>}
    ELSE {<<[i EXCEPT !.idx = @ + 1], vkeys[i.idx + 1]>>}

memoryNext(i) ==
    IF i.idx >= Len(i.list) THEN {<<i, ErrDone>>}
    ELSE {<<[i EXCEPT !.idx = @ + 1], i.list[i.idx + 1]>>}

IteratorNext(i) ==
    CASE backend = "aws" -> awsNext(i)
      [] backend = "azure" -> azureNext(i)
      [] backend = "cloudkms" -> cloudkmsNext(i)
      [] backend = "hashicorp" -> hashicorpNext(i)
      [] backend = "yubi" -> yubiNext(i)
      [] backend = "pkcs11" -> pkcs11Next(i)
      [] backend = "memory" -> memoryNext(i)

-----------------------------------------------------------------------------
(* Listing. *)

Begin(t) ==
    /\ task = "idle"
    /\ Bump("ops", MaxOps)
    /\ task' = t
    /\ answer' = "none"
    /\ hurt' = {}
    /\ ended' = FALSE

Finish(a) == task' = "idle" /\ answer' = a

\* List makes an iterator; the memory vault's holds the keys.
List ==
    /\ Begin("list")
    /\ it' = [NoIterator EXCEPT !.list = IF backend = "memory" THEN vkeys ELSE Unset]
    /\ got' = <<>>
    /\ steady' = IF backend \in {"pkcs11", "memory"} THEN Range(vkeys) ELSE Usable
    /\ partial' = FALSE
    /\ stage' = "none"
    /\ tries' = 0
    /\ UNCHANGED <<backend, pages, status, vkeys, token, retries, acked>>

\* vault.Collect: keys are kept, a key of another type is passed over, any
\* other error discards what was collected.
Collect(r) ==
    \/ r \in AllKeys /\ got' = Append(got, r) /\ UNCHANGED <<task, answer>>
    \/ r \in {Again, ErrKey} /\ UNCHANGED <<got, task, answer>>
    \/ r = ErrDone /\ Finish(ErrDone) /\ UNCHANGED got
    \/ r = Error /\ Finish(Error) /\ got' = <<>>
    \/ r = Panic /\ Finish(Panic) /\ got' = <<>>

ListStep ==
    /\ task = "list"
    /\ \E o \in IteratorNext(it) : it' = o[1] /\ Collect(o[2])
    /\ UNCHANGED <<backend, pages, status, vkeys, token, retries, stage, tries, ended, steady,
                   partial, hurt, acked, count>>

\* A request of the listing fails.
ListFails ==
    /\ task = "list" /\ backend \notin {"pkcs11", "memory"}
    /\ Bump("faults", MaxFaults)
    /\ Collect(Error)
    /\ UNCHANGED <<backend, pages, status, vkeys, token, retries, it, stage, tries, ended,
                   steady, partial, hurt, acked>>

\* A listing request to Cloud KMS is refused.
ListRefused ==
    /\ task = "list" /\ backend = "cloudkms"
    /\ Bump("faults", MaxFaults)
    /\ \E o \in cloudkmsRefused(it) : it' = o[1] /\ Collect(o[2])
    /\ partial' = TRUE
    /\ UNCHANGED <<backend, pages, status, vkeys, token, retries, stage, tries, ended, steady,
                   hurt, acked>>

-----------------------------------------------------------------------------
(* Importing. *)

Importers == {"azure", "cloudkms", "yubi", "memory"}

\* Cloud KMS imports in steps: the crypto key, the job, waiting for the job,
\* and so on; the others in one request.
Import ==
    /\ backend \in Importers /\ Imported \notin Listed /\ ~acked
    /\ Begin("import")
    /\ stage' = IF backend = "cloudkms" THEN "key" ELSE "put"
    /\ UNCHANGED <<backend, pages, status, vkeys, token, retries, it, got, tries, steady,
                   partial, acked>>

AddKey == pages' = Append(pages, <<Imported>>)

azureImport ==
    stage = "put" /\ AddKey /\ Finish("imported") /\ UNCHANGED <<vkeys, stage, status>>
yubiImport ==
    stage = "put" /\ AddKey /\ Finish("imported") /\ UNCHANGED <<vkeys, stage, status>>

memoryImportKey ==
    /\ stage = "put"
    /\ vkeys' = Append(vkeys, Imported)
    /\ Finish("imported")
    /\ UNCHANGED <<pages, stage, status>>

\* The crypto key is made without a version.  When the job has left its pending
\* state the key to wrap with is read, an RSA key, by the ParsePKIXPublicKey
\* above, which does not know RSA: whether the job is active or not, Import ends
\* here, and the rest of it (wrapping, the version, waiting for it) is not reached.
cloudkmsImport ==
    \/ /\ stage = "key"
       /\ pages' = Append(pages, <<>>)
       /\ stage' = "job"
       /\ UNCHANGED <<vkeys, status, task, answer>>
    \/ /\ stage = "job"
       /\ stage' = "pending job"
       /\ UNCHANGED <<pages, vkeys, status, task, answer>>
    \/ /\ stage = "active job"
       /\ Finish(ParsePKIXPublicKey(Imported, "rsa"))
       /\ UNCHANGED <<pages, vkeys, status, stage>>
    \/ /\ stage = "expired job"
       /\ Finish(Error)
       /\ UNCHANGED <<pages, vkeys, status, stage>>

ImportStep ==
    /\ task = "import"
    /\ \/ backend = "azure" /\ azureImport
       \/ backend = "cloudkms" /\ cloudkmsImport
       \/ backend = "yubi" /\ yubiImport
       \/ backend = "memory" /\ memoryImportKey
    /\ acked' = (acked \/ answer' = "imported")
    /\ UNCHANGED <<backend, token, retries, it, got, tries, ended, steady, partial, hurt,
                   count>>

\* The service is done with the job that Import asks for again and again.
JobReady ==
    /\ task = "import" /\ stage = "pending job"
    /\ stage' \in {"active job", "expired job"}
    /\ UNCHANGED <<backend, pages, status, vkeys, token, retries, task, it, got, tries, ended,
                   answer, steady, partial, hurt, acked, count>>

\* A request of the import fails, though the service may have done it.
ImportFails ==
    /\ task = "import" /\ backend # "memory" /\ stage \in {"put", "key", "job", "pending job"}
    /\ Bump("faults", MaxFaults)
    /\ \/ stage = "put" /\ AddKey
       \/ stage = "key" /\ pages' = Append(pages, <<>>)
       \/ UNCHANGED pages
    /\ Finish(Error)
    /\ UNCHANGED <<backend, status, vkeys, token, retries, it, got, stage, tries, ended, steady,
                   partial, hurt, acked>>

-----------------------------------------------------------------------------
(* Signing. *)

getMaxRetries ==
    IF retries # Unset /\ retries >= 0
    THEN IF retries < maxAllowedRetries THEN retries ELSE maxAllowedRetries
    ELSE defaultMaxRetries

\* How the service answers a request to sign: "ok", an error worth another try
\* (DeadlineExceeded, Unavailable, ResourceExhausted), or another one.
isRetryableError(o) == o = "retryable"

\* What Sign does with the answer to its n-th request, from 0 on.
Once(o) == IF o = "ok" THEN "return" ELSE "fail"
awsSign(o, n) == Once(o)
azureSign(o, n) == Once(o)
hashicorpSign(o, n) == Once(o)
yubiSign(o, n) == Once(o)
pkcs11Sign(o, n) == Once(o)
memorySign(o, n) == Once(o)

\* Mutant of cloudkmsSign: one attempt too few.
cloudkmsSignShort(o, n) ==
    IF o = "ok" THEN "return"
    ELSE IF isRetryableError(o) /\ ~ended /\ n + 1 < getMaxRetries THEN "wait"
    ELSE "fail"

cloudkmsSign(o, n) ==
    IF o = "ok" THEN "return"
    ELSE IF isRetryableError(o) /\ ~ended /\ n < getMaxRetries THEN "wait"
    ELSE "fail"

SignWith(o, n) ==
    CASE backend = "aws" -> awsSign(o, n)
      [] backend = "azure" -> azureSign(o, n)
      [] backend = "cloudkms" -> cloudkmsSign(o, n)
      [] backend = "hashicorp" -> hashicorpSign(o, n)
      [] backend = "yubi" -> yubiSign(o, n)
      [] backend = "pkcs11" -> pkcs11Sign(o, n)
      [] backend = "memory" -> memorySign(o, n)

\* The caller has a key reference from a listing or an import.
Sign ==
    /\ got # <<>> \/ acked
    /\ Begin("sign")
    /\ stage' = IF backend = "hashicorp" THEN "login" ELSE "request"
    /\ tries' = 0
    /\ UNCHANGED <<backend, pages, status, vkeys, token, retries, it, got, steady, partial, acked>>

\* Transit() logs in anew before every request.
login ==
    /\ task = "sign" /\ stage = "login"
    /\ token' = TRUE
    /\ stage' = "request"
    /\ UNCHANGED <<backend, pages, status, vkeys, retries, task, it, got, tries, ended, answer,
                   steady, partial, hurt, acked, count>>

\* Its error is dropped: the request is made with the token there is.
LoginFails ==
    /\ task = "sign" /\ stage = "login"
    /\ Bump("faults", MaxFaults)
    /\ stage' = "request"
    /\ hurt' = hurt \cup {"permanent"}
    /\ UNCHANGED <<backend, pages, status, vkeys, token, retries, task, it, got, tries, ended,
                   answer, steady, partial, acked>>

Requested(o) ==
    /\ task = "sign" /\ stage = "request"
    /\ LET then == SignWith(o, tries) IN
       \/ then = "return" /\ Finish("signature") /\ UNCHANGED stage
       \/ then = "fail" /\ Finish("no signature") /\ UNCHANGED stage
       \/ then = "wait" /\ stage' = "backoff" /\ UNCHANGED <<task, answer>>
    /\ UNCHANGED <<backend, pages, status, vkeys, token, retries, it, got, tries, ended, steady,
                   partial, acked>>

SignAnswered ==
    /\ ~ended /\ (backend = "hashicorp" => token)
    /\ Requested("ok")
    /\ UNCHANGED <<hurt, count>>

\* A request without a valid token is refused.
SignRefused ==
    /\ backend = "hashicorp" /\ ~token
    /\ Requested("permanent")
    /\ UNCHANGED <<hurt, count>>

SignFails(o) ==
    /\ IF o = "retryable" /\ backend = "cloudkms" THEN UNCHANGED count
       ELSE Bump("faults", MaxFaults)
    /\ Requested(o)
    /\ hurt' = hurt \cup {o}

\* The wait is over.  If the context has ended too, select may take either.
Backoff ==
    /\ task = "sign" /\ stage = "backoff"
    /\ \/ /\ stage' = "request"
          /\ tries' = tries + 1
          /\ UNCHANGED <<task, answer>>
       \/ ended /\ Finish("no signature") /\ UNCHANGED <<stage, tries>>
    /\ UNCHANGED <<backend, pages, status, vkeys, token, retries, it, got, ended, steady, partial,
                   hurt, acked, count>>

\* The caller's context ends during a signature.
ContextEnds ==
    /\ task = "sign" /\ ~ended
    /\ Bump("faults", MaxFaults)
    /\ ended' = TRUE
    /\ UNCHANGED <<backend, pages, status, vkeys, token, retries, task, it, got, stage, tries,
                   answer, steady, partial, hurt, acked>>

\* With its context ended a request fails, as Canceled or DeadlineExceeded.
SignEnded(o) ==
    /\ ended
    /\ Requested(o)
    /\ UNCHANGED <<hurt, count>>

-----------------------------------------------------------------------------
(* The service. *)

\* A key is disabled or enabled there.
Disable(k) ==
    /\ backend \notin {"pkcs11", "memory"}
    /\ status[k] = "usable"
    /\ Bump("faults", MaxFaults)
    /\ status' = [status EXCEPT ![k] = "refused"]
    /\ steady' = steady \ {k}
    /\ UNCHANGED <<backend, pages, vkeys, token, retries, task, it, got, stage, tries, ended,
                   answer, partial, hurt, acked>>

Enable(k) ==
    /\ backend \notin {"pkcs11", "memory"}
    /\ status[k] = "refused"
    /\ Bump("faults", MaxFaults)
    /\ status' = [status EXCEPT ![k] = "usable"]
    /\ UNCHANGED <<backend, pages, vkeys, token, retries, task, it, got, stage, tries, ended,
                   answer, steady, partial, hurt, acked>>

\* A token's time is up.
ExpireToken ==
    /\ task = "idle" /\ token
    /\ token' = FALSE
    /\ UNCHANGED <<backend, pages, status, vkeys, retries, task, it, got, stage, tries, ended,
                   answer, steady, partial, hurt, acked, count>>

VaultsNext ==
    \/ Open
    \/ List \/ ListStep \/ ListFails \/ ListRefused
    \/ Import \/ ImportStep \/ JobReady \/ ImportFails
    \/ Sign \/ login \/ LoginFails \/ SignAnswered \/ SignRefused \/ Backoff \/ ContextEnds
    \/ \E o \in {"retryable", "permanent"} : SignFails(o) \/ SignEnded(o)
    \/ \E k \in Keys : Disable(k) \/ Enable(k)
    \/ ExpireToken

\* The operation's goroutine runs; the service answers its requests and, in
\* the end, is done with an import job.
VaultsFairness ==
    /\ WF_vaultVars(ListStep)
    /\ WF_vaultVars(ImportStep)
    /\ WF_vaultVars(JobReady)
    /\ WF_vaultVars(login \/ SignAnswered \/ SignRefused \/ Backoff
                 \/ \E o \in {"retryable", "permanent"} : SignFails(o) \/ SignEnded(o))

VaultsSpec == VaultsInit /\ [][VaultsNext]_vaultVars /\ VaultsFairness

-----------------------------------------------------------------------------
\* Listings and iterators are over the keys there are, and the operation under
\* way is one of the vault's.
VaultsTypeOK ==
    /\ backend \in Backends
    /\ pages \in Seq(Seq(AllKeys))
    /\ status \in [AllKeys -> Statuses]
    /\ vkeys \in Seq(AllKeys)
    /\ token \in BOOLEAN
    /\ retries = Unset \/ retries \in Int
    /\ task \in {"closed", "idle", "list", "import", "sign"}
    /\ it \in [page : Nat, idx : Nat, open : BOOLEAN, list : Seq(AllKeys) \cup {Unset}]
    /\ got \in Seq(AllKeys)
    /\ stage \in {"none", "put", "key", "job", "pending job", "active job", "expired job",
                   "login", "request", "backoff"}
    /\ tries \in Nat
    /\ ended \in BOOLEAN
    /\ answer \in {"none", ErrDone, Error, Panic, "imported", "signature", "no signature"}
    /\ steady \subseteq AllKeys
    /\ partial \in BOOLEAN
    /\ hurt \subseteq {"retryable", "permanent"}
    /\ acked \in BOOLEAN
    /\ count \in [{"ops", "faults"} -> Nat]

\* What the service's pages must be like for a listing to be complete: all the
\* keys of AWS in one page, no page of Azure's without keys.
WellPaged ==
    /\ backend = "aws" => Len(pages) = 1 /\ pages[1] # <<>>
    /\ backend = "azure" => \A p \in DOMAIN pages : pages[p] # <<>>

\* Keys that were usable all through a listing are in it, and each once,
\* whatever other keys are there, are disabled or enabled between two requests:
\* the iterators keep their place over pages, versions and keys they skip.  A
\* key behind an imported one is not missed either.  (Excepted: pages as AWS
\* and Azure may send them and the iterators do not expect them, and Cloud KMS
\* listings cut short by a refusal.)
ListingComplete ==
    task = "idle" /\ answer = ErrDone /\ ~partial /\ WellPaged =>
        /\ steady \subseteq Range(got)
        /\ \A i, j \in DOMAIN got : i # j => got[i] # got[j]

\* "List returns a list of keys stored under the backend" (awskms.go): it does
\* for any number of pages, none of them empty.
AWSListsAll ==
    /\ backend = "aws" /\ \A p \in DOMAIN pages : pages[p] # <<>>
    /\ task = "idle" /\ answer \in {ErrDone, Panic}
    => answer = ErrDone /\ steady \subseteq Range(got)

\* Signing fails for a reason only: the caller's context ended, the service
\* gave an answer no retry would change, or, for Cloud KMS, every one of the
\* 1 + max_retries attempts failed.  An expired HashiCorp token is no reason.
FailsForAReason ==
    task = "idle" /\ answer = "no signature" =>
        \/ ended
        \/ "permanent" \in hurt
        \/ "retryable" \in hurt /\ (backend = "cloudkms" => tries = getMaxRetries)

\* Every operation returns: iterators do not run in circles, retries end.
EveryOperationEnds == task \in {"list", "import", "sign"} ~> task = "idle"
=============================================================================
