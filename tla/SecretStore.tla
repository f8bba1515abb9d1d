---------------------------- MODULE SecretStore ----------------------------
(***************************************************************************)
(* Credentials of app_config: a row holds the plaintext or a reference to  *)
(* an external store, which each process resolves for itself through a     *)
(* cache of values and a cached login token; and the migration that moves  *)
(* the plaintext rows to the store.                                        *)
(*                                                                         *)
(* A resolution runs to its end in its process (it blocks it), so it is    *)
(* one step.  The migration is one transaction with a push per row.  A     *)
(* secret is the number of the version an operator gave it; time counts in *)
(* units of the refresh margin.                                            *)
(***************************************************************************)
EXTENDS Integers, FiniteSets

CONSTANTS
  SecretKeys,        \* app_config rows with is_secret
  SecretProcesses,   \* API and worker processes
  SecretBackends,    \* the values of secret.backend to consider
  SecretLeases,      \* lifetimes the store may give a token
  SecretTTL,         \* secret.cache_ttl_seconds
  MaxVersion,        \* bound: versions of a secret
  MaxEpoch,          \* bound: revocations of all tokens
  SecretHorizon,     \* bound: time
  SecretMaxCrashes   \* bound: restarts

ASSUME SecretAssumption ==
  /\ SecretBackends \subseteq {"vault", "ccp", "azurekv", "awssm", "conjur"}
  /\ SecretLeases \subseteq Nat \ {0}
  /\ {SecretTTL, MaxVersion} \subseteq Nat \ {0}
  /\ {MaxEpoch, SecretHorizon, SecretMaxCrashes} \subseteq Nat

VARIABLES
  backend,       \* secret.backend
  row,           \* app_config.value: a version in plaintext, or Reference
  store,         \* the version the external store has, 0 if none
  valueCache,    \* by process and key: {} or {[value, until]}
  token,         \* by process: {} or {[until, dies, epoch, lease]}
  epoch,         \* tokens of earlier epochs are revoked
  migration,     \* the running migrate_to_backend
  answer,        \* the last resolution: [key, value, at], NoSecret when it failed
  intended,      \* the version the operators gave last
  overlapped,    \* rows edited between a migration's read and its commit
  replaced,      \* when a version was last in force or the intended one
  denied,        \* by process: epochs of tokens the store has refused its reads
  secretNow, secretCrashes

secretVars == <<backend, row, store, valueCache, token, epoch, migration, answer,
                intended, overlapped, replaced, denied, secretNow, secretCrashes>>

Reference == 0
NoSecret == 0
Margin == 1
ConjurTTL == 7
ConjurLease == 8
NoMigration == [pc |-> "idle"]
Versions == 1..MaxVersion
Never == SecretHorizon + 1

SecretTypeOK ==
  /\ backend \in SecretBackends
  /\ row \in [SecretKeys -> {Reference} \cup Versions]
  /\ store \in [SecretKeys -> {NoSecret} \cup Versions]
  /\ \A p \in SecretProcesses :
       /\ Cardinality(token[p]) <= 1 /\ denied[p] \subseteq 0..MaxEpoch
       /\ \A k \in SecretKeys : Cardinality(valueCache[p][k]) <= 1
  /\ intended \in [SecretKeys -> Versions]
  /\ epoch \in 0..MaxEpoch /\ secretNow \in 0..SecretHorizon

SecretInit ==
  /\ backend \in SecretBackends
  /\ row = [k \in SecretKeys |-> 1]
  /\ store = [k \in SecretKeys |-> NoSecret]
  /\ valueCache = [p \in SecretProcesses |-> [k \in SecretKeys |-> {}]]
  /\ token = [p \in SecretProcesses |-> {}]
  /\ epoch = 0
  /\ migration = NoMigration
  /\ answer = {}
  /\ intended = [k \in SecretKeys |-> 1]
  /\ overlapped = {}
  /\ replaced = [k \in SecretKeys |-> [v \in Versions |-> Never]]
  /\ denied = [p \in SecretProcesses |-> {}]
  /\ secretNow = 0
  /\ secretCrashes = 0

-----------------------------------------------------------------------------
(* Caches.  An entry is served up to and including its expiry.              *)

CacheGet(p, k) == {e \in valueCache[p][k] : secretNow <= e.until}

CacheSet(p, k, v) ==
  [valueCache EXCEPT ![p][k] = {[value |-> v, until |-> secretNow + SecretTTL]}]

Larger(m, n) == IF m < n THEN n ELSE m

Token(until, lease) ==
  [until |-> until, dies |-> secretNow + lease, epoch |-> epoch, lease |-> lease]

(* What a successful login may cache, by backend: Vault's AppRole and       *)
(* Kubernetes logins and Azure AD keep a token until a margin before its    *)
(* lease ends, but for one margin at least; Conjur for a fixed time; STS    *)
(* credentials to their expiry, compared with the margin when used.  CCP    *)
(* has none.                                                                *)
VaultLogin == {Token(secretNow + Larger(Margin, l - Margin), l) : l \in SecretLeases}
AadLogin == {Token(secretNow + Larger(Margin, l - Margin), l) : l \in SecretLeases}
AwsLogin == {Token(secretNow + l - Margin, l) : l \in SecretLeases}
ConjurLogin == {Token(secretNow + ConjurTTL, ConjurLease)}

Login ==
  CASE backend = "vault" -> VaultLogin
    [] backend = "azurekv" -> AadLogin
    [] backend = "awssm" -> AwsLogin
    [] backend = "conjur" -> ConjurLogin
    [] OTHER -> {}

UsableToken(p) == {t \in token[p] : t.until > secretNow}

(* The tokens a call may go out with: the cached one, else a new one.       *)
CallTokens(p) == IF UsableToken(p) # {} THEN UsableToken(p) ELSE Login

(* The store's side: it refuses a revoked or an expired token.              *)
Accepts(t) == t.epoch = epoch /\ t.dies > secretNow

-----------------------------------------------------------------------------
Untouched == UNCHANGED <<backend, row, store, migration, epoch, intended, overlapped,
                         replaced, secretNow, secretCrashes>>

Answers(k, v) == answer' = {[key |-> k, value |-> v, at |-> secretNow]}

(* A read by token: a refused one fails, and most adapters then forget the  *)
(* token, so that the next call logs in again.                              *)
ReadByToken(p, k, drops) ==
  \E t \in CallTokens(p) :
    IF Accepts(t)
    THEN /\ token' = [token EXCEPT ![p] = {t}]
         /\ Answers(k, store[k])
         /\ valueCache' = IF store[k] = NoSecret THEN valueCache ELSE CacheSet(p, k, store[k])
         /\ UNCHANGED denied
    ELSE /\ token' = [token EXCEPT ![p] = IF drops THEN {} ELSE {t}]
         /\ Answers(k, NoSecret)
         /\ denied' = [denied EXCEPT ![p] = @ \cup {t.epoch}]
         /\ UNCHANGED valueCache

(* The login or the read cannot be reached, or answers something else.      *)
ReadFails(p, k) ==
  /\ \/ UNCHANGED token
     \/ \E t \in CallTokens(p) : token' = [token EXCEPT ![p] = {t}]
  /\ Answers(k, NoSecret)
  /\ UNCHANGED <<valueCache, denied>>

Resolving(p, k, name) ==
  /\ backend = name /\ row[k] = Reference /\ CacheGet(p, k) = {}
  /\ Untouched

ResolveVault(p, k) ==
  Resolving(p, k, "vault") /\ (ReadByToken(p, k, TRUE) \/ ReadFails(p, k))

ResolveCcp(p, k) ==
  /\ Resolving(p, k, "ccp")
  /\ \/ /\ store[k] # NoSecret
        /\ Answers(k, store[k])
        /\ valueCache' = CacheSet(p, k, store[k])
     \/ Answers(k, NoSecret) /\ UNCHANGED valueCache
  /\ UNCHANGED <<token, denied>>

ResolveAzurekv(p, k) ==
  Resolving(p, k, "azurekv") /\ (ReadByToken(p, k, FALSE) \/ ReadFails(p, k))

ResolveAwssm(p, k) ==
  Resolving(p, k, "awssm") /\ (ReadByToken(p, k, TRUE) \/ ReadFails(p, k))

ResolveConjur(p, k) ==
  Resolving(p, k, "conjur") /\ (ReadByToken(p, k, TRUE) \/ ReadFails(p, k))

(* A plaintext row, or a reference the process has in its cache.            *)
ReadSecret(p, k) ==
  /\ \/ row[k] # Reference /\ Answers(k, row[k])
     \/ row[k] = Reference /\ \E e \in CacheGet(p, k) : Answers(k, e.value)
  /\ Untouched /\ UNCHANGED <<valueCache, token, denied>>

(* The connection test clears the values of the process that serves it, and *)
(* for Vault logs in anew.                                                  *)
TestBackend(p) ==
  /\ valueCache' = [valueCache EXCEPT ![p] = [k \in SecretKeys |-> {}]]
  /\ CASE backend = "vault" ->
            \E t \in {{}} \cup {{u} : u \in Login} : token' = [token EXCEPT ![p] = t]
       [] backend = "ccp" -> UNCHANGED token
       [] OTHER -> \/ UNCHANGED token
                   \/ \E t \in CallTokens(p) : token' = [token EXCEPT ![p] = {t}]
  /\ UNCHANGED <<answer, denied>> /\ Untouched

-----------------------------------------------------------------------------
(* Operators.                                                               *)

(* What a resolution comes to when nothing is cached and nothing fails.     *)
Effective(k) == IF row[k] = Reference THEN store[k] ELSE row[k]

(* A new version, in place of the intended one and of the one in force.     *)
Gives(k, v) ==
  /\ intended' = [intended EXCEPT ![k] = v]
  /\ replaced' = [replaced EXCEPT ![k] =
       [w \in Versions |-> IF w \in {intended[k], Effective(k)} THEN secretNow ELSE @[w]]]

Staged == IF migration.pc = "idle" THEN {} ELSE migration.staged

(* Saving the configuration form writes the row, once no migration has it.  *)
EditSecret(k) ==
  /\ intended[k] < MaxVersion /\ k \notin Staged
  /\ row' = [row EXCEPT ![k] = intended[k] + 1]
  /\ Gives(k, intended[k] + 1)
  /\ overlapped' = IF migration.pc = "run" /\ k \in migration.todo
                   THEN overlapped \cup {k} ELSE overlapped \ {k}
  /\ UNCHANGED <<backend, store, valueCache, token, epoch, migration, answer, denied,
                 secretNow, secretCrashes>>

RotateSource(k) ==
  /\ row[k] = Reference /\ intended[k] < MaxVersion
  /\ store' = [store EXCEPT ![k] = intended[k] + 1]
  /\ Gives(k, intended[k] + 1)
  /\ UNCHANGED <<backend, row, valueCache, token, epoch, migration, answer, overlapped,
                 denied, secretNow, secretCrashes>>

RevokeTokens ==
  /\ epoch < MaxEpoch /\ epoch' = epoch + 1
  /\ UNCHANGED <<backend, row, store, valueCache, token, migration, answer, intended,
                 overlapped, replaced, denied, secretNow, secretCrashes>>

SecretTick ==
  /\ secretNow < SecretHorizon /\ secretNow' = secretNow + 1
  /\ UNCHANGED <<backend, row, store, valueCache, token, epoch, migration, answer,
                 intended, overlapped, replaced, denied, secretCrashes>>

SecretRestart(p) ==
  /\ secretCrashes < SecretMaxCrashes /\ secretCrashes' = secretCrashes + 1
  /\ valueCache' = [valueCache EXCEPT ![p] = [k \in SecretKeys |-> {}]]
  /\ token' = [token EXCEPT ![p] = {}]
  /\ denied' = [denied EXCEPT ![p] = {}]
  /\ migration' = IF migration.pc = "run" /\ migration.by = p THEN NoMigration ELSE migration
  /\ UNCHANGED <<backend, row, store, epoch, answer, intended, overlapped, replaced, secretNow>>

-----------------------------------------------------------------------------
(* Migration.  CCP is read-only and refused.                                *)

MigrateRead(p) ==
  /\ migration.pc = "idle" /\ backend # "ccp"
  /\ migration' = [pc |-> "run", by |-> p, values |-> row, staged |-> {},
                   todo |-> {k \in SecretKeys : row[k] # Reference}]
  /\ UNCHANGED <<backend, row, store, valueCache, token, epoch, answer, intended,
                 overlapped, replaced, denied, secretNow, secretCrashes>>

(* A push goes out with a token, too.  One the store takes stages the       *)
(* reference; one that is refused or fails, or whose answer is lost, leaves *)
(* the row as it is, and only Vault's forgets the refused token.            *)
PushTaken(k) ==
  \E t \in CallTokens(migration.by) :
    /\ Accepts(t)
    /\ token' = [token EXCEPT ![migration.by] = {t}]
    /\ store' = [store EXCEPT ![k] = migration.values[k]]
    /\ migration' = [migration EXCEPT !.todo = @ \ {k}, !.staged = @ \cup {k}]
    /\ valueCache' = [valueCache EXCEPT ![migration.by][k] = {}]

(* Mutant of PushFails: the row is rewritten although the push failed.      *)
PushFailsStaged(k) ==
  /\ migration' = [migration EXCEPT !.todo = @ \ {k}, !.staged = @ \cup {k}]
  /\ UNCHANGED <<token, store, valueCache>>

PushFails(k) ==
  /\ \/ UNCHANGED <<token, store>>
     \/ \E t \in CallTokens(migration.by) :
          LET dropped == ~Accepts(t) /\ backend = "vault" IN
          /\ token' = [token EXCEPT ![migration.by] = IF dropped THEN {} ELSE {t}]
          /\ store' \in {store} \cup
               (IF Accepts(t) THEN {[store EXCEPT ![k] = migration.values[k]]} ELSE {})
  /\ migration' = [migration EXCEPT !.todo = @ \ {k}]
  /\ UNCHANGED valueCache

MigratePush(k) ==
  /\ migration.pc = "run" /\ k \in migration.todo
  /\ PushTaken(k) \/ PushFails(k)
  /\ UNCHANGED <<backend, row, epoch, answer, intended, overlapped, replaced, denied,
                 secretNow, secretCrashes>>

MigrateCommit ==
  /\ migration.pc = "run" /\ migration.todo = {}
  /\ row' = [k \in SecretKeys |-> IF k \in migration.staged THEN Reference ELSE row[k]]
  /\ migration' = NoMigration
  /\ UNCHANGED <<backend, store, valueCache, token, epoch, answer, intended, overlapped,
                 replaced, denied, secretNow, secretCrashes>>

-----------------------------------------------------------------------------
SecretNext ==
  \/ \E p \in SecretProcesses, k \in SecretKeys :
       \/ ResolveVault(p, k) \/ ResolveCcp(p, k) \/ ResolveAzurekv(p, k)
       \/ ResolveAwssm(p, k) \/ ResolveConjur(p, k) \/ ReadSecret(p, k)
  \/ \E p \in SecretProcesses : TestBackend(p) \/ SecretRestart(p) \/ MigrateRead(p)
  \/ \E k \in SecretKeys : EditSecret(k) \/ RotateSource(k) \/ MigratePush(k)
  \/ MigrateCommit \/ RevokeTokens \/ SecretTick

SecretSpec == SecretInit /\ [][SecretNext]_secretVars

-----------------------------------------------------------------------------
(* A migration keeps every credential, whatever fails, is repeated or       *)
(* crashes in it: what the row says, or the store under its reference, is   *)
(* what the operators gave last.  The rows excepted are those edited while  *)
(* the migration held an older value of theirs (secrets.migrate_to_backend, *)
(* whose UPDATE looks at nothing but the id).                               *)
SecretSurvives == \A k \in SecretKeys \ overlapped : Effective(k) = intended[k]

(* A resolved credential is the one in force or was so at most one TTL      *)
(* before, in any process and whatever a migration put back (_cache_get; "a *)
(* short TTL keeps rotation latency bounded").                              *)
AnswerIsRecent ==
  \A r \in answer :
    r.value # NoSecret =>
      r.value = Effective(r.key) \/ r.at <= replaced[r.key][r.value] + SecretTTL

(* A process does not go on with a token a read saw refused; Azure's        *)
(* adapter is not among those that take care of it (_vault_invalidate_token,*)
(* _aws_invalidate_creds, the 401 branch of _resolve_conjur).               *)
DeniedIsDropped ==
  backend # "azurekv" =>
    \A p \in SecretProcesses : \A t \in token[p] :
      t.epoch \in denied[p] => t.epoch = epoch

(* No cached token outlives its lease, unless the lease was shorter than    *)
(* the margin (the max(60, ...) of _get_vault_token and _aad_token).        *)
CachedTokenIsLive ==
  \A p \in SecretProcesses : \A t \in token[p] : t.lease >= Margin => t.until <= t.dies

(* Credentials survive, and neither a stale value nor a dead token is used  *)
(* for longer than the caches promise.                                      *)
SecretsKept == SecretSurvives /\ AnswerIsRecent /\ DeniedIsDropped /\ CachedTokenIsLive

=============================================================================
