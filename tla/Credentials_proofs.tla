------------------------- MODULE Credentials_proofs -------------------------
(***************************************************************************)
(* Who gets into the administration, for any accounts, requests, tokens,   *)
(* keys and bounds: the lock of a login (LockIsKept), the deletion of API  *)
(* tokens (OnlyDeadTokensGo), the accounts and grants (AccountsKept) and   *)
(* the secrets resolver (SecretsKept), each as a specification of its own. *)
(***************************************************************************)
EXTENDS MCAdministration, FiniteSetTheorems, TLAPS

(* Counting to one.                                                         *)
LEMMA AtMostOne ==
  ASSUME NEW S, \A s, t \in S : s = t
  PROVE  IsFiniteSet(S) /\ Cardinality(S) <= 1
<1>1. CASE S = {}
  BY <1>1, FS_EmptySet
<1>2. CASE S # {}
  <2>1. PICK s : S = {s}
    BY <1>2
  <2>2. IsFiniteSet({s}) /\ Cardinality({s}) = 1
    BY FS_Singleton
  <2> QED
    BY <2>1, <2>2
<1> QED
  BY <1>1, <1>2

LEMMA Another ==
  ASSUME NEW S, Cardinality(S) > 1, NEW u
  PROVE  \E v \in S : v # u
<1> SUFFICES ASSUME \A v \in S : v = u PROVE FALSE
  OBVIOUS
<1>1. Cardinality(S) <= 1 /\ Cardinality(S) \in Nat
  BY AtMostOne, FS_CardinalityType
<1> QED
  BY <1>1

-----------------------------------------------------------------------------
(* The login.  A request in flight read the account less than a window ago, *)
(* and one that checks a password found no lock in force.                   *)

LoginRequests ==
  {NoLoginRequest} \cup [kind : LoginKinds, failed : Nat, lockedAt : Int, at : Nat]

ReadNoLock(r) ==
  r # NoLoginRequest =>
    /\ r.at <= loginNow /\ r.lockedAt \in {Unlocked} \cup 0..r.at
    /\ Window > 0 => loginNow < r.at + Window
    /\ r.kind \in {"right", "wrong"} => ~IsLocked(r.lockedAt, r.at)

LoginInv ==
  /\ LoginTypeOK
  /\ request \in [Browsers -> LoginRequests]
  /\ \A b \in Browsers : ReadNoLock(request[b])

LEMMA RequestKinds ==
  /\ NoLoginRequest.kind = "none"
  /\ \A r \in LoginRequests : r # NoLoginRequest <=> r.kind \in LoginKinds
BY DEF LoginRequests, NoLoginRequest, LoginKinds

LEMMA LoginInvInit == LoginInit => LoginInv
BY LoginAssumption DEF LoginInit, LoginInv, LoginTypeOK, LoginRequests, ReadNoLock, Unlocked

LEMMA LoginInvNext == LoginInv /\ [LoginNext]_loginVars => LoginInv'
<1> SUFFICES ASSUME LoginInv, [LoginNext]_loginVars PROVE LoginInv'
  OBVIOUS
<1> USE LoginAssumption, RequestKinds DEF LoginInv, LoginTypeOK, Unlocked
<1>1. ASSUME NEW b \in Browsers, NEW kind \in LoginKinds, RequestRead(b, kind)
      PROVE  LoginInv'
  <2> DEFINE r == [kind |-> kind, failed |-> failed, lockedAt |-> lockedAt, at |-> loginNow]
  <2>1. r \in LoginRequests /\ r.kind = kind /\ r.at = loginNow /\ r.lockedAt = lockedAt
    BY DEF LoginRequests
  <2>2. ReadNoLock(r)'
    BY <1>1, <2>1 DEF RequestRead, ReadNoLock, IsLocked
  <2>3. request' = [request EXCEPT ![b] = r]
    BY <1>1 DEF RequestRead
  <2> HIDE DEF r
  <2>4. request' \in [Browsers -> LoginRequests]
    BY <2>1, <2>3
  <2>5. \A c \in Browsers : ReadNoLock(request[c])'
    BY <1>1, <2>2, <2>3 DEF RequestRead, ReadNoLock
  <2> QED
    BY <1>1, <2>4, <2>5 DEF RequestRead
<1>2. ASSUME NEW b \in Browsers,
             RecordSuccess(b) \/ RecordFailure(b) \/ RecordChange(b)
      PROVE  LoginInv'
  <2> DEFINE r == request[b]
  <2>1. r \in LoginRequests /\ r # NoLoginRequest
    BY <1>2 DEF RecordSuccess, RecordFailure, RecordChange
  <2>2. r.at \in 0..loginNow /\ r.failed \in Nat /\ r.lockedAt \in {Unlocked} \cup 0..loginNow
    BY <2>1 DEF LoginRequests, ReadNoLock
  <2>3. loginNow' = loginNow /\ request' = [request EXCEPT ![b] = NoLoginRequest]
    BY <1>2 DEF RecordSuccess, RecordFailure, RecordChange, Ends
  <2>4. \A c \in Browsers : ReadNoLock(request[c])'
    BY <2>3 DEF ReadNoLock
  <2>5. request' \in [Browsers -> LoginRequests]
    BY <2>3 DEF LoginRequests
  <2>6. failed' \in Nat /\ lockedAt' \in {Unlocked} \cup 0..loginNow'
    BY <1>2, <2>2, <2>3 DEF RecordSuccess, RecordFailure, RecordChange, Write
  <2>7. setAt' \in 0..loginNow' /\ signedIn' \in [Browsers -> {"no", "yes", "must_change"}]
    BY <1>2, <2>2, <2>3 DEF RecordSuccess, RecordFailure, RecordChange
  <2> QED
    BY <2>3, <2>4, <2>5, <2>6, <2>7
<1>3. ASSUME NEW b \in Browsers, LeaveSession(b) PROVE LoginInv'
  BY <1>3 DEF LeaveSession, ReadNoLock
<1>4. ASSUME LoginTick PROVE LoginInv'
  <2>1. \A b \in Browsers : ReadNoLock(request[b])'
    BY <1>4 DEF LoginTick, ReadNoLock, LoginRequests
  <2> QED
    BY <1>4, <2>1 DEF LoginTick
<1>5. ASSUME UNCHANGED loginVars PROVE LoginInv'
  BY <1>5 DEF loginVars, ReadNoLock
<1> QED
  BY <1>1, <1>2, <1>3, <1>4, <1>5 DEF LoginNext

(* A lock in force goes only with a new password, or by a request that read *)
(* an older lock and found it over.                                         *)
LEMMA LockStep ==
  ASSUME LoginInv, [LoginNext]_loginVars,
         LockInForce(lockedAt), loginNow' = loginNow, ~LockInForce(lockedAt')
  PROVE  \E b \in Browsers :
           /\ request[b] # NoLoginRequest /\ request'[b] = NoLoginRequest
           /\ \/ request[b].kind \in {"change", "reset"}
              \/ request[b].lockedAt # Unlocked
                 /\ request[b].at >= request[b].lockedAt + Window
<1> USE LoginAssumption, RequestKinds DEF LoginInv, LoginTypeOK, Unlocked, LockInForce
<1>1. PICK b \in Browsers : RecordSuccess(b) \/ RecordFailure(b) \/ RecordChange(b)
  BY DEF LoginNext, RequestRead, LeaveSession, LoginTick, loginVars
<1> DEFINE r == request[b]
<1>2. r \in LoginRequests /\ r # NoLoginRequest /\ request'[b] = NoLoginRequest
  BY <1>1 DEF RecordSuccess, RecordFailure, RecordChange, Ends
<1>3. /\ r.at \in Nat /\ r.lockedAt \in {Unlocked} \cup 0..r.at
      /\ r.at <= loginNow /\ Window > 0 => loginNow < r.at + Window
  BY <1>2 DEF LoginRequests, ReadNoLock
<1>4. CASE r.kind \in {"right", "wrong"}
  <2>1. ~IsLocked(r.lockedAt, r.at)
    BY <1>2, <1>4 DEF ReadNoLock
  <2>2. r.lockedAt # Unlocked
    BY <1>1, <1>3, <1>4 DEF RecordSuccess, RecordFailure, RecordChange, Write
  <2> QED
    BY <1>2, <1>3, <2>1, <2>2 DEF IsLocked
<1>5. CASE r.kind \in {"change", "reset"}
  BY <1>2, <1>5
<1> QED
  BY <1>2, <1>4, <1>5 DEF LoginKinds

(* No interleaving of logins, resets and password changes on one account    *)
(* lifts a lock that is in force, except by a new password or by a login    *)
(* that had read an older, elapsed lock (record_login_success,              *)
(* record_login_failure).                                                   *)
THEOREM LockCorrect == LoginSpec => LockIsKept
<1>1. LoginInv /\ [LoginNext]_loginVars =>
        [LockInForce(lockedAt) /\ loginNow' = loginNow /\ ~LockInForce(lockedAt') =>
           \E b \in Browsers :
             /\ request[b] # NoLoginRequest /\ request'[b] = NoLoginRequest
             /\ \/ request[b].kind \in {"change", "reset"}
                \/ request[b].lockedAt # Unlocked
                   /\ request[b].at >= request[b].lockedAt + Window]_loginVars
  BY LockStep
<1> QED
  BY <1>1, LoginInvInit, LoginInvNext, PTL DEF LoginSpec, LockIsKept

-----------------------------------------------------------------------------
(* API tokens.  What a deletion or a purge has read as dead is dead still;  *)
(* an id that was given out, read or deleted is never minted again.         *)

DeadToken(t) == t.revoked # NoExpiry \/ (t.expires # NoExpiry /\ t.expires < Cutoff)

TokenRows ==
  [role : TokenRoles, revoked : Nat \cup {NoExpiry}, expires : Nat \cup {NoExpiry}]

TokenShape ==
  /\ apiToken \in [TokenIds -> SUBSET TokenRows] /\ deletedRows \in [TokenIds -> Nat]
  /\ \A i \in TokenIds : \A s, t \in apiToken[i] : s = t
  /\ minted \subseteq TokenIds /\ deleting \subseteq minted
  /\ purge = NotRunning \/ purge \subseteq minted
  /\ tokenDay \in 0..TokenLastDay

GivenOutOnce ==
  \A i \in TokenIds :
    /\ apiToken[i] # {} \/ deletedRows[i] > 0 => i \in minted
    /\ deletedRows[i] > 0 => apiToken[i] = {}

ReadAsDead ==
  \A i \in TokenIds : \A t \in apiToken[i] :
    /\ i \in deleting => t.revoked # NoExpiry
    /\ purge # NotRunning /\ i \in purge => DeadToken(t)

TokenInv == TokenShape /\ GivenOutOnce /\ ReadAsDead

LEMMA TokenInvInit == TokenInit => TokenInv
BY TokenAssumption
DEF TokenInit, TokenInv, TokenShape, GivenOutOnce, ReadAsDead, TokenLastDay

LEMMA TokenInvNext == TokenInv /\ [TokenNext]_tokenVars => TokenInv'
<1> SUFFICES ASSUME TokenInv, [TokenNext]_tokenVars PROVE TokenInv'
  OBVIOUS
<1> USE TokenAssumption DEF TokenInv, TokenShape, GivenOutOnce
<1>1. ASSUME NEW i \in TokenIds, NEW c \in {"superadmin", "admin"}, NEW r \in TokenRoles,
             NEW d \in Lifetimes, Mint(i, c, r, d)
      PROVE  TokenInv'
  <2> DEFINE new == [role |-> r, revoked |-> NoExpiry,
                     expires |-> IF d = 0 THEN NoExpiry ELSE tokenDay + d]
  <2>1. new \in TokenRows
    BY DEF TokenRows, NoExpiry, TokenLastDay
  <2>2. apiToken' = [apiToken EXCEPT ![i] = {new}]
    BY <1>1 DEF Mint
  <2>3. i \notin minted /\ minted' = minted \cup {i} /\ deletedRows[i] = 0
    BY <1>1 DEF Mint
  <2> HIDE DEF new
  <2>4. UNCHANGED <<deleting, purge, deletedRows, tokenDay>>
    BY <1>1 DEF Mint
  <2>5. TokenShape'
    BY <2>1, <2>2, <2>3, <2>4 DEF NotRunning
  <2>6. GivenOutOnce'
    BY <2>2, <2>3, <2>4
  <2>7. ReadAsDead'
    BY <2>2, <2>3, <2>4 DEF ReadAsDead, DeadToken, Cutoff
  <2> QED
    BY <2>5, <2>6, <2>7
<1>2. ASSUME NEW i \in TokenIds, RevokeRead(i) PROVE TokenInv'
  BY <1>2 DEF RevokeRead, ReadAsDead, DeadToken, Cutoff
<1>3. ASSUME NEW i \in TokenIds, TokenRevokeCommit(i) PROVE TokenInv'
  <2> DEFINE now == {[t EXCEPT !.revoked = tokenDay] : t \in apiToken[i]}
  <2>1. apiToken' = [apiToken EXCEPT ![i] = now]
    BY <1>3 DEF TokenRevokeCommit
  <2>2. now \in SUBSET TokenRows /\ \A t \in now : t.revoked = tokenDay
    BY DEF TokenRows, TokenLastDay
  <2>3. (now = {} <=> apiToken[i] = {}) /\ \A s, t \in now : s = t
    <3>1. \A t \in apiToken[i] : [t EXCEPT !.revoked = tokenDay] \in now
      OBVIOUS
    <3>2. \A s \in now : \E t \in apiToken[i] : s = [t EXCEPT !.revoked = tokenDay]
      OBVIOUS
    <3>3. \A s, t \in apiToken[i] : s = t
      OBVIOUS
    <3> HIDE DEF now
    <3> QED
      BY <3>1, <3>2, <3>3
  <2>4. tokenDay # NoExpiry
    BY DEF NoExpiry, TokenLastDay
  <2> HIDE DEF now
  <2>5. UNCHANGED <<minted, deleting, purge, deletedRows, tokenDay>>
    BY <1>3 DEF TokenRevokeCommit
  <2>6. TokenShape' /\ GivenOutOnce'
    BY <2>1, <2>2, <2>3, <2>5
  <2>7. ReadAsDead'
    BY <2>1, <2>2, <2>4, <2>5 DEF ReadAsDead, DeadToken, Cutoff
  <2> QED
    BY <2>6, <2>7
<1>4. ASSUME NEW i \in TokenIds, HardDeleteRead(i) PROVE TokenInv'
  <2>1. \A t \in apiToken[i] : t.revoked # NoExpiry
    BY <1>4 DEF HardDeleteRead, MayDelete
  <2>2. TokenShape' /\ GivenOutOnce'
    BY <1>4 DEF HardDeleteRead
  <2>3. ReadAsDead'
    BY <1>4, <2>1 DEF HardDeleteRead, ReadAsDead, DeadToken, Cutoff
  <2> QED
    BY <2>2, <2>3
<1>5. ASSUME NEW i \in TokenIds, HardDeleteCommit(i) PROVE TokenInv'
  BY <1>5 DEF HardDeleteCommit, ReadAsDead, DeadToken, Cutoff
<1>6. ASSUME PurgeRead PROVE TokenInv'
  <2>1. \A i \in purge' : i \in minted /\ \A t \in apiToken[i] : DeadToken(t)
    BY <1>6 DEF PurgeRead, PurgeDue, DeadToken
  <2>2. TokenShape' /\ GivenOutOnce'
    BY <1>6, <2>1 DEF PurgeRead
  <2>3. ReadAsDead'
    BY <1>6, <2>1 DEF PurgeRead, ReadAsDead, DeadToken, Cutoff
  <2> QED
    BY <2>2, <2>3
<1>7. ASSUME PurgeCommit PROVE TokenInv'
  <2>1. TokenShape'
    BY <1>7 DEF PurgeCommit
  <2>2. GivenOutOnce'
    BY <1>7 DEF PurgeCommit
  <2>3. ReadAsDead'
    BY <1>7 DEF PurgeCommit, ReadAsDead
  <2> QED
    BY <2>1, <2>2, <2>3
<1>8. ASSUME PurgeDies PROVE TokenInv'
  BY <1>8 DEF PurgeDies, ReadAsDead
<1>9. ASSUME NextTokenDay PROVE TokenInv'
  <2>1. TokenShape' /\ GivenOutOnce'
    BY <1>9 DEF NextTokenDay, TokenLastDay
  <2>2. \A i \in TokenIds : \A t \in apiToken[i] : DeadToken(t) => DeadToken(t)'
    BY <1>9 DEF NextTokenDay, DeadToken, Cutoff, NoExpiry, TokenRows, TokenLastDay
  <2>3. ReadAsDead'
    BY <1>9, <2>2 DEF NextTokenDay, ReadAsDead
  <2> QED
    BY <2>1, <2>3
<1>10. ASSUME UNCHANGED tokenVars PROVE TokenInv'
  BY <1>10 DEF tokenVars, ReadAsDead, DeadToken, Cutoff
<1>11. ASSUME NEW i \in TokenIds, NEW j \in TokenIds, NEW r \in TokenRoles,
              NEW d \in Lifetimes, MintByToken(i, j, r, d)
       PROVE  TokenInv'
  <2>1. PICK t \in apiToken[j] :
             Mint(i, IF t.role = "unbound" THEN "superadmin" ELSE t.role, r, d)
    BY <1>11 DEF MintByToken
  <2> DEFINE c == IF t.role = "unbound" THEN "superadmin" ELSE t.role
  <2>2. c \in {"superadmin", "admin"}
    BY <2>1 DEF TokenRows, TokenRoles
  <2>3. Mint(i, c, r, d)
    BY <2>1
  <2> HIDE DEF c, TokenInv
  <2> QED
    BY <1>1, <2>2, <2>3, Zenon
<1> QED
  BY <1>1, <1>2, <1>3, <1>4, <1>5, <1>6, <1>7, <1>8, <1>9, <1>10, <1>11 DEF TokenNext

LEMMA TokenStep ==
  ASSUME TokenInv, [TokenNext]_tokenVars, NEW i \in TokenIds, NEW t \in apiToken[i],
         apiToken'[i] = {}
  PROVE  DeadToken(t)
<1> USE DEF TokenInv, TokenShape
<1>1. CASE \E j \in TokenIds : HardDeleteCommit(j)
  BY <1>1 DEF HardDeleteCommit, ReadAsDead, DeadToken
<1>2. CASE PurgeCommit
  BY <1>2 DEF PurgeCommit, ReadAsDead
<1>3. ASSUME NEW j \in TokenIds, NEW c, NEW r, NEW d, Mint(j, c, r, d)
      PROVE  FALSE
  BY <1>3 DEF Mint
<1>4. CASE \E j \in TokenIds : TokenRevokeCommit(j)
  <2>1. PICK j \in TokenIds : TokenRevokeCommit(j)
    BY <1>4
  <2>2. apiToken' = [apiToken EXCEPT ![j] = {[u EXCEPT !.revoked = tokenDay] : u \in @}]
    BY <2>1 DEF TokenRevokeCommit
  <2>3. apiToken'[i] # {}
    <3>1. CASE i = j
      <4> DEFINE now == {[u EXCEPT !.revoked = tokenDay] : u \in apiToken[i]}
      <4>1. apiToken'[i] = now
        BY <2>2, <3>1
      <4>2. \A u \in apiToken[i] : [u EXCEPT !.revoked = tokenDay] \in now
        OBVIOUS
      <4> HIDE DEF now
      <4> QED
        BY <4>1, <4>2
    <3>2. CASE i # j
      BY <2>2, <3>2
    <3> QED
      BY <3>1, <3>2
  <2> QED
    BY <2>3
<1> QED
  BY <1>1, <1>2, <1>3, <1>4
  DEF TokenNext, MintByToken, RevokeRead, HardDeleteRead, PurgeRead, PurgeDies,
      NextTokenDay, tokenVars

(* A deletion by hand and the nightly purge each use what they read         *)
(* earlier; no token that is alive goes by either (hard_delete_token,       *)
(* purge_api_tokens).                                                       *)
THEOREM TokensCorrect == TokenSpec => OnlyDeadTokensGo
<1>1. TokenInv /\ [TokenNext]_tokenVars =>
        [\A i \in TokenIds : \A t \in apiToken[i] :
           apiToken'[i] = {} =>
             t.revoked # NoExpiry \/ (t.expires # NoExpiry /\ t.expires < Cutoff)]_tokenVars
  BY TokenStep DEF DeadToken
<1> QED
  BY <1>1, TokenInvInit, TokenInvNext, PTL DEF TokenSpec, OnlyDeadTokensGo

-----------------------------------------------------------------------------
(* Accounts and grants.                                                     *)

AccountRows == [role : Roles, active : BOOLEAN, firstRun : BOOLEAN]
SetupCalls == [op : {"setup"}]
AccountCalls ==
  [op : {"account"}, user : Admins, role : Roles \cup {"keep", "delete"},
   active : {"keep", "on", "off"}]
GrantCalls ==
  [op : {"grants"}, user : Admins, add : SUBSET TypeIds, remove : SUBSET TypeIds,
   want : SUBSET TypeIds]
AdminCalls == {NoAdminCall} \cup SetupCalls \cup AccountCalls \cup GrantCalls

AdminShape ==
  /\ account \in [Admins -> SUBSET AccountRows]
  /\ \A u \in Admins : \A a, b \in account[u] : a = b
  /\ grant \in [Admins -> SUBSET type]
  /\ cookie \in [Admins -> Roles \cup {NoRole}]
  /\ inFlight \in [Callers -> AdminCalls]
  /\ type \subseteq usedTypes /\ usedTypes \subseteq TypeIds
  /\ author \in [TypeIds -> Admins \cup {NoOne}]
  /\ setUp \in BOOLEAN /\ raced \in BOOLEAN

(* An id that was not given out has no author.                              *)
AuthorsOfTypes == \A t \in TypeIds \ usedTypes : author[t] = NoOne

FirstRunner(u) == \E a \in account[u] : a.firstRun
OneFirstRunner == ~raced => \A u, v \in Admins : FirstRunner(u) /\ FirstRunner(v) => u = v

(* What a call has read still holds, as long as no two overlapped: the      *)
(* account it is about exists, and if the call takes an active superadmin   *)
(* away there is another one.                                               *)
TakesAway(call) == call.role \in {"admin", "delete"} \/ call.active = "off"

StillTrue(call) ==
  /\ call.op = "setup" => \A u \in Admins : ~FirstRunner(u)
  /\ call.op = "account" =>
       /\ Exists(call.user)
       /\ call.user \in ActiveSuperadmins(account) /\ TakesAway(call) =>
            \E v \in ActiveSuperadmins(account) : v # call.user

CallsAreCurrent == ~raced => \A c \in Callers : StillTrue(inFlight[c])

AdminInv ==
  /\ AdminShape /\ AuthorsOfTypes /\ AuthorKeepsSight
  /\ SuperadminRemains /\ OneFirstRunner /\ CallsAreCurrent

LEMMA CallKinds ==
  \A call \in AdminCalls :
    /\ call.op \in {"idle", "setup", "account", "grants"}
    /\ call.op = "setup" => call \in SetupCalls
    /\ call.op = "account" => call \in AccountCalls
    /\ call.op = "grants" => call \in GrantCalls
BY DEF AdminCalls, SetupCalls, AccountCalls, GrantCalls, NoAdminCall

LEMMA AdminInvInit == AdminInit => AdminInv
<1> SUFFICES ASSUME AdminInit PROVE AdminInv
  OBVIOUS
<1> USE AdminAssumption DEF AdminInit
<1>1. AdminShape /\ AuthorsOfTypes
  BY DEF AdminShape, AuthorsOfTypes, AdminCalls
<1>2. AuthorKeepsSight
  BY DEF AuthorKeepsSight
<1>3. SuperadminRemains /\ OneFirstRunner
  BY DEF SuperadminRemains, OneFirstRunner, FirstRunner
<1>4. CallsAreCurrent
  BY DEF CallsAreCurrent, StillTrue, NoAdminCall
<1> QED
  BY <1>1, <1>2, <1>3, <1>4 DEF AdminInv

(* A call that ends next to none has nothing left in flight that reads.     *)
LEMMA EndsAlone ==
  ASSUME AdminShape, NEW c \in Callers, End(c)
  PROVE  /\ inFlight' \in [Callers -> AdminCalls] /\ raced' \in BOOLEAN
         /\ raced => raced'
         /\ CallsAreCurrent'
<1>1. inFlight' \in [Callers -> AdminCalls] /\ raced' \in BOOLEAN /\ (raced => raced')
  BY DEF End, AdminShape, AdminCalls
<1>2. ASSUME ~raced', NEW d \in Callers PROVE inFlight'[d].op \notin {"setup", "account"}
  <2>1. CASE d = c
    BY <2>1 DEF End, AdminShape, NoAdminCall
  <2>2. CASE d # c
    BY <1>2, <2>2 DEF End, AdminShape
  <2> QED
    BY <2>1, <2>2
<1>3. CallsAreCurrent'
  BY <1>2 DEF CallsAreCurrent, StillTrue
<1> QED
  BY <1>1, <1>3

(* A call that begins changes nothing but what is in flight.                *)
LEMMA Begins ==
  ASSUME AdminInv, NEW c \in Callers, NEW call \in AdminCalls, Begin(c, call),
         ~raced => StillTrue(call)
  PROVE  AdminInv'
<1> USE DEF AdminInv
<1>1. UNCHANGED <<account, grant, cookie, type, usedTypes, author, setUp, raced>>
  BY DEF Begin
<1>2. inFlight' = [inFlight EXCEPT ![c] = call]
  BY DEF Begin
<1>3. AdminShape' /\ AuthorsOfTypes'
  BY <1>1, <1>2 DEF AdminShape, AuthorsOfTypes
<1>4. AuthorKeepsSight' /\ SuperadminRemains' /\ OneFirstRunner'
  BY <1>1 DEF AuthorKeepsSight, SuperadminRemains, ActiveSuperadmins, OneFirstRunner, FirstRunner
<1>5. CallsAreCurrent'
  <2> SUFFICES ASSUME ~raced', NEW d \in Callers PROVE StillTrue(inFlight[d])'
    BY DEF CallsAreCurrent
  <2>1. StillTrue(inFlight'[d])
    <3>1. CASE d = c
      BY <1>1, <1>2, <3>1 DEF AdminShape
    <3>2. CASE d # c
      BY <1>1, <1>2, <3>2 DEF AdminShape, CallsAreCurrent
    <3> QED
      BY <3>1, <3>2
  <2>2. StillTrue(inFlight[d])' <=> StillTrue(inFlight'[d])
    BY <1>1 DEF StillTrue, FirstRunner, Exists, ActiveSuperadmins, TakesAway
  <2> QED
    BY <2>1, <2>2
<1> QED
  BY <1>3, <1>4, <1>5

(* The account calls.                                                       *)
LEMMA SetupReadStep ==
  ASSUME AdminInv, NEW u \in Admins, SetupRead(u) PROVE AdminInv'
<1> DEFINE call == [op |-> "setup"]
<1>1. call \in AdminCalls
  BY DEF AdminCalls, SetupCalls
<1>2. StillTrue(call)
  BY DEF SetupRead, TableEmpty, Exists, StillTrue, FirstRunner
<1>3. Begin(u, call) /\ u \in Callers
  BY DEF SetupRead, Callers
<1> HIDE DEF call
<1> QED
  BY <1>1, <1>2, <1>3, Begins

LEMMA SetupCommitStep ==
  ASSUME AdminInv, NEW u \in Admins, SetupCommit(u) PROVE AdminInv'
<1> DEFINE new == [role |-> "superadmin", active |-> TRUE, firstRun |-> TRUE]
<1> USE DEF AdminInv
<1>1. u \in Callers /\ new \in AccountRows
  BY DEF Callers, AccountRows, Roles
<1>2. /\ inFlight' \in [Callers -> AdminCalls] /\ raced' \in BOOLEAN
      /\ (raced => raced') /\ CallsAreCurrent'
  BY <1>1, EndsAlone DEF SetupCommit
<1>3. UNCHANGED <<type, usedTypes, grant, author>>
  BY DEF SetupCommit, End
<1>4. \/ UNCHANGED <<account, cookie, setUp>>
      \/ /\ account[u] = {} /\ account' = [account EXCEPT ![u] = {new}]
         /\ cookie' = [cookie EXCEPT ![u] = "superadmin"] /\ setUp'
  BY DEF SetupCommit, Exists
<1>5. AdminShape'
  <2>1. CASE UNCHANGED <<account, cookie, setUp>>
    BY <1>2, <1>3, <2>1 DEF AdminShape
  <2>2. CASE account' = [account EXCEPT ![u] = {new}] /\ cookie' = [cookie EXCEPT ![u] = "superadmin"]
    <3>1. /\ account' \in [Admins -> SUBSET AccountRows]
          /\ \A v \in Admins : \A a, b \in account'[v] : a = b
      BY <1>1, <2>2 DEF AdminShape
    <3>2. cookie' \in [Admins -> Roles \cup {NoRole}] /\ setUp' \in BOOLEAN
      BY <2>2 DEF AdminShape, Roles, SetupCommit
    <3> QED
      BY <1>2, <1>3, <3>1, <3>2 DEF AdminShape
  <2> QED
    BY <1>4, <2>1, <2>2
<1>6. AuthorsOfTypes' /\ AuthorKeepsSight'
  BY <1>3 DEF AuthorsOfTypes, AuthorKeepsSight
<1>7. SuperadminRemains'
  <2>1. CASE UNCHANGED <<account, cookie, setUp>>
    BY <1>2, <2>1 DEF SuperadminRemains, ActiveSuperadmins, AdminShape
  <2>2. CASE account' = [account EXCEPT ![u] = {new}]
    <3>1. u \in ActiveSuperadmins(account')
      BY <2>2 DEF ActiveSuperadmins, AdminShape
    <3> QED
      BY <3>1 DEF SuperadminRemains
  <2> QED
    BY <1>4, <2>1, <2>2
<1>8. OneFirstRunner'
  <2>1. CASE UNCHANGED <<account, cookie, setUp>>
    BY <1>2, <2>1 DEF OneFirstRunner, FirstRunner, AdminShape
  <2>2. CASE account' = [account EXCEPT ![u] = {new}]
    <3>1. ~raced => \A v \in Admins : ~FirstRunner(v)
      BY <1>1 DEF CallsAreCurrent, StillTrue, SetupCommit
    <3>2. \A v \in Admins : v # u => (FirstRunner(v)' <=> FirstRunner(v))
      BY <2>2 DEF FirstRunner, AdminShape
    <3> QED
      BY <1>2, <3>1, <3>2 DEF OneFirstRunner, AdminShape
  <2> QED
    BY <1>4, <2>1, <2>2
<1> QED
  BY <1>2, <1>5, <1>6, <1>7, <1>8

LEMMA CreateAdminStep ==
  ASSUME AdminInv, NEW c \in Callers, NEW u \in Admins, NEW r \in Roles, CreateAdmin(c, u, r)
  PROVE  AdminInv'
<1> DEFINE new == [role |-> r, active |-> TRUE, firstRun |-> FALSE]
<1> USE DEF AdminInv
<1>1. new \in AccountRows
  BY DEF AccountRows
<1>2. /\ account[u] = {} /\ account' = [account EXCEPT ![u] = {new}]
      /\ setUp' = (setUp \/ r = "superadmin")
  BY DEF CreateAdmin, Exists
<1>3. UNCHANGED <<grant, cookie, inFlight, type, usedTypes, author, raced>>
  BY DEF CreateAdmin
<1>4. AdminShape'
  BY <1>1, <1>2, <1>3 DEF AdminShape
<1>5. AuthorsOfTypes' /\ AuthorKeepsSight'
  BY <1>3 DEF AuthorsOfTypes, AuthorKeepsSight
<1>6. /\ ActiveSuperadmins(account) \subseteq ActiveSuperadmins(account')
      /\ r = "superadmin" => u \in ActiveSuperadmins(account')
      /\ \A v \in Admins : v # u /\ v \in ActiveSuperadmins(account')
                             => v \in ActiveSuperadmins(account)
  BY <1>2 DEF ActiveSuperadmins, AdminShape
<1>7. SuperadminRemains'
  BY <1>2, <1>3, <1>6 DEF SuperadminRemains
<1>8. \A v \in Admins : FirstRunner(v)' => FirstRunner(v)
  BY <1>2 DEF FirstRunner, AdminShape
<1>9. OneFirstRunner'
  BY <1>3, <1>8 DEF OneFirstRunner
<1>10. CallsAreCurrent'
  <2> SUFFICES ASSUME ~raced', NEW d \in Callers PROVE StillTrue(inFlight[d])'
    BY DEF CallsAreCurrent
  <2>1. StillTrue(inFlight[d]) /\ inFlight[d] \in AdminCalls
    BY <1>3 DEF CallsAreCurrent, AdminShape
  <2>2. ASSUME inFlight[d].op = "account"
        PROVE  /\ Exists(inFlight[d].user)'
               /\ (inFlight[d].user \in ActiveSuperadmins(account') /\ TakesAway(inFlight[d]))
                    => \E v \in ActiveSuperadmins(account') : v # inFlight[d].user
    <3>1. inFlight[d].user \in Admins /\ Exists(inFlight[d].user) /\ inFlight[d].user # u
      BY <1>2, <2>1, <2>2, CallKinds DEF StillTrue, Exists, AccountCalls
    <3>2. Exists(inFlight[d].user)'
      BY <1>2, <1>3, <3>1 DEF Exists, AdminShape
    <3> QED
      BY <1>6, <2>1, <2>2, <3>1, <3>2 DEF StillTrue
  <2>3. inFlight[d].op = "setup" => \A v \in Admins : ~FirstRunner(v)'
    BY <1>8, <2>1 DEF StillTrue
  <2> QED
    BY <1>3, <2>2, <2>3 DEF StillTrue, TakesAway
<1> QED
  BY <1>4, <1>5, <1>7, <1>9, <1>10

LEMMA UpdateReadStep ==
  ASSUME AdminInv, NEW c \in Callers, NEW u \in Admins, NEW role \in Roles \cup {"keep"},
         NEW act \in {"keep", "on", "off"}, UpdateRead(c, u, role, act)
  PROVE  AdminInv'
<1> USE DEF AdminInv
<1>1. PICK a \in account[u] :
        LET r == IF role = "keep" THEN a.role ELSE role
            on == IF act = "keep" THEN a.active ELSE act = "on"
            promoted == [account EXCEPT ![u] = {[a EXCEPT !.role = r]}]
        IN /\ r # a.role /\ r # "superadmin" =>
                /\ c # u
                /\ a.role = "superadmin" => OthersRemain(account)
           /\ a.active /\ ~on =>
                /\ c # u
                /\ r = "superadmin" => OthersRemain(promoted)
           /\ Begin(c, [op |-> "account", user |-> u,
                        role |-> IF r = a.role THEN "keep" ELSE r,
                        active |-> IF on = a.active THEN "keep" ELSE act])
  BY DEF UpdateRead
<1> DEFINE r == IF role = "keep" THEN a.role ELSE role
           on == IF act = "keep" THEN a.active ELSE act = "on"
           promoted == [account EXCEPT ![u] = {[a EXCEPT !.role = r]}]
           call == [op |-> "account", user |-> u,
                    role |-> IF r = a.role THEN "keep" ELSE r,
                    active |-> IF on = a.active THEN "keep" ELSE act]
<1>2. a \in AccountRows /\ account[u] = {a}
  BY DEF AdminShape
<1>3. call \in AccountCalls
  BY <1>2 DEF AccountCalls, AccountRows
<1>4. \A v \in ActiveSuperadmins(promoted) : v # u => v \in ActiveSuperadmins(account)
  BY DEF ActiveSuperadmins, AdminShape
<1>5. ASSUME u \in ActiveSuperadmins(account), TakesAway(call)
      PROVE  \E v \in ActiveSuperadmins(account) : v # u
  <2>1. a.role = "superadmin" /\ a.active
    BY <1>2, <1>5 DEF ActiveSuperadmins
  <2>2. (r # a.role /\ r # "superadmin") \/ (r = "superadmin" /\ ~on)
    BY <1>2, <1>5, <2>1 DEF TakesAway, AccountRows, Roles
  <2>3. OthersRemain(account) \/ OthersRemain(promoted)
    BY <1>1, <2>1, <2>2
  <2> QED
    BY <1>4, <2>3, Another DEF OthersRemain
<1>6. StillTrue(call)
  BY <1>2, <1>5 DEF StillTrue, Exists
<1>7. Begin(c, call)
  BY <1>1
<1> HIDE DEF call
<1> QED
  BY <1>3, <1>6, <1>7, Begins DEF AdminCalls

LEMMA DeleteReadStep ==
  ASSUME AdminInv, NEW c \in Callers, NEW u \in Admins, DeleteRead(c, u)
  PROVE  AdminInv'
<1> USE DEF AdminInv
<1> DEFINE call == [op |-> "account", user |-> u, role |-> "delete", active |-> "keep"]
<1>1. call \in AccountCalls
  BY DEF AccountCalls
<1>2. u \in ActiveSuperadmins(account) => \E v \in ActiveSuperadmins(account) : v # u
  <2>1. u \in ActiveSuperadmins(account) => Cardinality(ActiveSuperadmins(account)) > 1
    BY DEF DeleteRead, ActiveSuperadmins, OthersRemain, AdminShape
  <2> QED
    BY <2>1, Another
<1>3. StillTrue(call)
  BY <1>2 DEF StillTrue, DeleteRead
<1>4. Begin(c, call)
  BY DEF DeleteRead
<1> HIDE DEF call
<1> QED
  BY <1>1, <1>3, <1>4, Begins DEF AdminCalls

(* The row an UPDATE of role and is_active leaves.                          *)
LEMMA RowWith ==
  ASSUME NEW a \in AccountRows, NEW r, NEW on
  PROVE  [a EXCEPT !.role = r, !.active = on]
           = [role |-> r, active |-> on, firstRun |-> a.firstRun]
<1>1. a = [role |-> a.role, active |-> a.active, firstRun |-> a.firstRun]
  BY DEF AccountRows
<1>2. DOMAIN a = {"role", "active", "firstRun"}
  BY <1>1
<1> DEFINE b == [a EXCEPT !.role = r, !.active = on]
<1>3. DOMAIN b = {"role", "active", "firstRun"}
  BY <1>2
<1>4. b.role = r /\ b.active = on /\ b.firstRun = a.firstRun
  BY <1>2
<1>5. b = [x \in {"role", "active", "firstRun"} |-> b[x]]
  BY <1>2, <1>3
<1> HIDE DEF b
<1>6. b = [role |-> r, active |-> on, firstRun |-> a.firstRun]
  BY <1>3, <1>4, <1>5
<1> QED
  BY <1>6 DEF b

(* A commit on an account: who else is an active superadmin stays one, and  *)
(* so does the account itself unless the call takes it away.                *)
LEMMA AccountCommitStep ==
  ASSUME AdminInv, NEW c \in Callers, AccountCommit(c) PROVE AdminInv'
<1> DEFINE call == inFlight[c]
           u == call.user
           Role(a) == IF call.role = "keep" THEN a.role ELSE call.role
           On(a) == IF call.active = "keep" THEN a.active ELSE call.active = "on"
           Updated(a) == [a EXCEPT !.role = Role(a), !.active = On(a)]
           new == IF call.role = "delete" THEN {} ELSE {Updated(a) : a \in account[u]}
<1> USE DEF AdminInv
<1>1. call \in AccountCalls
  BY CallKinds DEF AccountCommit, AdminShape
<1>2. u \in Admins /\ call.role \in Roles \cup {"keep", "delete"}
  BY <1>1 DEF AccountCalls
<1>3. account' = [account EXCEPT ![u] = new]
  BY DEF AccountCommit
<1>4. /\ inFlight' \in [Callers -> AdminCalls] /\ raced' \in BOOLEAN
      /\ (raced => raced') /\ CallsAreCurrent'
  BY EndsAlone DEF AccountCommit
<1>5. UNCHANGED <<cookie, type, usedTypes>>
  BY DEF AccountCommit, End
<1> HIDE DEF Role, On
<1>6. \A a \in account[u] :
        /\ a \in AccountRows
        /\ Updated(a) = [role |-> Role(a), active |-> On(a), firstRun |-> a.firstRun]
  BY <1>2, RowWith DEF AdminShape
<1> HIDE DEF Updated
<1>7. \A b \in new : \E a \in account[u] :
        /\ call.role # "delete" /\ b.firstRun = a.firstRun
        /\ b = [role |-> Role(a), active |-> On(a), firstRun |-> a.firstRun]
  BY <1>6
<1>8. \A a \in account[u] : call.role # "delete" =>
        [role |-> Role(a), active |-> On(a), firstRun |-> a.firstRun] \in new
  BY <1>6
<1> HIDE DEF new
<1>9. new \in SUBSET AccountRows /\ \A a, b \in new : a = b
  <2>1. ASSUME NEW b \in new PROVE b \in AccountRows
    <3>1. PICK a \in account[u] :
            /\ call.role # "delete"
            /\ b = [role |-> Role(a), active |-> On(a), firstRun |-> a.firstRun]
      BY <1>7
    <3>2. a \in AccountRows
      BY <1>6
    <3>3. a.role \in Roles /\ a.active \in BOOLEAN /\ a.firstRun \in BOOLEAN
      BY <3>2 DEF AccountRows
    <3>4. Role(a) \in Roles
      BY <1>2, <3>1, <3>3 DEF Role, Roles
    <3>5. On(a) \in BOOLEAN
      BY <3>3 DEF On
    <3> QED
      BY <3>1, <3>3, <3>4, <3>5 DEF AccountRows
  <2>2. \A a, b \in account[u] : a = b
    BY <1>2 DEF AdminShape
  <2> QED
    BY <1>7, <2>1, <2>2
<1>10. grant' \in [Admins -> SUBSET type]
  BY <1>2 DEF AccountCommit, AdminShape
<1>11. /\ author' \in [TypeIds -> Admins \cup {NoOne}] /\ setUp' \in BOOLEAN
       /\ \A t \in TypeIds : author'[t] = author[t] \/ author'[t] = NoOne
  BY DEF AccountCommit, AdminShape
<1>12. AdminShape'
  <2>1. /\ account' \in [Admins -> SUBSET AccountRows]
        /\ \A v \in Admins : \A a, b \in account'[v] : a = b
    BY <1>2, <1>3, <1>9 DEF AdminShape
  <2> QED
    BY <1>4, <1>5, <1>10, <1>11, <2>1 DEF AdminShape
<1>13. AuthorsOfTypes'
  BY <1>5, <1>11 DEF AuthorsOfTypes, AdminShape
<1>14. AuthorKeepsSight'
  <2> SUFFICES ASSUME NEW t \in type, author'[t] \in Admins PROVE t \in grant'[author'[t]]
    BY <1>5 DEF AuthorKeepsSight
  <2>1. t \in TypeIds /\ author'[t] = author[t] /\ t \in grant[author[t]]
    BY <1>11, AdminAssumption DEF AdminShape, AuthorKeepsSight
  <2>2. CASE call.role = "delete"
    <3>1. author[t] # u
      BY <1>2, <2>1, <2>2, AdminAssumption DEF AccountCommit
    <3> QED
      BY <2>1, <2>2, <3>1 DEF AccountCommit, AdminShape
  <2>3. CASE call.role # "delete"
    BY <2>1, <2>3 DEF AccountCommit
  <2> QED
    BY <2>2, <2>3
<1>15. ASSUME ~raced', ActiveSuperadmins(account) # {}
       PROVE  ActiveSuperadmins(account') # {}
  <2>1. \A v \in ActiveSuperadmins(account) : v # u => v \in ActiveSuperadmins(account')
    BY <1>2, <1>3 DEF ActiveSuperadmins, AdminShape
  <2>2. CASE u \in ActiveSuperadmins(account) /\ TakesAway(call)
    <3>1. \E v \in ActiveSuperadmins(account) : v # u
      BY <1>4, <1>15, <2>2 DEF CallsAreCurrent, StillTrue, AccountCommit
    <3> QED
      BY <2>1, <3>1
  <2>3. CASE u \in ActiveSuperadmins(account) /\ ~TakesAway(call)
    <3>1. PICK a \in account[u] : a.role = "superadmin" /\ a.active
      BY <2>3 DEF ActiveSuperadmins
    <3>2. call.role \in {"keep", "superadmin"} /\ call.active \in {"keep", "on"}
      BY <1>1, <1>2, <2>3 DEF TakesAway, Roles, AccountCalls
    <3>3. Role(a) = "superadmin" /\ On(a)
      BY <3>1, <3>2 DEF Role, On
    <3>5. \E b \in new : b.role = "superadmin" /\ b.active
      BY <1>8, <3>2, <3>3
    <3>4. u \in ActiveSuperadmins(account')
      BY <1>2, <1>3, <3>5 DEF ActiveSuperadmins, AdminShape
    <3> QED
      BY <3>4
  <2>4. CASE u \notin ActiveSuperadmins(account)
    BY <1>15, <2>1, <2>4
  <2> QED
    BY <2>2, <2>3, <2>4
<1>16. SuperadminRemains'
  BY <1>4, <1>15 DEF SuperadminRemains, AccountCommit
<1>17. \A v \in Admins : FirstRunner(v)' => FirstRunner(v)
  BY <1>2, <1>3, <1>7 DEF FirstRunner, AdminShape
<1>18. OneFirstRunner'
  BY <1>4, <1>17 DEF OneFirstRunner
<1> QED
  BY <1>4, <1>12, <1>13, <1>14, <1>16, <1>18

(* Grants.                                                                  *)
LEMMA GrantsReadStep ==
  ASSUME AdminInv, NEW c \in Callers, NEW u \in Admins, NEW ts \in SUBSET type,
         GrantsRead(c, u, ts)
  PROVE  AdminInv'
<1> USE DEF AdminInv
<1> DEFINE call == [op |-> "grants", user |-> u, add |-> ts \ grant[u],
                    remove |-> grant[u] \ ts, want |-> ts]
<1>1. call \in GrantCalls
  BY DEF GrantCalls, AdminShape
<1>2. StillTrue(call)
  BY DEF StillTrue
<1>3. Begin(c, call)
  BY DEF GrantsRead
<1> HIDE DEF call
<1> QED
  BY <1>1, <1>2, <1>3, Begins DEF AdminCalls

LEMMA GrantsCommitStep ==
  ASSUME AdminInv, NEW c \in Callers, GrantsCommit(c) PROVE AdminInv'
<1> DEFINE call == inFlight[c]
           u == call.user
<1> USE DEF AdminInv
<1>1. call \in GrantCalls
  BY CallKinds DEF GrantsCommit, AdminShape
<1>2. /\ u \in Admins /\ call.add \subseteq TypeIds /\ call.remove \subseteq TypeIds
  BY <1>1 DEF GrantCalls
<1>3. /\ inFlight' \in [Callers -> AdminCalls] /\ raced' \in BOOLEAN
      /\ (raced => raced') /\ CallsAreCurrent'
  BY EndsAlone DEF GrantsCommit
<1>4. UNCHANGED <<account, cookie, setUp, type, usedTypes>>
  BY DEF GrantsCommit, End
<1>5. \/ UNCHANGED <<grant, author>>
      \/ /\ call.add \subseteq type
         /\ grant' = [grant EXCEPT ![u] = (@ \ call.remove) \cup call.add]
         /\ author' = [t \in TypeIds |-> IF author[t] = u /\ t \in call.remove
                                         THEN NoOne ELSE author[t]]
  BY <1>2 DEF GrantsCommit, NewGrants
<1> HIDE DEF u, call
<1>6. AdminShape' /\ AuthorsOfTypes'
  <2>1. grant' \in [Admins -> SUBSET type] /\ author' \in [TypeIds -> Admins \cup {NoOne}]
    BY <1>2, <1>5 DEF AdminShape
  <2>2. AuthorsOfTypes'
    BY <1>4, <1>5 DEF AuthorsOfTypes, AdminShape
  <2> QED
    BY <1>3, <1>4, <2>1, <2>2 DEF AdminShape
<1>7. AuthorKeepsSight'
  <2> SUFFICES ASSUME NEW t \in type, author'[t] \in Admins PROVE t \in grant'[author'[t]]
    BY <1>4 DEF AuthorKeepsSight
  <2>1. t \in TypeIds /\ author'[t] = author[t] /\ t \in grant[author[t]]
    BY <1>5, AdminAssumption DEF AdminShape, AuthorKeepsSight
  <2> QED
    BY <1>2, <1>5, <2>1, AdminAssumption DEF AdminShape
<1>8. SuperadminRemains' /\ OneFirstRunner'
  BY <1>3, <1>4 DEF SuperadminRemains, ActiveSuperadmins, OneFirstRunner, FirstRunner
<1> QED
  BY <1>3, <1>6, <1>7, <1>8

(* Cookies and asset types: what the accounts and the calls in flight rest  *)
(* on is not touched.                                                       *)
LEMMA AccountsUntouched ==
  ASSUME AdminInv, UNCHANGED <<account, inFlight, setUp, raced>>
  PROVE  SuperadminRemains' /\ OneFirstRunner' /\ CallsAreCurrent'
<1> USE DEF AdminInv
<1>1. SuperadminRemains' /\ OneFirstRunner'
  BY DEF SuperadminRemains, ActiveSuperadmins, OneFirstRunner, FirstRunner
<1>2. CallsAreCurrent'
  BY DEF CallsAreCurrent, StillTrue, FirstRunner, Exists, ActiveSuperadmins, TakesAway
<1> QED
  BY <1>1, <1>2

LEMMA SessionStep ==
  ASSUME AdminInv, NEW u \in Admins, SignIn(u) \/ SignOut(u) PROVE AdminInv'
<1> USE DEF AdminInv
<1>1. UNCHANGED <<account, grant, inFlight, type, usedTypes, author, setUp, raced>>
  BY DEF SignIn, SignOut
<1>2. cookie' \in [Admins -> Roles \cup {NoRole}]
  <2>1. CASE SignIn(u)
    <3>1. PICK a \in account[u] : cookie' = [cookie EXCEPT ![u] = a.role]
      BY <2>1 DEF SignIn
    <3>2. a.role \in Roles
      BY DEF AdminShape, AccountRows
    <3> QED
      BY <3>1, <3>2 DEF AdminShape
  <2>2. CASE SignOut(u)
    BY <2>2 DEF SignOut, AdminShape
  <2> QED
    BY <2>1, <2>2
<1>3. AdminShape' /\ AuthorsOfTypes' /\ AuthorKeepsSight'
  BY <1>1, <1>2 DEF AdminShape, AuthorsOfTypes, AuthorKeepsSight
<1> QED
  BY <1>1, <1>3, AccountsUntouched

LEMMA TypeStep ==
  ASSUME AdminInv, NEW c \in Callers, NEW t \in TypeIds, NEW n \in TypeIds,
         CreateType(c, t) \/ UpdateType(c, t) \/ DeleteType(c, t) \/ CloneType(c, t, n)
  PROVE  AdminInv'
<1> USE AdminAssumption DEF AdminInv
<1>1. UNCHANGED <<account, cookie, inFlight, setUp, raced>>
  BY DEF CreateType, UpdateType, DeleteType, CloneType, TypeCall
<1>2. CASE CreateType(c, t)
  <2>1. t \notin usedTypes /\ type' = type \cup {t} /\ usedTypes' = usedTypes \cup {t}
    BY <1>2 DEF CreateType, NewType
  <2>2. \/ /\ c \in Admins /\ grant' = [grant EXCEPT ![c] = @ \cup {t}]
           /\ author' = [author EXCEPT ![t] = c]
        \/ grant' = grant /\ author' = [author EXCEPT ![t] = NoOne]
    BY <1>2 DEF CreateType, AutoGrants, Callers, RoleOf
  <2>3. AdminShape' /\ AuthorsOfTypes'
    BY <1>1, <2>1, <2>2 DEF AdminShape, AuthorsOfTypes
  <2>4. AuthorKeepsSight'
    BY <2>1, <2>2 DEF AdminShape, AuthorKeepsSight
  <2> QED
    BY <1>1, <2>3, <2>4, AccountsUntouched
<1>3. CASE CloneType(c, t, n)
  <2>1. n \notin usedTypes /\ type' = type \cup {n} /\ usedTypes' = usedTypes \cup {n}
    BY <1>3 DEF CloneType, NewType
  <2>2. UNCHANGED <<grant, author>>
    BY <1>3 DEF CloneType
  <2>3. AdminShape' /\ AuthorsOfTypes' /\ AuthorKeepsSight'
    BY <1>1, <2>1, <2>2 DEF AdminShape, AuthorsOfTypes, AuthorKeepsSight
  <2> QED
    BY <1>1, <2>3, AccountsUntouched
<1>4. CASE UpdateType(c, t)
  <2>1. AdminShape' /\ AuthorsOfTypes' /\ AuthorKeepsSight'
    BY <1>1, <1>4 DEF UpdateType, AdminShape, AuthorsOfTypes, AuthorKeepsSight
  <2> QED
    BY <1>1, <2>1, AccountsUntouched
<1>5. CASE DeleteType(c, t)
  <2>1. /\ type' = type \ {t} /\ grant' = [u \in Admins |-> grant[u] \ {t}]
        /\ UNCHANGED <<usedTypes, author>>
    BY <1>5 DEF DeleteType
  <2>2. AdminShape' /\ AuthorsOfTypes' /\ AuthorKeepsSight'
    BY <1>1, <2>1 DEF AdminShape, AuthorsOfTypes, AuthorKeepsSight
  <2> QED
    BY <1>1, <2>2, AccountsUntouched
<1> QED
  BY <1>2, <1>3, <1>4, <1>5

LEMMA AdminInvNext == AdminInv /\ [AdminNext]_adminVars => AdminInv'
<1> SUFFICES ASSUME AdminInv, [AdminNext]_adminVars PROVE AdminInv'
  OBVIOUS
<1>1. CASE \E u \in Admins : SignIn(u) \/ SignOut(u) \/ SetupRead(u) \/ SetupCommit(u)
  BY <1>1, SessionStep, SetupReadStep, SetupCommitStep
<1>2. ASSUME NEW c \in Callers, AccountCall(c) PROVE AdminInv'
  BY <1>2, CreateAdminStep, UpdateReadStep, DeleteReadStep, GrantsReadStep,
     AccountCommitStep, GrantsCommitStep DEF AccountCall
<1>3. ASSUME NEW c \in Callers, AssetTypeCall(c) PROVE AdminInv'
  BY <1>3, TypeStep DEF AssetTypeCall
<1>4. CASE UNCHANGED adminVars
  <2>1. UNCHANGED <<account, grant, cookie, inFlight, type, usedTypes, author, setUp, raced>>
    BY <1>4 DEF adminVars
  <2>2. AdminShape' /\ AuthorsOfTypes' /\ AuthorKeepsSight'
    BY <2>1 DEF AdminInv, AdminShape, AuthorsOfTypes, AuthorKeepsSight
  <2> QED
    BY <2>1, <2>2, AccountsUntouched DEF AdminInv
<1> QED
  BY <1>1, <1>2, <1>3, <1>4 DEF AdminNext

LEMMA FormerAdminStep ==
  ASSUME AdminInv, [AdminNext]_adminVars, NEW u \in Admins,
         typeEdit' = u, typeEdit # u, cookie[u] = "admin"
  PROVE  Active(u)
<1>1. PICK c \in Callers, t \in TypeIds :
        UpdateType(c, t) \/ DeleteType(c, t) \/ \E n \in TypeIds : CloneType(c, t, n)
  <2>1. ASSUME NEW v \in Admins, SignIn(v) \/ SignOut(v) \/ SetupRead(v) \/ SetupCommit(v)
        PROVE  typeEdit' = typeEdit
    BY <2>1 DEF SignIn, SignOut, SetupRead, SetupCommit, Begin, End
  <2>2. ASSUME NEW c, AccountCall(c) PROVE typeEdit' = typeEdit
    <3>1. CASE AccountCommit(c) \/ GrantsCommit(c)
      BY <3>1 DEF AccountCommit, GrantsCommit, End
    <3>2. CASE \E v \in Admins, r \in Roles : CreateAdmin(c, v, r)
      BY <3>2 DEF CreateAdmin
    <3>3. CASE \E v \in Admins : DeleteRead(c, v)
      BY <3>3 DEF DeleteRead, Begin
    <3>4. CASE \E v \in Admins : \E ts \in SUBSET type : GrantsRead(c, v, ts)
      BY <3>4 DEF GrantsRead, Begin
    <3>5. ASSUME NEW v \in Admins, NEW r \in Roles \cup {"keep"},
                 NEW on \in {"keep", "on", "off"}, UpdateRead(c, v, r, on)
          PROVE  typeEdit' = typeEdit
      BY <3>5 DEF UpdateRead, Begin
    <3> QED
      BY <2>2, <3>1, <3>2, <3>3, <3>4, <3>5 DEF AccountCall
  <2>3. ASSUME NEW c, NEW t, CreateType(c, t) PROVE typeEdit' = typeEdit
    BY <2>3 DEF CreateType
  <2>4. typeEdit' # typeEdit
    OBVIOUS
  <2>5. PICK c \in Callers : AssetTypeCall(c)
    BY <2>1, <2>2, <2>4 DEF AdminNext, adminVars
  <2> QED
    BY <2>3, <2>4, <2>5 DEF AssetTypeCall
<1>2. c = u /\ t \in Visible(c)
  BY <1>1 DEF UpdateType, DeleteType, CloneType
<1> QED
  BY <1>2, AdminAssumption DEF Visible, RoleOf

(* Whoever administers, an active superadmin remains, the first-run form    *)
(* made one account, a scoped admin sees what they made, and an admin who   *)
(* was taken out edits nothing, for calls that do not overlap where that    *)
(* matters (admin_users.py, admin_setup.py, visible_asset_type_ids).        *)
THEOREM AccountsCorrect == AdminSpec => AccountsKept
<1>1. AdminInv => SuperadminRemains /\ OneFirstRun /\ AuthorKeepsSight
  <2> SUFFICES ASSUME AdminInv, ~raced
               PROVE  Cardinality({u \in Admins : \E a \in account[u] : a.firstRun}) <= 1
    BY DEF AdminInv, OneFirstRun
  <2>1. \A u, v \in {w \in Admins : \E a \in account[w] : a.firstRun} : u = v
    BY DEF AdminInv, OneFirstRunner, FirstRunner
  <2> QED
    BY <2>1, AtMostOne
<1>2. AdminInv /\ [AdminNext]_adminVars =>
        [\A u \in Admins :
           typeEdit' = u /\ typeEdit # u /\ cookie[u] = "admin" => Active(u)]_adminVars
  BY FormerAdminStep
<1> QED
  BY <1>1, <1>2, AdminInvInit, AdminInvNext, PTL
  DEF AdminSpec, AccountsKept, FormerAdminEditsNothing

-----------------------------------------------------------------------------
(* The secrets resolver: its tokens.  A cached token ends before its lease  *)
(* does, and outside Azure's adapter is of no epoch the process has been    *)
(* refused; so a usable one is only ever refused for being revoked.         *)

TokenRecords == [until : Int, dies : Int, epoch : Nat, lease : Nat]

GoodToken(p, t) ==
  /\ t \in TokenRecords
  /\ t.until <= t.dies /\ t.epoch <= epoch
  /\ backend # "azurekv" => t.epoch \notin denied[p]

SecretTokenInv ==
  /\ backend \in SecretBackends /\ epoch \in 0..MaxEpoch /\ secretNow \in 0..SecretHorizon
  /\ token \in [SecretProcesses -> SUBSET TokenRecords]
  /\ denied \in [SecretProcesses -> SUBSET Nat]
  /\ \A p \in SecretProcesses :
       /\ \A s, t \in token[p] : s = t
       /\ \A t \in token[p] : GoodToken(p, t)
       /\ \A e \in denied[p] : e < epoch

LEMMA SecretTokenInvInit == SecretInit => SecretTokenInv
BY SecretAssumption DEF SecretInit, SecretTokenInv

(* A fresh token is good, and one a call goes out with lives.               *)
LEMMA FreshToken ==
  ASSUME SecretTokenInv, NEW p \in SecretProcesses, NEW t \in Login
  PROVE  /\ t \in TokenRecords /\ t.until <= t.dies /\ t.dies > secretNow
         /\ t.epoch = epoch /\ t.epoch \notin denied[p]
<1> USE SecretAssumption DEF SecretTokenInv
<1>1. PICK until \in Int, lease \in Nat \ {0} :
        t = Token(until, lease) /\ until <= secretNow + lease
  <2>1. CASE backend = "vault" \/ backend = "azurekv"
    <3>1. PICK l \in SecretLeases : t = Token(secretNow + Larger(Margin, l - Margin), l)
      BY <2>1 DEF Login, VaultLogin, AadLogin
    <3>2. Larger(Margin, l - Margin) \in Int /\ Larger(Margin, l - Margin) <= l
      BY DEF Larger, Margin
    <3> QED
      BY <3>1, <3>2
  <2>2. CASE backend = "awssm"
    <3>1. PICK l \in SecretLeases : t = Token(secretNow + l - Margin, l)
      BY <2>2 DEF Login, AwsLogin
    <3> QED
      BY <3>1 DEF Margin
  <2>3. CASE backend = "conjur"
    <3>1. t = Token(secretNow + 7, 8)
      BY <2>3 DEF Login, ConjurLogin, ConjurTTL, ConjurLease
    <3> QED
      BY <3>1
  <2>4. CASE backend = "ccp"
    BY <2>4 DEF Login
  <2> QED
    BY <2>1, <2>2, <2>3, <2>4
<1>2. /\ t.until = until /\ t.dies = secretNow + lease /\ t.epoch = epoch
      /\ t \in TokenRecords
  BY <1>1 DEF Token, TokenRecords
<1>3. t.epoch \notin denied[p]
  BY <1>2
<1> QED
  BY <1>1, <1>2, <1>3

LEMMA CallToken ==
  ASSUME SecretTokenInv, NEW p \in SecretProcesses, NEW t \in CallTokens(p)
  PROVE  GoodToken(p, t) /\ t.dies > secretNow
<1> USE DEF SecretTokenInv
<1>1. CASE t \in Login
  BY <1>1, FreshToken DEF GoodToken
<1>2. CASE t \in UsableToken(p)
  BY <1>2 DEF UsableToken, GoodToken, TokenRecords
<1> QED
  BY <1>1, <1>2 DEF CallTokens

(* What any step does to the token of one process.                          *)
TokenOf(p, new) ==
  /\ token' = [token EXCEPT ![p] = new]
  /\ \A s, t \in new : s = t
  /\ \A t \in new : GoodToken(p, t)

LEMMA TokenReplaced ==
  ASSUME SecretTokenInv, NEW p \in SecretProcesses, NEW new,
         TokenOf(p, new), UNCHANGED <<backend, epoch, denied, secretNow>>
  PROVE  SecretTokenInv'
BY DEF SecretTokenInv, TokenOf, GoodToken

LEMMA OneCallToken ==
  ASSUME SecretTokenInv, NEW p \in SecretProcesses, NEW t \in CallTokens(p)
  PROVE  token' = [token EXCEPT ![p] = {t}] => TokenOf(p, {t})
BY CallToken DEF TokenOf

LEMMA ReadTokenStep ==
  ASSUME SecretTokenInv, NEW p \in SecretProcesses, NEW k, NEW drops \in BOOLEAN,
         Untouched, ReadByToken(p, k, drops), drops \/ backend = "azurekv"
  PROVE  SecretTokenInv'
<1>1. PICK t \in CallTokens(p) :
        IF Accepts(t) THEN token' = [token EXCEPT ![p] = {t}] /\ UNCHANGED denied
        ELSE /\ token' = [token EXCEPT ![p] = IF drops THEN {} ELSE {t}]
             /\ denied' = [denied EXCEPT ![p] = @ \cup {t.epoch}]
  BY DEF ReadByToken
<1>2. GoodToken(p, t) /\ t.dies > secretNow
  BY CallToken
<1>3. UNCHANGED <<backend, epoch, secretNow>>
  BY DEF Untouched
<1>4. CASE Accepts(t)
  BY <1>1, <1>3, <1>4, OneCallToken, TokenReplaced
<1>5. CASE ~Accepts(t)
  <2>1. t.epoch < epoch
    BY <1>2, <1>5 DEF Accepts, GoodToken, TokenRecords, SecretTokenInv
  <2>2. CASE drops
    BY <1>1, <1>2, <1>3, <1>5, <2>1, <2>2 DEF SecretTokenInv, GoodToken, TokenRecords
  <2>3. CASE ~drops
    <3>1. backend' = "azurekv" /\ t \in TokenRecords
      BY <1>2, <1>3, <2>3 DEF GoodToken
    <3> QED
      BY <1>1, <1>2, <1>3, <1>5, <2>1, <2>3, <3>1 DEF SecretTokenInv, GoodToken, TokenRecords
  <2> QED
    BY <2>2, <2>3
<1> QED
  BY <1>4, <1>5

LEMMA FailTokenStep ==
  ASSUME SecretTokenInv, NEW p \in SecretProcesses, NEW k, Untouched, ReadFails(p, k)
  PROVE  SecretTokenInv'
<1>1. UNCHANGED <<backend, epoch, secretNow, denied>>
  BY DEF Untouched, ReadFails
<1>2. CASE UNCHANGED token
  BY <1>1, <1>2 DEF SecretTokenInv, GoodToken
<1>3. CASE \E t \in CallTokens(p) : token' = [token EXCEPT ![p] = {t}]
  BY <1>1, <1>3, OneCallToken, TokenReplaced
<1> QED
  BY <1>2, <1>3 DEF ReadFails

LEMMA TestTokenStep ==
  ASSUME SecretTokenInv, NEW p \in SecretProcesses, TestBackend(p)
  PROVE  SecretTokenInv'
<1>1. UNCHANGED <<backend, epoch, secretNow, denied>>
  BY DEF Untouched, TestBackend
<1>2. \/ UNCHANGED token
      \/ token' = [token EXCEPT ![p] = {}]
      \/ \E t \in Login : token' = [token EXCEPT ![p] = {t}]
      \/ \E t \in CallTokens(p) : token' = [token EXCEPT ![p] = {t}]
  BY DEF TestBackend
<1>3. CASE UNCHANGED token
  BY <1>1, <1>3 DEF SecretTokenInv, GoodToken
<1>4. CASE token' = [token EXCEPT ![p] = {}]
  <2>1. TokenOf(p, {})
    BY <1>4 DEF TokenOf
  <2> QED
    BY <1>1, <2>1, TokenReplaced
<1>5. CASE \E t \in Login : token' = [token EXCEPT ![p] = {t}]
  <2>1. PICK t \in Login : token' = [token EXCEPT ![p] = {t}]
    BY <1>5
  <2>2. GoodToken(p, t)
    BY FreshToken DEF GoodToken, SecretTokenInv
  <2>3. TokenOf(p, {t})
    BY <2>1, <2>2 DEF TokenOf
  <2> QED
    BY <1>1, <2>3, TokenReplaced
<1>6. CASE \E t \in CallTokens(p) : token' = [token EXCEPT ![p] = {t}]
  BY <1>1, <1>6, OneCallToken, TokenReplaced
<1> QED
  BY <1>2, <1>3, <1>4, <1>5, <1>6

LEMMA PushTokenStep ==
  ASSUME SecretTokenInv, NEW k, MigratePush(k) PROVE SecretTokenInv'
<1> DEFINE p == migration.by
<1>1. UNCHANGED <<backend, epoch, secretNow, denied>>
  BY DEF MigratePush
<1>2. \/ UNCHANGED token
      \/ token' = [token EXCEPT ![p] = {}]
      \/ \E t \in CallTokens(p) : token' = [token EXCEPT ![p] = {t}]
  BY DEF MigratePush, PushTaken, PushFails
<1>3. CASE UNCHANGED token
  BY <1>1, <1>3 DEF SecretTokenInv, GoodToken
<1>4. CASE p \notin SecretProcesses
  <2>1. UNCHANGED token
    BY <1>2, <1>4 DEF SecretTokenInv
  <2> QED
    BY <1>3, <2>1
<1> HIDE DEF p
<1>5. CASE p \in SecretProcesses /\ token' = [token EXCEPT ![p] = {}]
  <2>1. TokenOf(p, {})
    BY <1>5 DEF TokenOf
  <2> QED
    BY <1>1, <1>5, <2>1, TokenReplaced
<1>6. CASE p \in SecretProcesses /\ \E t \in CallTokens(p) : token' = [token EXCEPT ![p] = {t}]
  BY <1>1, <1>6, OneCallToken, TokenReplaced
<1> QED
  BY <1>2, <1>3, <1>4, <1>5, <1>6

LEMMA SecretTokenInvNext == SecretTokenInv /\ [SecretNext]_secretVars => SecretTokenInv'
<1> SUFFICES ASSUME SecretTokenInv, [SecretNext]_secretVars PROVE SecretTokenInv'
  OBVIOUS
<1>1. ASSUME NEW p \in SecretProcesses, NEW k \in SecretKeys,
             ResolveVault(p, k) \/ ResolveAzurekv(p, k) \/ ResolveAwssm(p, k)
               \/ ResolveConjur(p, k)
      PROVE  SecretTokenInv'
  <2>1. Untouched /\ (ReadFails(p, k) \/ ReadByToken(p, k, TRUE)
                        \/ (backend = "azurekv" /\ ReadByToken(p, k, FALSE)))
    BY <1>1 DEF ResolveVault, ResolveAzurekv, ResolveAwssm, ResolveConjur, Resolving
  <2>2. CASE ReadFails(p, k)
    BY <2>1, <2>2, FailTokenStep
  <2>3. CASE ReadByToken(p, k, TRUE)
    BY <2>1, <2>3, ReadTokenStep
  <2>4. CASE backend = "azurekv" /\ ReadByToken(p, k, FALSE)
    BY <2>1, <2>4, ReadTokenStep
  <2> QED
    BY <2>1, <2>2, <2>3, <2>4
<1>2. ASSUME UNCHANGED <<backend, token, epoch, denied, secretNow>> PROVE SecretTokenInv'
  BY <1>2 DEF SecretTokenInv, GoodToken
<1>3. ASSUME NEW p \in SecretProcesses, NEW k \in SecretKeys,
             ResolveCcp(p, k) \/ ReadSecret(p, k)
      PROVE  SecretTokenInv'
  BY <1>2, <1>3 DEF ResolveCcp, ReadSecret, Resolving, Untouched
<1>4. ASSUME NEW p \in SecretProcesses, MigrateRead(p) PROVE SecretTokenInv'
  BY <1>2, <1>4 DEF MigrateRead
<1>5. ASSUME NEW p \in SecretProcesses, SecretRestart(p) PROVE SecretTokenInv'
  BY <1>5 DEF SecretRestart, SecretTokenInv, GoodToken
<1>6. ASSUME NEW k \in SecretKeys, EditSecret(k) \/ RotateSource(k) PROVE SecretTokenInv'
  BY <1>2, <1>6 DEF EditSecret, RotateSource
<1>7. ASSUME MigrateCommit PROVE SecretTokenInv'
  BY <1>2, <1>7 DEF MigrateCommit
<1>8. ASSUME RevokeTokens PROVE SecretTokenInv'
  BY <1>8, SecretAssumption DEF RevokeTokens, SecretTokenInv, GoodToken, TokenRecords
<1>9. ASSUME SecretTick PROVE SecretTokenInv'
  BY <1>9, SecretAssumption DEF SecretTick, SecretTokenInv, GoodToken
<1>10. ASSUME UNCHANGED secretVars PROVE SecretTokenInv'
  BY <1>2, <1>10 DEF secretVars
<1> QED
  BY <1>1, <1>3, <1>4, <1>5, <1>6, <1>7, <1>8, <1>9, <1>10, TestTokenStep, PushTokenStep
  DEF SecretNext

-----------------------------------------------------------------------------
(* The secrets resolver: its values.                                        *)

Known == {NoSecret} \cup Versions
Runs ==
  [pc : {"run"}, by : SecretProcesses, values : [SecretKeys -> Known],
   staged : SUBSET SecretKeys, todo : SUBSET SecretKeys]

SecretShape ==
  /\ row \in [SecretKeys -> Known] /\ store \in [SecretKeys -> Known]
  /\ intended \in [SecretKeys -> Versions]
  /\ overlapped \subseteq SecretKeys
  /\ replaced \in [SecretKeys -> [Versions -> Nat]]
  /\ valueCache \in [SecretProcesses -> [SecretKeys -> SUBSET [value : Versions, until : Nat]]]
  /\ answer \subseteq [key : SecretKeys, value : Known, at : Nat]
  /\ migration \in {NoMigration} \cup Runs
  /\ secretNow \in 0..SecretHorizon

OneEntry ==
  \A p \in SecretProcesses, k \in SecretKeys : \A d, e \in valueCache[p][k] : d = e

(* A row in plaintext holds the intended version; the store, and what a     *)
(* migration carries, none that is yet to come.  Only versions up to the    *)
(* intended one have been replaced.                                         *)
VersionsGrow ==
  \A k \in SecretKeys :
    /\ row[k] # Reference => row[k] = intended[k]
    /\ store[k] <= intended[k]
    /\ migration.pc = "run" => migration.values[k] <= intended[k]
    /\ \A v \in Versions : v >= intended[k] => replaced[k][v] = Never

(* The rows a migration still has are in plaintext, as it read them; what   *)
(* it has staged is in the store.                                           *)
MigrationKnows ==
  migration.pc = "run" =>
    /\ migration.staged \cap migration.todo = {}
    /\ \A k \in migration.todo :
         /\ row[k] # Reference /\ migration.values[k] # Reference
         /\ k \notin overlapped => migration.values[k] = row[k]
    /\ \A k \in migration.staged :
         row[k] # Reference /\ (k \notin overlapped => store[k] = intended[k])

(* Version v of k, known to be served up to time t.                         *)
Recent(k, v, t) == v = Effective(k) \/ t <= replaced[k][v] + SecretTTL

ServedRecently ==
  /\ \A p \in SecretProcesses, k \in SecretKeys : \A e \in valueCache[p][k] :
       e.until <= secretNow + SecretTTL /\ Recent(k, e.value, e.until)
  /\ \A r \in answer :
       r.at <= secretNow /\ (r.value # NoSecret => Recent(r.key, r.value, r.at))

SecretValueInv ==
  SecretShape /\ OneEntry /\ VersionsGrow /\ MigrationKnows /\ SecretSurvives /\ ServedRecently

LEMMA SecretValueInvInit == SecretInit => SecretValueInv
<1> SUFFICES ASSUME SecretInit PROVE SecretValueInv
  OBVIOUS
<1> USE SecretAssumption DEF SecretInit, Known, Versions, NoSecret, Reference, Never
<1>1. SecretShape /\ OneEntry
  BY DEF SecretShape, OneEntry
<1>2. VersionsGrow /\ MigrationKnows
  BY DEF VersionsGrow, MigrationKnows, NoMigration
<1>3. SecretSurvives /\ ServedRecently
  BY DEF SecretSurvives, Effective, ServedRecently
<1> QED
  BY <1>1, <1>2, <1>3 DEF SecretValueInv

LEMMA EffectiveKnown ==
  ASSUME SecretValueInv, NEW k \in SecretKeys
  PROVE  Effective(k) \in Known /\ Effective(k) <= intended[k]
BY DEF SecretValueInv, SecretShape, VersionsGrow, Effective, Known, Versions

(* What a version was known for before a step it is known for after it,     *)
(* unless the step gives the key a version or takes its row.                *)
LEMMA ServedStays ==
  ASSUME SecretValueInv,
         UNCHANGED replaced, secretNow' \in Nat, secretNow' >= secretNow,
         \A k \in SecretKeys : Effective(k)' = Effective(k),
         \A p \in SecretProcesses, k \in SecretKeys : \A e \in valueCache'[p][k] :
           e \in valueCache[p][k] \/ (/\ e \in [value : Versions, until : Nat]
                                      /\ e.until <= secretNow + SecretTTL
                                      /\ Recent(k, e.value, e.until)),
         \A r \in answer' :
           r \in answer \/ (/\ r \in [key : SecretKeys, value : Known, at : Nat]
                            /\ r.at <= secretNow
                            /\ r.value # NoSecret => Recent(r.key, r.value, r.at))
  PROVE  ServedRecently'
<1> USE SecretAssumption DEF SecretValueInv, SecretShape
<1>1. \A k \in SecretKeys : \A v, t : Recent(k, v, t)' <=> Recent(k, v, t)
  BY DEF Recent
<1>2. \A p \in SecretProcesses, k \in SecretKeys : \A e \in valueCache'[p][k] :
        e.until <= secretNow' + SecretTTL /\ Recent(k, e.value, e.until)
  BY DEF ServedRecently
<1>3. \A r \in answer' : /\ r \in [key : SecretKeys, value : Known, at : Nat]
                         /\ r.at <= secretNow'
                         /\ r.value # NoSecret => Recent(r.key, r.value, r.at)
  BY DEF ServedRecently
<1> QED
  BY <1>1, <1>2, <1>3 DEF ServedRecently

(* A resolution serves what is in force, and caches it for one TTL.         *)
LEMMA ResolveStep ==
  ASSUME SecretValueInv, NEW p \in SecretProcesses, NEW k \in SecretKeys,
         Untouched, row[k] = Reference,
         \/ Answers(k, NoSecret) /\ UNCHANGED valueCache
         \/ store[k] # NoSecret /\ Answers(k, store[k]) /\ valueCache' = CacheSet(p, k, store[k])
  PROVE  SecretValueInv'
<1> USE SecretAssumption DEF SecretValueInv
<1>1. UNCHANGED <<row, store, migration, intended, overlapped, replaced, secretNow>>
  BY DEF Untouched
<1>2. VersionsGrow' /\ MigrationKnows' /\ SecretSurvives'
  BY <1>1 DEF VersionsGrow, MigrationKnows, SecretSurvives, Effective
<1>3. \A j \in SecretKeys : Effective(j)' = Effective(j)
  BY <1>1 DEF Effective
<1>4. CASE Answers(k, NoSecret) /\ UNCHANGED valueCache
  <2>1. SecretShape' /\ OneEntry'
    BY <1>1, <1>4 DEF SecretShape, OneEntry, Answers, Known
  <2>2. ServedRecently'
    BY <1>1, <1>3, <1>4 DEF ServedRecently, Recent, Answers, SecretShape
  <2> QED
    BY <1>2, <2>1, <2>2
<1>5. CASE store[k] # NoSecret /\ Answers(k, store[k]) /\ valueCache' = CacheSet(p, k, store[k])
  <2> DEFINE e == [value |-> store[k], until |-> secretNow + SecretTTL]
  <2>1. e \in [value : Versions, until : Nat] /\ e.until = secretNow + SecretTTL
        /\ e.value = Effective(k)
    BY <1>5 DEF SecretShape, Known, Effective
  <2>2. valueCache' = [valueCache EXCEPT ![p][k] = {e}]
    BY <1>5 DEF CacheSet
  <2>3. answer' = {[key |-> k, value |-> store[k], at |-> secretNow]}
    BY <1>5 DEF Answers
  <2> HIDE DEF e
  <2>4. SecretShape' /\ OneEntry'
    BY <1>1, <2>1, <2>2, <2>3 DEF SecretShape, OneEntry
  <2>5. \A r \in answer' : /\ r \in [key : SecretKeys, value : Known, at : Nat]
                           /\ r.at <= secretNow /\ Recent(r.key, r.value, r.at)
    BY <2>3 DEF SecretShape, Recent, Effective
  <2>6. Recent(k, e.value, e.until)
    BY <2>1 DEF Recent
  <2>7. \A q \in SecretProcesses, j \in SecretKeys : \A x \in valueCache'[q][j] :
          x \in valueCache[q][j] \/ (/\ x \in [value : Versions, until : Nat]
                                     /\ x.until <= secretNow + SecretTTL
                                     /\ Recent(j, x.value, x.until))
    BY <2>1, <2>2, <2>6 DEF SecretShape
  <2>8. secretNow' \in Nat /\ secretNow' >= secretNow /\ UNCHANGED replaced
    BY <1>1 DEF SecretShape
  <2>9. ServedRecently'
    BY <1>3, <2>5, <2>7, <2>8, ServedStays
  <2> QED
    BY <1>2, <2>4, <2>9
<1> QED
  BY <1>4, <1>5

LEMMA ResolutionsStep ==
  ASSUME SecretValueInv, NEW p \in SecretProcesses, NEW k \in SecretKeys,
         \/ ResolveVault(p, k) \/ ResolveCcp(p, k) \/ ResolveAzurekv(p, k)
         \/ ResolveAwssm(p, k) \/ ResolveConjur(p, k)
  PROVE  SecretValueInv'
<1>1. Untouched /\ row[k] = Reference
  BY DEF ResolveVault, ResolveCcp, ResolveAzurekv, ResolveAwssm, ResolveConjur, Resolving
<1>2. ResolveCcp(p, k) \/ ReadFails(p, k) \/ \E drops \in BOOLEAN : ReadByToken(p, k, drops)
  BY DEF ResolveVault, ResolveAzurekv, ResolveAwssm, ResolveConjur
<1>3. CASE ResolveCcp(p, k)
  <2>1. \/ Answers(k, NoSecret) /\ UNCHANGED valueCache
        \/ store[k] # NoSecret /\ Answers(k, store[k]) /\ valueCache' = CacheSet(p, k, store[k])
    BY <1>3 DEF ResolveCcp
  <2> QED
    BY <1>1, <2>1, ResolveStep
<1>4. CASE ReadFails(p, k)
  <2>1. Answers(k, NoSecret) /\ UNCHANGED valueCache
    BY <1>4 DEF ReadFails
  <2> QED
    BY <1>1, <2>1, ResolveStep
<1>5. CASE \E drops \in BOOLEAN : ReadByToken(p, k, drops)
  <2>1. \/ Answers(k, NoSecret) /\ UNCHANGED valueCache
        \/ store[k] # NoSecret /\ Answers(k, store[k]) /\ valueCache' = CacheSet(p, k, store[k])
    BY <1>5 DEF ReadByToken, Reference, NoSecret
  <2> QED
    BY <1>1, <2>1, ResolveStep
<1> QED
  BY <1>2, <1>3, <1>4, <1>5

(* A read of the row, or of the cache, answers what it finds.               *)
LEMMA ReadSecretStep ==
  ASSUME SecretValueInv, NEW p \in SecretProcesses, NEW k \in SecretKeys, ReadSecret(p, k)
  PROVE  SecretValueInv'
<1> USE SecretAssumption DEF SecretValueInv
<1>1. UNCHANGED <<row, store, migration, intended, overlapped, replaced, secretNow, valueCache>>
  BY DEF ReadSecret, Untouched
<1>2. VersionsGrow' /\ MigrationKnows' /\ SecretSurvives' /\ OneEntry'
  BY <1>1 DEF VersionsGrow, MigrationKnows, SecretSurvives, Effective, OneEntry
<1>3. PICK v \in Versions : Answers(k, v) /\ Recent(k, v, secretNow)
  <2>1. CASE row[k] # Reference /\ Answers(k, row[k])
    BY <2>1 DEF Recent, Effective, SecretShape, Known, NoSecret, Reference
  <2>2. ASSUME NEW e \in CacheGet(p, k), Answers(k, e.value)
        PROVE  \E v \in Versions : Answers(k, v) /\ Recent(k, v, secretNow)
    <3>1. e \in valueCache[p][k] /\ secretNow <= e.until
      BY DEF CacheGet
    <3>2. e.value \in Versions /\ e.until \in Nat /\ Recent(k, e.value, e.until)
      BY <3>1 DEF SecretShape, ServedRecently
    <3>3. replaced[k][e.value] \in Nat /\ secretNow \in Nat
      BY <3>2 DEF SecretShape
    <3>4. Recent(k, e.value, secretNow)
      BY <3>1, <3>2, <3>3 DEF Recent
    <3> QED
      BY <2>2, <3>2, <3>4
  <2> QED
    BY <2>1, <2>2 DEF ReadSecret
<1>4. answer' = {[key |-> k, value |-> v, at |-> secretNow]}
  BY <1>3 DEF Answers
<1>5. v \in Known
  BY <1>3 DEF Known
<1>6. SecretShape'
  BY <1>1, <1>4, <1>5 DEF SecretShape
<1>7. ServedRecently'
  <2>1. \A j \in SecretKeys : \A w, t : Recent(j, w, t)' <=> Recent(j, w, t)
    BY <1>1 DEF Recent, Effective
  <2>2. \A r \in answer' : r.at <= secretNow' /\ r.key \in SecretKeys /\ Recent(r.key, r.value, r.at)
    BY <1>1, <1>3, <1>4 DEF SecretShape
  <2> QED
    BY <1>1, <2>1, <2>2 DEF ServedRecently
<1> QED
  BY <1>2, <1>6, <1>7

(* A process that loses its cache, and maybe the migration it ran.          *)
LEMMA ClearedStep ==
  ASSUME SecretValueInv, NEW p \in SecretProcesses, TestBackend(p) \/ SecretRestart(p)
  PROVE  SecretValueInv'
<1> USE SecretAssumption DEF SecretValueInv
<1>1. /\ UNCHANGED <<row, store, intended, overlapped, replaced, secretNow, answer>>
      /\ migration' \in {migration, NoMigration}
      /\ valueCache' = [valueCache EXCEPT ![p] = [k \in SecretKeys |-> {}]]
  BY DEF TestBackend, Untouched, SecretRestart
<1>2. VersionsGrow' /\ MigrationKnows' /\ SecretSurvives'
  BY <1>1 DEF VersionsGrow, MigrationKnows, SecretSurvives, Effective, NoMigration
<1>3. SecretShape'
  BY <1>1 DEF SecretShape
<1>4. \A q \in SecretProcesses, k \in SecretKeys : valueCache'[q][k] \subseteq valueCache[q][k]
  BY <1>1 DEF SecretShape
<1>5. OneEntry'
  BY <1>4 DEF OneEntry
<1>6. ServedRecently'
  <2>1. \A j \in SecretKeys : \A w, t : Recent(j, w, t)' <=> Recent(j, w, t)
    BY <1>1 DEF Recent, Effective
  <2> QED
    BY <1>1, <1>4, <2>1 DEF ServedRecently, SecretShape
<1> QED
  BY <1>2, <1>3, <1>5, <1>6

(* A new version stamps the one in force: what was known to be served is    *)
(* known still.                                                             *)
LEMMA GivenStep ==
  ASSUME SecretValueInv, NEW k \in SecretKeys, Gives(k, intended[k] + 1),
         intended[k] < MaxVersion, UNCHANGED <<valueCache, answer, secretNow>>,
         \A j \in SecretKeys : j # k => Effective(j)' = Effective(j)
  PROVE  ServedRecently' /\ intended' \in [SecretKeys -> Versions]
         /\ replaced' \in [SecretKeys -> [Versions -> Nat]]
<1> USE SecretAssumption DEF SecretValueInv
<1>0. secretNow \in Nat /\ intended[k] \in Versions /\ intended[k] + 1 \in Versions
  BY DEF SecretShape, Versions
<1>1. intended' = [intended EXCEPT ![k] = intended[k] + 1]
  BY DEF Gives
<1> DEFINE stamped == [w \in Versions |-> IF w \in {intended[k], Effective(k)}
                                          THEN secretNow ELSE replaced[k][w]]
<1>2. replaced' = [replaced EXCEPT ![k] = stamped]
  BY DEF Gives
<1>3. stamped \in [Versions -> Nat]
  BY <1>0 DEF SecretShape
<1>4. \A w \in Versions :
        stamped[w] = IF w \in {intended[k], Effective(k)} THEN secretNow ELSE replaced[k][w]
  OBVIOUS
<1> HIDE DEF stamped
<1>5. replaced' \in [SecretKeys -> [Versions -> Nat]] /\ replaced'[k] = stamped
      /\ \A j \in SecretKeys : j # k => replaced'[j] = replaced[j]
  BY <1>2, <1>3 DEF SecretShape
<1>6. intended' \in [SecretKeys -> Versions]
  BY <1>0, <1>1 DEF SecretShape
<1>7. \A j \in SecretKeys, v \in Versions, t \in Nat :
        t <= secretNow + SecretTTL /\ Recent(j, v, t) => Recent(j, v, t)'
  <2> SUFFICES ASSUME NEW j \in SecretKeys, NEW v \in Versions, NEW t \in Nat,
                      t <= secretNow + SecretTTL, Recent(j, v, t)
               PROVE  Recent(j, v, t)'
    OBVIOUS
  <2>1. CASE j # k
    BY <1>5, <2>1 DEF Recent
  <2>2. CASE j = k /\ v \in {intended[k], Effective(k)}
    BY <1>0, <1>4, <1>5, <2>2 DEF Recent
  <2>3. CASE j = k /\ v \notin {intended[k], Effective(k)}
    BY <1>4, <1>5, <2>3 DEF Recent
  <2> QED
    BY <2>1, <2>2, <2>3
<1>8. ServedRecently'
  <2>1. \A p \in SecretProcesses, j \in SecretKeys : \A e \in valueCache'[p][j] :
          /\ e.value \in Versions /\ e.until \in Nat /\ e.until <= secretNow + SecretTTL
          /\ Recent(j, e.value, e.until)
    BY DEF ServedRecently, SecretShape
  <2>2. \A p \in SecretProcesses, j \in SecretKeys : \A e \in valueCache'[p][j] :
          e.until <= secretNow' + SecretTTL /\ Recent(j, e.value, e.until)'
    BY <1>7, <2>1
  <2>3. \A r \in answer' : /\ r.key \in SecretKeys /\ r.at \in Nat /\ r.at <= secretNow
                           /\ r.value # NoSecret =>
                                r.value \in Versions /\ Recent(r.key, r.value, r.at)
    BY DEF ServedRecently, SecretShape, Known
  <2>4. \A r \in answer' : r.at <= secretNow + SecretTTL
    BY <1>0, <2>3
  <2>5. \A r \in answer' :
          r.at <= secretNow' /\ (r.value # NoSecret => Recent(r.key, r.value, r.at)')
    BY <1>7, <2>3, <2>4
  <2> QED
    BY <2>2, <2>5 DEF ServedRecently
<1> QED
  BY <1>5, <1>6, <1>8

LEMMA EditSecretStep ==
  ASSUME SecretValueInv, NEW k \in SecretKeys, EditSecret(k)
  PROVE  SecretValueInv'
<1> USE SecretAssumption DEF SecretValueInv
<1>1. /\ UNCHANGED <<store, migration, valueCache, answer, secretNow>>
      /\ intended[k] < MaxVersion /\ k \notin Staged /\ Gives(k, intended[k] + 1)
      /\ row' = [row EXCEPT ![k] = intended[k] + 1]
  BY DEF EditSecret
<1>2. intended[k] \in 1..MaxVersion /\ intended[k] + 1 \in Versions
  BY <1>1 DEF SecretShape, Versions
<1>3. \A j \in SecretKeys : j # k => row'[j] = row[j] /\ intended'[j] = intended[j]
                                     /\ replaced'[j] = replaced[j]
  BY <1>1 DEF SecretShape, Gives
<1>4. /\ row'[k] = intended[k] + 1 /\ intended'[k] = intended[k] + 1
      /\ \A w \in Versions : w > intended[k] => replaced'[k][w] = replaced[k][w]
  <2>1. Effective(k) <= intended[k] /\ Effective(k) \in Known
    BY EffectiveKnown
  <2> QED
    BY <1>1, <1>2, <2>1 DEF SecretShape, Gives, Versions, Known, NoSecret
<1>5. /\ ServedRecently' /\ intended' \in [SecretKeys -> Versions]
      /\ replaced' \in [SecretKeys -> [Versions -> Nat]]
  <2>1. \A j \in SecretKeys : j # k => Effective(j)' = Effective(j)
    BY <1>1, <1>3 DEF Effective
  <2>2. UNCHANGED <<valueCache, answer, secretNow>>
    BY <1>1
  <2> HIDE DEF SecretValueInv
  <2> QED
    BY <1>1, <2>1, <2>2, GivenStep
<1>6. overlapped' \subseteq SecretKeys
      /\ \A j \in SecretKeys : j # k => (j \in overlapped' <=> j \in overlapped)
  BY DEF EditSecret, SecretShape
<1>7. SecretShape' /\ OneEntry'
  <2>1. row' \in [SecretKeys -> Known]
    BY <1>1, <1>2 DEF SecretShape, Known
  <2> QED
    BY <1>1, <1>5, <1>6, <2>1 DEF SecretShape, OneEntry
<1>8. VersionsGrow'
  <2>1. migration.pc = "run" => migration.values[k] \in Known
    BY DEF SecretShape, Runs, NoMigration
  <2>2. store[k] \in Known
    BY DEF SecretShape
  <2>3. /\ row'[k] = intended'[k] /\ store[k] <= intended'[k]
        /\ migration.pc = "run" => migration.values[k] <= intended'[k]
    BY <1>2, <1>4, <2>1, <2>2 DEF VersionsGrow, Known, Versions, NoSecret
  <2>4. \A v \in Versions : v >= intended'[k] => replaced'[k][v] = Never
    BY <1>2, <1>4 DEF VersionsGrow, Versions
  <2> QED
    BY <1>1, <1>3, <2>3, <2>4 DEF VersionsGrow
<1>9. MigrationKnows'
  <2> SUFFICES ASSUME migration.pc = "run"
               PROVE  /\ migration.staged \cap migration.todo = {}
                      /\ \A j \in migration.todo :
                           /\ row'[j] # Reference /\ migration.values[j] # Reference
                           /\ j \notin overlapped' => migration.values[j] = row'[j]
                      /\ \A j \in migration.staged :
                           row'[j] # Reference /\ (j \notin overlapped' => store[j] = intended'[j])
    BY <1>1 DEF MigrationKnows
  <2>1. k \notin migration.staged
    BY <1>1 DEF Staged
  <2>2. migration.todo \subseteq SecretKeys /\ migration.staged \subseteq SecretKeys
    BY DEF SecretShape, Runs, NoMigration
  <2>3. k \in migration.todo => k \in overlapped'
    BY DEF EditSecret
  <2>4. row'[k] # Reference
    BY <1>2, <1>4 DEF Versions, Reference
  <2> QED
    BY <1>3, <1>6, <2>1, <2>2, <2>3, <2>4 DEF MigrationKnows
<1>10. SecretSurvives'
  <2>1. \A j \in SecretKeys : j # k => Effective(j)' = Effective(j)
    BY <1>1, <1>3 DEF Effective
  <2>2. Effective(k)' = intended'[k]
    BY <1>2, <1>4 DEF Effective, Versions, Reference
  <2> QED
    BY <1>3, <1>6, <2>1, <2>2 DEF SecretSurvives
<1> QED
  BY <1>5, <1>7, <1>8, <1>9, <1>10

LEMMA RotateSourceStep ==
  ASSUME SecretValueInv, NEW k \in SecretKeys, RotateSource(k)
  PROVE  SecretValueInv'
<1> USE SecretAssumption DEF SecretValueInv
<1>1. /\ UNCHANGED <<row, migration, valueCache, answer, secretNow, overlapped>>
      /\ intended[k] < MaxVersion /\ row[k] = Reference /\ Gives(k, intended[k] + 1)
      /\ store' = [store EXCEPT ![k] = intended[k] + 1]
  BY DEF RotateSource
<1>2. intended[k] \in 1..MaxVersion /\ intended[k] + 1 \in Versions
  BY <1>1 DEF SecretShape, Versions
<1>3. \A j \in SecretKeys : j # k => store'[j] = store[j] /\ intended'[j] = intended[j]
                                     /\ replaced'[j] = replaced[j]
  BY <1>1 DEF SecretShape, Gives
<1>4. /\ store'[k] = intended[k] + 1 /\ intended'[k] = intended[k] + 1
      /\ \A w \in Versions : w > intended[k] => replaced'[k][w] = replaced[k][w]
  <2>1. Effective(k) <= intended[k] /\ Effective(k) \in Known
    BY EffectiveKnown
  <2> QED
    BY <1>1, <1>2, <2>1 DEF SecretShape, Gives, Versions, Known, NoSecret
<1>5. /\ ServedRecently' /\ intended' \in [SecretKeys -> Versions]
      /\ replaced' \in [SecretKeys -> [Versions -> Nat]]
  <2>1. \A j \in SecretKeys : j # k => Effective(j)' = Effective(j)
    BY <1>1, <1>3 DEF Effective
  <2>2. UNCHANGED <<valueCache, answer, secretNow>>
    BY <1>1
  <2> HIDE DEF SecretValueInv
  <2> QED
    BY <1>1, <2>1, <2>2, GivenStep
<1>6. SecretShape' /\ OneEntry'
  <2>1. store' \in [SecretKeys -> Known]
    BY <1>1, <1>2 DEF SecretShape, Known
  <2> QED
    BY <1>1, <1>5, <2>1 DEF SecretShape, OneEntry
<1>7. VersionsGrow'
  <2>1. migration.pc = "run" => migration.values[k] \in Known
    BY DEF SecretShape, Runs, NoMigration
  <2>2. /\ store'[k] <= intended'[k]
        /\ migration.pc = "run" => migration.values[k] <= intended'[k]
    BY <1>2, <1>4, <2>1 DEF VersionsGrow, Known, Versions, NoSecret
  <2>3. \A v \in Versions : v >= intended'[k] => replaced'[k][v] = Never
    BY <1>2, <1>4 DEF VersionsGrow, Versions
  <2> QED
    BY <1>1, <1>3, <2>2, <2>3 DEF VersionsGrow
<1>8. MigrationKnows'
  <2>1. migration.pc = "run" => migration.todo \subseteq SecretKeys
                                /\ migration.staged \subseteq SecretKeys
    BY DEF SecretShape, Runs, NoMigration
  <2>2. migration.pc = "run" => k \notin migration.todo /\ k \notin migration.staged
    BY <1>1 DEF MigrationKnows
  <2> QED
    BY <1>1, <1>3, <2>1, <2>2 DEF MigrationKnows
<1>9. SecretSurvives'
  <2>1. \A j \in SecretKeys : j # k => Effective(j)' = Effective(j)
    BY <1>1, <1>3 DEF Effective
  <2>2. Effective(k)' = intended'[k]
    BY <1>1, <1>2, <1>4 DEF Effective
  <2> QED
    BY <1>1, <1>3, <2>1, <2>2 DEF SecretSurvives
<1> QED
  BY <1>5, <1>6, <1>7, <1>8, <1>9

(* A migration moves nothing that is in force before it commits.            *)
LEMMA MigrateReadStep ==
  ASSUME SecretValueInv, NEW p \in SecretProcesses, MigrateRead(p)
  PROVE  SecretValueInv'
<1> USE SecretAssumption DEF SecretValueInv
<1>1. UNCHANGED <<row, store, valueCache, answer, intended, overlapped, replaced, secretNow>>
  BY DEF MigrateRead
<1> DEFINE new == [pc |-> "run", by |-> p, values |-> row, staged |-> {},
                   todo |-> {k \in SecretKeys : row[k] # Reference}]
<1>2. migration' = new
  BY DEF MigrateRead
<1>3. /\ new \in Runs /\ new.pc = "run" /\ new.values = row /\ new.staged = {}
      /\ new.todo = {k \in SecretKeys : row[k] # Reference}
  BY DEF Runs, SecretShape
<1> HIDE DEF new
<1>4. SecretShape' /\ OneEntry'
  BY <1>1, <1>2, <1>3 DEF SecretShape, OneEntry
<1>5. VersionsGrow'
  <2>1. \A k \in SecretKeys : row[k] <= intended[k]
    <3> SUFFICES ASSUME NEW k \in SecretKeys PROVE row[k] <= intended[k]
      OBVIOUS
    <3>1. intended[k] \in 1..MaxVersion
      BY DEF SecretShape, Versions
    <3>2. row[k] = 0 \/ row[k] = intended[k]
      BY DEF VersionsGrow, Reference
    <3> QED
      BY <3>1, <3>2
  <2> QED
    BY <1>1, <1>2, <1>3, <2>1 DEF VersionsGrow
<1>6. MigrationKnows'
  BY <1>1, <1>2, <1>3 DEF MigrationKnows
<1>7. SecretSurvives' /\ ServedRecently'
  BY <1>1 DEF SecretSurvives, ServedRecently, Recent, Effective
<1> QED
  BY <1>4, <1>5, <1>6, <1>7

LEMMA MigratePushStep ==
  ASSUME SecretValueInv, NEW k \in SecretKeys, MigratePush(k)
  PROVE  SecretValueInv'
<1> USE SecretAssumption DEF SecretValueInv
<1>1. /\ UNCHANGED <<row, answer, intended, overlapped, replaced, secretNow>>
      /\ migration.pc = "run" /\ k \in migration.todo
  BY DEF MigratePush
<1>2. migration \in Runs /\ k \notin migration.staged
  BY <1>1 DEF SecretShape, NoMigration, MigrationKnows
<1>3. /\ row[k] # Reference /\ migration.values[k] \in Versions
      /\ migration.values[k] <= intended[k]
      /\ k \notin overlapped => migration.values[k] = intended[k]
  <2>1. migration.values[k] \in Known
    BY <1>2 DEF Runs
  <2> QED
    BY <1>1, <2>1 DEF MigrationKnows, VersionsGrow, Known, NoSecret, Reference
<1>4. store' \in {store, [store EXCEPT ![k] = migration.values[k]]}
  BY DEF MigratePush, PushTaken, PushFails
<1>5. store' \in [SecretKeys -> Known] /\ store'[k] <= intended[k]
      /\ \A j \in SecretKeys : j # k => store'[j] = store[j]
  BY <1>3, <1>4 DEF SecretShape, Known, VersionsGrow
<1>6. \/ valueCache' = valueCache
      \/ valueCache' = [valueCache EXCEPT ![migration.by][k] = {}]
  BY DEF MigratePush, PushTaken, PushFails
<1>7. valueCache' \in [SecretProcesses -> [SecretKeys -> SUBSET [value : Versions, until : Nat]]]
      /\ \A p \in SecretProcesses, j \in SecretKeys : valueCache'[p][j] \subseteq valueCache[p][j]
  <2>1. migration.by \in SecretProcesses
    BY <1>2 DEF Runs
  <2>2. valueCache \in [SecretProcesses -> [SecretKeys -> SUBSET [value : Versions, until : Nat]]]
    BY DEF SecretShape
  <2>3. CASE valueCache' = valueCache
    BY <2>2, <2>3
  <2>4. CASE valueCache' = [valueCache EXCEPT ![migration.by][k] = {}]
    BY <2>1, <2>2, <2>4
  <2> QED
    BY <1>6, <2>3, <2>4
<1>8. /\ migration'.pc = "run" /\ migration'.values = migration.values
      /\ migration'.todo = migration.todo \ {k} /\ migration' \in Runs
      /\ \/ migration'.staged = migration.staged
         \/ migration'.staged = migration.staged \cup {k} /\ store'[k] = migration.values[k]
  <2>1. CASE migration' = [migration EXCEPT !.todo = @ \ {k}]
    BY <1>1, <1>2, <2>1 DEF Runs
  <2>2. CASE /\ migration' = [migration EXCEPT !.todo = @ \ {k}, !.staged = @ \cup {k}]
             /\ store' = [store EXCEPT ![k] = migration.values[k]]
    BY <1>1, <1>2, <2>2 DEF Runs, SecretShape
  <2> QED
    BY <2>1, <2>2 DEF MigratePush, PushTaken, PushFails
<1>9. SecretShape' /\ OneEntry'
  BY <1>1, <1>5, <1>7, <1>8 DEF SecretShape, OneEntry
<1>10. VersionsGrow'
  BY <1>1, <1>5, <1>8 DEF VersionsGrow
<1>11. MigrationKnows'
  <2>1. migration.todo \subseteq SecretKeys /\ migration.staged \subseteq SecretKeys
    BY <1>2 DEF Runs
  <2>2. \A j \in migration'.todo : j # k /\ j \in migration.todo
    BY <1>8
  <2>3. \A j \in migration'.staged :
          (j \in migration.staged /\ j # k) \/ (j = k /\ store'[k] = migration.values[k])
    BY <1>2, <1>8
  <2> QED
    BY <1>1, <1>2, <1>3, <1>5, <1>8, <2>1, <2>2, <2>3 DEF MigrationKnows
<1>12. \A j \in SecretKeys : Effective(j)' = Effective(j)
  BY <1>1, <1>3, <1>5 DEF Effective
<1>13. SecretSurvives'
  BY <1>1, <1>12 DEF SecretSurvives
<1>14. ServedRecently'
  <2>1. \A j \in SecretKeys : \A w, t : Recent(j, w, t)' <=> Recent(j, w, t)
    BY <1>1, <1>12 DEF Recent
  <2> QED
    BY <1>1, <1>7, <2>1 DEF ServedRecently, SecretShape
<1> QED
  BY <1>9, <1>10, <1>11, <1>13, <1>14

LEMMA MigrateCommitStep ==
  ASSUME SecretValueInv, MigrateCommit PROVE SecretValueInv'
<1> USE SecretAssumption DEF SecretValueInv
<1>1. /\ UNCHANGED <<store, valueCache, answer, intended, overlapped, replaced, secretNow>>
      /\ migration.pc = "run" /\ migration' = NoMigration
      /\ row' = [k \in SecretKeys |-> IF k \in migration.staged THEN Reference ELSE row[k]]
  BY DEF MigrateCommit
<1>2. \A k \in SecretKeys :
        row'[k] = IF k \in migration.staged THEN Reference ELSE row[k]
  BY <1>1
<1>3. row' \in [SecretKeys -> Known]
  BY <1>1 DEF SecretShape, Known, NoSecret, Reference
<1>4. SecretShape' /\ OneEntry'
  BY <1>1, <1>3 DEF SecretShape, OneEntry
<1>5. VersionsGrow' /\ MigrationKnows'
  BY <1>1, <1>2 DEF VersionsGrow, MigrationKnows, NoMigration
<1>6. \A k \in SecretKeys : Effective(k)' # Effective(k) =>
        k \in overlapped /\ k \in migration.staged /\ Effective(k) = intended[k]
  <2> SUFFICES ASSUME NEW k \in SecretKeys, Effective(k)' # Effective(k)
               PROVE  k \in overlapped /\ k \in migration.staged /\ Effective(k) = intended[k]
    OBVIOUS
  <2>1. k \in migration.staged /\ row'[k] = Reference
    BY <1>1, <1>2 DEF Effective
  <2>2. row[k] # Reference /\ row[k] = intended[k]
    BY <1>1, <2>1 DEF MigrationKnows, VersionsGrow
  <2>3. store[k] # intended[k]
    BY <1>1, <2>1, <2>2 DEF Effective
  <2> QED
    BY <1>1, <2>1, <2>2, <2>3 DEF MigrationKnows, Effective
<1>7. SecretSurvives'
  BY <1>1, <1>6 DEF SecretSurvives
<1>8. \A k \in SecretKeys, v \in Versions, t \in Nat :
        t <= secretNow + SecretTTL /\ Recent(k, v, t) => Recent(k, v, t)'
  <2> SUFFICES ASSUME NEW k \in SecretKeys, NEW v \in Versions, NEW t \in Nat,
                      t <= secretNow + SecretTTL, Recent(k, v, t)
               PROVE  Recent(k, v, t)'
    OBVIOUS
  <2>1. CASE Effective(k)' = Effective(k)
    BY <1>1, <2>1 DEF Recent
  <2>2. CASE v # Effective(k)
    BY <1>1, <2>2 DEF Recent
  <2>3. CASE v = Effective(k) /\ Effective(k)' # Effective(k)
    <3>1. v = intended[k]
      BY <1>6, <2>3
    <3>2. replaced'[k][v] = Never
      BY <1>1, <3>1 DEF VersionsGrow, Versions
    <3>3. t <= Never + SecretTTL
      BY DEF SecretShape, Never
    <3> QED
      BY <1>1, <3>2, <3>3 DEF Recent
  <2> QED
    BY <2>1, <2>2, <2>3
<1>9. ServedRecently'
  <2>1. \A p \in SecretProcesses, j \in SecretKeys : \A e \in valueCache'[p][j] :
          /\ e.value \in Versions /\ e.until \in Nat /\ e.until <= secretNow + SecretTTL
          /\ Recent(j, e.value, e.until)
    BY <1>1 DEF ServedRecently, SecretShape
  <2>2. \A p \in SecretProcesses, j \in SecretKeys : \A e \in valueCache'[p][j] :
          e.until <= secretNow' + SecretTTL /\ Recent(j, e.value, e.until)'
    BY <1>1, <1>8, <2>1
  <2>3. \A r \in answer' : /\ r.key \in SecretKeys /\ r.at \in Nat /\ r.at <= secretNow
                           /\ r.value # NoSecret =>
                                r.value \in Versions /\ Recent(r.key, r.value, r.at)
    BY <1>1 DEF ServedRecently, SecretShape, Known
  <2>4. \A r \in answer' : r.at <= secretNow + SecretTTL
    BY <2>3 DEF SecretShape
  <2>5. \A r \in answer' :
          r.at <= secretNow' /\ (r.value # NoSecret => Recent(r.key, r.value, r.at)')
    BY <1>1, <1>8, <2>3, <2>4
  <2> QED
    BY <2>2, <2>5 DEF ServedRecently
<1> QED
  BY <1>4, <1>5, <1>7, <1>9

(* Time, a revocation, and steps of other components.                       *)
LEMMA SecretTimeStep ==
  ASSUME SecretValueInv, RevokeTokens \/ SecretTick \/ UNCHANGED secretVars
  PROVE  SecretValueInv'
<1> USE SecretAssumption DEF SecretValueInv
<1>1. /\ UNCHANGED <<row, store, valueCache, migration, answer, intended, overlapped, replaced>>
      /\ secretNow' \in 0..SecretHorizon /\ secretNow' >= secretNow
  BY DEF RevokeTokens, SecretTick, secretVars, SecretShape
<1>2. SecretShape' /\ OneEntry'
  BY <1>1 DEF SecretShape, OneEntry
<1>3. VersionsGrow' /\ MigrationKnows' /\ SecretSurvives'
  BY <1>1 DEF VersionsGrow, MigrationKnows, SecretSurvives, Effective
<1>4. ServedRecently'
  <2>1. \A j \in SecretKeys : \A w, t : Recent(j, w, t)' <=> Recent(j, w, t)
    BY <1>1 DEF Recent, Effective
  <2> QED
    BY <1>1, <2>1 DEF ServedRecently, SecretShape
<1> QED
  BY <1>2, <1>3, <1>4

LEMMA SecretValueInvNext == SecretValueInv /\ [SecretNext]_secretVars => SecretValueInv'
BY ResolutionsStep, ReadSecretStep, ClearedStep, EditSecretStep, RotateSourceStep,
   MigrateReadStep, MigratePushStep, MigrateCommitStep, SecretTimeStep, Zenon
DEF SecretNext

(* No interleaving of migrations, edits, rotations, revocations and         *)
(* restarts loses a credential, but for a row edited under a migration; no  *)
(* process answers for longer than one TTL with a version that is not in    *)
(* force, nor goes on with a token it saw refused, nor caches one beyond    *)
(* its lease (secrets.py).                                                  *)
THEOREM SecretsCorrect == SecretSpec => []SecretsKept
<1>1. SecretTokenInv /\ SecretValueInv => SecretsKept
  <2> SUFFICES ASSUME SecretTokenInv, SecretValueInv PROVE SecretsKept
    OBVIOUS
  <2>1. SecretSurvives
    BY DEF SecretValueInv
  <2>2. AnswerIsRecent
    BY DEF SecretValueInv, ServedRecently, Recent, AnswerIsRecent
  <2>3. DeniedIsDropped /\ CachedTokenIsLive
    BY DEF SecretTokenInv, GoodToken, DeniedIsDropped, CachedTokenIsLive, Margin, TokenRecords
  <2> QED
    BY <2>1, <2>2, <2>3 DEF SecretsKept
<1> QED
  BY <1>1, SecretTokenInvInit, SecretTokenInvNext, SecretValueInvInit, SecretValueInvNext,
     PTL DEF SecretSpec

=============================================================================
