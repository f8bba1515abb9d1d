------------------------------ MODULE ApiTokens -----------------------------
(***************************************************************************)
(* Bearer tokens of integrations: minted, revoked, deleted, and purged     *)
(* once they have been dead for longer than the configured window.  The    *)
(* purge reads the dead rows, writes an audit row for each, and deletes    *)
(* them by id.  Time counts in days.                                       *)
(***************************************************************************)
EXTENDS Integers, FiniteSets

CONSTANTS
  TokenIds,      \* token ids, each given out once
  Lifetimes,     \* expires_in_days a token may be minted with, 0 = no expiry
  PurgeAfter,    \* api_tokens.purge_after_days, 0 = never
  TokenHorizon   \* bound: days on which tokens are minted and revoked

ASSUME TokenAssumption ==
  Lifetimes \subseteq Nat /\ {PurgeAfter, TokenHorizon} \subseteq Nat

VARIABLES
  apiToken,      \* api_tokens by id: {} or {[role, expires, revoked]}
  minted,        \* ids given out so far
  deleting,      \* by id: the hard delete that has read the row
  revoking,      \* by id: the revocation that has read the row as not revoked
  purge,         \* the running purge: its ids, or NotRunning
  deletedRows,   \* by id: audit rows "hard_deleted"
  tokenDay

tokenVars == <<apiToken, minted, deleting, revoking, purge, deletedRows, tokenDay>>

NoExpiry == -1
NotRunning == {NoExpiry}
TokenRoles == {"superadmin", "admin", "unbound"}
TokenLastDay == TokenHorizon + PurgeAfter + 2

TokenTypeOK ==
  /\ minted \subseteq TokenIds
  /\ \A i \in TokenIds :
       /\ Cardinality(apiToken[i]) <= 1
       /\ apiToken[i] # {} => i \in minted
       /\ deletedRows[i] > 0 => apiToken[i] = {}
  /\ purge = NotRunning \/ purge \subseteq TokenIds
  /\ tokenDay \in 0..TokenLastDay

TokenInit ==
  /\ apiToken = [i \in TokenIds |-> {}]
  /\ minted = {} /\ deleting = {} /\ revoking = {}
  /\ purge = NotRunning
  /\ deletedRows = [i \in TokenIds |-> 0]
  /\ tokenDay = 0

-----------------------------------------------------------------------------
(* verify_raw_token.                                                        *)
Valid(t) == t.revoked = NoExpiry /\ (t.expires = NoExpiry \/ t.expires >= tokenDay)

(* role_at_least, for the two roles that may mint.                          *)
AtLeast(actual, required) == actual = "superadmin" \/ actual = required

(* Who mints has the role of the session or of the token that calls; a      *)
(* token without a role counts as superadmin.  Only an explicit role is     *)
(* compared with it.                                                        *)
Mint(i, creator, role, days) ==
  /\ i \notin minted /\ tokenDay <= TokenHorizon
  /\ role # "unbound" => AtLeast(creator, role)
  /\ apiToken' = [apiToken EXCEPT ![i] =
       {[role |-> role, revoked |-> NoExpiry,
         expires |-> IF days = 0 THEN NoExpiry ELSE tokenDay + days]}]
  /\ minted' = minted \cup {i}
  /\ UNCHANGED <<deleting, revoking, purge, deletedRows, tokenDay>>

MintByToken(i, j, role, days) ==
  \E t \in apiToken[j] :
    /\ Valid(t)
    /\ Mint(i, IF t.role = "unbound" THEN "superadmin" ELSE t.role, role, days)

RevokeRead(i) ==
  /\ i \notin revoking /\ tokenDay <= TokenHorizon
  /\ \E t \in apiToken[i] : t.revoked = NoExpiry
  /\ revoking' = revoking \cup {i}
  /\ UNCHANGED <<apiToken, minted, deleting, purge, deletedRows, tokenDay>>

TokenRevokeCommit(i) ==
  /\ i \in revoking /\ revoking' = revoking \ {i}
  /\ apiToken' = [apiToken EXCEPT ![i] = {[t EXCEPT !.revoked = tokenDay] : t \in @}]
  /\ UNCHANGED <<minted, deleting, purge, deletedRows, tokenDay>>

MayDelete(t) == t.revoked # NoExpiry

HardDeleteRead(i) ==
  /\ i \notin deleting
  /\ \E t \in apiToken[i] : MayDelete(t)
  /\ deleting' = deleting \cup {i}
  /\ UNCHANGED <<apiToken, minted, revoking, purge, deletedRows, tokenDay>>

(* The audit row is written whether or not the DELETE still finds the row.  *)
HardDeleteCommit(i) ==
  /\ i \in deleting /\ deleting' = deleting \ {i}
  /\ apiToken' = [apiToken EXCEPT ![i] = {}]
  /\ deletedRows' = [deletedRows EXCEPT ![i] = @ + 1]
  /\ UNCHANGED <<minted, revoking, purge, tokenDay>>

Cutoff == tokenDay - PurgeAfter

(* Mutants of PurgeDue: only revoked tokens are purged, and every expiring  *)
(* one is.                                                                  *)
DueIfRevoked(t) == t.revoked # NoExpiry /\ t.revoked < Cutoff
DueIfExpiring(t) == DueIfRevoked(t) \/ t.expires # NoExpiry

PurgeDue(t) ==
  \/ t.revoked # NoExpiry /\ t.revoked < Cutoff
  \/ t.expires # NoExpiry /\ t.expires < Cutoff

PurgeRead ==
  /\ purge = NotRunning /\ PurgeAfter > 0
  /\ purge' = {i \in TokenIds : \E t \in apiToken[i] : PurgeDue(t)}
  /\ purge' # {}
  /\ UNCHANGED <<apiToken, minted, deleting, revoking, deletedRows, tokenDay>>

PurgeCommit ==
  /\ purge # NotRunning /\ purge' = NotRunning
  /\ apiToken' = [i \in TokenIds |-> IF i \in purge THEN {} ELSE apiToken[i]]
  /\ deletedRows' = [i \in TokenIds |->
                       IF i \in purge THEN deletedRows[i] + 1 ELSE deletedRows[i]]
  /\ UNCHANGED <<minted, deleting, revoking, tokenDay>>

(* A worker that dies before the commit leaves the rows to the next night.  *)
PurgeDies ==
  /\ purge # NotRunning /\ purge' = NotRunning
  /\ tokenDay <= TokenHorizon
  /\ UNCHANGED <<apiToken, minted, deleting, revoking, deletedRows, tokenDay>>

NextTokenDay ==
  /\ tokenDay < TokenLastDay /\ tokenDay' = tokenDay + 1
  /\ UNCHANGED <<apiToken, minted, deleting, revoking, purge, deletedRows>>

-----------------------------------------------------------------------------
TokenNext ==
  \/ \E i \in TokenIds :
       \/ \E r \in TokenRoles, d \in Lifetimes :
            \/ \E c \in {"superadmin", "admin"} : Mint(i, c, r, d)
            \/ \E j \in TokenIds : MintByToken(i, j, r, d)
       \/ RevokeRead(i) \/ TokenRevokeCommit(i)
       \/ HardDeleteRead(i) \/ HardDeleteCommit(i)
  \/ PurgeRead \/ PurgeCommit \/ PurgeDies
  \/ NextTokenDay

TokenSpec == TokenInit /\ [][TokenNext]_tokenVars

(* Beat starts the purge every night, and a started request ends.           *)
TokenFairness ==
  /\ WF_tokenVars(PurgeRead) /\ WF_tokenVars(PurgeCommit)
  /\ WF_tokenVars(NextTokenDay)
  /\ \A i \in TokenIds : /\ WF_tokenVars(TokenRevokeCommit(i))
                         /\ WF_tokenVars(HardDeleteCommit(i))

-----------------------------------------------------------------------------
(* What the deletions promise: only a dead token goes, by hand when it was  *)
(* revoked, and by the purge once it has been dead for the whole window;    *)
(* a revocation or deletion between the purge's read and its delete         *)
(* included.                                                                *)
OnlyDeadTokensGo ==
  [][\A i \in TokenIds : \A t \in apiToken[i] :
       apiToken'[i] = {} => t.revoked # NoExpiry \/ (t.expires # NoExpiry /\ t.expires < Cutoff)]_tokenVars

(* When the purge is on, a token that is revoked or will expire is          *)
(* eventually gone from the table (days the horizon leaves time for).       *)
DeadTokensAreGone ==
  \A i \in TokenIds :
    (\E t \in apiToken[i] : \/ t.revoked \in 0..TokenHorizon
                            \/ t.expires \in 0..TokenHorizon + 1) ~> apiToken[i] = {}

=============================================================================
