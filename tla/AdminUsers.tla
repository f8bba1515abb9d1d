----------------------------- MODULE AdminUsers -----------------------------
(***************************************************************************)
(* Admin accounts, their cookie sessions, and the asset-type grants that   *)
(* scope the accounts of role "admin".  A handler that reads rows, awaits  *)
(* and then commits is two steps (the call is "in flight" in between); the *)
(* asset-type handlers, whose reads no other commit here can falsify, are  *)
(* one.  A session keeps the role it was signed in with: nothing re-reads  *)
(* the account until the scoping check of an asset-type call does.         *)
(***************************************************************************)
EXTENDS Naturals, FiniteSets

CONSTANTS
  Admins,        \* usernames
  TypeIds,       \* asset-type ids, each given out once
  FirstTypes,    \* asset types that exist from the start
  MaxAdminCalls, \* bound: account and grant calls
  MaxTypeCalls   \* bound: asset-type calls

NoOne == "nobody"
LegacyKey == "admin:legacy_key"

ASSUME AdminAssumption ==
  /\ FirstTypes \subseteq TypeIds
  /\ Admins \cap {NoOne, LegacyKey} = {}
  /\ {MaxAdminCalls, MaxTypeCalls} \subseteq Nat

VARIABLES
  account,       \* admin_users by username: {} or {[role, active, firstRun]}
  grant,         \* admin_user_asset_type_grants by username
  cookie,        \* the role in each admin's session cookie, NoRole if signed out
  inFlight,      \* by caller: the call between its reads and its commit
  type,          \* asset types that exist
  usedTypes,     \* ids given out so far
  author,        \* who made a type while scoped, NoOne once the grant was revoked
  setUp,         \* there has been an active superadmin
  raced,         \* two account calls overlapped
  typeEdit,      \* who last changed, copied or deleted a type, NoOne at first
  adminCalls, typeCalls

adminVars == <<account, grant, cookie, inFlight, type, usedTypes, author, setUp,
               raced, typeEdit, adminCalls, typeCalls>>

Roles == {"superadmin", "admin"}
NoRole == "none"
Callers == Admins \cup {LegacyKey}
NoAdminCall == [op |-> "idle"]

AdminTypeOK ==
  /\ \A u \in Admins : Cardinality(account[u]) <= 1 /\ grant[u] \subseteq type
  /\ cookie \in [Admins -> Roles \cup {NoRole}]
  /\ type \subseteq usedTypes /\ usedTypes \subseteq TypeIds
  /\ author \in [TypeIds -> Admins \cup {NoOne}]

AdminInit ==
  /\ account = [u \in Admins |-> {}]
  /\ grant = [u \in Admins |-> {}]
  /\ cookie = [u \in Admins |-> NoRole]
  /\ inFlight = [c \in Callers |-> NoAdminCall]
  /\ type = FirstTypes /\ usedTypes = FirstTypes
  /\ author = [t \in TypeIds |-> NoOne]
  /\ setUp = FALSE /\ raced = FALSE /\ typeEdit = NoOne
  /\ adminCalls = 0 /\ typeCalls = 0

-----------------------------------------------------------------------------
Exists(u) == account[u] # {}
Active(u) == \E a \in account[u] : a.active

ActiveSuperadmins(acc) ==
  {u \in Admins : \E a \in acc[u] : a.role = "superadmin" /\ a.active}

(* require_role: the legacy key is a superadmin, a session what its cookie  *)
(* says.                                                                    *)
RoleOf(c) == IF c = LegacyKey THEN "superadmin" ELSE cookie[c]

(* A call starts: it is now in flight with what its reads decided.          *)
Begin(c, call) ==
  /\ inFlight[c] = NoAdminCall
  /\ adminCalls < MaxAdminCalls
  /\ adminCalls' = adminCalls + 1
  /\ inFlight' = [inFlight EXCEPT ![c] = call]
  /\ UNCHANGED <<account, grant, cookie, type, usedTypes, author, setUp, raced,
                 typeEdit, typeCalls>>

(* A call ends; raced records that another account call is still in flight, *)
(* so that its reads are now old.                                           *)
End(c) ==
  /\ inFlight' = [inFlight EXCEPT ![c] = NoAdminCall]
  /\ raced' = (raced \/ \E d \in Callers \ {c} : inFlight[d].op \in {"account", "setup"})
  /\ UNCHANGED <<type, usedTypes, typeEdit, adminCalls, typeCalls>>

-----------------------------------------------------------------------------
(* Signing in and the first-run setup.                                      *)

SignIn(u) ==
  /\ cookie[u] = NoRole
  /\ \E a \in account[u] : a.active /\ cookie' = [cookie EXCEPT ![u] = a.role]
  /\ UNCHANGED <<account, grant, inFlight, type, usedTypes, author, setUp, raced,
                 typeEdit, adminCalls, typeCalls>>

SignOut(u) ==
  /\ cookie[u] # NoRole
  /\ cookie' = [cookie EXCEPT ![u] = NoRole]
  /\ UNCHANGED <<account, grant, inFlight, type, usedTypes, author, setUp, raced,
                 typeEdit, adminCalls, typeCalls>>

TableEmpty == \A u \in Admins : ~Exists(u)

SetupRead(u) == TableEmpty /\ Begin(u, [op |-> "setup"])

(* The username is unique: the insert fails when the account exists.        *)
SetupCommit(u) ==
  /\ inFlight[u].op = "setup"
  /\ IF Exists(u) THEN UNCHANGED <<account, cookie, setUp>>
     ELSE /\ account' = [account EXCEPT ![u] =
                          {[role |-> "superadmin", active |-> TRUE, firstRun |-> TRUE]}]
          /\ cookie' = [cookie EXCEPT ![u] = "superadmin"]
          /\ setUp' = TRUE
  /\ UNCHANGED <<grant, author>>
  /\ End(u)

-----------------------------------------------------------------------------
(* Accounts: every handler needs a superadmin.                              *)

CreateAdmin(c, u, r) ==
  /\ RoleOf(c) = "superadmin" /\ ~Exists(u) /\ inFlight[c] = NoAdminCall
  /\ adminCalls < MaxAdminCalls /\ adminCalls' = adminCalls + 1
  /\ account' = [account EXCEPT ![u] = {[role |-> r, active |-> TRUE, firstRun |-> FALSE]}]
  /\ setUp' = (setUp \/ r = "superadmin")
  /\ UNCHANGED <<grant, cookie, inFlight, type, usedTypes, author, raced, typeEdit,
                 typeCalls>>

(* Mutant of OthersRemain: nobody counts the superadmins.                   *)
NobodyCounts(acc) == TRUE

(* The guard against losing the last superadmin: a count, read before the   *)
(* commit.                                                                  *)
OthersRemain(acc) == Cardinality(ActiveSuperadmins(acc)) > 1

(* PUT: the role first, then is_active, judged on the role just assigned    *)
(* (the count flushes it).  A superadmin may not demote or deactivate the   *)
(* account the session is of.                                               *)
UpdateRead(c, u, role, active) ==
  /\ RoleOf(c) = "superadmin"
  /\ \E a \in account[u] :
       LET r == IF role = "keep" THEN a.role ELSE role
           on == IF active = "keep" THEN a.active ELSE active = "on"
           promoted == [account EXCEPT ![u] = {[a EXCEPT !.role = r]}]
       IN /\ r # a.role \/ on # a.active
          /\ r # a.role /\ r # "superadmin" =>
               /\ c # u
               /\ a.role = "superadmin" => OthersRemain(account)
          /\ a.active /\ ~on =>
               /\ c # u
               /\ r = "superadmin" => OthersRemain(promoted)
          /\ Begin(c, [op |-> "account", user |-> u,
                       role |-> IF r = a.role THEN "keep" ELSE r,
                       active |-> IF on = a.active THEN "keep" ELSE active])

DeleteRead(c, u) ==
  /\ RoleOf(c) = "superadmin" /\ c # u
  /\ \E a \in account[u] : a.role = "superadmin" /\ a.active => OthersRemain(account)
  /\ Exists(u)
  /\ Begin(c, [op |-> "account", user |-> u, role |-> "delete", active |-> "keep"])

(* The UPDATE names only the columns that changed, and the account by its   *)
(* row: nothing happens to one deleted meanwhile.  A deletion takes the     *)
(* grants with it.                                                          *)
AccountCommit(c) ==
  LET call == inFlight[c] IN
  /\ call.op = "account"
  /\ IF call.role = "delete"
     THEN /\ account' = [account EXCEPT ![call.user] = {}]
          /\ grant' = [grant EXCEPT ![call.user] = {}]
          /\ author' = [t \in TypeIds |-> IF author[t] = call.user THEN NoOne ELSE author[t]]
     ELSE /\ account' = [account EXCEPT ![call.user] =
                {[a EXCEPT !.role = IF call.role = "keep" THEN @ ELSE call.role,
                           !.active = IF call.active = "keep" THEN @ ELSE call.active = "on"] :
                 a \in @}]
          /\ UNCHANGED <<grant, author>>
  /\ setUp' = (setUp \/ ActiveSuperadmins(account') # {})
  /\ UNCHANGED cookie
  /\ End(c)

-----------------------------------------------------------------------------
(* Grants: PUT replaces the set by the difference with what it read.        *)

GrantsRead(c, u, requested) ==
  /\ RoleOf(c) = "superadmin" /\ Exists(u) /\ requested \subseteq type
  /\ Begin(c, [op |-> "grants", user |-> u, add |-> requested \ grant[u],
               remove |-> grant[u] \ requested, want |-> requested])

(* Mutant of NewGrants: the set is written as a whole.                      *)
WrittenGrants(call) == call.want

NewGrants(call) == (grant[call.user] \ call.remove) \cup call.add

(* An insert fails when the account or a type is gone, or the grant is      *)
(* there already: then nothing is written.                                  *)
GrantsCommit(c) ==
  LET call == inFlight[c] IN
  /\ call.op = "grants"
  /\ IF /\ call.add \subseteq type \ grant[call.user]
        /\ call.add # {} => Exists(call.user)
     THEN /\ grant' = [grant EXCEPT ![call.user] = NewGrants(call)]
          /\ author' = [t \in TypeIds |-> IF author[t] = call.user /\ t \in call.remove
                                          THEN NoOne ELSE author[t]]
     ELSE UNCHANGED <<grant, author>>
  /\ UNCHANGED <<account, cookie, setUp>>
  /\ End(c)

-----------------------------------------------------------------------------
(* Asset types.                                                             *)

(* visible_asset_type_ids: only sessions of role "admin" are scoped, to     *)
(* nothing when the account is inactive or gone, to everything when it has  *)
(* no grant.                                                                *)
Visible(c) ==
  IF RoleOf(c) # "admin" THEN TypeIds
  ELSE IF ~Active(c) THEN {}
  ELSE IF grant[c] = {} THEN TypeIds ELSE grant[c]

TypeCall(c) ==
  /\ RoleOf(c) \in Roles
  /\ typeCalls < MaxTypeCalls /\ typeCalls' = typeCalls + 1
  /\ UNCHANGED <<account, cookie, inFlight, setUp, raced, adminCalls>>

NewType(t) ==
  /\ t \notin usedTypes
  /\ usedTypes' = usedTypes \cup {t} /\ type' = type \cup {t}

(* _maybe_auto_grant_creator: only for who is scoped now.                   *)
AutoGrants(c) ==
  RoleOf(c) = "admin" /\ c # LegacyKey /\ Active(c) /\ grant[c] # {}

CreateType(c, t) ==
  /\ TypeCall(c) /\ NewType(t)
  /\ grant' = IF AutoGrants(c) THEN [grant EXCEPT ![c] = @ \cup {t}] ELSE grant
  /\ author' = [author EXCEPT ![t] =
                 IF RoleOf(c) = "admin" /\ Active(c) /\ grant[c] # {} THEN c ELSE NoOne]
  /\ UNCHANGED typeEdit

(* A copy is a new type, but its maker gets no grant for it.                *)
CloneType(c, t, n) ==
  /\ TypeCall(c) /\ t \in type \cap Visible(c) /\ NewType(n)
  /\ typeEdit' = c
  /\ UNCHANGED <<grant, author>>

UpdateType(c, t) ==
  /\ TypeCall(c) /\ t \in type \cap Visible(c)
  /\ typeEdit' = c
  /\ UNCHANGED <<type, usedTypes, grant, author>>

(* Orders, pool rows and, by the foreign key, grants go with the type.      *)
DeleteType(c, t) ==
  /\ TypeCall(c) /\ t \in type \cap Visible(c)
  /\ type' = type \ {t}
  /\ grant' = [u \in Admins |-> grant[u] \ {t}]
  /\ typeEdit' = c
  /\ UNCHANGED <<usedTypes, author>>

-----------------------------------------------------------------------------
AccountCall(c) ==
  \/ \E u \in Admins :
       \/ \E r \in Roles : CreateAdmin(c, u, r)
       \/ \E r \in Roles \cup {"keep"}, on \in {"keep", "on", "off"} : UpdateRead(c, u, r, on)
       \/ DeleteRead(c, u)
       \/ \E ts \in SUBSET type : GrantsRead(c, u, ts)
  \/ AccountCommit(c)
  \/ GrantsCommit(c)

AssetTypeCall(c) ==
  \E t \in TypeIds :
    \/ CreateType(c, t)
    \/ UpdateType(c, t)
    \/ DeleteType(c, t)
    \/ \E n \in TypeIds : CloneType(c, t, n)

AdminNext ==
  \/ \E u \in Admins : SignIn(u) \/ SignOut(u) \/ SetupRead(u) \/ SetupCommit(u)
  \/ \E c \in Callers : AccountCall(c) \/ AssetTypeCall(c)

AdminSpec == AdminInit /\ [][AdminNext]_adminVars

-----------------------------------------------------------------------------
(* Once an account exists some superadmin can sign in, whatever sequence of *)
(* calls changes, deactivates or deletes accounts.  The count and the       *)
(* commit are two steps: two calls that overlap can break it, so the        *)
(* promise is stated for calls that do not.                                 *)
SuperadminRemains == setUp /\ ~raced => ActiveSuperadmins(account) # {}

(* The first-run form makes one account: a second is only possible when two *)
(* submissions read the empty table together.                               *)
OneFirstRun ==
  ~raced => Cardinality({u \in Admins : \E a \in account[u] : a.firstRun}) <= 1

(* A scoped admin keeps sight of a type they created until a superadmin who *)
(* saw the grant takes it away: a grants edit that began before the type    *)
(* existed does not.                                                        *)
AuthorKeepsSight ==
  \A t \in type : author[t] \in Admins => t \in grant[author[t]]

(* An admin deactivated or deleted while signed in changes, copies and      *)
(* deletes no type any more, although the cookie still says "admin".        *)
FormerAdminEditsNothing ==
  [][\A u \in Admins :
       typeEdit' = u /\ typeEdit # u /\ cookie[u] = "admin" => Active(u)]_adminVars

(* The four together: nobody is locked out of the administration, and       *)
(* nobody keeps or loses a right by the order of calls that do not overlap. *)
AccountsKept ==
  [](SuperadminRemains /\ OneFirstRun /\ AuthorKeepsSight) /\ FormerAdminEditsNothing

=============================================================================
