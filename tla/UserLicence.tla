----------------------------- MODULE UserLicence ----------------------------
(***************************************************************************)
(* The licensed number of active users.  The licence is a signed file: the *)
(* API process keeps what it read until the file's modification time       *)
(* changes, the worker's daily check reads the file each time.             *)
(***************************************************************************)
EXTENDS Naturals, FiniteSets

CONSTANTS
  LicUsers,
  FreeTier,       \* FREE_TIER_MAX_USERS
  Licences,       \* files: [signer, keyId, type, band, expires]
  TrustedKeys,    \* accepted_license_types by key
  Grace,          \* GRACE_PERIOD_DAYS
  LastDay,        \* bound: days
  MaxInstalls     \* bound: licences installed

ASSUME LicenceAssumption ==
  /\ IsFiniteSet(LicUsers)
  /\ {FreeTier, Grace, LastDay, MaxInstalls} \subseteq Nat
  /\ \A l \in Licences : l.band \in Nat

VARIABLES
  active,         \* users with an order in an active status
  licFile, mtime, \* {} or {licence}; 0 without a file
  installs,
  licCache,       \* [mtime, limit] of the API process
  today,
  announced       \* modification time of the file the worker found lapsed

licenceVars == <<active, licFile, mtime, installs, licCache, today, announced>>

Unlimited == Cardinality(LicUsers) + 1   \* more than can be active

-----------------------------------------------------------------------------
(* The licence.                                                             *)

(* verify_license_payload: the key that is named, or any that accepts the   *)
(* type; never a key that does not accept it.                               *)
Verified(l) ==
  /\ l.signer \in DOMAIN TrustedKeys
  /\ l.keyId \in {"none", l.signer}
  /\ l.type \in TrustedKeys[l.signer]

(* effective_user_limit of what load_license makes of the file on a day.    *)
KeyOf(l) == IF l.keyId = "none" THEN l.signer ELSE l.keyId

LimitOn(file, day) ==
  LET bands == {l.band : l \in {k \in file : /\ Verified(k) /\ day <= k.expires + Grace
                                             /\ "commercial" \in TrustedKeys[KeyOf(k)]}}
  IN CASE bands = {}  -> FreeTier
       [] bands = {0} -> Unlimited
       [] OTHER       -> CHOOSE b \in bands : TRUE

Fresh == [mtime |-> mtime, limit |-> LimitOn(licFile, today)]

(* Mutant of LoadLicense: read once.                                        *)
LoadedOnce == licCache

(* load_license: the file is read again when its time has changed.          *)
LoadLicense == IF licCache.mtime = mtime THEN licCache ELSE Fresh

(* license_upload: verified before it is written; an expired one as well.   *)
UploadLicence(l) ==
  /\ Verified(l) /\ installs < MaxInstalls
  /\ licFile' = {l} /\ installs' = installs + 1 /\ mtime' = installs'
  /\ licCache' = [mtime |-> mtime', limit |-> LimitOn({l}, today)]
  /\ UNCHANGED <<active, today, announced>>

(* A file put on the volume by hand: any file.                              *)
DropLicence(l) ==
  /\ installs < MaxInstalls
  /\ licFile' = {l} /\ installs' = installs + 1 /\ mtime' = installs'
  /\ UNCHANGED <<active, licCache, today, announced>>

RemoveLicence ==
  /\ licFile # {} /\ licFile' = {} /\ mtime' = 0
  /\ licCache' = [mtime |-> 0, limit |-> FreeTier]
  /\ UNCHANGED <<active, installs, today, announced>>

(* The licence page reads the file whatever the cache holds.                *)
LicensePage ==
  /\ licCache' = Fresh
  /\ UNCHANGED <<active, licFile, mtime, installs, today, announced>>

(* check_license_expiry in the worker.                                      *)
CheckLicence ==
  /\ \E l \in licFile : Verified(l) /\ today > l.expires + Grace
  /\ announced' = mtime
  /\ UNCHANGED <<active, licFile, mtime, installs, licCache, today>>

NextDay ==
  /\ today < LastDay /\ today' = today + 1
  /\ UNCHANGED <<active, licFile, mtime, installs, licCache, announced>>

-----------------------------------------------------------------------------
(* enforce_user_tier_limit: who is counted already passes.                  *)
TierAllows(u, limit) == u \in active \/ Cardinality(active) < limit

PlaceOrderOf(u) ==
  /\ licCache' = LoadLicense
  /\ active' = IF TierAllows(u, licCache'.limit) THEN active \cup {u} ELSE active
  /\ UNCHANGED <<licFile, mtime, installs, today, announced>>

(* The user's last order ends.                                              *)
EndOrdersOf(u) ==
  /\ active' = active \ {u}
  /\ UNCHANGED <<licFile, mtime, installs, licCache, today, announced>>

-----------------------------------------------------------------------------
LicenceInit ==
  /\ active = {} /\ licFile = {} /\ mtime = 0 /\ installs = 0
  /\ licCache = [mtime |-> 0, limit |-> FreeTier]
  /\ today = 0 /\ announced = 0

LicenceNext ==
  \/ \E u \in LicUsers : PlaceOrderOf(u) \/ EndOrdersOf(u)
  \/ \E l \in Licences : UploadLicence(l) \/ DropLicence(l)
  \/ RemoveLicence \/ LicensePage \/ CheckLicence \/ NextDay

LicenceSpec == LicenceInit /\ [][LicenceNext]_licenceVars

LicenceTypeOK ==
  /\ active \subseteq LicUsers
  /\ licFile \subseteq Licences /\ mtime \in 0..installs /\ installs \in 0..MaxInstalls
  /\ licCache \in [mtime : 0..MaxInstalls, limit : Nat]
  /\ today \in 0..LastDay /\ announced \in 0..MaxInstalls

(* A new user is admitted under the limit of the file that is installed, as *)
(* read on this day or an earlier one: never by a file that was replaced or *)
(* removed, or that no trusted key signed.                                  *)
LimitOfTheFile ==
  [][\A u \in active' \ active :
       \E day \in 0..today : Cardinality(active) < LimitOn(licFile, day)]_licenceVars

(* A limit above the free tier is one a commercial key signed.              *)
BandIsSigned ==
  licCache.limit # FreeTier =>
    \E l \in Licences : /\ l.signer \in DOMAIN TrustedKeys
                        /\ "commercial" \in TrustedKeys[l.signer]
                        /\ licCache.limit = IF l.band = 0 THEN Unlimited ELSE l.band

(* What is sold stands: the limit in force is of the installed file, and a  *)
(* paid one is signed.                                                      *)
LicenceStands == []BandIsSigned /\ LimitOfTheFile

=============================================================================
