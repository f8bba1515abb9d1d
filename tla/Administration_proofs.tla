----------------------- MODULE Administration_proofs -----------------------
(***************************************************************************)
(* The other components an administrator works with: the user licence,     *)
(* contract renewals, backups and the cost report; and then all of them    *)
(* together, as AdministrationSpec composes them.                          *)
(***************************************************************************)
EXTENDS Credentials_proofs, SetInduction

-----------------------------------------------------------------------------
(* The user licence.                                                        *)

LicenceHeld ==
  /\ licFile \subseteq Licences /\ \A k, l \in licFile : k = l
  /\ installs \in Nat /\ mtime \in 0..installs /\ today \in Nat
  /\ licCache = [mtime |-> licCache.mtime, limit |-> licCache.limit]
  /\ licCache.mtime \in 0..installs

(* A modification time is given once, so a cache of the same time is of the *)
(* same file, read on some day.                                             *)
CacheIsOfFile ==
  licCache.mtime = mtime =>
    \E day \in 0..today : licCache.limit = LimitOn(licFile, day)

LicenceInv == LicenceHeld /\ CacheIsOfFile /\ BandIsSigned

(* The limit that l, if it is good for one, stands for.                     *)
BandOf(l) == IF l.band = 0 THEN Unlimited ELSE l.band

-----------------------------------------------------------------------------
LEMMA NoFileNoBand == \A day : LimitOn({}, day) = FreeTier
BY DEF LimitOn

(* What a file allows on a day is the free tier, or its band if a           *)
(* commercial key signed it.                                                *)
LEMMA LimitIsSigned ==
  ASSUME NEW file, \A k, l \in file : k = l, NEW day
  PROVE  \/ LimitOn(file, day) = FreeTier
         \/ \E l \in file : /\ l.signer \in DOMAIN TrustedKeys
                            /\ "commercial" \in TrustedKeys[l.signer]
                            /\ LimitOn(file, day) = BandOf(l)
<1> DEFINE good == {k \in file : /\ Verified(k) /\ day <= k.expires + Grace
                                 /\ "commercial" \in TrustedKeys[KeyOf(k)]}
           bands == {l.band : l \in good}
<1>1. LimitOn(file, day) = CASE bands = {}  -> FreeTier
                             [] bands = {0} -> Unlimited
                             [] OTHER       -> CHOOSE b \in bands : TRUE
  BY DEF LimitOn
<1>2. CASE good = {}
  BY <1>1, <1>2
<1>3. CASE good # {}
  <2>1. PICK l : l \in good
    BY <1>3
  <2>2. bands = {l.band}
    BY <2>1
  <2>3. LimitOn(file, day) = BandOf(l)
    <3> HIDE DEF bands
    <3>1. CASE l.band = 0
      BY <1>1, <2>2, <3>1 DEF BandOf
    <3>2. CASE l.band # 0
      BY <1>1, <2>2, <3>2 DEF BandOf
    <3> QED
      BY <3>1, <3>2
  <2>4. l.signer \in DOMAIN TrustedKeys /\ "commercial" \in TrustedKeys[l.signer]
    BY <2>1 DEF Verified, KeyOf
  <2> QED
    BY <2>1, <2>3, <2>4
<1> QED
  BY <1>2, <1>3

(* Reading the installed file gives a limit of that file.                   *)
LEMMA FreshIsOfFile ==
  ASSUME LicenceHeld, licCache' = Fresh, UNCHANGED <<licFile, mtime, installs, today>>
  PROVE  LicenceInv'
<1>1. licCache'.mtime = mtime /\ licCache'.limit = LimitOn(licFile, today)
  BY DEF Fresh
<1>2. LicenceHeld'
  BY <1>1 DEF LicenceHeld, Fresh
<1>3. CacheIsOfFile'
  BY <1>1 DEF CacheIsOfFile, LicenceHeld
<1>4. BandIsSigned'
  BY <1>1, LimitIsSigned DEF BandIsSigned, LicenceHeld, BandOf
<1> QED
  BY <1>2, <1>3, <1>4 DEF LicenceInv

(* The cache and what it is of do not change.                               *)
LEMMA SameCache ==
  ASSUME LicenceInv, UNCHANGED <<licFile, mtime, installs, licCache, today>>
  PROVE  LicenceInv'
BY DEF LicenceInv, LicenceHeld, CacheIsOfFile, BandIsSigned

LEMMA LicenceInvInit == LicenceInit => LicenceInv
BY NoFileNoBand DEF LicenceInit, LicenceInv, LicenceHeld, CacheIsOfFile, BandIsSigned

LEMMA LicenceInvNext == LicenceInv /\ [LicenceNext]_licenceVars => LicenceInv'
<1> SUFFICES ASSUME LicenceInv, [LicenceNext]_licenceVars PROVE LicenceInv'
  OBVIOUS
<1> USE DEF LicenceInv
<1>1. ASSUME NEW u \in LicUsers, PlaceOrderOf(u)
      PROVE  LicenceInv'
  <2>1. licCache' = licCache \/ licCache' = Fresh
    BY <1>1 DEF PlaceOrderOf, LoadLicense
  <2> QED
    BY <1>1, <2>1, SameCache, FreshIsOfFile DEF PlaceOrderOf
<1>2. ASSUME NEW l \in Licences, UploadLicence(l)
      PROVE  LicenceInv'
  <2>1. /\ licCache'.mtime = mtime' /\ licCache'.limit = LimitOn(licFile', today')
        /\ licFile' = {l} /\ mtime' = installs' /\ installs' = installs + 1 /\ today' = today
        /\ licCache' = [mtime |-> licCache'.mtime, limit |-> licCache'.limit]
    BY <1>2 DEF UploadLicence
  <2>2. LicenceHeld' /\ CacheIsOfFile'
    BY <2>1 DEF LicenceHeld, CacheIsOfFile
  <2>3. BandIsSigned'
    BY <2>1, LimitIsSigned DEF BandIsSigned, BandOf
  <2> QED
    BY <2>2, <2>3
<1>3. ASSUME NEW l \in Licences, DropLicence(l)
      PROVE  LicenceInv'
  <2>1. licCache' = licCache /\ licFile' = {l} /\ mtime' = installs' /\ installs' = installs + 1
        /\ today' = today
    BY <1>3 DEF DropLicence
  <2> QED
    BY <2>1 DEF LicenceHeld, CacheIsOfFile, BandIsSigned
<1>4. CASE RemoveLicence
  <2>1. /\ licCache'.mtime = 0 /\ licCache'.limit = FreeTier /\ licFile' = {} /\ mtime' = 0
        /\ licCache' = [mtime |-> licCache'.mtime, limit |-> licCache'.limit]
        /\ installs' = installs /\ today' = today
    BY <1>4 DEF RemoveLicence
  <2>2. LicenceHeld' /\ BandIsSigned'
    BY <2>1 DEF LicenceHeld, BandIsSigned
  <2>3. CacheIsOfFile'
    BY <2>1, NoFileNoBand DEF CacheIsOfFile, LicenceHeld
  <2> QED
    BY <2>2, <2>3
<1>5. CASE LicensePage
  BY <1>5, FreshIsOfFile DEF LicensePage
<1>6. CASE CheckLicence \/ \E u \in LicUsers : EndOrdersOf(u)
  BY <1>6, SameCache DEF CheckLicence, EndOrdersOf
<1>7. CASE NextDay
  BY <1>7 DEF NextDay, LicenceHeld, CacheIsOfFile, BandIsSigned
<1>8. CASE UNCHANGED licenceVars
  BY <1>8, SameCache DEF licenceVars
<1> QED
  BY <1>1, <1>2, <1>3, <1>4, <1>5, <1>6, <1>7, <1>8 DEF LicenceNext

(* What is sold stands.                                                     *)
THEOREM LicenceCorrect == LicenceSpec => LicenceStands
<1>1. LicenceInit => LicenceInv
  BY LicenceInvInit
<1>2. LicenceInv /\ [LicenceNext]_licenceVars => LicenceInv'
  BY LicenceInvNext
<1>3. ASSUME LicenceInv, LicenceNext
      PROVE  \A u \in active' \ active :
               \E day \in 0..today : Cardinality(active) < LimitOn(licFile, day)
  <2> SUFFICES ASSUME NEW u \in active' \ active
               PROVE  \E day \in 0..today : Cardinality(active) < LimitOn(licFile, day)
    OBVIOUS
  <2>1. PlaceOrderOf(u)
    BY <1>3 DEF LicenceNext, PlaceOrderOf, EndOrdersOf, UploadLicence, DropLicence,
       RemoveLicence, LicensePage, CheckLicence, NextDay
  <2>2. Cardinality(active) < licCache'.limit
    BY <2>1 DEF PlaceOrderOf, TierAllows
  <2>3. CacheIsOfFile' /\ licCache'.mtime = mtime
    BY <1>2, <1>3, <2>1 DEF PlaceOrderOf, LoadLicense, Fresh, LicenceInv
  <2> QED
    BY <2>1, <2>2, <2>3 DEF PlaceOrderOf, CacheIsOfFile
<1>4. LicenceInv => BandIsSigned
  BY DEF LicenceInv
<1>5. LicenceInv /\ [LicenceNext]_licenceVars
        => [\A u \in active' \ active :
              \E day \in 0..today : Cardinality(active) < LimitOn(licFile, day)]_licenceVars
  BY <1>3
<1> QED
  BY <1>1, <1>2, <1>4, <1>5, PTL DEF LicenceSpec, LicenceStands, LimitOfTheFile

(* The rest of the types: users, bounds, and a limit that is a number.      *)
LicenceBounds ==
  /\ active \subseteq LicUsers /\ installs <= MaxInstalls /\ today <= LastDay
  /\ announced \in 0..MaxInstalls /\ licCache.limit \in Nat

LEMMA LimitIsNatural ==
  ASSUME NEW file, file \subseteq Licences, \A k, l \in file : k = l, NEW day
  PROVE  LimitOn(file, day) \in Nat
<1>1. Cardinality(LicUsers) \in Nat
  BY LicenceAssumption, FS_CardinalityType
<1>2. \A l \in file : BandOf(l) \in Nat
  BY <1>1, LicenceAssumption DEF BandOf, Unlimited
<1>3. FreeTier \in Nat
  BY LicenceAssumption
<1> QED
  BY <1>2, <1>3, LimitIsSigned

LEMMA LicenceBoundsInit == LicenceInit => LicenceBounds
BY LicenceAssumption DEF LicenceInit, LicenceBounds

LEMMA LicenceBoundsNext ==
  LicenceInv /\ LicenceBounds /\ [LicenceNext]_licenceVars => LicenceBounds'
<1> SUFFICES ASSUME LicenceInv, LicenceBounds, [LicenceNext]_licenceVars
             PROVE  LicenceBounds'
  OBVIOUS
<1>1. LimitOn(licFile, today) \in Nat /\ \A l \in Licences : LimitOn({l}, today) \in Nat
  BY LimitIsNatural DEF LicenceInv, LicenceHeld
<1>2. mtime \in 0..installs /\ installs \in Nat /\ today \in Nat
  BY DEF LicenceInv, LicenceHeld
<1> USE LicenceAssumption DEF LicenceBounds
<1>3. ASSUME NEW u \in LicUsers, PlaceOrderOf(u) PROVE LicenceBounds'
  <2>1. licCache'.limit = licCache.limit \/ licCache'.limit = LimitOn(licFile, today)
    BY <1>3 DEF PlaceOrderOf, LoadLicense, Fresh
  <2>2. active' \subseteq LicUsers
    BY <1>3 DEF PlaceOrderOf
  <2> QED
    BY <1>1, <1>3, <2>1, <2>2 DEF PlaceOrderOf
<1>4. ASSUME NEW l \in Licences, UploadLicence(l) \/ DropLicence(l) PROVE LicenceBounds'
  <2>1. licCache'.limit = licCache.limit \/ licCache'.limit = LimitOn({l}, today)
    BY <1>4 DEF UploadLicence, DropLicence
  <2> QED
    BY <1>1, <1>2, <1>4, <2>1 DEF UploadLicence, DropLicence
<1>5. CASE RemoveLicence \/ LicensePage
  BY <1>1, <1>5 DEF RemoveLicence, LicensePage, Fresh
<1>6. CASE CheckLicence \/ \E u \in LicUsers : EndOrdersOf(u)
  BY <1>2, <1>6 DEF CheckLicence, EndOrdersOf
<1>7. CASE NextDay
  BY <1>2, <1>7 DEF NextDay
<1>8. CASE UNCHANGED licenceVars
  BY <1>8 DEF licenceVars
<1> QED
  BY <1>3, <1>4, <1>5, <1>6, <1>7, <1>8 DEF LicenceNext

LEMMA LicenceTyped == LicenceInv /\ LicenceBounds => LicenceTypeOK
<1> SUFFICES ASSUME LicenceInv, LicenceBounds PROVE LicenceTypeOK
  OBVIOUS
<1>1. licCache \in [mtime : 0..MaxInstalls, limit : Nat]
  <2>1. licCache.mtime \in 0..MaxInstalls
    BY LicenceAssumption DEF LicenceInv, LicenceHeld, LicenceBounds
  <2> QED
    BY <2>1 DEF LicenceInv, LicenceHeld, LicenceBounds
<1> QED
  BY <1>1, LicenceAssumption DEF LicenceInv, LicenceHeld, LicenceBounds, LicenceTypeOK

-----------------------------------------------------------------------------
(* Contract renewals.                                                       *)

ContractRows == [renewal : Nat, term : Nat, stamp : Nat, set : Nat]

ContractShape ==
  /\ contract \subseteq ContractRows /\ \A c, d \in contract : c = d
  /\ \A c \in contract : c.term \in Terms /\ c.renewal \in RenewalDates
  /\ contractEdit \subseteq Nat /\ \A d, e \in contractEdit : d = e
  /\ contractEdit # {} => \A c \in contract : c.term < MaxContractEdits + 1
  /\ renewalRun \in [at : {"before", "read", "mailed", "done"}, term : Nat]
  /\ ~RenewalRunning => renewalRun \in {Before, Done}
  /\ RenewalRunning => renewalRun.term \in Terms
  /\ mailsOf \in [Terms -> Nat] /\ contractDay \in Nat /\ contractCrashes \in Nat
  /\ setMeanwhile \subseteq Terms

(* A term without a stamp has been mailed about by runs that died only, but *)
(* for the one that is about to stamp it; a later term not at all.          *)
MailsAreStamped ==
  /\ OneMailPerTerm
  /\ renewalRun.at = "read" => mailsOf[renewalRun.term] <= contractCrashes
  /\ \A c \in contract :
       /\ c.stamp = Unstamped /\ ~(renewalRun.at = "mailed" /\ renewalRun.term = c.term)
            => mailsOf[c.term] <= contractCrashes
       /\ RenewalRunning => renewalRun.term <= c.term
       /\ \A t \in Terms : t > c.term => mailsOf[t] = 0

(* A term that no edit set under a run has its own stamp or none, and a run *)
(* at work is about it.                                                     *)
StampIsOfTerm ==
  \A c \in contract :
    c.term \notin setMeanwhile => /\ c.stamp \in {Unstamped, c.term}
                                  /\ RenewalRunning => renewalRun.term = c.term

RenewalInv == ContractShape /\ MailsAreStamped /\ StampIsOfTerm /\ WindowIsNotMissed

-----------------------------------------------------------------------------
LEMMA InitialRenewals == ContractInit => RenewalInv
BY ContractAssumption DEF ContractInit, RenewalInv, ContractShape, MailsAreStamped, StampIsOfTerm,
   WindowIsNotMissed, OneMailPerTerm, ContractRows, Terms, Before, Done, Unstamped, RenewalRunning

LEMMA EditKeeps ==
  ASSUME RenewalInv,
         ReadContract \/ DeleteContract \/ \E d \in RenewalDates : UpdateContract(d)
  PROVE  RenewalInv'
<1> USE ContractAssumption DEF RenewalInv, RenewalRunning
<1>1. CASE ReadContract
  BY <1>1 DEF ReadContract, ContractShape, MailsAreStamped, StampIsOfTerm, WindowIsNotMissed,
     OneMailPerTerm, ContractRows, Terms
<1>2. CASE DeleteContract
  BY <1>2 DEF DeleteContract, ContractShape, MailsAreStamped, StampIsOfTerm, WindowIsNotMissed,
     OneMailPerTerm
<1>3. ASSUME NEW date \in RenewalDates, UpdateContract(date)
      PROVE  RenewalInv'
  <2>1. PICK read \in contractEdit :
          contract' = {[renewal |-> date, term |-> c.term + 1, stamp |-> Rearmed(read, c),
                        set |-> contractDay] : c \in contract}
    BY <1>3 DEF UpdateContract
  <2>2. contractEdit' = {} /\ UNCHANGED <<renewalRun, mailsOf, contractDay, contractCrashes>>
    BY <1>3 DEF UpdateContract
  <2>3. CASE contract = {}
    <3>1. contract' = {} /\ setMeanwhile' = setMeanwhile
      BY <1>3, <2>1, <2>3 DEF UpdateContract
    <3> QED
      BY <2>2, <3>1 DEF ContractShape, MailsAreStamped, StampIsOfTerm, WindowIsNotMissed, OneMailPerTerm
  <2>4. CASE contract # {}
    <3>1. PICK c : contract = {c} /\ c \in contract
      BY <2>4 DEF ContractShape
    <3>2. /\ c \in ContractRows /\ c.term \in Terms /\ c.term + 1 \in Terms
          /\ date \in Nat /\ read \in Nat
      BY <2>1, <3>1, ContractAssumption DEF ContractShape, Terms, ContractRows
    <3> DEFINE new == [renewal |-> date, term |-> c.term + 1, stamp |-> Rearmed(read, c),
                       set |-> contractDay]
    <3>3. contract' = {new}
      BY <2>1, <3>1
    <3>4. new \in ContractRows /\ new.term = c.term + 1 /\ new.set = contractDay
          /\ new.renewal = date /\ new.stamp = Rearmed(read, c)
      BY <3>2 DEF ContractRows, Rearmed, Unstamped, ContractShape
    <3>5. setMeanwhile' = IF RenewalRunning \/ c.stamp # read
                          THEN setMeanwhile \cup {new.term} ELSE setMeanwhile
      <4>1. (\E d \in contract, e \in contractEdit : d.stamp # e) <=> c.stamp # read
        BY <1>3, <2>1, <3>1 DEF UpdateContract, ContractShape
      <4>2. {d.term + 1 : d \in contract} = {new.term}
        BY <3>1, <3>4
      <4> QED
        BY <1>3, <4>1, <4>2 DEF UpdateContract
    <3> HIDE DEF new
    <3>6. ContractShape'
      BY <2>2, <3>2, <3>3, <3>4, <3>5 DEF ContractShape
    <3>7. MailsAreStamped'
      <4>1. c.term + 1 \in Terms /\ c.term + 1 > c.term
        BY <3>2 DEF Terms
      <4>2. mailsOf[new.term] = 0
        BY <3>1, <3>4, <4>1 DEF MailsAreStamped
      <4>3. /\ \A t \in Terms : t > new.term => mailsOf[t] = 0
            /\ RenewalRunning => renewalRun.term <= new.term
        BY <3>1, <3>2, <3>4 DEF MailsAreStamped, ContractShape, Terms
      <4>4. OneMailPerTerm' /\ RenewalRunning' = RenewalRunning
        BY <2>2 DEF MailsAreStamped, OneMailPerTerm
      <4> QED
        BY <2>2, <3>3, <4>2, <4>3, <4>4 DEF MailsAreStamped, ContractShape
    <3>8. StampIsOfTerm'
      BY <2>2, <3>1, <3>2, <3>3, <3>4, <3>5 DEF StampIsOfTerm, Rearmed, Unstamped
    <3>9. WindowIsNotMissed'
      BY <2>2, <3>3, <3>4 DEF WindowIsNotMissed, ContractShape
    <3> QED
      BY <3>6, <3>7, <3>8, <3>9
  <2> QED
    BY <2>3, <2>4
<1> QED
  BY <1>1, <1>2, <1>3

LEMMA RunKeeps ==
  ASSUME RenewalInv,
         RenewalsRead \/ RenewalsMail \/ RenewalsCommit \/ RenewalsDie \/ NextContractDay
  PROVE  RenewalInv'
<1> USE ContractAssumption DEF RenewalInv, RenewalRunning, Before, Done
<1>1. CASE RenewalsRead
  <2>1. CASE \E c \in contract : InNoticeWindow(c)
    <3>1. PICK c \in contract : InNoticeWindow(c)
      BY <2>1
    <3>2. contract = {c} /\ renewalRun' = [at |-> "read", term |-> c.term]
      BY <1>1, <3>1 DEF RenewalsRead, ContractShape
    <3> QED
      BY <1>1, <3>1, <3>2 DEF RenewalsRead, InNoticeWindow, ContractShape, MailsAreStamped,
         StampIsOfTerm, WindowIsNotMissed, OneMailPerTerm, ContractRows, Terms
  <2>2. CASE ~\E c \in contract : InNoticeWindow(c)
    <3>1. WindowIsNotMissed'
      BY <1>1, <2>2 DEF RenewalsRead, InNoticeWindow, ContractShape, StampIsOfTerm,
         WindowIsNotMissed, ContractRows, Unstamped
    <3> QED
      BY <1>1, <2>2, <3>1 DEF RenewalsRead, ContractShape, MailsAreStamped, StampIsOfTerm, OneMailPerTerm
  <2> QED
    BY <2>1, <2>2
<1>2. CASE RenewalsMail
  <2> DEFINE t == renewalRun.term
  <2>1. /\ renewalRun.at = "read" /\ renewalRun' = [at |-> "mailed", term |-> t]
        /\ t \in Terms /\ t \in Nat
        /\ UNCHANGED <<contract, contractEdit, setMeanwhile, contractDay, contractCrashes>>
    BY <1>2 DEF RenewalsMail, ContractShape, Terms
  <2>2. mailsOf' = mailsOf \/ mailsOf' = [mailsOf EXCEPT ![t] = @ + 1]
    BY <1>2 DEF RenewalsMail
  <2>3. mailsOf' \in [Terms -> Nat]
    BY <2>1, <2>2 DEF ContractShape
  <2>4. /\ \A u \in Terms : u # t => mailsOf'[u] = mailsOf[u]
        /\ mailsOf'[t] <= mailsOf[t] + 1
    BY <2>1, <2>2 DEF ContractShape
  <2> HIDE DEF t
  <2>5. ContractShape'
    BY <2>1, <2>3 DEF ContractShape
  <2>6. OneMailPerTerm'
    <3>1. mailsOf[t] <= contractCrashes /\ mailsOf[t] \in Nat /\ mailsOf'[t] \in Nat
      BY <2>1, <2>3 DEF MailsAreStamped, ContractShape, t
    <3> QED
      BY <2>1, <2>3, <2>4, <3>1 DEF MailsAreStamped, OneMailPerTerm, ContractShape
  <2>7. MailsAreStamped'
    <3> SUFFICES ASSUME NEW c \in contract
                 PROVE  /\ c.stamp = Unstamped /\ t # c.term => mailsOf'[c.term] <= contractCrashes
                        /\ t <= c.term
                        /\ \A u \in Terms : u > c.term => mailsOf'[u] = 0
      BY <2>1, <2>6 DEF MailsAreStamped
    <3>1. t <= c.term /\ c.term \in Terms
      BY <2>1 DEF MailsAreStamped, ContractShape, t
    <3>2. \A u \in Terms : u > c.term => u # t
      BY <2>1, <3>1 DEF Terms
    <3> QED
      BY <2>1, <2>4, <3>1, <3>2 DEF MailsAreStamped
  <2>8. StampIsOfTerm' /\ WindowIsNotMissed'
    BY <2>1 DEF StampIsOfTerm, WindowIsNotMissed, t
  <2> QED
    BY <2>5, <2>7, <2>8
<1>3. CASE RenewalsCommit
  <2> DEFINE t == renewalRun.term
  <2>1. /\ renewalRun.at = "mailed" /\ renewalRun' = Done /\ t \in Terms /\ t \in Nat /\ t # Unstamped
        /\ UNCHANGED <<contractEdit, mailsOf, setMeanwhile, contractDay, contractCrashes>>
    BY <1>3 DEF RenewalsCommit, ContractShape, Terms, Unstamped
  <2>2. contract' = {[c EXCEPT !.stamp = t] : c \in contract}
    BY <1>3 DEF RenewalsCommit
  <2> HIDE DEF t
  <2>3. ASSUME NEW c \in contract
        PROVE  LET d == [c EXCEPT !.stamp = t] IN
               /\ d \in ContractRows /\ d.stamp = t /\ d.term = c.term
               /\ d.renewal = c.renewal /\ d.set = c.set
    BY <2>1 DEF ContractShape, ContractRows
  <2>4. \A d \in contract' : /\ d.stamp = t
                             /\ \E c \in contract : d.term = c.term /\ d.renewal = c.renewal /\ d.set = c.set
    BY <2>2, <2>3
  <2>5. ContractShape'
    <3>1. contract' \subseteq ContractRows
      BY <2>2, <2>3
    <3>2. \A c, d \in contract' : c = d
      BY <2>2 DEF ContractShape
    <3>3. \A d \in contract' : d.term \in Terms /\ d.renewal \in RenewalDates
      BY <2>4 DEF ContractShape
    <3>4. contractEdit # {} => \A d \in contract' : d.term < MaxContractEdits + 1
      BY <2>4 DEF ContractShape
    <3> QED
      BY <2>1, <3>1, <3>2, <3>3, <3>4 DEF ContractShape
  <2>6. MailsAreStamped'
    BY <2>1, <2>4 DEF MailsAreStamped, OneMailPerTerm
  <2>7. StampIsOfTerm' /\ WindowIsNotMissed'
    BY <2>1, <2>4 DEF StampIsOfTerm, WindowIsNotMissed, t
  <2> QED
    BY <2>5, <2>6, <2>7
<1>4. CASE RenewalsDie
  <2>1. /\ renewalRun' = Before /\ contractCrashes' = contractCrashes + 1
        /\ UNCHANGED <<contract, contractEdit, mailsOf, setMeanwhile, contractDay>>
    BY <1>4 DEF RenewalsDie
  <2>2. ContractShape' /\ StampIsOfTerm' /\ WindowIsNotMissed'
    BY <2>1 DEF ContractShape, StampIsOfTerm, WindowIsNotMissed
  <2>3. \A u \in Terms : mailsOf[u] \in Nat /\ mailsOf[u] <= 1 + contractCrashes
    BY DEF ContractShape, MailsAreStamped, OneMailPerTerm
  <2>4. MailsAreStamped'
    BY <2>1, <2>3 DEF MailsAreStamped, OneMailPerTerm, ContractShape
  <2> QED
    BY <2>2, <2>4
<1>5. CASE NextContractDay
  BY <1>5 DEF NextContractDay, ContractShape, MailsAreStamped, StampIsOfTerm, WindowIsNotMissed,
     OneMailPerTerm, ContractRows, Terms
<1> QED
  BY <1>1, <1>2, <1>3, <1>4, <1>5

LEMMA RenewalInvNext == RenewalInv /\ [ContractNext]_contractVars => RenewalInv'
<1> SUFFICES ASSUME RenewalInv, [ContractNext]_contractVars PROVE RenewalInv'
  OBVIOUS
<1>1. CASE UNCHANGED contractVars
  BY <1>1 DEF contractVars, RenewalInv, ContractShape, MailsAreStamped, StampIsOfTerm,
     WindowIsNotMissed, OneMailPerTerm, RenewalRunning
<1> QED
  BY <1>1, EditKeeps, RunKeeps DEF ContractNext

(* Each term is reminded of, and once.                                      *)
THEOREM RenewalsCorrect == ContractSpec => []RenewalsKept
<1>1. RenewalInv => RenewalsKept
  BY DEF RenewalInv, RenewalsKept, MailsAreStamped
<1> QED
  BY <1>1, InitialRenewals, RenewalInvNext, PTL DEF ContractSpec

(* The rest of the types: the bounds, and a stamp of a term that was.       *)
ContractBounds ==
  /\ \A c \in contract : c.stamp <= c.term
  /\ contractDay <= ContractDays /\ contractCrashes <= MaxContractCrashes

LEMMA ContractBoundsNext ==
  RenewalInv /\ ContractBounds /\ [ContractNext]_contractVars => ContractBounds'
<1> SUFFICES ASSUME RenewalInv, ContractBounds, [ContractNext]_contractVars
             PROVE  ContractBounds'
  OBVIOUS
<1> USE ContractAssumption DEF ContractBounds
<1>0. /\ \A c \in contract : c.term \in Nat /\ c.stamp \in Nat
      /\ contractDay \in Nat /\ contractCrashes \in Nat
  BY DEF RenewalInv, ContractShape, ContractRows
<1>1. ASSUME NEW d \in RenewalDates, UpdateContract(d) PROVE ContractBounds'
  <2>1. \A c \in contract' : \E b \in contract : c.term = b.term + 1 /\ c.stamp \in {Unstamped, b.stamp}
    BY <1>1 DEF UpdateContract, Rearmed
  <2> QED
    BY <1>0, <1>1, <2>1 DEF UpdateContract, Unstamped
<1>2. CASE RenewalsCommit
  <2>1. RenewalRunning
    BY <1>2 DEF RenewalsCommit, RenewalRunning
  <2>2. \A c \in contract : renewalRun.term <= c.term
    BY <2>1 DEF RenewalInv, MailsAreStamped
  <2>3. ASSUME NEW c \in contract
        PROVE  LET d == [c EXCEPT !.stamp = renewalRun.term] IN d.stamp <= d.term
    BY <2>2 DEF RenewalInv, ContractShape, ContractRows
  <2> QED
    BY <1>2, <2>3 DEF RenewalsCommit
<1>3. CASE ReadContract \/ DeleteContract
  BY <1>3 DEF ReadContract, DeleteContract
<1>4. CASE RenewalsRead \/ RenewalsMail
  BY <1>4 DEF RenewalsRead, RenewalsMail
<1>5. CASE RenewalsDie \/ NextContractDay
  BY <1>0, <1>5 DEF RenewalsDie, NextContractDay
<1>6. CASE UNCHANGED contractVars
  BY <1>6 DEF contractVars
<1> QED
  BY <1>1, <1>2, <1>3, <1>4, <1>5, <1>6 DEF ContractNext

LEMMA ContractTyped == RenewalInv /\ ContractBounds => ContractTypeOK
<1> SUFFICES ASSUME RenewalInv, ContractBounds PROVE ContractTypeOK
  OBVIOUS
<1> USE ContractAssumption DEF RenewalInv, ContractBounds, ContractShape
<1>1. Cardinality(contract) <= 1 /\ Cardinality(contractEdit) <= 1
  BY AtMostOne
<1>2. \A c \in contract : /\ c.renewal \in RenewalDates /\ c.term \in Terms
                          /\ c.stamp \in 0..c.term
  BY DEF ContractRows, Terms
<1>3. \A t \in Terms : mailsOf[t] \in 0..(1 + MaxContractCrashes)
  BY DEF MailsAreStamped, OneMailPerTerm
<1>4. mailsOf \in [Terms -> 0..(1 + MaxContractCrashes)]
  BY <1>3
<1> QED
  BY <1>1, <1>2, <1>4 DEF ContractTypeOK

-----------------------------------------------------------------------------
(* Backups.                                                                 *)

Dumps == [rows : [Files -> RowStatuses], data : 0..MaxData]
RestorePcs == {"queued", "done", "failed"} \cup Restoring
Restores == [target : Files, pc : RestorePcs, base : 0..MaxData]

(* Of everything there is one at most; rows and files are of files that     *)
(* were named; what has been dumped is being written, and a restore that    *)
(* waits has nothing under way.                                             *)
BackupShape ==
  /\ backupRow \in [Files -> RowStatuses]
  /\ origin \in [Files -> {"unused", "plain", "locked", "upload", "safety"}]
  /\ disk \in [Files -> SUBSET Dumps] /\ part \in [Files -> SUBSET Dumps]
  /\ job \in [Files -> {"none", "queued", "ok", "bad"} \cup Running]
  /\ restore \in [Files -> SUBSET Restores] /\ asked \subseteq Files
  /\ {data, baseline} \subseteq 0..MaxData /\ {dbUp, rolledBack} \subseteq BOOLEAN
  /\ {restores, deletes} \subseteq Nat

OneOfEach ==
  \A f \in Files :
    /\ \A d, e \in disk[f] : d = e
    /\ \A d, e \in part[f] : d = e
    /\ \A r, s \in restore[f] : r = s

NamedFirst ==
  \A f \in Files :
    /\ backupRow[f] # "none" \/ disk[f] # {} \/ job[f] # "none" => origin[f] # "unused"
    /\ \A g \in Files : \A d \in disk[g] \cup part[g] : d.rows[f] # "none" => origin[f] # "unused"
    /\ restore[f] # {} => origin[f] = "safety"

DumpedHasPart ==
  \A f \in Files :
    /\ job[f] = "dumped" <=> part[f] # {}
    /\ \A r \in restore[f] : r.pc = "queued" => job[f] = "none"

(* Nothing is being dumped of a database that is not there.                 *)
NoDumpOfNothing == ~dbUp => \A f \in Files : job[f] \notin Running

(* The safety dump of a restore is on disk with the data the restore found, *)
(* or retention removed it.                                                 *)
Safe(s, base) ==
  \/ \E d \in disk[s] : d.data >= base
  \/ KeepLast > 0 /\ Cardinality(NewerFiles(s)) >= KeepLast

SafetyHolds(s, r) ==
  /\ r.pc = "drop" => job[s] = "ok" /\ Safe(s, r.base)
  /\ r.pc = "safety" =>
       /\ job[s] = "ok" => Safe(s, r.base)
       /\ job[s] = "dumped" => \A d \in part[s] : d.data >= r.base
       /\ job[s] \in {"queued", "dumping"} => data >= r.base

SafetyFirst ==
  deletes = 0 =>
    /\ \A s \in Files : \A r \in restore[s] : SafetyHolds(s, r)
    /\ ~dbUp => \E s \in Files : restore[s] # {} /\ Safe(s, baseline)

(* Who answers for a row that says "restoring" has not dropped it yet.      *)
MarkedBefore ==
  ~rolledBack => \A t \in Files : dbUp /\ backupRow[t] = "restoring" =>
    \E s \in Files : \E r \in restore[s] : r.target = t /\ r.pc \in {"queued", "safety", "drop"}

BackupInv ==
  /\ BackupShape /\ OneOfEach /\ NamedFirst /\ DumpedHasPart /\ NoDumpOfNothing
  /\ SuccessHasFile /\ SafetyFirst /\ MarkedBefore

LEMMA BackupInvInit == BackupInit => BackupInv
<1> SUFFICES ASSUME BackupInit PROVE BackupInv
  OBVIOUS
<1> USE BackupAssumption DEF BackupInit
<1>1. BackupShape
  <2>1. \A S : [f \in Files |-> {}] \in [Files -> SUBSET S]
    OBVIOUS
  <2>2. /\ backupRow \in [Files -> RowStatuses]
        /\ job \in [Files -> {"none", "queued", "ok", "bad"} \cup Running]
        /\ origin \in [Files -> {"unused", "plain", "locked", "upload", "safety"}]
    BY DEF NoRows, RowStatuses
  <2>3. /\ {data, baseline} \subseteq 0..MaxData /\ {dbUp, rolledBack} \subseteq BOOLEAN
        /\ {restores, deletes} \subseteq Nat /\ asked \subseteq Files
    <3>1. 0 \in 0..MaxData /\ 0 \in Nat
      OBVIOUS
    <3>2. {data, baseline} \subseteq 0..MaxData /\ {restores, deletes} \subseteq Nat
      BY <3>1
    <3>3. {dbUp, rolledBack} \subseteq BOOLEAN
      BY Zenon
    <3> QED
      BY <3>2, <3>3
  <2> QED
    BY <2>1, <2>2, <2>3 DEF BackupShape
<1>2. OneOfEach /\ NamedFirst /\ DumpedHasPart /\ NoDumpOfNothing
  BY DEF OneOfEach, NamedFirst, DumpedHasPart, NoDumpOfNothing, NoRows
<1>3. SuccessHasFile /\ SafetyFirst /\ MarkedBefore
  BY DEF SuccessHasFile, SafetyFirst, MarkedBefore, NoRows
<1> QED
  BY <1>1, <1>2, <1>3 DEF BackupInv

LEMMA NewerFinite ==
  ASSUME NEW S, S \subseteq Files
  PROVE  IsFiniteSet(S) /\ Cardinality(S) \in Nat
<1>1. IsFiniteSet(Files)
  BY FS_Interval, BackupAssumption DEF Files
<1>2. IsFiniteSet(S)
  BY <1>1, FS_Subset
<1> QED
  BY <1>2, FS_CardinalityType

(* Names stay given, so a safety dump that is held stays so while its file  *)
(* does.                                                                    *)
LEMMA SafeStays ==
  ASSUME NEW s \in Files, NEW base,
         \A f \in Files : origin[f] # "unused" => origin'[f] # "unused",
         disk[s] \subseteq disk'[s], Safe(s, base)
  PROVE  Safe(s, base)'
<1>1. NewerFiles(s) \subseteq NewerFiles(s)' /\ NewerFiles(s)' \subseteq Files
  BY DEF NewerFiles
<1>2. Cardinality(NewerFiles(s)) <= Cardinality(NewerFiles(s)')
      /\ Cardinality(NewerFiles(s)) \in Nat /\ Cardinality(NewerFiles(s)') \in Nat
  BY <1>1, NewerFinite, FS_Subset
<1>3. Cardinality(NewerFiles(s))' = Cardinality(NewerFiles(s)')
  OBVIOUS
<1> QED
  BY <1>2, <1>3, BackupAssumption DEF Safe

(* A file retention would delete is older than KeepLast named files.        *)
LEMMA NotKept ==
  ASSUME NEW rows \in [Files -> RowStatuses], NEW s \in Files, s \notin Kept(rows),
         \A f \in Files : rows[f] # "none" => origin[f] # "unused"
  PROVE  /\ KeepLast > 0 /\ rows[s] = "success"
         /\ Cardinality(NewerFiles(s)) >= KeepLast
<1> DEFINE newer == {g \in Files : g > s /\ rows[g] = "success"}
<1>1. KeepLast # 0 /\ rows[s] = "success" /\ ~(Cardinality(newer) < KeepLast)
  BY DEF Kept
<1>2. newer \subseteq NewerFiles(s) /\ NewerFiles(s) \subseteq Files /\ newer \subseteq Files
  BY DEF NewerFiles
<1> HIDE DEF newer
<1>3. Cardinality(newer) <= Cardinality(NewerFiles(s))
      /\ Cardinality(newer) \in Nat /\ Cardinality(NewerFiles(s)) \in Nat
  BY <1>2, NewerFinite, FS_Subset
<1> QED
  BY <1>1, <1>3, BackupAssumption

(* A new name.                                                              *)
LEMMA Unnamed ==
  ASSUME BackupInv, NEW f \in Files, NextName(f)
  PROVE  /\ origin[f] = "unused" /\ backupRow[f] = "none" /\ disk[f] = {}
         /\ job[f] = "none" /\ part[f] = {} /\ restore[f] = {}
<1>1. origin[f] = "unused"
  BY DEF NextName
<1> QED
  BY <1>1 DEF BackupInv, NamedFirst, DumpedHasPart

LEMMA NewBackupStep ==
  ASSUME BackupInv, NEW f \in Files, NEW name \in {"plain", "locked"}, NewBackup(f, name)
  PROVE  BackupInv'
<1> USE DEF BackupInv
<1>1. /\ origin' = [origin EXCEPT ![f] = name]
      /\ backupRow' = [backupRow EXCEPT ![f] = "pending"]
      /\ job' = [job EXCEPT ![f] = "queued"]
      /\ UNCHANGED <<disk, data, dbUp, part, restore, asked, rolledBack, restores,
                     baseline, deletes>>
      /\ dbUp
  BY DEF NewBackup
<1>2. /\ origin[f] = "unused" /\ backupRow[f] = "none" /\ disk[f] = {}
      /\ job[f] = "none" /\ part[f] = {} /\ restore[f] = {}
  BY Unnamed DEF NewBackup
<1>3. BackupShape'
  BY <1>1 DEF BackupShape, RowStatuses
<1>4. OneOfEach' /\ NamedFirst' /\ DumpedHasPart' /\ NoDumpOfNothing'
  BY <1>1, <1>2 DEF OneOfEach, NamedFirst, DumpedHasPart, NoDumpOfNothing, BackupShape
<1>5. SuccessHasFile' /\ MarkedBefore'
  BY <1>1, <1>2 DEF SuccessHasFile, MarkedBefore, BackupShape
<1>6. \A s \in Files : \A b : Safe(s, b) => Safe(s, b)'
  BY <1>1, SafeStays DEF BackupShape
<1>7. SafetyFirst'
  BY <1>1, <1>2, <1>6 DEF SafetyFirst, SafetyHolds, BackupShape
<1> QED
  BY <1>3, <1>4, <1>5, <1>7

LEMMA UploadStep ==
  ASSUME BackupInv, NEW f \in Files, UploadBackup(f) PROVE BackupInv'
<1> USE DEF BackupInv
<1> DEFINE dump == [rows |-> NoRows, data |-> 0]
<1>1. /\ origin' = [origin EXCEPT ![f] = "upload"]
      /\ backupRow' = [backupRow EXCEPT ![f] = "success"]
      /\ disk' = [disk EXCEPT ![f] = {dump}]
      /\ UNCHANGED <<data, dbUp, job, part, restore, asked, rolledBack, restores,
                     baseline, deletes>>
      /\ dbUp
  BY DEF UploadBackup
<1>2. /\ origin[f] = "unused" /\ backupRow[f] = "none" /\ disk[f] = {}
      /\ job[f] = "none" /\ part[f] = {} /\ restore[f] = {}
  BY Unnamed DEF UploadBackup
<1>3. dump \in Dumps /\ \A g \in Files : dump.rows[g] = "none"
  BY BackupAssumption DEF Dumps, NoRows, RowStatuses
<1> HIDE DEF dump
<1>4. BackupShape'
  BY <1>1, <1>3 DEF BackupShape, RowStatuses
<1>5. OneOfEach' /\ DumpedHasPart' /\ NoDumpOfNothing'
  BY <1>1, <1>2 DEF OneOfEach, DumpedHasPart, NoDumpOfNothing, BackupShape
<1>6. NamedFirst'
  <2>1. \A g \in Files : origin[g] # "unused" => origin'[g] # "unused"
    BY <1>1 DEF BackupShape
  <2>2. \A g, h \in Files : \A d \in disk'[h] \cup part'[h] :
          d.rows[g] # "none" => d \in disk[h] \cup part[h]
    BY <1>1, <1>3 DEF BackupShape
  <2> QED
    BY <1>1, <1>2, <2>1, <2>2 DEF NamedFirst, BackupShape
<1>7. SuccessHasFile' /\ MarkedBefore'
  BY <1>1, <1>2 DEF SuccessHasFile, MarkedBefore, BackupShape
<1>8. \A s \in Files : \A b : Safe(s, b) => Safe(s, b)'
  BY <1>1, <1>2, SafeStays DEF BackupShape
<1>9. SafetyFirst'
  BY <1>1, <1>2, <1>8 DEF SafetyFirst, SafetyHolds, BackupShape
<1> QED
  BY <1>4, <1>5, <1>6, <1>7, <1>9

LEMMA DeleteStep ==
  ASSUME BackupInv, NEW f \in Files, DeleteBackup(f) PROVE BackupInv'
<1> USE DEF BackupInv
<1>1. /\ deletes' = deletes + 1
      /\ backupRow' = [backupRow EXCEPT ![f] = "none"]
      /\ disk' \in {disk, [disk EXCEPT ![f] = {}]}
      /\ UNCHANGED <<origin, data, dbUp, job, part, restore, asked, rolledBack, restores, baseline>>
  BY DEF DeleteBackup
<1>2. BackupShape'
  BY <1>1 DEF BackupShape, RowStatuses
<1>3. \A g \in Files : disk'[g] \subseteq disk[g] /\ (backupRow'[g] # "none" =>
        backupRow'[g] = backupRow[g] /\ disk'[g] = disk[g])
  BY <1>1 DEF BackupShape
<1>4. OneOfEach' /\ NamedFirst' /\ DumpedHasPart' /\ NoDumpOfNothing'
  BY <1>1, <1>3 DEF OneOfEach, NamedFirst, DumpedHasPart, NoDumpOfNothing
<1>5. SuccessHasFile' /\ MarkedBefore'
  BY <1>1, <1>3 DEF SuccessHasFile, MarkedBefore
<1>6. SafetyFirst'
  BY <1>1 DEF SafetyFirst, BackupShape
<1> QED
  BY <1>2, <1>4, <1>5, <1>6

LEMMA WorkStep == ASSUME BackupInv, Work PROVE BackupInv'
<1> USE DEF BackupInv
<1>1. /\ data' = data + 1 /\ data < MaxData
      /\ UNCHANGED <<backupRow, origin, disk, dbUp, job, part, restore, asked, rolledBack,
                     restores, baseline, deletes>>
  BY DEF Work
<1>2. BackupShape'
  BY <1>1, BackupAssumption DEF BackupShape
<1>3. OneOfEach' /\ NamedFirst' /\ DumpedHasPart' /\ NoDumpOfNothing' /\ SuccessHasFile'
      /\ MarkedBefore'
  BY <1>1 DEF OneOfEach, NamedFirst, DumpedHasPart, NoDumpOfNothing, SuccessHasFile, MarkedBefore
<1>4. \A s \in Files : \A b : Safe(s, b)' <=> Safe(s, b)
  BY <1>1 DEF Safe, NewerFiles
<1>5. \A s \in Files : \A r \in restore[s] : SafetyHolds(s, r) => SafetyHolds(s, r)'
  BY <1>1, <1>4, BackupAssumption DEF SafetyHolds, BackupShape, Restores
<1>6. SafetyFirst'
  BY <1>1, <1>4, <1>5 DEF SafetyFirst
<1> QED
  BY <1>2, <1>3, <1>6

-----------------------------------------------------------------------------
(* _run_backup_sync.                                                        *)

LEMMA SetRowIs ==
  ASSUME BackupShape, NEW f \in Files, NEW status \in RowStatuses
  PROVE  /\ SetRow(f, status) \in [Files -> RowStatuses]
         /\ \A g \in Files : SetRow(f, status)[g] =
              IF g = f /\ backupRow[f] # "none" THEN status ELSE backupRow[g]
BY DEF SetRow, BackupShape

(* A step of a dump that leaves files, data and restores alone.             *)
LEMMA JobStep ==
  ASSUME BackupInv, NEW f \in Files, dbUp,
         NEW status \in {"running", "failed"}, NEW j \in {"dumping", "bad"},
         backupRow' = SetRow(f, status), job' = [job EXCEPT ![f] = j],
         job[f] \in {"queued", "dumping", "dumped"},
         j = "dumping" => job[f] = "queued",
         part' = [part EXCEPT ![f] = {}],
         UNCHANGED <<disk, origin, data, dbUp, restore, asked, rolledBack, restores,
                     baseline, deletes>>
  PROVE  BackupInv'
<1> USE DEF BackupInv
<1>1. /\ backupRow' \in [Files -> RowStatuses]
      /\ \A g \in Files : backupRow'[g] =
           IF g = f /\ backupRow[f] # "none" THEN status ELSE backupRow[g]
  BY SetRowIs DEF RowStatuses
<1>2. BackupShape'
  BY <1>1 DEF BackupShape, Running
<1>3. OneOfEach' /\ NamedFirst' /\ DumpedHasPart' /\ NoDumpOfNothing'
  BY <1>1 DEF OneOfEach, NamedFirst, DumpedHasPart, NoDumpOfNothing, BackupShape
<1>4. SuccessHasFile' /\ MarkedBefore'
  BY <1>1 DEF SuccessHasFile, MarkedBefore
<1>5. \A s \in Files : \A b : Safe(s, b)' <=> Safe(s, b)
  BY DEF Safe, NewerFiles
<1>6. \A s \in Files : \A r \in restore[s] : SafetyHolds(s, r) => SafetyHolds(s, r)'
  BY <1>5 DEF SafetyHolds, BackupShape
<1>7. SafetyFirst'
  BY <1>5, <1>6 DEF SafetyFirst
<1> QED
  BY <1>2, <1>3, <1>4, <1>7

LEMMA BackupStartStep ==
  ASSUME BackupInv, NEW f \in Files, BackupStart(f) \/ BackupFail(f) PROVE BackupInv'
<1>1. CASE BackupFail(f)
  <2>1. job[f] \in {"queued", "dumping", "dumped"}
    BY <1>1 DEF BackupFail, Running
  <2> QED
    BY <1>1, <2>1, JobStep DEF BackupFail, FailedRow
<1>2. CASE BackupStart(f)
  <2>1. part' = [part EXCEPT ![f] = {}] /\ job[f] = "queued"
    <3>1. part[f] = {} /\ part' = part /\ job[f] = "queued" /\ part \in [Files -> SUBSET Dumps]
      BY <1>2 DEF BackupStart, BackupInv, BackupShape, DumpedHasPart
    <3> QED
      BY <3>1
  <2> DEFINE j == IF backupRow[f] = "none" THEN "bad" ELSE "dumping"
  <2>2. j \in {"dumping", "bad"} /\ job' = [job EXCEPT ![f] = j]
    BY <1>2 DEF BackupStart
  <2> HIDE DEF j
  <2> QED
    BY <1>2, <2>1, <2>2, JobStep DEF BackupStart
<1> QED
  BY <1>1, <1>2

LEMMA BackupDumpStep ==
  ASSUME BackupInv, NEW f \in Files, BackupDump(f) PROVE BackupInv'
<1> USE DEF BackupInv
<1> DEFINE dump == [rows |-> backupRow, data |-> data]
<1>1. /\ dbUp /\ job[f] = "dumping" /\ part' = [part EXCEPT ![f] = {dump}]
      /\ job' = [job EXCEPT ![f] = "dumped"]
      /\ UNCHANGED <<backupRow, disk, origin, data, dbUp, restore, asked, rolledBack,
                     restores, baseline, deletes>>
  BY DEF BackupDump
<1>2. dump \in Dumps /\ dump.rows = backupRow /\ dump.data = data
  BY DEF Dumps, BackupShape
<1> HIDE DEF dump
<1>3. BackupShape'
  BY <1>1, <1>2 DEF BackupShape, Running
<1>4. OneOfEach' /\ DumpedHasPart' /\ NoDumpOfNothing'
  <2>1. OneOfEach' /\ NoDumpOfNothing'
    BY <1>1 DEF OneOfEach, NoDumpOfNothing, BackupShape
  <2>2. \A g \in Files : /\ job'[g] = (IF g = f THEN "dumped" ELSE job[g])
                         /\ part'[g] = (IF g = f THEN {dump} ELSE part[g])
    BY <1>1 DEF BackupShape
  <2>3. DumpedHasPart'
    BY <1>1, <2>2 DEF DumpedHasPart
  <2> QED
    BY <2>1, <2>3
<1>5. NamedFirst'
  <2>1. \A g, h \in Files : \A d \in disk'[h] \cup part'[h] :
          d = dump \/ d \in disk[h] \cup part[h]
    BY <1>1 DEF BackupShape
  <2>2. \A g \in Files : dump.rows[g] # "none" => origin[g] # "unused"
    BY <1>2 DEF NamedFirst
  <2>3. \A g \in Files : job'[g] # "none" => job[g] # "none"
    BY <1>1 DEF BackupShape
  <2> QED
    BY <1>1, <2>1, <2>2, <2>3 DEF NamedFirst
<1>6. SuccessHasFile' /\ MarkedBefore'
  BY <1>1 DEF SuccessHasFile, MarkedBefore
<1>7. \A s \in Files : \A b : Safe(s, b)' <=> Safe(s, b)
  BY <1>1 DEF Safe, NewerFiles
<1>8. \A s \in Files : \A r \in restore[s] : SafetyHolds(s, r) => SafetyHolds(s, r)'
  BY <1>1, <1>2, <1>7 DEF SafetyHolds, BackupShape
<1>9. SafetyFirst'
  BY <1>1, <1>7, <1>8 DEF SafetyFirst
<1> QED
  BY <1>3, <1>4, <1>5, <1>6, <1>9

LEMMA BackupFinishStep ==
  ASSUME BackupInv, NEW f \in Files, BackupFinish(f) PROVE BackupInv'
<1> USE DEF BackupInv
<1> DEFINE done == SetRow(f, "success")
<1>1. /\ dbUp /\ job[f] = "dumped"
      /\ backupRow' = [g \in Files |-> IF g \in Kept(done) THEN done[g] ELSE "none"]
      /\ disk' = [g \in Files |-> IF g \notin Kept(done) THEN {}
                                  ELSE IF g = f THEN part[f] ELSE disk[g]]
      /\ job' = [job EXCEPT ![f] = "ok"] /\ part' = [part EXCEPT ![f] = {}]
      /\ UNCHANGED <<origin, data, dbUp, restore, asked, rolledBack, restores, baseline, deletes>>
  BY DEF BackupFinish
<1>2. /\ done \in [Files -> RowStatuses]
      /\ \A g \in Files : done[g] = IF g = f /\ backupRow[f] # "none" THEN "success" ELSE backupRow[g]
  BY SetRowIs DEF RowStatuses
<1>3. part[f] # {} /\ origin[f] # "unused"
  BY <1>1 DEF DumpedHasPart, NamedFirst
<1>4. \A g \in Files : done[g] # "none" => origin[g] # "unused"
  BY <1>2 DEF NamedFirst
<1> HIDE DEF done
<1>5. BackupShape'
  <2>1. backupRow' \in [Files -> RowStatuses]
    BY <1>1, <1>2 DEF RowStatuses
  <2>2. disk' \in [Files -> SUBSET Dumps]
    BY <1>1 DEF BackupShape
  <2>3. job' \in [Files -> {"none", "queued", "ok", "bad"} \cup Running]
        /\ part' \in [Files -> SUBSET Dumps]
    BY <1>1 DEF BackupShape
  <2> QED
    BY <1>1, <2>1, <2>2, <2>3 DEF BackupShape
<1>6. \A g \in Files : disk'[g] = {} \/ (disk'[g] = disk[g] /\ g # f) \/ (g = f /\ disk'[g] = part[f])
  BY <1>1
<1>7. \A g \in Files : backupRow'[g] \in {done[g], "none"}
  BY <1>1
<1>8. OneOfEach' /\ DumpedHasPart' /\ NoDumpOfNothing'
  BY <1>1, <1>6 DEF OneOfEach, DumpedHasPart, NoDumpOfNothing, BackupShape
<1>9. NamedFirst'
  <2>1. \A h \in Files : \A d \in disk'[h] \cup part'[h] :
          \E g \in Files : d \in disk[g] \cup part[g]
    BY <1>1, <1>6 DEF BackupShape
  <2>2. \A h \in Files : /\ backupRow'[h] # "none" => origin[h] # "unused"
                         /\ disk'[h] # {} => origin[h] # "unused"
                         /\ job'[h] # "none" => origin[h] # "unused"
    BY <1>1, <1>3, <1>4, <1>6, <1>7 DEF NamedFirst, BackupShape
  <2> QED
    BY <1>1, <2>1, <2>2 DEF NamedFirst
<1>10. SuccessHasFile'
  <2> SUFFICES ASSUME restores = 0, NEW g \in Files, backupRow'[g] = "success"
               PROVE  disk'[g] # {}
    BY <1>1 DEF SuccessHasFile
  <2>1. g \in Kept(done) /\ done[g] = "success"
    BY <1>1
  <2>2. CASE g = f
    BY <1>1, <1>3, <2>1, <2>2
  <2>3. CASE g # f
    BY <1>1, <1>2, <2>1, <2>3 DEF SuccessHasFile
  <2> QED
    BY <2>2, <2>3
<1>11. MarkedBefore'
  <2>1. \A g \in Files : backupRow'[g] = "restoring" => backupRow[g] = "restoring"
    BY <1>2, <1>7
  <2> QED
    BY <1>1, <2>1 DEF MarkedBefore
<1>12. \A s \in Files : \A b : s # f /\ Safe(s, b) => Safe(s, b)'
  <2> SUFFICES ASSUME NEW s \in Files, NEW b, s # f, Safe(s, b) PROVE Safe(s, b)'
    OBVIOUS
  <2>1. CASE s \in Kept(done)
    BY <1>1, <2>1 DEF Safe, NewerFiles
  <2>2. CASE s \notin Kept(done)
    BY <1>1, <1>2, <1>4, <2>2, NotKept DEF Safe, NewerFiles
  <2> QED
    BY <2>1, <2>2
<1>13. \A b : (\A d \in part[f] : d.data >= b) => Safe(f, b)'
  <2> SUFFICES ASSUME NEW b, \A d \in part[f] : d.data >= b PROVE Safe(f, b)'
    OBVIOUS
  <2>1. CASE f \in Kept(done)
    <3>1. disk'[f] = part[f]
      BY <1>1, <2>1
    <3> QED
      BY <1>3, <3>1 DEF Safe
  <2>2. CASE f \notin Kept(done)
    BY <1>1, <1>2, <1>4, <2>2, NotKept DEF Safe, NewerFiles
  <2> QED
    BY <2>1, <2>2
<1>14. \A s \in Files : \A r \in restore[s] : SafetyHolds(s, r) => SafetyHolds(s, r)'
  <2> SUFFICES ASSUME NEW s \in Files, NEW r \in restore[s], SafetyHolds(s, r)
               PROVE  SafetyHolds(s, r)'
    OBVIOUS
  <2>1. CASE s # f
    BY <1>1, <1>12, <2>1 DEF SafetyHolds, BackupShape
  <2>2. CASE s = f
    BY <1>1, <1>13, <2>2 DEF SafetyHolds, BackupShape
  <2> QED
    BY <2>1, <2>2
<1>15. SafetyFirst'
  BY <1>1, <1>14 DEF SafetyFirst
<1> QED
  BY <1>5, <1>8, <1>9, <1>10, <1>11, <1>15

-----------------------------------------------------------------------------
(* restore_backup and run_restore.                                          *)

LEMMA AskStep == ASSUME BackupInv, NEW t \in Files, AskRestore(t) PROVE BackupInv'
<1> USE DEF BackupInv
<1>1. /\ asked' = asked \cup {t}
      /\ UNCHANGED <<backupRow, origin, disk, data, dbUp, job, part, restore,
                     rolledBack, restores, baseline, deletes>>
  BY DEF AskRestore
<1>2. BackupShape' /\ OneOfEach' /\ NamedFirst' /\ DumpedHasPart' /\ NoDumpOfNothing'
  BY <1>1 DEF BackupShape, OneOfEach, NamedFirst, DumpedHasPart, NoDumpOfNothing
<1>3. SuccessHasFile' /\ SafetyFirst' /\ MarkedBefore'
  <2>1. \A s \in Files : \A b : Safe(s, b)' <=> Safe(s, b)
    BY <1>1 DEF Safe, NewerFiles
  <2>2. \A s \in Files : \A r \in restore[s] : SafetyHolds(s, r) => SafetyHolds(s, r)'
    BY <1>1, <2>1 DEF SafetyHolds
  <2> QED
    BY <1>1, <2>1, <2>2 DEF SuccessHasFile, SafetyFirst, MarkedBefore
<1> QED
  BY <1>2, <1>3

LEMMA CommitStep ==
  ASSUME BackupInv, NEW t \in Files, NEW s \in Files, CommitRestore(t, s) PROVE BackupInv'
<1> USE DEF BackupInv
<1>1. /\ asked' = asked \ {t}
      /\ UNCHANGED <<disk, data, dbUp, job, part, rolledBack, restores, baseline, deletes>>
  BY DEF CommitRestore
<1>2. CASE UNCHANGED <<backupRow, origin, restore>>
  <2>1. BackupShape' /\ OneOfEach' /\ NamedFirst' /\ DumpedHasPart' /\ NoDumpOfNothing'
    BY <1>1, <1>2 DEF BackupShape, OneOfEach, NamedFirst, DumpedHasPart, NoDumpOfNothing
  <2>2. SuccessHasFile' /\ SafetyFirst' /\ MarkedBefore'
    <3>1. \A f \in Files : \A b : Safe(f, b)' <=> Safe(f, b)
      BY <1>1, <1>2 DEF Safe, NewerFiles
    <3>2. \A f \in Files : \A r \in restore[f] : SafetyHolds(f, r) => SafetyHolds(f, r)'
      BY <1>1, <1>2, <3>1 DEF SafetyHolds
    <3> QED
      BY <1>1, <1>2, <3>1, <3>2 DEF SuccessHasFile, SafetyFirst, MarkedBefore
  <2> QED
    BY <2>1, <2>2
<1>3. CASE /\ dbUp /\ backupRow[t] # "none" /\ NextName(s)
           /\ origin' = [origin EXCEPT ![s] = "safety"]
           /\ backupRow' = [backupRow EXCEPT ![s] = "pending", ![t] = "restoring"]
           /\ restore' = [restore EXCEPT ![s] = {[target |-> t, pc |-> "queued", base |-> 0]}]
  <2> DEFINE new == [target |-> t, pc |-> "queued", base |-> 0]
  <2>1. new \in Restores /\ new.target = t /\ new.pc = "queued"
    BY BackupAssumption DEF Restores, RestorePcs
  <2>2. restore' = [restore EXCEPT ![s] = {new}]
    BY <1>3
  <2> HIDE DEF new
  <2>3. /\ origin[s] = "unused" /\ backupRow[s] = "none" /\ disk[s] = {}
        /\ job[s] = "none" /\ part[s] = {} /\ restore[s] = {}
    BY <1>3, Unnamed
  <2>4. BackupShape'
    BY <1>1, <1>3, <2>1, <2>2 DEF BackupShape, RowStatuses
  <2>5. OneOfEach' /\ NamedFirst' /\ DumpedHasPart' /\ NoDumpOfNothing'
    BY <1>1, <1>3, <2>2, <2>3
    DEF OneOfEach, NamedFirst, DumpedHasPart, NoDumpOfNothing, BackupShape
  <2>6. SuccessHasFile' /\ MarkedBefore'
    BY <1>1, <1>3, <2>1, <2>2, <2>3 DEF SuccessHasFile, MarkedBefore, BackupShape
  <2>7. \A f \in Files : \A b : Safe(f, b) => Safe(f, b)'
    BY <1>1, <1>3, SafeStays DEF BackupShape
  <2>8. SafetyFirst'
    BY <1>1, <1>3, <2>1, <2>2, <2>3, <2>7 DEF SafetyFirst, SafetyHolds, BackupShape
  <2> QED
    BY <2>4, <2>5, <2>6, <2>8
<1> QED
  BY <1>2, <1>3 DEF CommitRestore

(* The restore a worker has at hand, and where it goes.                     *)
LEMMA TheRestore ==
  ASSUME BackupInv, NEW s \in Files, NEW t \in Files, NEW pc, At(s, pc, t),
         NEW q \in RestorePcs
  PROVE  \E r, now \in Restores :
           /\ restore[s] = {r} /\ r.target = t /\ r.pc = pc
           /\ now = [r EXCEPT !.pc = q] /\ now.target = t /\ now.pc = q /\ now.base = r.base
           /\ Goto(s, q) => restore' = [restore EXCEPT ![s] = {now}]
<1> USE DEF BackupInv
<1>1. PICK r \in restore[s] : r.target = t /\ r.pc = pc
  BY DEF At
<1>2. restore[s] = {r} /\ r \in Restores
  BY <1>1 DEF OneOfEach, BackupShape
<1> DEFINE now == [r EXCEPT !.pc = q]
<1>3. /\ now \in Restores /\ now.target = t /\ now.pc = q /\ now.base = r.base
  BY <1>1, <1>2 DEF Restores
<1>4. {[x EXCEPT !.pc = q] : x \in restore[s]} = {now}
  BY <1>2
<1>5. Goto(s, q) => restore' = [restore EXCEPT ![s] = {now}]
  <2> HIDE DEF now
  <2> QED
    BY <1>4 DEF Goto, BackupShape
<1> QED
  BY <1>1, <1>2, <1>3, <1>5

(* A step of a restore that leaves the database and its files alone.        *)
LEMMA QuietRestoreStep ==
  ASSUME BackupInv, NEW s \in Files, NEW r \in Restores, NEW now \in Restores,
         restore[s] = {r}, restore' = [restore EXCEPT ![s] = {now}], now.target = r.target,
         backupRow' \in [Files -> RowStatuses],
         \A f \in Files : backupRow'[f] # backupRow[f] =>
           f = r.target /\ backupRow[f] # "none" /\ backupRow'[f] \in {"restoring", "restore_failed"},
         backupRow'[r.target] = "restoring" /\ dbUp =>
           (now.pc \in {"queued", "safety", "drop"} \/ r.pc \notin {"queued", "safety", "drop"}),
         backupRow'[r.target] = "restoring" =>
           (backupRow[r.target] = "restoring" \/ now.pc \in {"queued", "safety", "drop"}),
         deletes = 0 => SafetyHolds(s, now)',
         job' \in [Files -> {"none", "queued", "ok", "bad"} \cup Running],
         \A f \in Files : f # s => job'[f] = job[f] /\ part'[f] = part[f],
         \/ job'[s] = job[s] /\ part'[s] = part[s]
         \/ job'[s] \in {"none", "queued"} /\ part'[s] = {} /\ (dbUp \/ job'[s] = "none"),
         now.pc = "queued" => job'[s] = "none",
         part' \in [Files -> SUBSET Dumps],
         UNCHANGED <<origin, disk, data, dbUp, asked, rolledBack, restores, baseline, deletes>>
  PROVE  BackupInv'
<1> USE DEF BackupInv
<1>1. BackupShape'
  BY DEF BackupShape
<1>2. origin[s] = "safety" /\ r.target \in Files
  BY DEF NamedFirst, Restores
<1>3. \A f \in Files : /\ f # s => restore'[f] = restore[f]
                       /\ f = s => restore'[f] = {now}
  BY DEF BackupShape
<1>4. OneOfEach' /\ DumpedHasPart' /\ NoDumpOfNothing'
  <2>1. OneOfEach' /\ NoDumpOfNothing'
    BY <1>3 DEF OneOfEach, NoDumpOfNothing, Running
  <2>2. ASSUME NEW f \in Files
        PROVE  /\ job'[f] = "dumped" <=> part'[f] # {}
               /\ \A x \in restore'[f] : x.pc = "queued" => job'[f] = "none"
    <3>1. CASE f # s
      BY <1>3, <3>1 DEF DumpedHasPart
    <3>2. CASE f = s
      BY <1>3, <3>2 DEF DumpedHasPart
    <3> QED
      BY <3>1, <3>2
  <2>3. DumpedHasPart'
    BY <2>2 DEF DumpedHasPart
  <2> QED
    BY <2>1, <2>3
<1>5. NamedFirst'
  BY <1>2, <1>3 DEF NamedFirst
<1>6. SuccessHasFile'
  BY DEF SuccessHasFile
<1>7. MarkedBefore'
  BY <1>2, <1>3 DEF MarkedBefore
<1>8. \A f \in Files : \A b : Safe(f, b)' <=> Safe(f, b)
  BY DEF Safe, NewerFiles
<1>9. \A f \in Files : \A x \in restore[f] : f # s /\ SafetyHolds(f, x) => SafetyHolds(f, x)'
  BY <1>8 DEF SafetyHolds
<1>10. SafetyFirst'
  BY <1>3, <1>8, <1>9 DEF SafetyFirst
<1> QED
  BY <1>1, <1>4, <1>5, <1>6, <1>7, <1>10

LEMMA RestoreStartStep ==
  ASSUME BackupInv, NEW s \in Files, NEW t \in Files, RestoreStart(s, t) PROVE BackupInv'
<1>0. /\ At(s, "queued", t)
      /\ UNCHANGED <<origin, disk, data, dbUp, part, asked, rolledBack, restores, baseline, deletes>>
  BY DEF RestoreStart
<1>1. PICK r \in Restores, now \in Restores :
        /\ restore[s] = {r} /\ r.target = t /\ r.pc = "queued"
        /\ now.target = t /\ now.pc = "failed" /\ now.base = r.base
        /\ Goto(s, "failed") => restore' = [restore EXCEPT ![s] = {now}]
  BY <1>0, TheRestore DEF RestorePcs
<1>2. job[s] = "none" /\ part[s] = {}
  BY <1>1 DEF BackupInv, DumpedHasPart
<1>3. CASE Goto(s, "failed") /\ UNCHANGED <<backupRow, job>> /\ (~dbUp \/ backupRow[t] = "none")
  <2>1. SafetyHolds(s, now)'
    BY <1>1 DEF SafetyHolds
  <2>2. backupRow \in [Files -> RowStatuses]
        /\ job \in [Files -> {"none", "queued", "ok", "bad"} \cup Running]
        /\ part \in [Files -> SUBSET Dumps]
    BY DEF BackupInv, BackupShape
  <2>3. backupRow'[r.target] = "restoring" /\ dbUp => FALSE
    BY <1>1, <1>3
  <2>4. restore' = [restore EXCEPT ![s] = {now}]
    BY <1>1, <1>3
  <2>5. backupRow'[r.target] = backupRow[r.target]
    BY <1>3
  <2> QED
    BY <1>0, <1>1, <1>2, <1>3, <2>1, <2>2, <2>3, <2>4, <2>5, QuietRestoreStep
<1>4. CASE /\ dbUp /\ backupRow[t] # "none"
           /\ Goto(s, "failed") /\ backupRow' = RefusedRow(t) /\ UNCHANGED job
  <2>1. SafetyHolds(s, now)'
    BY <1>1 DEF SafetyHolds
  <2>2. job \in [Files -> {"none", "queued", "ok", "bad"} \cup Running]
        /\ part \in [Files -> SUBSET Dumps]
    BY DEF BackupInv, BackupShape
  <2>3. /\ backupRow' \in [Files -> RowStatuses]
        /\ \A f \in Files : backupRow'[f] = IF f = t THEN "restore_failed" ELSE backupRow[f]
    BY <1>4, SetRowIs DEF RefusedRow, RowStatuses, BackupInv
  <2>4. restore' = [restore EXCEPT ![s] = {now}]
    BY <1>1, <1>4
  <2> QED
    <3>1. restore[s] = {r} /\ now.target = r.target
      BY <1>1
    <3>2. \A f \in Files : backupRow'[f] # backupRow[f] =>
            f = r.target /\ backupRow[f] # "none" /\ backupRow'[f] \in {"restoring", "restore_failed"}
      BY <1>1, <1>4, <2>3
    <3>5. backupRow' \in [Files -> RowStatuses]
      BY <2>3
    <3>6. job' \in [Files -> {"none", "queued", "ok", "bad"} \cup Running]
          /\ part' \in [Files -> SUBSET Dumps]
      BY <1>0, <1>4, <2>2
    <3>7. /\ backupRow'[r.target] = "restoring" /\ dbUp =>
               (now.pc \in {"queued", "safety", "drop"} \/ r.pc \notin {"queued", "safety", "drop"})
          /\ backupRow'[r.target] = "restoring" =>
               (backupRow[r.target] = "restoring" \/ now.pc \in {"queued", "safety", "drop"})
      BY <1>1, <2>3
    <3>8. \A f \in Files : f # s => job'[f] = job[f] /\ part'[f] = part[f]
      BY <1>0, <1>4, <2>2
    <3>9. /\ \/ job'[s] = job[s] /\ part'[s] = part[s]
             \/ job'[s] \in {"none", "queued"} /\ part'[s] = {} /\ (dbUp \/ job'[s] = "none")
          /\ now.pc = "queued" => job'[s] = "none"
      BY <1>0, <1>1, <1>2, <1>4, <2>2
    <3> HIDE DEF BackupInv
    <3> QED
      BY <1>0, <2>1, <2>4, <3>1, <3>2, <3>5, <3>6, <3>7, <3>8, <3>9, QuietRestoreStep
<1>5. CASE /\ dbUp /\ backupRow[t] # "none" /\ UNCHANGED backupRow
           /\ restore' = [restore EXCEPT ![s] = {[target |-> t, pc |-> "safety", base |-> data]}]
           /\ job' = [job EXCEPT ![s] = "queued"]
  <2>1. PICK new : new = [target |-> t, pc |-> "safety", base |-> data]
    OBVIOUS
  <2>2. /\ new \in Restores /\ new.target = t /\ new.pc = "safety" /\ new.base = data
        /\ restore' = [restore EXCEPT ![s] = {new}]
    BY <1>5, <2>1 DEF Restores, RestorePcs, Restoring, BackupInv, BackupShape
  <2>3. backupRow \in [Files -> RowStatuses] /\ data \in 0..MaxData
        /\ job \in [Files -> {"none", "queued", "ok", "bad"} \cup Running]
        /\ part \in [Files -> SUBSET Dumps]
    BY DEF BackupInv, BackupShape
  <2>4. job'[s] = "queued" /\ (\A f \in Files : f # s => job'[f] = job[f])
        /\ job' \in [Files -> {"none", "queued", "ok", "bad"} \cup Running]
    BY <1>5, <2>3
  <2>5. SafetyHolds(s, new)'
    BY <1>0, <2>2, <2>3, <2>4, BackupAssumption DEF SafetyHolds
  <2> QED
    <3>1. restore[s] = {r} /\ new.target = r.target
      BY <1>1, <2>2
    <3>2. \A f \in Files : backupRow'[f] # backupRow[f] =>
            f = r.target /\ backupRow[f] # "none" /\ backupRow'[f] \in {"restoring", "restore_failed"}
      BY <1>5
    <3>5. backupRow' \in [Files -> RowStatuses]
      BY <1>5, <2>2, <2>3
    <3>6. job' \in [Files -> {"none", "queued", "ok", "bad"} \cup Running]
          /\ part' \in [Files -> SUBSET Dumps]
      BY <1>0, <1>5, <2>2, <2>3, <2>4
    <3>7. /\ backupRow'[r.target] = "restoring" /\ dbUp =>
               (new.pc \in {"queued", "safety", "drop"} \/ r.pc \notin {"queued", "safety", "drop"})
          /\ backupRow'[r.target] = "restoring" =>
               (backupRow[r.target] = "restoring" \/ new.pc \in {"queued", "safety", "drop"})
      BY <1>1, <1>5, <2>2, <2>3
    <3>8. \A f \in Files : f # s => job'[f] = job[f] /\ part'[f] = part[f]
      BY <1>0, <1>5, <2>2, <2>3, <2>4
    <3>9. /\ \/ job'[s] = job[s] /\ part'[s] = part[s]
             \/ job'[s] \in {"none", "queued"} /\ part'[s] = {} /\ (dbUp \/ job'[s] = "none")
          /\ new.pc = "queued" => job'[s] = "none"
      BY <1>0, <1>1, <1>2, <1>5, <2>2, <2>3, <2>4
    <3> HIDE DEF BackupInv
    <3> QED
      BY <1>0, <2>2, <2>5, <3>1, <3>2, <3>5, <3>6, <3>7, <3>8, <3>9, QuietRestoreStep
<1> QED
  BY <1>3, <1>4, <1>5 DEF RestoreStart

LEMMA AfterSafetyStep ==
  ASSUME BackupInv, NEW s \in Files, NEW t \in Files, AfterSafety(s, t) PROVE BackupInv'
<1>0. /\ At(s, "safety", t) /\ dbUp
      /\ UNCHANGED <<origin, disk, data, dbUp, job, part, asked, rolledBack, restores,
                     baseline, deletes>>
  BY DEF AfterSafety
<1>1. ASSUME NEW q \in {"drop", "failed"}, NEW status \in {"restoring", "restore_failed"},
             Goto(s, q), backupRow' = SetRow(t, status),
             q = "drop" => job[s] = "ok", q = "failed" => status = "restore_failed"
      PROVE  BackupInv'
  <2>1. PICK r \in Restores, now \in Restores :
          /\ restore[s] = {r} /\ r.target = t /\ r.pc = "safety"
          /\ now.target = t /\ now.pc = q /\ now.base = r.base
          /\ restore' = [restore EXCEPT ![s] = {now}]
    BY <1>0, <1>1, TheRestore DEF RestorePcs, Restoring
  <2>2. job \in [Files -> {"none", "queued", "ok", "bad"} \cup Running]
        /\ part \in [Files -> SUBSET Dumps]
    BY DEF BackupInv, BackupShape
  <2>3. /\ backupRow' \in [Files -> RowStatuses]
        /\ \A f \in Files :
             backupRow'[f] = IF f = t /\ backupRow[t] # "none" THEN status ELSE backupRow[f]
    BY <1>1, SetRowIs DEF RowStatuses, BackupInv
  <2>4. deletes = 0 => SafetyHolds(s, r)
    BY <2>1 DEF BackupInv, SafetyFirst
  <2>5. deletes = 0 => SafetyHolds(s, now)'
    <3>1. \A b : Safe(s, b)' <=> Safe(s, b)
      BY <1>0 DEF Safe, NewerFiles
    <3> QED
      BY <1>0, <1>1, <2>1, <2>4, <3>1 DEF SafetyHolds
  <2> QED
    <3>1. restore[s] = {r} /\ restore' = [restore EXCEPT ![s] = {now}] /\ now.target = r.target
      BY <2>1
    <3>2. \A f \in Files : backupRow'[f] # backupRow[f] =>
            f = r.target /\ backupRow[f] # "none" /\ backupRow'[f] \in {"restoring", "restore_failed"}
      BY <2>1, <2>3
    <3>3. backupRow'[r.target] = "restoring" => now.pc \in {"queued", "safety", "drop"}
             \/ (backupRow[r.target] = "restoring" /\ ~(r.pc \in {"queued", "safety", "drop"}))
      BY <1>1, <2>1, <2>3
    <3>4. job' = job /\ part' = part /\ now.pc # "queued"
      BY <1>0, <1>1, <2>1
    <3> HIDE DEF BackupInv
    <3>5. backupRow' \in [Files -> RowStatuses]
      BY <2>3
    <3>6. job' \in [Files -> {"none", "queued", "ok", "bad"} \cup Running]
          /\ part' \in [Files -> SUBSET Dumps]
      BY <2>2, <3>4
    <3>7. backupRow'[r.target] = "restoring" /\ dbUp =>
            (now.pc \in {"queued", "safety", "drop"} \/ r.pc \notin {"queued", "safety", "drop"})
      BY <3>3
    <3>8. backupRow'[r.target] = "restoring" =>
            (backupRow[r.target] = "restoring" \/ now.pc \in {"queued", "safety", "drop"})
      BY <3>3
    <3>9. \A f \in Files : f # s => job'[f] = job[f] /\ part'[f] = part[f]
      BY <3>4
    <3>10. /\ \/ job'[s] = job[s] /\ part'[s] = part[s]
              \/ job'[s] \in {"none", "queued"} /\ part'[s] = {} /\ (dbUp \/ job'[s] = "none")
           /\ now.pc = "queued" => job'[s] = "none"
      BY <3>4
    <3> HIDE DEF BackupInv
    <3> QED
      BY <1>0, <2>1, <2>5, <3>1, <3>2, <3>5, <3>6, <3>7, <3>8, <3>9, <3>10, QuietRestoreStep
<1> QED
  BY <1>1 DEF AfterSafety, SafetyTaken, RefusedRow

LEMMA LoadFailsStep ==
  ASSUME BackupInv, NEW s \in Files, NEW t \in Files, LoadFails(s, t) PROVE BackupInv'
<1>1. /\ At(s, "load", t) /\ Goto(s, "failed")
      /\ UNCHANGED <<backupRow, origin, disk, data, dbUp, job, part, asked, rolledBack,
                     restores, baseline, deletes>>
  BY DEF LoadFails
<1>2. PICK r \in Restores, now \in Restores :
        /\ restore[s] = {r} /\ r.target = t /\ r.pc = "load"
        /\ now.target = r.target /\ now.pc = "failed"
        /\ restore' = [restore EXCEPT ![s] = {now}]
  BY <1>1, TheRestore DEF RestorePcs
<1>3. backupRow' \in [Files -> RowStatuses] /\ part' \in [Files -> SUBSET Dumps]
      /\ job' \in [Files -> {"none", "queued", "ok", "bad"} \cup Running]
  BY <1>1 DEF BackupInv, BackupShape
<1>4. SafetyHolds(s, now)'
  BY <1>2 DEF SafetyHolds
<1>5. /\ backupRow'[r.target] = "restoring" /\ dbUp =>
           (now.pc \in {"queued", "safety", "drop"} \/ r.pc \notin {"queued", "safety", "drop"})
      /\ backupRow'[r.target] = "restoring" =>
           (backupRow[r.target] = "restoring" \/ now.pc \in {"queued", "safety", "drop"})
      /\ \A f \in Files : backupRow'[f] # backupRow[f] =>
           f = r.target /\ backupRow[f] # "none" /\ backupRow'[f] \in {"restoring", "restore_failed"}
  BY <1>1, <1>2
<1>6. /\ \A f \in Files : f # s => job'[f] = job[f] /\ part'[f] = part[f]
      /\ \/ job'[s] = job[s] /\ part'[s] = part[s]
         \/ job'[s] \in {"none", "queued"} /\ part'[s] = {} /\ (dbUp \/ job'[s] = "none")
      /\ now.pc = "queued" => job'[s] = "none"
  BY <1>1, <1>2
<1> HIDE DEF BackupInv
<1> QED
  BY <1>1, <1>2, <1>3, <1>4, <1>5, <1>6, QuietRestoreStep

LEMMA ReconcileStep ==
  ASSUME BackupInv, NEW s \in Files, NEW t \in Files, Reconcile(s, t) PROVE BackupInv'
<1> USE DEF BackupInv
<1>1. /\ At(s, "reconcile", t) /\ dbUp /\ Goto(s, "done")
      /\ UNCHANGED <<origin, disk, data, dbUp, job, part, asked, rolledBack, restores,
                     baseline, deletes>>
  BY DEF Reconcile
<1>2. PICK r \in Restores, now \in Restores :
        /\ restore[s] = {r} /\ r.pc = "reconcile" /\ now.pc = "done"
        /\ restore' = [restore EXCEPT ![s] = {now}]
  <2>1. "done" \in RestorePcs
    BY DEF RestorePcs
  <2> HIDE DEF BackupInv
  <2> QED
    BY <1>1, <2>1, TheRestore
<1>3. \A f \in Files : /\ f # s => restore'[f] = restore[f]
                       /\ f = s => restore'[f] = {now}
  BY <1>2 DEF BackupShape
<1>4. /\ backupRow' \in [Files -> RowStatuses]
      /\ \A f \in Files : backupRow'[f] = backupRow[f]
                          \/ (backupRow'[f] = "success" /\ disk[f] # {})
  BY DEF Reconcile, BackupShape, RowStatuses
<1>5. BackupShape'
  BY <1>1, <1>2, <1>4 DEF BackupShape
<1>6. OneOfEach' /\ NamedFirst' /\ DumpedHasPart' /\ NoDumpOfNothing' /\ SuccessHasFile'
  BY <1>1, <1>2, <1>3, <1>4
  DEF OneOfEach, NamedFirst, DumpedHasPart, NoDumpOfNothing, SuccessHasFile
<1>7. MarkedBefore'
  <2>1. \A f \in Files : \A x \in restore[f] :
          x.pc \in {"queued", "safety", "drop"} => x \in restore'[f]
    BY <1>2, <1>3
  <2>2. \A f \in Files : backupRow'[f] = "restoring" => backupRow[f] = "restoring"
    BY <1>4
  <2> QED
    BY <1>1, <2>1, <2>2 DEF MarkedBefore
<1>8. \A f \in Files : \A b : Safe(f, b)' <=> Safe(f, b)
  BY <1>1 DEF Safe, NewerFiles
<1>9. \A f \in Files : \A x \in restore[f] : SafetyHolds(f, x) => SafetyHolds(f, x)'
  BY <1>1, <1>8 DEF SafetyHolds
<1>10. SafetyHolds(s, now)'
  BY <1>2 DEF SafetyHolds
<1>11. SafetyFirst'
  BY <1>1, <1>3, <1>9, <1>10 DEF SafetyFirst
<1> QED
  BY <1>5, <1>6, <1>7, <1>11

(* The drop ends every dump, and fails the restores whose safety dump it    *)
(* was.                                                                     *)
LEMMA DropStep ==
  ASSUME BackupInv, NEW s \in Files, NEW t \in Files, DropDatabase(s, t) PROVE BackupInv'
<1> USE DEF BackupInv
<1>1. /\ dbUp' = FALSE /\ backupRow' = NoRows
      /\ job' = [f \in Files |-> IF job[f] \in Running THEN "bad" ELSE job[f]]
      /\ part' = [f \in Files |-> {}]
      /\ UNCHANGED <<origin, data, asked, rolledBack, restores, deletes>>
  BY DEF DropDatabase
<1>2. PICK r \in restore[s] : r.pc = "drop" /\ baseline' = r.base /\ restore[s] = {r}
                              /\ r \in Restores
  BY DEF DropDatabase, At, OneOfEach, BackupShape
<1>3. /\ \A f \in Files : disk'[f] = disk[f] \/ (job[f] = "dumped" /\ disk'[f] = part[f])
      /\ disk' = [g \in Files |-> disk'[g]]
  BY DEF DropDatabase
<1>4. \A f \in Files : disk'[f] \subseteq Dumps
  BY <1>3 DEF BackupShape
<1>5. \A f \in Files : /\ job'[f] = (IF job[f] \in Running THEN "bad" ELSE job[f])
                       /\ backupRow'[f] = "none" /\ part'[f] = {}
  BY <1>1 DEF NoRows
<1> DEFINE Next(f, x) ==
      [x EXCEPT !.pc = IF f = s THEN "load" ELSE IF x.pc = "safety" THEN "failed" ELSE x.pc]
<1>6. restore' = [f \in Files |-> {Next(f, x) : x \in restore[f]}]
  BY DEF DropDatabase
<1>7. \A f \in Files : \A x \in Restores :
        /\ Next(f, x) \in Restores /\ Next(f, x).base = x.base
        /\ Next(f, x).pc = IF f = s THEN "load" ELSE IF x.pc = "safety" THEN "failed" ELSE x.pc
  BY DEF Restores, RestorePcs, Restoring
<1>8. \A f \in Files : restore[f] \subseteq Restores
  BY DEF BackupShape
<1> HIDE DEF Next
<1>9. restore' \in [Files -> SUBSET Restores]
  BY <1>6, <1>7, <1>8
<1>10. \A f \in Files : /\ \A y \in restore'[f] : \E x \in restore[f] : y = Next(f, x)
                        /\ \A x \in restore[f] : Next(f, x) \in restore'[f]
  BY <1>6
<1>11. BackupShape'
  <2>1. /\ backupRow' \in [Files -> RowStatuses]
        /\ part' \in [Files -> SUBSET Dumps]
        /\ job' \in [Files -> {"none", "queued", "ok", "bad"} \cup Running]
    BY <1>1 DEF BackupShape, NoRows, RowStatuses
  <2>2. disk' \in [Files -> SUBSET Dumps]
    BY <1>3, <1>4
  <2>3. baseline' \in 0..MaxData
    BY <1>2 DEF Restores
  <2> QED
    BY <1>1, <1>9, <2>1, <2>2, <2>3 DEF BackupShape
<1>12. OneOfEach'
  BY <1>3, <1>5, <1>10 DEF OneOfEach
<1>13. NamedFirst'
  <2>1. \A h \in Files : \A d \in disk'[h] \cup part'[h] : d \in disk[h] \cup part[h]
    BY <1>3, <1>5
  <2>2. \A h \in Files : /\ disk'[h] # {} => origin[h] # "unused"
                         /\ job'[h] # "none" => origin[h] # "unused"
                         /\ restore'[h] # {} => origin[h] = "safety"
    <3> SUFFICES ASSUME NEW h \in Files
                 PROVE  /\ disk'[h] # {} => origin[h] # "unused"
                        /\ job'[h] # "none" => origin[h] # "unused"
                        /\ restore'[h] # {} => origin[h] = "safety"
      OBVIOUS
    <3>1. disk'[h] # {} => origin[h] # "unused"
      BY <1>3 DEF NamedFirst
    <3>2. job'[h] # "none" => origin[h] # "unused"
      BY <1>5 DEF NamedFirst, Running
    <3>3. restore'[h] # {} => origin[h] = "safety"
      BY <1>10 DEF NamedFirst
    <3> QED
      BY <3>1, <3>2, <3>3
  <2> QED
    BY <1>1, <1>5, <2>1, <2>2 DEF NamedFirst
<1>14. DumpedHasPart' /\ NoDumpOfNothing'
  <2>1. \A f \in Files : job'[f] \notin Running
    BY <1>5 DEF Running
  <2>2. \A f \in Files : \A y \in restore'[f] : y.pc = "queued" => job'[f] = "none"
    BY <1>5, <1>7, <1>8, <1>10 DEF DumpedHasPart, Running
  <2> QED
    BY <1>5, <2>1, <2>2 DEF DumpedHasPart, NoDumpOfNothing, Running
<1>15. SuccessHasFile' /\ MarkedBefore'
  BY <1>1, <1>5 DEF SuccessHasFile, MarkedBefore
<1>16. \A f \in Files : \A b : job[f] = "ok" /\ Safe(f, b) => Safe(f, b)'
  BY <1>1, <1>3 DEF Safe, NewerFiles
<1>17. ASSUME deletes = 0
       PROVE  /\ \A f \in Files : \A y \in restore'[f] : SafetyHolds(f, y)'
              /\ \E f \in Files : restore'[f] # {} /\ Safe(f, baseline)'
  <2>1. \A f \in Files : \A x \in restore[f] : x.pc = "drop" =>
          job[f] = "ok" /\ job'[f] = "ok" /\ Safe(f, x.base)'
    BY <1>5, <1>16, <1>17 DEF SafetyFirst, SafetyHolds, Running
  <2>2. \A f \in Files : \A y \in restore'[f] : SafetyHolds(f, y)'
    BY <1>7, <1>8, <1>10, <2>1 DEF SafetyHolds
  <2>3. restore'[s] # {} /\ Safe(s, r.base)'
    BY <1>2, <1>10, <2>1
  <2>4. Safe(s, baseline)'
    BY <1>2, <2>3 DEF Safe
  <2> QED
    BY <2>2, <2>3, <2>4
<1>18. SafetyFirst'
  BY <1>1, <1>17 DEF SafetyFirst
<1> QED
  BY <1>11, <1>12, <1>13, <1>14, <1>15, <1>18

(* A load brings older rows and data, and lowers what was to be kept.       *)
LEMMA LoadStep ==
  ASSUME BackupInv, NEW s \in Files, NEW t \in Files, LoadDump(s, t) PROVE BackupInv'
<1> USE DEF BackupInv
<1> DEFINE Next(f, x, d) ==
      [x EXCEPT !.pc = IF f = s THEN "reconcile" ELSE x.pc,
                !.base = IF d.data < x.base THEN d.data ELSE x.base]
<1>1. PICK d \in disk[t] :
        /\ backupRow' = d.rows /\ data' = d.data
        /\ rolledBack' = (rolledBack \/ \E f \in Files : d.rows[f] = "restoring")
        /\ restore' = [f \in Files |-> {Next(f, x, d) : x \in restore[f]}]
  BY DEF LoadDump
<1>2. /\ dbUp' = TRUE /\ restores' = restores + 1
      /\ UNCHANGED <<origin, disk, job, part, asked, baseline, deletes>>
  BY DEF LoadDump
<1>3. d \in Dumps /\ d.data \in 0..MaxData /\ d.rows \in [Files -> RowStatuses]
  BY DEF BackupShape, Dumps
<1>4. \A f \in Files : \A x \in Restores :
        /\ Next(f, x, d) \in Restores
        /\ Next(f, x, d).base <= x.base /\ Next(f, x, d).base <= d.data
        /\ Next(f, x, d).pc = IF f = s THEN "reconcile" ELSE x.pc
  <2> SUFFICES ASSUME NEW f \in Files, NEW x \in Restores
               PROVE  /\ Next(f, x, d) \in Restores
                      /\ Next(f, x, d).base <= x.base /\ Next(f, x, d).base <= d.data
                      /\ Next(f, x, d).pc = IF f = s THEN "reconcile" ELSE x.pc
    OBVIOUS
  <2> DEFINE pc == IF f = s THEN "reconcile" ELSE x.pc
             base == IF d.data < x.base THEN d.data ELSE x.base
  <2>1. /\ pc \in RestorePcs /\ base \in 0..MaxData /\ base <= x.base /\ base <= d.data
        /\ x \in Restores
    BY <1>3, BackupAssumption DEF Restores, RestorePcs, Restoring
  <2>2. Next(f, x, d) = [x EXCEPT !.pc = pc, !.base = base]
    OBVIOUS
  <2>3. pc = IF f = s THEN "reconcile" ELSE x.pc
    OBVIOUS
  <2> HIDE DEF pc, base, Next
  <2> QED
    BY <2>1, <2>2, <2>3 DEF Restores
<1>5. \A f \in Files : restore[f] \subseteq Restores
  BY DEF BackupShape
<1> HIDE DEF Next
<1>6. restore' \in [Files -> SUBSET Restores]
  BY <1>1, <1>4, <1>5
<1>7. \A f \in Files : /\ \A y \in restore'[f] : \E x \in restore[f] : y = Next(f, x, d)
                       /\ \A x \in restore[f] : Next(f, x, d) \in restore'[f]
  BY <1>1
<1>8. BackupShape'
  <2>1. rolledBack' \in BOOLEAN
    BY <1>1, Zenon
  <2> QED
    BY <1>1, <1>2, <1>3, <1>6, <2>1 DEF BackupShape
<1>9. OneOfEach'
  BY <1>2, <1>7 DEF OneOfEach
<1>10. NamedFirst'
  <2>1. \A f \in Files : restore'[f] # {} => origin[f] = "safety"
    BY <1>7 DEF NamedFirst
  <2> QED
    BY <1>1, <1>2, <2>1 DEF NamedFirst
<1>11. DumpedHasPart' /\ NoDumpOfNothing'
  BY <1>2, <1>4, <1>5, <1>7 DEF DumpedHasPart, NoDumpOfNothing
<1>12. SuccessHasFile' /\ MarkedBefore'
  <2>1. SuccessHasFile'
    BY <1>2 DEF SuccessHasFile, BackupShape
  <2>2. ~rolledBack' => \A f \in Files : backupRow'[f] # "restoring"
    BY <1>1, Zenon
  <2>3. MarkedBefore'
    BY <2>2 DEF MarkedBefore
  <2> QED
    BY <2>1, <2>3
<1>13. \A f \in Files : \A b, c \in Nat : b >= c /\ Safe(f, b) => Safe(f, c)'
  <2>1. \A f \in Files : \A x \in disk[f] : x.data \in Nat
    BY DEF BackupShape, Dumps
  <2> QED
    BY <1>2, <2>1 DEF Safe, NewerFiles
<1>14. ASSUME deletes = 0, NEW f \in Files, NEW x \in restore[f]
       PROVE  SafetyHolds(f, Next(f, x, d))'
  <2>1. PICK y : y = Next(f, x, d)
    OBVIOUS
  <2>2. /\ y.pc = (IF f = s THEN "reconcile" ELSE x.pc) /\ y.base \in Nat /\ x.base \in Nat
        /\ y.base <= x.base /\ y.base <= data'
    BY <1>1, <1>4, <1>5, <2>1 DEF Restores
  <2>3. SafetyHolds(f, x)
    BY <1>14 DEF SafetyFirst
  <2>4. \A e \in part[f] : e.data \in Nat
    BY DEF BackupShape, Dumps
  <2>5. SafetyHolds(f, y)'
    BY <1>1, <1>2, <1>3, <1>13, <2>2, <2>3, <2>4 DEF SafetyHolds
  <2> QED
    BY <2>1, <2>5
<1>15. SafetyFirst'
  BY <1>2, <1>7, <1>14 DEF SafetyFirst
<1> QED
  BY <1>8, <1>9, <1>10, <1>11, <1>12, <1>15

(* A worker dies: a dump starts over, and a restore with all it had done.   *)
LEMMA BackupCrashStep ==
  ASSUME BackupInv, NEW f \in Files, BackupCrash(f) PROVE BackupInv'
<1>1. /\ part' = [part EXCEPT ![f] = {}]
      /\ UNCHANGED <<backupRow, origin, disk, data, dbUp, asked, rolledBack, restores,
                     baseline, deletes>>
  BY DEF BackupCrash
<1>2. CASE job[f] \in Running /\ restore[f] = {} /\ job' = [job EXCEPT ![f] = "queued"]
           /\ UNCHANGED restore
  <2> USE DEF BackupInv
  <2>1. BackupShape'
    BY <1>1, <1>2 DEF BackupShape
  <2>2. OneOfEach' /\ DumpedHasPart' /\ NoDumpOfNothing'
    BY <1>1, <1>2 DEF OneOfEach, DumpedHasPart, NoDumpOfNothing, BackupShape, Running
  <2>3. NamedFirst' /\ SuccessHasFile' /\ MarkedBefore'
    BY <1>1, <1>2 DEF NamedFirst, SuccessHasFile, MarkedBefore, BackupShape, Running
  <2>4. \A g \in Files : \A b : Safe(g, b)' <=> Safe(g, b)
    BY <1>1 DEF Safe, NewerFiles
  <2>5. \A g \in Files : \A r \in restore[g] : SafetyHolds(g, r) => SafetyHolds(g, r)'
    BY <1>1, <1>2, <2>4 DEF SafetyHolds, BackupShape
  <2>6. SafetyFirst'
    BY <1>1, <1>2, <2>4, <2>5 DEF SafetyFirst
  <2> QED
    BY <2>1, <2>2, <2>3, <2>6
<1>3. CASE /\ \E r \in restore[f] : r.pc \in Restoring
           /\ Goto(f, "queued") /\ job' = [job EXCEPT ![f] = "none"]
  <2>1. PICK r \in restore[f] : r.pc \in Restoring
    BY <1>3
  <2>2. At(f, r.pc, r.target) /\ r.target \in Files /\ "queued" \in RestorePcs
    BY <2>1 DEF At, BackupInv, BackupShape, Restores, RestorePcs
  <2>3. PICK now \in Restores :
          /\ now.target = r.target /\ now.pc = "queued"
          /\ restore' = [restore EXCEPT ![f] = {now}]
    BY <1>3, <2>2, TheRestore
  <2>4. restore[f] = {r} /\ r \in Restores
    BY <2>1 DEF BackupInv, OneOfEach, BackupShape
  <2>5. SafetyHolds(f, now)'
    BY <2>3 DEF SafetyHolds
  <2>6. backupRow' \in [Files -> RowStatuses] /\ part' \in [Files -> SUBSET Dumps]
        /\ job' \in [Files -> {"none", "queued", "ok", "bad"} \cup Running]
    BY <1>1, <1>3 DEF BackupInv, BackupShape
  <2>7. /\ backupRow'[r.target] = "restoring" /\ dbUp =>
             (now.pc \in {"queued", "safety", "drop"} \/ r.pc \notin {"queued", "safety", "drop"})
        /\ backupRow'[r.target] = "restoring" =>
             (backupRow[r.target] = "restoring" \/ now.pc \in {"queued", "safety", "drop"})
        /\ \A g \in Files : backupRow'[g] # backupRow[g] =>
             g = r.target /\ backupRow[g] # "none" /\ backupRow'[g] \in {"restoring", "restore_failed"}
    BY <1>1, <2>3
  <2>8. /\ \A g \in Files : g # f => job'[g] = job[g] /\ part'[g] = part[g]
        /\ \/ job'[f] = job[f] /\ part'[f] = part[f]
           \/ job'[f] \in {"none", "queued"} /\ part'[f] = {} /\ (dbUp \/ job'[f] = "none")
        /\ now.pc = "queued" => job'[f] = "none"
    BY <1>1, <1>3 DEF BackupInv, BackupShape
  <2> HIDE DEF BackupInv
  <2> QED
    BY <1>1, <2>3, <2>4, <2>5, <2>6, <2>7, <2>8, QuietRestoreStep
<1> QED
  BY <1>2, <1>3 DEF BackupCrash

LEMMA BackupInvNext == BackupInv /\ [BackupNext]_backupVars => BackupInv'
<1> SUFFICES ASSUME BackupInv, [BackupNext]_backupVars PROVE BackupInv'
  OBVIOUS
<1>1. CASE UNCHANGED backupVars
  <2> USE <1>1 DEF BackupInv, backupVars
  <2>1. BackupShape' /\ OneOfEach' /\ NamedFirst' /\ DumpedHasPart' /\ NoDumpOfNothing'
    BY DEF BackupShape, OneOfEach, NamedFirst, DumpedHasPart, NoDumpOfNothing
  <2>2. SuccessHasFile' /\ MarkedBefore'
    BY DEF SuccessHasFile, MarkedBefore
  <2>3. \A s \in Files : \A b : Safe(s, b)' <=> Safe(s, b)
    BY DEF Safe, NewerFiles
  <2>4. \A s \in Files : \A r \in restore[s] : SafetyHolds(s, r) => SafetyHolds(s, r)'
    BY <2>3 DEF SafetyHolds
  <2>5. SafetyFirst'
    BY <2>3, <2>4 DEF SafetyFirst
  <2> QED
    BY <2>1, <2>2, <2>5
<1>2. ASSUME NEW f \in Files, CreateBackup(f) \/ CheckBackupSchedule(f) PROVE BackupInv'
  <2>1. \E name \in {"plain", "locked"} : NewBackup(f, name)
    BY <1>2 DEF CreateBackup, CheckBackupSchedule
  <2> QED
    BY <2>1, NewBackupStep
<1>3. ASSUME NEW f \in Files, BackupStep(f) PROVE BackupInv'
  BY <1>3, BackupStartStep, BackupDumpStep, BackupFinishStep DEF BackupStep
<1>4. ASSUME NEW f \in Files, RestoreStep(f) PROVE BackupInv'
  BY <1>4, RestoreStartStep, AfterSafetyStep, DropStep, LoadStep, LoadFailsStep, ReconcileStep
  DEF RestoreStep
<1> HIDE DEF BackupInv
<1> QED
  BY <1>1, <1>2, <1>3, <1>4, UploadStep, DeleteStep, AskStep, CommitStep, BackupCrashStep,
     WorkStep DEF BackupNext

(* Whatever backups, retention, deletions, restores and crashes overlap: a  *)
(* success has its file until a restore; the database is down only with the *)
(* safety dump on disk, or with KeepLast files named after it; and a        *)
(* restore that is marked is on its way (restore_backup, run_restore,       *)
(* _enforce_keep_last_n).                                                   *)
THEOREM BackupsCorrect == BackupSpec => []BackupsKept
<1>1. BackupInv => BackupsKept
  <2> SUFFICES ASSUME BackupInv PROVE BackupsKept
    OBVIOUS
  <2>1. SuccessHasFile
    BY DEF BackupInv
  <2>2. DroppedIsOnDisk
    BY DEF BackupInv, SafetyFirst, Safe, DroppedIsOnDisk
  <2>3. RestoringIsInFlight
    BY DEF BackupInv, MarkedBefore, RestoringIsInFlight, InFlight
  <2> QED
    BY <2>1, <2>2, <2>3 DEF BackupsKept
<1> QED
  BY <1>1, BackupInvInit, BackupInvNext, PTL DEF BackupSpec

-----------------------------------------------------------------------------
(* The cost report.  What the threshold's stamp says is the day of the last *)
(* mail, whenever no alerter is between its mail and its commit.            *)

Days == {NeverAlerted} \cup 0..CostDays

CostShape ==
  /\ priceOf \in [CostTypes -> Prices] /\ bound \subseteq CostTypes /\ seats \in SeatCounts
  /\ activeOrders \in [CostTypes -> 0..MaxActive]
  /\ threshold \subseteq [limit : Nat, alerted : Days] /\ \A s, t \in threshold : s = t
  /\ thresholdEdit \subseteq Days /\ \A d, e \in thresholdEdit : d = e
  /\ \A a, b \in alerter : a = b
  /\ costDay \in 0..CostDays
  /\ \A t \in threshold : t.alerted <= costDay
  /\ mailedOn \in Days /\ mailedOn <= costDay
  /\ \A d \in 0..CostDays : d > costDay => snapshot[d] = {}

StampIsMail ==
  /\ alerter = {} /\ mailedOn # NeverAlerted => \A t \in threshold : t.alerted = mailedOn
  /\ \A a \in alerter :
       /\ a = [total |-> a.total, limit |-> a.limit, sent |-> a.sent]
       /\ ~a.sent => mailedOn = NeverAlerted \/ costDay - mailedOn >= QuietDays
       /\ a.sent => mailedOn \in {NeverAlerted, costDay}

CostInv == CostShape /\ StampIsMail

LEMMA CostInvInit == CostInit => CostInv
BY CostAssumption DEF CostInit, CostInv, CostShape, StampIsMail, Days, NeverAlerted

LEMMA CostInvNext == CostInv /\ [CostNext]_costVars => CostInv'
<1> SUFFICES ASSUME CostInv, [CostNext]_costVars PROVE CostInv'
  OBVIOUS
<1> USE CostAssumption DEF CostInv, NeverAlerted
<1>1. ASSUME NEW t \in CostTypes, OrderCounted(t) \/ BindContract(t) PROVE CostInv'
  BY <1>1 DEF OrderCounted, BindContract, CostShape, StampIsMail
<1>2. ASSUME NEW l \in Limits, CreateThreshold(l) PROVE CostInv'
  <2>1. /\ threshold' = {[limit |-> l, alerted |-> NeverAlerted]} /\ mailedOn' = NeverAlerted
        /\ UNCHANGED <<priceOf, bound, seats, activeOrders, thresholdEdit, alerter, snapshot, costDay>>
    BY <1>2 DEF CreateThreshold
  <2>2. CostShape'
    BY <2>1 DEF CostShape, Days
  <2>3. StampIsMail'
    BY <2>1 DEF StampIsMail
  <2> QED
    BY <2>2, <2>3
<1>3. ASSUME EditRead PROVE CostInv'
  <2>1. thresholdEdit' \subseteq Days /\ \A d, e \in thresholdEdit' : d = e
    BY <1>3 DEF EditRead, CostShape
  <2> QED
    BY <1>3, <2>1 DEF EditRead, CostShape, StampIsMail
<1>4. ASSUME NEW l \in Limits, EditCommit(l) PROVE CostInv'
  <2>1. PICK read \in thresholdEdit :
          threshold' = {[limit |-> l, alerted |-> IF read # NeverAlerted THEN NeverAlerted ELSE t.alerted]
                          : t \in threshold}
    BY <1>4 DEF EditCommit
  <2>2. /\ thresholdEdit' = {} /\ mailedOn' = NeverAlerted
        /\ UNCHANGED <<priceOf, bound, seats, activeOrders, alerter, snapshot, costDay>>
    BY <1>4 DEF EditCommit
  <2>3. /\ threshold' \subseteq [limit : Nat, alerted : Days]
        /\ \A s, t \in threshold' : s = t
        /\ \A t \in threshold' : t.alerted <= costDay
    BY <2>1 DEF CostShape, Days
  <2>4. CostShape'
    BY <2>2, <2>3 DEF CostShape, Days
  <2>5. StampIsMail'
    BY <2>2 DEF StampIsMail
  <2> QED
    BY <2>4, <2>5
<1>5. ASSUME DeleteThreshold PROVE CostInv'
  BY <1>5 DEF DeleteThreshold, CostShape, StampIsMail, Days
<1>6. ASSUME AlertRead PROVE CostInv'
  <2>1. PICK t \in threshold :
          /\ ~Quiet(t.alerted)
          /\ alerter' = {[total |-> FlatTotal, limit |-> t.limit, sent |-> FALSE]}
    BY <1>6 DEF AlertRead
  <2>2. /\ alerter = {}
        /\ UNCHANGED <<priceOf, bound, seats, activeOrders, threshold, thresholdEdit, mailedOn,
                       snapshot, costDay>>
    BY <1>6 DEF AlertRead
  <2>3. mailedOn = NeverAlerted \/ costDay - mailedOn >= QuietDays
    BY <2>1, <2>2 DEF Quiet, StampIsMail, CostShape, Days
  <2>4. CostShape'
    BY <2>1, <2>2 DEF CostShape
  <2>5. \A a \in alerter' : a = [total |-> a.total, limit |-> a.limit, sent |-> a.sent] /\ ~a.sent
    BY <2>1
  <2>6. StampIsMail'
    BY <2>1, <2>2, <2>3, <2>5 DEF StampIsMail
  <2> QED
    BY <2>4, <2>6
<1>7. ASSUME AlertSend PROVE CostInv'
  <2>1. PICK a \in alerter : ~a.sent /\ alerter' = {[a EXCEPT !.sent = TRUE]}
    BY <1>7 DEF AlertSend
  <2>2. /\ mailedOn' = costDay
        /\ UNCHANGED <<priceOf, bound, seats, activeOrders, threshold, thresholdEdit,
                       snapshot, costDay>>
    BY <1>7 DEF AlertSend
  <2>3. \A b \in alerter' : b = [total |-> b.total, limit |-> b.limit, sent |-> b.sent] /\ b.sent
    BY <2>1 DEF StampIsMail
  <2>4. CostShape'
    BY <2>1, <2>2 DEF CostShape, Days
  <2>5. StampIsMail'
    BY <2>1, <2>2, <2>3 DEF StampIsMail
  <2> QED
    BY <2>4, <2>5
<1>8. ASSUME AlertCommit PROVE CostInv'
  <2>1. /\ alerter' = {} /\ threshold' = {[t EXCEPT !.alerted = costDay] : t \in threshold}
        /\ UNCHANGED <<priceOf, bound, seats, activeOrders, thresholdEdit, mailedOn,
                       snapshot, costDay>>
        /\ mailedOn \in {NeverAlerted, costDay}
    BY <1>8 DEF AlertCommit, StampIsMail
  <2>2. /\ threshold' \subseteq [limit : Nat, alerted : Days]
        /\ \A t \in threshold' : t.alerted = costDay
        /\ \A s, t \in threshold' : s = t
    <3>1. costDay \in Days /\ threshold \subseteq [limit : Nat, alerted : Days]
          /\ \A s, t \in threshold : s = t
      BY DEF CostShape, Days
    <3>2. \A t \in threshold : [t EXCEPT !.alerted = costDay] \in [limit : Nat, alerted : Days]
                               /\ [t EXCEPT !.alerted = costDay].alerted = costDay
      BY <3>1
    <3> QED
      BY <2>1, <3>1, <3>2
  <2>3. CostShape'
    BY <2>1, <2>2 DEF CostShape, Days
  <2>4. StampIsMail'
    BY <2>1, <2>2 DEF StampIsMail
  <2> QED
    BY <2>3, <2>4
<1>9. ASSUME AlerterDies PROVE CostInv'
  BY <1>9 DEF AlerterDies, CostShape, StampIsMail, Days
<1>10. ASSUME TakeSnapshot PROVE CostInv'
  <2>1. \A d \in 0..CostDays : d > costDay => snapshot'[d] = {}
    BY <1>10 DEF TakeSnapshot, CostShape
  <2> QED
    BY <1>10, <2>1 DEF TakeSnapshot, CostShape, StampIsMail
<1>11. ASSUME NextCostDay PROVE CostInv'
  BY <1>11 DEF NextCostDay, CostShape, StampIsMail, Days
<1>12. ASSUME UNCHANGED costVars PROVE CostInv'
  BY <1>12 DEF costVars, CostShape, StampIsMail
<1> QED
  BY <1>1, <1>2, <1>3, <1>4, <1>5, <1>6, <1>7, <1>8, <1>9, <1>10, <1>11, <1>12 DEF CostNext

(* The seats that are taken are a number, whatever orders there are.        *)
LEMMA ConsumptionIsNatural == CostInv => Consumption \in Nat
<1> SUFFICES ASSUME CostInv PROVE Consumption \in Nat
  OBVIOUS
<1>1. IsFiniteSet(bound) /\ \A t \in bound : activeOrders[t] \in Nat
  BY FS_Subset, CostAssumption DEF CostInv, CostShape
<1>2. Consumption = (CHOOSE h : SumsUp(h, bound, activeOrders))[bound]
  BY DEF Consumption, FoldSet, MapThenFoldSet, SumsUp, Pick
<1> QED
  BY <1>1, <1>2, SumIsNatural

LEMMA Parts ==
  ASSUME NEW q \in Nat, NEW m \in Nat, NEW n \in Nat, n <= m
  PROVE  q * (m - n) \in Nat /\ q * n + q * (m - n) = q * m
<1>1. m - n \in Nat
  OBVIOUS
<1>2. \A k \in Nat : q * k \in Nat
  OBVIOUS
<1> QED
  BY <1>1, <1>2

LEMMA CostAddsUp == CostInv => SeatsAddUp
<1> SUFFICES ASSUME CostInv PROVE SeatsAddUp
  OBVIOUS
<1> DEFINE q == MonthlyValue \div seats
<1>1. Consumption \in Nat /\ seats \in Nat /\ (seats > 0 => q \in Nat)
  BY ConsumptionIsNatural, CostAssumption DEF CostInv, CostShape
<1> HIDE DEF q
<1>2. CASE seats > Consumption
  <2>1. Shelfware = q * (seats - Consumption) /\ Allocated = q * Consumption
    BY <1>1, <1>2 DEF Shelfware, Allocated, q
  <2>2. q \in Nat /\ Consumption <= seats
    BY <1>1, <1>2
  <2>3. q * (seats - Consumption) \in Nat
        /\ q * Consumption + q * (seats - Consumption) = q * seats
    BY <1>1, <2>2, Parts
  <2> QED
    BY <2>1, <2>3 DEF SeatsAddUp, q
<1>3. CASE ~(seats > Consumption)
  <2>1. Shelfware = 0
    BY <1>3 DEF Shelfware
  <2>2. seats > 0 /\ seats >= Consumption => Allocated = q * seats /\ q * seats \in Nat
    BY <1>1, <1>3 DEF Allocated, q
  <2>3. seats > 0 /\ seats >= Consumption => Allocated + Shelfware = q * seats
    BY <2>1, <2>2
  <2> QED
    BY <2>1, <2>3 DEF SeatsAddUp, q
<1> QED
  BY <1>2, <1>3

(* The mails about a threshold keep the quiet days between them, past       *)
(* snapshots stand, and the report's seats add up, for any prices, seats,   *)
(* orders and edits (scan_and_alert, capture_daily_snapshot,                *)
(* list_contracts).                                                         *)
THEOREM CostsCorrect == CostSpec => CostKept
<1>1. CostInv /\ [CostNext]_costVars =>
        [Mailing => mailedOn = NeverAlerted \/ costDay - mailedOn >= QuietDays]_costVars
  BY DEF CostInv, StampIsMail, Mailing
<1>2. CostInv /\ [CostNext]_costVars =>
        [\A d \in 0..CostDays :
           snapshot[d] # {} /\ d < costDay =>
             \/ snapshot'[d] = snapshot[d]
             \/ Retention > 0 /\ d < costDay - Retention]_costVars
  <2> SUFFICES ASSUME CostInv, CostNext, NEW d \in 0..CostDays, d < costDay
               PROVE  \/ snapshot'[d] = snapshot[d]
                      \/ Retention > 0 /\ d < costDay - Retention
    OBVIOUS
  <2>1. CASE TakeSnapshot
    BY <2>1, CostAssumption DEF TakeSnapshot, Expired, CostInv, CostShape
  <2>2. CASE ~TakeSnapshot
    BY <2>2 DEF CostNext, OrderCounted, BindContract, CreateThreshold, EditRead, EditCommit,
       DeleteThreshold, AlertRead, AlertSend, AlertCommit, AlerterDies, NextCostDay
  <2> QED
    BY <2>1, <2>2
<1> QED
  BY <1>1, <1>2, CostInvInit, CostInvNext, CostAddsUp, PTL
  DEF CostSpec, CostKept, QuietIsKept, PastStands

-----------------------------------------------------------------------------
(* The composition.  The components share no state, so that a behaviour of  *)
(* all of them is one of each.                                              *)

LEMMA EachInit ==
  AdministrationInit => /\ AdminInit /\ LoginInit /\ TokenInit /\ LicenceInit
                        /\ SecretInit /\ BackupInit /\ ContractInit /\ CostInit
BY DEF AdministrationInit

LEMMA EachNext ==
  [AdministrationNext]_administrationVars =>
    /\ [AdminNext]_adminVars /\ [LoginNext]_loginVars /\ [TokenNext]_tokenVars
    /\ [LicenceNext]_licenceVars /\ [SecretNext]_secretVars /\ [BackupNext]_backupVars
    /\ [ContractNext]_contractVars /\ [CostNext]_costVars
BY DEF AdministrationNext, administrationVars

(* What is proved of a component holds of it in the administration.         *)
THEOREM AdministrationIsEach ==
  AdministrationSpec => /\ AdminSpec /\ LoginSpec /\ TokenSpec /\ LicenceSpec
                        /\ SecretSpec /\ BackupSpec /\ ContractSpec /\ CostSpec
BY EachInit, EachNext, PTL
DEF AdministrationSpec, AdminSpec, LoginSpec, TokenSpec, LicenceSpec, SecretSpec, BackupSpec,
    ContractSpec, CostSpec

(* A locked account and a live token: neither is undone by a request or a   *)
(* job that read them before.                                               *)
THEOREM CredentialsCorrect == AdministrationSpec => CredentialsKept
BY AdministrationIsEach, LockCorrect, TokensCorrect DEF CredentialsKept

-----------------------------------------------------------------------------
(* The invariants carry the types.                                          *)

LEMMA AccountsTyped == AdminInv => AdminTypeOK
BY AtMostOne DEF AdminInv, AdminShape, AdminTypeOK

LEMMA TokensTyped == TokenInv => TokenTypeOK
<1> SUFFICES ASSUME TokenInv PROVE TokenTypeOK
  OBVIOUS
<1>1. \A i \in TokenIds : Cardinality(apiToken[i]) <= 1
  BY AtMostOne DEF TokenInv, TokenShape
<1> QED
  BY <1>1 DEF TokenInv, TokenShape, GivenOutOnce, TokenTypeOK

LEMMA SecretsTyped == SecretTokenInv /\ SecretValueInv => SecretTypeOK
<1> SUFFICES ASSUME SecretTokenInv, SecretValueInv PROVE SecretTypeOK
  OBVIOUS
<1>1. \A p \in SecretProcesses : Cardinality(token[p]) <= 1
  BY AtMostOne DEF SecretTokenInv
<1>2. \A p \in SecretProcesses, k \in SecretKeys : Cardinality(valueCache[p][k]) <= 1
  BY AtMostOne DEF SecretValueInv, OneEntry
<1>3. ASSUME NEW p \in SecretProcesses PROVE denied[p] \subseteq 0..MaxEpoch
  <2>1. denied[p] \subseteq Nat /\ \A e \in denied[p] : e < epoch
    BY DEF SecretTokenInv
  <2>2. epoch \in 0..MaxEpoch /\ MaxEpoch \in Nat
    BY SecretAssumption DEF SecretTokenInv
  <2> QED
    BY <2>1, <2>2
<1> QED
  BY <1>1, <1>2, <1>3
  DEF SecretTokenInv, SecretValueInv, SecretShape, SecretTypeOK, Known, NoSecret, Reference

LEMMA BackupsTyped == BackupInv => BackupTypeOK
<1> SUFFICES ASSUME BackupInv PROVE BackupTypeOK
  OBVIOUS
<1>1. \A f \in Files : Cardinality(disk[f]) <= 1
  BY AtMostOne DEF BackupInv, OneOfEach
<1> QED
  BY <1>1 DEF BackupInv, BackupShape, NamedFirst, BackupTypeOK

LEMMA CostsTyped == CostInv => CostTypeOK
<1> SUFFICES ASSUME CostInv PROVE CostTypeOK
  OBVIOUS
<1>1. Cardinality(threshold) <= 1 /\ Cardinality(thresholdEdit) <= 1 /\ Cardinality(alerter) <= 1
  BY AtMostOne DEF CostInv, CostShape
<1>2. /\ \A t \in threshold : t.alerted \in {NeverAlerted} \cup 0..costDay
      /\ mailedOn \in {NeverAlerted} \cup 0..costDay
  BY DEF CostInv, CostShape, Days, NeverAlerted
<1> QED
  BY <1>1, <1>2 DEF CostInv, CostShape, CostTypeOK

(* All components of the administration keep their state well formed.       *)
THEOREM AdministrationTyped == AdministrationSpec => []AdministrationTypeOK
<1>1. AdminSpec => []AdminTypeOK
  BY AdminInvInit, AdminInvNext, AccountsTyped, PTL DEF AdminSpec
<1>2. LoginSpec => []LoginTypeOK
  <2>1. LoginInv => LoginTypeOK
    BY DEF LoginInv
  <2> QED
    BY <2>1, LoginInvInit, LoginInvNext, PTL DEF LoginSpec
<1>3. TokenSpec => []TokenTypeOK
  BY TokenInvInit, TokenInvNext, TokensTyped, PTL DEF TokenSpec
<1>4. LicenceSpec => []LicenceTypeOK
  BY LicenceInvInit, LicenceInvNext, LicenceBoundsInit, LicenceBoundsNext, LicenceTyped, PTL
  DEF LicenceSpec
<1>5. SecretSpec => []SecretTypeOK
  BY SecretTokenInvInit, SecretTokenInvNext, SecretValueInvInit, SecretValueInvNext,
     SecretsTyped, PTL
  DEF SecretSpec
<1>6. BackupSpec => []BackupTypeOK
  BY BackupInvInit, BackupInvNext, BackupsTyped, PTL DEF BackupSpec
<1>7. ContractSpec => []ContractTypeOK
  <2>1. ContractInit => ContractBounds
    BY ContractAssumption DEF ContractInit, ContractBounds, Unstamped
  <2> QED
    BY <2>1, InitialRenewals, RenewalInvNext, ContractBoundsNext, ContractTyped, PTL
    DEF ContractSpec
<1>8. CostSpec => []CostTypeOK
  BY CostInvInit, CostInvNext, CostsTyped, PTL DEF CostSpec
<1> QED
  BY <1>1, <1>2, <1>3, <1>4, <1>5, <1>6, <1>7, <1>8, AdministrationIsEach, PTL
  DEF AdministrationTypeOK

(* All that the administration promises.                                    *)
THEOREM AdministrationCorrect ==
  AdministrationSpec => /\ AccountsKept /\ CredentialsKept /\ LicenceStands /\ CostKept
                        /\ [](SecretsKept /\ BackupsKept /\ RenewalsKept)
BY AdministrationIsEach, CredentialsCorrect, AccountsCorrect, LicenceCorrect, CostsCorrect,
   SecretsCorrect, BackupsCorrect, RenewalsCorrect, PTL

=============================================================================
