-------------------------- MODULE MCAdministration --------------------------
(***************************************************************************)
(* The components an administrator works with, for TLC: accounts and       *)
(* grants, the login, API tokens, the user licence, the secrets resolver,  *)
(* backups, contract renewals and the cost report.  They share no state,   *)
(* so a behaviour is one of one of them: component says of which.               *)
(***************************************************************************)
EXTENDS AdminUsers, AdminLogin, ApiTokens, UserLicence, SecretStore, Backups,
        ContractRenewals, CostReport, TLC

Lic(s, k, t, b, e) == [signer |-> s, keyId |-> k, type |-> t, band |-> b, expires |-> e]

(* Licences of the vendor, one of somebody else's, one of the demo key, and *)
(* one without limit.                                                       *)
SomeLicences ==
  {Lic("com", "com", "commercial", 2, 0), Lic("nobody", "com", "commercial", 3, 2),
   Lic("demo", "none", "demo", 3, 1), Lic("com", "none", "commercial", 0, 1)}
TwoKeys == [com |-> {"commercial"}, demo |-> {"demo"}]

AdministrationSymmetry == Permutations(Admins)

CONSTANT Components

VARIABLE component

administrationVars ==
  <<component, adminVars, loginVars, tokenVars, licenceVars, secretVars, backupVars,
    contractVars, costVars>>

(* What an idle component starts with does not matter: one value each.      *)
IdleOnce ==
  /\ component # "secrets" => backend = CHOOSE b \in SecretBackends : TRUE
  /\ component # "contracts" => \A c \in contract : c.renewal = CHOOSE d \in RenewalDates : TRUE
  /\ component # "costs" => /\ priceOf = [t \in CostTypes |-> CHOOSE p \in Prices : TRUE]
                            /\ seats = CHOOSE n \in SeatCounts : TRUE

AdministrationInit ==
  /\ component \in Components
  /\ AdminInit /\ LoginInit /\ TokenInit /\ LicenceInit /\ SecretInit /\ BackupInit
  /\ ContractInit /\ CostInit
  /\ IdleOnce

AdministrationNext ==
  /\ UNCHANGED component
  /\ IF component = "users" THEN AdminNext ELSE UNCHANGED adminVars
  /\ IF component = "login" THEN LoginNext ELSE UNCHANGED loginVars
  /\ IF component = "tokens" THEN TokenNext ELSE UNCHANGED tokenVars
  /\ IF component = "licence" THEN LicenceNext ELSE UNCHANGED licenceVars
  /\ IF component = "secrets" THEN SecretNext ELSE UNCHANGED secretVars
  /\ IF component = "backups" THEN BackupNext ELSE UNCHANGED backupVars
  /\ IF component = "contracts" THEN ContractNext ELSE UNCHANGED contractVars
  /\ IF component = "costs" THEN CostNext ELSE UNCHANGED costVars

AdministrationSpec == AdministrationInit /\ [][AdministrationNext]_administrationVars

(* Every component keeps its state well formed.                             *)
AdministrationTypeOK ==
  /\ AdminTypeOK /\ LoginTypeOK /\ TokenTypeOK /\ LicenceTypeOK /\ SecretTypeOK
  /\ BackupTypeOK /\ ContractTypeOK /\ CostTypeOK

(* A locked account and a live token: neither is undone by a request or a   *)
(* job that read them before.                                               *)
CredentialsKept == LockIsKept /\ OnlyDeadTokensGo
=============================================================================
