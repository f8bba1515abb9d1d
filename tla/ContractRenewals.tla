-------------------------- MODULE ContractRenewals --------------------------
(***************************************************************************)
(* The renewal reminder of a software contract: a daily task mails about   *)
(* contracts in their notice window that carry no stamp, and stamps them;  *)
(* editing the renewal clock clears the stamp.  The task reads, mails and  *)
(* commits at the end; the editor reads the row and writes what it has     *)
(* changed.                                                                *)
(***************************************************************************)
EXTENDS Integers, FiniteSets

CONSTANTS
  RenewalDates,       \* renewal_date values
  Notice,             \* notice_period_days
  HasAddress,         \* an address for reminders is configured
  ContractDays,       \* bound: the last day
  MaxContractEdits,   \* bound: edits of the renewal clock
  MaxContractCrashes  \* bound: deaths of the worker

ASSUME ContractAssumption ==
  /\ RenewalDates \subseteq Nat /\ HasAddress \in BOOLEAN
  /\ {Notice, ContractDays, MaxContractEdits, MaxContractCrashes} \subseteq Nat

VARIABLES
  contract,      \* the row: {} or {[renewal, term, stamp, set]}
  contractEdit,  \* the PUT that has read the row: {} or {stamp as read}
  renewalRun,    \* today's run: before, reading: [term, mailed], or done
  mailsOf,       \* by term: reminders mailed
  setMeanwhile,    \* terms set while a run was between its read and its commit
  contractDay, contractCrashes

contractVars == <<contract, contractEdit, renewalRun, mailsOf, setMeanwhile,
                  contractDay, contractCrashes>>

Terms == 1..(MaxContractEdits + 1)
Unstamped == 0
Before == [at |-> "before", term |-> 0]
Done == [at |-> "done", term |-> 0]
RenewalRunning == renewalRun.at \in {"read", "mailed"}

ContractTypeOK ==
  /\ Cardinality(contract) <= 1 /\ Cardinality(contractEdit) <= 1
  /\ \A c \in contract : /\ c.renewal \in RenewalDates /\ c.term \in Terms
                         /\ c.stamp \in 0..c.term
  /\ renewalRun.at \in {"before", "read", "mailed", "done"}
  /\ mailsOf \in [Terms -> 0..(1 + MaxContractCrashes)]
  /\ setMeanwhile \subseteq Terms /\ contractDay \in 0..ContractDays

ContractInit ==
  /\ contract \in {{[renewal |-> d, term |-> 1, stamp |-> Unstamped, set |-> 0]} : d \in RenewalDates}
  /\ contractEdit = {} /\ renewalRun = Before
  /\ mailsOf = [t \in Terms |-> 0] /\ setMeanwhile = {}
  /\ contractDay = 0 /\ contractCrashes = 0

-----------------------------------------------------------------------------
ReadContract ==
  /\ contractEdit = {} /\ \E c \in contract : c.term < MaxContractEdits + 1
  /\ contractEdit' = {c.stamp : c \in contract}
  /\ UNCHANGED <<contract, renewalRun, mailsOf, setMeanwhile, contractDay, contractCrashes>>

(* Mutant of Rearmed: the stamp stays.                                      *)
StillStamped(read, c) == c.stamp

(* The stamp is written when it has changed from what was read.             *)
Rearmed(read, c) == IF read # Unstamped THEN Unstamped ELSE c.stamp

(* A new renewal date is a new term of the contract.                        *)
UpdateContract(date) ==
  /\ contractEdit # {} /\ contractEdit' = {}
  /\ \E read \in contractEdit :
       contract' = {[renewal |-> date, term |-> c.term + 1, stamp |-> Rearmed(read, c),
                    set |-> contractDay]
                      : c \in contract}
  /\ setMeanwhile' = IF RenewalRunning \/ \E c \in contract, read \in contractEdit : c.stamp # read
                   THEN setMeanwhile \cup {c.term + 1 : c \in contract} ELSE setMeanwhile
  /\ UNCHANGED <<renewalRun, mailsOf, contractDay, contractCrashes>>

DeleteContract ==
  /\ contract # {} /\ contractEdit = {} /\ contract' = {}
  /\ UNCHANGED <<contractEdit, renewalRun, mailsOf, setMeanwhile, contractDay, contractCrashes>>

-----------------------------------------------------------------------------
(* check_contract_renewals.                                                 *)
(* Mutants of InNoticeWindow: the renewal date itself does not belong to it, and  *)
(* a term is reminded of every day.                                         *)
BeforeLastDay(c) == c.stamp = Unstamped /\ contractDay \in (c.renewal - Notice)..(c.renewal - 1)
EveryDay(c) == contractDay \in (c.renewal - Notice)..c.renewal

InNoticeWindow(c) == c.stamp = Unstamped /\ contractDay \in (c.renewal - Notice)..c.renewal

RenewalsRead ==
  /\ renewalRun = Before
  /\ renewalRun' = IF \E c \in contract : InNoticeWindow(c)
                   THEN [at |-> "read", term |-> (CHOOSE c \in contract : TRUE).term]
                   ELSE Done
  /\ UNCHANGED <<contract, contractEdit, mailsOf, setMeanwhile, contractDay, contractCrashes>>

(* Without an address, and when the mail fails, the contract is stamped too.*)
RenewalsMail ==
  /\ renewalRun.at = "read" /\ renewalRun' = [renewalRun EXCEPT !.at = "mailed"]
  /\ mailsOf' \in {mailsOf} \cup
       (IF HasAddress THEN {[mailsOf EXCEPT ![renewalRun.term] = @ + 1]} ELSE {})
  /\ UNCHANGED <<contract, contractEdit, setMeanwhile, contractDay, contractCrashes>>

RenewalsCommit ==
  /\ renewalRun.at = "mailed" /\ renewalRun' = Done
  /\ contract' = {[c EXCEPT !.stamp = renewalRun.term] : c \in contract}
  /\ UNCHANGED <<contractEdit, mailsOf, setMeanwhile, contractDay, contractCrashes>>

(* The message of a run that dies is delivered again.                       *)
RenewalsDie ==
  /\ RenewalRunning /\ contractCrashes < MaxContractCrashes
  /\ renewalRun' = Before /\ contractCrashes' = contractCrashes + 1
  /\ UNCHANGED <<contract, contractEdit, mailsOf, setMeanwhile, contractDay>>

NextContractDay ==
  /\ renewalRun = Done /\ contractDay < ContractDays
  /\ renewalRun' = Before /\ contractDay' = contractDay + 1
  /\ UNCHANGED <<contract, contractEdit, mailsOf, setMeanwhile, contractCrashes>>

ContractNext ==
  \/ ReadContract \/ DeleteContract \/ \E d \in RenewalDates : UpdateContract(d)
  \/ RenewalsRead \/ RenewalsMail \/ RenewalsCommit \/ RenewalsDie \/ NextContractDay

ContractSpec == ContractInit /\ [][ContractNext]_contractVars

-----------------------------------------------------------------------------
(* Of one term there is one mail, and one more for each death of a run      *)
(* between the mail and the stamp.                                          *)
OneMailPerTerm == \A t \in Terms : mailsOf[t] <= 1 + contractCrashes

(* When the renewal date is reached, every run of the window having been,   *)
(* the term carries its stamp, unless its clock was set on the very day or  *)
(* while the task was at work.                                              *)
WindowIsNotMissed ==
  \A c \in contract :
    contractDay = c.renewal /\ renewalRun = Done /\ c.set < c.renewal /\ c.term \notin setMeanwhile
      => c.stamp = c.term

(* Each term is reminded of, and once.                                      *)
RenewalsKept == OneMailPerTerm /\ WindowIsNotMissed

=============================================================================
