------------------------------ MODULE AssetPool ------------------------------
(***************************************************************************)
(* The asset_pool table: one row per managed asset, with its status and    *)
(* current_order_id.  Every operation below is one committed UPDATE of     *)
(* worker/tasks/modules/pool_manager.py (or the same UPDATE inlined in a   *)
(* portal handler).  Only the two reservations look at the row before they *)
(* write it: release_asset, mark_reinstall and set_asset_busy address it   *)
(* by id alone, and that is what the properties of OrderLifecycle are      *)
(* about.                                                                  *)
(***************************************************************************)
CONSTANTS
  Assets,   \* rows of asset_pool (all of one asset type)
  Orders,   \* order ids
  NoOrder   \* SQL NULL in current_order_id

ASSUME NoOrderAssumption == NoOrder \notin Orders

VARIABLES
  poolStatus,   \* asset_pool.status
  holder        \* asset_pool.current_order_id

poolVars == <<poolStatus, holder>>

PoolStatuses == {"Free", "reserved", "busy", "Reinstall"}

PoolTypeOK ==
  /\ poolStatus \in [Assets -> PoolStatuses]
  /\ holder \in [Assets -> Orders \cup {NoOrder}]

PoolInit ==
  /\ poolStatus = [a \in Assets |-> "Free"]
  /\ holder = [a \in Assets |-> NoOrder]

-----------------------------------------------------------------------------
(* Mutant of ReserveAsset: the row is chosen and written without its status *)
(* being looked at.                                                         *)
ReserveAnyAsset(a, o) ==
  /\ poolStatus' = [poolStatus EXCEPT ![a] = "reserved"]
  /\ holder' = [holder EXCEPT ![a] = o]

(* SELECT ... WHERE status = 'Free' LIMIT 1 FOR UPDATE SKIP LOCKED, then    *)
(* UPDATE, in one transaction: the row lock makes the pair one step.        *)
ReserveAsset(a, o) ==
  /\ poolStatus[a] = "Free"
  /\ poolStatus' = [poolStatus EXCEPT ![a] = "reserved"]
  /\ holder' = [holder EXCEPT ![a] = o]

NoFreeAsset == \A a \in Assets : poolStatus[a] # "Free"

(* UPDATE asset_pool SET status='Free', current_order_id=NULL WHERE id=:id  *)
ReleaseAsset(a) ==
  /\ poolStatus' = [poolStatus EXCEPT ![a] = "Free"]
  /\ holder' = [holder EXCEPT ![a] = NoOrder]

(* UPDATE asset_pool SET status='Reinstall' WHERE id=:id                    *)
MarkReinstall(a) ==
  /\ poolStatus' = [poolStatus EXCEPT ![a] = "Reinstall"]
  /\ UNCHANGED holder

(* Mutant of SetAssetBusy: it relies on the reservation for the order id.   *)
SetBusyOnly(a, o) ==
  /\ poolStatus' = [poolStatus EXCEPT ![a] = "busy"]
  /\ UNCHANGED holder

(* UPDATE asset_pool SET status='busy', current_order_id=:order WHERE id=:id *)
SetAssetBusy(a, o) ==
  /\ poolStatus' = [poolStatus EXCEPT ![a] = "busy"]
  /\ holder' = [holder EXCEPT ![a] = o]

(* The portal's cancellation of a scheduled order gives the asset back with *)
(* AND status='reserved': a row in any other status is left as it is.       *)
ReleaseReserved(a) ==
  IF poolStatus[a] = "reserved" THEN ReleaseAsset(a) ELSE UNCHANGED poolVars

(* An asset in use names the order it is used for, and a free one names     *)
(* none, whatever order the writers above ran in.  (A 'Reinstall' row may   *)
(* name either: mark_reinstall does not look at current_order_id.)          *)
PoolRowConsistent ==
  \A a \in Assets :
    /\ poolStatus[a] \in {"reserved", "busy"} => holder[a] # NoOrder
    /\ poolStatus[a] = "Free" => holder[a] = NoOrder
=============================================================================
