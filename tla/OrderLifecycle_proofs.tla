------------------------ MODULE OrderLifecycle_proofs ------------------------
(***************************************************************************)
(* Proofs about OrderLifecycle, for every set of orders, users, assets,    *)
(* workers and sessions, every strategy and policy, every set of enabled   *)
(* handlers and faults (AccessCorrect: of all but the four of RunsGoOn;    *)
(* ExclusiveCorrect: of one request at a time among those of OneAtATime;   *)
(* LeaverCorrect: of one worker and one request at a time, see OneByOne).  *)
(***************************************************************************)
EXTENDS OrderLifecycle, TLAPS

(* A worker that is doing something works for an order.                     *)
RunNamesOrder == \A w \in Workers : At(w, "idle") \/ run[w].order \in Orders

TypeInv == TypeOK /\ RunNamesOrder

-----------------------------------------------------------------------------
(* The enumerated types, as facts that keep them folded in the proofs.      *)

LEMMA StatusNames ==
  {"none", "pending_approval", "scheduled", "processing", "provisioned",
   "delivered", "revoking", "revoked", "failed", "expired", "cancelled",
   "rejected"} \subseteq Statuses
BY DEF Statuses

LEMMA OtherNames ==
  /\ {"provision", "modify", "delete"} \subseteq Actions
  /\ {"none", "success", "rolled_back", "failed"} \subseteq GrantStates
  /\ {"Free", "reserved", "busy", "Reinstall"} \subseteq PoolStatuses
BY DEF Actions, GrantStates, PoolStatuses

LEMMA StepNames ==
  /\ {"reserve", "grant", "log", "busy", "runbook", "guard", "unlink",
      "revoke", "release", "reinstall", "stamp", "postRelease", "sweep"}
        \subseteq Steps
  /\ \A act \in Actions : FirstStep(act) \in Steps
  /\ AfterReserve \in Steps
  /\ AfterGroup \in Steps
  /\ \A r : AfterGrant(r) \in Steps
  /\ \A r : AfterRevoke(r) \in Steps
  /\ \A r : AfterStamp(r) \in Steps
  /\ \A act \in Actions : FinalStatus(act) \in Statuses
BY DEF Steps, FirstStep, AfterReserve, AfterGroup, AfterGrant, AfterRevoke,
       AfterStamp, FinalStatus, Actions, Statuses

LEMMA IdleTyped ==
  /\ IdleRun \in [order: Orders \cup {NoOrder}, action: Actions,
                  asset: Assets \cup {NoAsset}, pc: Steps]
  /\ IdleRun.pc = "idle"
  /\ IdleSession \in [kind: Kinds, order: Orders \cup {NoOrder},
                      asset: Assets \cup {NoAsset}, seen: Statuses,
                      user: Users \cup {NoUser}, many: SUBSET Orders]
BY DEF IdleRun, IdleSession, Actions, Steps, Kinds, Statuses

-----------------------------------------------------------------------------
(* Type correctness.                                                        *)

LEMMA TypeInit == Init => TypeInv
BY LifecycleAssumption, StatusNames, OtherNames, IdleTyped
   DEF Init, TypeInv, TypeOK, RunNamesOrder, PoolInit, PoolTypeOK, At

(* What every step does to the message queue and the fault counter.         *)
LEMMA PublishTyped ==
  ASSUME queue \in [Orders -> Nat], faults \in Nat, NEW S, Publish(S)
  PROVE  queue' \in [Orders -> Nat] /\ faults' \in Nat
BY DEF Publish, Fault

LEMMA InsertTyped ==
  ASSUME TypeOK, NEW o \in Orders, NEW st \in Statuses, NEW act \in Actions,
         NEW a \in Assets \cup {NoAsset}, NEW u \in Users \cup {NoUser},
         InsertOrder(o, st, act, a, u)
  PROVE  /\ status' \in [Orders -> Statuses]
         /\ action' \in [Orders -> Actions]
         /\ assigned' \in [Orders -> Assets \cup {NoAsset}]
         /\ requester' \in [Orders -> Users \cup {NoUser}]
BY DEF InsertOrder, TypeOK

LEMMA ReserveTyped ==
  ASSUME PoolTypeOK, NEW a \in Assets, NEW o \in Orders, ReserveAsset(a, o)
  PROVE  PoolTypeOK'
BY OtherNames DEF PoolTypeOK, ReserveAsset

LEMMA ReleaseTyped ==
  ASSUME PoolTypeOK, NEW a, ReleaseAsset(a) \/ MarkReinstall(a)
  PROVE  PoolTypeOK'
BY OtherNames DEF PoolTypeOK, ReleaseAsset, MarkReinstall

LEMMA BusyTyped ==
  ASSUME PoolTypeOK, NEW a, NEW o \in Orders, SetAssetBusy(a, o)
  PROVE  PoolTypeOK'
BY OtherNames DEF PoolTypeOK, SetAssetBusy

LEMMA RevokeTyped ==
  ASSUME TypeOK, NEW u, NEW F, RevokeGrants(u, F)
  PROVE  grants' \in [Orders -> GrantStates] /\ member' \subseteq Users \cup {NoUser}
BY OtherNames DEF TypeOK, RevokeGrants

(* A handler that reads changes its session only; one that commits leaves   *)
(* it idle.                                                                 *)
LEMMA ReadTyped ==
  ASSUME TypeInv, NEW s \in Sessions, NEW kind \in Kinds, NEW o \in Orders,
         Read(s, kind, o)
  PROVE  TypeInv'
<1>1. Loaded(kind, o) \in [kind: Kinds, order: Orders \cup {NoOrder},
                      asset: Assets \cup {NoAsset}, seen: Statuses,
                      user: Users \cup {NoUser}, many: SUBSET Orders]
  BY DEF Loaded, TypeInv, TypeOK
<1>2. session' = [session EXCEPT ![s] = Loaded(kind, o)]
  BY DEF Read, Opens
<1>3. UNCHANGED <<poolVars, orderVars, undecided, stepped, accessVars, queue,
                  run, faults, cleared, left>>
  BY DEF Read
<1>4. QED
  BY <1>1, <1>2, <1>3
     DEF TypeInv, TypeOK, RunNamesOrder, At, PoolTypeOK, poolVars, orderVars,
         accessVars

LEMMA CommitTyped ==
  ASSUME TypeOK, NEW s \in Sessions, NEW kind, Commits(s, kind)
  PROVE  /\ session' \in [Sessions -> [kind: Kinds, order: Orders \cup {NoOrder},
                              asset: Assets \cup {NoAsset}, seen: Statuses,
                              user: Users \cup {NoUser}, many: SUBSET Orders]]
         /\ session[s].asset \in Assets \cup {NoAsset}
         /\ session[s].user \in Users \cup {NoUser}
         /\ session[s].many \subseteq Orders
BY IdleTyped DEF TypeOK, Commits

LEMMA TypePlace ==
  ASSUME TypeInv, NEW o \in Orders, Place(o)
  PROVE  TypeInv'
<1> USE DEF TypeInv
<1>1. ASSUME NEW u \in Users, NEW act \in Actions, CreateImmediate(o, u, act)
      PROVE  TypeInv'
  BY <1>1, InsertTyped, PublishTyped, StatusNames, LifecycleAssumption
     DEF CreateImmediate, TypeOK, RunNamesOrder, At, PoolTypeOK, poolVars, accessVars
<1>2. ASSUME NEW u \in Users, CreateForApproval(o, u) PROVE TypeInv'
  BY <1>2, InsertTyped, StatusNames, OtherNames
     DEF CreateForApproval, NoPublish, TypeOK, RunNamesOrder, At, PoolTypeOK, poolVars, accessVars
<1>3. ASSUME NEW u \in Users, CreateScheduled(o, u) PROVE TypeInv'
  <2>1. PoolTypeOK'
    BY <1>3, ReserveTyped DEF CreateScheduled, TypeOK, PoolTypeOK, poolVars
  <2>2. QED
    BY <1>3, <2>1, InsertTyped, StatusNames, OtherNames
       DEF CreateScheduled, NoPublish, TypeOK, RunNamesOrder, At, accessVars
<1>4. QED BY <1>1, <1>2, <1>3 DEF Place

LEMMA TypeDecide ==
  ASSUME TypeInv, NEW o \in Orders, Decide(o) \/ RecoverStuck(o)
  PROVE  TypeInv'
<1> USE DEF TypeInv
<1>1. CASE ApproveImmediate(o)
  BY <1>1, PublishTyped, StatusNames
     DEF ApproveImmediate, TypeOK, RunNamesOrder, At, PoolTypeOK, poolVars, accessVars
<1>2. CASE ApproveScheduled(o)
  <2>1. PoolTypeOK' /\ assigned' \in [Orders -> Assets \cup {NoAsset}]
    BY <1>2, ReserveTyped DEF ApproveScheduled, TypeOK, PoolTypeOK, poolVars
  <2>2. QED
    BY <1>2, <2>1, StatusNames
       DEF ApproveScheduled, NoPublish, TypeOK, RunNamesOrder, At, accessVars
<1>3. CASE Decline(o)
  BY <1>3, StatusNames
     DEF Decline, NoPublish, TypeOK, RunNamesOrder, At, PoolTypeOK, poolVars, accessVars, historyVars
<1>4. CASE RecoverStuck(o)
  BY <1>4, PublishTyped
     DEF RecoverStuck, TypeOK, RunNamesOrder, At, PoolTypeOK, poolVars, orderVars, accessVars, historyVars
<1>5. QED BY <1>1, <1>2, <1>3, <1>4 DEF Decide

LEMMA TypeRead ==
  ASSUME TypeInv, NEW s \in Sessions, ReadRequest(s)
  PROVE  TypeInv'
<1>1. ASSUME NEW o \in Orders, NEW kind \in Kinds, Read(s, kind, o)
      PROVE  TypeInv'
  BY <1>1, ReadTyped
<1>2. ASSUME NEW o \in Orders,
             \/ PortalCancelRead(s, o) \/ AdminCancelRead(s, o)
             \/ ChangeRead(s, o) \/ AdminChangeRead(s, o)
             \/ OrderDeleteRead(s, o) \/ RetryRead(s, o)
             \/ CertRevokeRead(s, o) \/ ScheduledRead(s, o)
      PROVE  TypeInv'
  <2>1. \E kind \in Kinds : Read(s, kind, o)
    BY <1>2
       DEF PortalCancelRead, AdminCancelRead, ChangeRead, AdminChangeRead,
           OrderDeleteRead, RetryRead, CertRevokeRead, ScheduledRead, Kinds
  <2>2. QED BY <1>1, <2>1
<1>3. ASSUME NEW u \in Users, LeaverRead(s, u)
      PROVE  TypeInv'
  <2> DEFINE S == {o \in Orders : requester[o] = u
                                  /\ status[o] \in ActiveStatuses}
             r == [IdleSession EXCEPT !.kind = "leaver", !.user = u, !.many = S]
  <2>1. r \in [kind: Kinds, order: Orders \cup {NoOrder},
               asset: Assets \cup {NoAsset}, seen: Statuses,
               user: Users \cup {NoUser}, many: SUBSET Orders]
    BY IdleTyped DEF Kinds
  <2>2. session' = [session EXCEPT ![s] = r]
    BY <1>3 DEF LeaverRead, Opens
  <2> HIDE DEF r
  <2>3. QED
    BY <1>3, <2>1, <2>2
       DEF LeaverRead, TypeInv, TypeOK, RunNamesOrder, At, PoolTypeOK,
           poolVars, orderVars, accessVars
<1>4. ASSUME NEW a \in Assets, RevokeAssetRead(s, a)
      PROVE  TypeInv'
  <2> DEFINE r == [IdleSession EXCEPT !.kind = "revokeAsset", !.asset = a]
  <2>1. r \in [kind: Kinds, order: Orders \cup {NoOrder},
               asset: Assets \cup {NoAsset}, seen: Statuses,
               user: Users \cup {NoUser}, many: SUBSET Orders]
    BY IdleTyped DEF Kinds
  <2>2. session' = [session EXCEPT ![s] = r]
    BY <1>4 DEF RevokeAssetRead, Opens
  <2>3. grants' \in [Orders -> GrantStates] /\ member' \subseteq Users \cup {NoUser}
    BY <1>4, RevokeTyped DEF RevokeAssetRead, TypeInv, TypeOK, accessVars
  <2> HIDE DEF r
  <2>4. QED
    BY <1>4, <2>1, <2>2, <2>3
       DEF RevokeAssetRead, TypeInv, TypeOK, RunNamesOrder, At, PoolTypeOK,
           poolVars, orderVars, historyVars
<1>5. ASSUME NEW a \in Assets, ExpiryRead(s, a)
      PROVE  TypeInv'
  <2> DEFINE r == [Loaded("expiry", holder[a]) EXCEPT !.asset = a]
  <2>1. r \in [kind: Kinds, order: Orders \cup {NoOrder},
               asset: Assets \cup {NoAsset}, seen: Statuses,
               user: Users \cup {NoUser}, many: SUBSET Orders]
    BY <1>5 DEF ExpiryRead, Loaded, Kinds, TypeInv, TypeOK, PoolTypeOK
  <2>2. session' = [session EXCEPT ![s] = r]
    BY <1>5 DEF ExpiryRead, Opens
  <2> HIDE DEF r
  <2>3. QED
    BY <1>5, <2>1, <2>2
       DEF ExpiryRead, TypeInv, TypeOK, RunNamesOrder, At, PoolTypeOK,
           poolVars, orderVars, accessVars, historyVars
<1>6. QED BY <1>2, <1>3, <1>4, <1>5 DEF ReadRequest

LEMMA TypeCommit ==
  ASSUME TypeInv, NEW s \in Sessions, CommitRequest(s)
  PROVE  TypeInv'
<1> USE DEF TypeInv
<1>1. CASE PortalCancelScheduled(s)
  <2>1. PoolTypeOK'
    BY <1>1, ReleaseTyped
       DEF PortalCancelScheduled, ReleaseReserved, TypeOK, PoolTypeOK, poolVars
  <2>2. QED
    BY <1>1, <2>1, CommitTyped, StatusNames
       DEF PortalCancelScheduled, NoPublish, TypeOK, RunNamesOrder, At,
           accessVars, historyVars
<1>2. CASE OrderDeleteCommit(s)
  <2>1. /\ status' \in [Orders -> Statuses]
        /\ action' \in [Orders -> Actions]
    BY <1>2, StatusNames, OtherNames DEF OrderDeleteCommit, TypeOK
  <2>2. queue' \in [Orders -> Nat] /\ faults' \in Nat
    BY <1>2, PublishTyped DEF OrderDeleteCommit, NoPublish, TypeOK
  <2>3. QED
    BY <1>2, <2>1, <2>2, CommitTyped
       DEF OrderDeleteCommit, TypeOK, RunNamesOrder, At, PoolTypeOK,
           poolVars, accessVars, historyVars
<1>3. CASE RetryCommit(s)
  BY <1>3, CommitTyped, PublishTyped, StatusNames
     DEF RetryCommit, TypeOK, RunNamesOrder, At, PoolTypeOK, poolVars, accessVars
<1>4. ASSUME NEW S, NEW kind, Commits(s, kind), TurnToDelete(S)
      PROVE  TypeInv'
  BY <1>4, CommitTyped, PublishTyped, StatusNames, OtherNames
     DEF TurnToDelete, TypeOK, RunNamesOrder, At, PoolTypeOK, poolVars,
         accessVars, historyVars
<1>5. CASE CertRevokeCommit(s)
  BY <1>4, <1>5 DEF CertRevokeCommit
<1>6. CASE LeaverCommit(s)
  BY <1>4, <1>6 DEF LeaverCommit
<1>7. CASE RevokeAssetCommit(s)
  <2>1. PoolTypeOK'
    BY <1>7, ReleaseTyped DEF RevokeAssetCommit, TypeOK
  <2>2. /\ status' \in [Orders -> Statuses]
        /\ assigned' \in [Orders -> Assets \cup {NoAsset}]
    BY <1>7, StatusNames DEF RevokeAssetCommit, TypeOK
  <2>3. QED
    BY <1>7, <2>1, <2>2, CommitTyped
       DEF RevokeAssetCommit, NoPublish, TypeOK, RunNamesOrder, At,
           accessVars, historyVars
<1>8. CASE ScheduledCommit(s)
  BY <1>8, CommitTyped, PublishTyped, StatusNames
     DEF ScheduledCommit, TypeOK, RunNamesOrder, At, PoolTypeOK, poolVars,
         accessVars, historyVars
<1>9. ASSUME NEW new \in Orders, PortalCancelActive(s, new)
      PROVE  TypeInv'
  BY <1>9, CommitTyped, PublishTyped, StatusNames, OtherNames
     DEF PortalCancelActive, TypeOK, RunNamesOrder, At, PoolTypeOK, poolVars,
         accessVars
<1>10. ASSUME NEW new \in Orders, AdminCancelCommit(s, new)
       PROVE  TypeInv'
  BY <1>10, CommitTyped, PublishTyped, InsertTyped, StatusNames, OtherNames
     DEF AdminCancelCommit, InsertDeleteOrder, TypeOK, RunNamesOrder, At,
         PoolTypeOK, poolVars, accessVars
<1>11. ASSUME NEW new \in Orders, ChangeAtOnce(s, new)
       PROVE  TypeInv'
  BY <1>11, CommitTyped, PublishTyped, InsertTyped, StatusNames, OtherNames
     DEF ChangeAtOnce, TypeOK, RunNamesOrder, At, PoolTypeOK, poolVars,
         accessVars
<1>12. ASSUME NEW new \in Orders, ChangeForApproval(s, new)
       PROVE  TypeInv'
  BY <1>12, CommitTyped, InsertTyped, StatusNames, OtherNames
     DEF ChangeForApproval, NoPublish, TypeOK, RunNamesOrder, At, PoolTypeOK,
         poolVars, accessVars
<1>13. ASSUME NEW new \in Orders, ExpiryCommit(s, new)
       PROVE  TypeInv'
  BY <1>13, CommitTyped, PublishTyped, StatusNames, OtherNames
     DEF ExpiryCommit, TypeOK, RunNamesOrder, At, PoolTypeOK, poolVars,
         accessVars
<1>14. QED
  BY <1>1, <1>2, <1>3, <1>5, <1>6, <1>7, <1>8, <1>9, <1>10, <1>11, <1>12, <1>13
     DEF CommitRequest

(* What the runs share: a worker that moves on, ends or fails.              *)
LEMMA GotoTyped ==
  ASSUME TypeInv, NEW w \in Workers, NEW pc \in Steps, ~At(w, "idle"),
         Goto(w, pc) \/ EndRun(w)
  PROVE  /\ run' \in [Workers -> [order: Orders \cup {NoOrder}, action: Actions,
                          asset: Assets \cup {NoAsset}, pc: Steps]]
         /\ RunNamesOrder'
         /\ run[w].order \in Orders
<1>1. CASE Goto(w, pc)
  BY <1>1 DEF TypeInv, TypeOK, RunNamesOrder, At, Goto
<1>2. CASE EndRun(w)
  BY <1>2, IdleTyped DEF TypeInv, TypeOK, RunNamesOrder, At, EndRun
<1>3. QED BY <1>1, <1>2

LEMMA FailTyped ==
  ASSUME TypeInv, NEW w \in Workers, ~At(w, "idle"), FailRun(w)
  PROVE  /\ run' \in [Workers -> [order: Orders \cup {NoOrder}, action: Actions,
                          asset: Assets \cup {NoAsset}, pc: Steps]]
         /\ RunNamesOrder'
         /\ status' \in [Orders -> Statuses]
BY IdleTyped, StatusNames
   DEF TypeInv, TypeOK, RunNamesOrder, At, EndRun, FailRun, SetStatus

LEMMA TypeStart ==
  ASSUME TypeInv, NEW w \in Workers, NEW o \in Orders, Start(w, o)
  PROVE  TypeInv'
<1> DEFINE r == [order |-> o, action |-> action[o], asset |-> assigned[o],
                 pc |-> FirstStep(action[o])]
<1>1. r \in [order: Orders \cup {NoOrder}, action: Actions,
             asset: Assets \cup {NoAsset}, pc: Steps]
      /\ r.order \in Orders
  BY StepNames DEF TypeInv, TypeOK
<1>2. run' = [run EXCEPT ![w] = r] BY DEF Start
<1> HIDE DEF r
<1>3. RunNamesOrder' BY <1>1, <1>2 DEF TypeInv, TypeOK, RunNamesOrder, At
<1>4. queue' \in [Orders -> Nat] BY DEF Start, TypeInv, TypeOK
<1>5. QED
  BY <1>1, <1>2, <1>3, <1>4
     DEF Start, TypeInv, TypeOK, PoolTypeOK, poolVars, orderVars, accessVars,
         historyVars

LEMMA TypeRunStep ==
  ASSUME TypeInv, NEW w \in Workers, RunStep(w)
  PROVE  TypeInv'
<1>1. CASE ReserveStep(w)
  <2> USE <1>1
  <2>1. CASE run[w].asset # NoAsset
    BY <2>1, GotoTyped, StepNames
       DEF ReserveStep, At, TypeInv, TypeOK, PoolTypeOK, poolVars, runFrame,
           accessVars, historyVars
  <2>2. CASE run[w].asset = NoAsset /\ ~NoFreeAsset
    <3>1. PICK a \in Assets :
             /\ ReserveAsset(a, run[w].order)
             /\ assigned' = [assigned EXCEPT ![run[w].order] = a]
             /\ run' = [run EXCEPT ![w] = [@ EXCEPT !.asset = a,
                                                 !.pc = AfterReserve]]
             /\ UNCHANGED status
      BY <2>2 DEF ReserveStep
    <3>2. run[w].order \in Orders
      BY DEF ReserveStep, TypeInv, RunNamesOrder, At
    <3>3. PoolTypeOK'
      BY <3>1, <3>2, ReserveTyped DEF TypeInv, TypeOK
    <3>4. /\ run' \in [Workers -> [order: Orders \cup {NoOrder}, action: Actions,
                          asset: Assets \cup {NoAsset}, pc: Steps]]
          /\ RunNamesOrder'
      <4> DEFINE r == [run[w] EXCEPT !.asset = a, !.pc = AfterReserve]
      <4>1. r \in [order: Orders \cup {NoOrder}, action: Actions,
                   asset: Assets \cup {NoAsset}, pc: Steps]
            /\ r.order \in Orders
        BY <3>2, StepNames DEF TypeInv, TypeOK
      <4>2. run' = [run EXCEPT ![w] = r]
        BY <3>1 DEF TypeInv, TypeOK
      <4> HIDE DEF r
      <4>3. QED BY <4>1, <4>2 DEF TypeInv, TypeOK, RunNamesOrder, At
    <3>5. QED
      BY <3>1, <3>3, <3>4
         DEF ReserveStep, TypeInv, TypeOK, runFrame, accessVars, historyVars
  <2>3. CASE run[w].asset = NoAsset /\ NoFreeAsset
    <3>1. FailRun(w) /\ UNCHANGED <<poolVars, assigned>>
      BY <2>3 DEF ReserveStep, ReserveAsset, NoFreeAsset
    <3>2. QED
      BY <3>1, FailTyped
         DEF ReserveStep, At, TypeInv, TypeOK, PoolTypeOK, poolVars, runFrame,
             accessVars, historyVars
  <2>4. QED BY <2>1, <2>2, <2>3
<1>2. CASE GrantStep(w)
  <2>1. grants' \in [Orders -> GrantStates] /\ member' \subseteq Users \cup {NoUser}
    BY <1>2, OtherNames
       DEF GrantStep, TypeInv, TypeOK, RunNamesOrder, At, accessVars
  <2>2. QED
    BY <1>2, <2>1, GotoTyped, FailTyped, StepNames
       DEF GrantStep, At, TypeInv, TypeOK, PoolTypeOK, poolVars, runFrame,
           accessVars, historyVars
<1>3. CASE LogStep(w)
  BY <1>3, GotoTyped, StepNames, OtherNames
     DEF LogStep, At, TypeInv, TypeOK, PoolTypeOK, poolVars, runFrame,
         historyVars
<1>4. CASE BusyStep(w)
  BY <1>4, GotoTyped, BusyTyped, StepNames
     DEF BusyStep, At, TypeInv, TypeOK, runFrame, accessVars, historyVars
<1>5. CASE RunbookStep(w)
  <2>1. run[w].order \in Orders
    BY <1>5 DEF RunbookStep, TypeInv, RunNamesOrder, At
  <2>2. PoolTypeOK'
    BY <1>5, <2>1, BusyTyped, ReleaseTyped
       DEF RunbookStep, TypeInv, TypeOK, PoolTypeOK, poolVars
  <2>3. stepped' \subseteq Orders
    BY <1>5, <2>1 DEF RunbookStep, TypeInv, TypeOK
  <2>4. QED
    BY <1>5, <2>2, <2>3, GotoTyped, FailTyped, StepNames
       DEF RunbookStep, At, TypeInv, TypeOK, runFrame, accessVars, historyVars
<1>6. CASE GuardStep(w) \/ UnlinkStep(w)
  BY <1>6, GotoTyped, RevokeTyped, StepNames
     DEF GuardStep, UnlinkStep, At, TypeInv, TypeOK, PoolTypeOK, poolVars,
         runFrame, accessVars, historyVars
<1>7. CASE RevokeStep(w)
  BY <1>7, GotoTyped, FailTyped, RevokeTyped, StepNames
     DEF RevokeStep, At, TypeInv, TypeOK, PoolTypeOK, poolVars, runFrame,
         historyVars
<1>8. CASE ReleaseStep(w) \/ ReinstallStep(w) \/ PostReleaseStep(w)
  BY <1>8, GotoTyped, ReleaseTyped, StepNames
     DEF ReleaseStep, ReinstallStep, PostReleaseStep, At, TypeInv, TypeOK,
         runFrame, accessVars, historyVars
<1>9. CASE StampStep(w)
  <2>1. status' \in [Orders -> Statuses]
    BY <1>9, StepNames DEF StampStep, SetStatus, TypeInv, TypeOK
  <2>2. QED
    BY <1>9, <2>1, GotoTyped, StepNames
       DEF StampStep, At, TypeInv, TypeOK, PoolTypeOK, poolVars, runFrame,
           accessVars, historyVars
<1>10. CASE SweepStep(w)
  BY <1>10, GotoTyped, StepNames, StatusNames
     DEF SweepStep, At, TypeInv, TypeOK, PoolTypeOK, poolVars, runFrame,
         accessVars, historyVars
<1>11. QED
  BY <1>1, <1>2, <1>3, <1>4, <1>5, <1>6, <1>7, <1>8, <1>9, <1>10 DEF RunStep

LEMMA TypeFault ==
  ASSUME TypeInv, NEW w \in Workers, RunFault(w)
  PROVE  TypeInv'
<1>1. faults' \in Nat
  BY DEF RunFault, Crash, SilentDeath, Redeliver, RunRaises, Fault, TypeInv, TypeOK
<1>2. queue' \in [Orders -> Nat]
  BY DEF RunFault, Crash, SilentDeath, Redeliver, RunRaises, TypeInv, TypeOK
<1>3. CASE Crash(w) \/ SilentDeath(w)
  BY <1>1, <1>2, <1>3, GotoTyped, StepNames
     DEF Crash, SilentDeath, busyFrame, TypeInv, TypeOK, PoolTypeOK, poolVars,
         accessVars, historyVars
<1>4. CASE Redeliver(w)
  BY <1>1, <1>2, <1>4
     DEF Redeliver, busyFrame, TypeInv, TypeOK, RunNamesOrder, At, PoolTypeOK,
         poolVars, accessVars, historyVars
<1>5. CASE RunRaises(w)
  BY <1>1, <1>2, <1>5, FailTyped
     DEF RunRaises, busyFrame, TypeInv, TypeOK, PoolTypeOK, poolVars,
         accessVars, historyVars
<1>6. QED BY <1>3, <1>4, <1>5 DEF RunFault

LEMMA TypeNext ==
  ASSUME TypeInv, [Next]_vars
  PROVE  TypeInv'
<1>1. CASE UNCHANGED vars
  BY <1>1
     DEF vars, TypeInv, TypeOK, RunNamesOrder, At, PoolTypeOK, poolVars,
         orderVars, accessVars, historyVars
<1>2. CASE Next
  BY <1>2, TypePlace, TypeDecide, TypeRead, TypeCommit, TypeStart,
     TypeRunStep, TypeFault
     DEF Next
<1>3. QED BY <1>1, <1>2

(* Every variable keeps its type, whatever the strategy, the policy and the *)
(* handlers: no step stores an order, an asset or a user that is none.      *)
THEOREM TypeCorrect == Spec => []TypeOK
<1>1. TypeInv /\ [Next]_vars => TypeInv'
  BY TypeNext
<1>2. TypeInv => TypeOK BY DEF TypeInv
<1>3. QED BY TypeInit, <1>1, <1>2, PTL DEF Spec

-----------------------------------------------------------------------------
(* The approval gate.  ApprovalGate is not inductive: a grant is preceded   *)
(* by a run, a run by a message, a message by the commit of a handler, and  *)
(* the handler by the status it has read.  The strengthening carries the    *)
(* claim back along that chain: what may still lead to a run is approved,   *)
(* or turned into a delete (and stays one).                                 *)

Deprovisions(o) == action[o] = "delete"
MayRun(o) == o \in cleared \/ Deprovisions(o)

(* Messages, runs, requests and pool rows are about orders that exist.      *)
OrdersExist ==
  /\ \A o \in Orders : status[o] = "none"
       => queue[o] = 0 /\ o \notin undecided /\ grants[o] = "none"
  /\ \A w \in Workers : run[w].order \in Orders => status[run[w].order] # "none"
  /\ \A s \in Sessions :
       /\ session[s].order \in Orders => status[session[s].order] # "none"
       /\ \A o \in session[s].many : status[o] # "none"
  /\ \A a \in Assets : holder[a] \in Orders => status[holder[a]] # "none"

RunsMayRun ==
  \A w \in Workers :
    ~At(w, "idle") =>
      /\ run[w].action = "delete" => Deprovisions(run[w].order)
      /\ run[w].action # "delete" => run[w].order \in cleared
      /\ run[w].pc \in {"reserve", "grant", "log", "unlink"}
           => run[w].action # "delete"

MessagesMayRun == \A o \in Orders : queue[o] > 0 => MayRun(o)

RestartableMayRun ==
  \A o \in Orders : status[o] \in {"failed", "scheduled"} => MayRun(o)

RestartsMayRun ==
  \A s \in Sessions : session[s].kind \in {"retry", "scheduled"}
    => session[s].order \in Orders /\ MayRun(session[s].order)

GrantsAreCleared == \A o \in Orders : grants[o] # "none" => o \in cleared

GateInv ==
  /\ TypeInv
  /\ OrdersExist
  /\ RunsMayRun
  /\ MessagesMayRun
  /\ RestartableMayRun
  /\ RestartsMayRun
  /\ GrantsAreCleared

LEMMA GateInit == Init => GateInv
<1> SUFFICES ASSUME Init PROVE GateInv
  OBVIOUS
<1>1. TypeInv BY TypeInit
<1>2. OrdersExist
  BY NoOrderAssumption DEF Init, PoolInit, OrdersExist, IdleRun, IdleSession
<1>3. RunsMayRun /\ MessagesMayRun /\ RestartableMayRun /\ RestartsMayRun
      /\ GrantsAreCleared
  BY DEF Init, RunsMayRun, MessagesMayRun, RestartableMayRun, RestartsMayRun,
         GrantsAreCleared, IdleRun, IdleSession, At, MayRun
<1>4. QED BY <1>1, <1>2, <1>3 DEF GateInv

(* What no step takes back: the existence of an order, its being a delete,  *)
(* its approval.                                                            *)
Lasting ==
  /\ \A o \in Orders : status[o] # "none"
       => status'[o] # "none" /\ (Deprovisions(o) => Deprovisions(o)')
  /\ cleared \subseteq cleared'

LEMMA LastingPlace ==
  ASSUME TypeInv, NEW o \in Orders, Place(o)
  PROVE  Lasting
BY DEF Place, CreateImmediate, CreateForApproval, CreateScheduled, Fresh,
       InsertOrder, Lasting, Deprovisions, TypeInv, TypeOK

LEMMA LastingDecide ==
  ASSUME TypeInv, NEW o \in Orders, Decide(o) \/ RecoverStuck(o)
  PROVE  Lasting
BY DEF Decide, ApproveImmediate, ApproveScheduled, Decline, RecoverStuck,
       Lasting, Deprovisions, TypeInv, TypeOK, orderVars, historyVars

LEMMA LastingRead ==
  ASSUME TypeInv, NEW s \in Sessions, ReadRequest(s)
  PROVE  Lasting
BY DEF ReadRequest, PortalCancelRead, AdminCancelRead, ChangeRead,
       AdminChangeRead, OrderDeleteRead, RetryRead, CertRevokeRead,
       ScheduledRead, Read, LeaverRead, RevokeAssetRead, ExpiryRead,
       Lasting, Deprovisions, orderVars, historyVars

LEMMA LastingCommit ==
  ASSUME TypeInv, NEW s \in Sessions, CommitRequest(s)
  PROVE  Lasting
<1> USE DEF Lasting, Deprovisions, TypeInv, TypeOK, historyVars
<1>1. CASE \/ PortalCancelScheduled(s) \/ OrderDeleteCommit(s)
           \/ RetryCommit(s) \/ ScheduledCommit(s)
  BY <1>1
     DEF PortalCancelScheduled, OrderDeleteCommit, RetryCommit, ScheduledCommit
<1>2. CASE CertRevokeCommit(s) \/ LeaverCommit(s) \/ RevokeAssetCommit(s)
  BY <1>2 DEF CertRevokeCommit, LeaverCommit, RevokeAssetCommit, TurnToDelete
<1>3. ASSUME NEW new \in Orders,
             PortalCancelActive(s, new) \/ ExpiryCommit(s, new)
      PROVE  Lasting
  BY <1>3 DEF PortalCancelActive, ExpiryCommit, Fresh
<1>4. ASSUME NEW new \in Orders,
             \/ AdminCancelCommit(s, new)
             \/ ChangeAtOnce(s, new)
             \/ ChangeForApproval(s, new)
      PROVE  Lasting
  BY <1>4
     DEF AdminCancelCommit, ChangeAtOnce, ChangeForApproval,
         InsertDeleteOrder, InsertOrder, Fresh
<1>5. QED BY <1>1, <1>2, <1>3, <1>4 DEF CommitRequest

LEMMA LastingRun ==
  ASSUME TypeInv, NEW w \in Workers,
         RunStep(w) \/ RunFault(w) \/ \E o \in Orders : Start(w, o)
  PROVE  Lasting
<1> USE DEF Lasting, Deprovisions, TypeInv, TypeOK, runFrame, orderVars, historyVars
<1>1. CASE \/ ReserveStep(w) \/ GrantStep(w) \/ LogStep(w) \/ BusyStep(w)
           \/ RunbookStep(w) \/ GuardStep(w) \/ UnlinkStep(w) \/ RevokeStep(w)
  BY <1>1
     DEF ReserveStep, GrantStep, LogStep, BusyStep, RunbookStep, GuardStep,
         UnlinkStep, RevokeStep, FailRun, SetStatus
<1>2. CASE \/ ReleaseStep(w) \/ ReinstallStep(w) \/ PostReleaseStep(w)
           \/ SweepStep(w)
  BY <1>2 DEF ReleaseStep, ReinstallStep, PostReleaseStep, SweepStep
<1>6. CASE StampStep(w)
  <2>1. FinalStatus(run[w].action) # "none"
    BY DEF FinalStatus, Actions
  <2>2. QED BY <1>6, <2>1 DEF StampStep, SetStatus
<1>3. CASE RunFault(w)
  BY <1>3
     DEF RunFault, Crash, SilentDeath, Redeliver, RunRaises, busyFrame,
         FailRun, SetStatus
<1>4. CASE \E o \in Orders : Start(w, o)
  BY <1>4 DEF Start
<1>5. QED BY <1>1, <1>2, <1>3, <1>4, <1>6 DEF RunStep

-----------------------------------------------------------------------------
(* Each part of GateInv from what a step adds to it.                        *)

LEMMA ExistLasts ==
  ASSUME GateInv, Lasting,
         \A o \in Orders : status'[o] = "none" =>
           /\ queue'[o] = 0 \/ queue'[o] = queue[o]
           /\ o \in undecided' => o \in undecided
           /\ grants'[o] = "none" \/ grants'[o] = grants[o],
         \A w \in Workers : \/ run'[w].order = run[w].order
                           \/ run'[w].order \notin Orders
                           \/ status'[run'[w].order] # "none",
         \A s \in Sessions :
           \/ session'[s] = session[s]
           \/ /\ session'[s].order \in Orders => status'[session'[s].order] # "none"
              /\ \A o \in session'[s].many : status'[o] # "none",
         \A a \in Assets : \/ holder'[a] = holder[a]
                          \/ holder'[a] \notin Orders
                          \/ status'[holder'[a]] # "none"
  PROVE  OrdersExist'
BY DEF GateInv, OrdersExist, Lasting, TypeInv, TypeOK

LEMMA MayRunLasts ==
  ASSUME Lasting, NEW o \in Orders, MayRun(o), status[o] # "none"
  PROVE  MayRun(o)'
BY DEF Lasting, MayRun, Deprovisions

LEMMA RunsLast ==
  ASSUME GateInv, Lasting,
         \A w \in Workers :
           \/ run'[w] = run[w]
           \/ run'[w].pc = "idle"
           \/ /\ ~At(w, "idle")
              /\ run'[w].order = run[w].order
              /\ run'[w].action = run[w].action
              /\ run'[w].pc \in {"reserve", "grant", "log", "unlink"}
                   => run[w].pc \in {"reserve", "grant", "log", "unlink"}
  PROVE  RunsMayRun'
<1> SUFFICES ASSUME NEW w \in Workers, ~At(w, "idle")'
             PROVE  /\ run'[w].action = "delete" => Deprovisions(run[w].order)'
                    /\ run'[w].action # "delete" => run[w].order \in cleared'
                    /\ run'[w].order = run[w].order
                    /\ run'[w].pc \in {"reserve", "grant", "log", "unlink"}
                         => run'[w].action # "delete"
  BY DEF RunsMayRun, Deprovisions
<1>1. ~At(w, "idle") /\ run[w].order \in Orders /\ status[run[w].order] # "none"
  BY DEF At, GateInv, OrdersExist, TypeInv, RunNamesOrder
<1>2. QED BY <1>1 DEF At, GateInv, RunsMayRun, Lasting, Deprovisions

LEMMA MessagesLast ==
  ASSUME GateInv, Lasting,
         \A o \in Orders : queue'[o] > 0 => queue[o] > 0 \/ MayRun(o)'
  PROVE  MessagesMayRun'
<1> SUFFICES ASSUME NEW o \in Orders, queue'[o] > 0 PROVE MayRun(o)'
  BY DEF MessagesMayRun, MayRun, Deprovisions
<1>1. queue[o] > 0 => MayRun(o) /\ status[o] # "none"
  BY DEF GateInv, MessagesMayRun, OrdersExist, TypeInv, TypeOK
<1>2. QED BY <1>1, MayRunLasts

LEMMA RestartableLasts ==
  ASSUME GateInv, Lasting,
         \A o \in Orders : status'[o] \in {"failed", "scheduled"}
           => status[o] \in {"failed", "scheduled"} \/ MayRun(o)'
  PROVE  RestartableMayRun'
<1> SUFFICES ASSUME NEW o \in Orders, status'[o] \in {"failed", "scheduled"}
             PROVE  MayRun(o)'
  BY DEF RestartableMayRun, MayRun, Deprovisions
<1>1. status[o] \in {"failed", "scheduled"} => MayRun(o) /\ status[o] # "none"
  BY DEF GateInv, RestartableMayRun
<1>2. QED BY <1>1, MayRunLasts

LEMMA RestartsLast ==
  ASSUME GateInv, Lasting,
         \A s \in Sessions :
           \/ session'[s] = session[s]
           \/ session'[s].kind \notin {"retry", "scheduled"}
           \/ /\ session'[s].order \in Orders
              /\ status[session'[s].order] # "none"
              /\ MayRun(session'[s].order)
  PROVE  RestartsMayRun'
<1> SUFFICES ASSUME NEW s \in Sessions, session'[s].kind \in {"retry", "scheduled"}
             PROVE  session'[s].order \in Orders /\ MayRun(session[s].order)'
  BY DEF RestartsMayRun, MayRun, Deprovisions
<1> DEFINE o == session'[s].order
<1>1. /\ o \in Orders
      /\ status[o] # "none"
      /\ MayRun(o)
  BY DEF GateInv, RestartsMayRun, OrdersExist
<1>2. o \in cleared' \/ action'[o] = "delete"
  BY <1>1 DEF Lasting, MayRun, Deprovisions
<1>3. QED BY <1>1, <1>2 DEF MayRun, Deprovisions

LEMMA GrantsLast ==
  ASSUME GateInv, Lasting,
         \A o \in Orders : grants'[o] # "none" => grants[o] # "none" \/ o \in cleared'
  PROVE  GrantsAreCleared'
BY DEF GateInv, GrantsAreCleared, Lasting

-----------------------------------------------------------------------------
(* One lemma per group of actions.                                          *)

LEMMA GatePlace ==
  ASSUME GateInv, NEW o \in Orders, Place(o)
  PROVE  GateInv'
<1> DEFINE Placed == /\ status[o] = "none"
                     /\ \/ status' = [status EXCEPT ![o] = "processing"]
                        \/ status' = [status EXCEPT ![o] = "pending_approval"]
                        \/ status' = [status EXCEPT ![o] = "scheduled"]
                     /\ status'[o] = "pending_approval" \/ o \in cleared'
<1>1. TypeInv /\ TypeInv' /\ Lasting
  BY TypePlace, LastingPlace DEF GateInv
<1>2. Placed
  BY <1>1
     DEF Place, CreateImmediate, CreateForApproval, CreateScheduled, Fresh,
         InsertOrder, TypeInv, TypeOK
<1>3. /\ \A p \in Orders : p # o => queue'[p] = queue[p]
      /\ queue'[o] = queue[o] \/ status'[o] = "processing"
      /\ undecided' \subseteq undecided \cup {o}
      /\ UNCHANGED <<grants, run, session>>
  BY <1>1, <1>2
     DEF Place, CreateImmediate, CreateForApproval, CreateScheduled, Publish,
         NoPublish, InsertOrder, accessVars, TypeInv, TypeOK
<1>4. \A a \in Assets : holder'[a] = holder[a] \/ holder'[a] = o
  BY <1>1
     DEF Place, CreateImmediate, CreateForApproval, CreateScheduled,
         ReserveAsset, poolVars, TypeInv, TypeOK, PoolTypeOK
<1>5. OrdersExist'
  BY <1>1, <1>2, <1>3, <1>4, ExistLasts DEF TypeInv, TypeOK
<1>6. MessagesMayRun'
  BY <1>1, <1>2, <1>3, MessagesLast DEF MayRun, GateInv, OrdersExist
<1>7. RestartableMayRun'
  BY <1>1, <1>2, RestartableLasts DEF MayRun, TypeInv, TypeOK
<1>8. QED
  BY <1>1, <1>3, <1>5, <1>6, <1>7, RunsLast, RestartsLast, GrantsLast
     DEF GateInv

LEMMA GateDecide ==
  ASSUME GateInv, NEW o \in Orders, Decide(o) \/ RecoverStuck(o)
  PROVE  GateInv'
<1>1. TypeInv /\ TypeInv' /\ Lasting
  BY TypeDecide, LastingDecide DEF GateInv
<1>2. /\ status[o] # "none" \/ o \in undecided
      /\ UNCHANGED <<grants, run, session>>
      /\ undecided' \subseteq undecided
      /\ \A p \in Orders : p # o => queue'[p] = queue[p] /\ status'[p] = status[p]
      /\ queue'[o] = queue[o] \/ MayRun(o)'
      /\ status'[o] \in {status[o], "rejected"} \/ MayRun(o)'
  BY <1>1
     DEF Decide, ApproveImmediate, ApproveScheduled, Decline, RecoverStuck,
         Publish, NoPublish, accessVars, orderVars, historyVars, MayRun,
         Deprovisions, TypeInv, TypeOK
<1>3. \A a \in Assets : holder'[a] = holder[a] \/ holder'[a] = o
  BY <1>1
     DEF Decide, ApproveImmediate, ApproveScheduled, Decline, RecoverStuck,
         ReserveAsset, poolVars, TypeInv, TypeOK, PoolTypeOK
<1>4. status'[o] # "none"
  BY <1>1, <1>2 DEF Lasting, GateInv, OrdersExist
<1>5. OrdersExist'
  BY <1>1, <1>2, <1>3, <1>4, ExistLasts DEF TypeInv, TypeOK
<1>6. MessagesMayRun'
  BY <1>1, <1>2, MessagesLast
<1>7. RestartableMayRun'
  BY <1>1, <1>2, RestartableLasts
<1>8. QED
  BY <1>1, <1>2, <1>5, <1>6, <1>7, RunsLast, RestartsLast, GrantsLast
     DEF GateInv

(* A handler that only reads: what its session now holds exists, and what   *)
(* it means to restart may run.                                             *)
LEMMA GateSession ==
  ASSUME GateInv, TypeInv', Lasting, NEW s \in Sessions,
         \A t \in Sessions : t # s => session'[t] = session[t],
         session'[s].order \in Orders => status[session'[s].order] # "none",
         \A o \in session'[s].many : o \in Orders /\ status[o] # "none",
         session'[s].kind \in {"retry", "scheduled"}
           => /\ session'[s].order \in Orders
              /\ status[session'[s].order] \in {"failed", "scheduled"},
         \A o \in Orders : grants'[o] # "none" => grants[o] # "none",
         UNCHANGED <<queue, undecided, run, holder, status>>
  PROVE  GateInv'
<1>1. OrdersExist'
  <2>1. \A t \in Sessions :
          \/ session'[t] = session[t]
          \/ /\ session'[t].order \in Orders => status'[session'[t].order] # "none"
             /\ \A o \in session'[t].many : status'[o] # "none"
    OBVIOUS
  <2>2. \A o \in Orders : status'[o] = "none"
          => grants'[o] = "none" \/ grants'[o] = grants[o]
    BY DEF GateInv, OrdersExist
  <2>3. \A w \in Workers : run'[w].order = run[w].order
    OBVIOUS
  <2>4. QED BY <2>1, <2>2, <2>3, ExistLasts
<1>2. RestartsMayRun'
  BY RestartsLast DEF GateInv, RestartableMayRun
<1>3. QED
  BY <1>1, <1>2, RunsLast, MessagesLast, RestartableLasts, GrantsLast
     DEF GateInv

LEMMA GateRead ==
  ASSUME GateInv, NEW s \in Sessions, ReadRequest(s)
  PROVE  GateInv'
<1>1. TypeInv /\ TypeInv' /\ Lasting
  BY TypeRead, LastingRead DEF GateInv
<1>2. ASSUME NEW o \in Orders, NEW kind \in Kinds, Read(s, kind, o),
             status[o] # "none",
             kind \in {"retry", "scheduled"}
               => status[o] \in {"failed", "scheduled"}
      PROVE  GateInv'
  <2>1. /\ session'[s].order = o
        /\ session'[s].kind = kind
        /\ session'[s].many = {}
        /\ \A t \in Sessions : t # s => session'[t] = session[t]
        /\ UNCHANGED <<queue, undecided, run, holder, status, grants>>
    BY <1>1, <1>2
       DEF Read, Opens, Loaded, TypeInv, TypeOK, poolVars, orderVars, accessVars
  <2>2. QED BY <1>1, <1>2, <2>1, GateSession
<1>3. ASSUME NEW o \in Orders,
             \/ PortalCancelRead(s, o) \/ AdminCancelRead(s, o)
             \/ ChangeRead(s, o) \/ AdminChangeRead(s, o)
             \/ OrderDeleteRead(s, o) \/ RetryRead(s, o)
             \/ CertRevokeRead(s, o) \/ ScheduledRead(s, o)
      PROVE  GateInv'
  <2>1. \E kind \in Kinds :
           /\ Read(s, kind, o)
           /\ status[o] # "none"
           /\ kind \in {"retry", "scheduled"}
                => status[o] \in {"failed", "scheduled"}
    BY <1>3
       DEF PortalCancelRead, AdminCancelRead, ChangeRead, AdminChangeRead,
           OrderDeleteRead, RetryRead, CertRevokeRead, ScheduledRead, Kinds
  <2>2. QED BY <1>2, <2>1
<1>4. ASSUME NEW u \in Users, LeaverRead(s, u)
      PROVE  GateInv'
  <2> DEFINE S == {o \in Orders : requester[o] = u
                                  /\ status[o] \in ActiveStatuses}
  <2>1. \A o \in S : o \in Orders /\ status[o] # "none"
    BY DEF ActiveStatuses
  <2>2. session' = [session EXCEPT ![s] = [IdleSession EXCEPT
                       !.kind = "leaver", !.user = u, !.many = S]]
    BY <1>4 DEF LeaverRead, Opens
  <2> HIDE DEF S
  <2>3. /\ session'[s].order = NoOrder
        /\ session'[s].kind = "leaver"
        /\ session'[s].many = S
        /\ \A t \in Sessions : t # s => session'[t] = session[t]
    BY <1>1, <2>2 DEF IdleSession, TypeInv, TypeOK
  <2>4. UNCHANGED <<queue, undecided, run, holder, status, grants>>
    BY <1>4 DEF LeaverRead, poolVars, orderVars, accessVars
  <2>5. QED BY <1>1, <2>1, <2>3, <2>4, GateSession, NoOrderAssumption
<1>5. ASSUME NEW a \in Assets, RevokeAssetRead(s, a)
      PROVE  GateInv'
  <2>1. /\ session'[s].order = NoOrder
        /\ session'[s].kind = "revokeAsset"
        /\ session'[s].many = {}
        /\ \A t \in Sessions : t # s => session'[t] = session[t]
    BY <1>1, <1>5 DEF RevokeAssetRead, Opens, IdleSession, TypeInv, TypeOK
  <2>2. \A o \in Orders : grants'[o] # "none" => grants[o] # "none"
    BY <1>1, <1>5 DEF RevokeAssetRead, RevokeGrants, accessVars, TypeInv, TypeOK
  <2>3. UNCHANGED <<queue, undecided, run, holder, status>>
    BY <1>5 DEF RevokeAssetRead, poolVars, orderVars
  <2>4. QED BY <1>1, <2>1, <2>2, <2>3, GateSession, NoOrderAssumption
<1>6. ASSUME NEW a \in Assets, ExpiryRead(s, a)
      PROVE  GateInv'
  <2>1. /\ session'[s].order = holder[a]
        /\ session'[s].kind = "expiry"
        /\ session'[s].many = {}
        /\ \A t \in Sessions : t # s => session'[t] = session[t]
    BY <1>1, <1>6 DEF ExpiryRead, Opens, Loaded, TypeInv, TypeOK
  <2>2. UNCHANGED <<queue, undecided, run, holder, status, grants>>
    BY <1>6 DEF ExpiryRead, poolVars, orderVars, accessVars
  <2>3. QED BY <1>1, <2>1, <2>2, GateSession DEF GateInv, OrdersExist
<1>7. QED BY <1>3, <1>4, <1>5, <1>6 DEF ReadRequest

(* A handler that commits: its session is idle again, new rows are in       *)
(* statuses that restart nothing, and what it sends may run.                *)
LEMMA GateCommitted ==
  ASSUME GateInv, TypeInv', Lasting, NEW s \in Sessions,
         session' = [session EXCEPT ![s] = IdleSession],
         \A o \in Orders : status'[o] \in {"failed", "scheduled"}
           => status'[o] = status[o],
         \A o \in Orders : queue'[o] = queue[o] \/ MayRun(o)',
         \A o \in Orders : status'[o] = "none" =>
           queue'[o] = queue[o] /\ (o \in undecided' => o \in undecided),
         \A a \in Assets : holder'[a] = holder[a] \/ holder'[a] = NoOrder,
         UNCHANGED <<run, grants>>
  PROVE  GateInv'
<1>1. /\ session'[s].order = NoOrder
      /\ session'[s].kind = "idle"
      /\ session'[s].many = {}
      /\ \A t \in Sessions : t # s => session'[t] = session[t]
  BY DEF IdleSession, GateInv, TypeInv, TypeOK
<1>2. OrdersExist'
  BY <1>1, ExistLasts, NoOrderAssumption DEF TypeInv, TypeOK, GateInv
<1>3. RestartsMayRun'
  BY <1>1, RestartsLast
<1>4. MessagesMayRun'
  BY MessagesLast
<1>5. RestartableMayRun'
  BY RestartableLasts
<1>6. QED
  BY <1>2, <1>3, <1>4, <1>5, RunsLast, GrantsLast DEF GateInv

LEMMA GateCommit ==
  ASSUME GateInv, NEW s \in Sessions, CommitRequest(s)
  PROVE  GateInv'
<1>1. TypeInv /\ TypeInv' /\ Lasting
  BY TypeCommit, LastingCommit DEF GateInv
<1>2. session[s].kind \in {"retry", "scheduled"}
        => \E o \in Orders : /\ o = session[s].order
                             /\ MayRun(o)
                             /\ status[o] # "none"
  BY DEF GateInv, RestartsMayRun, OrdersExist
<1>3. CASE PortalCancelScheduled(s)
  <2>1. \A a \in Assets : holder'[a] = holder[a] \/ holder'[a] = NoOrder
    BY <1>1, <1>3
       DEF PortalCancelScheduled, ReleaseReserved, ReleaseAsset, poolVars,
           TypeInv, TypeOK, PoolTypeOK
  <2>2. QED
    BY <1>1, <1>3, <2>1, GateCommitted
       DEF PortalCancelScheduled, Commits, NoPublish, accessVars, TypeInv, TypeOK
<1>4. CASE OrderDeleteCommit(s)
  <2>1. \A p \in Orders : queue'[p] = queue[p] \/ MayRun(p)'
    BY <1>1, <1>4
       DEF OrderDeleteCommit, Publish, NoPublish, MayRun, Deprovisions,
           TypeInv, TypeOK
  <2>2. \A p \in Orders : status'[p] = "none" => queue'[p] = queue[p]
    BY <1>1, <1>4 DEF OrderDeleteCommit, Publish, NoPublish, TypeInv, TypeOK
  <2>3. QED
    BY <1>1, <1>4, <2>1, <2>2, GateCommitted
       DEF OrderDeleteCommit, Commits, poolVars, accessVars, TypeInv, TypeOK
<1>5. CASE RetryCommit(s) \/ ScheduledCommit(s)
  <2>1. PICK o \in Orders : /\ o = session[s].order
                            /\ MayRun(o)
                            /\ status[o] # "none"
    BY <1>2, <1>5 DEF RetryCommit, ScheduledCommit, Commits
  <2>2. MayRun(o)'
    BY <1>1, <2>1, MayRunLasts
  <2>3. \A p \in Orders : p # o => queue'[p] = queue[p] /\ status'[p] = status[p]
    BY <1>1, <1>5, <2>1
       DEF RetryCommit, ScheduledCommit, Publish, TypeInv, TypeOK
  <2>4. status'[o] = "processing"
    BY <1>1, <1>5, <2>1 DEF RetryCommit, ScheduledCommit, TypeInv, TypeOK
  <2>5. QED
    BY <1>1, <1>5, <2>2, <2>3, <2>4, GateCommitted
       DEF RetryCommit, ScheduledCommit, Commits, poolVars, accessVars
<1>6. ASSUME NEW S \in SUBSET Orders, NEW kind, Commits(s, kind),
             TurnToDelete(S)
      PROVE  GateInv'
  <2>1. \A p \in Orders : queue'[p] = queue[p] \/ MayRun(p)'
    BY <1>1, <1>6 DEF TurnToDelete, Publish, MayRun, Deprovisions, TypeInv, TypeOK
  <2>2. \A p \in Orders : status'[p] = "none" => queue'[p] = queue[p]
    BY <1>1, <1>6 DEF TurnToDelete, Publish, TypeInv, TypeOK
  <2>3. QED
    BY <1>1, <1>6, <2>1, <2>2, GateCommitted
       DEF TurnToDelete, Commits, poolVars, accessVars, TypeInv, TypeOK
<1>7. CASE CertRevokeCommit(s)
  <2>1. CASE session[s].order \in Orders
    BY <1>6, <1>7, <2>1 DEF CertRevokeCommit
  <2>2. CASE session[s].order \notin Orders
    <3>1. TurnToDelete({session[s].order}) /\ Commits(s, "certRevoke")
      BY <1>7 DEF CertRevokeCommit
    <3>2. \A p \in Orders : queue'[p] = queue[p] /\ status'[p] = status[p]
      BY <1>1, <2>2, <3>1 DEF TurnToDelete, Publish, TypeInv, TypeOK
    <3>3. QED
      BY <1>1, <3>1, <3>2, GateCommitted
         DEF TurnToDelete, Commits, poolVars, accessVars
  <2>3. QED BY <2>1, <2>2
<1>8. CASE LeaverCommit(s)
  BY <1>1, <1>6, <1>8 DEF LeaverCommit, TypeInv, TypeOK
<1>9. CASE RevokeAssetCommit(s)
  <2>1. \A a \in Assets : holder'[a] = holder[a] \/ holder'[a] = NoOrder
    BY <1>1, <1>9
       DEF RevokeAssetCommit, ReleaseAsset, TypeInv, TypeOK, PoolTypeOK
  <2>2. QED
    BY <1>1, <1>9, <2>1, GateCommitted
       DEF RevokeAssetCommit, Commits, NoPublish, accessVars, TypeInv, TypeOK
<1>10. ASSUME NEW new \in Orders, 
              \/ PortalCancelActive(s, new) \/ AdminCancelCommit(s, new)
              \/ ChangeAtOnce(s, new) \/ ExpiryCommit(s, new)
       PROVE  GateInv'
  <2>1. /\ session' = [session EXCEPT ![s] = IdleSession]
        /\ UNCHANGED <<run, grants, holder, undecided>>
    BY <1>10
       DEF PortalCancelActive, AdminCancelCommit, ChangeAtOnce, ExpiryCommit,
           Commits, poolVars, accessVars
  <2>2. new \in cleared'
    BY <1>10
       DEF PortalCancelActive, AdminCancelCommit, ChangeAtOnce, ExpiryCommit
  <2>3. \A p \in Orders : p # new => queue'[p] = queue[p]
    BY <1>1, <1>10
       DEF PortalCancelActive, AdminCancelCommit, ChangeAtOnce, ExpiryCommit,
           Publish, TypeInv, TypeOK
  <2>4. /\ status'[new] \in {"processing", "cancelled", "expired"}
        /\ \A p \in Orders : \/ status'[p] = status[p]
                             \/ status'[p] \in {"processing", "cancelled", "expired"}
    BY <1>1, <1>10
       DEF PortalCancelActive, AdminCancelCommit, ChangeAtOnce, ExpiryCommit,
           InsertDeleteOrder, InsertOrder, TypeInv, TypeOK
  <2>5. QED
    BY <1>1, <2>1, <2>2, <2>3, <2>4, GateCommitted DEF MayRun
<1>11. ASSUME NEW new \in Orders, ChangeForApproval(s, new)
       PROVE  GateInv'
  <2>1. status'[new] = "pending_approval"
    BY <1>1, <1>11 DEF ChangeForApproval, InsertOrder, TypeInv, TypeOK
  <2>2. \A p \in Orders : p # new => status'[p] = status[p]
    BY <1>1, <1>11 DEF ChangeForApproval, InsertOrder, TypeInv, TypeOK
  <2>3. QED
    BY <1>1, <1>11, <2>1, <2>2, GateCommitted
       DEF ChangeForApproval, Commits, NoPublish, poolVars, accessVars
<1>12. QED
  BY <1>3, <1>4, <1>5, <1>7, <1>8, <1>9, <1>10, <1>11 DEF CommitRequest

(* A worker takes a message: the run is allowed because the message is, and *)
(* an order that is no delete starts where a grant is still ahead.          *)
LEMMA GateStart ==
  ASSUME GateInv, NEW w \in Workers, NEW o \in Orders, Start(w, o)
  PROVE  GateInv'
<1>1. TypeInv /\ TypeInv' /\ Lasting
  BY TypeStart, LastingRun DEF GateInv
<1>2. /\ run' = [run EXCEPT ![w] = [order |-> o, action |-> action[o],
                                asset |-> assigned[o],
                                pc |-> FirstStep(action[o])]]
      /\ UNCHANGED <<status, action, undecided, grants, session, holder, cleared>>
      /\ \A p \in Orders : queue'[p] = queue[p] \/ queue[p] > 0
      /\ queue[o] > 0
      /\ \A p \in Orders : queue[p] = 0 => queue'[p] = 0
  BY <1>1
     DEF Start, orderVars, accessVars, historyVars, poolVars, TypeInv, TypeOK
<1>3. /\ run'[w].order = o
      /\ run'[w].action = action[o]
      /\ run'[w].pc = FirstStep(action[o])
      /\ \A v \in Workers : v # w => run'[v] = run[v]
  BY <1>1, <1>2 DEF TypeInv, TypeOK
<1>4. status[o] # "none" /\ MayRun(o)
  BY <1>1, <1>2 DEF GateInv, OrdersExist, MessagesMayRun, TypeInv, TypeOK
<1>5. FirstStep(action[o]) \in {"reserve", "grant", "log", "unlink"}
        => action[o] # "delete"
  BY DEF FirstStep
<1>6. OrdersExist'
  BY <1>2, <1>3, <1>4 DEF GateInv, OrdersExist
<1>7. RunsMayRun'
  <2> SUFFICES ASSUME NEW v \in Workers, ~At(v, "idle")'
               PROVE  /\ run'[v].action = "delete" => action'[run'[v].order] = "delete"
                      /\ run'[v].action # "delete" => run'[v].order \in cleared'
                      /\ run'[v].pc \in {"reserve", "grant", "log", "unlink"}
                           => run'[v].action # "delete"
    BY DEF RunsMayRun, Deprovisions
  <2>1. CASE v = w
    BY <1>2, <1>3, <1>4, <1>5, <2>1 DEF MayRun, Deprovisions
  <2>2. CASE v # w
    BY <1>2, <1>3, <2>2 DEF GateInv, RunsMayRun, Deprovisions, At
  <2>3. QED BY <2>1, <2>2
<1>8. MessagesMayRun'
  BY <1>1, <1>2, MessagesLast
<1>9. QED
  BY <1>1, <1>2, <1>6, <1>7, <1>8, RestartableLasts, RestartsLast, GrantsLast
     DEF GateInv

(* A step of a run: it goes on or ends, and writes only about its order.    *)
LEMMA GateRun ==
  ASSUME GateInv, TypeInv', Lasting, NEW w \in Workers, ~At(w, "idle"),
         \A v \in Workers : v # w => run'[v] = run[v],
         \/ run'[w] = IdleRun
         \/ /\ run'[w].order = run[w].order
            /\ run'[w].action = run[w].action
            /\ run'[w].pc \in {"reserve", "grant", "log", "unlink"}
                 => run[w].pc \in {"reserve", "grant", "log", "unlink"},
         \A o \in Orders : status'[o] \in {"failed", "scheduled"}
           => status'[o] = status[o] \/ o = run[w].order,
         \A o \in Orders : queue'[o] > 0 => queue[o] > 0 \/ o = run[w].order,
         \A o \in Orders : grants'[o] # "none" =>
           grants[o] # "none" \/ (o = run[w].order /\ run[w].action # "delete"),
         \A a \in Assets : \/ holder'[a] \in {holder[a], NoOrder}
                           \/ holder'[a] = run[w].order,
         UNCHANGED <<undecided, session>>
  PROVE  GateInv'
<1>1. PICK o \in Orders : o = run[w].order
  BY DEF GateInv, TypeInv, RunNamesOrder
<1>2. status[o] # "none" /\ status'[o] # "none"
  BY <1>1 DEF GateInv, OrdersExist, Lasting
<1>3. MayRun(o) /\ (run[w].action # "delete" => o \in cleared)
  BY <1>1 DEF GateInv, RunsMayRun, MayRun
<1>4. MayRun(o)'
  BY <1>2, <1>3, MayRunLasts
<1>5. OrdersExist'
  <2>1. \A p \in Orders : queue'[p] \in Nat /\ queue[p] \in Nat
    BY DEF GateInv, TypeInv, TypeOK
  <2>2. \A p \in Orders : status'[p] = "none" =>
           /\ queue'[p] = 0
           /\ p \notin undecided'
           /\ grants'[p] = "none"
    BY <1>1, <1>2, <2>1 DEF GateInv, OrdersExist, Lasting
  <2>3. \A v \in Workers : run'[v].order = run[v].order \/ run'[v].order \notin Orders
    BY NoOrderAssumption DEF IdleRun
  <2>4. \A a \in Assets : \/ holder'[a] = holder[a]
                          \/ holder'[a] \notin Orders
                          \/ status'[holder'[a]] # "none"
    BY <1>1, <1>2, NoOrderAssumption
  <2>5. QED
    BY <2>2, <2>3, <2>4, ExistLasts
<1>6. RunsMayRun'
  BY RunsLast DEF IdleRun
<1>7. MessagesMayRun' /\ RestartableMayRun' /\ RestartsMayRun'
  BY <1>1, <1>4, MessagesLast, RestartableLasts, RestartsLast
<1>8. GrantsAreCleared'
  BY <1>1, <1>3, GrantsLast DEF Lasting
<1>9. QED BY <1>5, <1>6, <1>7, <1>8 DEF GateInv

LEMMA GateRunStep ==
  ASSUME GateInv, NEW w \in Workers, RunStep(w)
  PROVE  GateInv'
<1>1. TypeInv /\ TypeInv' /\ Lasting
  BY TypeRunStep, LastingRun DEF GateInv
<1>2. ~At(w, "idle")
  BY DEF RunStep, At, ReserveStep, GrantStep, LogStep, BusyStep, RunbookStep,
         GuardStep, UnlinkStep, RevokeStep, ReleaseStep, ReinstallStep,
         StampStep, PostReleaseStep, SweepStep
<1>3. \A pc : Goto(w, pc) \/ EndRun(w)
        => /\ \A v \in Workers : v # w => run'[v] = run[v]
           /\ \/ run'[w] = IdleRun
              \/ /\ run'[w].order = run[w].order
                 /\ run'[w].action = run[w].action
                 /\ run'[w].pc = pc
  BY <1>1 DEF Goto, EndRun, TypeInv, TypeOK
<1>4. FailRun(w) => /\ \A v \in Workers : v # w => run'[v] = run[v]
                    /\ run'[w] = IdleRun
                    /\ \A o \in Orders : o # run[w].order => status'[o] = status[o]
  BY <1>1 DEF FailRun, EndRun, SetStatus, TypeInv, TypeOK
<1>5. /\ AfterGroup \notin {"reserve", "grant", "log", "unlink"}
      /\ AfterGrant(run[w]) \notin {"reserve", "grant", "log", "unlink"}
      /\ AfterRevoke(run[w]) \notin {"reserve", "grant", "log", "unlink"}
      /\ AfterStamp(run[w]) \notin {"reserve", "grant", "log", "unlink"}
      /\ FinalStatus(run[w].action) \notin {"failed", "scheduled"}
  BY <1>1
     DEF AfterGroup, AfterGrant, AfterRevoke, AfterStamp, FinalStatus, Actions,
         TypeInv, TypeOK, RunNamesOrder
<1>6. run[w].pc \in {"reserve", "grant", "log", "unlink"}
        => run[w].action # "delete"
  BY <1>2 DEF GateInv, RunsMayRun
<1>7. /\ UNCHANGED <<queue, undecided, session>>
  BY DEF RunStep, runFrame, ReserveStep, GrantStep, LogStep, BusyStep,
         RunbookStep, GuardStep, UnlinkStep, RevokeStep, ReleaseStep,
         ReinstallStep, StampStep, PostReleaseStep, SweepStep
<1>8. \A u, F : RevokeGrants(u, F)
        => \A o \in Orders : grants'[o] # "none" => grants[o] # "none"
  BY DEF RevokeGrants
<1>9. CASE ReserveStep(w)
  <2>1. /\ \A v \in Workers : v # w => run'[v] = run[v]
        /\ \/ run'[w] = IdleRun
           \/ /\ run'[w].order = run[w].order
              /\ run'[w].action = run[w].action
    <3>1. CASE Goto(w, AfterReserve) \/ FailRun(w)
      BY <1>3, <1>4, <3>1
    <3>2. ASSUME NEW a \in Assets,
                 run' = [run EXCEPT ![w] = [@ EXCEPT !.asset = a,
                                                     !.pc = AfterReserve]]
          PROVE  /\ \A v \in Workers : v # w => run'[v] = run[v]
                 /\ run'[w].order = run[w].order
                 /\ run'[w].action = run[w].action
      BY <1>1, <3>2 DEF TypeInv, TypeOK
    <3>3. QED BY <1>9, <3>1, <3>2 DEF ReserveStep
  <2>2. \A o \in Orders : o # run[w].order => status'[o] = status[o]
    BY <1>4, <1>9 DEF ReserveStep
  <2>3. \A a \in Assets : holder'[a] = holder[a] \/ holder'[a] = run[w].order
    BY <1>1, <1>9
       DEF ReserveStep, ReserveAsset, poolVars, TypeInv, TypeOK, PoolTypeOK
  <2>4. run[w].pc = "reserve" /\ UNCHANGED grants
    BY <1>9 DEF ReserveStep, At, accessVars
  <2>5. QED
    BY <1>1, <1>2, <1>7, <2>1, <2>2, <2>3, <2>4, GateRun
<1>10. CASE GrantStep(w)
  <2>1. run[w].pc = "grant" /\ UNCHANGED holder
    BY <1>10 DEF GrantStep, At, poolVars
  <2>2. \A o \in Orders : o # run[w].order
           => status'[o] = status[o] /\ grants'[o] = grants[o]
    BY <1>1, <1>4, <1>10 DEF GrantStep, accessVars, TypeInv, TypeOK
  <2>3. \/ FailRun(w)
        \/ /\ status' = status
           /\ \E pc \in {AfterGrant(run[w]), "log"} : Goto(w, pc)
    BY <1>10 DEF GrantStep
  <2>4. QED
    BY <1>1, <1>2, <1>3, <1>4, <1>5, <1>6, <1>7, <2>1, <2>2, <2>3, GateRun
<1>11. CASE LogStep(w)
  <2>1. run[w].pc = "log" /\ UNCHANGED <<holder, status>>
    BY <1>11 DEF LogStep, At, poolVars
  <2>2. \A o \in Orders : o # run[w].order => grants'[o] = grants[o]
    BY <1>1, <1>11 DEF LogStep, TypeInv, TypeOK
  <2>3. QED
    BY <1>1, <1>2, <1>3, <1>5, <1>6, <1>7, <1>11, <2>1, <2>2, GateRun
       DEF LogStep
<1>12. CASE BusyStep(w)
  <2>1. \A a \in Assets : holder'[a] = holder[a] \/ holder'[a] = run[w].order
    BY <1>1, <1>12 DEF BusyStep, SetAssetBusy, TypeInv, TypeOK, PoolTypeOK
  <2>2. QED
    BY <1>1, <1>2, <1>3, <1>5, <1>7, <1>12, <2>1, GateRun
       DEF BusyStep, accessVars
<1>13. CASE RunbookStep(w)
  <2>1. \A a \in Assets : \/ holder'[a] \in {holder[a], NoOrder}
                          \/ holder'[a] = run[w].order
    BY <1>1, <1>13
       DEF RunbookStep, SetAssetBusy, ReleaseAsset, poolVars, TypeInv, TypeOK,
           PoolTypeOK
  <2>2. \/ FailRun(w)
        \/ /\ status' = status
           /\ \E pc \in {"guard", "stamp"} : Goto(w, pc)
    BY <1>13 DEF RunbookStep
  <2>3. UNCHANGED grants
    BY <1>13 DEF RunbookStep, accessVars
  <2>4. QED
    BY <1>1, <1>2, <1>3, <1>4, <1>7, <2>1, <2>2, <2>3, GateRun
<1>14. CASE GuardStep(w)
  BY <1>1, <1>2, <1>3, <1>7, <1>14, GateRun DEF GuardStep, poolVars, accessVars
<1>15. CASE UnlinkStep(w)
  <2>1. run[w].pc = "unlink" /\ UNCHANGED <<holder, status>>
    BY <1>15 DEF UnlinkStep, At, poolVars
  <2>2. \A o \in Orders : grants'[o] # "none" => grants[o] # "none"
    BY <1>8, <1>15 DEF UnlinkStep
  <2>3. QED
    BY <1>1, <1>2, <1>3, <1>7, <1>15, <2>1, <2>2, GateRun DEF UnlinkStep
<1>16. CASE RevokeStep(w)
  <2>1. \A o \in Orders : grants'[o] # "none" => grants[o] # "none"
    BY <1>8, <1>16 DEF RevokeStep
  <2>2. FailRun(w) \/ (status' = status /\ Goto(w, AfterRevoke(run[w])))
    BY <1>16 DEF RevokeStep
  <2>3. QED
    BY <1>1, <1>2, <1>3, <1>4, <1>5, <1>7, <1>16, <2>1, <2>2, GateRun
       DEF RevokeStep, poolVars
<1>17. CASE ReleaseStep(w) \/ ReinstallStep(w) \/ PostReleaseStep(w)
  <2>1. \A a \in Assets : holder'[a] \in {holder[a], NoOrder}
    BY <1>1, <1>17
       DEF ReleaseStep, ReinstallStep, PostReleaseStep, ReleaseAsset,
           MarkReinstall, TypeInv, TypeOK, PoolTypeOK
  <2>2. \E pc \in {AfterGroup, "reinstall", "sweep"} : Goto(w, pc)
    BY <1>17 DEF ReleaseStep, ReinstallStep, PostReleaseStep
  <2>3. UNCHANGED <<status, grants>>
    BY <1>17 DEF ReleaseStep, ReinstallStep, PostReleaseStep, accessVars
  <2>4. QED
    BY <1>1, <1>2, <1>3, <1>5, <1>7, <2>1, <2>2, <2>3, GateRun
<1>18. CASE StampStep(w)
  <2>1. \A o \in Orders : status'[o] \in {"failed", "scheduled"}
           => status'[o] = status[o]
    BY <1>1, <1>5, <1>18 DEF StampStep, SetStatus, TypeInv, TypeOK
  <2>2. EndRun(w) \/ Goto(w, AfterStamp(run[w]))
    BY <1>18 DEF StampStep
  <2>3. UNCHANGED <<holder, grants>>
    BY <1>18 DEF StampStep, poolVars, accessVars
  <2>4. QED
    BY <1>1, <1>2, <1>3, <1>5, <1>7, <2>1, <2>2, <2>3, GateRun
<1>19. CASE SweepStep(w)
  <2>1. \A o \in Orders : status'[o] \in {"failed", "scheduled"}
           => status'[o] = status[o]
    BY <1>19 DEF SweepStep
  <2>2. QED
    BY <1>1, <1>2, <1>3, <1>7, <1>19, <2>1, GateRun
       DEF SweepStep, poolVars, accessVars
<1>20. QED
  BY <1>9, <1>10, <1>11, <1>12, <1>13, <1>14, <1>15, <1>16, <1>17, <1>18, <1>19
     DEF RunStep

LEMMA GateFault ==
  ASSUME GateInv, NEW w \in Workers, RunFault(w)
  PROVE  GateInv'
<1>1. TypeInv /\ TypeInv' /\ Lasting
  BY TypeFault, LastingRun DEF GateInv
<1>2. ~At(w, "idle")
  BY DEF RunFault, Crash, SilentDeath, Redeliver, RunRaises
<1>3. UNCHANGED <<undecided, session, holder, grants>>
  BY DEF RunFault, Crash, SilentDeath, Redeliver, RunRaises, busyFrame,
         poolVars, accessVars
<1>4. \A o \in Orders : o # run[w].order
         => queue'[o] = queue[o] /\ status'[o] = status[o]
  BY <1>1
     DEF RunFault, Crash, SilentDeath, Redeliver, RunRaises, FailRun,
         SetStatus, TypeInv, TypeOK
<1>5. /\ \A v \in Workers : v # w => run'[v] = run[v]
      /\ run'[w] = IdleRun \/ run'[w] = run[w]
  BY <1>1
     DEF RunFault, Crash, SilentDeath, Redeliver, RunRaises, FailRun, EndRun,
         TypeInv, TypeOK
<1>6. QED BY <1>1, <1>2, <1>3, <1>4, <1>5, GateRun

LEMMA GateStep == GateInv /\ [Next]_vars => GateInv'
<1> SUFFICES ASSUME GateInv, [Next]_vars PROVE GateInv'
  OBVIOUS
<1>1. CASE UNCHANGED vars
  BY <1>1
     DEF vars, GateInv, TypeInv, TypeOK, RunNamesOrder, At, PoolTypeOK,
         poolVars, orderVars, accessVars, historyVars, OrdersExist,
         RunsMayRun, MessagesMayRun, RestartableMayRun, RestartsMayRun,
         GrantsAreCleared, MayRun, Deprovisions
<1>2. CASE Next
  BY <1>2, GatePlace, GateDecide, GateRead, GateCommit, GateStart,
     GateRunStep, GateFault
     DEF Next
<1>3. QED BY <1>1, <1>2

(* The approval gate: whatever the interleaving of requests, Beat jobs,     *)
(* runs, crashes and redeliveries, a directory grant is only ever made or   *)
(* recorded for an order that needed no approval or has got it.             *)
THEOREM GateCorrect == Spec => []ApprovalGate
<1>1. GateInv => ApprovalGate
  BY DEF GateInv, RunsMayRun, GrantsAreCleared, ApprovalGate, At
<1>2. QED BY GateInit, GateStep, <1>1, PTL DEF Spec

-----------------------------------------------------------------------------
(* The rows of the pool.  It is inductive with TypeInv: a row is reserved   *)
(* or put to use for an order that exists as an id (RunNamesOrder), and     *)
(* every way back to 'Free' clears current_order_id in the same UPDATE.     *)

LEMMA PoolKept ==
  ASSUME PoolRowConsistent, PoolTypeOK,
         \/ UNCHANGED poolVars
         \/ \E a \in Assets, o \in Orders : ReserveAsset(a, o)
         \/ \E a : \E o \in Orders : SetAssetBusy(a, o)
         \/ \E a : ReleaseAsset(a) \/ MarkReinstall(a) \/ ReleaseReserved(a)
  PROVE  PoolRowConsistent'
BY NoOrderAssumption
   DEF PoolRowConsistent, PoolTypeOK, poolVars, ReserveAsset, SetAssetBusy,
       ReleaseAsset, MarkReinstall, ReleaseReserved

(* Every step on the pool is one of the UPDATEs of AssetPool.               *)
LEMMA PoolSteps ==
  ASSUME TypeInv, [Next]_vars
  PROVE  \/ UNCHANGED poolVars
         \/ \E a \in Assets, o \in Orders : ReserveAsset(a, o)
         \/ \E a : \E o \in Orders : SetAssetBusy(a, o)
         \/ \E a : ReleaseAsset(a) \/ MarkReinstall(a) \/ ReleaseReserved(a)
<1> DEFINE Goal == \/ UNCHANGED poolVars
                   \/ \E a \in Assets, o \in Orders : ReserveAsset(a, o)
                   \/ \E a : \E o \in Orders : SetAssetBusy(a, o)
                   \/ \E a : ReleaseAsset(a) \/ MarkReinstall(a) \/ ReleaseReserved(a)
<1>1. ASSUME NEW o \in Orders, Place(o) \/ Decide(o) \/ RecoverStuck(o)
      PROVE  Goal
  BY <1>1
     DEF Place, Decide, CreateImmediate, CreateForApproval, CreateScheduled,
         ApproveImmediate, ApproveScheduled, Decline, RecoverStuck
<1>2. ASSUME NEW s \in Sessions, ReadRequest(s)
      PROVE  Goal
  BY <1>2
     DEF ReadRequest, PortalCancelRead, AdminCancelRead, ChangeRead,
         AdminChangeRead, OrderDeleteRead, RetryRead, CertRevokeRead,
         ScheduledRead, Read, LeaverRead, RevokeAssetRead, ExpiryRead
<1>3. ASSUME NEW s \in Sessions, CommitRequest(s)
      PROVE  Goal
  BY <1>3
     DEF CommitRequest, PortalCancelScheduled, OrderDeleteCommit, RetryCommit,
         CertRevokeCommit, LeaverCommit, TurnToDelete, RevokeAssetCommit,
         ScheduledCommit, PortalCancelActive, AdminCancelCommit, ChangeAtOnce,
         ChangeForApproval, ExpiryCommit
<1>4. ASSUME NEW w \in Workers, RunStep(w)
      PROVE  Goal
  <2>1. run[w].order \in Orders
    BY <1>4
       DEF RunStep, TypeInv, RunNamesOrder, At, ReserveStep, GrantStep,
           LogStep, BusyStep, RunbookStep, GuardStep, UnlinkStep, RevokeStep,
           ReleaseStep, ReinstallStep, StampStep, PostReleaseStep, SweepStep
  <2>2. CASE ReserveStep(w)
    BY <2>1, <2>2 DEF ReserveStep
  <2>3. CASE BusyStep(w) \/ RunbookStep(w)
    <3>1. UNCHANGED poolVars \/ SetAssetBusy(run[w].asset, run[w].order)
            \/ ReleaseAsset(run[w].asset)
      BY <2>3 DEF BusyStep, RunbookStep
    <3>2. QED BY <2>1, <3>1
  <2>4. CASE ReleaseStep(w) \/ ReinstallStep(w) \/ PostReleaseStep(w)
    BY <2>4 DEF ReleaseStep, ReinstallStep, PostReleaseStep
  <2>5. CASE \/ GrantStep(w) \/ LogStep(w) \/ GuardStep(w) \/ UnlinkStep(w)
             \/ RevokeStep(w) \/ StampStep(w) \/ SweepStep(w)
    BY <2>5
       DEF GrantStep, LogStep, GuardStep, UnlinkStep, RevokeStep, StampStep,
           SweepStep
  <2>6. QED BY <1>4, <2>2, <2>3, <2>4, <2>5 DEF RunStep
<1>5. ASSUME NEW w \in Workers, RunFault(w) \/ \E o \in Orders : Start(w, o)
      PROVE  Goal
  BY <1>5
     DEF RunFault, Crash, SilentDeath, Redeliver, RunRaises, busyFrame, Start
<1>6. CASE UNCHANGED vars
  BY <1>6 DEF vars
<1>7. QED BY <1>1, <1>2, <1>3, <1>4, <1>5, <1>6 DEF Next

(* A row in use names the order it is used for and a free row names none,   *)
(* although three of the four UPDATEs of pool_manager look at nothing.      *)
THEOREM PoolRows == Spec => []PoolRowConsistent
<1>1. Init => PoolRowConsistent
  <2>1. PoolInit => PoolRowConsistent
    BY DEF PoolInit, PoolRowConsistent
  <2>2. QED BY <2>1 DEF Init
<1>2. TypeOK /\ RunNamesOrder /\ PoolRowConsistent /\ [Next]_vars
        => PoolRowConsistent'
  BY PoolSteps, PoolKept DEF TypeInv, TypeOK
<1>3. Spec => []TypeInv
  <2>1. TypeInv /\ [Next]_vars => TypeInv'
    BY TypeNext
  <2>2. QED BY TypeInit, <2>1, PTL DEF Spec
<1>4. TypeInv => TypeOK /\ RunNamesOrder
  BY DEF TypeInv
<1>5. QED BY <1>1, <1>2, <1>3, <1>4, PTL DEF Spec
-----------------------------------------------------------------------------
(* Memberships and their rows in the change log.  Between the write to the  *)
(* directory and the row a run must not end, so the claim is made without   *)
(* the faults that end one there; publications may be lost and messages     *)
(* come twice, and two runs may work on the orders of one user.             *)

RunsGoOn ==
  Handlers \cap {"crash", "silentDeath", "runRaises", "targetFault"} = {}

(* An order keeps its requester.                                            *)
SameRequester == \A o \in Orders : status[o] # "none" => requester'[o] = requester[o]

LEMMA LoggedLasts ==
  ASSUME GateInv, AccessIsLogged, SameRequester, member' \subseteq member,
         \A o \in Orders : grants[o] = "success" /\ requester[o] \in member'
                            => grants'[o] = "success",
         \A w \in Workers : At(w, "log") => run'[w] = run[w]
  PROVE  AccessIsLogged'
<1> SUFFICES ASSUME NEW u \in member'
             PROVE  \E o \in Orders :
                      /\ requester'[o] = u
                      /\ grants'[o] = "success"
                         \/ \E w \in Workers : run'[w].order = o /\ run'[w].pc = "log"
  BY DEF AccessIsLogged, At
<1>1. PICK o \in Orders :
        /\ requester[o] = u
        /\ grants[o] = "success" \/ \E w \in Workers : run[w].order = o /\ At(w, "log")
  BY DEF AccessIsLogged
<1>2. status[o] # "none"
  BY <1>1 DEF GateInv, OrdersExist
<1>3. requester'[o] = u
  BY <1>1, <1>2 DEF SameRequester
<1> QED
  BY <1>1, <1>3 DEF At

(* A revocation that meets no fault takes the user out with the rows.       *)
LEMMA RevokeLogged ==
  ASSUME TypeInv, RunsGoOn, NEW u, NEW F, RevokeGrants(u, F)
  PROVE  /\ member' \subseteq member
         /\ \A o \in Orders : grants[o] = "success" /\ requester[o] \in member'
                               => grants'[o] = "success"
<1> DEFINE S == {p \in Orders : requester[p] = u /\ grants[p] = "success"}
<1>1. F = {}
  BY DEF RevokeGrants, RunsGoOn, On
<1>2. grants' = [p \in Orders |-> IF p \in S THEN "rolled_back" ELSE grants[p]]
  BY <1>1 DEF RevokeGrants
<1>3. member' = IF S = {} THEN member ELSE member \ {u}
  BY <1>1 DEF RevokeGrants
<1> QED
  BY <1>2, <1>3

LEMMA LoggedPlace ==
  ASSUME GateInv, AccessIsLogged, NEW o \in Orders, Place(o) \/ Decide(o) \/ RecoverStuck(o)
  PROVE  AccessIsLogged'
<1>1. UNCHANGED <<grants, member, run>> /\ SameRequester
  BY DEF Place, Decide, CreateImmediate, CreateForApproval, CreateScheduled, Fresh,
     InsertOrder, ApproveImmediate, ApproveScheduled, Decline, RecoverStuck, SameRequester,
     accessVars, orderVars, GateInv, TypeInv, TypeOK
<1> QED
  BY <1>1, LoggedLasts

LEMMA LoggedSession ==
  ASSUME GateInv, AccessIsLogged, RunsGoOn, NEW s \in Sessions, ReadRequest(s) \/ CommitRequest(s)
  PROVE  AccessIsLogged'
<1>1. CASE ReadRequest(s)
  <2>1. UNCHANGED <<run, requester>>
    BY <1>1 DEF ReadRequest, PortalCancelRead, AdminCancelRead, ChangeRead, AdminChangeRead,
       OrderDeleteRead, RetryRead, CertRevokeRead, ScheduledRead, Read, LeaverRead,
       RevokeAssetRead, ExpiryRead, orderVars
  <2>2. UNCHANGED <<grants, member>> \/ \E u, F : RevokeGrants(u, F)
    BY <1>1 DEF ReadRequest, PortalCancelRead, AdminCancelRead, ChangeRead, AdminChangeRead,
       OrderDeleteRead, RetryRead, CertRevokeRead, ScheduledRead, Read, LeaverRead,
       RevokeAssetRead, ExpiryRead, accessVars
  <2> QED
    BY <2>1, <2>2, RevokeLogged, LoggedLasts DEF SameRequester, GateInv
<1>2. CASE CommitRequest(s)
  <2>1. UNCHANGED <<grants, member, run>>
    BY <1>2 DEF CommitRequest, PortalCancelScheduled, OrderDeleteCommit, RetryCommit,
       CertRevokeCommit, LeaverCommit, TurnToDelete, RevokeAssetCommit, ScheduledCommit,
       PortalCancelActive, AdminCancelCommit, ChangeAtOnce, ChangeForApproval, ExpiryCommit,
       accessVars
  <2>2. SameRequester
    BY <1>2 DEF CommitRequest, PortalCancelScheduled, OrderDeleteCommit, RetryCommit,
       CertRevokeCommit, LeaverCommit, TurnToDelete, RevokeAssetCommit, ScheduledCommit,
       PortalCancelActive, AdminCancelCommit, ChangeAtOnce, ChangeForApproval, ExpiryCommit,
       InsertDeleteOrder, InsertOrder, Fresh, SameRequester, GateInv, TypeInv, TypeOK, orderVars
  <2> QED
    BY <2>1, <2>2, LoggedLasts
<1> QED
  BY <1>1, <1>2

LEMMA LoggedRun ==
  ASSUME GateInv, AccessIsLogged, RunsGoOn, NEW w \in Workers,
         RunStep(w) \/ RunFault(w) \/ \E o \in Orders : Start(w, o)
  PROVE  AccessIsLogged'
<1>1. requester' = requester
  BY DEF RunStep, ReserveStep, GrantStep, LogStep, BusyStep, RunbookStep, GuardStep,
     UnlinkStep, RevokeStep, ReleaseStep, ReinstallStep, StampStep, PostReleaseStep, SweepStep,
     RunFault, Crash, SilentDeath, Redeliver, RunRaises, busyFrame, Start, runFrame, orderVars
<1>2. \A v \in Workers : v # w => run'[v] = run[v]
  BY DEF GateInv, TypeInv, TypeOK, RunStep, ReserveStep, GrantStep, LogStep, BusyStep,
     RunbookStep, GuardStep, UnlinkStep, RevokeStep, ReleaseStep, ReinstallStep, StampStep,
     PostReleaseStep, SweepStep, RunFault, Crash, SilentDeath, Redeliver, RunRaises,
     Start, Goto, EndRun, FailRun
<1>3. ASSUME UNCHANGED <<grants, member>>, ~At(w, "log")
      PROVE  AccessIsLogged'
  BY <1>1, <1>2, <1>3, LoggedLasts DEF SameRequester
<1>4. CASE GrantStep(w)
  <2> DEFINE o == run[w].order
  <2>1. At(w, "grant") /\ o \in Orders /\ w \in DOMAIN run
    BY <1>4 DEF GrantStep, GateInv, TypeInv, TypeOK, RunNamesOrder, At
  <2>2. CASE UNCHANGED <<grants, member>>
    BY <1>3, <2>1, <2>2 DEF At
  <2>3. CASE member' = member \cup {requester[o]} /\ Goto(w, "log") /\ grants' = grants
    <3>1. run'[w].order = o /\ run'[w].pc = "log"
      BY <2>1, <2>3 DEF Goto, GateInv, TypeInv, TypeOK
    <3>2. ASSUME NEW u \in member
          PROVE  \E p \in Orders :
                   /\ requester[p] = u
                   /\ grants[p] = "success"
                      \/ \E v \in Workers : run'[v].order = p /\ run'[v].pc = "log"
      <4>1. PICK p \in Orders :
              /\ requester[p] = u
              /\ grants[p] = "success" \/ \E v \in Workers : run[v].order = p /\ At(v, "log")
        BY DEF AccessIsLogged
      <4>2. \A v \in Workers : At(v, "log") => run'[v] = run[v]
        BY <1>2, <2>1 DEF At
      <4> QED
        BY <4>1, <4>2 DEF At
    <3> QED
      BY <1>1, <2>1, <2>3, <3>1, <3>2 DEF AccessIsLogged, At
  <2> QED
    BY <1>4, <2>2, <2>3 DEF GrantStep, RunsGoOn, On, accessVars
<1>5. CASE LogStep(w)
  <2> DEFINE o == run[w].order
  <2>1. At(w, "log") /\ o \in Orders
    BY <1>5 DEF LogStep, GateInv, TypeInv, RunNamesOrder, At
  <2>2. grants' = [grants EXCEPT ![o] = "success"] /\ member' = member
    BY <1>5 DEF LogStep
  <2>3. \A p \in Orders : grants[p] = "success" \/ p = o => grants'[p] = "success"
    BY <2>2 DEF GateInv, TypeInv, TypeOK
  <2> QED
    BY <1>1, <1>2, <2>1, <2>2, <2>3 DEF AccessIsLogged, At
<1>6. CASE UnlinkStep(w) \/ RevokeStep(w)
  <2>1. \E u, F : RevokeGrants(u, F)
    BY <1>6 DEF UnlinkStep, RevokeStep
  <2>2. ~At(w, "log")
    BY <1>6 DEF UnlinkStep, RevokeStep, At
  <2> QED
    BY <1>1, <1>2, <2>1, <2>2, RevokeLogged, LoggedLasts DEF SameRequester, GateInv
<1>7. CASE \/ ReserveStep(w) \/ BusyStep(w) \/ RunbookStep(w) \/ GuardStep(w)
           \/ ReleaseStep(w) \/ ReinstallStep(w) \/ StampStep(w)
           \/ PostReleaseStep(w) \/ SweepStep(w) \/ \E o \in Orders : Start(w, o)
  BY <1>3, <1>7
  DEF ReserveStep, BusyStep, RunbookStep, GuardStep, ReleaseStep, ReinstallStep, StampStep,
      PostReleaseStep, SweepStep, Start, At, accessVars
<1>8. CASE RunFault(w)
  <2>1. Redeliver(w)
    BY <1>8 DEF RunFault, Crash, SilentDeath, RunRaises, RunsGoOn, On
  <2> QED
    BY <1>1, <2>1, LoggedLasts DEF Redeliver, busyFrame, accessVars, SameRequester
<1> QED
  BY <1>4, <1>5, <1>6, <1>7, <1>8 DEF RunStep

(* As long as no run ends between the two, every membership has its row, or *)
(* the run that is about to write it: whatever else overlaps, no user is in *)
(* a group where no revocation would find it.                               *)
THEOREM AccessCorrect ==
  ASSUME RunsGoOn
  PROVE  Spec => []AccessIsLogged
<1>1. Init => GateInv /\ AccessIsLogged
  BY GateInit DEF Init, AccessIsLogged
<1>2. GateInv /\ AccessIsLogged /\ [Next]_vars => (GateInv /\ AccessIsLogged)'
  <2> SUFFICES ASSUME GateInv, AccessIsLogged, [Next]_vars
               PROVE  GateInv' /\ AccessIsLogged'
    OBVIOUS
  <2>1. GateInv'
    BY GateStep
  <2>2. CASE UNCHANGED vars
    BY <2>1, <2>2, LoggedLasts
    DEF vars, orderVars, accessVars, SameRequester
  <2>3. CASE Next
    BY <2>1, <2>3, LoggedPlace, LoggedSession, LoggedRun DEF Next
  <2> QED
    BY <2>1, <2>2, <2>3
<1> QED
  BY <1>1, <1>2, PTL DEF Spec

-----------------------------------------------------------------------------
(* The pool.  ExclusiveAssignment is not a promise of the code as such: two *)
(* requests that overlap, an operator's revocation or a policy that         *)
(* releases twice break it.  It is proved of one request at a time among    *)
(* those of users and Beat, for any number of assets, orders, users and     *)
(* workers, with runs that fail or die and messages that get lost.          *)

PoolRequests ==
  {"createImmediate", "createScheduled", "createForApproval", "approve", "decline",
   "scheduled", "portalCancel", "expiry", "retry", "targetFault", "lostPublish",
   "silentDeath", "recover"}

OneAtATime ==
  /\ Handlers \subseteq PoolRequests
  /\ \A s, t \in Sessions : s = t
  /\ Policy \in {"access_only", "custom_runbook"}

(* Some message or run of the order is there.                               *)
UnderWay(o) == queue[o] > 0 \/ \E w \in Workers : run[w].order = o

(* A provision order in the statuses that hold its asset.                   *)
Keeps(o) ==
  /\ action[o] = "provision" /\ assigned[o] # NoAsset
  /\ status[o] \in {"scheduled", "processing", "provisioned", "failed"}

(* A deprovisioning that has not released its asset yet, and may.           *)
Live(d) ==
  /\ action[d] = "delete" /\ assigned[d] # NoAsset
  /\ \/ status[d] \in {"processing", "failed"}
     \/ \E w \in Workers : run[w].order = d /\ At(w, "postRelease")

Held(a) == poolStatus[a] \in {"reserved", "busy"}

OrderRows ==
  \A o \in Orders :
    /\ action[o] \in {"provision", "delete"} /\ status[o] \notin {"delivered", "revoking"}
    /\ action[o] = "delete" => status[o] \in {"processing", "failed", "revoked"}
    /\ status[o] = "none" => action[o] = "provision" /\ assigned[o] = NoAsset
    /\ o \in undecided => /\ status[o] \in {"pending_approval", "rejected"}
                          /\ assigned[o] = NoAsset
OneToken ==
  \A o \in Orders :
    /\ queue[o] <= 1
    /\ queue[o] > 0 => \A w \in Workers : run[w].order # o
    /\ \A w, x \in Workers : run[w].order = o /\ run[x].order = o => w = x
    /\ queue[o] > 0 => status[o] = "processing"

RunOfRow ==
  \A w \in Workers :
    LET r == run[w] IN
    IF At(w, "idle") THEN r.order = NoOrder
    ELSE /\ r.action = action[r.order] /\ r.asset = assigned[r.order]
         /\ IF At(w, "postRelease") \/ At(w, "sweep")
            THEN status[r.order] = "revoked" /\ r.action = "delete" /\ r.asset # NoAsset
            ELSE status[r.order] = "processing"
         /\ r.pc \notin {"unlink", "release", "reinstall"}
         /\ At(w, "busy") => r.action = "provision" /\ r.asset # NoAsset
         /\ r.pc \in {"reserve", "grant", "log", "busy", "guard"} => r.action = "provision"
         /\ r.pc = "revoke" => r.action = "delete"

HolderIsAssigned ==
  \A a \in Assets : holder[a] # NoOrder => /\ assigned[holder[a]] = a
                                           /\ action[holder[a]] = "provision"

KeptIsHeld == \A o \in Orders : Keeps(o) => holder[assigned[o]] = o /\ Held(assigned[o])

BusyIsPast ==
  \A a \in Assets : poolStatus[a] = "busy" /\ holder[a] # NoOrder =>
    /\ status[holder[a]] \in {"processing", "provisioned", "revoked", "cancelled", "expired"}
    /\ queue[holder[a]] = 0
    /\ \A w \in Workers : run[w].order = holder[a] => run[w].pc \notin {"reserve", "grant"}
    /\ \A w \in Workers : run[w].order = holder[a] => run[w].pc # "log"

LiveDeletes ==
  \A d \in Orders : Live(d) =>
    /\ Held(assigned[d]) /\ holder[assigned[d]] # NoOrder
    /\ status[holder[assigned[d]]] \in {"cancelled", "expired"}
    /\ \A e \in Orders : Live(e) /\ assigned[e] = assigned[d] => e = d

TakesBack(s) ==
  \/ session[s].kind = "expiry"
  \/ session[s].kind = "portalCancel" /\ session[s].seen # "scheduled"

SessionsKnow ==
  \A s \in Sessions :
    LET r == session[s] IN
    r.kind # "idle" =>
      /\ r.kind \in {"portalCancel", "retry", "scheduled", "expiry"}
      /\ r.order \in Orders /\ r.asset = assigned[r.order] /\ ~UnderWay(r.order)
      /\ r.kind = "scheduled" => status[r.order] = "scheduled"
      /\ r.kind = "retry" => status[r.order] = "failed"
      /\ IF TakesBack(s)
         THEN /\ status[r.order] \in {"processing", "provisioned", "revoked"}
              /\ action[r.order] = "provision"
              /\ r.asset # NoAsset => holder[r.asset] = r.order /\ Held(r.asset)
         ELSE r.kind = "portalCancel" => status[r.order] = "scheduled"

NobodyAsks == \A s \in Sessions : session[s].kind = "idle"

PoolInv ==
  /\ OrderRows /\ OneToken /\ RunOfRow /\ HolderIsAssigned /\ KeptIsHeld /\ BusyIsPast
  /\ LiveDeletes /\ SessionsKnow

-----------------------------------------------------------------------------
LEMMA PoolInvInit == Init => PoolInv
<1> SUFFICES ASSUME Init PROVE PoolInv
  OBVIOUS
<1> USE NoOrderAssumption DEF Init, PoolInit
<1>1. OrderRows
  BY DEF OrderRows
<1>2. OneToken
  BY DEF OneToken, IdleRun
<1>3. RunOfRow
  BY DEF RunOfRow, IdleRun, At
<1>4. HolderIsAssigned /\ BusyIsPast
  BY DEF HolderIsAssigned, BusyIsPast
<1>5. KeptIsHeld /\ LiveDeletes
  BY DEF KeptIsHeld, LiveDeletes, Keeps, Live
<1>6. SessionsKnow
  BY DEF SessionsKnow, IdleSession
<1> QED
  BY <1>1, <1>2, <1>3, <1>4, <1>5, <1>6 DEF PoolInv

(* Who keeps an asset, what is live and what is under way, by the rows and  *)
(* runs they are about.                                                     *)
LEMMA SameKeeps ==
  \A o \in Orders :
    action'[o] = action[o] /\ assigned'[o] = assigned[o] /\ status'[o] = status[o]
      => Keeps(o)' = Keeps(o)
BY DEF Keeps

LEMMA SameLive ==
  ASSUME run' = run, NEW o \in Orders,
         action'[o] = action[o], assigned'[o] = assigned[o], status'[o] = status[o]
  PROVE  Live(o)' = Live(o)
BY DEF Live, At

(* What an order of a session or of a run is in.                            *)
LEMMA WhoIsBusyWith ==
  ASSUME TypeInv, OneAtATime, PoolInv
  PROVE  /\ \A o \in Orders : UnderWay(o) => status[o] \in {"processing", "revoked"}
         /\ \A o \in Orders : status[o] \in {"none", "pending_approval", "scheduled",
                                "provisioned", "failed", "rejected", "cancelled", "expired"}
                              => queue[o] = 0 /\ \A w \in Workers : run[w].order # o
         /\ \A s \in Sessions : session[s].kind # "idle" =>
              session[s].order \in Orders /\
              status[session[s].order] \in {"scheduled", "failed", "processing",
                                            "provisioned", "revoked"}
<1>1. ASSUME NEW w \in Workers, NEW o \in Orders, run[w].order = o
      PROVE  status[o] \in {"processing", "revoked"}
  BY <1>1, NoOrderAssumption DEF PoolInv, RunOfRow, At
<1>2. ASSUME NEW o \in Orders PROVE queue[o] \in Nat /\ (queue[o] > 0 => status[o] = "processing")
  BY <1>2 DEF PoolInv, OneToken, TypeInv, TypeOK
<1>3. \A o \in Orders : UnderWay(o) => status[o] \in {"processing", "revoked"}
  BY <1>1, <1>2 DEF UnderWay
<1>4. ASSUME NEW o \in Orders,
             status[o] \in {"none", "pending_approval", "scheduled",
                            "provisioned", "failed", "rejected", "cancelled", "expired"}
      PROVE  queue[o] = 0 /\ \A w \in Workers : run[w].order # o
  BY <1>1, <1>2, <1>4
<1>5. ASSUME NEW s \in Sessions, session[s].kind # "idle"
      PROVE  session[s].order \in Orders /\
             status[session[s].order] \in {"scheduled", "failed", "processing",
                                           "provisioned", "revoked"}
  BY <1>5 DEF PoolInv, SessionsKnow, TakesBack
<1> QED
  BY <1>3, <1>4, <1>5

(* A request that reads.                                                    *)
LEMMA ReadKeepsRest ==
  ASSUME PoolInv, UNCHANGED <<poolVars, status, action, assigned, undecided, queue, run>>
  PROVE  /\ OrderRows' /\ OneToken' /\ RunOfRow' /\ HolderIsAssigned' /\ KeptIsHeld'
         /\ BusyIsPast' /\ LiveDeletes'
<1> USE DEF PoolInv, poolVars
<1>1. OrderRows' /\ OneToken' /\ RunOfRow'
  BY DEF OrderRows, OneToken, RunOfRow, At
<1>2. HolderIsAssigned' /\ BusyIsPast'
  BY DEF HolderIsAssigned, BusyIsPast
<1>3. KeptIsHeld'
  BY DEF KeptIsHeld, Keeps, Held
<1>4. LiveDeletes'
  BY DEF LiveDeletes, Live, Held, At
<1> QED
  BY <1>1, <1>2, <1>3, <1>4

LEMMA SessionOpens ==
  ASSUME TypeInv, OneAtATime, NEW s \in Sessions, NEW r,
         session' = [session EXCEPT ![s] = r],
         UNCHANGED <<poolVars, status, action, assigned, queue, run>>,
         r.kind \in {"portalCancel", "retry", "scheduled", "expiry"},
         r.order \in Orders, r.asset = assigned[r.order], ~UnderWay(r.order),
         r.kind = "scheduled" => status[r.order] = "scheduled",
         r.kind = "retry" => status[r.order] = "failed",
         r.kind = "portalCancel" /\ r.seen = "scheduled" => status[r.order] = "scheduled",
         r.kind = "expiry" \/ (r.kind = "portalCancel" /\ r.seen # "scheduled") =>
           /\ status[r.order] \in {"processing", "provisioned", "revoked"}
           /\ action[r.order] = "provision"
           /\ r.asset # NoAsset => holder[r.asset] = r.order /\ Held(r.asset)
  PROVE  SessionsKnow'
<1>1. session'[s] = r /\ \A t \in Sessions : t = s
  BY DEF TypeInv, TypeOK, OneAtATime
<1>2. ~UnderWay(r.order)'
  BY DEF UnderWay
<1> QED
  BY <1>1, <1>2 DEF SessionsKnow, TakesBack, poolVars, Held

LEMMA ReadKeepsPool ==
  ASSUME TypeInv, OneAtATime, PoolInv, NEW s \in Sessions, ReadRequest(s)
  PROVE  PoolInv'
<1> USE DEF On
<1>1. ASSUME NEW o \in Orders, NEW k \in {"portalCancel", "retry", "scheduled"},
             Read(s, k, o),
             k = "portalCancel" => status[o] \in {"delivered", "provisioned", "scheduled"},
             k = "retry" => status[o] = "failed",
             k = "scheduled" => status[o] = "scheduled"
      PROVE  PoolInv'
  <2>1. /\ session' = [session EXCEPT ![s] = Loaded(k, o)]
        /\ UNCHANGED <<poolVars, status, action, assigned, undecided, queue, run>>
    BY <1>1 DEF Read, Opens, orderVars
  <2>2. status[o] # "delivered" /\ status[o] \in {"provisioned", "scheduled", "failed"}
    BY <1>1 DEF PoolInv, OrderRows
  <2>3. ~UnderWay(o)
    BY <2>2, WhoIsBusyWith
  <2>4. status[o] = "provisioned" =>
          /\ action[o] = "provision"
          /\ assigned[o] # NoAsset => holder[assigned[o]] = o /\ Held(assigned[o])
    BY DEF PoolInv, OrderRows, KeptIsHeld, Keeps
  <2> DEFINE r == Loaded(k, o)
  <2>5. r.kind = k /\ r.order = o /\ r.asset = assigned[o] /\ r.seen = status[o]
    BY DEF Loaded
  <2> HIDE DEF r
  <2>6. SessionsKnow'
    BY <1>1, <2>1, <2>2, <2>3, <2>4, <2>5, SessionOpens DEF r
  <2> QED
    BY <2>1, <2>6, ReadKeepsRest DEF PoolInv
<1>2. ASSUME NEW a \in Assets, ExpiryRead(s, a) PROVE PoolInv'
  <2> DEFINE o == holder[a]
             r == [Loaded("expiry", o) EXCEPT !.asset = a]
  <2>1. /\ session' = [session EXCEPT ![s] = r]
        /\ UNCHANGED <<poolVars, status, action, assigned, undecided, queue, run>>
    BY <1>2 DEF ExpiryRead, Opens, orderVars
  <2>2. /\ poolStatus[a] = "busy" /\ o \in Orders /\ \A w \in Workers : run[w].order # o
        /\ status[o] \notin {"expired", "cancelled", "failed"}
    BY <1>2 DEF ExpiryRead, OneAtATime, PoolRequests, TypeInv, TypeOK, PoolTypeOK
  <2>3. /\ status[o] \in {"processing", "provisioned", "revoked"} /\ queue[o] = 0
        /\ assigned[o] = a /\ action[o] = "provision"
    BY <2>2, NoOrderAssumption DEF PoolInv, BusyIsPast, HolderIsAssigned
  <2>4. ~UnderWay(o)
    BY <2>2, <2>3 DEF UnderWay
  <2>5. r.kind = "expiry" /\ r.order = o /\ r.asset = a
    BY DEF Loaded
  <2> HIDE DEF r
  <2>6. SessionsKnow'
    BY <2>1, <2>2, <2>3, <2>4, <2>5, SessionOpens DEF Held
  <2> QED
    BY <2>1, <2>6, ReadKeepsRest DEF PoolInv
<1>3. ASSUME NEW o \in Orders,
             AdminCancelRead(s, o) \/ ChangeRead(s, o) \/ AdminChangeRead(s, o)
             \/ OrderDeleteRead(s, o) \/ CertRevokeRead(s, o)
      PROVE  FALSE
  BY <1>3 DEF AdminCancelRead, ChangeRead, AdminChangeRead, OrderDeleteRead, CertRevokeRead,
     Read, Opens, Loaded, OneAtATime, PoolRequests
<1>4. ASSUME NEW u, LeaverRead(s, u) PROVE FALSE
  BY <1>4 DEF LeaverRead, Opens, IdleSession, OneAtATime, PoolRequests
<1>5. ASSUME NEW a, RevokeAssetRead(s, a) PROVE FALSE
  BY <1>5 DEF RevokeAssetRead, Opens, IdleSession, OneAtATime, PoolRequests
<1>6. ASSUME NEW o \in Orders,
             PortalCancelRead(s, o) \/ RetryRead(s, o) \/ ScheduledRead(s, o)
      PROVE  PoolInv'
  BY <1>1, <1>6 DEF PortalCancelRead, RetryRead, ScheduledRead
<1> QED
  BY <1>2, <1>3, <1>4, <1>5, <1>6 DEF ReadRequest

(* A step that gives an order a new status, sends its message or not, and   *)
(* leaves what it names.                                                    *)
LEMMA PublishOne ==
  ASSUME TypeInv, NEW o \in Orders, Publish({o}) \/ NoPublish
  PROVE  /\ \A p \in Orders : p # o => queue'[p] = queue[p]
         /\ queue'[o] \in {queue[o], queue[o] + 1}
         /\ queue[o] \in Nat
BY DEF Publish, NoPublish, TypeInv, TypeOK

StatusMove(o, st) ==
  /\ status[o] \in {"none", "pending_approval", "rejected", "scheduled", "failed"}
  /\ st \in {"processing", "pending_approval", "scheduled", "rejected"}
  /\ status' = [status EXCEPT ![o] = st]
  /\ \A p \in Orders : action'[p] = action[p] /\ assigned'[p] = assigned[p]
  /\ \/ st = "processing" /\ status[o] \in {"scheduled", "failed"}
     \/ action[o] = "provision" /\ assigned[o] = NoAsset
  /\ IF st = "processing" THEN Publish({o}) ELSE NoPublish
  /\ undecided' \subseteq undecided \cup {o}
  /\ o \in undecided' => st # "processing" /\ st # "scheduled"
  /\ UNCHANGED <<poolVars, run>>
  /\ \/ NobodyAsks'
     \/ session' = session /\ status[o] \in {"none", "pending_approval", "rejected"}

LEMMA StatusMoves ==
  ASSUME TypeInv, OneAtATime, PoolInv, NEW o \in Orders, NEW st, StatusMove(o, st)
  PROVE  PoolInv'
<1> USE DEF StatusMove
<1>1. status'[o] = st /\ \A p \in Orders : p # o => status'[p] = status[p]
  BY DEF TypeInv, TypeOK
<1>2. /\ \A p \in Orders : p # o => queue'[p] = queue[p]
      /\ queue'[o] <= 1 /\ queue'[o] \in Nat /\ (queue'[o] > 0 => st = "processing")
      /\ queue[o] = 0 /\ \A w \in Workers : run[w].order # o
  BY PublishOne, WhoIsBusyWith DEF NoPublish
<1>3. run' = run /\ poolStatus' = poolStatus /\ holder' = holder
  BY DEF poolVars
<1>4. OrderRows'
  BY <1>1 DEF PoolInv, OrderRows
<1>5. OneToken'
  BY <1>1, <1>2, <1>3 DEF PoolInv, OneToken
<1>6. RunOfRow'
  <2> SUFFICES ASSUME NEW w \in Workers,
                      run[w].order = NoOrder \/ run[w].order \in Orders
               PROVE  RunOfRow!(w)'
    BY DEF RunOfRow, TypeInv, TypeOK
  <2> QED
    BY <1>1, <1>2, <1>3 DEF PoolInv, RunOfRow, At, TypeInv, RunNamesOrder
<1>7. HolderIsAssigned'
  BY <1>3 DEF PoolInv, HolderIsAssigned, TypeInv, TypeOK, PoolTypeOK
<1>8. KeptIsHeld'
  BY <1>1, <1>3 DEF PoolInv, KeptIsHeld, Keeps, Held
<1>9. BusyIsPast'
  <2> SUFFICES ASSUME NEW a \in Assets, poolStatus[a] = "busy", holder[a] # NoOrder
               PROVE  BusyIsPast!(a)'
    BY <1>3 DEF BusyIsPast
  <2>1. holder[a] \in Orders /\ holder[a] # o
    BY DEF PoolInv, BusyIsPast, TypeInv, TypeOK, PoolTypeOK
  <2> QED
    BY <2>1, <1>1, <1>2, <1>3 DEF PoolInv, BusyIsPast
<1>10. LiveDeletes'
  <2>1. \A d \in Orders : Live(d)' => Live(d)
    BY <1>1, <1>3 DEF Live, At, PoolInv, OrderRows
  <2>2. \A d \in Orders : Live(d) => holder[assigned[d]] \in Orders \ {o}
    BY DEF PoolInv, LiveDeletes, TypeInv, TypeOK, PoolTypeOK, Live
  <2> QED
    BY <2>1, <2>2, <1>1, <1>3 DEF PoolInv, LiveDeletes, Held
<1>11. SessionsKnow'
  <2>1. CASE NobodyAsks'
    BY <2>1 DEF SessionsKnow, NobodyAsks
  <2>2. CASE session' = session /\ status[o] \in {"none", "pending_approval", "rejected"}
    <3> SUFFICES ASSUME NEW s \in Sessions, session[s].kind # "idle"
                 PROVE  SessionsKnow!(s)'
      BY <2>2 DEF SessionsKnow
    <3>1. session[s].order \in Orders /\ session[s].order # o
      BY <2>2, WhoIsBusyWith
    <3>2. ~UnderWay(session[s].order) => ~UnderWay(session[s].order)'
      BY <3>1, <2>2, <1>2, <1>3 DEF UnderWay
    <3> QED
      BY <3>1, <3>2, <2>2, <1>1, <1>3 DEF PoolInv, SessionsKnow, TakesBack, Held
  <2> QED
    BY <2>1, <2>2
<1> QED
  BY <1>4, <1>5, <1>6, <1>7, <1>8, <1>9, <1>10, <1>11 DEF PoolInv


(* A new order without an asset, and a decision on one.                     *)
LEMMA FreshRow ==
  ASSUME PoolInv, NEW o \in Orders, Fresh(o)
  PROVE  /\ status[o] = "none" /\ action[o] = "provision" /\ assigned[o] = NoAsset
         /\ o \notin undecided
BY DEF Fresh, PoolInv, OrderRows

LEMMA UndecidedRow ==
  ASSUME PoolInv, NEW o \in Orders, o \in undecided
  PROVE  /\ status[o] \in {"pending_approval", "rejected"} /\ action[o] = "provision"
         /\ assigned[o] = NoAsset
BY DEF PoolInv, OrderRows

LEMMA InsertedRow ==
  ASSUME TypeInv, PoolInv, NEW o \in Orders, NEW st, NEW u, Fresh(o),
         InsertOrder(o, st, "provision", NoAsset, u)
  PROVE  /\ status' = [status EXCEPT ![o] = st]
         /\ \A p \in Orders : action'[p] = action[p] /\ assigned'[p] = assigned[p]
BY FreshRow DEF InsertOrder, TypeInv, TypeOK

(* An asset is reserved for an order that has none yet.                     *)
LEMMA ReservedRows ==
  ASSUME TypeInv, PoolInv, NEW o \in Orders, NEW a \in Assets, ReserveAsset(a, o),
         assigned[o] = NoAsset, action[o] = "provision",
         \A p \in Orders : action'[p] = action[p],
         \A p \in Orders : p # o => assigned'[p] = assigned[p] /\ status'[p] = status[p],
         assigned'[o] = a,
         \A p \in Orders : p # o => (Live(p)' <=> Live(p)),
         \A p \in Orders : p # o => (queue'[p] = queue[p]),
         \A p \in Orders, w \in Workers : p # o /\ run'[w].order = p => run'[w] = run[w]
  PROVE  HolderIsAssigned' /\ KeptIsHeld' /\ BusyIsPast' /\ LiveDeletes'
<1>1. /\ poolStatus[a] = "Free" /\ poolStatus'[a] = "reserved" /\ holder'[a] = o
      /\ \A b \in Assets : b # a => poolStatus'[b] = poolStatus[b] /\ holder'[b] = holder[b]
  BY DEF ReserveAsset, TypeInv, TypeOK, PoolTypeOK
<1>2. \A b \in Assets : holder[b] # o
  BY LifecycleAssumption, NoOrderAssumption DEF PoolInv, HolderIsAssigned
<1>3. \A b \in Assets : holder[b] \in Orders \cup {NoOrder}
  BY DEF TypeInv, TypeOK, PoolTypeOK
<1>4. \A p \in Orders : assigned[p] \in Assets \cup {NoAsset}
  BY DEF TypeInv, TypeOK
<1>5. HolderIsAssigned'
  BY <1>1, <1>2, <1>3, NoOrderAssumption DEF PoolInv, HolderIsAssigned
<1>6. KeptIsHeld'
  <2> SUFFICES ASSUME NEW p \in Orders, Keeps(p)'
               PROVE  holder'[assigned'[p]] = p /\ Held(assigned[p])'
    BY DEF KeptIsHeld
  <2>1. CASE p = o
    BY <2>1, <1>1 DEF Held
  <2>2. CASE p # o
    BY <2>2, <1>1, <1>4 DEF Held, PoolInv, KeptIsHeld, Keeps
  <2> QED
    BY <2>1, <2>2
<1>7. BusyIsPast'
  <2> SUFFICES ASSUME NEW b \in Assets, poolStatus'[b] = "busy", holder'[b] # NoOrder
               PROVE  BusyIsPast!(b)'
    BY DEF BusyIsPast
  <2>1. b # a /\ poolStatus[b] = "busy" /\ holder'[b] = holder[b] /\ holder[b] # NoOrder
    BY <1>1
  <2>2. holder[b] \in Orders /\ holder[b] # o
    BY <2>1, <1>2, <1>3
  <2> QED
    BY <2>1, <2>2 DEF PoolInv, BusyIsPast
<1>8. ~Live(o)'
  BY DEF Live
<1>9. LiveDeletes'
  <2> SUFFICES ASSUME NEW d \in Orders, Live(d)'
               PROVE  LiveDeletes!(d)'
    BY DEF LiveDeletes
  <2>1. d # o /\ Live(d) /\ assigned'[d] = assigned[d] /\ assigned[d] \in Assets
    BY <1>4, <1>8 DEF Live
  <2>2. assigned[d] # a /\ holder[assigned[d]] \in Orders \ {o}
    BY <2>1, <1>1, <1>2, <1>3 DEF PoolInv, LiveDeletes, Held
  <2>3. Held(assigned[d])' /\ holder'[assigned'[d]] = holder[assigned[d]]
    BY <2>1, <2>2, <1>1 DEF PoolInv, LiveDeletes, Held
  <2>4. \A e \in Orders : Live(e)' /\ assigned'[e] = assigned'[d] => e = d
    BY <2>1, <1>8 DEF PoolInv, LiveDeletes
  <2> QED
    BY <2>1, <2>2, <2>3, <2>4 DEF PoolInv, LiveDeletes
<1> QED
  BY <1>5, <1>6, <1>7, <1>9

(* An order that becomes scheduled with an asset reserved for it.           *)
LEMMA ScheduledWithAsset ==
  ASSUME TypeInv, OneAtATime, PoolInv, NEW o \in Orders, NEW a \in Assets,
         ReserveAsset(a, o),
         status[o] \in {"none", "pending_approval", "rejected"},
         action[o] = "provision", assigned[o] = NoAsset,
         status' = [status EXCEPT ![o] = "scheduled"],
         \A p \in Orders : action'[p] = action[p],
         assigned' = [assigned EXCEPT ![o] = a],
         undecided' \subseteq undecided, o \notin undecided',
         UNCHANGED <<queue, run, session>>
  PROVE  PoolInv'
<1>1. /\ status'[o] = "scheduled" /\ assigned'[o] = a
      /\ \A p \in Orders : p # o => status'[p] = status[p] /\ assigned'[p] = assigned[p]
  BY DEF TypeInv, TypeOK
<1>2. queue[o] = 0 /\ \A w \in Workers : run[w].order # o
  BY WhoIsBusyWith
<1>3. \A p \in Orders : p # o => (Live(p)' <=> Live(p))
  BY <1>1 DEF Live, At
<1>4. HolderIsAssigned' /\ KeptIsHeld' /\ BusyIsPast' /\ LiveDeletes'
  <2>1. \A p \in Orders : p # o => (queue'[p] = queue[p])
    OBVIOUS
  <2>2. \A p \in Orders, w \in Workers : p # o /\ run'[w].order = p => run'[w] = run[w]
    OBVIOUS
  <2> HIDE DEF PoolInv, TypeInv
  <2> QED
    BY <1>1, <1>3, <2>1, <2>2, ReservedRows
<1>5. OrderRows'
  BY <1>1 DEF PoolInv, OrderRows
<1>6. OneToken'
  BY <1>1, <1>2 DEF PoolInv, OneToken
<1>7. RunOfRow'
  <2> SUFFICES ASSUME NEW w \in Workers PROVE RunOfRow!(w)'
    BY DEF RunOfRow
  <2> QED
    BY <1>1, <1>2 DEF PoolInv, RunOfRow, At, TypeInv, RunNamesOrder
<1>8. SessionsKnow'
  <2> SUFFICES ASSUME NEW s \in Sessions, session[s].kind # "idle"
               PROVE  SessionsKnow!(s)'
    BY DEF SessionsKnow
  <2>1. session[s].order \in Orders /\ session[s].order # o
    BY WhoIsBusyWith
  <2>2. ~UnderWay(session[s].order) => ~UnderWay(session[s].order)'
    BY DEF UnderWay
  <2>3. \A b \in Assets : Held(b) => Held(b)' /\ holder'[b] = holder[b]
    BY DEF Held, ReserveAsset, TypeInv, TypeOK, PoolTypeOK
  <2>4. session[s].asset \in Assets \cup {NoAsset}
    BY DEF TypeInv, TypeOK
  <2> QED
    BY <2>1, <2>2, <2>3, <2>4, <1>1 DEF PoolInv, SessionsKnow, TakesBack
<1> QED
  BY <1>4, <1>5, <1>6, <1>7, <1>8 DEF PoolInv


LEMMA PlaceKeepsPool ==
  ASSUME TypeInv, OneAtATime, PoolInv, NEW o \in Orders, Place(o)
  PROVE  PoolInv'
<1>1. ASSUME NEW u \in Users, NEW act \in Actions, CreateImmediate(o, u, act)
      PROVE  PoolInv'
  <2>1. act = "provision"
    BY <1>1 DEF CreateImmediate, On, OneAtATime, PoolRequests
  <2>2. /\ Fresh(o) /\ InsertOrder(o, "processing", "provision", NoAsset, u)
        /\ Publish({o}) /\ undecided' = undecided
        /\ UNCHANGED <<poolVars, run>> /\ session' = session
    BY <1>1, <2>1 DEF CreateImmediate
  <2>3. StatusMove(o, "processing")
    BY <2>2, InsertedRow, FreshRow DEF StatusMove
  <2> QED
    BY <2>3, StatusMoves
<1>2. ASSUME NEW u \in Users, CreateForApproval(o, u) PROVE PoolInv'
  <2>1. /\ Fresh(o) /\ InsertOrder(o, "pending_approval", "provision", NoAsset, u)
        /\ NoPublish /\ undecided' = undecided \cup {o}
        /\ UNCHANGED <<poolVars, run>> /\ session' = session
    BY <1>2 DEF CreateForApproval
  <2>2. StatusMove(o, "pending_approval")
    BY <2>1, InsertedRow, FreshRow DEF StatusMove
  <2> QED
    BY <2>2, StatusMoves
<1>3. ASSUME NEW u \in Users, CreateScheduled(o, u) PROVE PoolInv'
  <2>1. /\ Fresh(o) /\ NoPublish /\ undecided' = undecided /\ run' = run
        /\ session' = session
    BY <1>3 DEF CreateScheduled
  <2>2. ASSUME NEW a \in Assets, ReserveAsset(a, o),
               InsertOrder(o, "scheduled", "provision", a, u)
        PROVE  PoolInv'
    <3>1. /\ status' = [status EXCEPT ![o] = "scheduled"]
          /\ \A p \in Orders : action'[p] = action[p]
          /\ assigned' = [assigned EXCEPT ![o] = a]
      BY <2>1, <2>2, FreshRow DEF InsertOrder, TypeInv, TypeOK
    <3> QED
      BY <2>1, <2>2, <3>1, FreshRow, ScheduledWithAsset DEF NoPublish
  <2>3. ASSUME InsertOrder(o, "scheduled", "provision", NoAsset, u), UNCHANGED poolVars
        PROVE  PoolInv'
    <3>1. StatusMove(o, "scheduled")
      BY <2>1, <2>3, InsertedRow, FreshRow DEF StatusMove
    <3> QED
      BY <3>1, StatusMoves
  <2> QED
    BY <1>3, <2>2, <2>3 DEF CreateScheduled
<1> QED
  BY <1>1, <1>2, <1>3 DEF Place

LEMMA DecideKeepsPool ==
  ASSUME TypeInv, OneAtATime, PoolInv, NEW o \in Orders, Decide(o)
  PROVE  PoolInv'
<1>1. CASE ApproveImmediate(o)
  <2>1. /\ o \in undecided /\ undecided' = undecided \ {o}
        /\ status' = [status EXCEPT ![o] = "processing"] /\ Publish({o})
        /\ action' = action /\ assigned' = assigned
        /\ UNCHANGED <<poolVars, run>> /\ session' = session
    BY <1>1 DEF ApproveImmediate
  <2>2. StatusMove(o, "processing")
    BY <2>1, UndecidedRow DEF StatusMove
  <2> QED
    BY <2>2, StatusMoves
<1>2. CASE ApproveScheduled(o)
  <2>1. /\ o \in undecided /\ undecided' = undecided \ {o}
        /\ status' = [status EXCEPT ![o] = "scheduled"] /\ NoPublish
        /\ action' = action /\ run' = run /\ session' = session
    BY <1>2 DEF ApproveScheduled
  <2>2. ASSUME NEW a \in Assets, ReserveAsset(a, o),
               assigned' = [assigned EXCEPT ![o] = a]
        PROVE  PoolInv'
    BY <2>1, <2>2, UndecidedRow, ScheduledWithAsset DEF NoPublish
  <2>3. ASSUME UNCHANGED <<poolVars, assigned>> PROVE PoolInv'
    <3>1. StatusMove(o, "scheduled")
      BY <2>1, <2>3, UndecidedRow DEF StatusMove
    <3> QED
      BY <3>1, StatusMoves
  <2> QED
    BY <1>2, <2>2, <2>3 DEF ApproveScheduled
<1>3. CASE Decline(o)
  <2>1. /\ o \in undecided /\ undecided' \in {undecided, undecided \ {o}}
        /\ status' = [status EXCEPT ![o] = "rejected"] /\ NoPublish
        /\ action' = action /\ assigned' = assigned
        /\ UNCHANGED <<poolVars, run>> /\ session' = session
    BY <1>3 DEF Decline
  <2>2. undecided' \subseteq undecided \cup {o}
    BY <2>1
  <2>3. StatusMove(o, "rejected")
    BY <2>1, <2>2, UndecidedRow DEF StatusMove
  <2> QED
    BY <2>3, StatusMoves
<1> QED
  BY <1>1, <1>2, <1>3 DEF Decide

-----------------------------------------------------------------------------
(* A handler that commits: the only session there is becomes idle.          *)
LEMMA OnlySession ==
  ASSUME TypeInv, OneAtATime, NEW s \in Sessions, NEW k, Commits(s, k)
  PROVE  /\ session[s].kind = k
         /\ NobodyAsks'
BY DEF Commits, TypeInv, TypeOK, OneAtATime, IdleSession, NobodyAsks

(* The active order o is ended and a deprovisioning of its asset is placed  *)
(* (a user's cancellation, an expiry).                                      *)
LEMMA TakenBackRows ==
  ASSUME TypeInv, OneAtATime, PoolInv, NEW o \in Orders, NEW new \in Orders, new # o,
         NEW a \in Assets \cup {NoAsset}, NEW end \in {"cancelled", "expired"},
         a = assigned[o], action[o] = "provision",
         status[o] \in {"processing", "provisioned", "revoked"},
         a # NoAsset => holder[a] = o /\ Held(a),
         status[new] = "none", action[new] = "provision", assigned[new] = NoAsset,
         new \notin undecided, undecided' = undecided,
         status'[new] = "processing", status'[o] = end,
         action'[new] = "delete", assigned'[new] = a,
         \A p \in Orders : p # new /\ p # o => status'[p] = status[p],
         \A p \in Orders : p # new => action'[p] = action[p] /\ assigned'[p] = assigned[p],
         \A p \in Orders : p # new => queue'[p] = queue[p],
         queue'[new] <= 1, queue'[new] \in Nat, queue[o] = 0,
         \A w \in Workers : run[w].order # new /\ run[w].order # o,
         poolStatus' = poolStatus, holder' = holder, run' = run,
         NobodyAsks'
  PROVE  PoolInv'
<1>1. \A b \in Assets : holder[b] \in Orders \cup {NoOrder} /\ holder[b] # new
  BY LifecycleAssumption, NoOrderAssumption
     DEF PoolInv, HolderIsAssigned, TypeInv, TypeOK, PoolTypeOK
<1>2. OrderRows'
  BY DEF PoolInv, OrderRows
<1>3. OneToken'
  BY DEF PoolInv, OneToken
<1>4. RunOfRow'
  <2> SUFFICES ASSUME NEW w \in Workers PROVE RunOfRow!(w)'
    BY DEF RunOfRow
  <2> QED
    BY DEF PoolInv, RunOfRow, At, TypeInv, RunNamesOrder
<1>5. HolderIsAssigned'
  BY <1>1 DEF PoolInv, HolderIsAssigned
<1>6. KeptIsHeld'
  BY DEF PoolInv, KeptIsHeld, Keeps, Held
<1>7. BusyIsPast'
  <2> SUFFICES ASSUME NEW b \in Assets, poolStatus[b] = "busy", holder[b] # NoOrder
               PROVE  BusyIsPast!(b)'
    BY DEF BusyIsPast
  <2>1. holder[b] \in Orders /\ holder[b] # new
    BY <1>1
  <2> QED
    BY <2>1 DEF PoolInv, BusyIsPast
<1>8. LiveDeletes'
  <2>1. \A d \in Orders : d # new /\ Live(d)' => Live(d) /\ assigned[d] # a
    <3> SUFFICES ASSUME NEW d \in Orders, d # new, Live(d)'
                 PROVE  Live(d) /\ assigned[d] # a
      OBVIOUS
    <3>1. d # o
      BY DEF Live
    <3>2. Live(d)
      BY <3>1 DEF Live, At
    <3> QED
      BY <3>2 DEF PoolInv, LiveDeletes, Live
  <2>2. Live(new)' => /\ a # NoAsset /\ Held(a)' /\ holder'[a] = o
                      /\ status'[o] \in {"cancelled", "expired"}
    BY DEF Live, Held
  <2> SUFFICES ASSUME NEW d \in Orders, Live(d)'
               PROVE  LiveDeletes!(d)'
    BY DEF LiveDeletes
  <2>3. CASE d = new
    BY <2>1, <2>2, <2>3, NoOrderAssumption
  <2>4. CASE d # new
    <3>1. Live(d) /\ assigned[d] # a /\ assigned[d] \in Assets
      BY <2>1, <2>4 DEF Live, TypeInv, TypeOK
    <3>2. /\ Held(assigned[d])' /\ holder'[assigned'[d]] = holder[assigned[d]]
          /\ status[holder[assigned[d]]] \in {"cancelled", "expired"}
          /\ holder[assigned[d]] \in Orders
      BY <3>1, <2>4, <1>1 DEF PoolInv, LiveDeletes, Held
    <3>3. holder[assigned[d]] # new /\ holder[assigned[d]] # o
      BY <3>1, <3>2, <1>1
    <3>4. \A e \in Orders : Live(e)' /\ assigned'[e] = assigned'[d] => e = d
      BY <3>1, <2>1, <2>4 DEF PoolInv, LiveDeletes
    <3> QED
      BY <3>2, <3>3, <3>4, NoOrderAssumption
  <2> QED
    BY <2>3, <2>4
<1>9. SessionsKnow'
  BY DEF SessionsKnow, NobodyAsks
<1> QED
  BY <1>2, <1>3, <1>4, <1>5, <1>6, <1>7, <1>8, <1>9 DEF PoolInv

LEMMA TakenBack ==
  ASSUME TypeInv, OneAtATime, PoolInv, NEW s \in Sessions, TakesBack(s),
         session[s].kind # "idle",
         NEW new \in Orders, Fresh(new), NEW end \in {"cancelled", "expired"},
         status' = [status EXCEPT ![new] = "processing", ![session[s].order] = end],
         action' = [action EXCEPT ![new] = "delete"],
         assigned' = [assigned EXCEPT ![new] = session[s].asset],
         Publish({new}), UNCHANGED <<poolVars, undecided, run>>,
         NobodyAsks'
  PROVE  PoolInv'
<1>1. PICK o \in Orders, a \in Assets \cup {NoAsset} :
        o = session[s].order /\ a = session[s].asset
  BY DEF PoolInv, SessionsKnow, TypeInv, TypeOK
<1>2. /\ a = assigned[o] /\ ~UnderWay(o) /\ action[o] = "provision"
      /\ status[o] \in {"processing", "provisioned", "revoked"}
      /\ a # NoAsset => holder[a] = o /\ Held(a)
  BY <1>1 DEF PoolInv, SessionsKnow, TakesBack
<1>3. /\ status[new] = "none" /\ action[new] = "provision" /\ assigned[new] = NoAsset
      /\ new \notin undecided /\ new # o
  BY <1>2, FreshRow
<1>4. /\ status'[new] = "processing" /\ status'[o] = end
      /\ action'[new] = "delete" /\ assigned'[new] = a
      /\ \A p \in Orders : p # new /\ p # o => status'[p] = status[p]
      /\ \A p \in Orders : p # new => action'[p] = action[p] /\ assigned'[p] = assigned[p]
  BY <1>1, <1>3 DEF TypeInv, TypeOK
<1>5. /\ \A p \in Orders : p # new => queue'[p] = queue[p]
      /\ queue'[new] <= 1 /\ queue'[new] \in Nat
  BY <1>3, PublishOne, WhoIsBusyWith
<1>6. /\ queue[o] = 0 /\ queue[new] = 0
      /\ \A w \in Workers : run[w].order # new /\ run[w].order # o
  BY <1>2, <1>3, WhoIsBusyWith DEF UnderWay, TypeInv, TypeOK
<1>7. poolStatus' = poolStatus /\ holder' = holder /\ run' = run /\ undecided' = undecided
  BY DEF poolVars
<1> HIDE DEF PoolInv, TypeInv, Held
<1> QED
  <2>1. NobodyAsks'
    OBVIOUS
  <2>2. a = assigned[o] /\ action[o] = "provision"
    BY <1>2
  <2>3. status[o] \in {"processing", "provisioned", "revoked"}
    BY <1>2
  <2>4. a # NoAsset => holder[a] = o /\ Held(a)
    BY <1>2
  <2> QED
    BY <2>1, <2>2, <2>3, <2>4, <1>3, <1>4, <1>5, <1>6, <1>7, TakenBackRows, ZenonT(60)


(* The cancellation of a scheduled order gives its reserved asset back.     *)
LEMMA ScheduledCancelled ==
  ASSUME TypeInv, OneAtATime, PoolInv, NEW o \in Orders, status[o] = "scheduled",
         NEW a \in Assets \cup {NoAsset}, a = assigned[o],
         IF a = NoAsset THEN UNCHANGED poolVars ELSE ReleaseReserved(a),
         status'[o] = "cancelled",
         \A p \in Orders : p # o => status'[p] = status[p],
         action' = action, assigned' = assigned, undecided' = undecided,
         queue' = queue, run' = run,
         NobodyAsks'
  PROVE  PoolInv'
<1>1. action[o] = "provision" /\ o \notin undecided
  BY DEF PoolInv, OrderRows
<1>2. a \in Assets => a # NoAsset /\ holder[a] = o /\ poolStatus[a] = "reserved"
  BY <1>1, NoOrderAssumption, LifecycleAssumption DEF PoolInv, KeptIsHeld, Keeps, Held, BusyIsPast
<1>3. \A b \in Assets : IF b = a THEN poolStatus'[b] = "Free" /\ holder'[b] = NoOrder
                         ELSE poolStatus'[b] = poolStatus[b] /\ holder'[b] = holder[b]
  BY <1>2 DEF ReleaseReserved, ReleaseAsset, poolVars, TypeInv, TypeOK, PoolTypeOK
<1>4. /\ \A p \in Orders : assigned[p] \in Assets \cup {NoAsset}
      /\ \A b \in Assets : holder[b] \in Orders \cup {NoOrder}
  BY DEF TypeInv, TypeOK, PoolTypeOK
<1>5. OrderRows'
  BY <1>1 DEF PoolInv, OrderRows
<1>6. OneToken'
  BY DEF PoolInv, OneToken
<1>7. RunOfRow'
  <2> SUFFICES ASSUME NEW w \in Workers PROVE RunOfRow!(w)'
    BY DEF RunOfRow
  <2>1. run[w].order # o
    BY WhoIsBusyWith
  <2> QED
    BY <2>1 DEF PoolInv, RunOfRow, At, TypeInv, RunNamesOrder
<1>8. HolderIsAssigned'
  BY <1>3 DEF PoolInv, HolderIsAssigned
<1>9. \A b \in Assets : holder[b] = o => b = a
  BY NoOrderAssumption DEF PoolInv, HolderIsAssigned
<1>10. KeptIsHeld'
  <2> SUFFICES ASSUME NEW p \in Orders, Keeps(p)'
               PROVE  holder'[assigned'[p]] = p /\ Held(assigned[p])'
    BY DEF KeptIsHeld
  <2>1. p # o /\ Keeps(p)
    BY DEF Keeps
  <2>2. holder[assigned[p]] = p /\ Held(assigned[p]) /\ assigned[p] \in Assets
    BY <2>1, <1>4 DEF PoolInv, KeptIsHeld, Keeps
  <2> QED
    BY <2>1, <2>2, <1>2, <1>3 DEF Held
<1>11. BusyIsPast'
  <2> SUFFICES ASSUME NEW b \in Assets, poolStatus'[b] = "busy", holder'[b] # NoOrder
               PROVE  BusyIsPast!(b)'
    BY DEF BusyIsPast
  <2>1. b # a /\ poolStatus[b] = "busy" /\ holder'[b] = holder[b] /\ holder[b] \in Orders
    BY <1>3, <1>4
  <2> QED
    BY <2>1, <1>9, NoOrderAssumption DEF PoolInv, BusyIsPast
<1>12. LiveDeletes'
  <2>1. \A d \in Orders : Live(d)' => d # o /\ Live(d)
    BY <1>1 DEF Live, At
  <2> SUFFICES ASSUME NEW d \in Orders, Live(d)'
               PROVE  LiveDeletes!(d)'
    BY DEF LiveDeletes
  <2>2. Live(d) /\ assigned[d] \in Assets
    BY <2>1, <1>4 DEF Live
  <2>3. /\ Held(assigned[d]) /\ holder[assigned[d]] \in Orders
        /\ status[holder[assigned[d]]] \in {"cancelled", "expired"}
        /\ \A e \in Orders : Live(e) /\ assigned[e] = assigned[d] => e = d
    BY <2>2, <1>4 DEF PoolInv, LiveDeletes
  <2>4. holder[assigned[d]] # o /\ assigned[d] # a
    BY <2>2, <2>3, <1>2
  <2> QED
    BY <2>1, <2>2, <2>3, <2>4, <1>3, NoOrderAssumption DEF Held
<1>13. SessionsKnow'
  BY DEF SessionsKnow, NobodyAsks
<1> QED
  BY <1>5, <1>6, <1>7, <1>8, <1>10, <1>11, <1>12, <1>13 DEF PoolInv

(* A scheduled or a failed order is dispatched.                             *)
LEMMA Dispatched ==
  ASSUME TypeInv, OneAtATime, PoolInv, NEW o \in Orders,
         status[o] \in {"scheduled", "failed"},
         status' = [status EXCEPT ![o] = "processing"],
         Publish({o}), NobodyAsks',
         UNCHANGED <<poolVars, action, assigned, undecided, run>>
  PROVE  PoolInv'
<1>1. o \notin undecided
  BY DEF PoolInv, OrderRows
<1>2. /\ \A p \in Orders : action'[p] = action[p] /\ assigned'[p] = assigned[p]
      /\ undecided' \subseteq undecided \cup {o} /\ o \notin undecided'
      /\ UNCHANGED <<poolVars, run>>
  BY <1>1
<1>3. StatusMove(o, "processing")
  BY <1>2 DEF StatusMove
<1> QED
  BY <1>3, StatusMoves

LEMMA CommitKeepsPool ==
  ASSUME TypeInv, OneAtATime, PoolInv, NEW s \in Sessions, CommitRequest(s)
  PROVE  PoolInv'
<1>1. CASE PortalCancelScheduled(s)
  <2>1. /\ session[s].kind = "portalCancel" /\ session[s].seen = "scheduled"
        /\ NobodyAsks'
    BY <1>1, OnlySession DEF PortalCancelScheduled
  <2>2. PICK o \in Orders, a \in Assets \cup {NoAsset} :
          o = session[s].order /\ a = session[s].asset
    BY <2>1 DEF PoolInv, SessionsKnow, TypeInv, TypeOK
  <2>3. status[o] = "scheduled" /\ a = assigned[o]
    BY <2>1, <2>2 DEF PoolInv, SessionsKnow, TakesBack
  <2>4. /\ IF a = NoAsset THEN UNCHANGED poolVars ELSE ReleaseReserved(a)
        /\ action' = action /\ assigned' = assigned /\ undecided' = undecided
        /\ queue' = queue /\ run' = run
    BY <1>1, <2>2 DEF PortalCancelScheduled, NoPublish
  <2>5. status'[o] = "cancelled" /\ \A p \in Orders : p # o => status'[p] = status[p]
    BY <1>1, <2>2 DEF PortalCancelScheduled, TypeInv, TypeOK
  <2> HIDE DEF PoolInv, TypeInv
  <2> QED
    BY <2>1, <2>3, <2>4, <2>5, ScheduledCancelled
<1>3. CASE RetryCommit(s)
  <2>1. session[s].kind = "retry" /\ NobodyAsks'
    BY <1>3, OnlySession DEF RetryCommit
  <2>2. session[s].order \in Orders /\ status[session[s].order] = "failed"
    BY <2>1 DEF PoolInv, SessionsKnow
  <2> QED
    BY <1>3, <2>1, <2>2, Dispatched DEF RetryCommit
<1>4. CASE ScheduledCommit(s)
  <2>1. session[s].kind = "scheduled" /\ NobodyAsks'
    BY <1>4, OnlySession DEF ScheduledCommit
  <2>2. session[s].order \in Orders /\ status[session[s].order] = "scheduled"
    BY <2>1 DEF PoolInv, SessionsKnow
  <2> QED
    BY <1>4, <2>1, <2>2, Dispatched DEF ScheduledCommit
<1>5. ASSUME NEW new \in Orders, PortalCancelActive(s, new) PROVE PoolInv'
  <2>1. /\ session[s].kind = "portalCancel" /\ session[s].seen # "scheduled"
        /\ NobodyAsks'
    BY <1>5, OnlySession DEF PortalCancelActive
  <2>2. TakesBack(s) /\ session[s].kind # "idle"
    BY <2>1 DEF TakesBack
  <2> QED
    BY <1>5, <2>1, <2>2, TakenBack DEF PortalCancelActive
<1>6. ASSUME NEW new \in Orders, ExpiryCommit(s, new) PROVE PoolInv'
  <2>1. session[s].kind = "expiry" /\ NobodyAsks'
    BY <1>6, OnlySession DEF ExpiryCommit
  <2>2. TakesBack(s) /\ session[s].kind # "idle"
    BY <2>1 DEF TakesBack
  <2> QED
    BY <1>6, <2>1, <2>2, TakenBack DEF ExpiryCommit
<1>7. session[s].kind \in {"idle", "portalCancel", "retry", "scheduled", "expiry"}
  BY DEF PoolInv, SessionsKnow
<1>8. ASSUME NEW new \in Orders,
             OrderDeleteCommit(s) \/ CertRevokeCommit(s) \/ LeaverCommit(s)
             \/ RevokeAssetCommit(s) \/ AdminCancelCommit(s, new)
             \/ ChangeAtOnce(s, new) \/ ChangeForApproval(s, new)
      PROVE  FALSE
  BY <1>7, <1>8 DEF OrderDeleteCommit, CertRevokeCommit, LeaverCommit, RevokeAssetCommit,
     AdminCancelCommit, ChangeAtOnce, ChangeForApproval, Commits
<1>9. ASSUME OrderDeleteCommit(s) \/ CertRevokeCommit(s) \/ LeaverCommit(s)
             \/ RevokeAssetCommit(s)
      PROVE  FALSE
  BY <1>7, <1>9 DEF OrderDeleteCommit, CertRevokeCommit, LeaverCommit, RevokeAssetCommit, Commits
<1> QED
  BY <1>1, <1>3, <1>4, <1>5, <1>6, <1>8, <1>9 DEF CommitRequest


-----------------------------------------------------------------------------
(* Task runs.  A run that goes on keeps what it works for.                  *)
LEMMA RunGoes ==
  ASSUME TypeInv, NEW w \in Workers, NEW p, Goto(w, p)
  PROVE  /\ run'[w].order = run[w].order /\ run'[w].action = run[w].action
         /\ run'[w].asset = run[w].asset /\ run'[w].pc = p
         /\ \A x \in Workers : x # w => run'[x] = run[x]
         /\ \A x \in Workers : run'[x].order = run[x].order
BY DEF TypeInv, TypeOK, Goto

LEMMA RunEnds ==
  ASSUME TypeInv, NEW w \in Workers, EndRun(w)
  PROVE  /\ run'[w].order = NoOrder /\ run'[w].pc = "idle"
         /\ \A x \in Workers : x # w => run'[x] = run[x]
BY DEF TypeInv, TypeOK, EndRun, IdleRun

(* The order of a run, and what its row and its asset look like.            *)
LEMMA RowOfRun ==
  ASSUME TypeInv, OneAtATime, PoolInv, NEW w \in Workers, ~At(w, "idle")
  PROVE  LET o == run[w].order IN
         /\ o \in Orders /\ UnderWay(o) /\ queue[o] = 0
         /\ run[w].action = action[o] /\ run[w].asset = assigned[o]
         /\ action[o] \in {"provision", "delete"}
         /\ \A x \in Workers : x # w => run[x].order # o
         /\ \A s \in Sessions : session[s].kind # "idle" => session[s].order # o
         /\ o \notin undecided
<1>1. run[w].order \in Orders
  BY DEF TypeInv, RunNamesOrder, At
<1>2. UnderWay(run[w].order)
  BY <1>1 DEF UnderWay
<1>3. queue[run[w].order] = 0 /\ \A x \in Workers : x # w => run[x].order # run[w].order
  BY <1>1 DEF PoolInv, OneToken, TypeInv, TypeOK
<1>4. \A s \in Sessions : session[s].kind # "idle" => session[s].order # run[w].order
  BY <1>2 DEF PoolInv, SessionsKnow
<1>5. run[w].action = action[run[w].order] /\ run[w].asset = assigned[run[w].order]
  BY DEF PoolInv, RunOfRow, At
<1>6. action[run[w].order] \in {"provision", "delete"} /\ run[w].order \notin undecided
  BY <1>1, <1>2, WhoIsBusyWith DEF PoolInv, OrderRows
<1> QED
  BY <1>1, <1>2, <1>3, <1>4, <1>5, <1>6

(* What a session has read still holds, when the orders under way and the   *)
(* pool change only in ways that do not concern it.                         *)
LEMMA SessionsKnowStill ==
  ASSUME TypeInv, OneAtATime, PoolInv, session' = session, action' = action,
         \A p \in Orders : UnderWay(p)' => UnderWay(p),
         \A s \in Sessions : session[s].kind # "idle" =>
           LET p == session[s].order IN
           /\ assigned'[p] = assigned[p]
           /\ \/ status'[p] = status[p]
              \/ status[p] = "provisioned" /\ status'[p] = "revoked"
           /\ \A a \in Assets : holder[a] = p /\ Held(a) => holder'[a] = p /\ Held(a)'
  PROVE  SessionsKnow'
<1> SUFFICES ASSUME NEW s \in Sessions, session[s].kind # "idle"
             PROVE  SessionsKnow!(s)'
  BY DEF SessionsKnow
<1>1. PICK p \in Orders : p = session[s].order
  BY DEF PoolInv, SessionsKnow
<1>2. /\ ~UnderWay(p)' /\ assigned'[p] = assigned[p]
      /\ \/ status'[p] = status[p]
         \/ status[p] = "provisioned" /\ status'[p] = "revoked"
      /\ \A a \in Assets : holder[a] = p /\ Held(a) => holder'[a] = p /\ Held(a)'
  BY <1>1 DEF PoolInv, SessionsKnow
<1>3. session[s].asset \in Assets \cup {NoAsset}
  BY DEF TypeInv, TypeOK
<1> QED
  BY <1>1, <1>2, <1>3 DEF PoolInv, SessionsKnow, TakesBack

LEMMA RunMoves ==
  ASSUME TypeInv, OneAtATime, PoolInv, NEW w \in Workers, NEW p,
         run[w].pc \notin {"idle", "postRelease", "sweep"}, Goto(w, p),
         p \in {"grant", "log", "busy", "runbook", "guard", "stamp"},
         p = "busy" => run[w].asset # NoAsset,
         p \in {"grant", "log", "busy", "guard"} => run[w].action = "provision",
         p \in {"grant", "log"} => run[w].pc \in {"reserve", "grant"},
         UNCHANGED <<poolVars, status, action, assigned, undecided, queue, session>>
  PROVE  PoolInv'
<1>1. /\ run'[w].order = run[w].order /\ run'[w].action = run[w].action
      /\ run'[w].asset = run[w].asset /\ run'[w].pc = p
      /\ \A x \in Workers : x # w => run'[x] = run[x]
      /\ \A x \in Workers : run'[x].order = run[x].order
  BY RunGoes
<1>2. /\ poolStatus' = poolStatus /\ holder' = holder /\ status' = status
      /\ action' = action /\ assigned' = assigned /\ undecided' = undecided
      /\ queue' = queue /\ session' = session
  BY DEF poolVars
<1>3. OrderRows' /\ HolderIsAssigned' /\ KeptIsHeld'
  BY <1>2 DEF PoolInv, OrderRows, HolderIsAssigned, KeptIsHeld, Keeps, Held
<1>4. OneToken'
  BY <1>1, <1>2 DEF PoolInv, OneToken
<1>5. RunOfRow'
  <2> SUFFICES ASSUME NEW x \in Workers PROVE RunOfRow!(x)'
    BY DEF RunOfRow
  <2> QED
    BY <1>1, <1>2 DEF PoolInv, RunOfRow, At
<1>6. BusyIsPast'
  <2> SUFFICES ASSUME NEW a \in Assets, poolStatus[a] = "busy", holder[a] # NoOrder
               PROVE  BusyIsPast!(a)'
    BY <1>2 DEF BusyIsPast
  <2>1. \A x \in Workers : run[x].order = holder[a] =>
          /\ run'[x].pc \notin {"reserve", "grant"} /\ run'[x].pc # "log"
    BY <1>1 DEF PoolInv, BusyIsPast
  <2> QED
    BY <2>1, <1>1, <1>2 DEF PoolInv, BusyIsPast
<1>7. LiveDeletes'
  <2>1. \A d \in Orders : Live(d)' => Live(d)
    BY <1>1, <1>2 DEF Live, At
  <2> QED
    BY <2>1, <1>2 DEF PoolInv, LiveDeletes, Held
<1>8. SessionsKnow'
  BY <1>1, <1>2, SessionsKnowStill DEF UnderWay, Held
<1> QED
  BY <1>3, <1>4, <1>5, <1>6, <1>7, <1>8 DEF PoolInv


(* A run that ends, in success, in failure or without a trace.              *)
LEMMA RunStops ==
  ASSUME TypeInv, OneAtATime, PoolInv, NEW w \in Workers, ~At(w, "idle"),
         NEW o \in Orders, o = run[w].order, EndRun(w),
         \A p \in Orders : p # o => status'[p] = status[p],
         \/ status'[o] = status[o]
         \/ /\ ~At(w, "postRelease") /\ ~At(w, "sweep") /\ status'[o] = "failed"
            /\ \A a \in Assets : holder[a] = o => poolStatus[a] # "busy"
         \/ status'[o] = "provisioned" /\ action[o] = "provision"
            /\ ~At(w, "postRelease") /\ ~At(w, "sweep")
         \/ status'[o] = "revoked" /\ action[o] = "delete",
         UNCHANGED <<poolVars, action, assigned, undecided, queue, session>>
  PROVE  PoolInv'
<1>1. /\ run'[w].order = NoOrder /\ run'[w].pc = "idle"
      /\ \A x \in Workers : x # w => run'[x] = run[x]
  BY RunEnds
<1>2. /\ poolStatus' = poolStatus /\ holder' = holder
      /\ action' = action /\ assigned' = assigned /\ undecided' = undecided
      /\ queue' = queue /\ session' = session
  BY DEF poolVars
<1>3. /\ UnderWay(o) /\ queue[o] = 0 /\ action[o] \in {"provision", "delete"}
      /\ \A x \in Workers : x # w => run[x].order # o
      /\ \A s \in Sessions : session[s].kind # "idle" => session[s].order # o
      /\ o \notin undecided
  BY RowOfRun
<1>4. ~At(w, "postRelease") /\ ~At(w, "sweep") => status[o] = "processing"
  BY DEF PoolInv, RunOfRow, At
<1>5. At(w, "postRelease") \/ At(w, "sweep") => status[o] = "revoked" /\ action[o] = "delete"
  BY DEF PoolInv, RunOfRow, At
<1>6. OrderRows'
  BY <1>2, <1>3, <1>4, <1>5 DEF PoolInv, OrderRows
<1>7. OneToken'
  BY <1>1, <1>2, <1>3, NoOrderAssumption DEF PoolInv, OneToken
<1>8. RunOfRow'
  <2> SUFFICES ASSUME NEW x \in Workers PROVE RunOfRow!(x)'
    BY DEF RunOfRow
  <2>1. CASE x = w
    BY <2>1, <1>1 DEF At
  <2>2. CASE x # w
    BY <2>2, <1>1, <1>2, <1>3 DEF PoolInv, RunOfRow, At, TypeInv, RunNamesOrder
  <2> QED
    BY <2>1, <2>2
<1>9. HolderIsAssigned'
  BY <1>2 DEF PoolInv, HolderIsAssigned
<1>10. KeptIsHeld'
  <2>1. \A p \in Orders : Keeps(p)' => Keeps(p)
    BY <1>2, <1>4, <1>5 DEF Keeps
  <2> QED
    BY <2>1, <1>2 DEF PoolInv, KeptIsHeld, Held
<1>11. BusyIsPast'
  <2> SUFFICES ASSUME NEW a \in Assets, poolStatus[a] = "busy", holder[a] # NoOrder
               PROVE  BusyIsPast!(a)'
    BY <1>2 DEF BusyIsPast
  <2>1. /\ holder[a] \in Orders /\ queue[holder[a]] = 0
        /\ status'[holder[a]] \in {"processing", "provisioned", "revoked", "cancelled", "expired"}
    BY DEF PoolInv, BusyIsPast, TypeInv, TypeOK, PoolTypeOK
  <2>2. \A x \in Workers : run'[x].order = holder[a] => x # w
    BY <2>1, <1>1, NoOrderAssumption
  <2> QED
    BY <2>1, <2>2, <1>1, <1>2 DEF PoolInv, BusyIsPast
<1>12. LiveDeletes'
  <2>1. \A d \in Orders : Live(d)' => Live(d)
    BY <1>1, <1>2, <1>3, <1>4, <1>5 DEF Live, At
  <2>2. \A d \in Orders : Live(d) =>
          status'[holder[assigned[d]]] = status[holder[assigned[d]]]
    <3> SUFFICES ASSUME NEW d \in Orders, Live(d)
                 PROVE  status'[holder[assigned[d]]] = status[holder[assigned[d]]]
      OBVIOUS
    <3>1. holder[assigned[d]] \in Orders
      BY DEF PoolInv, LiveDeletes, Live, TypeInv, TypeOK, PoolTypeOK
    <3>2. holder[assigned[d]] # o
      BY <1>4, <1>5 DEF PoolInv, LiveDeletes
    <3> QED
      BY <3>1, <3>2
  <2> QED
    BY <2>1, <2>2, <1>2 DEF PoolInv, LiveDeletes, Held
<1>13. SessionsKnow'
  <2>1. \A p \in Orders : UnderWay(p)' => UnderWay(p)
    BY <1>1, <1>2, NoOrderAssumption DEF UnderWay
  <2>2. \A s \in Sessions : session[s].kind # "idle" => session[s].order \in Orders \ {o}
    BY <1>3, WhoIsBusyWith
  <2> QED
    BY <2>1, <2>2, <1>2, SessionsKnowStill DEF Held
<1> QED
  BY <1>6, <1>7, <1>8, <1>9, <1>10, <1>11, <1>12, <1>13 DEF PoolInv

(* The final status of a deprovisioning that goes on to release its asset.  *)
LEMMA RunRevoked ==
  ASSUME TypeInv, OneAtATime, PoolInv, NEW w \in Workers, At(w, "stamp"),
         NEW o \in Orders, o = run[w].order, Goto(w, "postRelease"),
         action[o] = "delete", assigned[o] # NoAsset,
         \A p \in Orders : p # o => status'[p] = status[p], status'[o] = "revoked",
         UNCHANGED <<poolVars, action, assigned, undecided, queue, session>>
  PROVE  PoolInv'
<1>1. /\ run'[w].order = run[w].order /\ run'[w].action = run[w].action
      /\ run'[w].asset = run[w].asset /\ run'[w].pc = "postRelease"
      /\ \A x \in Workers : x # w => run'[x] = run[x]
      /\ \A x \in Workers : run'[x].order = run[x].order
  BY RunGoes
<1>2. /\ poolStatus' = poolStatus /\ holder' = holder
      /\ action' = action /\ assigned' = assigned /\ undecided' = undecided
      /\ queue' = queue /\ session' = session
  BY DEF poolVars
<1>3. /\ UnderWay(o) /\ queue[o] = 0 /\ run[w].action = "delete" /\ run[w].asset = assigned[o]
      /\ \A x \in Workers : x # w => run[x].order # o
      /\ \A s \in Sessions : session[s].kind # "idle" => session[s].order # o
      /\ o \notin undecided
  BY RowOfRun DEF At
<1>4. status[o] = "processing"
  BY DEF PoolInv, RunOfRow, At
<1>5. OrderRows'
  BY <1>2, <1>3 DEF PoolInv, OrderRows
<1>6. OneToken'
  BY <1>1, <1>2, <1>3 DEF PoolInv, OneToken
<1>7. RunOfRow'
  <2> SUFFICES ASSUME NEW x \in Workers PROVE RunOfRow!(x)'
    BY DEF RunOfRow
  <2>1. CASE x = w
    BY <2>1, <1>1, <1>2, <1>3 DEF At
  <2>2. CASE x # w
    BY <2>2, <1>1, <1>2, <1>3 DEF PoolInv, RunOfRow, At, TypeInv, RunNamesOrder
  <2> QED
    BY <2>1, <2>2
<1>8. HolderIsAssigned'
  BY <1>2 DEF PoolInv, HolderIsAssigned
<1>9. KeptIsHeld'
  BY <1>2 DEF PoolInv, KeptIsHeld, Held, Keeps
<1>10. BusyIsPast'
  <2> SUFFICES ASSUME NEW a \in Assets, poolStatus[a] = "busy", holder[a] # NoOrder
               PROVE  BusyIsPast!(a)'
    BY <1>2 DEF BusyIsPast
  <2>1. holder[a] # o /\ holder[a] \in Orders
    BY DEF PoolInv, HolderIsAssigned, TypeInv, TypeOK, PoolTypeOK
  <2> QED
    BY <2>1, <1>1, <1>2 DEF PoolInv, BusyIsPast
<1>11. LiveDeletes'
  <2>1. \A d \in Orders : Live(d)' => Live(d)
    BY <1>1, <1>2, <1>3, <1>4 DEF Live, At
  <2>2. \A d \in Orders : Live(d) => holder[assigned[d]] \in Orders \ {o}
    BY <1>4 DEF PoolInv, LiveDeletes, Live, TypeInv, TypeOK, PoolTypeOK
  <2> QED
    BY <2>1, <2>2, <1>2 DEF PoolInv, LiveDeletes, Held
<1>12. SessionsKnow'
  <2>1. \A p \in Orders : UnderWay(p)' => UnderWay(p)
    BY <1>1, <1>2 DEF UnderWay
  <2>2. \A s \in Sessions : session[s].kind # "idle" => session[s].order \in Orders \ {o}
    BY <1>3, WhoIsBusyWith
  <2> QED
    BY <2>1, <2>2, <1>2, SessionsKnowStill DEF Held
<1> QED
  BY <1>5, <1>6, <1>7, <1>8, <1>9, <1>10, <1>11, <1>12 DEF PoolInv

(* The release after the final status: nobody keeps the asset any more.     *)
LEMMA RunReleases ==
  ASSUME TypeInv, OneAtATime, PoolInv, NEW w \in Workers, At(w, "postRelease"),
         NEW a, a = run[w].asset, ReleaseAsset(a), Goto(w, "sweep"),
         UNCHANGED <<status, action, assigned, undecided, queue, session>>
  PROVE  PoolInv'
<1> DEFINE o == run[w].order
<1>1. /\ run'[w].order = run[w].order /\ run'[w].action = run[w].action
      /\ run'[w].asset = run[w].asset /\ run'[w].pc = "sweep"
      /\ \A x \in Workers : x # w => run'[x] = run[x]
      /\ \A x \in Workers : run'[x].order = run[x].order
  BY RunGoes
<1>2. /\ o \in Orders /\ action[o] = "delete" /\ assigned[o] = a /\ a # NoAsset
      /\ status[o] = "revoked"
  BY RowOfRun DEF PoolInv, RunOfRow, At
<1>3. Live(o) /\ a \in Assets
  BY <1>2 DEF Live, At, TypeInv, TypeOK
<1>4. /\ holder[a] \in Orders /\ status[holder[a]] \in {"cancelled", "expired"}
      /\ \A e \in Orders : Live(e) /\ assigned[e] = a => e = o
  BY <1>2, <1>3 DEF PoolInv, LiveDeletes, TypeInv, TypeOK, PoolTypeOK
<1>5. \A b \in Assets : IF b = a THEN poolStatus'[b] = "Free" /\ holder'[b] = NoOrder
                         ELSE poolStatus'[b] = poolStatus[b] /\ holder'[b] = holder[b]
  BY <1>3 DEF ReleaseAsset, TypeInv, TypeOK, PoolTypeOK
<1>6. OrderRows'
  BY DEF PoolInv, OrderRows
<1>7. OneToken'
  BY <1>1 DEF PoolInv, OneToken
<1>8. RunOfRow'
  <2> SUFFICES ASSUME NEW x \in Workers PROVE RunOfRow!(x)'
    BY DEF RunOfRow
  <2> QED
    BY <1>1 DEF PoolInv, RunOfRow, At
<1>9. HolderIsAssigned'
  BY <1>5 DEF PoolInv, HolderIsAssigned
<1>10. KeptIsHeld'
  <2> SUFFICES ASSUME NEW p \in Orders, Keeps(p)
               PROVE  holder'[assigned[p]] = p /\ Held(assigned[p])'
    BY DEF KeptIsHeld, Keeps
  <2>1. holder[assigned[p]] = p /\ Held(assigned[p]) /\ assigned[p] \in Assets
    BY DEF PoolInv, KeptIsHeld, Keeps, TypeInv, TypeOK
  <2>2. assigned[p] # a
    BY <2>1, <1>4 DEF Keeps
  <2> QED
    BY <2>1, <2>2, <1>5 DEF Held
<1>11. BusyIsPast'
  <2> SUFFICES ASSUME NEW b \in Assets, poolStatus'[b] = "busy", holder'[b] # NoOrder
               PROVE  BusyIsPast!(b)'
    BY DEF BusyIsPast
  <2>1. poolStatus[b] = "busy" /\ holder'[b] = holder[b] /\ holder[b] # NoOrder
    BY <1>5
  <2>2. \A x \in Workers : run'[x].pc \in {"reserve", "grant", "log"} => run'[x] = run[x]
    BY <1>1
  <2>3. /\ status[holder[b]] \in {"processing", "provisioned", "revoked", "cancelled", "expired"}
        /\ queue[holder[b]] = 0
        /\ \A x \in Workers : run[x].order = holder[b] => run[x].pc \notin {"reserve", "grant", "log"}
    BY <2>1 DEF PoolInv, BusyIsPast
  <2> QED
    BY <2>1, <2>2, <2>3
<1>12. LiveDeletes'
  <2>1. ~Live(o)'
    <3>1. \A x \in Workers : run'[x].order = o => run'[x].pc # "postRelease"
      BY <1>1, RowOfRun DEF At
    <3> QED
      BY <3>1, <1>1, <1>2 DEF Live, At
  <2>2. \A d \in Orders : Live(d)' => Live(d) /\ d # o
    BY <2>1, <1>1 DEF Live, At
  <2> SUFFICES ASSUME NEW d \in Orders, Live(d)'
               PROVE  LiveDeletes!(d)'
    BY DEF LiveDeletes
  <2>3. Live(d) /\ assigned[d] # a /\ assigned[d] \in Assets
    BY <2>2, <1>4 DEF Live, TypeInv, TypeOK
  <2> QED
    BY <2>2, <2>3, <1>5 DEF PoolInv, LiveDeletes, Held
<1>13. SessionsKnow'
  <2>1. \A p \in Orders : UnderWay(p)' => UnderWay(p)
    BY <1>1 DEF UnderWay
  <2>2. \A s \in Sessions : session[s].kind # "idle" =>
          status[session[s].order] \notin {"cancelled", "expired"}
    BY WhoIsBusyWith
  <2>3. \A s \in Sessions : session[s].kind # "idle" =>
          \A b \in Assets : holder[b] = session[s].order => b # a
    BY <2>2, <1>4
  <2>4. \A s \in Sessions : session[s].kind # "idle" =>
          \A b \in Assets : holder[b] = session[s].order /\ Held(b)
                            => holder'[b] = session[s].order /\ Held(b)'
    BY <2>3, <1>5 DEF Held
  <2> QED
    BY <2>1, <2>4, SessionsKnowStill
<1> QED
  BY <1>6, <1>7, <1>8, <1>9, <1>10, <1>11, <1>12, <1>13 DEF PoolInv


(* The sweep takes what no deprovisioning needs: used orders of the asset.  *)
LEMMA RunSweeps ==
  ASSUME TypeInv, OneAtATime, PoolInv, NEW w \in Workers, At(w, "sweep"), EndRun(w),
         \A p \in Orders : \/ status'[p] = status[p]
                           \/ status[p] = "provisioned" /\ status'[p] = "revoked",
         UNCHANGED <<poolVars, action, assigned, undecided, queue, session>>
  PROVE  PoolInv'
<1> DEFINE o == run[w].order
<1>1. /\ run'[w].order = NoOrder /\ run'[w].pc = "idle"
      /\ \A x \in Workers : x # w => run'[x] = run[x]
  BY RunEnds
<1>2. /\ poolStatus' = poolStatus /\ holder' = holder
      /\ action' = action /\ assigned' = assigned /\ undecided' = undecided
      /\ queue' = queue /\ session' = session
  BY DEF poolVars
<1>3. OrderRows'
  BY <1>2 DEF PoolInv, OrderRows
<1>4. OneToken'
  BY <1>1, <1>2, NoOrderAssumption DEF PoolInv, OneToken
<1>5. RunOfRow'
  <2> SUFFICES ASSUME NEW x \in Workers PROVE RunOfRow!(x)'
    BY DEF RunOfRow
  <2>1. CASE x = w
    BY <2>1, <1>1 DEF At
  <2>2. CASE x # w
    <3>1. At(x, "idle") \/ run[x].order \in Orders
      BY DEF TypeInv, RunNamesOrder
    <3>2. run[x].order \in Orders => status[run[x].order] # "provisioned" \/ At(x, "idle")
      BY DEF PoolInv, RunOfRow
    <3> QED
      BY <2>2, <3>1, <3>2, <1>1, <1>2 DEF PoolInv, RunOfRow, At
  <2> QED
    BY <2>1, <2>2
<1>6. HolderIsAssigned'
  BY <1>2 DEF PoolInv, HolderIsAssigned
<1>7. KeptIsHeld'
  <2>1. \A p \in Orders : Keeps(p)' => Keeps(p)
    BY <1>2 DEF Keeps
  <2> QED
    BY <2>1, <1>2 DEF PoolInv, KeptIsHeld, Held
<1>8. BusyIsPast'
  <2> SUFFICES ASSUME NEW a \in Assets, poolStatus[a] = "busy", holder[a] # NoOrder
               PROVE  BusyIsPast!(a)'
    BY <1>2 DEF BusyIsPast
  <2>1. /\ holder[a] \in Orders /\ queue[holder[a]] = 0
        /\ status'[holder[a]] \in {"processing", "provisioned", "revoked", "cancelled", "expired"}
    BY DEF PoolInv, BusyIsPast, TypeInv, TypeOK, PoolTypeOK
  <2>2. \A x \in Workers : run'[x].order = holder[a] => x # w
    BY <2>1, <1>1, NoOrderAssumption
  <2> QED
    BY <2>1, <2>2, <1>1, <1>2 DEF PoolInv, BusyIsPast
<1>9. LiveDeletes'
  <2>1. \A d \in Orders : Live(d)' => Live(d)
    BY <1>1, <1>2 DEF Live, At
  <2>2. \A d \in Orders : Live(d) =>
          status'[holder[assigned[d]]] = status[holder[assigned[d]]]
    <3> SUFFICES ASSUME NEW d \in Orders, Live(d)
                 PROVE  status'[holder[assigned[d]]] = status[holder[assigned[d]]]
      OBVIOUS
    <3>1. /\ holder[assigned[d]] \in Orders
          /\ status[holder[assigned[d]]] # "provisioned"
      BY DEF PoolInv, LiveDeletes, Live, TypeInv, TypeOK, PoolTypeOK
    <3> QED
      BY <3>1
  <2> QED
    BY <2>1, <2>2, <1>2 DEF PoolInv, LiveDeletes, Held
<1>10. SessionsKnow'
  <2>1. \A p \in Orders : UnderWay(p)' => UnderWay(p)
    BY <1>1, <1>2, NoOrderAssumption DEF UnderWay
  <2>2. \A s \in Sessions : session[s].kind # "idle" => session[s].order \in Orders
    BY WhoIsBusyWith
  <2> QED
    BY <2>1, <2>2, <1>2, SessionsKnowStill DEF Held
<1> QED
  BY <1>3, <1>4, <1>5, <1>6, <1>7, <1>8, <1>9, <1>10 DEF PoolInv

(* The asset of a provision goes into use: it is held for that order.       *)
LEMMA RunSetsBusy ==
  ASSUME TypeInv, OneAtATime, PoolInv, NEW w \in Workers, At(w, "busy"),
         NEW o \in Orders, o = run[w].order, NEW a, a = run[w].asset,
         SetAssetBusy(a, o), NEW p \in {"runbook", "stamp"}, Goto(w, p),
         UNCHANGED <<status, action, assigned, undecided, queue, session>>
  PROVE  PoolInv'
<1>1. /\ run'[w].order = run[w].order /\ run'[w].action = run[w].action
      /\ run'[w].asset = run[w].asset /\ run'[w].pc = p
      /\ \A x \in Workers : x # w => run'[x] = run[x]
      /\ \A x \in Workers : run'[x].order = run[x].order
  BY RunGoes
<1>2. /\ action[o] = "provision" /\ assigned[o] = a /\ a # NoAsset
      /\ status[o] = "processing" /\ queue[o] = 0 /\ a \in Assets
      /\ \A x \in Workers : x # w => run[x].order # o
  BY RowOfRun DEF PoolInv, RunOfRow, At, TypeInv, TypeOK
<1>3. holder[a] = o /\ Held(a)
  BY <1>2 DEF PoolInv, KeptIsHeld, Keeps
<1>4. \A b \in Assets : /\ holder'[b] = holder[b]
                        /\ IF b = a THEN poolStatus'[b] = "busy"
                           ELSE poolStatus'[b] = poolStatus[b]
  BY <1>2, <1>3 DEF SetAssetBusy, TypeInv, TypeOK, PoolTypeOK
<1>5. \A b \in Assets : Held(b)' = Held(b)
  BY <1>3, <1>4 DEF Held
<1>6. \A q \in Orders : Keeps(q)' = Keeps(q) /\ (assigned[q] # NoAsset => assigned[q] \in Assets)
  BY DEF Keeps, TypeInv, TypeOK
<1>7. OrderRows'
  BY DEF PoolInv, OrderRows
<1>8. OneToken'
  BY <1>1 DEF PoolInv, OneToken
<1>9. RunOfRow'
  <2> SUFFICES ASSUME NEW x \in Workers PROVE RunOfRow!(x)'
    BY DEF RunOfRow
  <2> QED
    BY <1>1 DEF PoolInv, RunOfRow, At
<1>10. HolderIsAssigned'
  BY <1>4 DEF PoolInv, HolderIsAssigned
<1>11. KeptIsHeld'
  BY <1>4, <1>5, <1>6 DEF PoolInv, KeptIsHeld, Keeps
<1>12. BusyIsPast'
  <2> SUFFICES ASSUME NEW b \in Assets, poolStatus'[b] = "busy", holder[b] # NoOrder
               PROVE  BusyIsPast!(b)'
    BY <1>4 DEF BusyIsPast
  <2>1. CASE b = a
    BY <2>1, <1>1, <1>2, <1>3, <1>4
  <2>2. CASE b # a
    <3>1. \A x \in Workers : run'[x].pc \in {"reserve", "grant", "log"} => run'[x] = run[x]
      BY <1>1
    <3>2. /\ status[holder[b]] \in {"processing", "provisioned", "revoked", "cancelled", "expired"}
          /\ queue[holder[b]] = 0
          /\ \A x \in Workers : run[x].order = holder[b]
                                => run[x].pc \notin {"reserve", "grant", "log"}
      BY <2>2, <1>4 DEF PoolInv, BusyIsPast
    <3> QED
      BY <3>1, <3>2, <1>4
  <2> QED
    BY <2>1, <2>2
<1>13. LiveDeletes'
  <2>1. \A d \in Orders : Live(d)' => Live(d) /\ assigned[d] \in Assets
    BY <1>1 DEF Live, At, TypeInv, TypeOK
  <2> QED
    BY <2>1, <1>4, <1>5 DEF PoolInv, LiveDeletes
<1>14. SessionsKnow'
  <2>1. \A q \in Orders : UnderWay(q)' => UnderWay(q)
    BY <1>1 DEF UnderWay
  <2> QED
    BY <2>1, <1>4, <1>5, SessionsKnowStill
<1> QED
  BY <1>7, <1>8, <1>9, <1>10, <1>11, <1>12, <1>13, <1>14 DEF PoolInv

(* A run reserves an asset for its order.                                   *)
LEMMA RunReserves ==
  ASSUME TypeInv, OneAtATime, PoolInv, NEW w \in Workers, At(w, "reserve"),
         NEW o \in Orders, o = run[w].order, NEW a \in Assets, ReserveAsset(a, o),
         run[w].asset = NoAsset, NEW p \in {"grant", "runbook"},
         assigned' = [assigned EXCEPT ![o] = a],
         run' = [run EXCEPT ![w] = [@ EXCEPT !.asset = a, !.pc = p]],
         UNCHANGED <<status, action, undecided, queue, session>>
  PROVE  PoolInv'
<1>1. /\ run'[w].order = run[w].order /\ run'[w].action = run[w].action
      /\ run'[w].asset = a /\ run'[w].pc = p
      /\ \A x \in Workers : x # w => run'[x] = run[x]
      /\ \A x \in Workers : run'[x].order = run[x].order
  BY DEF TypeInv, TypeOK
<1>2. /\ action[o] = "provision" /\ assigned[o] = NoAsset /\ run[w].action = action[o]
      /\ status[o] = "processing" /\ o \notin undecided
      /\ \A x \in Workers : x # w => run[x].order # o
      /\ \A s \in Sessions : session[s].kind # "idle" => session[s].order # o
  BY RowOfRun DEF PoolInv, RunOfRow, At
<1>3. assigned'[o] = a /\ \A q \in Orders : q # o => assigned'[q] = assigned[q]
  BY DEF TypeInv, TypeOK
<1>4. HolderIsAssigned' /\ KeptIsHeld' /\ BusyIsPast' /\ LiveDeletes'
  <2>1. \A q \in Orders : q # o => (Live(q)' <=> Live(q))
    BY <1>1, <1>2, <1>3 DEF Live, At
  <2>2. \A q \in Orders, x \in Workers : q # o /\ run'[x].order = q => run'[x] = run[x]
    BY <1>1
  <2>3. /\ \A q \in Orders : q # o => assigned'[q] = assigned[q] /\ status'[q] = status[q]
        /\ \A q \in Orders : q # o => queue'[q] = queue[q]
        /\ \A q \in Orders : action'[q] = action[q]
    BY <1>3
  <2> HIDE DEF PoolInv, TypeInv
  <2> QED
    BY <2>1, <2>2, <2>3, <1>2, <1>3, ReservedRows
<1>5. OrderRows'
  BY <1>2, <1>3 DEF PoolInv, OrderRows
<1>6. OneToken'
  BY <1>1 DEF PoolInv, OneToken
<1>7. RunOfRow'
  <2> SUFFICES ASSUME NEW x \in Workers PROVE RunOfRow!(x)'
    BY DEF RunOfRow
  <2>1. CASE x = w
    BY <2>1, <1>1, <1>2, <1>3, LifecycleAssumption DEF At
  <2>2. CASE x # w
    BY <2>2, <1>1, <1>2, <1>3 DEF PoolInv, RunOfRow, At, TypeInv, RunNamesOrder
  <2> QED
    BY <2>1, <2>2
<1>8. SessionsKnow'
  <2>1. \A q \in Orders : UnderWay(q)' => UnderWay(q)
    BY <1>1 DEF UnderWay
  <2>2. \A s \in Sessions : session[s].kind # "idle" => session[s].order \in Orders \ {o}
    BY <1>2, WhoIsBusyWith
  <2>3. \A b \in Assets : Held(b) => holder'[b] = holder[b] /\ Held(b)'
    BY DEF Held, ReserveAsset, TypeInv, TypeOK, PoolTypeOK
  <2> QED
    BY <2>1, <2>2, <2>3, <1>3, SessionsKnowStill
<1> QED
  BY <1>4, <1>5, <1>6, <1>7, <1>8 DEF PoolInv

(* A worker takes the message of an order.                                  *)
LEMMA StartKeepsPool ==
  ASSUME TypeInv, OneAtATime, PoolInv, NEW w \in Workers, NEW o \in Orders, Start(w, o)
  PROVE  PoolInv'
<1>1. At(w, "idle") /\ queue[o] > 0 /\ queue[o] \in Nat /\ queue[o] <= 1
  BY DEF Start, PoolInv, OneToken, TypeInv, TypeOK
<1>2. /\ run'[w].order = o /\ run'[w].action = action[o] /\ run'[w].asset = assigned[o]
      /\ run'[w].pc = FirstStep(action[o])
      /\ \A x \in Workers : x # w => run'[x] = run[x]
  BY DEF Start, TypeInv, TypeOK
<1>3. queue'[o] = 0 /\ \A q \in Orders : q # o => queue'[q] = queue[q]
  BY <1>1 DEF Start, TypeInv, TypeOK
<1>4. /\ poolStatus' = poolStatus /\ holder' = holder /\ status' = status
      /\ action' = action /\ assigned' = assigned /\ undecided' = undecided
      /\ session' = session
  BY DEF Start, poolVars, orderVars
<1>5. status[o] = "processing" /\ \A x \in Workers : run[x].order # o
  BY <1>1 DEF PoolInv, OneToken
<1>6. action[o] \in {"provision", "delete"}
  BY DEF PoolInv, OrderRows
<1>7. /\ FirstStep(action[o]) \in {"reserve", "runbook", "grant", "revoke"}
      /\ FirstStep(action[o]) \in {"reserve", "grant"} => action[o] = "provision"
      /\ FirstStep(action[o]) = "revoke" => action[o] = "delete"
  BY <1>6, Zenon DEF FirstStep
<1>8. OrderRows' /\ HolderIsAssigned' /\ KeptIsHeld'
  BY <1>4 DEF PoolInv, OrderRows, HolderIsAssigned, KeptIsHeld, Keeps, Held
<1>9. OneToken'
  BY <1>2, <1>3, <1>4, <1>5 DEF PoolInv, OneToken
<1>10. RunOfRow'
  <2> SUFFICES ASSUME NEW x \in Workers PROVE RunOfRow!(x)'
    BY DEF RunOfRow
  <2>1. CASE x = w
    BY <2>1, <1>2, <1>4, <1>5, <1>7 DEF At
  <2>2. CASE x # w
    BY <2>2, <1>2, <1>4 DEF PoolInv, RunOfRow, At
  <2> QED
    BY <2>1, <2>2
<1>11. BusyIsPast'
  <2> SUFFICES ASSUME NEW a \in Assets, poolStatus[a] = "busy", holder[a] # NoOrder
               PROVE  BusyIsPast!(a)'
    BY <1>4 DEF BusyIsPast
  <2>1. holder[a] # o /\ holder[a] \in Orders
    BY <1>1 DEF PoolInv, BusyIsPast, TypeInv, TypeOK, PoolTypeOK
  <2> QED
    BY <2>1, <1>2, <1>3, <1>4 DEF PoolInv, BusyIsPast
<1>12. LiveDeletes'
  <2>1. \A d \in Orders : Live(d)' => Live(d)
    BY <1>2, <1>4, <1>7 DEF Live, At
  <2> QED
    BY <2>1, <1>4 DEF PoolInv, LiveDeletes, Held
<1>13. SessionsKnow'
  <2>1. \A q \in Orders : UnderWay(q)' => UnderWay(q)
    BY <1>1, <1>2, <1>3 DEF UnderWay
  <2> QED
    BY <2>1, <1>4, SessionsKnowStill DEF Held
<1> QED
  BY <1>8, <1>9, <1>10, <1>11, <1>12, <1>13 DEF PoolInv


LEMMA RunKeepsPool ==
  ASSUME TypeInv, OneAtATime, PoolInv, NEW w \in Workers, RunStep(w)
  PROVE  PoolInv'
<1> DEFINE o == run[w].order
<1>1. ~At(w, "idle")
  BY DEF RunStep, ReserveStep, GrantStep, LogStep, BusyStep, RunbookStep, GuardStep, UnlinkStep,
     RevokeStep, ReleaseStep, ReinstallStep, StampStep, PostReleaseStep, SweepStep, At
<1>2. /\ o \in Orders /\ run[w].action = action[o] /\ run[w].asset = assigned[o]
      /\ action[o] \in {"provision", "delete"} /\ assigned[o] \in Assets \cup {NoAsset}
  BY <1>1, RowOfRun DEF TypeInv, TypeOK
<1>3. /\ run[w].pc \in {"reserve", "grant", "log", "busy", "guard"} => run[w].action = "provision"
      /\ run[w].pc = "revoke" => run[w].action = "delete"
      /\ run[w].pc \notin {"unlink", "release", "reinstall"}
  BY <1>1 DEF PoolInv, RunOfRow, At
<1>4. AfterGroup \in {"runbook", "stamp"} /\ AfterReserve \in {"grant", "runbook"}
  BY DEF AfterGroup, AfterReserve
<1>5. run[w].action = "provision" =>
        /\ AfterGrant(run[w]) \in {"busy", "runbook", "stamp"}
        /\ AfterGrant(run[w]) = "busy" => run[w].asset # NoAsset
  BY <1>4 DEF AfterGrant
<1>6. ASSUME status' = [status EXCEPT ![o] = "failed"], EndRun(w),
             UNCHANGED <<poolVars, action, assigned, undecided, queue, session>>,
             ~At(w, "postRelease"), ~At(w, "sweep"),
             \A a \in Assets : holder[a] = o => poolStatus[a] # "busy"
      PROVE  PoolInv'
  <2>1. status'[o] = "failed" /\ \A p \in Orders : p # o => status'[p] = status[p]
    BY <1>2, <1>6 DEF TypeInv, TypeOK
  <2> QED
    BY <1>1, <1>2, <1>6, <2>1, RunStops
<1>7. ASSUME NEW p \in {"grant", "log", "busy", "runbook", "guard", "stamp"}, Goto(w, p),
             UNCHANGED <<poolVars, status, action, assigned, undecided, queue, session>>,
             run[w].pc \notin {"idle", "postRelease", "sweep"},
             p = "busy" => run[w].asset # NoAsset,
             p \in {"grant", "log", "busy", "guard"} => run[w].action = "provision",
             p \in {"grant", "log"} => run[w].pc \in {"reserve", "grant"}
      PROVE  PoolInv'
  BY <1>7, RunMoves
<1>8. CASE ReserveStep(w)
  <2>1. At(w, "reserve") /\ UNCHANGED <<action, undecided, queue, session>>
    BY <1>8 DEF ReserveStep, runFrame
  <2>2. ASSUME Goto(w, AfterReserve), UNCHANGED <<poolVars, status, assigned>>
        PROVE  PoolInv'
    BY <2>1, <2>2, <1>3, <1>4, <1>7 DEF At
  <2>3. ASSUME NEW a \in Assets, ReserveAsset(a, o), run[w].asset = NoAsset,
               assigned' = [assigned EXCEPT ![o] = a],
               run' = [run EXCEPT ![w] = [@ EXCEPT !.asset = a, !.pc = AfterReserve]],
               UNCHANGED status
        PROVE  PoolInv'
    BY <2>1, <2>3, <1>2, <1>4, RunReserves
  <2>4. ASSUME run[w].asset = NoAsset, FailRun(w), UNCHANGED <<poolVars, assigned>>
        PROVE  PoolInv'
    <3>1. \A a \in Assets : holder[a] # o
      BY <2>4, <1>2, LifecycleAssumption, NoOrderAssumption DEF PoolInv, HolderIsAssigned
    <3> QED
      BY <2>1, <2>4, <3>1, <1>6 DEF FailRun, SetStatus, At
  <2> QED
    BY <1>8, <2>2, <2>3, <2>4 DEF ReserveStep
<1>9. CASE GrantStep(w)
  <2>1. At(w, "grant") /\ UNCHANGED <<poolVars, assigned, action, undecided, queue, session>>
    BY <1>9 DEF GrantStep, runFrame
  <2>2. ASSUME Goto(w, AfterGrant(run[w])), UNCHANGED status PROVE PoolInv'
    BY <2>1, <2>2, <1>3, <1>5, <1>7 DEF At
  <2>3. ASSUME Goto(w, "log"), UNCHANGED status PROVE PoolInv'
    BY <2>1, <2>3, <1>3, <1>7 DEF At
  <2>4. ASSUME FailRun(w) PROVE PoolInv'
    <3>1. \A a \in Assets : holder[a] = o => poolStatus[a] # "busy"
      BY <2>1, <1>2, NoOrderAssumption DEF PoolInv, BusyIsPast, At
    <3> QED
      BY <2>1, <2>4, <3>1, <1>6 DEF FailRun, SetStatus, At
  <2> QED
    BY <1>9, <2>2, <2>3, <2>4 DEF GrantStep
<1>10. CASE LogStep(w)
  <2>1. /\ At(w, "log")
        /\ UNCHANGED <<poolVars, status, assigned, action, undecided, queue, session>>
        /\ Goto(w, AfterGrant(run[w]))
    BY <1>10 DEF LogStep, runFrame
  <2> QED
    BY <2>1, <1>3, <1>5, <1>7 DEF At
<1>11. CASE BusyStep(w)
  <2>1. /\ At(w, "busy") /\ UNCHANGED <<status, assigned, action, undecided, queue, session>>
        /\ SetAssetBusy(run[w].asset, o) /\ Goto(w, AfterGroup)
    BY <1>11 DEF BusyStep, runFrame
  <2> QED
    BY <2>1, <1>2, <1>4, RunSetsBusy
<1>12. CASE RunbookStep(w)
  <2>1. /\ At(w, "runbook")
        /\ UNCHANGED <<poolVars, status, assigned, action, undecided, queue, session>>
        /\ Goto(w, IF run[w].action = "provision" THEN "guard" ELSE "stamp")
    BY <1>12 DEF RunbookStep, runFrame, On, OneAtATime, PoolRequests
  <2> QED
    BY <2>1, <1>7 DEF At
<1>13. CASE GuardStep(w)
  <2>1. /\ At(w, "guard")
        /\ UNCHANGED <<poolVars, status, assigned, action, undecided, queue, session>>
        /\ Goto(w, "stamp")
    BY <1>13, <1>2, <1>3 DEF GuardStep, runFrame, At
  <2> QED
    BY <2>1, <1>7 DEF At
<1>14. CASE RevokeStep(w)
  <2>1. At(w, "revoke") /\ UNCHANGED <<poolVars, assigned, action, undecided, queue, session>>
    BY <1>14 DEF RevokeStep, runFrame
  <2>2. AfterRevoke(run[w]) = AfterGroup
    BY DEF AfterRevoke, OneAtATime
  <2>3. ASSUME Goto(w, AfterRevoke(run[w])), UNCHANGED status PROVE PoolInv'
    BY <2>1, <2>2, <2>3, <1>4, <1>7 DEF At
  <2>4. ASSUME FailRun(w) PROVE PoolInv'
    <3>1. \A a \in Assets : holder[a] # o
      BY <2>1, <1>2, <1>3, NoOrderAssumption DEF PoolInv, HolderIsAssigned, At
    <3> QED
      BY <2>1, <2>4, <3>1, <1>6 DEF FailRun, SetStatus, At
  <2> QED
    BY <1>14, <2>3, <2>4 DEF RevokeStep
<1>15. CASE StampStep(w)
  <2>1. /\ At(w, "stamp") /\ UNCHANGED <<poolVars, assigned, action, undecided, queue, session>>
        /\ status' = [status EXCEPT ![o] = FinalStatus(run[w].action)]
    BY <1>15 DEF StampStep, runFrame, SetStatus
  <2>2. /\ run[w].action = "provision" => FinalStatus(run[w].action) = "provisioned"
        /\ run[w].action = "delete" => FinalStatus(run[w].action) = "revoked"
    BY Zenon DEF FinalStatus
  <2>3. /\ \A p \in Orders : p # o => status'[p] = status[p]
        /\ status'[o] = FinalStatus(run[w].action)
    BY <2>1, <1>2 DEF TypeInv, TypeOK
  <2>4. CASE AfterStamp(run[w]) = "idle"
    <3>1. EndRun(w)
      BY <1>15, <2>4 DEF StampStep
    <3>2. \/ status'[o] = "provisioned" /\ action[o] = "provision"
             /\ ~At(w, "postRelease") /\ ~At(w, "sweep")
          \/ status'[o] = "revoked" /\ action[o] = "delete"
      BY <2>1, <2>2, <2>3, <1>2 DEF At
    <3> QED
      BY <2>1, <2>3, <3>1, <3>2, <1>1, <1>2, RunStops
  <2>5. CASE AfterStamp(run[w]) # "idle"
    <3>1. action[o] = "delete" /\ assigned[o] # NoAsset /\ AfterStamp(run[w]) = "postRelease"
      BY <2>5, <1>2 DEF AfterStamp, OneAtATime
    <3>2. Goto(w, "postRelease") /\ status'[o] = "revoked"
      BY <1>15, <2>2, <2>3, <2>5, <3>1, <1>2 DEF StampStep
    <3> QED
      BY <2>1, <2>3, <3>1, <3>2, <1>2, RunRevoked
  <2> QED
    BY <2>4, <2>5
<1>16. CASE PostReleaseStep(w)
  <2>1. /\ At(w, "postRelease") /\ UNCHANGED <<status, assigned, action, undecided, queue, session>>
        /\ ReleaseAsset(run[w].asset) /\ Goto(w, "sweep")
    BY <1>16 DEF PostReleaseStep, runFrame
  <2> QED
    BY <2>1, RunReleases
<1>17. CASE SweepStep(w)
  <2>1. /\ At(w, "sweep") /\ EndRun(w)
        /\ UNCHANGED <<poolVars, assigned, action, undecided, queue, session>>
    BY <1>17 DEF SweepStep, runFrame
  <2>2. \A p \in Orders : \/ status'[p] = status[p]
                          \/ status[p] = "provisioned" /\ status'[p] = "revoked"
    BY <1>17 DEF SweepStep, PoolInv, OrderRows
  <2> QED
    BY <2>1, <2>2, RunSweeps
<1> QED
  BY <1>3, <1>8, <1>9, <1>10, <1>11, <1>12, <1>13, <1>14, <1>15, <1>16, <1>17
     DEF RunStep, UnlinkStep, ReleaseStep, ReinstallStep, At

LEMMA FaultKeepsPool ==
  ASSUME TypeInv, OneAtATime, PoolInv, NEW w \in Workers, RunFault(w)
  PROVE  PoolInv'
<1>1. SilentDeath(w)
  BY DEF RunFault, Crash, Redeliver, RunRaises, On, OneAtATime, PoolRequests
<1>2. /\ ~At(w, "idle") /\ EndRun(w) /\ status' = status
      /\ UNCHANGED <<poolVars, action, assigned, undecided, queue, session>>
  BY <1>1 DEF SilentDeath, busyFrame
<1>3. run[w].order \in Orders
  BY <1>2, RowOfRun
<1> QED
  BY <1>2, <1>3, RunStops

LEMMA PoolInvStep ==
  ASSUME TypeInv, OneAtATime, PoolInv, [Next]_vars
  PROVE  PoolInv'
<1>1. ASSUME NEW o \in Orders, RecoverStuck(o) PROVE FALSE
  BY <1>1 DEF RecoverStuck, PoolInv, OrderRows
<1>2. CASE UNCHANGED vars
  <2>1. /\ UNCHANGED <<poolVars, status, action, assigned, undecided, queue, run>>
        /\ session' = session
    BY <1>2 DEF vars, orderVars
  <2>2. SessionsKnow'
    BY <2>1 DEF PoolInv, SessionsKnow, TakesBack, UnderWay, Held, poolVars
  <2> QED
    BY <2>1, <2>2, ReadKeepsRest DEF PoolInv
<1> QED
  BY <1>1, <1>2, PlaceKeepsPool, DecideKeepsPool, ReadKeepsPool, CommitKeepsPool,
     RunKeepsPool, FaultKeepsPool, StartKeepsPool DEF Next

(* The asset of a provision order that is scheduled, under way, in use or   *)
(* can be retried is held for that order and no other, in every behaviour   *)
(* of one request at a time.  The hypothesis is met by the instance that    *)
(* TLC checks the invariant on.                                             *)
THEOREM ExclusiveCorrect ==
  ASSUME OneAtATime
  PROVE  Spec => []ExclusiveAssignment
<1>1. TypeInv /\ PoolInv /\ [Next]_vars => TypeInv' /\ PoolInv'
  BY TypeNext, PoolInvStep
<1>2. PoolInv => ExclusiveAssignment
  BY DEF PoolInv, KeptIsHeld, Keeps, Held, ExclusiveAssignment
<1>3. Init => TypeInv /\ PoolInv
  BY TypeInit, PoolInvInit
<1> QED
  BY <1>1, <1>2, <1>3, PTL DEF Spec

-----------------------------------------------------------------------------
(* The leaver.  Two things stand in its way in the code: a provision that   *)
(* goes on in another worker while the orders are revoked, and requests     *)
(* that overlap (a scheduled order is cancelled while Beat dispatches it).  *)
(* So the claims are about one worker and one request at a time, whose      *)
(* messages arrive once and whose steps do not fail, for types without a    *)
(* pool: any number of users, orders, approvals and departures.             *)

AccessRequests ==
  {"createImmediate", "apiActions", "createScheduled", "createForApproval", "approve",
   "scheduled", "portalCancel", "adminCancel", "change", "adminChange", "leaver",
   "certRevoke", "retry", "recover"}

OneByOne ==
  /\ Handlers \subseteq AccessRequests
  /\ \A s, t \in Sessions : s = t
  /\ \A w, x \in Workers : w = x
  /\ AssignmentModel = "capacity_pooled"

Grants(o) == action[o] # "delete"
Using == {"processing", "provisioned", "delivered"}

(* Nothing is assigned.                                                     *)
NoAssets ==
  /\ \A o \in Orders : assigned[o] = NoAsset
  /\ \A w \in Workers : run[w].asset = NoAsset
  /\ \A s \in Sessions : session[s].asset = NoAsset

(* An order that grants is run once, when it is dispatched, and not again.  *)
AccessRow(o) ==
  Grants(o) =>
    /\ status[o] \in Using \cup {"none", "pending_approval", "scheduled", "cancelled"}
    /\ o \in undecided => status[o] = "pending_approval"
    /\ queue[o] > 0 \/ (\E w \in Workers : run[w].order = o) => status[o] = "processing"
    /\ queue[o] <= 1
    /\ queue[o] > 0 => \A w \in Workers : run[w].order # o

AccessRows == \A o \in Orders : AccessRow(o) /\ status[o] # "failed"

(* A run that grants, of an order that has become a delete, is followed by  *)
(* the delete.                                                              *)
AccessRuns ==
  \A w \in Workers :
    /\ IF At(w, "idle") THEN run[w].order = NoOrder
       ELSE run[w].pc \in (IF run[w].action = "delete" THEN {"revoke", "runbook", "stamp"}
                           ELSE {"unlink", "grant", "log", "runbook", "guard", "stamp"})
    /\ At(w, "unlink") \/ At(w, "grant") \/ At(w, "log") => InGroupMode
    /\ \A o \in Orders : run[w].order = o /\ run[w].action # "delete" /\ ~Grants(o) => queue[o] > 0

AccessSessions ==
  \A s \in Sessions :
    LET r == session[s] IN
    /\ r.kind \in {"idle", "portalCancel", "adminCancel", "change", "adminChange", "leaver",
                   "certRevoke", "scheduled"}
    /\ r.kind \notin {"idle", "leaver"} =>
         r.order \in Orders /\ r.user = requester[r.order] /\ status[r.order] # "none"
    /\ r.kind = "scheduled" /\ Grants(r.order) => status[r.order] = "scheduled"
    /\ r.kind = "portalCancel" /\ Grants(r.order) =>
         status[r.order] \in (IF r.seen = "scheduled" THEN {"scheduled"}
                              ELSE {"provisioned", "delivered"})
    /\ r.kind = "leaver" => \A o \in r.many : requester[o] = r.user

(* An order of the user is in use, or a delete is on its way to the step    *)
(* that revokes.                                                            *)
InUse(u) == \E p \in Orders : requester[p] = u /\ Grants(p) /\ status[p] \in Using
Revoking(u) ==
  \E p \in Orders : /\ requester[p] = u /\ ~Grants(p)
                    /\ queue[p] > 0 \/ \E w \in Workers : run[w].order = p /\ At(w, "revoke")

GrantsAreKnown ==
  \A o \in Orders : grants[o] = "success" =>
    InGroupMode /\ (InUse(requester[o]) \/ Revoking(requester[o]))

(* The departures under way.                                                *)
Leaving(u, S) ==
  \E s \in Sessions : session[s].kind = "leaver" /\ session[s].user = u /\ session[s].many = S

GoneForGood ==
  \A u \in left, o \in Orders : requester[o] = u /\ status[o] # "none" =>
    /\ Grants(o) => status[o] = "cancelled" \/ \E S \in SUBSET Orders : Leaving(u, S) /\ o \in S
    /\ grants[o] = "success" => Revoking(u) \/ \E S \in SUBSET Orders : Leaving(u, S) /\ S # {}

LeaverInv ==
  /\ NoAssets /\ AccessRows /\ AccessRuns /\ AccessSessions /\ GrantsAreKnown /\ GoneForGood

-----------------------------------------------------------------------------
LEMMA LeaverInvInit == Init => LeaverInv
<1> SUFFICES ASSUME Init PROVE LeaverInv
  OBVIOUS
<1>1. NoAssets
  BY DEF Init, NoAssets, IdleRun, IdleSession
<1>2. AccessRows /\ AccessRuns
  BY NoOrderAssumption DEF Init, AccessRows, AccessRow, AccessRuns, IdleRun, At, Grants
<1>3. AccessSessions
  BY DEF Init, AccessSessions, IdleSession
<1>4. GrantsAreKnown /\ GoneForGood
  BY DEF Init, GrantsAreKnown, GoneForGood
<1> QED
  BY <1>1, <1>2, <1>3, <1>4 DEF LeaverInv

(* What most steps leave as it is: who asked for an order, a delete and its *)
(* way to the revocation, and that an order in use is, or is revoked.       *)
DeletesGoOn ==
  /\ SameRequester
  /\ \A p \in Orders : status[p] # "none" /\ ~Grants(p) => ~Grants(p)' /\ (queue[p] > 0 => queue'[p] > 0)
  /\ \A w \in Workers : At(w, "revoke") => run'[w] = run[w]

UsesGoOn ==
  \A p \in Orders : Grants(p) /\ status[p] \in Using =>
    \/ Grants(p)' /\ status'[p] \in Using
    \/ Revoking(requester[p])'

NoNewGrant == \A o \in Orders : grants'[o] = "success" => grants[o] = "success"

LEMMA RevokingStays ==
  ASSUME GateInv, DeletesGoOn, NEW u, Revoking(u)
  PROVE  Revoking(u)'
<1>1. PICK p \in Orders :
        /\ requester[p] = u /\ ~Grants(p)
        /\ queue[p] > 0 \/ \E w \in Workers : run[w].order = p /\ At(w, "revoke")
  BY DEF Revoking
<1>2. status[p] # "none"
  BY <1>1 DEF GateInv, OrdersExist
<1>3. requester'[p] = u /\ ~Grants(p)' /\ (queue[p] > 0 => queue'[p] > 0)
  BY <1>1, <1>2 DEF DeletesGoOn, SameRequester
<1>4. CASE queue[p] > 0
  BY <1>3, <1>4 DEF Revoking
<1>5. CASE \E w \in Workers : run[w].order = p /\ At(w, "revoke")
  BY <1>3, <1>5 DEF Revoking, DeletesGoOn, At
<1> QED
  BY <1>1, <1>4, <1>5

LEMMA KnownStays ==
  ASSUME GateInv, GrantsAreKnown, DeletesGoOn, UsesGoOn, NoNewGrant
  PROVE  GrantsAreKnown'
<1> SUFFICES ASSUME NEW o \in Orders, grants'[o] = "success", NEW u, u = requester[o]
             PROVE  InGroupMode /\ requester'[o] = u /\ (InUse(u)' \/ Revoking(u)')
  BY DEF GrantsAreKnown, InGroupMode
<1>1. grants[o] = "success" /\ status[o] # "none"
  BY DEF NoNewGrant, GateInv, OrdersExist
<1>2. InGroupMode /\ (InUse(u) \/ Revoking(u)) /\ requester'[o] = u
  BY <1>1 DEF GrantsAreKnown, DeletesGoOn, SameRequester
<1>3. CASE InUse(u)
  <2>1. PICK p \in Orders : requester[p] = u /\ Grants(p) /\ status[p] \in Using
    BY <1>3 DEF InUse
  <2>2. requester'[p] = u
    BY <2>1 DEF DeletesGoOn, SameRequester, Using
  <2> QED
    BY <1>2, <2>1, <2>2 DEF UsesGoOn, InUse
<1>4. CASE Revoking(u)
  BY <1>2, <1>4, RevokingStays
<1> QED
  BY <1>2, <1>3, <1>4

LEMMA GoneStays ==
  ASSUME GateInv, GoneForGood, DeletesGoOn, NoNewGrant, left' \subseteq left,
         \A o \in Orders : status[o] = "none" /\ status'[o] # "none" /\ Grants(o)'
                             => requester'[o] \notin left',
         \A o \in Orders : status[o] = "cancelled" => status'[o] = "cancelled" \/ ~Grants(o)',
         \A u \in left, S \in SUBSET Orders : Leaving(u, S) =>
           \/ Leaving(u, S)'
           \/ (\A o \in S : ~Grants(o)') /\ (S # {} => Revoking(u)')
  PROVE  GoneForGood'
<1> SUFFICES ASSUME NEW u \in left', NEW o \in Orders, requester'[o] = u, status'[o] # "none"
             PROVE  /\ Grants(o)' => \/ status'[o] = "cancelled"
                                     \/ \E S \in SUBSET Orders : Leaving(u, S)' /\ o \in S
                    /\ grants'[o] = "success" =>
                         Revoking(u)' \/ \E S \in SUBSET Orders : Leaving(u, S)' /\ S # {}
  BY DEF GoneForGood
<1>1. CASE status[o] = "none"
  <2>1. grants[o] # "success"
    BY <1>1 DEF GateInv, OrdersExist
  <2> QED
    BY <1>1, <2>1 DEF NoNewGrant
<1>2. CASE status[o] # "none"
  <2>1. requester[o] = u /\ u \in left /\ (Grants(o)' => Grants(o))
    BY <1>2 DEF DeletesGoOn, SameRequester
  <2>2. Grants(o)' => \/ status'[o] = "cancelled"
                      \/ \E S \in SUBSET Orders : Leaving(u, S)' /\ o \in S
    BY <1>2, <2>1 DEF GoneForGood
  <2>3. ASSUME grants'[o] = "success"
        PROVE  Revoking(u)' \/ \E S \in SUBSET Orders : Leaving(u, S)' /\ S # {}
    <3>1. Revoking(u) \/ \E S \in SUBSET Orders : Leaving(u, S) /\ S # {}
      BY <1>2, <2>1, <2>3 DEF GoneForGood, NoNewGrant
    <3>2. CASE Revoking(u)
      BY <3>2, RevokingStays
    <3>3. CASE \E S \in SUBSET Orders : Leaving(u, S) /\ S # {}
      BY <2>1, <3>3
    <3> QED
      BY <3>1, <3>2, <3>3
  <2> QED
    BY <2>2, <2>3
<1> QED
  BY <1>1, <1>2

-----------------------------------------------------------------------------
(* A request that writes one row, of an order that is there or a new one.   *)
OnlyRow(n) ==
  \A o \in Orders : o # n =>
    /\ status'[o] = status[o] /\ action'[o] = action[o] /\ requester'[o] = requester[o]
    /\ queue'[o] = queue[o] /\ (o \in undecided' => o \in undecided)

Answered(s) ==
  session[s].kind \notin {"idle", "leaver"} /\ session' = [session EXCEPT ![s] = IdleSession]

RowGoesOn(n) ==
  /\ status'[n] # "none" /\ requester'[n] = requester[n] /\ Grants(n)' = Grants(n)
  /\ queue[n] > 0 => queue'[n] > 0
  /\ Grants(n) /\ status[n] \in Using => status'[n] \in Using
  /\ status[n] = "cancelled" => status'[n] = "cancelled" \/ ~Grants(n)
  /\ session' = session /\ Grants(n) /\ status[n] \in {"scheduled", "provisioned", "delivered"}
       => status'[n] = status[n]

LEMMA NoOtherSession ==
  ASSUME OneByOne, TypeOK, NEW s \in Sessions, session' = [session EXCEPT ![s] = IdleSession]
  PROVE  \A t \in Sessions : session'[t] = IdleSession
BY DEF OneByOne, TypeOK

LEMMA RowWritten ==
  ASSUME OneByOne, GateInv, LeaverInv, NEW n \in Orders, OnlyRow(n),
         UNCHANGED <<run, grants>>, session' = session \/ \E s \in Sessions : Answered(s),
         \A o \in Orders : assigned'[o] = NoAsset, left' \subseteq left,
         AccessRow(n)', status'[n] # "failed",
         status[n] # "none" => RowGoesOn(n),
         status[n] = "none" /\ status'[n] # "none" /\ Grants(n)' => requester'[n] \notin left'
  PROVE  LeaverInv'
<1> USE DEF GateInv, LeaverInv
<1>1. \/ session' = session
      \/ \A s \in Sessions : session'[s] = IdleSession /\ session[s].kind # "leaver"
  <2>1. ASSUME NEW s \in Sessions, Answered(s)
        PROVE  \A t \in Sessions : session'[t] = IdleSession /\ session[t].kind # "leaver"
    BY <2>1, NoOtherSession DEF Answered, OneByOne, TypeInv
  <2> QED
    BY <2>1
<1>2. NoAssets'
  BY <1>1 DEF NoAssets, IdleSession
<1>3. AccessRows'
  <2>1. ASSUME NEW o \in Orders, o # n PROVE AccessRow(o)' /\ status'[o] # "failed"
    BY <2>1 DEF AccessRows, AccessRow, OnlyRow, Grants
  <2> QED
    BY <2>1 DEF AccessRows
<1>4. DeletesGoOn
  BY DEF DeletesGoOn, SameRequester, OnlyRow, RowGoesOn, Grants
<1>5. AccessRuns'
  <2>1. ASSUME NEW w \in Workers, NEW o \in Orders, run[w].order = o, run[w].action # "delete",
               ~Grants(o)'
        PROVE  queue'[o] > 0
    <3>1. status[o] # "none"
      BY <2>1 DEF OrdersExist
    <3>2. ~Grants(o)
      BY <2>1, <3>1 DEF OnlyRow, RowGoesOn, Grants
    <3> QED
      BY <2>1, <3>1, <3>2, <1>4 DEF AccessRuns, DeletesGoOn
  <2> QED
    BY <2>1 DEF AccessRuns, At, InGroupMode
<1>6. AccessSessions'
  <2>1. CASE session' = session
    <3>1. ASSUME NEW o \in Orders, status[o] # "none"
          PROVE  /\ status'[o] # "none" /\ requester'[o] = requester[o] /\ Grants(o)' = Grants(o)
                 /\ Grants(o) /\ status[o] \in {"scheduled", "provisioned", "delivered"}
                      => status'[o] = status[o]
      BY <2>1, <3>1 DEF OnlyRow, RowGoesOn, Grants
    <3>2. ASSUME NEW s \in Sessions, session[s].kind = "leaver", NEW o \in session[s].many
          PROVE  requester'[o] = session[s].user
      <4>1. o \in Orders /\ status[o] # "none"
        BY <3>2 DEF OrdersExist, TypeInv, TypeOK
      <4> QED
        BY <3>1, <3>2, <4>1 DEF AccessSessions
    <3> QED
      BY <2>1, <3>1, <3>2 DEF AccessSessions
  <2>2. CASE \A s \in Sessions : session'[s] = IdleSession
    BY <2>2 DEF AccessSessions, IdleSession
  <2> QED
    BY <1>1, <2>1, <2>2
<1>7. UsesGoOn
  BY DEF UsesGoOn, OnlyRow, RowGoesOn, Grants, Using
<1>8. NoNewGrant
  BY DEF NoNewGrant
<1>9. GrantsAreKnown'
  BY <1>4, <1>7, <1>8, KnownStays
<1>10. GoneForGood'
  <2>1. \A u \in left, S \in SUBSET Orders : Leaving(u, S) => Leaving(u, S)'
    BY <1>1 DEF Leaving
  <2>2. \A o \in Orders : status[o] = "none" /\ status'[o] # "none" /\ Grants(o)'
                             => requester'[o] \notin left'
    BY DEF OnlyRow
  <2>3. \A o \in Orders : status[o] = "cancelled" => status'[o] = "cancelled" \/ ~Grants(o)'
    BY DEF OnlyRow, RowGoesOn
  <2> QED
    BY <1>4, <1>8, <2>1, <2>2, <2>3, GoneStays
<1> QED
  BY <1>2, <1>3, <1>5, <1>6, <1>9, <1>10

LEMMA PublishAll ==
  ASSUME OneByOne, NEW S \in SUBSET Orders, Publish(S)
  PROVE  queue' = [o \in Orders |-> IF o \in S THEN queue[o] + 1 ELSE queue[o]]
<1>1. PICK lost \in SUBSET S :
        /\ lost # {} => On("lostPublish")
        /\ queue' = [o \in Orders |-> IF o \in S \ lost THEN queue[o] + 1 ELSE queue[o]]
  BY DEF Publish
<1>2. lost = {}
  BY <1>1 DEF OneByOne, AccessRequests, On
<1> QED
  BY <1>1, <1>2

LEMMA LeaverPlace ==
  ASSUME OneByOne, GateInv, LeaverInv, NEW n \in Orders, Place(n) \/ Decide(n) \/ RecoverStuck(n)
  PROVE  LeaverInv'
<1> USE DEF GateInv, LeaverInv
<1>1. /\ ~Personal /\ ~On("decline") /\ UNCHANGED <<run, grants, session>>
  BY DEF OneByOne, AccessRequests, Personal, On, Place, CreateImmediate, CreateForApproval,
     CreateScheduled, Decide, ApproveImmediate, ApproveScheduled, Decline, RecoverStuck, accessVars
<1>2. status[n] = "none" => /\ queue[n] = 0 /\ n \notin undecided
                            /\ \A w \in Workers : run[w].order # n
  BY DEF OrdersExist
<1>3. queue[n] \in Nat
  BY DEF TypeInv, TypeOK
<1>4. ASSUME NEW u \in Users, NEW act \in Actions, CreateImmediate(n, u, act)
      PROVE  LeaverInv'
  <2>1. queue' = [o \in Orders |-> IF o \in {n} THEN queue[o] + 1 ELSE queue[o]]
    BY <1>4, PublishAll DEF CreateImmediate
  <2>2. OnlyRow(n) /\ (\A o \in Orders : assigned'[o] = NoAsset) /\ left' \subseteq left
    BY <1>4, <2>1 DEF CreateImmediate, InsertOrder, OnlyRow, NoAssets, TypeInv, TypeOK
  <2>3. AccessRow(n)' /\ status'[n] # "failed"
    BY <1>1, <1>2, <1>4, <2>1 DEF CreateImmediate, InsertOrder, Fresh, AccessRow, TypeInv, TypeOK,
       Using
  <2>4. status[n] = "none" /\ requester'[n] \notin left'
    BY <1>4 DEF CreateImmediate, InsertOrder, Fresh, TypeInv, TypeOK
  <2> QED
    BY <1>1, <2>2, <2>3, <2>4, RowWritten
<1>5. ASSUME NEW u \in Users, CreateForApproval(n, u) \/ CreateScheduled(n, u)
      PROVE  LeaverInv'
  <2>1. OnlyRow(n) /\ (\A o \in Orders : assigned'[o] = NoAsset) /\ left' \subseteq left
    BY <1>1, <1>5 DEF CreateForApproval, CreateScheduled, InsertOrder, NoPublish, OnlyRow,
       NoAssets, TypeInv, TypeOK
  <2>2. AccessRow(n)' /\ status'[n] # "failed"
    BY <1>1, <1>2, <1>5 DEF CreateForApproval, CreateScheduled, InsertOrder, NoPublish, Fresh,
       AccessRow, TypeInv, TypeOK, Using
  <2>3. status[n] = "none" /\ requester'[n] \notin left'
    BY <1>1, <1>5 DEF CreateForApproval, CreateScheduled, InsertOrder, Fresh, TypeInv, TypeOK
  <2> QED
    BY <1>1, <2>1, <2>2, <2>3, RowWritten
<1>6. ASSUME ApproveImmediate(n)
      PROVE  LeaverInv'
  <2>1. queue' = [o \in Orders |-> IF o \in {n} THEN queue[o] + 1 ELSE queue[o]]
    BY <1>6, PublishAll DEF ApproveImmediate
  <2>2. OnlyRow(n) /\ (\A o \in Orders : assigned'[o] = NoAsset) /\ left' \subseteq left
    BY <1>6, <2>1 DEF ApproveImmediate, OnlyRow, NoAssets, TypeInv, TypeOK
  <2>3. status[n] # "none" /\ (Grants(n) => status[n] = "pending_approval")
    BY <1>6 DEF ApproveImmediate, AccessRows, AccessRow, OrdersExist
  <2>4. AccessRow(n)' /\ status'[n] # "failed"
    BY <1>1, <1>3, <1>6, <2>1, <2>3 DEF ApproveImmediate, AccessRows, AccessRow, Grants, TypeInv,
       TypeOK, Using
  <2>5. RowGoesOn(n)
    BY <1>1, <1>3, <1>6, <2>1, <2>3 DEF ApproveImmediate, RowGoesOn, Grants, TypeInv, TypeOK, Using
  <2> QED
    BY <1>1, <2>2, <2>3, <2>4, <2>5, RowWritten
<1>7. ASSUME ApproveScheduled(n)
      PROVE  LeaverInv'
  <2>1. OnlyRow(n) /\ (\A o \in Orders : assigned'[o] = NoAsset) /\ left' \subseteq left
    BY <1>1, <1>7 DEF ApproveScheduled, NoPublish, OnlyRow, NoAssets, TypeInv, TypeOK
  <2>2. status[n] # "none" /\ (Grants(n) => status[n] = "pending_approval")
    BY <1>7 DEF ApproveScheduled, AccessRows, AccessRow, OrdersExist
  <2>3. AccessRow(n)' /\ status'[n] # "failed"
    BY <1>1, <1>3, <1>7, <2>2 DEF ApproveScheduled, NoPublish, AccessRows, AccessRow, Grants,
       TypeInv, TypeOK, Using
  <2>4. RowGoesOn(n)
    BY <1>1, <1>3, <1>7, <2>2 DEF ApproveScheduled, NoPublish, RowGoesOn, Grants, TypeInv, TypeOK,
       Using
  <2> QED
    BY <1>1, <2>1, <2>2, <2>3, <2>4, RowWritten
<1>8. ASSUME RecoverStuck(n)
      PROVE  LeaverInv'
  <2>1. queue' = [o \in Orders |-> IF o \in {n} THEN queue[o] + 1 ELSE queue[o]]
    BY <1>8, PublishAll DEF RecoverStuck
  <2>2. OnlyRow(n) /\ (\A o \in Orders : assigned'[o] = NoAsset) /\ left' \subseteq left
    BY <1>8, <2>1 DEF RecoverStuck, OnlyRow, NoAssets, TypeInv, TypeOK, orderVars, historyVars
  <2>3. AccessRow(n)' /\ status'[n] # "failed"
    BY <1>8 DEF RecoverStuck, AccessRow, Grants, orderVars
  <2>4. status[n] # "none" /\ RowGoesOn(n)
    BY <1>1, <1>3, <1>8, <2>1 DEF RecoverStuck, RowGoesOn, Grants, orderVars
  <2> QED
    BY <1>1, <2>2, <2>3, <2>4, RowWritten DEF historyVars
<1> QED
  BY <1>1, <1>4, <1>5, <1>6, <1>7, <1>8 DEF Place, Decide, Decline

-----------------------------------------------------------------------------
(* Orders turned into deletes, by a review or by the leaver.                *)
LEMMA TurnedToDelete ==
  ASSUME OneByOne, GateInv, LeaverInv, NEW S \in SUBSET Orders, TurnToDelete(S),
         \A o \in S : status[o] # "none",
         NEW s \in Sessions, session[s].kind # "idle",
         session' = [session EXCEPT ![s] = IdleSession],
         session[s].kind = "leaver" => S = session[s].many
  PROVE  LeaverInv'
<1> USE DEF GateInv, LeaverInv
<1>1. queue' = [o \in Orders |-> IF o \in S THEN queue[o] + 1 ELSE queue[o]]
  BY PublishAll DEF TurnToDelete
<1>2. UNCHANGED <<assigned, requester, undecided, run, grants, left>>
  BY DEF TurnToDelete, accessVars, historyVars
<1>3. \A o \in Orders :
        /\ status'[o] = (IF o \in S THEN "revoking" ELSE status[o])
        /\ action'[o] = (IF o \in S THEN "delete" ELSE action[o])
        /\ queue[o] \in Nat /\ queue'[o] = (IF o \in S THEN queue[o] + 1 ELSE queue[o])
  BY <1>1 DEF TurnToDelete, TypeInv, TypeOK
<1>4. \A t \in Sessions : session'[t] = IdleSession
  BY NoOtherSession DEF TypeInv
<1>5. NoAssets'
  BY <1>2, <1>4 DEF NoAssets, IdleSession
<1>6. AccessRows'
  BY <1>2, <1>3 DEF AccessRows, AccessRow, Grants
<1>7. DeletesGoOn
  BY <1>2, <1>3 DEF DeletesGoOn, SameRequester, Grants
<1>8. ASSUME NEW u, NEW o \in S, requester[o] = u PROVE Revoking(u)'
  BY <1>2, <1>3, <1>8 DEF Revoking, Grants
<1>9. AccessRuns'
  BY <1>2, <1>3 DEF AccessRuns, At, Grants, InGroupMode
<1>10. AccessSessions'
  BY <1>4 DEF AccessSessions, IdleSession
<1>11. UsesGoOn
  <2>1. ASSUME NEW u, NEW p \in Orders, requester[p] = u, Grants(p), status[p] \in Using
        PROVE  (Grants(p)' /\ status'[p] \in Using) \/ Revoking(u)'
    BY <1>3, <1>8, <2>1 DEF Grants
  <2> QED
    BY <1>2, <2>1 DEF UsesGoOn
<1>12. NoNewGrant
  BY <1>2 DEF NoNewGrant
<1>13. GrantsAreKnown'
  BY <1>7, <1>11, <1>12, KnownStays
<1>14. GoneForGood'
  <2>1. ASSUME NEW u \in left, NEW M \in SUBSET Orders, Leaving(u, M)
        PROVE  (\A o \in M : ~Grants(o)') /\ (M # {} => Revoking(u)')
    <3>1. session[s].kind = "leaver" /\ session[s].user = u /\ M = session[s].many
      BY <2>1 DEF Leaving, OneByOne
    <3>2. \A o \in M : requester[o] = u
      BY <3>1 DEF AccessSessions
    <3> QED
      BY <1>3, <1>8, <3>1, <3>2 DEF Grants
  <2>2. \A o \in Orders : status[o] = "none" => status'[o] = "none"
    BY <1>3
  <2>3. \A o \in Orders : status[o] = "cancelled" => status'[o] = "cancelled" \/ ~Grants(o)'
    BY <1>3 DEF Grants
  <2> QED
    BY <1>2, <1>7, <1>12, <2>1, <2>2, <2>3, GoneStays
<1> QED
  BY <1>5, <1>6, <1>9, <1>10, <1>13, <1>14

(* The portal's cancellation of an order in use: a new order revokes it.    *)
LEMMA CancelledInUse ==
  ASSUME OneByOne, GateInv, LeaverInv, NEW s \in Sessions, NEW new \in Orders,
         PortalCancelActive(s, new)
  PROVE  LeaverInv'
<1> USE DEF GateInv, LeaverInv
<1>0. PICK o : o = session[s].order
  OBVIOUS
<1>1. /\ session[s].kind = "portalCancel" /\ session[s].seen # "scheduled"
      /\ session' = [session EXCEPT ![s] = IdleSession]
  BY DEF PortalCancelActive, Commits
<1>2. /\ o \in Orders /\ session[s].user = requester[o] /\ status[o] # "none" /\ new # o
      /\ Grants(o) => status[o] \in {"provisioned", "delivered"}
  BY <1>0, <1>1 DEF AccessSessions, PortalCancelActive, Fresh
<1>3. status[new] = "none" /\ session[s].asset = NoAsset
  BY DEF PortalCancelActive, Fresh, NoAssets
<1>4. queue' = [p \in Orders |-> IF p \in {new} THEN queue[p] + 1 ELSE queue[p]]
  BY PublishAll DEF PortalCancelActive
<1>5. UNCHANGED <<undecided, run, grants, left>>
  BY DEF PortalCancelActive, accessVars
<1>6. \A p \in Orders :
        /\ status'[p] = (IF p = o THEN "cancelled" ELSE IF p = new THEN "processing" ELSE status[p])
        /\ action'[p] = (IF p = new THEN "delete" ELSE action[p])
        /\ requester'[p] = (IF p = new THEN requester[o] ELSE requester[p])
        /\ assigned'[p] = (IF p = new THEN NoAsset ELSE assigned[p])
        /\ queue[p] \in Nat /\ queue'[p] = (IF p = new THEN queue[p] + 1 ELSE queue[p])
  BY <1>0, <1>2, <1>3, <1>4 DEF PortalCancelActive, TypeInv, TypeOK
<1>7. \A t \in Sessions : session'[t] = IdleSession
  BY <1>1, NoOtherSession DEF TypeInv
<1>8. \A t \in Sessions : session[t].kind # "leaver"
  BY <1>1 DEF OneByOne
<1>9. NoAssets'
  BY <1>5, <1>6, <1>7 DEF NoAssets, IdleSession
<1>10. AccessRows'
  BY <1>2, <1>5, <1>6 DEF AccessRows, AccessRow, Grants, Using
<1>11. DeletesGoOn
  BY <1>3, <1>5, <1>6 DEF DeletesGoOn, SameRequester, Grants
<1>12. AccessRuns'
  <2>1. \A w \in Workers : run[w].order # new
    BY <1>3 DEF OrdersExist
  <2> QED
    BY <1>5, <1>6, <2>1 DEF AccessRuns, At, Grants, InGroupMode
<1>13. AccessSessions'
  BY <1>7 DEF AccessSessions, IdleSession
<1>14. UsesGoOn
  <2>1. ASSUME NEW u, requester[o] = u PROVE Revoking(u)'
    BY <1>2, <1>3, <1>6, <2>1 DEF Revoking, Grants
  <2>2. ASSUME NEW p \in Orders, Grants(p), status[p] \in Using, NEW u, requester[p] = u
        PROVE  requester'[p] = u /\ ((Grants(p)' /\ status'[p] \in Using) \/ Revoking(u)')
    BY <1>3, <1>6, <2>1, <2>2 DEF Grants, Using
  <2> QED
    BY <2>2 DEF UsesGoOn
<1>15. NoNewGrant
  BY <1>5 DEF NoNewGrant
<1>16. GrantsAreKnown'
  BY <1>11, <1>14, <1>15, KnownStays
<1>17. GoneForGood'
  <2>1. \A u \in left, S \in SUBSET Orders : ~Leaving(u, S)
    BY <1>8 DEF Leaving
  <2>2. \A p \in Orders : status[p] = "none" /\ status'[p] # "none" /\ Grants(p)'
                             => requester'[p] \notin left'
    BY <1>2, <1>6 DEF Grants
  <2>3. \A p \in Orders : status[p] = "cancelled" => status'[p] = "cancelled" \/ ~Grants(p)'
    BY <1>3, <1>6 DEF Grants
  <2> QED
    BY <1>5, <1>11, <1>15, <2>1, <2>2, <2>3, GoneStays
<1> QED
  BY <1>9, <1>10, <1>12, <1>13, <1>16, <1>17

LEMMA LeaverCommits ==
  ASSUME OneByOne, GateInv, LeaverInv, NEW s \in Sessions, CommitRequest(s)
  PROVE  LeaverInv'
<1> USE DEF GateInv, LeaverInv
<1> DEFINE r == session[s]
<1>1. r.kind \notin {"retry", "orderDelete", "revokeAsset", "expiry"} /\ r.asset = NoAsset
  BY DEF AccessSessions, NoAssets
<1>2. \A o \in Orders : queue[o] \in Nat
  BY DEF TypeInv, TypeOK
<1>3. ASSUME PortalCancelScheduled(s)
      PROVE  LeaverInv'
  <2>1. r.kind = "portalCancel" /\ r.seen = "scheduled"
    BY <1>3 DEF PortalCancelScheduled, Commits
  <2>0. PICK n : n = r.order
    OBVIOUS
  <2>2. n \in Orders /\ status[n] # "none" /\ (Grants(n) => status[n] = "scheduled")
    BY <2>0, <2>1 DEF AccessSessions
  <2>3. UNCHANGED <<run, grants, left, assigned>> /\ Answered(s)
    BY <1>3, <2>1 DEF PortalCancelScheduled, Commits, Answered, accessVars, historyVars
  <2>4. OnlyRow(n)
    BY <1>3, <2>0, <2>2 DEF PortalCancelScheduled, OnlyRow, NoPublish, TypeInv, TypeOK
  <2>5. AccessRow(n)' /\ status'[n] # "failed"
    BY <1>3, <2>0, <2>2, <2>3 DEF PortalCancelScheduled, AccessRows, AccessRow, NoPublish, Grants, Using,
       TypeInv, TypeOK
  <2>6. RowGoesOn(n)
    <3>1. session' # session
      BY <2>1, <2>3 DEF Answered, IdleSession, TypeInv, TypeOK
    <3> QED
      BY <1>3, <2>0, <2>2, <3>1 DEF PortalCancelScheduled, RowGoesOn, NoPublish, Grants, Using,
         TypeInv, TypeOK
  <2> QED
    BY <2>2, <2>3, <2>4, <2>5, <2>6, RowWritten DEF NoAssets
<1>4. ASSUME ScheduledCommit(s)
      PROVE  LeaverInv'
  <2>1. r.kind = "scheduled"
    BY <1>4 DEF ScheduledCommit, Commits
  <2>0. PICK n : n = r.order
    OBVIOUS
  <2>2. n \in Orders /\ status[n] # "none" /\ (Grants(n) => status[n] = "scheduled")
    BY <2>0, <2>1 DEF AccessSessions
  <2>3. UNCHANGED <<run, grants, left, assigned>> /\ Answered(s)
    BY <1>4, <2>1 DEF ScheduledCommit, Commits, Answered, accessVars, historyVars
  <2>4. queue' = [o \in Orders |-> IF o \in {n} THEN queue[o] + 1 ELSE queue[o]]
    BY <1>4, <2>0, <2>2, PublishAll DEF ScheduledCommit
  <2>5. OnlyRow(n)
    BY <1>4, <2>0, <2>2, <2>4 DEF ScheduledCommit, OnlyRow, TypeInv, TypeOK
  <2>6. AccessRow(n)' /\ status'[n] # "failed"
    BY <1>2, <1>4, <2>0, <2>2, <2>3, <2>4 DEF ScheduledCommit, AccessRows, AccessRow, Grants, Using,
       TypeInv, TypeOK
  <2>7. RowGoesOn(n)
    <3>1. session' # session
      BY <2>1, <2>3 DEF Answered, IdleSession, TypeInv, TypeOK
    <3> QED
      BY <1>2, <1>4, <2>0, <2>2, <2>4, <3>1 DEF ScheduledCommit, RowGoesOn, Grants, Using,
         TypeInv, TypeOK
  <2> QED
    BY <2>2, <2>3, <2>5, <2>6, <2>7, RowWritten DEF NoAssets
<1>5. ASSUME NEW new \in Orders,
             AdminCancelCommit(s, new) \/ ChangeAtOnce(s, new) \/ ChangeForApproval(s, new)
      PROVE  LeaverInv'
  <2>1. r.kind \in {"adminCancel", "change", "adminChange"} /\ status[new] = "none"
    BY <1>5 DEF AdminCancelCommit, ChangeAtOnce, ChangeForApproval, Commits, Fresh
  <2>2. UNCHANGED <<run, grants>> /\ left' \subseteq left /\ Answered(s)
    BY <1>5, <2>1 DEF AdminCancelCommit, ChangeAtOnce, ChangeForApproval, Commits, Answered,
       accessVars
  <2>3. queue[new] = 0 /\ new \notin undecided /\ \A w \in Workers : run[w].order # new
    BY <2>1 DEF OrdersExist
  <2>4. CASE AdminCancelCommit(s, new) \/ ChangeAtOnce(s, new)
    <3>1. queue' = [o \in Orders |-> IF o \in {new} THEN queue[o] + 1 ELSE queue[o]]
      BY <2>4, PublishAll DEF AdminCancelCommit, ChangeAtOnce
    <3>2. OnlyRow(new) /\ \A o \in Orders : assigned'[o] = NoAsset
      BY <1>1, <2>4, <3>1 DEF AdminCancelCommit, ChangeAtOnce, InsertDeleteOrder, InsertOrder,
         OnlyRow, NoAssets, TypeInv, TypeOK
    <3>3. AccessRow(new)' /\ status'[new] # "failed"
      BY <2>2, <2>3, <2>4, <3>1 DEF AdminCancelCommit, ChangeAtOnce, InsertDeleteOrder, InsertOrder,
         AccessRow, Using, TypeInv, TypeOK
    <3>4. Grants(new)' => requester'[new] \notin left'
      BY <2>4 DEF AdminCancelCommit, ChangeAtOnce, InsertDeleteOrder, InsertOrder, Grants,
         TypeInv, TypeOK
    <3> QED
      BY <2>1, <2>2, <3>2, <3>3, <3>4, RowWritten
  <2>5. CASE ChangeForApproval(s, new)
    <3>1. OnlyRow(new) /\ \A o \in Orders : assigned'[o] = NoAsset
      BY <1>1, <2>5 DEF ChangeForApproval, NoPublish, InsertOrder, OnlyRow, NoAssets, TypeInv, TypeOK
    <3>2. AccessRow(new)' /\ status'[new] # "failed"
      BY <2>2, <2>3, <2>5 DEF ChangeForApproval, NoPublish, InsertOrder, AccessRow, Using,
         TypeInv, TypeOK
    <3>3. requester'[new] \notin left'
      BY <2>5 DEF ChangeForApproval, InsertOrder, TypeInv, TypeOK
    <3> QED
      BY <2>1, <2>2, <3>1, <3>2, <3>3, RowWritten
  <2> QED
    BY <1>5, <2>4, <2>5
<1>6. ASSUME CertRevokeCommit(s)
      PROVE  LeaverInv'
  <2>1. r.kind = "certRevoke" /\ session' = [session EXCEPT ![s] = IdleSession]
    BY <1>6 DEF CertRevokeCommit, Commits
  <2>2. r.order \in Orders /\ status[r.order] # "none"
    BY <2>1 DEF AccessSessions
  <2>3. PICK S : S = {r.order}
    OBVIOUS
  <2>4. TurnToDelete(S) /\ S \in SUBSET Orders /\ \A o \in S : status[o] # "none"
    BY <1>6, <2>2, <2>3 DEF CertRevokeCommit
  <2> QED
    BY <2>1, <2>4, TurnedToDelete
<1>7. ASSUME LeaverCommit(s)
      PROVE  LeaverInv'
  <2>1. r.kind = "leaver" /\ session' = [session EXCEPT ![s] = IdleSession]
    BY <1>7 DEF LeaverCommit, Commits
  <2>2. r.many \in SUBSET Orders /\ \A o \in r.many : status[o] # "none"
    BY DEF OrdersExist, TypeInv, TypeOK
  <2> QED
    BY <1>7, <2>1, <2>2, TurnedToDelete DEF LeaverCommit
<1> QED
  BY <1>1, <1>3, <1>4, <1>5, <1>6, <1>7, CancelledInUse
  DEF CommitRequest, OrderDeleteCommit, RetryCommit, RevokeAssetCommit, ExpiryCommit, Commits

-----------------------------------------------------------------------------
(* A request, or a job, that reads.                                         *)
LEMMA LeaverReads ==
  ASSUME OneByOne, GateInv, LeaverInv, NEW s \in Sessions, ReadRequest(s)
  PROVE  LeaverInv'
<1> USE DEF GateInv, LeaverInv
<1>1. ~On("orderDelete") /\ ~On("expiry") /\ ~On("revokeAsset")
  BY DEF OneByOne, AccessRequests, On
<1>2. \A o \in Orders : status[o] # "failed"
  BY DEF AccessRows
<1>3. UNCHANGED <<orderVars, undecided, grants, queue, run>> /\ session[s] = IdleSession
  BY <1>1 DEF ReadRequest, PortalCancelRead, AdminCancelRead, ChangeRead, AdminChangeRead,
     OrderDeleteRead, RetryRead, CertRevokeRead, ScheduledRead, Read, LeaverRead, RevokeAssetRead,
     ExpiryRead, Opens, accessVars, Loaded, IdleSession
<1>4. \A t \in Sessions : t = s
  BY DEF OneByOne
<1>5. AccessRows' /\ AccessRuns' /\ DeletesGoOn /\ UsesGoOn /\ NoNewGrant
  BY <1>3 DEF AccessRows, AccessRow, AccessRuns, At, Grants, InGroupMode, DeletesGoOn,
     SameRequester, UsesGoOn, NoNewGrant, orderVars
<1>6. GrantsAreKnown'
  BY <1>5, KnownStays
<1>7. CASE \E u \in Users : LeaverRead(s, u)
  <2>1. PICK u \in Users : LeaverRead(s, u)
    BY <1>7
  <2>0. PICK M : M = {o \in Orders : requester[o] = u /\ status[o] \in ActiveStatuses}
    OBVIOUS
  <2>2. /\ session'[s].kind = "leaver" /\ session'[s].user = u /\ session'[s].many = M
        /\ session'[s].asset = NoAsset /\ left' = left \cup {u}
    BY <2>0, <2>1 DEF LeaverRead, Opens, IdleSession, TypeInv, TypeOK
  <2>3. NoAssets' /\ AccessSessions'
    BY <1>3, <1>4, <2>0, <2>2 DEF NoAssets, AccessSessions, orderVars
  <2>4. ASSUME NEW v \in left', NEW o \in Orders, requester[o] = v, status[o] # "none"
        PROVE  /\ Grants(o) => \/ status[o] = "cancelled"
                               \/ \E S \in SUBSET Orders : Leaving(v, S)' /\ o \in S
               /\ grants[o] = "success" =>
                    Revoking(v) \/ \E S \in SUBSET Orders : Leaving(v, S)' /\ S # {}
    <3>1. CASE v = u
      <4>1. Leaving(u, M)'
        BY <2>2 DEF Leaving
      <4>2. Grants(o) => status[o] = "cancelled" \/ o \in M
        BY <2>0, <2>4, <3>1 DEF AccessRows, AccessRow, Using, ActiveStatuses
      <4>3. grants[o] = "success" => Revoking(v) \/ M # {}
        <5>1. ASSUME NEW p \in Orders, requester[p] = v, status[p] \in Using PROVE p \in M
          BY <2>0, <3>1, <5>1 DEF Using, ActiveStatuses
        <5> QED
          BY <2>4, <5>1 DEF GrantsAreKnown, InUse
      <4> QED
        BY <2>0, <3>1, <4>1, <4>2, <4>3
    <3>2. CASE v # u
      <4>1. v \in left /\ \A S \in SUBSET Orders : ~Leaving(v, S)
        BY <1>3, <1>4, <2>2, <3>2 DEF Leaving, IdleSession
      <4> QED
        BY <2>4, <4>1 DEF GoneForGood
    <3> QED
      BY <3>1, <3>2
  <2>5. \A v : Revoking(v) => Revoking(v)'
    BY <1>5, RevokingStays
  <2>6. GoneForGood'
    BY <1>3, <2>4, <2>5 DEF GoneForGood, Grants, orderVars
  <2> QED
    BY <1>5, <1>6, <2>3, <2>6
<1>8. CASE ~\E u \in Users : LeaverRead(s, u)
  <2>1. PICK o \in Orders :
          \/ PortalCancelRead(s, o) \/ AdminCancelRead(s, o) \/ ChangeRead(s, o)
          \/ AdminChangeRead(s, o) \/ CertRevokeRead(s, o) \/ ScheduledRead(s, o)
    BY <1>1, <1>2, <1>8 DEF ReadRequest, OrderDeleteRead, RetryRead, RevokeAssetRead, ExpiryRead,
       Read, Opens, Loaded, IdleSession
  <2>2. PICK k \in {"portalCancel", "adminCancel", "change", "adminChange", "certRevoke",
                    "scheduled"} :
          /\ Read(s, k, o) /\ status[o] # "none"
          /\ k = "portalCancel" => status[o] \in {"delivered", "provisioned", "scheduled"}
          /\ k = "scheduled" => status[o] = "scheduled"
    BY <2>1 DEF PortalCancelRead, AdminCancelRead, ChangeRead, AdminChangeRead, CertRevokeRead,
       ScheduledRead
  <2>3. /\ session'[s].kind = k /\ session'[s].order = o /\ session'[s].asset = assigned[o]
        /\ session'[s].seen = status[o] /\ session'[s].user = requester[o] /\ left' = left
    BY <2>2 DEF Read, Opens, Loaded, TypeInv, TypeOK
  <2>4. NoAssets'
    BY <1>3, <1>4, <2>3 DEF NoAssets, orderVars
  <2>5. AccessSessions'
    BY <1>3, <1>4, <2>2, <2>3 DEF AccessSessions, Grants, orderVars
  <2>6. \A u \in left, S \in SUBSET Orders : ~Leaving(u, S)
    BY <1>3, <1>4 DEF Leaving, IdleSession
  <2>7. \A p \in Orders : status'[p] = status[p]
    BY <1>3 DEF orderVars
  <2>8. GoneForGood'
    BY <1>5, <2>3, <2>6, <2>7, GoneStays
  <2> QED
    BY <1>5, <1>6, <2>4, <2>5, <2>8
<1> QED
  BY <1>7, <1>8

-----------------------------------------------------------------------------
(* The run.                                                                 *)
RowsStand ==
  UNCHANGED <<status, action, requester, assigned, undecided, queue, session, left>>

RunGoesTo(w, pc) ==
  \/ EndRun(w)
  \/ /\ Goto(w, pc)
     /\ pc \in (IF run[w].action = "delete" THEN {"runbook", "stamp"}
                ELSE {"grant", "log", "runbook", "guard", "stamp"})
     /\ pc \in {"grant", "log"} => InGroupMode

LEMMA RunKeepsRows ==
  ASSUME OneByOne, GateInv, LeaverInv, NEW w \in Workers, ~At(w, "idle"), RowsStand,
         NEW pc, RunGoesTo(w, pc)
  PROVE  NoAssets' /\ AccessRows' /\ AccessRuns' /\ AccessSessions'
<1> USE DEF GateInv, LeaverInv
<1>1. \A x \in Workers : x = w
  BY DEF OneByOne
<1>2. /\ run'[w].asset = NoAsset
      /\ run'[w].order \in {run[w].order, NoOrder}
      /\ IF run'[w].pc = "idle" THEN run'[w].order = NoOrder
         ELSE run'[w].pc \in (IF run'[w].action = "delete" THEN {"revoke", "runbook", "stamp"}
                              ELSE {"unlink", "grant", "log", "runbook", "guard", "stamp"})
      /\ run'[w].pc \in {"unlink", "grant", "log"} => InGroupMode
      /\ run'[w].order = NoOrder \/ run'[w].action = run[w].action
  BY DEF RunGoesTo, EndRun, Goto, IdleRun, NoAssets, TypeInv, TypeOK
<1>3. NoAssets' /\ AccessSessions'
  BY <1>1, <1>2 DEF NoAssets, AccessSessions, RowsStand, Grants
<1>4. AccessRows'
  <2>1. ASSUME NEW o \in Orders PROVE AccessRow(o)' /\ status'[o] # "failed"
    <3>1. NoOrder # o
      BY NoOrderAssumption
    <3> QED
      BY <1>1, <1>2, <3>1 DEF AccessRows, AccessRow, RowsStand, Grants
  <2> QED
    BY <2>1 DEF AccessRows
<1>5. AccessRuns'
  <2>1. \A o \in Orders : NoOrder # o
    BY NoOrderAssumption
  <2> QED
    BY <1>1, <1>2, <2>1 DEF AccessRuns, At, RowsStand, Grants, InGroupMode
<1> QED
  BY <1>3, <1>4, <1>5

(* A step that neither grants nor revokes a delete's grants.                *)
LEMMA RunPasses ==
  ASSUME OneByOne, GateInv, LeaverInv, NEW w \in Workers, ~At(w, "idle"), ~At(w, "revoke"),
         RowsStand, NoNewGrant, NEW pc, RunGoesTo(w, pc)
  PROVE  LeaverInv'
<1> USE DEF GateInv, LeaverInv
<1>1. DeletesGoOn /\ UsesGoOn
  BY DEF DeletesGoOn, UsesGoOn, SameRequester, RowsStand, Grants, OneByOne
<1>2. GrantsAreKnown'
  BY <1>1, KnownStays
<1>3. GoneForGood'
  <2>1. \A u \in left, S \in SUBSET Orders : Leaving(u, S) => Leaving(u, S)'
    BY DEF Leaving, RowsStand
  <2> QED
    BY <1>1, <2>1, GoneStays DEF RowsStand
<1> QED
  BY <1>2, <1>3, RunKeepsRows

(* A membership is recorded for an order in use, or ahead of its delete.    *)
LEMMA RunLogs ==
  ASSUME OneByOne, GateInv, LeaverInv, NEW w \in Workers, LogStep(w)
  PROVE  LeaverInv'
<1> USE DEF GateInv, LeaverInv
<1>0. PICK o : o = run[w].order
  OBVIOUS
<1>1. At(w, "log") /\ ~At(w, "idle") /\ ~At(w, "revoke") /\ RowsStand
  BY DEF LogStep, At, RowsStand, runFrame, historyVars
<1>2. /\ o \in Orders /\ InGroupMode /\ run[w].action # "delete" /\ status[o] # "none"
      /\ Grants(o) => status[o] = "processing"
      /\ ~Grants(o) => queue[o] > 0
  BY <1>0, <1>1 DEF AccessRuns, AccessRows, AccessRow, At, TypeInv, RunNamesOrder, OrdersExist
<1>3. grants' = [grants EXCEPT ![o] = "success"] /\ Goto(w, AfterGroup)
  BY <1>0 DEF LogStep, AfterGrant, NoAssets
<1>4. RunGoesTo(w, AfterGroup)
  BY <1>2, <1>3 DEF RunGoesTo, AfterGroup
<1>5. NoAssets' /\ AccessRows' /\ AccessRuns' /\ AccessSessions'
  BY <1>1, <1>4, RunKeepsRows
<1>6. DeletesGoOn
  BY <1>1 DEF DeletesGoOn, SameRequester, RowsStand, Grants, OneByOne
<1>7. \A u : (InUse(u) => InUse(u)') /\ (Revoking(u) => Revoking(u)')
  BY <1>1, <1>6, RevokingStays DEF InUse, RowsStand, Grants
<1>8. \A p \in Orders : grants'[p] = "success" => grants[p] = "success" \/ p = o
  BY <1>3 DEF TypeInv, TypeOK
<1>9. Grants(o) => InUse(requester[o])
  BY <1>2 DEF InUse, Using
<1>10. ~Grants(o) => Revoking(requester[o])
  BY <1>2 DEF Revoking
<1>11. GrantsAreKnown'
  <2>1. ASSUME NEW p \in Orders, grants'[p] = "success", NEW u, u = requester[p]
        PROVE  InGroupMode /\ (InUse(u)' \/ Revoking(u)')
    BY <1>2, <1>7, <1>8, <1>9, <1>10, <2>1 DEF GrantsAreKnown
  <2> QED
    BY <1>1, <2>1 DEF GrantsAreKnown, InGroupMode, RowsStand
<1>12. GoneForGood'
  <2>1. ASSUME NEW u \in left, NEW p \in Orders, requester[p] = u, status[p] # "none",
               grants'[p] = "success"
        PROVE  Revoking(u) \/ \E S \in SUBSET Orders : Leaving(u, S) /\ S # {}
    <3>1. CASE p = o /\ Grants(o)
      BY <1>2, <2>1, <3>1 DEF GoneForGood
    <3>2. CASE p = o /\ ~Grants(o)
      BY <1>10, <2>1, <3>2
    <3>3. CASE p # o
      BY <1>8, <2>1, <3>3 DEF GoneForGood
    <3> QED
      BY <3>1, <3>2, <3>3
  <2>2. \A u, S : Leaving(u, S) => Leaving(u, S)'
    BY <1>1 DEF Leaving, RowsStand
  <2>3. ASSUME NEW u \in left, NEW p \in Orders, requester[p] = u, status[p] # "none"
        PROVE  /\ Grants(p) => \/ status[p] = "cancelled"
                               \/ \E S \in SUBSET Orders : Leaving(u, S)' /\ p \in S
               /\ grants'[p] = "success" =>
                    Revoking(u)' \/ \E S \in SUBSET Orders : Leaving(u, S)' /\ S # {}
    BY <1>7, <2>1, <2>2, <2>3 DEF GoneForGood
  <2> QED
    BY <1>1, <2>3 DEF GoneForGood, RowsStand, Grants
<1> QED
  BY <1>5, <1>11, <1>12

(* The revocation leaves nothing of the user's: no other run goes on.       *)
LEMMA RunRevokes ==
  ASSUME OneByOne, GateInv, LeaverInv, NEW w \in Workers, RevokeStep(w)
  PROVE  LeaverInv'
<1> USE DEF GateInv, LeaverInv
<1>0. PICK u : u = requester[run[w].order]
  OBVIOUS
<1>1. ~On("targetFault")
  BY DEF OneByOne, AccessRequests, On
<1>2. /\ At(w, "revoke") /\ ~At(w, "idle")
      /\ RevokeGrants(u, {}) /\ Goto(w, AfterRevoke(run[w])) /\ UNCHANGED status
  BY <1>0, <1>1 DEF RevokeStep, At, RevokeGrants
<1>3. RowsStand
  BY <1>2 DEF RevokeStep, RowsStand, runFrame, historyVars
<1>4. AfterRevoke(run[w]) = AfterGroup /\ run[w].action = "delete"
  BY <1>2 DEF AfterRevoke, Personal, OneByOne, AccessRuns, At
<1>5. RunGoesTo(w, AfterGroup)
  BY <1>2, <1>4 DEF RunGoesTo, AfterGroup
<1>6. NoAssets' /\ AccessRows' /\ AccessRuns' /\ AccessSessions'
  BY <1>2, <1>3, <1>5, RunKeepsRows
<1>7. \A p \in Orders : grants'[p] = "success" => grants[p] = "success" /\ requester[p] # u
  BY <1>2 DEF RevokeGrants
<1>8. ASSUME NEW v, v # u, Revoking(v) PROVE Revoking(v)'
  <2>1. PICK p \in Orders :
          /\ requester[p] = v /\ ~Grants(p)
          /\ queue[p] > 0 \/ \E x \in Workers : run[x].order = p /\ At(x, "revoke")
    BY <1>8 DEF Revoking
  <2>2. queue[p] > 0
    BY <1>0, <1>8, <2>1 DEF OneByOne
  <2> QED
    BY <1>3, <2>1, <2>2 DEF Revoking, RowsStand, Grants
<1>9. GrantsAreKnown'
  <2>1. ASSUME NEW p \in Orders, grants'[p] = "success", NEW v, v = requester[p]
        PROVE  InGroupMode /\ (InUse(v)' \/ Revoking(v)')
    <3>1. v # u /\ InGroupMode /\ (InUse(v) \/ Revoking(v))
      BY <1>7, <2>1 DEF GrantsAreKnown
    <3>2. InUse(v) => InUse(v)'
      BY <1>3 DEF InUse, RowsStand, Grants
    <3> QED
      BY <1>8, <3>1, <3>2
  <2> QED
    BY <1>3, <2>1 DEF GrantsAreKnown, InGroupMode, RowsStand
<1>10. GoneForGood'
  <2>1. \A v, S : Leaving(v, S) => Leaving(v, S)'
    BY <1>3 DEF Leaving, RowsStand
  <2>2. ASSUME NEW v \in left, NEW p \in Orders, requester[p] = v, status[p] # "none"
        PROVE  /\ Grants(p) => \/ status[p] = "cancelled"
                               \/ \E S \in SUBSET Orders : Leaving(v, S)' /\ p \in S
               /\ grants'[p] = "success" =>
                    Revoking(v)' \/ \E S \in SUBSET Orders : Leaving(v, S)' /\ S # {}
    BY <1>7, <1>8, <2>1, <2>2 DEF GoneForGood
  <2> QED
    BY <1>3, <2>2 DEF GoneForGood, RowsStand, Grants
<1> QED
  BY <1>6, <1>9, <1>10

(* The final status.                                                        *)
LEMMA RunStamps ==
  ASSUME OneByOne, GateInv, LeaverInv, NEW w \in Workers, StampStep(w)
  PROVE  LeaverInv'
<1> USE DEF GateInv, LeaverInv
<1>0. PICK o : o = run[w].order
  OBVIOUS
<1>1. /\ At(w, "stamp") /\ o \in Orders /\ status[o] # "none"
      /\ Grants(o) => run[w].action # "delete" /\ status[o] = "processing" /\ queue[o] = 0
                     /\ o \notin undecided
  <2>1. At(w, "stamp") /\ o \in Orders /\ status[o] # "none" /\ queue[o] \in Nat
    BY <1>0 DEF StampStep, At, TypeInv, TypeOK, RunNamesOrder, OrdersExist
  <2>2. Grants(o) => run[w].action # "delete"
    BY <1>0, <2>1 DEF RunsMayRun, Deprovisions, Grants, At
  <2>3. Grants(o) => status[o] = "processing" /\ queue[o] <= 1 /\ ~(queue[o] > 0) /\ o \notin undecided
    BY <1>0, <2>1 DEF AccessRows, AccessRow
  <2> QED
    BY <2>1, <2>2, <2>3
<1>2. run' = [run EXCEPT ![w] = IdleRun] /\ \A x \in Workers : x = w
  BY DEF StampStep, AfterStamp, NoAssets, EndRun, OneByOne
<1>3. UNCHANGED <<action, requester, assigned, undecided, queue, session, left, grants>>
  BY DEF StampStep, runFrame, historyVars, accessVars
<1>4. \A p \in Orders : status'[p] = (IF p = o THEN FinalStatus(run[w].action) ELSE status[p])
  BY <1>0, <1>1 DEF StampStep, SetStatus, TypeInv, TypeOK
<1>5. /\ FinalStatus(run[w].action) \in {"provisioned", "revoked", "delivered"}
      /\ run[w].action # "delete" => FinalStatus(run[w].action) \in {"provisioned", "delivered"}
  BY DEF FinalStatus, TypeInv, TypeOK, Actions
<1>6. \A x \in Workers : run'[x] = IdleRun
  BY <1>2 DEF TypeInv, TypeOK
<1>7. NoAssets' /\ AccessRuns'
  BY <1>3, <1>6, NoOrderAssumption DEF NoAssets, AccessRuns, At, IdleRun
<1>8. AccessRows'
  <2>1. ASSUME NEW p \in Orders PROVE AccessRow(p)' /\ status'[p] # "failed"
    <3>1. CASE p = o
      <4>1. status'[p] \in {"provisioned", "revoked", "delivered"}
            /\ (Grants(p) => status'[p] \in {"provisioned", "delivered"})
        BY <1>1, <1>4, <1>5, <3>1
      <4>2. \A x \in Workers : run'[x].order # p
        BY <1>6, NoOrderAssumption DEF IdleRun
      <4> QED
        BY <1>1, <1>3, <3>1, <4>1, <4>2 DEF AccessRow, Grants, Using
    <3>2. CASE p # o
      BY <1>3, <1>4, <1>6, <3>2, NoOrderAssumption DEF AccessRows, AccessRow, Grants, IdleRun
    <3> QED
      BY <3>1, <3>2
  <2> QED
    BY <2>1 DEF AccessRows
<1>9. AccessSessions'
  BY <1>1, <1>3, <1>4, <1>5 DEF AccessSessions, Grants
<1>10. DeletesGoOn
  BY <1>1, <1>2, <1>3 DEF DeletesGoOn, SameRequester, Grants, At
<1>11. UsesGoOn
  BY <1>1, <1>3, <1>4, <1>5 DEF UsesGoOn, Grants, Using
<1>12. NoNewGrant
  BY <1>3 DEF NoNewGrant
<1>13. GrantsAreKnown'
  BY <1>10, <1>11, <1>12, KnownStays
<1>14. GoneForGood'
  <2>1. \A u \in left, S \in SUBSET Orders : Leaving(u, S) => Leaving(u, S)'
    BY <1>3 DEF Leaving
  <2>2. \A p \in Orders : status[p] = "none" => status'[p] = "none"
    BY <1>1, <1>4
  <2>3. \A p \in Orders : status[p] = "cancelled" => status'[p] = "cancelled" \/ ~Grants(p)'
    BY <1>1, <1>3, <1>4 DEF Grants
  <2> QED
    BY <1>3, <1>10, <1>12, <2>1, <2>2, <2>3, GoneStays
<1> QED
  BY <1>7, <1>8, <1>9, <1>13, <1>14

(* A worker takes a message: a delete's, and it goes to the revocation.     *)
LEMMA RunTaken ==
  ASSUME OneByOne, GateInv, LeaverInv, NEW w \in Workers, NEW o \in Orders, Start(w, o)
  PROVE  LeaverInv'
<1> USE DEF GateInv, LeaverInv
<1>1. /\ At(w, "idle") /\ queue[o] > 0 /\ ~Personal /\ \A x \in Workers : x = w
      /\ UNCHANGED <<status, action, requester, assigned, undecided, session, left, grants>>
  BY DEF Start, Personal, OneByOne, orderVars, accessVars, historyVars
<1>2. \A p \in Orders : /\ queue[p] \in Nat
                         /\ queue'[p] = (IF p = o THEN queue[p] - 1 ELSE queue[p])
  BY DEF Start, TypeInv, TypeOK
<1>3. /\ run'[w].order = o /\ run'[w].action = action[o] /\ run'[w].asset = NoAsset
      /\ run'[w].pc = FirstStep(action[o])
  BY DEF Start, NoAssets, TypeInv, TypeOK
<1>4. /\ FirstStep(action[o]) # "idle"
      /\ IF action[o] = "delete"
         THEN FirstStep(action[o]) = (IF InGroupMode THEN "revoke" ELSE "runbook")
         ELSE FirstStep(action[o]) \in (IF InGroupMode THEN {"unlink", "grant"} ELSE {"runbook"})
  <2>1. action[o] \in {"provision", "modify", "delete"}
    BY DEF TypeInv, TypeOK, Actions
  <2>2. CASE action[o] = "delete"
    BY <1>1, <2>2 DEF FirstStep
  <2>3. CASE action[o] = "provision"
    BY <1>1, <2>3 DEF FirstStep
  <2>4. CASE action[o] = "modify"
    BY <1>1, <2>4 DEF FirstStep
  <2> QED
    BY <2>1, <2>2, <2>3, <2>4
<1>5. \A p \in Orders : run[w].order # p
  BY <1>1, NoOrderAssumption DEF AccessRuns
<1>6. NoAssets' /\ AccessSessions'
  BY <1>1, <1>3 DEF NoAssets, AccessSessions, Grants
<1>7. AccessRows'
  <2>1. ASSUME NEW p \in Orders PROVE AccessRow(p)' /\ status'[p] # "failed"
    <3>1. AccessRow(p) /\ status[p] # "failed"
      BY DEF AccessRows
    <3>2. CASE p = o
      BY <1>1, <1>2, <1>3, <3>1, <3>2 DEF AccessRow, Grants
    <3>3. CASE p # o
      BY <1>1, <1>2, <1>3, <3>1, <3>3 DEF AccessRow, Grants
    <3> QED
      BY <3>2, <3>3
  <2> QED
    BY <2>1 DEF AccessRows
<1>8. AccessRuns'
  BY <1>1, <1>3, <1>4 DEF AccessRuns, At, Grants, InGroupMode
<1>9. ASSUME InGroupMode, NEW u, Revoking(u) PROVE Revoking(u)'
  <2>1. PICK p \in Orders : requester[p] = u /\ ~Grants(p) /\ queue[p] > 0
    BY <1>1, <1>9 DEF Revoking, At
  <2>2. CASE p = o
    BY <1>1, <1>3, <1>4, <1>9, <2>1, <2>2 DEF Revoking, Grants, At
  <2>3. CASE p # o
    BY <1>1, <1>2, <2>1, <2>3 DEF Revoking, Grants
  <2> QED
    BY <2>2, <2>3
<1>10. GrantsAreKnown'
  <2>1. ASSUME NEW p \in Orders, grants[p] = "success", NEW u, u = requester[p]
        PROVE  InGroupMode /\ (InUse(u)' \/ Revoking(u)')
    BY <1>1, <1>9, <2>1 DEF GrantsAreKnown, InUse, Grants
  <2> QED
    BY <1>1, <2>1 DEF GrantsAreKnown, InGroupMode
<1>11. GoneForGood'
  <2>1. \A v, S : Leaving(v, S) => Leaving(v, S)'
    BY <1>1 DEF Leaving
  <2>2. ASSUME NEW v \in left, NEW p \in Orders, requester[p] = v, status[p] # "none"
        PROVE  /\ Grants(p) => \/ status[p] = "cancelled"
                               \/ \E S \in SUBSET Orders : Leaving(v, S)' /\ p \in S
               /\ grants[p] = "success" =>
                    Revoking(v)' \/ \E S \in SUBSET Orders : Leaving(v, S)' /\ S # {}
    BY <1>9, <2>1, <2>2 DEF GoneForGood, GrantsAreKnown
  <2> QED
    BY <1>1, <2>2 DEF GoneForGood, Grants
<1> QED
  BY <1>6, <1>7, <1>8, <1>10, <1>11

LEMMA LeaverRuns ==
  ASSUME OneByOne, GateInv, LeaverInv, NEW w \in Workers,
         RunStep(w) \/ RunFault(w) \/ \E o \in Orders : Start(w, o)
  PROVE  LeaverInv'
<1> USE DEF GateInv, LeaverInv
<1>1. ~RunFault(w) /\ ~On("targetFault") /\ ~On("runbookFault") /\ ~On("poolModules")
  BY DEF RunFault, Crash, SilentDeath, Redeliver, RunRaises, OneByOne, AccessRequests, On
<1>2. /\ run[w].asset = NoAsset
      /\ run[w].pc \in {"idle", "unlink", "grant", "log", "runbook", "guard", "stamp", "revoke"}
      /\ run[w].pc \notin {"idle", "runbook", "stamp", "revoke"} => run[w].action # "delete"
      /\ run[w].pc \in {"unlink", "grant", "log"} => InGroupMode
  BY DEF NoAssets, AccessRuns, At
<1>3. ASSUME GrantStep(w)
      PROVE  LeaverInv'
  <2>1. At(w, "grant") /\ RowsStand /\ grants' = grants
    BY <1>1, <1>3 DEF GrantStep, RowsStand, runFrame, historyVars, accessVars
  <2>2. \E pc \in {"log", AfterGroup} : Goto(w, pc)
    BY <1>1, <1>2, <1>3 DEF GrantStep, AfterGrant
  <2>3. \E pc \in {"log", "runbook", "stamp"} : RunGoesTo(w, pc)
    BY <1>2, <2>1, <2>2 DEF RunGoesTo, AfterGroup, At
  <2> QED
    BY <2>1, <2>3, RunPasses DEF At, NoNewGrant
<1>4. ASSUME RunbookStep(w) \/ GuardStep(w)
      PROVE  LeaverInv'
  <2>1. run[w].pc \in {"runbook", "guard"} /\ RowsStand /\ grants' = grants
    BY <1>1, <1>4 DEF RunbookStep, GuardStep, RowsStand, runFrame, historyVars, accessVars, At
  <2>2. \E pc \in {"guard", "stamp"} : RunGoesTo(w, pc)
    BY <1>1, <1>2, <1>4 DEF RunbookStep, GuardStep, RunGoesTo, At
  <2> QED
    BY <2>1, <2>2, RunPasses DEF At, NoNewGrant
<1>5. ASSUME UnlinkStep(w)
      PROVE  LeaverInv'
  <2>1. At(w, "unlink") /\ RowsStand /\ NoNewGrant /\ Goto(w, "grant")
    BY <1>5 DEF UnlinkStep, RowsStand, runFrame, historyVars, RevokeGrants, NoNewGrant
  <2>2. RunGoesTo(w, "grant")
    BY <1>2, <2>1 DEF RunGoesTo, At
  <2> QED
    BY <2>1, <2>2, RunPasses DEF At
<1> QED
  BY <1>1, <1>2, <1>3, <1>4, <1>5, RunLogs, RunRevokes, RunStamps, RunTaken
  DEF RunStep, ReserveStep, BusyStep, ReleaseStep, ReinstallStep, PostReleaseStep, SweepStep, At

LEMMA LeaverStep == ASSUME OneByOne PROVE GateInv /\ LeaverInv /\ [Next]_vars => LeaverInv'
<1> SUFFICES ASSUME GateInv, LeaverInv, [Next]_vars PROVE LeaverInv'
  OBVIOUS
<1>1. CASE Next
  BY <1>1, LeaverPlace, LeaverReads, LeaverCommits, LeaverRuns DEF Next
<1>2. CASE UNCHANGED vars
  BY <1>2 DEF LeaverInv, vars, orderVars, accessVars, historyVars, NoAssets, AccessRows, AccessRow,
     AccessRuns, AccessSessions, GrantsAreKnown, GoneForGood, InUse, Revoking, Leaving, Grants, At,
     InGroupMode
<1> QED
  BY <1>1, <1>2

(* A departed user, everything about whom has come to an end, is in no      *)
(* group, and neither is one whose orders are all over: under one worker    *)
(* and one request at a time, for any number of users, orders, approvals,   *)
(* changes and departures.                                                  *)
THEOREM LeaverCorrect ==
  ASSUME OneByOne
  PROVE  Spec => [](LeaverLeavesNothing /\ RevokedUserIsOut)
<1> DEFINE Inv == GateInv /\ LeaverInv
<1>1. Init => Inv
  BY GateInit, LeaverInvInit
<1>2. Inv /\ [Next]_vars => Inv'
  BY GateStep, LeaverStep
<1>3. Inv /\ AccessIsLogged => LeaverLeavesNothing
  <2> SUFFICES ASSUME Inv, AccessIsLogged, NEW u \in left, Quiet(u), u \in member
               PROVE  FALSE
    BY DEF LeaverLeavesNothing
  <2>1. PICK o \in Orders :
          /\ requester[o] = u
          /\ grants[o] = "success" \/ \E w \in Workers : run[w].order = o /\ At(w, "log")
    BY DEF AccessIsLogged
  <2>2. grants[o] = "success" /\ status[o] # "none"
    BY <2>1 DEF Quiet, InFlight, GateInv, OrdersExist
  <2>3. Revoking(u) \/ \E S \in SUBSET Orders : Leaving(u, S)
    BY <2>1, <2>2 DEF LeaverInv, GoneForGood
  <2> QED
    BY <2>3 DEF Revoking, Leaving, Quiet, InFlight
<1>4. Inv /\ AccessIsLogged => RevokedUserIsOut
  <2> SUFFICES ASSUME Inv, AccessIsLogged, NEW o \in Orders, NEW u, u = requester[o], Quiet(u),
                      \A p \in Orders : requester[p] = u
                         => status[p] \notin ActiveStatuses \cup {"failed"},
                      u \in member
               PROVE  FALSE
    BY DEF RevokedUserIsOut
  <2>1. PICK p \in Orders :
          /\ requester[p] = u
          /\ grants[p] = "success" \/ \E w \in Workers : run[w].order = p /\ At(w, "log")
    BY DEF AccessIsLogged
  <2>2. grants[p] = "success"
    BY <2>1 DEF Quiet, InFlight
  <2>3. InUse(u) \/ Revoking(u)
    BY <2>1, <2>2 DEF LeaverInv, GrantsAreKnown
  <2>4. ~Revoking(u)
    BY DEF Revoking, Quiet, InFlight
  <2> QED
    BY <2>3, <2>4 DEF InUse, Using, ActiveStatuses
<1>5. RunsGoOn
  BY DEF OneByOne, AccessRequests, RunsGoOn
<1>6. Spec => []AccessIsLogged
  BY <1>5, AccessCorrect
<1> HIDE DEF Inv
<1> QED
  BY <1>1, <1>2, <1>3, <1>4, <1>6, PTL DEF Spec

(* The second half, for users who have not left: "revoked" is kept.         *)
THEOREM RevokedCorrect ==
  ASSUME OneByOne
  PROVE  Spec => []RevokedUserIsOut
<1>1. Spec => [](LeaverLeavesNothing /\ RevokedUserIsOut)
  BY LeaverCorrect
<1> QED
  BY <1>1, PTL
=============================================================================
