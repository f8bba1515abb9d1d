----------------------------- MODULE AdminLogin -----------------------------
(***************************************************************************)
(* Password checks of one active admin account: the lockout after failed   *)
(* logins, password changes, rotation.  Each request reads the row, awaits *)
(* and writes back the columns whose value it changed, computed from what  *)
(* it read.  Time counts in the lockout's unit.                            *)
(***************************************************************************)
EXTENDS Integers

CONSTANTS
  Browsers,      \* concurrent requests
  Threshold,     \* rbac.lockout_threshold, 0 = no lockout
  Window,        \* rbac.lockout_duration_minutes, longer than a request takes
  Rotation,      \* rbac.password_rotation_days, 0 = no rotation
  LoginHorizon   \* bound: time

ASSUME LoginAssumption ==
  /\ {Threshold, Window, Rotation, LoginHorizon} \subseteq Nat

VARIABLES
  failed,        \* failed_login_count
  lockedAt,      \* locked_at, Unlocked if null
  setAt,         \* password_set_at
  request,       \* by browser: the request between its read and its write
  signedIn,      \* by browser: "no", "yes", or "must_change" (rotation due)
  loginNow

loginVars == <<failed, lockedAt, setAt, request, signedIn, loginNow>>

Unlocked == -1
NoLoginRequest == [kind |-> "none"]
LoginKinds == {"right", "wrong", "change", "reset"}

LoginTypeOK ==
  /\ failed \in Nat
  /\ lockedAt \in {Unlocked} \cup 0..loginNow
  /\ setAt \in 0..loginNow /\ loginNow \in 0..LoginHorizon
  /\ signedIn \in [Browsers -> {"no", "yes", "must_change"}]

LoginInit ==
  /\ failed = 0 /\ lockedAt = Unlocked /\ setAt = 0
  /\ request = [b \in Browsers |-> NoLoginRequest]
  /\ signedIn = [b \in Browsers |-> "no"]
  /\ loginNow = 0

(* Mutant of IsLocked: the lock is not looked at.                           *)
NeverLocked(at, now) == FALSE

IsLocked(at, now) == at # Unlocked /\ now < at + Window

(* A login with the right or a wrong password, refused when the account is  *)
(* locked; the owner's password change; or a superadmin's reset.  A request *)
(* that fails earlier writes nothing, nor does a change whose current       *)
(* password is wrong: that is not counted.                                  *)
RequestRead(b, kind) ==
  /\ request[b] = NoLoginRequest
  /\ kind \in {"right", "wrong"} => ~IsLocked(lockedAt, loginNow)
  /\ kind = "change" => signedIn[b] # "no"
  /\ request' = [request EXCEPT ![b] =
                   [kind |-> kind, failed |-> failed, lockedAt |-> lockedAt, at |-> loginNow]]
  /\ UNCHANGED <<failed, lockedAt, setAt, signedIn, loginNow>>

(* A column is part of the UPDATE only when its value differs from the one  *)
(* read.                                                                    *)
Write(r, newFailed, newLock) ==
  /\ failed' = IF newFailed = r.failed THEN failed ELSE newFailed
  /\ lockedAt' = IF newLock = r.lockedAt THEN lockedAt ELSE newLock

Ends(b) ==
  /\ request' = [request EXCEPT ![b] = NoLoginRequest]
  /\ UNCHANGED loginNow

MustChange(at) == Rotation > 0 /\ at - setAt > Rotation

RecordSuccess(b) ==
  /\ request[b].kind = "right"
  /\ Write(request[b], 0, Unlocked)
  /\ signedIn' = [signedIn EXCEPT ![b] =
                    IF MustChange(request[b].at) THEN "must_change" ELSE "yes"]
  /\ UNCHANGED setAt
  /\ Ends(b)

(* The counter starts afresh when the lock that was read has run out.       *)
RecordFailure(b) ==
  LET r == request[b]
      count == (IF r.lockedAt # Unlocked THEN 0 ELSE r.failed) + 1
  IN /\ r.kind = "wrong"
     /\ IF Threshold = 0 THEN UNCHANGED <<failed, lockedAt>>
        ELSE Write(r, count, IF count >= Threshold THEN r.at ELSE Unlocked)
     /\ UNCHANGED <<setAt, signedIn>>
     /\ Ends(b)

RecordChange(b) ==
  /\ request[b].kind \in {"change", "reset"}
  /\ Write(request[b], 0, Unlocked)
  /\ setAt' = request[b].at
  /\ signedIn' = IF request[b].kind = "change" /\ signedIn[b] = "must_change"
                 THEN [signedIn EXCEPT ![b] = "yes"] ELSE signedIn
  /\ Ends(b)

LeaveSession(b) ==
  /\ signedIn[b] # "no" /\ signedIn' = [signedIn EXCEPT ![b] = "no"]
  /\ UNCHANGED <<failed, lockedAt, setAt, request, loginNow>>

(* A request takes less than the lockout window.                            *)
LoginTick ==
  /\ \A b \in Browsers : request[b] # NoLoginRequest => loginNow + 1 < request[b].at + Window
  /\ loginNow < LoginHorizon /\ loginNow' = loginNow + 1
  /\ UNCHANGED <<failed, lockedAt, setAt, request, signedIn>>

LoginNext ==
  \/ \E b \in Browsers :
       \/ \E kind \in LoginKinds : RequestRead(b, kind)
       \/ RecordSuccess(b)
       \/ RecordFailure(b)
       \/ RecordChange(b)
       \/ LeaveSession(b)
  \/ LoginTick

LoginSpec == LoginInit /\ [][LoginNext]_loginVars

-----------------------------------------------------------------------------
(* What a lock promises: no login before its window is over.                *)
LockInForce(at) == at # Unlocked /\ loginNow < at + Window

(* A lock in force is only lifted by a new password, or by a login that     *)
(* read an older lock which had already run out.                            *)
LockIsKept ==
  [][LockInForce(lockedAt) /\ loginNow' = loginNow /\ ~LockInForce(lockedAt') =>
       \E b \in Browsers :
         /\ request[b] # NoLoginRequest /\ request'[b] = NoLoginRequest
         /\ \/ request[b].kind \in {"change", "reset"}
            \/ request[b].lockedAt # Unlocked
               /\ request[b].at >= request[b].lockedAt + Window]_loginVars

=============================================================================
