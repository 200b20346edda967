------------------------------ MODULE Accounts ------------------------------
(***************************************************************************)
(* One account and its sessions: login, lockout and validateSession        *)
(* (auth.service.ts), suspension and reactivation by an admin              *)
(* (PATCH /org/entities/:id), recovery from a lockout                      *)
(* (lockout-recovery.service.ts), one-time password links                  *)
(* (auth-setup-token.service.ts), the change of a password                 *)
(* (auth.routes.ts) and updates of the account's TAR (tar.ts).             *)
(*                                                                         *)
(* Each of these is a sequence of database calls, and between two of them  *)
(* any other may run or the process may die.  Of a password it matters     *)
(* whether it is still the account's; of a session row that is not ACTIVE, *)
(* only that.                                                              *)
(***************************************************************************)
EXTENDS Naturals

CONSTANTS
  Login,        \* calls of login and issueInternalSession; also session_ids
  Link,         \* one-time links
  ResetLink,    \* those of purpose PASSWORD_RESET; the others are ACTIVATION
  Redeem,       \* calls of redeemSetupToken
  Policy,       \* contents of the TAR, which tar_hash stands for
  NoLogin,      \* policies without can_login, or of a TAR that is not ACTIVE
  Lockout,      \* FAILED_AUTH_LOCKOUT
  MaxAttempts,  \* bound on failed_auth_attempts
  None          \* no link, no session, no policy

ASSUME LockoutAssumption ==
  Lockout \in Nat \ {0} /\ MaxAttempts \in Nat
ASSUME SubsetAssumption == ResetLink \subseteq Link /\ NoLogin \subseteq Policy
ASSUME NoneAssumption == None \notin Login \cup Link \cup Policy

VARIABLES
  entity,   \* status, failed_auth_attempts; history: who suspended it
  tar,      \* the policy of the TAR
  login,    \* the logins: the step, whether it verified the password of now,
            \* the policy in its token
  session,  \* the rows of sessions
  link,     \* the rows of auth_setup_tokens
  redeem,   \* the link each redeeming call has found open
  change,   \* the session whose change-password has verified the old password
  admin,    \* the PATCH of an admin
  clear,    \* clearLockoutSuspension
  recorded, \* the newest ENTITY_SUSPENDED audit row is a lockout's
  excused,  \* history: sessions that a suspension or new password could miss
  wiped,    \* history: the counter was reset under a lockout
  crossed   \* history: two mints of one purpose overlapped

vars == <<entity, tar, login, session, link, redeem, change, admin, clear,
          recorded, excused, wiped, crossed>>

LoginPc == {"idle", "count", "suspend", "kill", "record",
            "reset", "tar", "create", "nonce", "done"}

NoCall == [pc |-> "idle", current |-> FALSE, tar |-> None]

EntityState == [status: {"ACTIVE", "SUSPENDED"}, attempts: 0..MaxAttempts,
                by: {"nobody", "lockout", "admin"}]

LoginState == [pc: LoginPc, current: BOOLEAN, tar: Policy \cup {None}]

LinkRow == [status: {"none", "minting", "open", "used"}, old: SUBSET Link, redeemed: 0..2]

TypeOK ==
  /\ entity \in EntityState
  /\ tar \in Policy
  /\ login \in [Login -> LoginState]
  /\ session \in [Login -> {"none", "ACTIVE", "ended"}]
  /\ \A l \in Login : session[l] = "ACTIVE" =>
       login[l].pc \in {"nonce", "done"} /\ login[l].tar \in Policy
  /\ link \in [Link -> LinkRow]
  /\ redeem \in [Redeem -> Link \cup {None}]
  /\ change \in Login \cup {None}
  /\ admin \in {"idle", "kill"}
  /\ clear \in {"idle", "activate", "reset"}
  /\ excused \subseteq Login
  /\ {recorded, wiped, crossed} \subseteq BOOLEAN

Init ==
  /\ entity = [status |-> "ACTIVE", attempts |-> 0, by |-> "nobody"]
  /\ tar \in Policy \ NoLogin
  /\ login = [l \in Login |-> NoCall]
  /\ session = [l \in Login |-> "none"]
  /\ link = [k \in Link |-> [status |-> "none", old |-> {}, redeemed |-> 0]]
  /\ redeem = [r \in Redeem |-> None]
  /\ change = None
  /\ admin = "idle"
  /\ clear = "idle"
  /\ recorded = FALSE
  /\ excused = {}
  /\ wiped = FALSE
  /\ crossed = FALSE

-----------------------------------------------------------------------------
(***************************************************************************)
(* Shared steps.                                                           *)
(***************************************************************************)

Goto(l, pc) == login' = [login EXCEPT ![l].pc = pc]

Active == {l \in Login : session[l] = "ACTIVE"}

\* The updateMany of invalidateEntitySessions, of a redeemed reset link, of a
\* changed password and of a TAR update.
Invalidate(S) ==
  session' = [l \in Login |-> IF l \in S \cap Active THEN "ended" ELSE session[l]]

\* Logins that have passed the status check and the password and have no
\* session row yet.
InFlight == {l \in Login : login[l].pc \in {"reset", "tar", "create"}}

\* The counter is set to zero while a lockout needs it.
Wipes ==
  wiped' = (wiped \/ entity.status = "SUSPENDED"
                  \/ \E l \in Login : login[l].pc = "suspend")

Suspend(author) ==
  entity' = [entity EXCEPT !.status = "SUSPENDED", !.by = author]

Activate == entity' = [entity EXCEPT !.status = "ACTIVE", !.by = "nobody"]

\* What validateSession accepts: the row is ACTIVE, the token carries the hash
\* of the TAR as it is now, and the nonce has been set.
Valid(l) ==
  session[l] = "ACTIVE" /\ login[l].tar = tar /\ login[l].pc = "done"

-----------------------------------------------------------------------------
(***************************************************************************)
(* login.                                                                  *)
(***************************************************************************)

\* The row is read, a suspended account refused and the password verified
\* against the hash that was read.
LoginCheck(l) ==
  /\ login[l].pc = "idle"
  /\ entity.status = "ACTIVE"
  /\ \/ login' = [login EXCEPT ![l].pc = "reset", ![l].current = TRUE]
     \/ entity.attempts < MaxAttempts /\ Goto(l, "count")
  /\ UNCHANGED <<entity, tar, session, link, redeem, change, admin, clear,
                 recorded, excused, wiped, crossed>>

\* issueInternalSession asks for no password.
InternalCheck(l) ==
  /\ login[l].pc = "idle"
  /\ entity.status = "ACTIVE"
  /\ login' = [login EXCEPT ![l].pc = "tar", ![l].current = TRUE]
  /\ UNCHANGED <<entity, tar, session, link, redeem, change, admin, clear,
                 recorded, excused, wiped, crossed>>

\* Mutant: one failure too early.
LocksOneEarly(n) == n + 1 >= Lockout

Locks(n) == n >= Lockout

\* incrementFailedAuth, atomic, and the comparison of what it returns.
CountFailure(l) ==
  /\ login[l].pc = "count"
  /\ entity.attempts < MaxAttempts
  /\ entity' = [entity EXCEPT !.attempts = @ + 1]
  /\ Goto(l, IF Locks(entity.attempts + 1) THEN "suspend" ELSE "idle")
  /\ wiped' = (wiped /\ ~Locks(entity.attempts + 1))
  /\ UNCHANGED <<tar, session, link, redeem, change, admin, clear, recorded,
                 excused, crossed>>

LockSuspend(l) ==
  /\ login[l].pc = "suspend"
  /\ Suspend("lockout")
  /\ Goto(l, "kill")
  /\ excused' = excused \cup InFlight
  /\ UNCHANGED <<tar, session, link, redeem, change, admin, clear, recorded,
                 wiped, crossed>>

LockKill(l) ==
  /\ login[l].pc = "kill"
  /\ Invalidate(Login)
  /\ Goto(l, "record")
  /\ UNCHANGED <<entity, tar, link, redeem, change, admin, clear, recorded,
                 excused, wiped, crossed>>

LockRecord(l) ==
  /\ login[l].pc = "record"
  /\ recorded' = TRUE
  /\ Goto(l, "idle")
  /\ UNCHANGED <<entity, tar, session, link, redeem, change, admin, clear,
                 excused, wiped, crossed>>

\* Mutant: the token is made without the TAR.
LoginResetSkipsTar(l) ==
  /\ login[l].pc = "reset"
  /\ entity' = [entity EXCEPT !.attempts = 0]
  /\ Goto(l, "create")
  /\ Wipes
  /\ UNCHANGED <<tar, session, link, redeem, change, admin, clear, recorded,
                 excused, crossed>>

LoginReset(l) ==
  /\ login[l].pc = "reset"
  /\ entity' = [entity EXCEPT !.attempts = 0]
  /\ Goto(l, "tar")
  /\ Wipes
  /\ UNCHANGED <<tar, session, link, redeem, change, admin, clear, recorded,
                 excused, crossed>>

LoginTar(l) ==
  /\ login[l].pc = "tar"
  /\ login' = [login EXCEPT ![l] =
                  IF tar \in NoLogin THEN NoCall ELSE [@ EXCEPT !.pc = "create", !.tar = tar]]
  /\ UNCHANGED <<entity, tar, session, link, redeem, change, admin, clear,
                 recorded, excused, wiped, crossed>>

CreateSession(l) ==
  /\ login[l].pc = "create"
  /\ session' = [session EXCEPT ![l] = "ACTIVE"]
  /\ Goto(l, "nonce")
  /\ UNCHANGED <<entity, tar, link, redeem, change, admin, clear, recorded,
                 excused, wiped, crossed>>

SetNonce(l) ==
  /\ login[l].pc = "nonce"
  /\ Goto(l, "done")
  /\ UNCHANGED <<entity, tar, session, link, redeem, change, admin, clear,
                 recorded, excused, wiped, crossed>>

\* A call throws or the process dies; the user may try again, unless there is
\* a session row already.
LoginFails(l) ==
  /\ login[l].pc \notin {"idle", "nonce", "done"}
  /\ login' = [login EXCEPT ![l] = NoCall]
  /\ excused' = IF login[l].pc = "kill" THEN excused \cup Active ELSE excused
  /\ UNCHANGED <<entity, tar, session, link, redeem, change, admin, clear,
                 recorded, wiped, crossed>>

-----------------------------------------------------------------------------
(***************************************************************************)
(* The end of a session.                                                   *)
(***************************************************************************)

\* logout, and the idle timeout of validateSession: the row, then the nonce.
EndSession(l) ==
  /\ Valid(l)
  /\ session' = [session EXCEPT ![l] = "ended"]
  /\ UNCHANGED <<entity, tar, login, link, redeem, change, admin, clear,
                 recorded, excused, wiped, crossed>>

\* updateTARPermissions: policy, hash and sessions in one transaction.
UpdateTar ==
  /\ tar' \in Policy \ {tar}
  /\ Invalidate(Login)
  /\ UNCHANGED <<entity, login, link, redeem, change, admin, clear, recorded,
                 excused, wiped, crossed>>

-----------------------------------------------------------------------------
(***************************************************************************)
(* Suspension by an admin, and recovery from a lockout.                    *)
(***************************************************************************)

PatchSuspend ==
  /\ admin = "idle"
  /\ Suspend("admin")
  /\ admin' = "kill"
  /\ excused' = excused \cup InFlight
  /\ UNCHANGED <<tar, login, session, link, redeem, change, clear, recorded,
                 wiped, crossed>>

PatchKill ==
  /\ admin = "kill"
  /\ Invalidate(Login)
  /\ admin' = "idle"
  /\ UNCHANGED <<entity, tar, login, link, redeem, change, clear, recorded,
                 excused, wiped, crossed>>

PatchFails ==
  /\ admin = "kill"
  /\ admin' = "idle"
  /\ excused' = excused \cup Active
  /\ UNCHANGED <<entity, tar, login, session, link, redeem, change, clear,
                 recorded, wiped, crossed>>

\* Reactivation leaves the counter alone.
PatchReactivate ==
  /\ admin = "idle"
  /\ Activate
  /\ UNCHANGED <<tar, login, session, link, redeem, change, admin, clear,
                 recorded, excused, wiped, crossed>>

\* The proof of cause: status, counter, and the newest ENTITY_SUSPENDED row.
ClearCheck ==
  /\ clear = "idle"
  /\ entity.status = "SUSPENDED"
  /\ Locks(entity.attempts)
  /\ recorded
  /\ clear' = "activate"
  /\ UNCHANGED <<entity, tar, login, session, link, redeem, change, admin,
                 recorded, excused, wiped, crossed>>

ClearActivate ==
  /\ clear = "activate"
  /\ Activate
  /\ clear' = "reset"
  /\ UNCHANGED <<tar, login, session, link, redeem, change, admin, recorded,
                 excused, wiped, crossed>>

ClearReset ==
  /\ clear = "reset"
  /\ entity' = [entity EXCEPT !.attempts = 0]
  /\ clear' = "idle"
  /\ Wipes
  /\ UNCHANGED <<tar, login, session, link, redeem, change, admin, recorded,
                 excused, crossed>>

ClearFails ==
  /\ clear # "idle"
  /\ clear' = "idle"
  /\ UNCHANGED <<entity, tar, login, session, link, redeem, change, admin,
                 recorded, excused, wiped, crossed>>

-----------------------------------------------------------------------------
(***************************************************************************)
(* Passwords.                                                              *)
(***************************************************************************)

SamePurpose(k) == {j \in Link : (j \in ResetLink) = (k \in ResetLink)}

\* mintSetupToken, first statement: the open links of the purpose are
\* superseded; a link that another mint is creating is not seen.
MintBegin(k) ==
  /\ link[k].status = "none"
  /\ LET others == SamePurpose(k) \ {k} IN
       /\ link' = [link EXCEPT ![k].status = "minting",
                               ![k].old = {j \in others : link[j].status = "open"}]
       /\ crossed' = (crossed \/ \E j \in others : link[j].status = "minting")
  /\ UNCHANGED <<entity, tar, login, session, redeem, change, admin, clear,
                 recorded, excused, wiped>>

Minted(k) ==
  [j \in Link |->
     IF j = k THEN [link[j] EXCEPT !.status = "open", !.old = {}]
     ELSE IF j \in link[k].old THEN [link[j] EXCEPT !.status = "used"]
     ELSE link[j]]

\* Second statement and commit.
MintCommit(k) ==
  /\ link[k].status = "minting"
  /\ link' = Minted(k)
  /\ UNCHANGED <<entity, tar, login, session, redeem, change, admin, clear,
                 recorded, excused, wiped, crossed>>

RedeemCheck(r) ==
  /\ redeem[r] = None
  /\ \E k \in Link :
       link[k].status = "open" /\ redeem' = [redeem EXCEPT ![r] = k]
  /\ UNCHANGED <<entity, tar, login, session, link, change, admin, clear,
                 recorded, excused, wiped, crossed>>

\* Mutant: the claim does not look at used_at.
ClaimableAlways(k) == TRUE

Claimable(k) == link[k].status = "open"

NewPassword ==
  /\ entity' = [entity EXCEPT !.attempts = 0]
  /\ login' = [l \in Login |-> [login[l] EXCEPT !.current = FALSE]]
  /\ Wipes

\* Mutant: the sessions are left alone.
SessionsRedeemedNone(k) == {}

\* The sessions a redeemed link invalidates.
SessionsRedeemed(k) == IF k \in ResetLink THEN Login ELSE {}

\* redeemSetupToken's transaction: the claim, the password with the counter,
\* and for a reset the sessions.
RedeemClaim(r) ==
  /\ redeem[r] # None
  /\ Claimable(redeem[r])
  /\ link' = [link EXCEPT ![redeem[r]].status = "used", ![redeem[r]].redeemed = @ + 1]
  /\ NewPassword
  /\ Invalidate(SessionsRedeemed(redeem[r]))
  /\ excused' = excused \cup InFlight
                  \cup (IF redeem[r] \in ResetLink THEN {} ELSE Active)
  /\ redeem' = [redeem EXCEPT ![r] = None]
  /\ UNCHANGED <<tar, change, admin, clear, recorded, crossed>>

\* TOKEN_ALREADY_CLAIMED, or a crash before the transaction commits.
RedeemFails(r) ==
  /\ redeem[r] # None
  /\ redeem' = [redeem EXCEPT ![r] = None]
  /\ UNCHANGED <<entity, tar, login, session, link, change, admin, clear,
                 recorded, excused, wiped, crossed>>

\* change-password: the session is valid and the current password right.
ChangeCheck(l) ==
  /\ change = None
  /\ Valid(l)
  /\ change' = l
  /\ UNCHANGED <<entity, tar, login, session, link, redeem, admin, clear,
                 recorded, excused, wiped, crossed>>

\* The transaction: every other session dies, this one continues.
ChangeCommit ==
  /\ change # None
  /\ NewPassword
  /\ Invalidate(Login \ {change})
  /\ excused' = excused \cup InFlight \cup {change}
  /\ change' = None
  /\ UNCHANGED <<tar, link, redeem, admin, clear, recorded, crossed>>

ChangeFails ==
  /\ change # None
  /\ change' = None
  /\ UNCHANGED <<entity, tar, login, session, link, redeem, admin, clear,
                 recorded, excused, wiped, crossed>>

LoginStep(l) ==
  \/ LoginCheck(l) \/ InternalCheck(l)
  \/ CountFailure(l) \/ LockSuspend(l) \/ LockKill(l) \/ LockRecord(l)
  \/ LoginReset(l) \/ LoginTar(l) \/ CreateSession(l) \/ SetNonce(l)
  \/ LoginFails(l)

SessionStep(l) == EndSession(l) \/ ChangeCheck(l)

AdminStep ==
  \/ PatchSuspend \/ PatchKill \/ PatchFails \/ PatchReactivate
  \/ ClearCheck \/ ClearActivate \/ ClearReset \/ ClearFails

LinkStep(k) == MintBegin(k) \/ MintCommit(k)

RedeemStep(r) == RedeemCheck(r) \/ RedeemClaim(r) \/ RedeemFails(r)

Next ==
  \/ \E l \in Login : LoginStep(l) \/ SessionStep(l)
  \/ UpdateTar
  \/ AdminStep
  \/ \E k \in Link : LinkStep(k)
  \/ \E r \in Redeem : RedeemStep(r)
  \/ ChangeCommit \/ ChangeFails

Spec == Init /\ [][Next]_vars

-----------------------------------------------------------------------------
(***************************************************************************)
(* Properties.                                                             *)
(***************************************************************************)

\* Some call has suspended the account and not yet invalidated its sessions.
Suspending == admin = "kill" \/ \E l \in Login : login[l].pc = "kill"

\* A session that validateSession accepts was opened with the password of now,
\* and not on an account that is suspended, unless its login was past its
\* checks when the password changed or the account was suspended, the call
\* that should have invalidated it was cut off, or the policy spares it (the
\* session that changed the password; ACTIVATION links).
LiveSessionsCurrent ==
  \A l \in Login \ excused : Valid(l) =>
    /\ login[l].current
    /\ entity.status = "SUSPENDED" => Suspending

\* A lockout on record can be cleared by a platform operator: the counter, one
\* half of the proof clearLockoutSuspension asks for, is still there, unless a
\* login, a link, a change of password or another recovery reset it meanwhile.
LockoutClearable ==
  entity.status = "SUSPENDED" /\ entity.by = "lockout" /\ recorded /\ ~wiped =>
    entity.attempts >= Lockout

\* A link sets one password, and there is one open link of a purpose unless
\* two mints overlapped (redeemSetupToken, mintSetupToken).
LinkOnce ==
  /\ \A k \in Link : link[k].redeemed <= 1
  /\ crossed \/ \A j, k \in Link :
       link[j].status = "open" /\ link[k].status = "open" /\ j \in SamePurpose(k) => j = k
=============================================================================
