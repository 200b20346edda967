--------------------------- MODULE AccountsProofs ---------------------------
(***************************************************************************)
(* Proofs about Accounts, for any number of logins, links and calls that   *)
(* redeem them, any policies and any lockout threshold.                    *)
(***************************************************************************)
EXTENDS AccountsInv, TLAPS

-----------------------------------------------------------------------------
(* The shared steps.                                                       *)

LEMMA GotoEffect ==
  ASSUME TypeOK, NEW l \in Login, NEW pc \in LoginPc, Goto(l, pc)
  PROVE  /\ login' \in [Login -> LoginState]
         /\ login'[l].pc = pc
         /\ \A x \in Login : x # l => login'[x] = login[x]
         /\ \A x \in Login : login'[x].current = login[x].current /\ login'[x].tar = login[x].tar
<1>1. login \in [Login -> LoginState] /\ login' = [login EXCEPT ![l].pc = pc]
  BY DEF Goto, TypeOK
<1>2. login[l] \in LoginState
  BY <1>1
<1>3. /\ login'[l] \in LoginState /\ login'[l].pc = pc
      /\ login'[l].current = login[l].current /\ login'[l].tar = login[l].tar
      /\ \A x \in Login : x # l => login'[x] = login[x]
      /\ login' = [x \in Login |-> login'[x]]
  BY <1>1, <1>2 DEF LoginState
<1> HIDE DEF LoginState
<1> QED
  BY <1>1, <1>3

LEMMA InvalidateEffect ==
  ASSUME TypeOK, NEW S, Invalidate(S)
  PROVE  /\ session' \in [Login -> {"none", "ACTIVE", "ended"}]
         /\ Active' = Active \ S
BY DEF TypeOK, Invalidate, Active

LEMMA EntityEffect ==
  ASSUME TypeOK
  PROVE  /\ \A author \in {"lockout", "admin"} : Suspend(author) =>
              /\ entity' \in EntityState /\ entity'.status = "SUSPENDED"
              /\ entity'.attempts = entity.attempts /\ entity'.by = author
         /\ Activate => entity' \in EntityState /\ entity'.status = "ACTIVE"
         /\ entity' = [entity EXCEPT !.attempts = 0] =>
              /\ entity' \in EntityState /\ entity'.attempts = 0
              /\ entity'.status = entity.status /\ entity'.by = entity.by
<1>1. entity \in EntityState /\ 0 \in 0..MaxAttempts
  BY LockoutAssumption DEF TypeOK
<1>2. ASSUME NEW author \in {"lockout", "admin"}, Suspend(author)
      PROVE  /\ entity' \in EntityState /\ entity'.status = "SUSPENDED"
             /\ entity'.attempts = entity.attempts /\ entity'.by = author
  BY <1>1, <1>2 DEF EntityState, Suspend
<1>3. ASSUME Activate
      PROVE  entity' \in EntityState /\ entity'.status = "ACTIVE"
  BY <1>1, <1>3 DEF EntityState, Activate
<1>4. ASSUME entity' = [entity EXCEPT !.attempts = 0]
      PROVE  /\ entity' \in EntityState /\ entity'.attempts = 0
             /\ entity'.status = entity.status /\ entity'.by = entity.by
  BY <1>1, <1>4 DEF EntityState
<1> QED
  BY <1>2, <1>3, <1>4

LEMMA PasswordEffect ==
  ASSUME TypeOK, NewPassword
  PROVE  /\ entity' = [entity EXCEPT !.attempts = 0] /\ Wipes
         /\ login' \in [Login -> LoginState]
         /\ \A x \in Login : login'[x].pc = login[x].pc /\ login'[x].tar = login[x].tar
<1>1. login \in [Login -> LoginState]
      /\ login' = [l \in Login |-> [login[l] EXCEPT !.current = FALSE]]
  BY DEF TypeOK, NewPassword
<1>2. ASSUME NEW x \in Login
      PROVE  /\ login'[x] \in LoginState
             /\ login'[x].pc = login[x].pc /\ login'[x].tar = login[x].tar
  BY <1>1 DEF LoginState
<1> HIDE DEF LoginState
<1> QED
  BY <1>1, <1>2 DEF NewPassword

-----------------------------------------------------------------------------
(* A step of a login.                                                      *)

LEMMA LoginTyped ==
  ASSUME TypeOK, NEW l \in Login
  PROVE  login[l] \in LoginState
BY DEF TypeOK

\* The steps that write the record of login as a whole.
LEMMA LoginRewritten ==
  ASSUME TypeOK, NEW l \in Login, NEW new \in LoginState, login' = [login EXCEPT ![l] = new]
  PROVE  /\ login' \in [Login -> LoginState] /\ login'[l] = new
         /\ \A x \in Login : x # l => login'[x] = login[x]
BY DEF TypeOK

\* A step of a login moves that login only, along the steps of login.
LEMMA LoginEffect ==
  ASSUME TypeOK, NEW l \in Login, LoginStep(l)
  PROVE  /\ login' \in [Login -> LoginState]
         /\ \A x \in Login : x # l => login'[x] = login[x]
         /\ tar' = tar /\ link' = link /\ redeem' = redeem /\ change' = change /\ admin' = admin
         /\ clear' = clear /\ crossed' = crossed
         /\ \/ /\ LoginCheck(l) \/ InternalCheck(l)
               /\ login[l].pc = "idle" /\ entity.status = "ACTIVE"
               /\ \/ login'[l].pc \in {"reset", "tar"} /\ login'[l].current
                  \/ login'[l].pc = "count"
            \/ CountFailure(l) /\ login[l].pc = "count" /\ login'[l].pc \in {"suspend", "idle"}
            \/ LockSuspend(l) /\ login[l].pc = "suspend" /\ login'[l].pc = "kill"
            \/ LockKill(l) /\ login[l].pc = "kill" /\ login'[l].pc = "record"
            \/ LockRecord(l) /\ login[l].pc = "record" /\ login'[l].pc = "idle"
            \/ /\ LoginReset(l) /\ login[l].pc = "reset" /\ login'[l].pc = "tar"
               /\ login'[l].current = login[l].current
            \/ /\ LoginTar(l) /\ login[l].pc = "tar"
               /\ \/ login'[l].pc = "idle"
                  \/ /\ login'[l].pc = "create" /\ login'[l].tar \in Policy
                     /\ login'[l].current = login[l].current
            \/ /\ CreateSession(l) /\ login[l].pc = "create" /\ login'[l].pc = "nonce"
               /\ login'[l].current = login[l].current /\ login'[l].tar = login[l].tar
            \/ /\ SetNonce(l) /\ login[l].pc = "nonce" /\ login'[l].pc = "done"
               /\ login'[l].current = login[l].current /\ login'[l].tar = login[l].tar
            \/ /\ LoginFails(l) /\ login[l].pc \notin {"idle", "nonce", "done"}
               /\ login'[l].pc = "idle"
<1>r. /\ tar' = tar /\ link' = link /\ redeem' = redeem /\ change' = change /\ admin' = admin
      /\ clear' = clear /\ crossed' = crossed
  BY DEF LoginStep, LoginCheck, InternalCheck, CountFailure, LockSuspend, LockKill, LockRecord,
     LoginReset, LoginTar, CreateSession, SetNonce, LoginFails
<1>p. {"idle", "count", "suspend", "kill", "record", "reset", "tar", "create", "nonce", "done"}
        \subseteq LoginPc
  BY DEF LoginPc
<1>n. NoCall \in LoginState /\ NoCall.pc = "idle"
  BY DEF NoCall, LoginState, LoginPc
<1>1. CASE LoginCheck(l) \/ InternalCheck(l)
  <2>1. login[l].pc = "idle" /\ entity.status = "ACTIVE"
    BY <1>1 DEF LoginCheck, InternalCheck
  <2>2. CASE Goto(l, "count")
    BY <1>1, <1>r, <1>p, <2>1, <2>2, GotoEffect
  <2>3. ASSUME NEW pc \in {"reset", "tar"},
               login' = [login EXCEPT ![l].pc = pc, ![l].current = TRUE]
        PROVE  /\ login' \in [Login -> LoginState]
               /\ \A x \in Login : x # l => login'[x] = login[x]
               /\ login'[l].pc = pc /\ login'[l].current
    <3>1. login[l] \in LoginState /\ login \in [Login -> LoginState]
      BY LoginTyped DEF TypeOK
    <3>2. /\ login'[l] \in LoginState /\ login'[l].pc = pc /\ login'[l].current
          /\ \A x \in Login : x # l => login'[x] = login[x]
          /\ login' = [x \in Login |-> login'[x]]
      BY <1>p, <2>3, <3>1 DEF LoginState
    <3> HIDE DEF LoginState
    <3> QED
      BY <3>1, <3>2
  <2>4. \/ Goto(l, "count")
        \/ login' = [login EXCEPT ![l].pc = "reset", ![l].current = TRUE]
        \/ login' = [login EXCEPT ![l].pc = "tar", ![l].current = TRUE]
    BY <1>1 DEF LoginCheck, InternalCheck
  <2> QED
    BY <1>1, <1>r, <2>1, <2>2, <2>3, <2>4
<1>2. CASE CountFailure(l)
  <2>1. login[l].pc = "count" /\ (Goto(l, "suspend") \/ Goto(l, "idle"))
    BY <1>2 DEF CountFailure
  <2> QED
    BY <1>2, <1>r, <1>p, <2>1, GotoEffect
<1>3. CASE LockSuspend(l)
  <2>1. login[l].pc = "suspend" /\ Goto(l, "kill")
    BY <1>3 DEF LockSuspend
  <2> QED
    BY <1>3, <1>r, <1>p, <2>1, GotoEffect
<1>4. CASE LockKill(l)
  <2>1. login[l].pc = "kill" /\ Goto(l, "record")
    BY <1>4 DEF LockKill
  <2> QED
    BY <1>4, <1>r, <1>p, <2>1, GotoEffect
<1>5. CASE LockRecord(l)
  <2>1. login[l].pc = "record" /\ Goto(l, "idle")
    BY <1>5 DEF LockRecord
  <2> QED
    BY <1>5, <1>r, <1>p, <2>1, GotoEffect
<1>6. CASE LoginReset(l)
  <2>1. login[l].pc = "reset" /\ Goto(l, "tar")
    BY <1>6 DEF LoginReset
  <2> QED
    BY <1>6, <1>r, <1>p, <2>1, GotoEffect
<1>7. CASE LoginTar(l)
  <2> DEFINE new == IF tar \in NoLogin THEN NoCall
                    ELSE [login[l] EXCEPT !.pc = "create", !.tar = tar]
  <2>1. /\ new \in LoginState
        /\ \/ new.pc = "idle"
           \/ /\ new.pc = "create" /\ new.tar \in Policy /\ new.current = login[l].current
    BY <1>n, <1>p, LoginTyped DEF LoginState, TypeOK
  <2>2. login[l].pc = "tar" /\ login' = [login EXCEPT ![l] = new]
    BY <1>7 DEF LoginTar, TypeOK
  <2> HIDE DEF new
  <2> QED
    BY <1>7, <1>r, <2>1, <2>2, LoginRewritten
<1>8. CASE CreateSession(l)
  <2>1. login[l].pc = "create" /\ Goto(l, "nonce")
    BY <1>8 DEF CreateSession
  <2> QED
    BY <1>8, <1>r, <1>p, <2>1, GotoEffect
<1>9. CASE SetNonce(l)
  <2>1. login[l].pc = "nonce" /\ Goto(l, "done")
    BY <1>9 DEF SetNonce
  <2> QED
    BY <1>9, <1>r, <1>p, <2>1, GotoEffect
<1>10. CASE LoginFails(l)
  <2>1. login[l].pc \notin {"idle", "nonce", "done"} /\ login' = [login EXCEPT ![l] = NoCall]
    BY <1>10 DEF LoginFails
  <2> QED
    BY <1>10, <1>n, <1>r, <2>1, LoginRewritten
<1> QED
  BY <1>1, <1>2, <1>3, <1>4, <1>5, <1>6, <1>7, <1>8, <1>9, <1>10 DEF LoginStep

-----------------------------------------------------------------------------
(* What a step leaves alone.                                               *)

\* Who moves the logins.
LEMMA LoginStable ==
  ASSUME TypeOK, [Next]_vars
  PROVE  \/ login' = login /\ UNCHANGED session
         \/ login' = login /\ \E l \in Login : EndSession(l)
         \/ login' = login /\ (UpdateTar \/ PatchKill)
         \/ \E l \in Login : LoginStep(l)
         \/ \E r \in Redeem : RedeemClaim(r)
         \/ ChangeCommit
BY DEF Next, vars, SessionStep, ChangeCheck, EndSession, UpdateTar, AdminStep, PatchSuspend,
   PatchKill, PatchFails, PatchReactivate, ClearCheck, ClearActivate, ClearReset, ClearFails,
   LinkStep, MintBegin, MintCommit, RedeemStep, RedeemCheck, RedeemFails, ChangeFails

\* Who moves the links.
LEMMA LinkStable ==
  ASSUME TypeOK, [Next]_vars
  PROVE  \/ link' = link /\ crossed' = crossed
         \/ \E k \in Link : LinkStep(k)
         \/ \E r \in Redeem : RedeemClaim(r)
<1>1. \A l \in Login : LoginStep(l) => link' = link /\ crossed' = crossed
  BY LoginEffect
<1> QED
  BY <1>1 DEF Next, vars, SessionStep, ChangeCheck, EndSession, UpdateTar, AdminStep, PatchSuspend,
     PatchKill, PatchFails, PatchReactivate, ClearCheck, ClearActivate, ClearReset, ClearFails,
     RedeemStep, RedeemCheck, RedeemFails, ChangeCommit, ChangeFails

LEMMA LinkTyped ==
  ASSUME TypeOK, NEW k \in Link
  PROVE  link[k] \in LinkRow
BY DEF TypeOK

LEMMA MintBeginEffect ==
  ASSUME TypeOK, NEW k \in Link, MintBegin(k)
  PROVE  /\ link' \in [Link -> LinkRow]
         /\ link[k].status = "none" /\ link'[k].status = "minting"
         /\ link'[k].redeemed = link[k].redeemed
         /\ link'[k].old = {j \in SamePurpose(k) \ {k} : link[j].status = "open"}
         /\ \A j \in Link : j # k => link'[j] = link[j]
<1> DEFINE old == {j \in SamePurpose(k) \ {k} : link[j].status = "open"}
<1>1. /\ link[k].status = "none" /\ old \subseteq Link
      /\ link' = [link EXCEPT ![k].status = "minting", ![k].old = old]
  BY DEF MintBegin, SamePurpose
<1>2. link \in [Link -> LinkRow] /\ link[k] \in LinkRow
  BY LinkTyped DEF TypeOK
<1> HIDE DEF old
<1>3. /\ link'[k] \in LinkRow /\ link'[k].status = "minting" /\ link'[k].old = old
      /\ link'[k].redeemed = link[k].redeemed
      /\ \A j \in Link : j # k => link'[j] = link[j]
      /\ link' = [j \in Link |-> link'[j]]
  BY <1>1, <1>2 DEF LinkRow
<1> HIDE DEF LinkRow
<1>4. link' \in [Link -> LinkRow]
  BY <1>2, <1>3
<1> QED
  BY <1>1, <1>3, <1>4 DEF old

LEMMA MintCommitEffect ==
  ASSUME TypeOK, NEW k \in Link, MintCommit(k)
  PROVE  /\ link' \in [Link -> LinkRow]
         /\ link[k].status = "minting" /\ link'[k].status = "open"
         /\ crossed' = crossed
         /\ \A j \in Link : link'[j].redeemed = link[j].redeemed
         /\ \A j \in Link : j # k =>
              link'[j] = link[j] \/ (link'[j].status = "used" /\ j \in link[k].old)
         /\ \A j \in link[k].old : j # k => link'[j].status = "used"
<1>1. link' = Minted(k) /\ link[k].status = "minting" /\ crossed' = crossed
  BY DEF MintCommit
<1>2. ASSUME NEW j \in Link
      PROVE  /\ link'[j] \in LinkRow /\ link'[j].redeemed = link[j].redeemed
             /\ j = k => link'[j].status = "open"
             /\ j # k => link'[j] = link[j] \/ (link'[j].status = "used" /\ j \in link[k].old)
             /\ j # k /\ j \in link[k].old => link'[j].status = "used"
  <2>1. link[j] \in LinkRow /\ link[k] \in LinkRow
    BY LinkTyped
  <2>2. link'[j] = IF j = k THEN [link[j] EXCEPT !.status = "open", !.old = {}]
                   ELSE IF j \in link[k].old THEN [link[j] EXCEPT !.status = "used"]
                   ELSE link[j]
    BY <1>1 DEF Minted
  <2>3. CASE j = k
    <3>1. link'[k] = [link[k] EXCEPT !.status = "open", !.old = {}]
      BY <2>2, <2>3
    <3>2. link'[k] \in LinkRow /\ link'[k].status = "open" /\ link'[k].redeemed = link[k].redeemed
      BY <2>1, <3>1 DEF LinkRow
    <3> QED
      BY <2>3, <3>2
  <2>4. CASE j # k /\ j \in link[k].old
    <3>1. link'[j] = [link[j] EXCEPT !.status = "used"]
      BY <2>2, <2>4
    <3>2. link'[j] \in LinkRow /\ link'[j].status = "used" /\ link'[j].redeemed = link[j].redeemed
      BY <2>1, <3>1 DEF LinkRow
    <3> QED
      BY <2>4, <3>2
  <2>5. CASE j # k /\ j \notin link[k].old
    BY <2>1, <2>2, <2>5
  <2> QED
    BY <2>3, <2>4, <2>5
<1>3. link' = [j \in Link |-> link'[j]]
  BY <1>1 DEF Minted
<1>4. link[k].old \subseteq Link
  BY LinkTyped DEF LinkRow
<1> HIDE DEF LinkRow
<1> QED
  BY <1>1, <1>2, <1>3, <1>4

LEMMA RedeemClaimEffect ==
  ASSUME TypeOK, RedeemedOnce, NEW r \in Redeem, RedeemClaim(r)
  PROVE  /\ link' \in [Link -> LinkRow]
         /\ crossed' = crossed
         /\ redeem[r] \in Link /\ link[redeem[r]].status = "open"
         /\ link'[redeem[r]].status = "used" /\ link'[redeem[r]].redeemed = 1
         /\ \A j \in Link : j # redeem[r] => link'[j] = link[j]
<1> DEFINE k == redeem[r]
<1>1. /\ k \in Link /\ link[k].status = "open" /\ crossed' = crossed
      /\ link' = [link EXCEPT ![k].status = "used", ![k].redeemed = @ + 1]
  BY DEF RedeemClaim, Claimable, TypeOK
<1> HIDE DEF k
<1>2. link \in [Link -> LinkRow] /\ link[k] \in LinkRow /\ link[k].redeemed = 0
  BY <1>1, LinkTyped DEF TypeOK, RedeemedOnce
<1>3. /\ link'[k] \in LinkRow /\ link'[k].status = "used" /\ link'[k].redeemed = 1
      /\ \A j \in Link : j # k => link'[j] = link[j]
      /\ link' = [j \in Link |-> link'[j]]
  BY <1>1, <1>2 DEF LinkRow
<1> HIDE DEF LinkRow
<1>4. link' \in [Link -> LinkRow]
  BY <1>2, <1>3
<1> QED
  BY <1>1, <1>3, <1>4 DEF k

LEMMA NextRedeemedOnce ==
  ASSUME TypeOK, RedeemedOnce, [Next]_vars
  PROVE  RedeemedOnce'
<1>1. ASSUME NEW k \in Link, LinkStep(k)
      PROVE  RedeemedOnce'
  BY <1>1, MintBeginEffect, MintCommitEffect DEF LinkStep, RedeemedOnce
<1>2. ASSUME NEW r \in Redeem, RedeemClaim(r)
      PROVE  RedeemedOnce'
  BY <1>2, RedeemClaimEffect DEF RedeemedOnce
<1> QED
  BY <1>1, <1>2, LinkStable DEF RedeemedOnce

LEMMA NextOneLink ==
  ASSUME TypeOK, RedeemedOnce, OneLinkOfPurpose, [Next]_vars
  PROVE  OneLinkOfPurpose'
<1>1. CASE link' = link /\ crossed' = crossed
  BY <1>1 DEF OneLinkOfPurpose, SamePurpose
<1>2. ASSUME NEW k \in Link, MintBegin(k), ~crossed', NEW i \in Link, NEW j \in SamePurpose(i)
      PROVE  /\ link'[j].status = link'[i].status /\ link'[i].status \in {"minting", "open"}
                  => j = i
             /\ link'[j].status = "open" /\ link'[i].status = "minting" => j \in link'[i].old
  <2>1. ~crossed /\ \A x \in SamePurpose(k) \ {k} : link[x].status # "minting"
    BY <1>2 DEF MintBegin
  <2>2. j \in Link /\ (i = k => j \in SamePurpose(k)) /\ (j = k => i \in SamePurpose(k))
    BY DEF SamePurpose
  <2> QED
    BY <1>2, <2>1, <2>2, MintBeginEffect DEF OneLinkOfPurpose
<1>3. ASSUME NEW k \in Link, MintCommit(k), ~crossed', NEW i \in Link, NEW j \in SamePurpose(i)
      PROVE  /\ link'[j].status = link'[i].status /\ link'[i].status \in {"minting", "open"}
                  => j = i
             /\ link'[j].status = "open" /\ link'[i].status = "minting" => j \in link'[i].old
  <2>1. j \in Link /\ (i = k => j \in SamePurpose(k)) /\ (j = k => i \in SamePurpose(k))
    BY DEF SamePurpose
  <2> QED
    BY <1>3, <2>1, MintCommitEffect DEF OneLinkOfPurpose
<1>4. ASSUME NEW r \in Redeem, RedeemClaim(r), ~crossed', NEW i \in Link, NEW j \in SamePurpose(i)
      PROVE  /\ link'[j].status = link'[i].status /\ link'[i].status \in {"minting", "open"}
                  => j = i
             /\ link'[j].status = "open" /\ link'[i].status = "minting" => j \in link'[i].old
  <2>1. j \in Link
    BY DEF SamePurpose
  <2> QED
    BY <1>4, <2>1, RedeemClaimEffect DEF OneLinkOfPurpose
<1>5. \A i \in Link : SamePurpose(i)' = SamePurpose(i)
  BY DEF SamePurpose
<1> QED
  BY <1>1, <1>2, <1>3, <1>4, <1>5, LinkStable DEF OneLinkOfPurpose, LinkStep

-----------------------------------------------------------------------------
(* Types.                                                                  *)

SessionsTyped ==
  \A l \in Login : session[l] = "ACTIVE" =>
    login[l].pc \in {"nonce", "done"} /\ login[l].tar \in Policy

LEMMA NextTokenHasTar ==
  ASSUME TypeOK, TokenHasTar, [Next]_vars
  PROVE  TokenHasTar'
<1>1. ASSUME NEW l \in Login, LoginStep(l)
      PROVE  TokenHasTar'
  BY <1>1, LoginEffect DEF TokenHasTar
<1>2. ASSUME NewPassword
      PROVE  TokenHasTar'
  BY <1>2, PasswordEffect DEF TokenHasTar
<1> QED
  BY <1>1, <1>2, LoginStable DEF TokenHasTar, RedeemClaim, ChangeCommit

\* Sessions end, except for the one a login creates.
LEMMA SessionStable ==
  ASSUME TypeOK, [Next]_vars
  PROVE  /\ session' \in [Login -> {"none", "ACTIVE", "ended"}]
         /\ \A l \in Active' : l \in Active \/ CreateSession(l)
<1>1. CASE session' = session
  BY <1>1 DEF TypeOK, Active
<1>2. ASSUME NEW S, Invalidate(S)
      PROVE  session' \in [Login -> {"none", "ACTIVE", "ended"}] /\ Active' \subseteq Active
  BY <1>2, InvalidateEffect
<1>3. ASSUME NEW l \in Login, EndSession(l)
      PROVE  session' \in [Login -> {"none", "ACTIVE", "ended"}] /\ Active' \subseteq Active
  BY <1>3 DEF EndSession, TypeOK, Active
<1>4. ASSUME NEW l \in Login, CreateSession(l)
      PROVE  /\ session' \in [Login -> {"none", "ACTIVE", "ended"}]
             /\ Active' \subseteq Active \cup {l}
  BY <1>4 DEF CreateSession, TypeOK, Active
<1>5. ASSUME NEW l \in Login, LoginStep(l)
      PROVE  session' = session \/ CreateSession(l) \/ Invalidate(Login)
  BY <1>5 DEF LoginStep, LoginCheck, InternalCheck, CountFailure, LockSuspend, LockKill, LockRecord,
     LoginReset, LoginTar, SetNonce, LoginFails
<1>6. \/ session' = session
      \/ \E S : Invalidate(S)
      \/ \E l \in Login : EndSession(l) \/ CreateSession(l)
  BY <1>5, LoginStable DEF UpdateTar, PatchKill, RedeemClaim, ChangeCommit
<1> QED
  BY <1>1, <1>2, <1>3, <1>4, <1>6

LEMMA NextSessionsTyped ==
  ASSUME TypeOK, TokenHasTar, [Next]_vars
  PROVE  SessionsTyped'
<1>0. SessionsTyped
  BY DEF TypeOK, SessionsTyped
<1>1. ASSUME NEW l \in Login, session'[l] = "ACTIVE", session[l] # "ACTIVE"
      PROVE  login'[l].pc \in {"nonce", "done"}
  <2>1. CreateSession(l)
    BY <1>1, SessionStable DEF Active
  <2>2. Goto(l, "nonce") /\ "nonce" \in LoginPc
    BY <2>1 DEF CreateSession, LoginPc
  <2> QED
    BY <2>2, GotoEffect
<1>2. ASSUME NEW l \in Login, login[l].pc \in {"nonce", "done"}
      PROVE  login'[l].pc \in {"nonce", "done"}
  <2>1. CASE \E x \in Login : LoginStep(x)
    BY <1>2, <2>1, LoginEffect
  <2>2. CASE NewPassword
    BY <1>2, <2>2, PasswordEffect
  <2> QED
    BY <1>2, <2>1, <2>2, LoginStable DEF RedeemClaim, ChangeCommit
<1>3. TokenHasTar'
  BY NextTokenHasTar
<1> QED
  BY <1>0, <1>1, <1>2, <1>3 DEF SessionsTyped, TokenHasTar

LEMMA NextLoginTyped ==
  ASSUME TypeOK, [Next]_vars
  PROVE  login' \in [Login -> LoginState]
<1>1. CASE login' = login
  BY <1>1 DEF TypeOK
<1>2. ASSUME NEW l \in Login, LoginStep(l)
      PROVE  login' \in [Login -> LoginState]
  BY <1>2, LoginEffect
<1>3. CASE NewPassword
  BY <1>3, PasswordEffect
<1> QED
  BY <1>1, <1>2, <1>3, LoginStable DEF RedeemClaim, ChangeCommit

LEMMA NextLinkTyped ==
  ASSUME TypeOK, RedeemedOnce, [Next]_vars
  PROVE  link' \in [Link -> LinkRow]
BY LinkStable, MintBeginEffect, MintCommitEffect, RedeemClaimEffect DEF LinkStep, TypeOK

\* Who moves the row of the account: a failed attempt, a suspension, a
\* reactivation, or a reset of the counter.
LEMMA EntityStable ==
  ASSUME TypeOK, [Next]_vars
  PROVE  \/ entity' = entity
         \/ \E l \in Login : CountFailure(l) \/ LockSuspend(l)
         \/ PatchSuspend
         \/ Activate /\ login' = login /\ wiped' = wiped
         \/ entity' = [entity EXCEPT !.attempts = 0] /\ Wipes
<1>1. ASSUME NEW l \in Login, LoginStep(l)
      PROVE  \/ entity' = entity
             \/ CountFailure(l) \/ LockSuspend(l)
             \/ entity' = [entity EXCEPT !.attempts = 0] /\ Wipes
  BY <1>1 DEF LoginStep, LoginCheck, InternalCheck, LockKill, LockRecord,
     LoginReset, LoginTar, CreateSession, SetNonce, LoginFails
<1> QED
  BY <1>1 DEF Next, vars, SessionStep, ChangeCheck, EndSession, UpdateTar, AdminStep,
     PatchKill, PatchFails, PatchReactivate, ClearCheck, ClearActivate, ClearReset, ClearFails,
     LinkStep, MintBegin, MintCommit, RedeemStep, RedeemCheck, RedeemClaim, RedeemFails,
     ChangeCommit, ChangeFails, NewPassword

LEMMA CountEffect ==
  ASSUME TypeOK, NEW l \in Login, CountFailure(l)
  PROVE  /\ entity' \in EntityState /\ entity'.status = entity.status /\ entity'.by = entity.by
         /\ entity'.attempts = entity.attempts + 1
<1>1. entity.attempts < MaxAttempts /\ entity' = [entity EXCEPT !.attempts = @ + 1]
  BY DEF CountFailure
<1>2. entity \in EntityState /\ entity.attempts \in 0..MaxAttempts
  BY DEF TypeOK, EntityState
<1> DEFINE n == entity.attempts + 1
<1>3. n \in 0..MaxAttempts
  BY <1>1, <1>2, LockoutAssumption
<1>4. entity' = [entity EXCEPT !.attempts = n]
  BY <1>1
<1> HIDE DEF n
<1>5. /\ entity' \in EntityState /\ entity'.status = entity.status /\ entity'.by = entity.by
      /\ entity'.attempts = n
  BY <1>2, <1>3, <1>4 DEF EntityState
<1> QED
  BY <1>5 DEF n

LEMMA NextEntityTyped ==
  ASSUME TypeOK, [Next]_vars
  PROVE  entity' \in EntityState
<1>1. \A l \in Login : LockSuspend(l) => Suspend("lockout")
  BY DEF LockSuspend
<1>2. PatchSuspend => Suspend("admin")
  BY DEF PatchSuspend
<1>3. \A l \in Login : CountFailure(l) => entity' \in EntityState
  BY CountEffect
<1>4. Suspend("lockout") \/ Suspend("admin") \/ Activate \/ entity' = [entity EXCEPT !.attempts = 0]
        => entity' \in EntityState
  BY EntityEffect
<1>5. entity \in EntityState
  BY DEF TypeOK
<1> QED
  BY <1>1, <1>2, <1>3, <1>4, <1>5, EntityStable

LEMMA NextRestTyped ==
  ASSUME TypeOK, [Next]_vars
  PROVE  /\ tar' \in Policy
         /\ redeem' \in [Redeem -> Link \cup {None}]
         /\ change' \in Login \cup {None}
         /\ admin' \in {"idle", "kill"}
         /\ clear' \in {"idle", "activate", "reset"}
         /\ excused' \subseteq Login
         /\ {recorded', wiped', crossed'} \subseteq BOOLEAN
<1>1. ASSUME NEW l \in Login, LoginStep(l)
      PROVE  /\ UNCHANGED <<tar, redeem, change, admin, clear, crossed>>
             /\ excused' \subseteq Login /\ recorded' \in BOOLEAN /\ wiped' \in BOOLEAN
  BY <1>1 DEF LoginStep, LoginCheck, InternalCheck, CountFailure, LockSuspend, LockKill, LockRecord,
     LoginReset, LoginTar, CreateSession, SetNonce, LoginFails, InFlight, Active, TypeOK, Wipes
<1>2. ASSUME NEW l \in Login, SessionStep(l)
      PROVE  /\ UNCHANGED <<tar, redeem, admin, clear, excused, recorded, wiped, crossed>>
             /\ change' \in Login \cup {None}
  BY <1>2 DEF SessionStep, EndSession, ChangeCheck, TypeOK
<1>3. ASSUME AdminStep
      PROVE  /\ UNCHANGED <<tar, redeem, change, recorded, crossed>>
             /\ admin' \in {"idle", "kill"} /\ clear' \in {"idle", "activate", "reset"}
             /\ excused' \subseteq Login /\ wiped' \in BOOLEAN
  BY <1>3 DEF AdminStep, PatchSuspend, PatchKill, PatchFails, PatchReactivate, ClearCheck,
     ClearActivate, ClearReset, ClearFails, InFlight, Active, TypeOK, Wipes
<1>4. ASSUME NEW k \in Link, LinkStep(k)
      PROVE  /\ UNCHANGED <<tar, redeem, change, admin, clear, excused, recorded, wiped>>
             /\ crossed' \in BOOLEAN
  BY <1>4 DEF LinkStep, MintBegin, MintCommit, TypeOK
<1>5. ASSUME NEW r \in Redeem, RedeemStep(r)
      PROVE  /\ UNCHANGED <<tar, change, admin, clear, recorded, crossed>>
             /\ redeem' \in [Redeem -> Link \cup {None}]
             /\ excused' \subseteq Login /\ wiped' \in BOOLEAN
  BY <1>5 DEF RedeemStep, RedeemCheck, RedeemClaim, RedeemFails, NewPassword, Wipes, InFlight,
     Active, TypeOK
<1>6. ASSUME ChangeCommit \/ ChangeFails
      PROVE  /\ UNCHANGED <<tar, redeem, admin, clear, recorded, crossed>>
             /\ change' \in Login \cup {None} /\ excused' \subseteq Login /\ wiped' \in BOOLEAN
  BY <1>6 DEF ChangeCommit, ChangeFails, NewPassword, Wipes, InFlight, Active, TypeOK
<1>7. ASSUME UpdateTar
      PROVE  /\ UNCHANGED <<redeem, change, admin, clear, excused, recorded, wiped, crossed>>
             /\ tar' \in Policy
  BY <1>7 DEF UpdateTar
<1>8. CASE UNCHANGED vars
  BY <1>8 DEF vars, TypeOK
<1> QED
  BY <1>1, <1>2, <1>3, <1>4, <1>5, <1>6, <1>7, <1>8 DEF Next, TypeOK

LEMMA NextTypeOK ==
  ASSUME TypeOK, TokenHasTar, RedeemedOnce, [Next]_vars
  PROVE  TypeOK'
BY NextEntityTyped, NextLoginTyped, SessionStable, NextSessionsTyped, NextLinkTyped, NextRestTyped
   DEF TypeOK, SessionsTyped

-----------------------------------------------------------------------------
(* Lockouts.                                                               *)

LEMMA NextLockoutCounted ==
  ASSUME TypeOK, LockoutCounted, [Next]_vars
  PROVE  LockoutCounted'
<1> DEFINE Locking == \E l \in Login : login[l].pc = "suspend"
           ByLockout == entity.status = "SUSPENDED" /\ entity.by = "lockout"
<1>t. entity.attempts \in Nat /\ MaxAttempts \in Nat /\ Lockout \in Nat /\ wiped \in BOOLEAN
  BY LockoutAssumption DEF TypeOK, EntityState
<1>1. ASSUME entity' = [entity EXCEPT !.attempts = 0], Wipes
      PROVE  LockoutCounted'
  <2>1. ASSUME ~wiped'
        PROVE  ~Locking /\ entity'.status # "SUSPENDED"
    BY <1>1, <2>1, EntityEffect DEF Wipes
  <2>2. ASSUME ~wiped', NEW l \in Login, login'[l].pc = "suspend"
        PROVE  FALSE
    <3>1. ~ \E x \in Login : CountFailure(x)
      <4>1. ASSUME NEW x \in Login, CountFailure(x)
            PROVE  FALSE
        <5>1. entity'.attempts = entity.attempts + 1 /\ entity'.attempts = 0
          BY <1>1, <4>1, CountEffect, EntityEffect
        <5> QED
          BY <5>1, <1>t
      <4> QED
        BY <4>1
    <3>2. login'[l].pc = login[l].pc \/ login'[l].pc # "suspend"
      <4>1. CASE \E x \in Login : LoginStep(x)
        BY <3>1, <4>1, LoginEffect
      <4>2. CASE NewPassword
        BY <4>2, PasswordEffect
      <4> QED
        BY <4>1, <4>2, LoginStable DEF RedeemClaim, ChangeCommit
    <3> QED
      BY <2>1, <2>2, <3>2
  <2> QED
    BY <2>1, <2>2 DEF LockoutCounted
<1>2. ASSUME NEW l \in Login, CountFailure(l)
      PROVE  LockoutCounted'
  <2>1. /\ entity'.attempts = entity.attempts + 1
        /\ entity'.status = entity.status /\ entity'.by = entity.by
    BY <1>2, CountEffect
  <2>2. wiped' = (wiped /\ ~Locks(entity.attempts + 1))
    BY <1>2 DEF CountFailure
  <2>3. CASE Locks(entity.attempts + 1)
    BY <2>1, <2>3 DEF LockoutCounted
  <2>4. CASE ~Locks(entity.attempts + 1)
    <3>1. ~Locks(entity.attempts) /\ wiped' = wiped
      BY <1>t, <2>2, <2>4 DEF Locks
    <3>2. Goto(l, "idle") /\ "idle" \in LoginPc
      BY <1>2, <2>4 DEF CountFailure, LoginPc
    <3>3. \A x \in Login : login'[x].pc = "suspend" => login[x].pc = "suspend"
      BY <3>2, GotoEffect
    <3> QED
      BY <2>1, <3>1, <3>3 DEF LockoutCounted
  <2> QED
    BY <2>3, <2>4
<1>3. ASSUME NEW l \in Login, LockSuspend(l)
      PROVE  LockoutCounted'
  <2>1. Suspend("lockout") /\ wiped' = wiped /\ login[l].pc = "suspend"
    BY <1>3 DEF LockSuspend
  <2>2. entity'.attempts = entity.attempts
    BY <2>1, EntityEffect
  <2> QED
    BY <2>1, <2>2 DEF LockoutCounted
<1>4. ASSUME PatchSuspend
      PROVE  LockoutCounted'
  <2>1. Suspend("admin") /\ login' = login /\ wiped' = wiped
    BY <1>4 DEF PatchSuspend
  <2>2. entity'.attempts = entity.attempts /\ entity'.by = "admin"
    BY <2>1, EntityEffect
  <2> QED
    BY <2>1, <2>2 DEF LockoutCounted
<1>5. ASSUME Activate, login' = login, wiped' = wiped
      PROVE  LockoutCounted'
  <2>1. entity'.status = "ACTIVE" /\ entity'.attempts = entity.attempts
    <3>1. entity \in EntityState
      BY DEF TypeOK
    <3> QED
      BY <1>5, <3>1 DEF Activate, EntityState
  <2> QED
    BY <1>5, <2>1 DEF LockoutCounted
<1>6. ASSUME entity' = entity, ~ \E l \in Login : CountFailure(l)
      PROVE  LockoutCounted'
  <2>2. \A x \in Login : login'[x].pc = "suspend" => login[x].pc = "suspend"
    <3>1. CASE \E l \in Login : LoginStep(l)
      BY <1>6, <3>1, LoginEffect
    <3>2. CASE NewPassword
      BY <3>2, PasswordEffect
    <3> QED
      BY <3>1, <3>2, LoginStable DEF RedeemClaim, ChangeCommit
  <2>3. wiped => wiped'
    <3>1. ASSUME NEW l \in Login, LoginStep(l)
          PROVE  wiped => wiped'
      BY <1>6, <3>1 DEF LoginStep, LoginCheck, InternalCheck, LockSuspend, LockKill, LockRecord,
         LoginReset, LoginTar, CreateSession, SetNonce, LoginFails, Wipes
    <3> QED
      BY <3>1 DEF Next, vars, SessionStep, ChangeCheck, EndSession, UpdateTar, AdminStep,
         PatchSuspend, PatchKill, PatchFails, PatchReactivate, ClearCheck, ClearActivate,
         ClearReset, ClearFails, LinkStep, MintBegin, MintCommit, RedeemStep, RedeemCheck,
         RedeemClaim, RedeemFails, ChangeCommit, ChangeFails, NewPassword, Wipes
  <2> QED
    BY <1>6, <2>2, <2>3 DEF LockoutCounted
<1> QED
  BY <1>1, <1>2, <1>3, <1>4, <1>5, <1>6, EntityStable

-----------------------------------------------------------------------------
(* Passwords and suspensions.                                              *)

LEMMA ExcusedGrows ==
  ASSUME [Next]_vars
  PROVE  excused \subseteq excused'
<1>1. ASSUME NEW l \in Login, LoginStep(l)
      PROVE  excused \subseteq excused'
  BY <1>1 DEF LoginStep, LoginCheck, InternalCheck, CountFailure, LockSuspend, LockKill, LockRecord,
     LoginReset, LoginTar, CreateSession, SetNonce, LoginFails
<1> QED
  BY <1>1 DEF Next, vars, SessionStep, ChangeCheck, EndSession, UpdateTar, AdminStep,
     PatchSuspend, PatchKill, PatchFails, PatchReactivate, ClearCheck, ClearActivate,
     ClearReset, ClearFails, LinkStep, MintBegin, MintCommit, RedeemStep, RedeemCheck,
     RedeemClaim, RedeemFails, ChangeCommit, ChangeFails

\* A new password excuses everyone in flight and every session it leaves.
LEMMA NewPasswordExcuses ==
  ASSUME TypeOK, (\E r \in Redeem : RedeemClaim(r)) \/ ChangeCommit
  PROVE  InFlight' = InFlight /\ InFlight' \cup Active' \subseteq excused'
<1>1. NewPassword
  BY DEF RedeemClaim, ChangeCommit
<1>2. InFlight' = InFlight
  BY <1>1, PasswordEffect DEF InFlight
<1>3. ASSUME NEW r \in Redeem, RedeemClaim(r)
      PROVE  InFlight \cup Active' \subseteq excused'
  <2>1. /\ Invalidate(SessionsRedeemed(redeem[r]))
        /\ excused' = excused \cup InFlight
                        \cup (IF redeem[r] \in ResetLink THEN {} ELSE Active)
    BY <1>3 DEF RedeemClaim
  <2>2. Active' = Active \ SessionsRedeemed(redeem[r]) /\ Active \subseteq Login
    BY <2>1, InvalidateEffect DEF Active
  <2> QED
    BY <2>1, <2>2 DEF SessionsRedeemed
<1>4. ASSUME ChangeCommit
      PROVE  InFlight \cup Active' \subseteq excused'
  <2>1. Invalidate(Login \ {change}) /\ excused' = excused \cup InFlight \cup {change}
    BY <1>4 DEF ChangeCommit
  <2>2. Active' = Active \ (Login \ {change}) /\ Active \subseteq Login
    BY <2>1, InvalidateEffect DEF Active
  <2> QED
    BY <2>1, <2>2
<1> QED
  BY <1>2, <1>3, <1>4

\* Who is in flight after a step was before, or has just passed its checks.
LEMMA InFlightFrom ==
  ASSUME TypeOK, [Next]_vars, NEW l \in InFlight'
  PROVE  l \in Login /\ (l \in InFlight \/ (entity.status = "ACTIVE" /\ entity' = entity))
<1>1. l \in Login /\ login'[l].pc \in {"reset", "tar", "create"}
  BY DEF InFlight
<1>2. CASE login' = login
  BY <1>1, <1>2 DEF InFlight
<1>3. ASSUME NEW x \in Login, LoginStep(x)
      PROVE  l \in InFlight \/ (entity.status = "ACTIVE" /\ entity' = entity)
  <2>1. CASE l # x
    BY <1>1, <1>3, <2>1, LoginEffect DEF InFlight
  <2>2. CASE l = x
    <3>1. login[l].pc \in {"reset", "tar"}
          \/ (entity.status = "ACTIVE" /\ (LoginCheck(l) \/ InternalCheck(l)))
      BY <1>1, <1>3, <2>2, LoginEffect
    <3> QED
      BY <1>1, <3>1 DEF InFlight, LoginCheck, InternalCheck
  <2> QED
    BY <2>1, <2>2
<1> QED
  BY <1>1, <1>2, <1>3, LoginStable, NewPasswordExcuses

LEMMA NextPasswordOfNow ==
  ASSUME TypeOK, PasswordOfNow, [Next]_vars
  PROVE  PasswordOfNow'
<1>1. ASSUME NEW l \in Login, l \notin excused', l \in InFlight' \cup Active'
      PROVE  login'[l].current
  <2>1. l \notin excused
    BY <1>1, ExcusedGrows
  <2>2. ~ ((\E r \in Redeem : RedeemClaim(r)) \/ ChangeCommit)
    BY <1>1, NewPasswordExcuses
  <2>3. CASE login'[l] = login[l]
    <3>1. ~CreateSession(l)
      <4>1. ASSUME CreateSession(l)
            PROVE  FALSE
        <5>1. Goto(l, "nonce") /\ login[l].pc = "create" /\ "nonce" \in LoginPc
          BY <4>1 DEF CreateSession, LoginPc
        <5> QED
          BY <2>3, <5>1, GotoEffect
      <4> QED
        BY <4>1
    <3>2. l \in InFlight \cup Active
      BY <1>1, <2>3, <3>1, SessionStable DEF InFlight
    <3> QED
      BY <2>1, <2>3, <3>2 DEF PasswordOfNow
  <2>4. CASE login'[l] # login[l]
    <3>1. PICK x \in Login : LoginStep(x)
      BY <2>2, <2>4, LoginStable
    <3>2. LoginStep(l)
      BY <2>4, <3>1, LoginEffect
    <3>3. CASE login[l].pc = "nonce"
      <4>1. login'[l].current = login[l].current /\ login'[l].pc = "done" /\ SetNonce(l)
        BY <3>2, <3>3, LoginEffect
      <4>2. l \in Active
        BY <1>1, <4>1 DEF SetNonce, InFlight, Active
      <4> QED
        BY <2>1, <4>1, <4>2 DEF PasswordOfNow
    <3>4. CASE login[l].pc \in {"reset", "tar", "create"} /\ login'[l].pc # "idle"
      <4>1. login'[l].current = login[l].current
        BY <3>2, <3>4, LoginEffect
      <4> QED
        BY <2>1, <3>4, <4>1 DEF PasswordOfNow, InFlight
    <3>5. CASE login'[l].pc \in {"reset", "tar", "create"} /\ login[l].pc = "idle"
      BY <3>2, <3>5, LoginEffect
    <3>6. CASE login'[l].pc \notin {"reset", "tar", "create", "nonce", "done"}
      <4>1. l \in Active
        <5>1. ~CreateSession(l)
          <6>1. ASSUME CreateSession(l)
                PROVE  FALSE
            <7>1. Goto(l, "nonce") /\ "nonce" \in LoginPc
              BY <6>1 DEF CreateSession, LoginPc
            <7> QED
              BY <3>6, <7>1, GotoEffect
          <6> QED
            BY <6>1
        <5> QED
          BY <1>1, <3>6, <5>1, SessionStable DEF InFlight
      <4>2. login[l].pc \in {"nonce", "done"}
        BY <4>1 DEF Active, TypeOK
      <4> QED
        BY <3>2, <3>6, <4>2, LoginEffect
    <3> QED
      BY <3>2, <3>3, <3>4, <3>5, <3>6, LoginEffect
  <2> QED
    BY <2>3, <2>4
<1> QED
  BY <1>1 DEF PasswordOfNow

\* The call that suspended the account stays until it has ended the sessions, or
\* excuses them.
LEMMA SuspendingUntil ==
  ASSUME TypeOK, [Next]_vars, Suspending
  PROVE  Suspending' \/ Active' \subseteq excused'
<1>0. Active \subseteq Login
  BY DEF Active
<1>1. ASSUME admin = "kill", admin' # "kill"
      PROVE  Active' \subseteq excused'
  <2>1. PatchKill \/ PatchFails
    <3>1. \A l \in Login : LoginStep(l) => admin' = admin
      BY LoginEffect
    <3> QED
      BY <1>1, <3>1 DEF Next, vars, SessionStep, ChangeCheck, EndSession, UpdateTar, AdminStep,
         PatchSuspend, PatchReactivate, ClearCheck, ClearActivate,
         ClearReset, ClearFails, LinkStep, MintBegin, MintCommit, RedeemStep, RedeemCheck,
         RedeemClaim, RedeemFails, ChangeCommit, ChangeFails
  <2>2. CASE PatchKill
    BY <1>0, <2>2, InvalidateEffect DEF PatchKill
  <2>3. CASE PatchFails
    BY <2>3 DEF PatchFails, Active
  <2> QED
    BY <2>1, <2>2, <2>3
<1>2. ASSUME NEW l \in Login, login[l].pc = "kill", login'[l].pc # "kill"
      PROVE  Active' \subseteq excused'
  <2>1. LockKill(l) \/ LoginFails(l)
    <3>1. CASE NewPassword
      BY <1>2, <3>1, PasswordEffect
    <3>2. CASE \E x \in Login : LoginStep(x)
      <4>1. PICK x \in Login : LoginStep(x)
        BY <3>2
      <4>2. x = l
        BY <1>2, <4>1, LoginEffect
      <4> QED
        BY <1>2, <4>1, <4>2, LoginEffect
    <3> QED
      BY <1>2, <3>1, <3>2, LoginStable DEF RedeemClaim, ChangeCommit
  <2>2. CASE LockKill(l)
    BY <1>0, <2>2, InvalidateEffect DEF LockKill
  <2>3. CASE LoginFails(l)
    BY <1>2, <2>3 DEF LoginFails, Active
  <2> QED
    BY <2>1, <2>2, <2>3
<1> QED
  BY <1>1, <1>2 DEF Suspending

LEMMA NextSuspensionReaches ==
  ASSUME TypeOK, SuspensionReaches, [Next]_vars
  PROVE  SuspensionReaches'
<1>1. ASSUME NEW l \in Login, LockSuspend(l)
      PROVE  SuspensionReaches'
  <2>1. Goto(l, "kill") /\ excused' = excused \cup InFlight /\ "kill" \in LoginPc
    BY <1>1 DEF LockSuspend, LoginPc
  <2>2. InFlight' \subseteq InFlight /\ login'[l].pc = "kill"
    BY <2>1, GotoEffect DEF InFlight
  <2> QED
    BY <2>1, <2>2 DEF SuspensionReaches, Suspending
<1>2. ASSUME PatchSuspend
      PROVE  SuspensionReaches'
  BY <1>2 DEF PatchSuspend, SuspensionReaches, Suspending, InFlight
<1>3. ASSUME entity'.status = "SUSPENDED", ~PatchSuspend, ~ \E l \in Login : LockSuspend(l)
      PROVE  /\ InFlight' \subseteq excused'
             /\ Suspending' \/ Active' \subseteq excused'
  <2>1. entity.status = "SUSPENDED"
    BY <1>3, EntityStable, EntityEffect, CountEffect
  <2>2. InFlight \subseteq excused /\ excused \subseteq excused'
    BY <2>1, ExcusedGrows DEF SuspensionReaches
  <2>3. InFlight' \subseteq InFlight
    BY <2>1, InFlightFrom
  <2>4. CASE Active \subseteq excused
    <3>1. \A l \in Login : CreateSession(l) => l \in InFlight
      BY DEF CreateSession, InFlight
    <3>2. Active' \subseteq Login
      BY DEF Active
    <3> QED
      BY <2>2, <2>3, <2>4, <3>1, <3>2, SessionStable
  <2>5. CASE Suspending
    BY <2>2, <2>3, <2>5, SuspendingUntil
  <2> QED
    BY <2>1, <2>4, <2>5 DEF SuspensionReaches
<1> QED
  BY <1>1, <1>2, <1>3 DEF SuspensionReaches

-----------------------------------------------------------------------------
(* The theorems.                                                           *)

LEMMA InitAccounts == Init => AccountInv
<1> SUFFICES ASSUME Init PROVE AccountInv
  OBVIOUS
<1> USE DEF Init
<1>1. TypeOK
  <2>1. entity \in EntityState
    BY LockoutAssumption DEF EntityState
  <2>2. NoCall \in LoginState /\ [status |-> "none", old |-> {}, redeemed |-> 0] \in LinkRow
    BY DEF NoCall, LoginState, LoginPc, LinkRow
  <2> QED
    BY <2>1, <2>2, SubsetAssumption DEF TypeOK
<1>2. TokenHasTar /\ PasswordOfNow /\ SuspensionReaches /\ LockoutCounted
  BY DEF TokenHasTar, PasswordOfNow, SuspensionReaches, LockoutCounted, InFlight, Active, NoCall
<1>3. RedeemedOnce /\ OneLinkOfPurpose
  BY DEF RedeemedOnce, OneLinkOfPurpose, SamePurpose
<1> QED
  BY <1>1, <1>2, <1>3 DEF AccountInv

LEMMA NextAccounts == AccountInv /\ [Next]_vars => AccountInv'
BY NextTypeOK, NextTokenHasTar, NextPasswordOfNow, NextSuspensionReaches, NextLockoutCounted,
   NextRedeemedOnce, NextOneLink DEF AccountInv

\* What the calls on an account keep true between their steps, whatever
\* interleaves with them: the invariant the properties below follow from.
THEOREM AccountInvariant == Spec => []AccountInv
BY InitAccounts, NextAccounts, PTL DEF Spec

\* Every reachable state has its type: an ACTIVE session row belongs to a login
\* that has read the TAR and made its token (login, createSession).
THEOREM AccountsTypeCorrect == Spec => []TypeOK
<1>1. AccountInv => TypeOK
  BY DEF AccountInv
<1> QED
  BY <1>1, AccountInvariant, PTL

\* A session validateSession accepts is of the password of now, and not of a
\* suspended account, but for the excused ones (login, updateEntityStatus,
\* redeemSetupToken, change-password).
THEOREM SessionsCurrent == Spec => []LiveSessionsCurrent
<1>1. AccountInv => LiveSessionsCurrent
  BY DEF AccountInv, PasswordOfNow, SuspensionReaches, LiveSessionsCurrent, Valid, Active
<1> QED
  BY <1>1, AccountInvariant, PTL

\* A lockout on record that no reset overtook has the counter that
\* clearLockoutSuspension asks for.
THEOREM LockoutsClear == Spec => []LockoutClearable
<1>1. AccountInv => LockoutClearable
  BY DEF AccountInv, LockoutCounted, LockoutClearable, Locks
<1> QED
  BY <1>1, AccountInvariant, PTL

\* A link sets one password, and a purpose has one open link unless two mints
\* overlapped (redeemSetupToken, mintSetupToken).
THEOREM LinksOnce == Spec => []LinkOnce
<1>1. AccountInv => LinkOnce
  BY DEF AccountInv, RedeemedOnce, OneLinkOfPurpose, LinkOnce
<1> QED
  BY <1>1, AccountInvariant, PTL
=============================================================================
