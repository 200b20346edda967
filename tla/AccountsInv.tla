---------------------------- MODULE AccountsInv ----------------------------
(***************************************************************************)
(* The inductive invariant from which AccountsProofs proves the properties *)
(* of Accounts.                                                            *)
(***************************************************************************)
EXTENDS Accounts

(* Every login that is not excused and has passed the password check, or    *)
(* has its session, was made with the password of now.                      *)
PasswordOfNow ==
  \A l \in Login \ excused : l \in InFlight \cup Active => login[l].current

(* On a suspended account no login that is not excused is between its       *)
(* checks and its session, and every session row left is about to go.       *)
SuspensionReaches ==
  entity.status = "SUSPENDED" =>
    /\ InFlight \subseteq excused
    /\ Suspending \/ Active \subseteq excused

(* A lockout decided or in force that no reset has overtaken has its        *)
(* counter.                                                                 *)
LockoutCounted ==
  (/\ ~wiped
   /\ \/ \E l \in Login : login[l].pc = "suspend"
      \/ entity.status = "SUSPENDED" /\ entity.by = "lockout") => Locks(entity.attempts)

(* Only a used link has set a password, and only one.                       *)
RedeemedOnce ==
  \A k \in Link : /\ link[k].redeemed <= 1
                  /\ link[k].status # "used" => link[k].redeemed = 0

(* While mints of a purpose do not overlap there is one at work, which      *)
(* supersedes every open link, or else at most one open link.               *)
OneLinkOfPurpose ==
  crossed \/ \A j, k \in Link : j \in SamePurpose(k) =>
    /\ link[j].status = link[k].status /\ link[k].status \in {"minting", "open"} => j = k
    /\ link[j].status = "open" /\ link[k].status = "minting" => j \in link[k].old

(* A token is made after the TAR was read.                                  *)
TokenHasTar ==
  \A l \in Login : login[l].pc \in {"create", "nonce", "done"} => login[l].tar \in Policy

AccountInv ==
  /\ TypeOK /\ TokenHasTar
  /\ PasswordOfNow /\ SuspensionReaches
  /\ LockoutCounted
  /\ RedeemedOnce /\ OneLinkOfPurpose
=============================================================================
