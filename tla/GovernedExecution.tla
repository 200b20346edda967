-------------------------- MODULE GovernedExecution --------------------------
(***************************************************************************)
(* What the Action runtime promises whoever reads an action's attempt      *)
(* history, with the tables, ticks and requests abstracted away: an action *)
(* is let through at most once, its handler is attempted only after that,  *)
(* one attempt at a time, never again after a success, and no more than    *)
(* MaxAttempts times in all.  On an action two ticks of one kind           *)
(* overlapped on, a second handler may start beside the first or after a   *)
(* success; even then the history only grows and every attempt is closed   *)
(* at most once.  Nothing is promised about when.                          *)
(***************************************************************************)
EXTENDS Naturals, Sequences

CONSTANTS Actions, MaxAttempts

VARIABLES letThrough, overlapped, attempts

vars == <<letThrough, overlapped, attempts>>

Outcomes == {"SUCCEEDED", "FAILED", "TIMED_OUT"}

Init ==
  /\ letThrough = {}
  /\ overlapped = {}
  /\ attempts = [a \in Actions |-> <<>>]

LetThrough(a) ==
  /\ a \notin letThrough
  /\ letThrough' = letThrough \cup {a}
  /\ UNCHANGED <<overlapped, attempts>>

Overlap(S) ==
  /\ overlapped' = overlapped \cup S
  /\ UNCHANGED <<letThrough, attempts>>

(* Every attempt so far failed. *)
Attemptable(a) ==
  \A n \in DOMAIN attempts[a] : attempts[a][n] \in {"FAILED", "TIMED_OUT"}

Start(a) ==
  /\ a \in letThrough
  /\ a \notin overlapped => Attemptable(a) /\ Len(attempts[a]) < MaxAttempts
  /\ attempts' = [attempts EXCEPT ![a] = Append(@, "OPEN")]
  /\ UNCHANGED <<letThrough, overlapped>>

Close(a, n, outcome) ==
  /\ n \in DOMAIN attempts[a]
  /\ attempts[a][n] = "OPEN"
  /\ attempts' = [attempts EXCEPT ![a][n] = outcome]
  /\ UNCHANGED <<letThrough, overlapped>>

Next ==
  \/ \E S \in SUBSET Actions : Overlap(S)
  \/ \E a \in Actions :
       \/ LetThrough(a) \/ Start(a)
       \/ \E n \in DOMAIN attempts[a], o \in Outcomes : Close(a, n, o)

Spec == Init /\ [][Next]_vars
=============================================================================
