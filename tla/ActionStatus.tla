---------------------------- MODULE ActionStatus ----------------------------
(***************************************************************************)
(* The Action lifecycle state machine of ADR-0057: the ten statuses, the   *)
(* terminal ones and the canonical map of legal edges, as the service      *)
(* tier's guard assertActionTransition reads them.                         *)
(***************************************************************************)

TerminalStatuses ==
  {"SUCCEEDED", "FAILED", "CANCELLED", "TIMED_OUT", "REJECTED", "EXPIRED"}

ActiveStatuses == {"PROPOSED", "APPROVED", "SCHEDULED", "RUNNING"}

ActionStatuses == ActiveStatuses \cup TerminalStatuses

LegalTransitions ==
  [ PROPOSED  |-> {"APPROVED", "REJECTED", "CANCELLED"},
    APPROVED  |-> {"SCHEDULED", "CANCELLED"},
    SCHEDULED |-> {"RUNNING", "EXPIRED", "CANCELLED"},
    RUNNING   |-> {"SUCCEEDED", "FAILED", "TIMED_OUT", "CANCELLED",
                   "SCHEDULED"} ]   \* SCHEDULED: stale-orphan requeue only

(* canTransitionAction: no edge leaves a terminal status. *)
CanTransition(from, to) ==
  /\ from \in ActiveStatuses
  /\ to \in LegalTransitions[from]
=============================================================================
