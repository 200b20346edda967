-------------------------- MODULE CapsuleRouterInv --------------------------
(***************************************************************************)
(* The strengthening from which CapsuleRouterProofs proves the properties  *)
(* of CapsuleRouter.                                                       *)
(***************************************************************************)
EXTENDS CapsuleRouter

Writing == {"check", "begin", "commit", "record", "put"}

\* A process that is not idle serves a request, has a capsule in hand wherever
\* the handler has one, and the row it found is still there: none is deleted.
Serves ==
  \A p \in Procs :
    /\ pc[p] # "idle" => request[p] \in Requests
    /\ pc[p] \in Writing => request[p].op # "READ" /\ copy[p] \in Copies
    /\ pc[p] = "warm" => copy[p] \in Copies
    /\ pc[p] = "commit" /\ seen[p] # Absent =>
         stored[request[p].capsule] # Absent

RowCommitted ==
  \A c \in Capsules : stored[c] # Absent => Unpack(stored[c]) \in committed[c]

\* What is on its way into the hot copy is committed, and so is the effect of
\* the key that is about to be recorded.
InHandCommitted ==
  \A p \in Procs :
    /\ pc[p] \in {"warm", "record", "put"} =>
         copy[p] \in committed[request[p].capsule]
    /\ pc[p] = "record" => effects[KeyOf(request[p])] > 0

Serving(k, stages) == {p \in Procs : pc[p] \in stages /\ KeyOf(request[p]) = k}

\* Without a key, whoever took effect is about to record one, or has crashed;
\* with one, whoever may still take effect checked before it was there.
EffectsCounted ==
  \A k \in Keys :
    /\ keys[k] = "none" =>
         effects[k] <= Cardinality(Serving(k, {"record"})) + failures
    /\ keys[k] = "live" =>
         effects[k] + Cardinality(Serving(k, {"begin", "commit"}))
           <= Cardinality(Procs) + failures

RouterInv ==
  /\ Serves
  /\ RowCommitted
  /\ HotCommitted
  /\ InHandCommitted
  /\ ReplayOfDone
=============================================================================
