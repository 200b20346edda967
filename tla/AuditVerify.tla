---------------------------- MODULE AuditVerify ----------------------------
(***************************************************************************)
(* verifyAuditChain of packages/database/src/queries/audit.ts: a walk over *)
(* one entity's committed events in order of time, over the whole chain or *)
(* a window of it.  It reads once and changes nothing.                     *)
(***************************************************************************)
EXTENDS AuditChain, Sequences, FiniteSets

\* The optional window of the call.  A larger maxEvents takes no more: the clock
\* gives no more distinct times.
Windows ==
  {w \in [from : 0 .. MaxTime, to : 0 .. MaxTime, maxEvents : 1 .. MaxTime + 1] :
     w.from <= w.to}

\* Events in order of time: the i-th has i events up to its own time.  Events
\* with equal times have no order (Separated).
Rank(r, S) == Cardinality({q \in S : q.stored <= r.stored})
InOrder(S) == [i \in 1 .. Cardinality(S) |-> CHOOSE r \in S : Rank(r, S) = i]

FirstOf(s, n) == SubSeq(s, 1, IF n < Len(s) THEN n ELSE Len(s))

NoAnchor(s) == None
\* With a window the first event may link to one before the window.
Anchor(s) == IF s = <<>> THEN None ELSE s[1].prev

ChainHolds(s, first) ==
  \A i \in 1 .. Len(s) :
    /\ s[i].prev = IF i = 1 THEN first ELSE s[i - 1].id
    /\ s[i].hashed = s[i].stored

VerifyAll(e) == ChainHolds(InOrder({r \in rows : r.actor = e}), None)

VerifyWindow(e, w) ==
  LET found == InOrder({r \in rows : /\ r.actor = e
                                     /\ r.stored \in w.from .. w.to})
      taken == FirstOf(found, w.maxEvents)
  IN  ChainHolds(taken, Anchor(taken))

-----------------------------------------------------------------------------
(* Properties *)

\* The chain nobody tampered with verifies, as a whole and through every
\* window a reader may ask for (audit.ts verifyAuditChain).
IntactVerifies ==
  \A e \in Entities : Separated(e) =>
    VerifyAll(e) /\ \A w \in Windows : VerifyWindow(e, w)
=============================================================================
