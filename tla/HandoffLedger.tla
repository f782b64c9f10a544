--------------------------- MODULE HandoffLedger ----------------------------
(***************************************************************************)
(* What the handoff of legacy facts promises: each fact reaches one target,  *)
(* the provider revision it was joined with, and reaches it once; only then   *)
(* is it marked as handed over, and a mark stays. FeedHandoff implements this. *)
(***************************************************************************)
CONSTANTS Facts, Revs, NoRev

VARIABLES
    target,  \* the revision each fact was handed over as, or NoRev
    marked   \* the facts known to be handed over

ledgerVars == <<target, marked>>

LedgerInit == target = [f \in Facts |-> NoRev] /\ marked = {}

Reach(f) ==
    /\ target[f] = NoRev
    /\ \E r \in Revs : target' = [target EXCEPT ![f] = r]
    /\ UNCHANGED marked

Mark(f) ==
    /\ target[f] # NoRev
    /\ marked' = marked \cup {f}
    /\ UNCHANGED target

LedgerNext == \E f \in Facts : Reach(f) \/ Mark(f)

LedgerSpec == LedgerInit /\ [][LedgerNext]_ledgerVars
=============================================================================
