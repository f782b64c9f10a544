--------------------------- MODULE RevisionLedger ---------------------------
(***************************************************************************)
(* What the Feed content source promises, with no process, no timer and no *)
(* crash in sight: every exact revision <<event_id, content_hash>> moves    *)
(* only forward, from unseen to frozen, offered, delivered and settled; its *)
(* payload never changes once frozen; and the provider closes an item only  *)
(* for a revision that has been delivered and is still the current one.     *)
(* FeedDelivery implements this module.                                     *)
(***************************************************************************)
CONSTANTS Items, Revs, Payloads, NoPayload, NoRev

VARIABLES
    current,   \* the revision the provider holds for each item, or NoRev
    closed,    \* the items the provider no longer offers
    payload,   \* the frozen payload of each exact revision, or NoPayload
    stage      \* how far each exact revision got in Content

ledgerVars == <<current, closed, payload, stage>>

Pair == Items \X Revs

LedgerInit ==
    /\ current = [e \in Items |-> NoRev]
    /\ closed = {}
    /\ payload = [p \in Pair |-> NoPayload]
    /\ stage = [p \in Pair |-> "absent"]

\* New content: some items change their revision, and those are open again.
\* Items whose revision is the same keep their state.
Publish ==
    \E new \in [Items -> Revs \cup {NoRev}] :
        /\ \A e \in Items : new[e] # current[e] => new[e] # NoRev
        /\ current' = new
        /\ closed' = closed \ {e \in Items : current[e] # NoRev /\ new[e] # current[e]}
        /\ UNCHANGED <<payload, stage>>

\* The user drops a source: its items and their closing marks disappear.
Withdraw ==
    \E gone \in SUBSET Items :
        /\ current' = [e \in Items |-> IF e \in gone THEN NoRev ELSE current[e]]
        /\ closed' = closed \ gone
        /\ UNCHANGED <<payload, stage>>

\* Revisions not yet frozen get their payload, for good.
Freeze ==
    /\ payload' \in [Pair -> Payloads \cup {NoPayload}]
    /\ \A p \in Pair : payload[p] # NoPayload => payload'[p] = payload[p]
    /\ UNCHANGED <<current, closed, stage>>

\* Frozen revisions that Content has not seen become pending there.
Offer ==
    \E offered \in SUBSET Pair :
        /\ \A p \in offered : payload[p] # NoPayload
        /\ stage' = [p \in Pair |-> IF p \in offered /\ stage[p] = "absent"
                                    THEN "pending" ELSE stage[p]]
        /\ UNCHANGED <<current, closed, payload>>

Deliver ==
    \E p \in Pair :
        /\ stage[p] = "pending"
        /\ stage' = [stage EXCEPT ![p] = "delivered"]
        /\ UNCHANGED <<current, closed, payload>>

\* The provider closes an item whose current revision reached the user, or
\* marks an item it has already lost.
Close ==
    \E e \in Items :
        /\ current[e] # NoRev => stage[<<e, current[e]>>] = "delivered"
        /\ closed' = closed \cup {e}
        /\ UNCHANGED <<current, payload, stage>>

\* Content may forget a receipt only when the provider has nothing left to do
\* for that exact revision.
Settle ==
    \E p \in Pair :
        /\ stage[p] = "delivered"
        /\ current[p[1]] = p[2] => p[1] \in closed
        /\ stage' = [stage EXCEPT ![p] = "settled"]
        /\ UNCHANGED <<current, closed, payload>>

LedgerNext == Publish \/ Withdraw \/ Freeze \/ Offer \/ Deliver \/ Close \/ Settle

LedgerSpec == LedgerInit /\ [][LedgerNext]_ledgerVars
=============================================================================
