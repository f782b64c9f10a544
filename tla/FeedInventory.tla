---------------------------- MODULE FeedInventory ----------------------------
(***************************************************************************)
(* inventory_workspace of feed_handoff_inventory.py, from the tables it finds:   *)
(* what of an old Wake database is Feed's to hand over, what stops the handoff,   *)
(* and what is over and done. FeedHandoff takes its facts from here. The integrity *)
(* check before it refuses every database as it stands (InventoryRaises of       *)
(* FeedCutover); this is what the code behind that check does with a sound one.  *)
(***************************************************************************)
EXTENDS Naturals, Sequences, FiniteSets

CONSTANTS
    Feed, Other, \* who a row says it belongs to; NoId: a value that is no identity
    NoId,
    EventIds,
    Items,       \* keys of reservoir_events, as numbers
    OldRows, OldAcks, \* the rows an old release may have left
    MaxPending   \* bound: rows of pending_acknowledgements

Owner == {Feed, Other, NoId}
Terminal == {"consumed", "pending_expiry", "expired", "quarantined"}
Status == {"unread", "unknown"} \cup Terminal
Action == {"consume", "expire", "unknown"}
Event == EventIds \cup {NoId}

VARIABLES
    schema,    \* of reservoir_events: "missing", "columns_missing" or "whole"
    reservoir, \* table reservoir_events, by key
    pending    \* table pending_acknowledgements, in the order it is read

wakeVars == <<schema, reservoir, pending>>

WakeRow == [source : Owner, ack : Owner, event : Event, status : Status, content : BOOLEAN]
Pending == [source : Owner, event : Event, item : Items, action : Action]

ASSUME ItemsAreNumbers == Items \subseteq Nat /\ IsFiniteSet(Items) /\ MaxPending \in Nat
ASSUME InventorySentinels ==
    NoId \notin EventIds /\ Feed # Other /\ Feed # NoId /\ Other # NoId
ASSUME OldIsTyped == OldRows \subseteq WakeRow /\ OldAcks \subseteq Pending

-----------------------------------------------------------------------------
OwnerOf(r) == IF r.ack # NoId THEN r.ack ELSE r.source

\* Rows of others, and rows without an event, are passed over.
IsOurs(r) == OwnerOf(r) = Feed /\ r.event # NoId

Ours == {i \in DOMAIN reservoir : IsOurs(reservoir[i])}

\* Mutant: only an unread row conflicts.
RepeatsUnread(i) ==
    \E j \in Ours : /\ j < i /\ reservoir[j].event = reservoir[i].event
                    /\ reservoir[j].status = "unread"

\* An earlier row has the identity: owners, in the order of item_id.
Repeats(i) == \E j \in Ours : j < i /\ reservoir[j].event = reservoir[i].event

ItemReason(i) ==
    LET r == reservoir[i]
    IN  CASE Repeats(i) -> "source_identity_conflict"
          [] ~Repeats(i) /\ r.status = "unread" /\ ~r.content -> "unknown_wake_kind"
          [] ~Repeats(i) /\ r.status \notin Terminal \cup {"unread"} -> "unknown_wake_status"
          [] OTHER -> "none"

PendingOurs == {k \in DOMAIN pending : pending[k].source = Feed /\ pending[k].event # NoId}

AckReason(k) ==
    LET w == pending[k]
        known == w.item \in DOMAIN reservoir
    IN  CASE ~known -> "orphan_pending_ack"
          [] known /\ w.action = "unknown" -> "unknown_ack_action"
          [] known /\ w.action # "unknown"
                   /\ (OwnerOf(reservoir[w.item]) # Feed \/ reservoir[w.item].event # w.event) ->
                 "ack_source_identity_conflict"
          [] OTHER -> "none"

\* Facts, as <<kind, key or place, event>>.
ItemFacts ==
    {<<"item", i, reservoir[i].event>> :
        i \in {j \in Ours : ItemReason(j) = "none" /\ reservoir[j].status = "unread"}}
AckFacts == {<<"ack", k, pending[k].event>> : k \in {l \in PendingOurs : AckReason(l) = "none"}}

Blocks ==
    {<<"item", i, ItemReason(i)>> : i \in {j \in Ours : ItemReason(j) # "none"}}
        \cup {<<"ack", k, AckReason(k)>> : k \in {l \in PendingOurs : AckReason(l) # "none"}}

Inventory ==
    IF schema = "whole"
    THEN [facts |-> ItemFacts \cup AckFacts, blocks |-> Blocks]
    ELSE [facts |-> {}, blocks |-> {<<"schema", 0, schema>>}]

-----------------------------------------------------------------------------
WakeInit ==
    /\ schema \in {"missing", "columns_missing", "whole"}
    /\ reservoir = [i \in {} |-> 0] /\ pending = <<>>

\* What an old release may have left, row by row. The keys of the tables are
\* unique: item_id, and source, event and item of a pending ack.
WakeHasRow ==
    /\ schema = "whole" /\ pending = <<>>
    /\ \E i \in Items, r \in OldRows :
          /\ \A j \in DOMAIN reservoir : j < i
          /\ reservoir' = [j \in DOMAIN reservoir \cup {i} |-> IF j = i THEN r ELSE reservoir[j]]
    /\ UNCHANGED <<schema, pending>>

WakeHasAck ==
    /\ schema = "whole" /\ Len(pending) < MaxPending
    /\ \E w \in OldAcks :
          /\ \A k \in DOMAIN pending :
                <<pending[k].source, pending[k].event, pending[k].item>> # <<w.source, w.event, w.item>>
          /\ pending' = Append(pending, w)
    /\ UNCHANGED <<schema, reservoir>>

WakeNext == WakeHasRow \/ WakeHasAck
WakeSpec == WakeInit /\ [][WakeNext]_wakeVars

-----------------------------------------------------------------------------
\* An inventory that stops nothing is one that a handoff can work off. Of what is
\* still open it leaves out nothing: its items are exactly Feed's unread rows with
\* an event, and each pending ack of Feed is there. And no event is ambiguous:
\* it is there once as an item and once as an ack at the most, though it may
\* come as both, and an ack goes to the row it names. FeedHandoff assumes the
\* latter, in OneItemPerEvent.
InventoryIsExact ==
    Inventory.blocks = {} =>
        /\ \A i \in DOMAIN reservoir :
              LET r == reservoir[i]
              IN  (<<"item", i, r.event>> \in Inventory.facts)
                      <=> /\ r.status = "unread" /\ r.event # NoId
                          /\ (r.ack = Feed \/ (r.ack = NoId /\ r.source = Feed))
        /\ \A k \in DOMAIN pending :
              pending[k].source = Feed /\ pending[k].event # NoId =>
                  <<"ack", k, pending[k].event>> \in Inventory.facts
        /\ \A f, g \in Inventory.facts : f[1] = g[1] /\ f[3] = g[3] => f = g
        /\ \A f \in Inventory.facts :
              f[1] = "ack" =>
                  LET r == reservoir[pending[f[2]].item] IN IsOurs(r) /\ r.event = f[3]
===============================================================================
