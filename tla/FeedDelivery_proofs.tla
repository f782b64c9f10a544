------------------------ MODULE FeedDelivery_proofs ------------------------
(***************************************************************************)
(* Machine-checked proofs about FeedDelivery, for every set of items,        *)
(* hashes, payloads and sources and every number of faults.                  *)
(***************************************************************************)
EXTENDS FeedDelivery, FiniteSetTheorems, TLAPS

(***************************************************************************)
(* The inductive invariant, in parts.                                       *)
(***************************************************************************)

\* Settlement: the page and the receipt in hand are delivered receipts.
PageIsDelivered ==
    /\ \A p \in queue \cup cur : mail[p] = "delivered"
    /\ queue \cap cur = {}
    /\ \A p, q \in cur : p = q
    /\ cur # {} => pc \in {"provider", "content"}

PageInv == TypeOK /\ PageIsDelivered

\* Payloads: the batch on its way to Content carries the frozen payloads.
BatchIsFrozen ==
    \A row \in batch : row.meta # NoMeta /\ exports[<<row.id, row.rev>>] = row.meta

FrozenInv == PageInv /\ BatchIsFrozen /\ FrozenAgreement

\* A source in the poll list is being polled, so no settlement is running.
PollPhase == polling # {} => pc = "poll"

\* Sources that own e are gone for good.
Lost(e) == \A S \in Feeds : e \in S => feed[S] = "gone" /\ S \notin polling

\* An ack without an item belongs to a source that will not be polled again.
DanglingAcks == \A e \in acked : item[e] = NoRow => Lost(e)

\* Between the read and the write of settle_content_item the item is still the
\* one that was read, or the tools removed it.
AckInFlight ==
    pc = "provider" =>
        \A p \in cur : IsCurrent(p) \/ (item[p[1]] = NoRow /\ Lost(p[1]))

\* When Content is told, the provider has nothing left to do for the receipt.
AckDone == pc = "content" => \A p \in cur : ~IsCurrent(p) \/ p[1] \in acked

AckInv ==
    /\ PageInv
    /\ PollPhase
    /\ DanglingAcks
    /\ AckInFlight
    /\ AckDone
    /\ AckIsExact

\* From the child's SELECT to the deadline, everything admissible and open is
\* on its way.
Owed == {e \in Open : item[e].meta \in Admissible}
OwedBy(rows) == \A e \in Owed : \E row \in rows : row.id = e /\ row.rev = item[e].rev
OwedInv ==
    /\ TypeOK
    /\ pc = "freeze" => OwedBy(snapshot)
    /\ pc = "submit" => OwedBy(batch)
    /\ pc = "commit" => \A e \in Owed : mail[<<e, item[e].rev>>] # "absent"

-----------------------------------------------------------------------------
USE RowSentinels, FeedsPartitionItems, BoundsAreNaturals

\* A fetch's ingestion touches items only with rows.
LEMMA FetchedRows ==
    ASSUME NEW S \in Feeds, NEW fetched \in Fetches(S)
    PROVE  DOMAIN fetched \subseteq S /\ S \subseteq Items
           /\ \A e \in DOMAIN fetched : fetched[e] \in Row
  <1>1. PICK D \in SUBSET S : fetched \in [D -> Row]
    BY DEF Fetches
  <1>2. QED
    BY <1>1

\* INSERT OR IGNORE keeps what is there and freezes every row it is given.
LEMMA FreezingIsForGood ==
    ASSUME TypeOK, NEW rows \in SUBSET Entry
    PROVE  /\ Frozen(rows) \in [Pair -> Metas \cup {NoMeta}]
           /\ \A p \in Pair : exports[p] # NoMeta => Frozen(rows)[p] = exports[p]
           /\ \A row \in rows : /\ <<row.id, row.rev>> \in Pair
                                /\ Frozen(rows)[<<row.id, row.rev>>] \in Metas
  <1>1. ASSUME NEW p \in Pair, \E row \in rows : <<row.id, row.rev>> = p
        PROVE  (CHOOSE row \in rows : <<row.id, row.rev>> = p).meta \in Metas
    BY <1>1 DEF Entry
  <1>2. \A row \in rows : <<row.id, row.rev>> \in Pair
    BY DEF Entry, Pair
  <1>3. Frozen(rows) \in [Pair -> Metas \cup {NoMeta}]
    BY <1>1 DEF Frozen, TypeOK
  <1>4. ASSUME NEW row \in rows
        PROVE  Frozen(rows)[<<row.id, row.rev>>] \in Metas
    BY <1>1, <1>2 DEF Frozen, TypeOK
  <1>5. QED
    BY <1>2, <1>3, <1>4 DEF Frozen

LEMMA BatchPairs == TypeOK => \A row \in batch : <<row.id, row.rev>> \in Pair
  <1> SUFFICES ASSUME TypeOK, NEW row \in batch PROVE <<row.id, row.rev>> \in Pair
    OBVIOUS
  <1>1. row \in Entry
    BY DEF TypeOK
  <1>2. row.id \in Items /\ row.rev \in Revs
    BY <1>1 DEF Entry
  <1>3. QED
    BY <1>2 DEF Pair

-----------------------------------------------------------------------------
\* Type correctness: the tables, the mailbox and the round stay well formed.
LEMMA TypeStep == TypeOK /\ [Next]_vars => TypeOK'
  <1> SUFFICES ASSUME TypeOK, [Next]_vars PROVE TypeOK'
    OBVIOUS
  <1> USE DEF TypeOK, store, content, round, PC, RoundSteps
  <1>1. CASE Start \/ DeadlinePasses \/ Reload \/ TimerFires
    <2>1. CASE Start
      BY <2>1 DEF Start
    <2>2. CASE DeadlinePasses
      BY <2>2 DEF DeadlinePasses
    <2>3. CASE Reload
      BY <2>3 DEF Reload
    <2>4. CASE TimerFires
      BY <2>4 DEF TimerFires
    <2>5. QED
      BY <1>1, <2>1, <2>2, <2>3, <2>4
  <1>2. CASE ReadUnsettled
    BY <1>2 DEF ReadUnsettled, Delivered
  <1>3. CASE \E p \in Pair : SettleRead(p)
    BY <1>3 DEF SettleRead
  <1>4. CASE SettleWrite
    <2>1. {p[1] : p \in cur} \subseteq Items
      BY DEF Pair
    <2>2. QED
      BY <1>4, <2>1 DEF SettleWrite
  <1>5. CASE ContentAck
    BY <1>5 DEF ContentAck
  <1>6. CASE ListSources
    BY <1>6 DEF ListSources
  <1>7. CASE \E S \in Feeds : \E fetched \in Fetches(S) : PollSource(S, fetched)
    <2>0. PICK S \in Feeds : \E fetched \in Fetches(S) : PollSource(S, fetched)
      BY <1>7
    <2>1. PICK fetched \in Fetches(S) : PollSource(S, fetched)
      BY <2>0
    <2>2. item' \in [Items -> Row \cup {NoRow}]
      BY <2>1, FetchedRows DEF PollSource, Changed
    <2>3. QED
      BY <2>1, <2>2 DEF PollSource, Changed
  <1>8. CASE PollDone
    BY <1>8 DEF PollDone
  <1>9. CASE SelectOpen
    <2>1. \A e \in Open : AsEntry(e) \in Entry
      BY DEF Open, AsEntry, Entry, Row
    <2>2. snapshot' \in SUBSET Entry
      BY <1>9, <2>1 DEF SelectOpen
    <2>3. QED
      BY <1>9, <2>2 DEF SelectOpen
  <1>10. CASE FreezeExports
    <2>1. exports' \in [Pair -> Metas \cup {NoMeta}]
      BY <1>10, FreezingIsForGood DEF FreezeExports
    <2>2. batch' = Printed(snapshot, Frozen(snapshot))
      BY <1>10 DEF FreezeExports
    <2>3. \A row \in snapshot : Frozen(snapshot)[<<row.id, row.rev>>] \in Metas
      BY FreezingIsForGood
    <2>4. batch' \in SUBSET Entry
      <3>1. SUFFICES ASSUME NEW b \in Printed(snapshot, Frozen(snapshot))
                     PROVE  b \in Entry
        BY <2>2
      <3>2. PICK row \in snapshot :
                b = [id |-> row.id, rev |-> row.rev,
                     meta |-> Frozen(snapshot)[<<row.id, row.rev>>]]
        BY DEF Printed
      <3>3. row.id \in Items /\ row.rev \in Revs
        BY DEF Entry
      <3>4. QED
        BY <2>3, <3>2, <3>3 DEF Entry
    <2>5. QED
      BY <1>10, <2>1, <2>4 DEF FreezeExports
  <1>11. CASE \E rows \in orphans : OrphanFreezes(rows)
    BY <1>11, FreezingIsForGood DEF OrphanFreezes
  <1>12. CASE Submit
    <2>1. ASSUME NEW p \in Pair, \E row \in batch : <<row.id, row.rev>> = p
          PROVE  (CHOOSE row \in batch : <<row.id, row.rev>> = p).meta \in Metas
      BY <2>1 DEF Entry
    <2>2. body' \in [Pair -> Metas \cup {NoMeta}]
      BY <1>12, <2>1 DEF Submit
    <2>3. mail' \in [Pair -> {"absent", "pending", "delivered", "settled"}]
      BY <1>12 DEF Submit
    <2>4. QED
      BY <1>12, <2>2, <2>3 DEF Submit
  <1>13. CASE CommitDeadline
    BY <1>13 DEF CommitDeadline
  <1>14. CASE \E p \in Pair : ContentDelivers(p)
    BY <1>14 DEF ContentDelivers
  <1>15. CASE \E S \in Feeds : Subscribe(S) \/ Unsubscribe(S)
    BY <1>15 DEF Subscribe, Unsubscribe
  <1>16. CASE RoundFails
    BY <1>16 DEF RoundFails, ForgetRound
  <1>17. CASE Crash
    BY <1>17 DEF Crash, ForgetRound
  <1>18. CASE UNCHANGED vars
    BY <1>18 DEF vars
  <1>19. QED
    BY <1>1, <1>2, <1>3, <1>4, <1>5, <1>6, <1>7, <1>8, <1>9, <1>10, <1>11, <1>12,
       <1>13, <1>14, <1>15, <1>16, <1>17, <1>18 DEF Next, RoundNext

\* The type invariant holds for every instance.
THEOREM TypeCorrect == Spec => []TypeOK
  <1>1. Init => TypeOK
    BY DEF Init, TypeOK, PC
  <1>2. QED
    BY <1>1, TypeStep, PTL DEF Spec

-----------------------------------------------------------------------------
\* Only the settle loop moves receipts out of "delivered", and one at a time.
LEMMA PageStep == PageInv /\ [Next]_vars => PageInv'
  <1> SUFFICES ASSUME PageInv, [Next]_vars
               PROVE  PageIsDelivered'
    BY TypeStep DEF PageInv
  <1>t. TypeOK
    BY DEF PageInv
  <1> USE DEF PageIsDelivered, PageInv
  <1>4. CASE ReadUnsettled
    BY <1>4 DEF ReadUnsettled, Delivered, content
  <1>5. CASE \E p \in Pair : SettleRead(p)
    BY <1>5 DEF SettleRead, content
  <1>6. CASE SettleWrite
    BY <1>6 DEF SettleWrite, content, round
  <1>7. CASE ContentAck
    BY <1>7, <1>t DEF ContentAck, TypeOK
  <1>8. CASE Submit
    BY <1>8, <1>t DEF Submit, TypeOK
  <1>9. CASE \E p \in Pair : ContentDelivers(p)
    BY <1>9, <1>t DEF ContentDelivers, round, TypeOK
  <1>10. CASE Start \/ DeadlinePasses \/ Reload \/ TimerFires
    BY <1>10 DEF Start, DeadlinePasses, Reload, TimerFires, content, round
  <1>11. CASE ListSources \/ PollDone \/ SelectOpen \/ FreezeExports \/ CommitDeadline
    BY <1>11 DEF ListSources, PollDone, SelectOpen, FreezeExports, CommitDeadline,
                 content, round
  <1>12. CASE \E S \in Feeds : \E fetched \in Fetches(S) : PollSource(S, fetched)
    BY <1>12 DEF PollSource, Changed, content
  <1>13. CASE \E S \in Feeds : Subscribe(S) \/ Unsubscribe(S)
    BY <1>13 DEF Subscribe, Unsubscribe, content, round
  <1>14. CASE \E rows \in orphans : OrphanFreezes(rows)
    BY <1>14 DEF OrphanFreezes, content, round
  <1>15. CASE RoundFails \/ Crash
    BY <1>15 DEF RoundFails, Crash, ForgetRound
  <1>16. CASE UNCHANGED vars
    BY <1>16 DEF vars, round, content
  <1>17. QED
    BY <1>4, <1>5, <1>6, <1>7, <1>8, <1>9, <1>10, <1>11, <1>12, <1>13, <1>14, <1>15, <1>16
       DEF Next, RoundNext

-----------------------------------------------------------------------------
\* The exports table is written once per revision, so batches and Content's
\* copies stay equal to it.
LEMMA FrozenStep == FrozenInv /\ [Next]_vars => FrozenInv'
  <1> SUFFICES ASSUME FrozenInv, [Next]_vars
               PROVE  BatchIsFrozen' /\ FrozenAgreement'
    BY PageStep DEF FrozenInv
  <1>t. TypeOK
    BY DEF FrozenInv, PageInv
  <1> USE DEF BatchIsFrozen, FrozenAgreement, FrozenInv
  <1>1. CASE UNCHANGED <<batch, exports, mail, body>>
    BY <1>1
  <1>2. CASE UNCHANGED <<exports, mail, body>> /\ batch' = {}
    BY <1>2
  <1>3. CASE FreezeExports
    <2>1. FrozenAgreement'
      BY <1>3, <1>t, FreezingIsForGood DEF FreezeExports, TypeOK, content
    <2>2. ASSUME NEW row \in batch'
          PROVE  row.meta # NoMeta /\ exports'[<<row.id, row.rev>>] = row.meta
      <3>1. PICK old \in snapshot :
                row = [id |-> old.id, rev |-> old.rev,
                       meta |-> exports'[<<old.id, old.rev>>]]
        BY <1>3 DEF FreezeExports, Printed
      <3>2. exports'[<<old.id, old.rev>>] \in Metas
        BY <1>3, <1>t, FreezingIsForGood DEF FreezeExports, TypeOK
      <3>3. QED
        BY <3>1, <3>2
    <2>3. QED
      BY <2>1, <2>2
  <1>4. CASE \E rows \in orphans : OrphanFreezes(rows)
    <2>1. PICK rows \in orphans : OrphanFreezes(rows)
      BY <1>4
    <2>2. \A p \in Pair : exports[p] # NoMeta => exports'[p] = exports[p]
      BY <2>1, <1>t, FreezingIsForGood DEF OrphanFreezes, TypeOK
    <2>3. \A row \in batch : <<row.id, row.rev>> \in Pair
      BY <1>t, BatchPairs
    <2>4. UNCHANGED <<batch, mail, body>>
      BY <2>1 DEF OrphanFreezes, content, round
    <2>5. QED
      BY <2>2, <2>3, <2>4
  <1>5. CASE Submit
    <2>1. batch' = {} /\ UNCHANGED exports
      BY <1>5 DEF Submit, store
    <2>2. ASSUME NEW p \in Pair, mail'[p] # "absent"
          PROVE  exports[p] # NoMeta /\ body'[p] = exports[p]
      <3>1. CASE mail[p] = "absent" /\ \E row \in batch : <<row.id, row.rev>> = p
        <4>1. body'[p] = (CHOOSE row \in batch : <<row.id, row.rev>> = p).meta
          BY <1>5, <3>1 DEF Submit
        <4>2. QED
          BY <3>1, <4>1
      <3>2. CASE ~(mail[p] = "absent" /\ \E row \in batch : <<row.id, row.rev>> = p)
        BY <1>5, <2>2, <3>2 DEF Submit
      <3>3. QED
        BY <3>1, <3>2
    <2>3. QED
      BY <2>1, <2>2
  <1>6. CASE ContentAck
    <2>1. UNCHANGED <<batch, exports, body>>
      BY <1>6 DEF ContentAck, store
    <2>2. \A p \in cur : p \in Pair
      BY <1>t DEF TypeOK
    <2>3. QED
      BY <1>6, <2>1, <2>2, <1>t DEF ContentAck, TypeOK, PageInv, PageIsDelivered
  <1>7. CASE \E p \in Pair : ContentDelivers(p)
    BY <1>7, <1>t DEF ContentDelivers, store, round, TypeOK
  <1>8. CASE Start \/ DeadlinePasses \/ Reload \/ TimerFires
    BY <1>1, <1>8 DEF Start, DeadlinePasses, Reload, TimerFires, content, round, store
  <1>9. CASE ReadUnsettled \/ SettleWrite \/ \E p \in Pair : SettleRead(p)
    BY <1>1, <1>9 DEF ReadUnsettled, SettleWrite, SettleRead, content, round, store
  <1>10. CASE ListSources \/ PollDone \/ SelectOpen \/ CommitDeadline
    BY <1>1, <1>10 DEF ListSources, PollDone, SelectOpen, CommitDeadline,
                       content, round, store
  <1>11. CASE \E S \in Feeds : \E fetched \in Fetches(S) : PollSource(S, fetched)
    BY <1>1, <1>11 DEF PollSource, Changed, content
  <1>12. CASE \E S \in Feeds : Subscribe(S) \/ Unsubscribe(S)
    BY <1>1, <1>12 DEF Subscribe, Unsubscribe, content, round
  <1>13. CASE RoundFails \/ Crash
    BY <1>2, <1>13 DEF RoundFails, Crash, ForgetRound, store, content
  <1>14. CASE UNCHANGED vars
    BY <1>1, <1>14 DEF vars, round, content, store
  <1>15. QED
    BY <1>3, <1>4, <1>5, <1>6, <1>7, <1>8, <1>9, <1>10, <1>11, <1>12, <1>13, <1>14
       DEF Next, RoundNext

-----------------------------------------------------------------------------
\* The provider's ack bookkeeping: the whole invariant is inductive.
LEMMA AckStep == AckInv /\ [Next]_vars => AckInv'
  <1> SUFFICES ASSUME AckInv, [Next]_vars
               PROVE  /\ PollPhase' /\ DanglingAcks' /\ AckInFlight'
                      /\ AckDone' /\ AckIsExact'
    BY PageStep DEF AckInv
  <1>t. TypeOK /\ TypeOK'
    BY TypeStep DEF AckInv, PageInv
  <1>p. PageIsDelivered
    BY DEF AckInv, PageInv
  <1> USE DEF AckInv, PollPhase, DanglingAcks, AckInFlight, AckDone, AckIsExact, Lost, IsCurrent
  <1>1. CASE Start \/ DeadlinePasses \/ Reload \/ TimerFires
    BY <1>1 DEF Start, DeadlinePasses, Reload, TimerFires, content, round, store
  <1>2. CASE ReadUnsettled
    BY <1>2 DEF ReadUnsettled, content, store
  <1>3. CASE \E p \in Pair : SettleRead(p)
    BY <1>3 DEF SettleRead, content, store
  <1>4. CASE SettleWrite
    <2>1. UNCHANGED <<feed, item, mail, cur, polling>> /\ pc' = "content" /\ polling = {}
      BY <1>4 DEF SettleWrite, content, round
    <2>2. \A e \in acked' : e \in acked \/ \E p \in cur : p[1] = e
      BY <1>4 DEF SettleWrite
    <2>3. \A p \in cur : p[1] \in acked'
      BY <1>4 DEF SettleWrite
    <2>4. \A p \in cur : /\ p = <<p[1], p[2]>>
                         /\ mail[p] = "delivered"
                         /\ IsCurrent(p) \/ (item[p[1]] = NoRow /\ Lost(p[1]))
      BY <1>4, <1>t, <1>p DEF SettleWrite, TypeOK, Pair, PageIsDelivered
    <2>5. AckIsExact'
      BY <2>1, <2>2, <2>4
    <2>6. DanglingAcks'
      BY <2>1, <2>2, <2>4
    <2>7. QED
      BY <2>1, <2>3, <2>5, <2>6
  <1>5. CASE ContentAck
    <2>1. UNCHANGED <<feed, item, acked, polling>> /\ cur' = {} /\ polling = {}
      BY <1>5 DEF ContentAck, store
    <2>2. pc' \in {"settle", "settling"}
      BY <1>5 DEF ContentAck
    <2>3. \A p \in Pair : mail[p] \in {"delivered", "settled"}
                            => mail'[p] \in {"delivered", "settled"}
      BY <1>5 DEF ContentAck
    <2>4. \A e \in acked : item[e] # NoRow => <<e, item[e].rev>> \in Pair
      BY <1>t DEF TypeOK, Pair, Row
    <2>5. QED
      BY <2>1, <2>2, <2>3, <2>4
  <1>6. CASE ListSources
    BY <1>6 DEF ListSources, content, store
  <1>7. CASE \E S \in Feeds : \E fetched \in Fetches(S) : PollSource(S, fetched)
    <2>0. PICK S \in Feeds : \E fetched \in Fetches(S) : PollSource(S, fetched)
      BY <1>7
    <2>1. PICK fetched \in Fetches(S) : PollSource(S, fetched)
      BY <2>0
    <2>2. /\ pc = "poll" /\ pc' = "poll" /\ S \in polling /\ polling' = polling \ {S}
          /\ UNCHANGED <<feed, mail>>
      BY <2>1 DEF PollSource, Changed, content
    <2>3. DOMAIN fetched \subseteq S /\ \A e \in DOMAIN fetched : fetched[e] \in Row
      BY FetchedRows
    <2>4. \A e \in Items :
            item'[e] = IF e \in DOMAIN fetched THEN fetched[e] ELSE item[e]
      BY <2>1 DEF PollSource, Changed
    <2>5. \A e \in acked' :
            e \in acked /\ (e \in DOMAIN fetched /\ item[e] # NoRow
                              => item[e].rev = fetched[e].rev)
      BY <2>1 DEF PollSource, Changed
    <2>6. \A e \in acked : item[e] = NoRow => e \notin S
      BY <2>2
    <2>7. DanglingAcks'
      <3>1. SUFFICES ASSUME NEW e \in acked', item'[e] = NoRow PROVE Lost(e)'
        OBVIOUS
      <3>2. e \in Items /\ e \in acked
        BY <2>5, <1>t DEF TypeOK
      <3>3. e \notin DOMAIN fetched
        BY <2>3, <2>4, <3>1, <3>2 DEF Row
      <3>4. Lost(e)
        BY <2>4, <3>1, <3>2, <3>3
      <3>5. QED
        BY <2>2, <3>4
    <2>8. ASSUME NEW e \in acked', item'[e] # NoRow
          PROVE  mail'[<<e, item'[e].rev>>] \in {"delivered", "settled"}
      <3>1. e \in Items /\ e \in acked
        BY <2>5, <1>t DEF TypeOK
      <3>2. item[e] # NoRow /\ item'[e].rev = item[e].rev
        BY <2>3, <2>4, <2>5, <2>6, <2>8, <3>1
      <3>3. QED
        BY <2>2, <3>1, <3>2
    <2>9. QED
      BY <2>2, <2>7, <2>8
  <1>8. CASE PollDone \/ SelectOpen \/ FreezeExports \/ CommitDeadline
    BY <1>8 DEF PollDone, SelectOpen, FreezeExports, CommitDeadline, content, round, store
  <1>9. CASE Submit
    <2>1. UNCHANGED <<feed, item, acked, polling, cur>> /\ pc = "submit" /\ pc' = "commit"
      BY <1>9 DEF Submit, store
    <2>2. \A p \in Pair : mail[p] \in {"delivered", "settled"} => mail'[p] = mail[p]
      BY <1>9 DEF Submit
    <2>3. \A e \in acked : item[e] # NoRow => <<e, item[e].rev>> \in Pair
      BY <1>t DEF TypeOK, Pair, Row
    <2>4. QED
      BY <2>1, <2>2, <2>3
  <1>10. CASE \E p \in Pair : ContentDelivers(p)
    BY <1>10, <1>t DEF ContentDelivers, round, store, TypeOK, Pair
  <1>11. CASE \E S \in Feeds : Subscribe(S)
    BY <1>11, <1>t DEF Subscribe, content, round, TypeOK
  <1>12. CASE \E S \in Feeds : Unsubscribe(S)
    <2>1. PICK S \in Feeds : Unsubscribe(S)
      BY <1>12
    <2>2. UNCHANGED <<mail, pc, cur, polling>> /\ acked' = acked \ S
      BY <2>1 DEF Unsubscribe, content, round
    <2>3. feed' = [feed EXCEPT ![S] = "gone"] /\ feed[S] = "on"
      BY <2>1 DEF Unsubscribe
    <2>4. \A e \in Items : item'[e] = IF e \in S THEN NoRow ELSE item[e]
      BY <2>1 DEF Unsubscribe
    <2>5. ASSUME NEW e, Lost(e) PROVE Lost(e)'
      BY <2>2, <2>3, <2>5, <1>t DEF TypeOK
    <2>6. DanglingAcks' /\ AckIsExact' /\ PollPhase'
      BY <2>2, <2>4, <2>5, <1>t DEF TypeOK
    <2>7. AckDone'
      <3>1. SUFFICES ASSUME pc = "content", NEW p \in cur, IsCurrent(p)'
                     PROVE  p[1] \in acked'
        BY <2>2
      <3>2. p[1] \in Items
        BY <1>t DEF TypeOK, Pair
      <3>3. p[1] \notin S /\ IsCurrent(p)
        BY <2>4, <3>1, <3>2
      <3>4. QED
        BY <2>2, <3>1, <3>3
    <2>8. AckInFlight'
      <3>1. SUFFICES ASSUME pc = "provider", NEW p \in cur
                     PROVE  IsCurrent(p)' \/ (item'[p[1]] = NoRow /\ Lost(p[1])')
        BY <2>2
      <3>2. p[1] \in Items
        BY <1>t DEF TypeOK, Pair
      <3>3. CASE p[1] \in S
        <4>1. \A T \in Feeds : p[1] \in T => T = S
          BY <3>3, FeedsPartitionItems
        <4>2. S \notin polling
          BY <3>1
        <4>3. Lost(p[1])'
          BY <2>2, <2>3, <4>1, <4>2, <1>t DEF TypeOK
        <4>4. QED
          BY <2>4, <3>2, <3>3, <4>3
      <3>4. CASE p[1] \notin S
        BY <2>2, <2>4, <2>5, <3>1, <3>2, <3>4
      <3>5. QED
        BY <3>3, <3>4
    <2>9. QED
      BY <2>6, <2>7, <2>8
  <1>13. CASE \E rows \in orphans : OrphanFreezes(rows)
    BY <1>13 DEF OrphanFreezes, content, round
  <1>14. CASE RoundFails \/ Crash
    BY <1>14 DEF RoundFails, Crash, ForgetRound, content, store
  <1>15. CASE UNCHANGED vars
    BY <1>15 DEF vars, round, content, store
  <1>16. QED
    BY <1>1, <1>2, <1>3, <1>4, <1>5, <1>6, <1>7, <1>8, <1>9, <1>10, <1>11, <1>12, <1>13,
       <1>14, <1>15 DEF Next, RoundNext

-----------------------------------------------------------------------------
\* What the child selected covers every open admissible item until the
\* deadline moves: meanwhile nothing is ingested, and tools only remove items.
LEMMA OwedStep == OwedInv /\ [Next]_vars => OwedInv'
  <1> SUFFICES ASSUME OwedInv, [Next]_vars PROVE OwedInv'
    OBVIOUS
  <1>t. TypeOK /\ TypeOK'
    BY TypeStep DEF OwedInv
  <1> USE DEF OwedInv
  <1>1. CASE pc' \notin {"freeze", "submit", "commit"}
    BY <1>1, <1>t
  <1>2. CASE SelectOpen
    <2>1. PICK admitted \in SUBSET Open :
              /\ {e \in Open : item[e].meta \in Admissible} \subseteq admitted
              /\ snapshot' = {AsEntry(e) : e \in admitted}
      BY <1>2 DEF SelectOpen
    <2>2. UNCHANGED <<item, acked>> /\ pc' = "freeze"
      BY <1>2 DEF SelectOpen, store
    <2>3. OwedBy(snapshot)'
      <3>1. SUFFICES ASSUME NEW e \in Owed
                     PROVE  \E row \in snapshot' : row.id = e /\ row.rev = item[e].rev
        BY <2>2 DEF OwedBy, Owed, Open
      <3>2. AsEntry(e) \in snapshot'
        BY <2>1, <3>1 DEF Owed
      <3>3. AsEntry(e).id = e /\ AsEntry(e).rev = item[e].rev
        BY DEF AsEntry
      <3>4. QED
        BY <3>2, <3>3
    <2>4. QED
      BY <1>t, <2>2, <2>3
  <1>3. CASE FreezeExports
    <2>1. UNCHANGED <<item, acked>> /\ pc = "freeze" /\ pc' = "submit"
      BY <1>3 DEF FreezeExports
    <2>2. \A row \in snapshot : \E new \in batch' : new.id = row.id /\ new.rev = row.rev
      <3> DEFINE printed(row) == [id |-> row.id, rev |-> row.rev,
                                  meta |-> exports'[<<row.id, row.rev>>]]
      <3>1. \A row \in snapshot : printed(row) \in batch'
        BY <1>3 DEF FreezeExports, Printed
      <3>2. \A row : printed(row).id = row.id /\ printed(row).rev = row.rev
        OBVIOUS
      <3> HIDE DEF printed
      <3>3. QED
        BY <3>1, <3>2
    <2>3. OwedBy(batch)'
      BY <2>1, <2>2 DEF OwedBy, Owed, Open
    <2>4. QED
      BY <1>t, <2>1, <2>3
  <1>4. CASE Submit
    <2>1. UNCHANGED <<item, acked>> /\ pc = "submit" /\ pc' = "commit"
      BY <1>4 DEF Submit, store
    <2>2. \A e \in Owed : <<e, item[e].rev>> \in Pair
      BY <1>t DEF Owed, Open, TypeOK, Pair, Row
    <2>3. \A e \in Owed : mail'[<<e, item[e].rev>>] # "absent"
      BY <1>4, <2>1, <2>2 DEF Submit, OwedBy
    <2>4. QED
      BY <1>t, <2>1, <2>3 DEF Owed, Open
  <1>5. CASE \E p \in Pair : ContentDelivers(p)
    <2>1. UNCHANGED <<item, acked, snapshot, batch, pc>>
      BY <1>5 DEF ContentDelivers, round, store
    <2>2. \A p \in Pair : mail[p] # "absent" => mail'[p] # "absent"
      BY <1>5, <1>t DEF ContentDelivers, TypeOK
    <2>3. \A e \in Owed : <<e, item[e].rev>> \in Pair
      BY <1>t DEF Owed, Open, TypeOK, Pair, Row
    <2>4. QED
      BY <1>t, <2>1, <2>2, <2>3 DEF Owed, Open, OwedBy
  <1>6. CASE \E S \in Feeds : Unsubscribe(S)
    <2>1. PICK S \in Feeds : Unsubscribe(S)
      BY <1>6
    <2>2. UNCHANGED <<mail, snapshot, batch, pc>>
      BY <2>1 DEF Unsubscribe, content, round
    <2>3. \A e \in Owed' : e \in Owed /\ item'[e] = item[e]
      BY <2>1, <1>t DEF Unsubscribe, Owed, Open, TypeOK
    <2>4. QED
      BY <1>t, <2>2, <2>3 DEF OwedBy
  <1>7. CASE UNCHANGED <<item, acked, mail, snapshot, batch, pc>>
    BY <1>t, <1>7 DEF OwedBy, Owed, Open
  <1>8. CASE Start \/ DeadlinePasses \/ Reload \/ TimerFires
    BY <1>1, <1>7, <1>8 DEF Start, DeadlinePasses, Reload, TimerFires, content, round
  <1>9. CASE ReadUnsettled \/ SettleWrite \/ ContentAck \/ \E p \in Pair : SettleRead(p)
    BY <1>1, <1>9 DEF ReadUnsettled, SettleWrite, ContentAck, SettleRead
  <1>10. CASE ListSources \/ PollDone \/ CommitDeadline
    BY <1>1, <1>10 DEF ListSources, PollDone, CommitDeadline
  <1>11. CASE \E S \in Feeds : \E fetched \in Fetches(S) : PollSource(S, fetched)
    BY <1>1, <1>11 DEF PollSource, Changed
  <1>12. CASE \E S \in Feeds : Subscribe(S)
    BY <1>7, <1>12 DEF Subscribe, content, round
  <1>13. CASE \E rows \in orphans : OrphanFreezes(rows)
    BY <1>7, <1>13 DEF OrphanFreezes, content, round
  <1>14. CASE RoundFails \/ Crash
    BY <1>1, <1>14 DEF RoundFails, Crash
  <1>15. CASE UNCHANGED vars
    BY <1>7, <1>15 DEF vars, round, content, store
  <1>16. QED
    BY <1>2, <1>3, <1>4, <1>5, <1>6, <1>8, <1>9, <1>10, <1>11, <1>12, <1>13, <1>14, <1>15
       DEF Next, RoundNext

-----------------------------------------------------------------------------
(* The theorems.                                                            *)

LEMMA InitInvs == Init => FrozenInv /\ AckInv /\ OwedInv
  <1>1. Init => TypeOK
    BY DEF Init, TypeOK, PC
  <1>2. Init => PageInv
    BY <1>1 DEF Init, PageInv, PageIsDelivered
  <1>3. Init => BatchIsFrozen /\ FrozenAgreement
    BY DEF Init, BatchIsFrozen, FrozenAgreement
  <1>4. Init => PollPhase /\ DanglingAcks /\ AckInFlight /\ AckDone /\ AckIsExact
    BY DEF Init, PollPhase, DanglingAcks, AckInFlight, AckDone, AckIsExact
  <1>5. QED
    BY <1>1, <1>2, <1>3, <1>4 DEF FrozenInv, AckInv, OwedInv, Init

LEMMA Invariants == Spec => [](FrozenInv /\ AckInv /\ OwedInv)
  BY InitInvs, FrozenStep, AckStep, OwedStep, PTL DEF Spec

\* An ack of an old revision never closes new content (README, ACK 精确绑定).
THEOREM AcksAreExact == Spec => []AckIsExact
  <1>1. AckInv => AckIsExact
    BY DEF AckInv
  <1>2. QED
    BY <1>1, Invariants, PTL

\* Content and the export table never disagree on a revision's payload.
THEOREM PayloadsAgree == Spec => []FrozenAgreement
  <1>1. FrozenInv => FrozenAgreement
    BY DEF FrozenInv
  <1>2. QED
    BY <1>1, Invariants, PTL

\* So no submission is ever refused for a clash of identities.
THEOREM SubmissionsNeverClash == Spec => []NoConflict
  <1>1. FrozenInv => NoConflict
    <2> SUFFICES ASSUME FrozenInv, NEW row \in batch, mail[<<row.id, row.rev>>] # "absent"
                 PROVE  body[<<row.id, row.rev>>] = row.meta
      BY DEF NoConflict, Conflicts
    <2>1. <<row.id, row.rev>> \in Pair
      BY BatchPairs DEF FrozenInv, PageInv
    <2>2. exports[<<row.id, row.rev>>] = row.meta
      BY DEF FrozenInv, BatchIsFrozen
    <2>3. QED
      BY <2>1, <2>2 DEF FrozenInv, FrozenAgreement
  <1>2. QED
    BY <1>1, Invariants, PTL

\* The provider is done with a revision before Content forgets its receipt.
THEOREM ProviderIsFirst == Spec => ProviderAcksFirst
  <1>1. ASSUME AckInv, [Next]_vars, NEW p \in Pair, mail[p] # "settled", mail'[p] = "settled"
        PROVE  ~IsCurrent(p) \/ p[1] \in acked
    <2>1. CASE ContentAck
      BY <1>1, <2>1 DEF ContentAck, AckInv, AckDone
    <2>2. CASE UNCHANGED mail
      BY <1>1, <2>2
    <2>3. CASE Submit
      BY <1>1, <2>3 DEF Submit
    <2>4. CASE \E q \in Pair : ContentDelivers(q)
      BY <1>1, <2>4 DEF ContentDelivers, AckInv, PageInv, TypeOK
    <2>5. ContentAck \/ UNCHANGED mail \/ Submit \/ \E q \in Pair : ContentDelivers(q)
      BY <1>1 DEF Next, RoundNext, Start, DeadlinePasses, Reload, TimerFires, ReadUnsettled,
         SettleWrite, SettleRead, ListSources, PollDone, PollSource, Changed, SelectOpen, FreezeExports,
         CommitDeadline, Subscribe, Unsubscribe, OrphanFreezes, RoundFails, Crash, vars, content
    <2>6. QED
      BY <2>1, <2>2, <2>3, <2>4, <2>5
  <1>2. AckInv /\ [Next]_vars =>
          [\A p \in Pair : mail[p] # "settled" /\ mail'[p] = "settled"
                             => ~IsCurrent(p) \/ p[1] \in acked]_vars
    BY <1>1
  <1>3. QED
    BY <1>2, Invariants, PTL DEF Spec, ProviderAcksFirst

\* An ack is dropped for changed content or a removed item, never for a refresh.
THEOREM RefreshKeepsAcks == Spec => AckOutlivesRefresh
  <1>1. ASSUME TypeOK, [Next]_vars, NEW e \in acked, e \notin acked'
        PROVE  item'[e] = NoRow \/ item'[e].rev # item[e].rev
    <2>1. e \in Items
      BY <1>1 DEF TypeOK
    <2>2. CASE \E S \in Feeds : \E fetched \in Fetches(S) : PollSource(S, fetched)
      <3>1. PICK S \in Feeds : \E fetched \in Fetches(S) : PollSource(S, fetched)
        BY <2>2
      <3>2. PICK fetched \in Fetches(S) : PollSource(S, fetched)
        BY <3>1
      <3>3. e \in Changed(fetched) /\ item'[e] = fetched[e]
        BY <1>1, <2>1, <3>2 DEF PollSource, Changed
      <3>4. QED
        BY <3>3 DEF Changed
    <2>3. CASE \E S \in Feeds : Unsubscribe(S)
      BY <1>1, <2>1, <2>3 DEF Unsubscribe
    <2>4. CASE acked \subseteq acked'
      BY <1>1, <2>4
    <2>5. \/ \E S \in Feeds : \E fetched \in Fetches(S) : PollSource(S, fetched)
          \/ \E S \in Feeds : Unsubscribe(S)
          \/ acked \subseteq acked'
      BY <1>1 DEF Next, RoundNext, Start, DeadlinePasses, Reload, TimerFires, ReadUnsettled,
         SettleWrite, SettleRead, ContentAck, ListSources, PollDone, SelectOpen, FreezeExports,
         Submit, CommitDeadline, ContentDelivers, Subscribe, OrphanFreezes, RoundFails, Crash,
         vars, store
    <2>6. QED
      BY <2>2, <2>3, <2>4, <2>5
  <1>2. TypeOK /\ [Next]_vars =>
          [\A e \in acked : e \notin acked' => item'[e] = NoRow \/ item'[e].rev # item[e].rev]_vars
    BY <1>1
  <1>3. QED
    BY <1>2, TypeCorrect, PTL DEF Spec, AckOutlivesRefresh

\* Moving the deadline leaves no open admissible item outside Content.
THEOREM DeadlineIsHonest == Spec => DeadlineOwesNothing
  <1>1. ASSUME OwedInv, [Next]_vars, due, ~due'
        PROVE  \A e \in Open : item[e].meta \in Admissible => mail[<<e, item[e].rev>>] # "absent"
    <2>1. CommitDeadline
      BY <1>1 DEF Next, RoundNext, Start, DeadlinePasses, Reload, TimerFires, ReadUnsettled,
         SettleWrite, SettleRead, ContentAck, ListSources, PollDone, PollSource, Changed, SelectOpen,
         FreezeExports, Submit, ContentDelivers, Subscribe, Unsubscribe, OrphanFreezes,
         RoundFails, Crash, vars, store
    <2>2. QED
      BY <1>1, <2>1 DEF CommitDeadline, OwedInv, Owed
  <1>2. OwedInv /\ [Next]_vars =>
          [due /\ ~due' => \A e \in Open : item[e].meta \in Admissible
                                             => mail[<<e, item[e].rev>>] # "absent"]_vars
    BY <1>1
  <1>3. QED
    BY <1>2, Invariants, PTL DEF Spec, DeadlineOwesNothing

-----------------------------------------------------------------------------
(* Every step of the detailed specification is a step of the ledger.         *)

LEMMA LedgerStep ==
    ASSUME AckInv, FrozenInv, [Next]_vars
    PROVE  [Ledger!LedgerNext]_(Ledger!ledgerVars)
  <1>t. TypeOK /\ TypeOK'
    BY TypeStep DEF AckInv, PageInv
  <1>p. PageIsDelivered
    BY DEF AckInv, PageInv
  <1>pair. Ledger!Pair = Pair
    BY DEF Ledger!Pair, Pair
  <1>c. \A e \in Items : CurrentRev[e] = IF item[e] = NoRow THEN NoRev ELSE item[e].rev
    BY DEF CurrentRev
  <1>d. \A e \in Items : CurrentRev'[e] = IF item'[e] = NoRow THEN NoRev ELSE item'[e].rev
    BY DEF CurrentRev
  <1>1. CASE UNCHANGED <<item, acked, exports, mail>>
    BY <1>1 DEF Ledger!ledgerVars, CurrentRev
  <1>2. CASE SettleWrite
    <2>1. UNCHANGED <<CurrentRev, exports, mail>>
      BY <1>2 DEF SettleWrite, content, CurrentRev
    <2>2. CASE cur = {}
      BY <1>1, <1>2, <2>2 DEF SettleWrite, content
    <2>3. ASSUME NEW p \in cur PROVE Ledger!Close
      <3>1. p[1] \in Items /\ p = <<p[1], p[2]>> /\ mail[p] = "delivered"
        BY <1>t, <1>p DEF TypeOK, Pair, PageIsDelivered
      <3>2. acked' = acked \cup {p[1]}
        <4>1. cur = {p}
          BY <1>p DEF PageIsDelivered
        <4>2. QED
          BY <1>2, <4>1 DEF SettleWrite
      <3>3. CurrentRev[p[1]] # NoRev => CurrentRev[p[1]] = p[2]
        BY <1>2, <1>c, <3>1 DEF SettleWrite, AckInv, AckInFlight, IsCurrent
      <3>4. QED
        BY <2>1, <3>1, <3>2, <3>3 DEF Ledger!Close
    <2>4. QED
      BY <2>2, <2>3 DEF Ledger!LedgerNext
  <1>3. CASE ContentAck
    <2>1. UNCHANGED <<CurrentRev, acked, exports>>
      BY <1>3 DEF ContentAck, store, CurrentRev
    <2>2. CASE cur = {}
      <3>1. mail' = mail
        BY <1>3, <1>t, <2>2 DEF ContentAck, TypeOK
      <3>2. QED
        BY <1>1, <1>3, <3>1 DEF ContentAck, store
    <2>3. ASSUME NEW p \in cur PROVE Ledger!Settle
      <3>1. p \in Pair /\ p[1] \in Items /\ p[2] \in Revs /\ mail[p] = "delivered"
        BY <1>t, <1>p DEF TypeOK, Pair, PageIsDelivered
      <3>2. mail' = [mail EXCEPT ![p] = "settled"]
        <4>1. cur = {p}
          BY <1>p DEF PageIsDelivered
        <4>2. QED
          BY <1>3, <1>t, <4>1 DEF ContentAck, TypeOK
      <3>3. CurrentRev[p[1]] = p[2] => p[1] \in acked
        BY <1>3, <1>c, <3>1, RowSentinels DEF ContentAck, AckInv, AckDone, IsCurrent
      <3>4. QED
        BY <1>pair, <2>1, <3>1, <3>2, <3>3 DEF Ledger!Settle
    <2>4. QED
      BY <2>2, <2>3 DEF Ledger!LedgerNext
  <1>4. CASE \E S \in Feeds : \E fetched \in Fetches(S) : PollSource(S, fetched)
    <2>0. PICK S \in Feeds : \E fetched \in Fetches(S) : PollSource(S, fetched)
      BY <1>4
    <2>1. PICK fetched \in Fetches(S) : PollSource(S, fetched)
      BY <2>0
    <2>2. \A e \in Items : item'[e] = IF e \in DOMAIN fetched THEN fetched[e] ELSE item[e]
      BY <2>1 DEF PollSource, Changed
    <2>3. \A e \in DOMAIN fetched : /\ fetched[e] \in Row /\ fetched[e].rev \in Revs
                                    /\ fetched[e] # NoRow /\ fetched[e].rev # NoRev
      BY FetchedRows, RowSentinels DEF Row
    <2>4. CurrentRev' \in [Items -> Revs \cup {NoRev}]
      <3>1. \A e \in Items : item'[e] # NoRow => item'[e].rev \in Revs
        BY <1>t DEF TypeOK, Row
      <3>2. QED
        BY <3>1 DEF CurrentRev
    <2>5. \A e \in Items : CurrentRev'[e] # CurrentRev[e] => CurrentRev'[e] # NoRev
      BY <1>c, <1>d, <2>2, <2>3
    <2>6. acked' = acked \ {e \in Items : CurrentRev[e] # NoRev /\ CurrentRev'[e] # CurrentRev[e]}
      <3>1. \A e \in Items : (CurrentRev[e] # NoRev /\ CurrentRev'[e] # CurrentRev[e])
               <=> (e \in DOMAIN fetched /\ item[e] # NoRow /\ item[e].rev # fetched[e].rev)
        <4>1. \A e \in Items : item[e] # NoRow => item[e].rev \in Revs
          BY <1>t DEF TypeOK, Row
        <4>2. ASSUME NEW e \in Items, e \in DOMAIN fetched
              PROVE  CurrentRev'[e] = fetched[e].rev
          BY <1>d, <2>2, <2>3, <4>2
        <4>3. ASSUME NEW e \in Items, e \notin DOMAIN fetched
              PROVE  CurrentRev'[e] = CurrentRev[e]
          BY <1>c, <1>d, <2>2, <4>3
        <4>4. QED
          BY <1>c, <4>1, <4>2, <4>3, RowSentinels
      <3>2. acked' = {e \in acked : ~(e \in DOMAIN fetched /\ item[e] # NoRow
                                         /\ item[e].rev # fetched[e].rev)}
        BY <2>1 DEF PollSource, Changed
      <3>3. acked \subseteq Items
        BY <1>t DEF TypeOK
      <3>4. QED
        BY <3>1, <3>2, <3>3
    <2>7. UNCHANGED <<exports, mail>>
      BY <2>1 DEF PollSource, Changed, content
    <2>8. Ledger!Publish
      BY <2>4, <2>5, <2>6, <2>7 DEF Ledger!Publish
    <2>9. QED
      BY <2>8 DEF Ledger!LedgerNext
  <1>5. CASE \E S \in Feeds : Unsubscribe(S)
    <2>1. PICK S \in Feeds : Unsubscribe(S)
      BY <1>5
    <2> DEFINE gone == {e \in S : item[e] # NoRow}
    <2>2. gone \in SUBSET Items
      BY FeedsPartitionItems
    <2>3. /\ CurrentRev' = [e \in Items |-> IF e \in gone THEN NoRev ELSE CurrentRev[e]]
          /\ acked' = acked \ gone
          /\ UNCHANGED <<exports, mail>>
      BY <2>1 DEF Unsubscribe, CurrentRev, content
    <2> HIDE DEF gone
    <2>4. Ledger!Withdraw
      BY <2>2, <2>3 DEF Ledger!Withdraw
    <2>5. QED
      BY <2>4 DEF Ledger!LedgerNext
  <1>6. CASE FreezeExports \/ \E rows \in orphans : OrphanFreezes(rows)
    <2>1. \A p \in Pair : exports[p] # NoMeta => exports'[p] = exports[p]
      BY <1>6, <1>t, FreezingIsForGood DEF FreezeExports, OrphanFreezes, TypeOK
    <2>2. UNCHANGED <<CurrentRev, acked, mail>>
      BY <1>6 DEF FreezeExports, OrphanFreezes, content, CurrentRev
    <2>3. Ledger!Freeze
      BY <1>t, <1>pair, <2>1, <2>2 DEF TypeOK, Ledger!Freeze
    <2>4. QED
      BY <2>3 DEF Ledger!LedgerNext
  <1>7. CASE Submit
    <2> DEFINE offered == {p \in Pair : \E row \in batch : <<row.id, row.rev>> = p}
    <2>1. \A p \in offered : exports[p] # NoMeta
      BY DEF FrozenInv, BatchIsFrozen
    <2>2. mail' = [p \in Pair |-> IF p \in offered /\ mail[p] = "absent"
                                  THEN "pending" ELSE mail[p]]
      BY <1>7 DEF Submit
    <2>3. UNCHANGED <<CurrentRev, acked, exports>>
      BY <1>7 DEF Submit, store, CurrentRev
    <2>4. offered \in SUBSET Pair
      OBVIOUS
    <2> HIDE DEF offered
    <2>5. Ledger!Offer
      BY <1>pair, <2>1, <2>2, <2>3, <2>4 DEF Ledger!Offer
    <2>6. QED
      BY <2>5 DEF Ledger!LedgerNext
  <1>8. CASE \E p \in Pair : ContentDelivers(p)
    <2>1. UNCHANGED CurrentRev
      BY <1>8 DEF ContentDelivers, store, CurrentRev
    <2>2. Ledger!Deliver
      BY <1>8, <1>pair, <2>1 DEF ContentDelivers, store, Ledger!Deliver
    <2>3. QED
      BY <2>2 DEF Ledger!LedgerNext
  <1>9. CASE Start \/ DeadlinePasses \/ Reload \/ TimerFires
    BY <1>1, <1>9 DEF Start, DeadlinePasses, Reload, TimerFires, content, store
  <1>10. CASE ReadUnsettled \/ (\E p \in Pair : SettleRead(p)) \/ ListSources
    BY <1>1, <1>10 DEF ReadUnsettled, SettleRead, ListSources, content, store
  <1>11. CASE PollDone \/ SelectOpen \/ CommitDeadline
    BY <1>1, <1>11 DEF PollDone, SelectOpen, CommitDeadline, content, store
  <1>12. CASE \E S \in Feeds : Subscribe(S)
    BY <1>1, <1>12 DEF Subscribe, content
  <1>13. CASE RoundFails \/ Crash
    BY <1>1, <1>13 DEF RoundFails, Crash, content, store
  <1>14. CASE UNCHANGED vars
    BY <1>1, <1>14 DEF vars, content, store
  <1>15. QED
    BY <1>2, <1>3, <1>4, <1>5, <1>6, <1>7, <1>8, <1>9, <1>10, <1>11, <1>12, <1>13, <1>14
       DEF Next, RoundNext

\* FeedDelivery implements RevisionLedger.
THEOREM ImplementsLedger == Spec => LedgerSpec
  <1>1. Init => Ledger!LedgerInit
    BY DEF Init, Ledger!LedgerInit, Ledger!Pair, Pair, CurrentRev
  <1>2. FrozenInv /\ AckInv /\ [Next]_vars => [Ledger!LedgerNext]_(Ledger!ledgerVars)
    BY LedgerStep
  <1>3. QED
    BY <1>1, <1>2, Invariants, PTL DEF Spec, LedgerSpec, Ledger!LedgerSpec

-----------------------------------------------------------------------------
(* A round cannot go on for ever. What it measures its way by is finite: there  *)
(* are finitely many rows, sources and receipts at any time, although there may *)
(* be infinitely many of each in the end.                                     *)
Listed == {e \in Items : item[e] # NoRow}
Sources == {S \in Feeds : feed[S] = "on"}

FiniteInv ==
    /\ IsFiniteSet(Listed) /\ IsFiniteSet(Sources) /\ IsFiniteSet(polling)
    /\ IsFiniteSet(snapshot) /\ IsFiniteSet(batch) /\ IsFiniteSet(Waiting)

InHand == pc \in {"provider", "content"} => cur # {}

Polls == \E S \in Feeds : \E fetched \in Fetches(S) : PollSource(S, fetched)

\* Who adds to what.
LEMMA RoundFootprint ==
    ASSUME [Next]_vars
    PROVE  /\ item' = item \/ Polls \/ \E S \in Feeds : Unsubscribe(S)
           /\ feed' = feed \/ \E S \in Feeds : Subscribe(S) \/ Unsubscribe(S)
           /\ mail' = mail \/ ContentAck \/ Submit \/ \E p \in Pair : ContentDelivers(p)
           /\ polling' \in {polling, {}} \/ ListSources \/ Polls
           /\ snapshot' \in {snapshot, {}} \/ SelectOpen
           /\ batch' \in {batch, {}} \/ FreezeExports
  <1>1. CASE Start \/ DeadlinePasses \/ Reload \/ TimerFires
    BY <1>1 DEF Start, DeadlinePasses, Reload, TimerFires, content, round, store
  <1>2. CASE ReadUnsettled \/ SettleWrite \/ ContentAck \/ \E p \in Pair : SettleRead(p)
    BY <1>2 DEF ReadUnsettled, SettleWrite, ContentAck, SettleRead, content, round, store
  <1>3. CASE ListSources \/ PollDone \/ SelectOpen \/ FreezeExports
    BY <1>3 DEF ListSources, PollDone, SelectOpen, FreezeExports, content, round, store
  <1>4. CASE Submit \/ CommitDeadline \/ \E p \in Pair : ContentDelivers(p)
    BY <1>4 DEF Submit, CommitDeadline, ContentDelivers, content, round, store
  <1>5. CASE Polls
    BY <1>5 DEF Polls, PollSource, content
  <1>6. CASE \E S \in Feeds : Subscribe(S) \/ Unsubscribe(S)
    BY <1>6 DEF Subscribe, Unsubscribe, content, round
  <1>7. CASE \E rows \in orphans : OrphanFreezes(rows)
    BY <1>7 DEF OrphanFreezes, content, round
  <1>8. CASE RoundFails \/ Crash
    BY <1>8 DEF RoundFails, Crash, ForgetRound, store, content
  <1>9. CASE UNCHANGED vars
    BY <1>9 DEF vars, round, content, store
  <1>10. QED
    BY <1>1, <1>2, <1>3, <1>4, <1>5, <1>6, <1>7, <1>8, <1>9 DEF Next, RoundNext, Polls

LEMMA TablesStayFinite ==
    ASSUME TypeOK, FiniteInv, [Next]_vars
    PROVE  IsFiniteSet(Listed') /\ IsFiniteSet(Sources') /\ IsFiniteSet(polling')
  <1>0. IsFiniteSet(Listed) /\ IsFiniteSet(Sources) /\ IsFiniteSet(polling) /\ IsFiniteSet({})
    BY FS_EmptySet DEF FiniteInv
  <1>1. IsFiniteSet(Listed')
    <2>1. CASE Polls
      <3>0. PICK S \in Feeds : \E fetched \in Fetches(S) : PollSource(S, fetched)
        BY <2>1 DEF Polls
      <3>1. PICK fetched \in Fetches(S) : PollSource(S, fetched)
        BY <3>0
      <3>2. IsFiniteSet(DOMAIN fetched)
        BY DEF Fetches
      <3>3. Listed' \subseteq Listed \cup DOMAIN fetched
        BY <3>1 DEF PollSource, Listed
      <3>4. IsFiniteSet(Listed \cup DOMAIN fetched)
        BY <1>0, <3>2, FS_Union
      <3>5. QED
        BY <3>3, <3>4, FS_Subset
    <2>2. CASE \E S \in Feeds : Unsubscribe(S)
      <3>1. Listed' \subseteq Listed
        BY <2>2 DEF Unsubscribe, Listed
      <3>2. QED
        BY <1>0, <3>1, FS_Subset
    <2>3. CASE item' = item
      BY <1>0, <2>3 DEF Listed
    <2>4. QED
      BY <2>1, <2>2, <2>3, RoundFootprint
  <1>2. IsFiniteSet(Sources')
    <2>1. ASSUME NEW S \in Feeds, Subscribe(S) \/ Unsubscribe(S) PROVE IsFiniteSet(Sources')
      <3>1. Sources' \subseteq Sources \cup {S}
        BY <2>1 DEF TypeOK, Subscribe, Unsubscribe, Sources
      <3>2. IsFiniteSet(Sources \cup {S})
        BY <1>0, FS_AddElement
      <3>3. QED
        BY <3>1, <3>2, FS_Subset
    <2>2. CASE feed' = feed
      BY <1>0, <2>2 DEF Sources
    <2>3. QED
      BY <2>1, <2>2, RoundFootprint
  <1>3. IsFiniteSet(polling')
    <2>1. CASE ListSources
      BY <1>0, <2>1 DEF ListSources, Sources
    <2>2. CASE Polls
      <3>1. polling' \subseteq polling
        BY <2>2 DEF Polls, PollSource
      <3>2. QED
        BY <1>0, <3>1, FS_Subset
    <2>3. CASE polling' \in {polling, {}}
      BY <1>0, <2>3
    <2>4. QED
      BY <2>1, <2>2, <2>3, RoundFootprint
  <1>4. QED
    BY <1>1, <1>2, <1>3

LEMMA BatchesStayFinite ==
    ASSUME TypeOK, FiniteInv, [Next]_vars
    PROVE  IsFiniteSet(snapshot') /\ IsFiniteSet(batch') /\ IsFiniteSet(Waiting')
  <1>0. /\ IsFiniteSet(Listed) /\ IsFiniteSet(snapshot) /\ IsFiniteSet(batch)
        /\ IsFiniteSet(Waiting) /\ IsFiniteSet({})
    BY FS_EmptySet DEF FiniteInv
  <1>1. IsFiniteSet(snapshot')
    <2>1. CASE SelectOpen
      <3>1. PICK admitted \in SUBSET Open : snapshot' = {AsEntry(e) : e \in admitted}
        BY <2>1 DEF SelectOpen
      <3>2. admitted \subseteq Listed
        BY DEF Open, Listed
      <3>3. IsFiniteSet(admitted)
        BY <1>0, <3>2, FS_Subset
      <3> DEFINE entry == [e \in admitted |-> AsEntry(e)]
      <3>4. entry \in Surjection(admitted, snapshot')
        BY <3>1 DEF Surjection
      <3>5. QED
        BY <3>3, <3>4, FS_Surjection
    <2>2. CASE snapshot' \in {snapshot, {}}
      BY <1>0, <2>2
    <2>3. QED
      BY <2>1, <2>2, RoundFootprint
  <1>2. IsFiniteSet(batch')
    <2>1. CASE FreezeExports
      <3> DEFINE print == [row \in snapshot |->
                     [id |-> row.id, rev |-> row.rev, meta |-> exports'[<<row.id, row.rev>>]]]
      <3>1. print \in Surjection(snapshot, batch')
        BY <2>1 DEF FreezeExports, Printed, Surjection
      <3>2. QED
        BY <1>0, <3>1, FS_Surjection
    <2>2. CASE batch' \in {batch, {}}
      BY <1>0, <2>2
    <2>3. QED
      BY <2>1, <2>2, RoundFootprint
  <1>3. IsFiniteSet(Waiting')
    <2>1. CASE Submit
      <3> DEFINE sent == {<<row.id, row.rev>> : row \in batch}
                 pair == [row \in batch |-> <<row.id, row.rev>>]
      <3>1. pair \in Surjection(batch, sent)
        BY DEF Surjection
      <3>2. IsFiniteSet(sent)
        BY <1>0, <3>1, FS_Surjection
      <3>3. Waiting' \subseteq Waiting \cup sent
        BY <2>1 DEF Submit, Waiting
      <3>4. IsFiniteSet(Waiting \cup sent)
        BY <1>0, <3>2, FS_Union
      <3>5. QED
        BY <3>3, <3>4, FS_Subset
    <2>2. CASE mail' = mail \/ ContentAck \/ \E p \in Pair : ContentDelivers(p)
      <3>1. Waiting' \subseteq Waiting
        BY <2>2 DEF TypeOK, ContentAck, ContentDelivers, Waiting
      <3>2. QED
        BY <1>0, <3>1, FS_Subset
    <2>3. QED
      BY <2>1, <2>2, RoundFootprint
  <1>4. QED
    BY <1>1, <1>2, <1>3

LEMMA FiniteHolds == Spec => [](PageInv /\ FiniteInv /\ InHand)
  <1>1. Init => FiniteInv /\ InHand
    <2>1. SUFFICES ASSUME Init PROVE FiniteInv /\ InHand
      OBVIOUS
    <2>2. Listed = {} /\ Sources = {} /\ Waiting = {}
      BY <2>1 DEF Init, Listed, Sources, Waiting
    <2>3. QED
      BY <2>1, <2>2, FS_EmptySet DEF Init, FiniteInv, InHand
  <1>2. TypeOK /\ FiniteInv /\ [Next]_vars => FiniteInv'
    BY TablesStayFinite, BatchesStayFinite DEF FiniteInv
  <1>3. PageInv /\ InHand /\ [Next]_vars => InHand'
    <2> SUFFICES ASSUME PageInv, InHand, [Next]_vars PROVE InHand'
      OBVIOUS
    <2>1. CASE Start \/ DeadlinePasses \/ Reload \/ TimerFires
      BY <2>1 DEF Start, DeadlinePasses, Reload, TimerFires, round, InHand
    <2>2. CASE ReadUnsettled \/ SettleWrite \/ ContentAck \/ \E p \in Pair : SettleRead(p)
      BY <2>2 DEF ReadUnsettled, SettleWrite, ContentAck, SettleRead, round, InHand
    <2>3. CASE ListSources \/ PollDone \/ SelectOpen \/ FreezeExports \/ Submit \/ CommitDeadline
      BY <2>3 DEF ListSources, PollDone, SelectOpen, FreezeExports, Submit, CommitDeadline, InHand
    <2>4. CASE Polls \/ \E p \in Pair : ContentDelivers(p)
      BY <2>4 DEF Polls, PollSource, ContentDelivers, round, InHand
    <2>5. CASE \/ \E S \in Feeds : Subscribe(S) \/ Unsubscribe(S)
               \/ \E rows \in orphans : OrphanFreezes(rows)
      BY <2>5 DEF Subscribe, Unsubscribe, OrphanFreezes, round, InHand
    <2>6. CASE RoundFails \/ Crash \/ UNCHANGED vars
      BY <2>6 DEF RoundFails, Crash, vars, round, InHand
    <2>7. QED
      BY <2>1, <2>2, <2>3, <2>4, <2>5, <2>6 DEF Next, RoundNext, Polls
  <1>4. PageInv => TypeOK
    BY DEF PageInv
  <1>5. Init => PageInv
    BY InitInvs DEF FrozenInv
  <1>6. QED
    BY <1>1, <1>2, <1>3, <1>4, <1>5, PageStep, PTL DEF Spec

LEMMA SettlingNears ==
    ASSUME PageInv, FiniteInv, InHand,
           ReadUnsettled \/ SettleWrite \/ ContentAck \/ \E p \in Pair : SettleRead(p)
    PROVE  Nearer
  <1>0. Cardinality(Waiting) \in Nat
    BY FS_CardinalityType DEF FiniteInv
  <1>1. CASE ContentAck
    <2>1. pc = "content" /\ pc' \in {"settle", "settling"}
      BY <1>1 DEF ContentAck
    <2>2. PICK p \in cur : cur = {p}
      BY <2>1 DEF InHand, PageInv, PageIsDelivered
    <2>3. p \in Pair /\ mail[p] = "delivered"
      BY DEF PageInv, PageIsDelivered, TypeOK
    <2>4. Waiting' = Waiting \ {p} /\ p \in Waiting
      BY <1>1, <2>2, <2>3 DEF ContentAck, Waiting
    <2>5. Cardinality(Waiting') = Cardinality(Waiting) - 1
      BY <2>4, FS_RemoveElement DEF FiniteInv
    <2>6. Stages' = 7 /\ Stages = 7
      BY <2>1 DEF Stages
    <2>7. StepsLeft' < StepsLeft
      BY <1>0, <2>1, <2>5 DEF StepsLeft
    <2>8. QED
      BY <2>6, <2>7 DEF Nearer
  <1>2. CASE ReadUnsettled \/ SettleWrite \/ \E p \in Pair : SettleRead(p)
    <2>1. Waiting' = Waiting
      BY <1>2 DEF ReadUnsettled, SettleWrite, SettleRead, content, Waiting
    <2>2. \/ pc = "settle" /\ pc' \in {"list", "settling"}
          \/ pc = "settling" /\ pc' \in {"provider", "content"}
          \/ pc = "provider" /\ pc' = "content"
      BY <1>2 DEF ReadUnsettled, SettleWrite, SettleRead
    <2>3. CASE pc' = "list"
      BY <2>2, <2>3 DEF Stages, Nearer
    <2>4. CASE pc' # "list"
      <3>1. Stages' = 7 /\ Stages = 7
        BY <2>2, <2>4 DEF Stages
      <3>2. StepsLeft' < StepsLeft
        BY <1>0, <2>1, <2>2, <2>4 DEF StepsLeft
      <3>3. QED
        BY <3>1, <3>2 DEF Nearer
    <2>5. QED
      BY <2>3, <2>4
  <1>3. QED
    BY <1>1, <1>2

LEMMA PollingNears ==
    ASSUME FiniteInv, Polls
    PROVE  Nearer
  <1>1. PICK S \in Feeds : \E fetched \in Fetches(S) : PollSource(S, fetched)
    BY DEF Polls
  <1>2. pc = "poll" /\ pc' = "poll" /\ S \in polling /\ polling' = polling \ {S}
    BY <1>1 DEF PollSource
  <1>3. Cardinality(polling) \in Nat /\ Cardinality(polling') = Cardinality(polling) - 1
    BY <1>2, FS_CardinalityType, FS_RemoveElement DEF FiniteInv
  <1>4. Stages' = Stages /\ StepsLeft' = Cardinality(polling') /\ StepsLeft = Cardinality(polling)
    BY <1>2 DEF Stages, StepsLeft
  <1>5. QED
    BY <1>3, <1>4 DEF Nearer

LEMMA RoundNears ==
    ASSUME PageInv, FiniteInv, InHand, RoundNext, pc \in RoundSteps
    PROVE  Nearer
  <1>1. CASE ListSources \/ PollDone \/ SelectOpen \/ FreezeExports \/ Submit \/ CommitDeadline
    BY <1>1 DEF ListSources, PollDone, SelectOpen, FreezeExports, Submit, CommitDeadline, Stages,
       Nearer
  <1>2. ~TimerFires
    BY DEF TimerFires, RoundSteps
  <1>3. QED
    BY <1>1, <1>2, SettlingNears, PollingNears DEF RoundNext, Polls

\* A round cannot go on for ever, for any number of items, sources and receipts:
\* RoundsComeToAnEnd, of _wait_poll_rearm, the loop of _settle_delivered included.
THEOREM RoundsEnd == Spec => RoundsComeToAnEnd
  <1>1. ASSUME PageInv, FiniteInv, InHand, [Next]_vars, pc \in RoundSteps, ~RoundNext
        PROVE  Nearer \/ (UNCHANGED pc /\ StepsLeft' = StepsLeft)
    <2>1. CASE RoundFails \/ Crash
      BY <1>1, <2>1 DEF RoundFails, Crash, RoundSteps, Stages, Nearer
    <2>2. CASE UNCHANGED <<pc, polling>> /\ Waiting' = Waiting
      BY <2>2 DEF StepsLeft
    <2>3. CASE \/ DeadlinePasses \/ UNCHANGED vars
               \/ \E S \in Feeds : Subscribe(S) \/ Unsubscribe(S)
               \/ \E rows \in orphans : OrphanFreezes(rows)
      <3>1. UNCHANGED <<pc, polling, mail>>
        BY <2>3 DEF DeadlinePasses, Subscribe, Unsubscribe, OrphanFreezes, round, content, vars
      <3>2. QED
        BY <2>2, <3>1 DEF Waiting
    <2>4. CASE \E p \in Pair : ContentDelivers(p)
      <3>1. UNCHANGED <<pc, polling>>
        BY <2>4 DEF ContentDelivers, round
      <3>2. Waiting' = Waiting
        BY <1>1, <2>4 DEF ContentDelivers, Waiting, PageInv, TypeOK
      <3>3. QED
        BY <2>2, <3>1, <3>2
    <2>5. ~Start /\ ~Reload
      BY <1>1 DEF Start, Reload, RoundSteps
    <2>6. QED
      BY <1>1, <2>1, <2>3, <2>4, <2>5 DEF Next
  <1>2. PageInv /\ FiniteInv /\ InHand /\ [Next]_vars =>
          [(pc \in RoundSteps) =>
              Nearer \/ (~RoundNext /\ UNCHANGED pc /\ StepsLeft' = StepsLeft)]_vars
    BY <1>1, RoundNears
  <1>3. QED
    BY <1>2, FiniteHolds, PTL DEF Spec, RoundsComeToAnEnd
=============================================================================
