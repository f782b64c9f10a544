---------------------------- MODULE FeedDelivery ----------------------------
(***************************************************************************)
(* The path of a Feed item from a polled source to the user and back: the   *)
(* provider database of feed_runtime/backend.py, the poll round of           *)
(* FeedContentRuntime in content_source.py, and the Content inbox the round  *)
(* talks to (EventMail, external).                                          *)
(*                                                                          *)
(* One round of the poll task settles delivered receipts, polls every        *)
(* source, freezes the open items in a child process, submits them and moves *)
(* the durable deadline. Between any two awaits of the round the user's      *)
(* tools may subscribe or unsubscribe in a thread, Content may deliver, the  *)
(* process may die (an orphaned child may outlive it), or the step may fail. *)
(***************************************************************************)
EXTENDS Naturals, FiniteSets

CONSTANTS
    Items,      \* event ids
    Revs,       \* content hashes: what title and content hash to
    Metas,      \* what the hash leaves out: author, url, dates, score
    Admissible, \* the metas whose score always reaches the admission floor
    Feeds,      \* the sources, each the set of event ids it owns
    PageSize,   \* how many receipts unsettled() returns at most (100)
    MaxFaults,  \* bound: crashes and failed rounds in a behaviour
    NoRow, NoMeta, NoRev

ASSUME RowSentinels ==
    /\ NoRow \notin [rev : Revs, meta : Metas]
    /\ NoMeta \notin Metas
    /\ NoRev \notin Revs
ASSUME FeedsPartitionItems ==
    /\ Feeds \subseteq SUBSET Items
    /\ \A S, T \in Feeds : S # T => S \cap T = {}
ASSUME BoundsAreNaturals == PageSize \in Nat \ {0} /\ MaxFaults \in Nat
ASSUME AdmissibleMetas == Admissible \subseteq Metas

VARIABLES
    feed,     \* table sources: a source is "new", "on" or "gone" (ids are never reused)
    item,     \* table items: the row of each event id, or NoRow
    acked,    \* table acked_items
    exports,  \* table content_exports: the frozen payload of an exact revision
    due,      \* metadata content_source_next_due is not in the future
    mail,     \* Content: the state of each exact revision
    body,     \* Content: the payload it was submitted with
    pc,       \* where the poll task is
    queue,    \* the page of unsettled receipts still to work off
    cur,      \* the receipt in hand: {} or one exact revision
    polling,  \* the sources read at the start of the poll and not polled yet
    snapshot, \* the open rows the child process ranked and freezes
    batch,    \* what the child process printed: the items to submit
    orphans,  \* snapshots of child processes that outlived their host
    faults    \* crashes and failures so far

store == <<feed, item, acked, exports, due>>
content == <<mail, body>>
round == <<queue, cur, polling, snapshot, batch>>
vars == <<store, content, pc, round, orphans, faults>>

Pair == Items \X Revs
Row == [rev : Revs, meta : Metas]
Entry == [id : Items, rev : Revs, meta : Metas]

RoundSteps == {"settle", "settling", "provider", "content", "list", "poll",
               "prepare", "freeze", "submit", "commit"}
PC == {"down", "armed", "dormant"} \cup RoundSteps

TypeOK ==
    /\ feed \in [Feeds -> {"new", "on", "gone"}]
    /\ item \in [Items -> Row \cup {NoRow}]
    /\ acked \in SUBSET Items
    /\ exports \in [Pair -> Metas \cup {NoMeta}]
    /\ due \in BOOLEAN
    /\ mail \in [Pair -> {"absent", "pending", "delivered", "settled"}]
    /\ body \in [Pair -> Metas \cup {NoMeta}]
    /\ pc \in PC
    /\ queue \in SUBSET Pair
    /\ cur \in SUBSET Pair
    /\ polling \in SUBSET Feeds
    /\ snapshot \in SUBSET Entry
    /\ batch \in SUBSET Entry
    /\ orphans \in SUBSET SUBSET Entry
    /\ faults \in 0..MaxFaults

Init ==
    /\ feed = [S \in Feeds |-> "new"]
    /\ item = [e \in Items |-> NoRow]
    /\ acked = {}
    /\ exports = [p \in Pair |-> NoMeta]
    /\ due = TRUE
    /\ mail = [p \in Pair |-> "absent"]
    /\ body = [p \in Pair |-> NoMeta]
    /\ pc = "down"
    /\ queue = {} /\ cur = {} /\ polling = {} /\ snapshot = {} /\ batch = {}
    /\ orphans = {}
    /\ faults = 0

-----------------------------------------------------------------------------
(* The poll task: start, and the one-shot timer.                            *)

Start ==
    /\ pc = "down"
    /\ pc' = "armed"
    /\ UNCHANGED <<store, content, round, orphans, faults>>

\* The clock reaches the durable deadline.
DeadlinePasses ==
    /\ ~due
    /\ due' = TRUE
    /\ UNCHANGED <<feed, item, acked, exports, content, pc, round, orphans, faults>>

TimerFires ==
    /\ pc = "armed"
    /\ due
    /\ pc' = "settle"
    /\ UNCHANGED <<store, content, round, orphans, faults>>

-----------------------------------------------------------------------------
(* Settlement: provider first, Content second, one receipt at a time.       *)

Delivered == {p \in Pair : mail[p] = "delivered"}

\* content.unsettled(100): a page of receipts, or the end of the loop.
ReadUnsettled ==
    /\ pc = "settle"
    /\ IF Delivered = {}
       THEN /\ pc' = "list"
            /\ UNCHANGED queue
       ELSE /\ \E page \in SUBSET Delivered :
                   /\ page # {}
                   /\ Cardinality(page) <= PageSize
                   /\ queue' = page
            /\ pc' = "settling"
    /\ UNCHANGED <<store, content, cur, polling, snapshot, batch, orphans, faults>>

\* Mutant: any revision of an item that is still there.
IsListed(p) == item[p[1]] # NoRow

IsCurrent(p) == item[p[1]] # NoRow /\ item[p[1]].rev = p[2]

\* Mutant: Content is acked first, the provider never.
SettleContentFirst(p) ==
    /\ pc = "settling"
    /\ p \in queue
    /\ queue' = queue \ {p}
    /\ cur' = {p}
    /\ pc' = "content"
    /\ UNCHANGED <<store, content, polling, snapshot, batch, orphans, faults>>

\* Mutant: receipts the provider has no use for are left with Content.
SettleSkipsObsolete(p) ==
    /\ pc = "settling"
    /\ p \in queue
    /\ queue' = queue \ {p}
    /\ cur' = IF IsCurrent(p) THEN {p} ELSE {}
    /\ pc' = IF IsCurrent(p) THEN "provider" ELSE IF queue' = {} THEN "settle" ELSE "settling"
    /\ UNCHANGED <<store, content, polling, snapshot, batch, orphans, faults>>

\* settle_content_item reads the revision; not_pending and obsolete_revision
\* end there, an exact match goes on to the INSERT.
SettleRead(p) ==
    /\ pc = "settling"
    /\ p \in queue
    /\ queue' = queue \ {p}
    /\ cur' = {p}
    /\ pc' = IF IsCurrent(p) THEN "provider" ELSE "content"
    /\ UNCHANGED <<store, content, polling, snapshot, batch, orphans, faults>>

\* ... the INSERT INTO acked_items, a statement and a commit of its own.
SettleWrite ==
    /\ pc = "provider"
    /\ acked' = acked \cup {p[1] : p \in cur}
    /\ pc' = "content"
    /\ UNCHANGED <<feed, item, exports, due, content, round, orphans, faults>>

\* content.ack of the same receipt; then the next row, or the next page.
ContentAck ==
    /\ pc = "content"
    /\ mail' = [p \in Pair |-> IF p \in cur THEN "settled" ELSE mail[p]]
    /\ cur' = {}
    /\ pc' = IF queue = {} THEN "settle" ELSE "settling"
    /\ UNCHANGED <<store, body, queue, polling, snapshot, batch, orphans, faults>>

-----------------------------------------------------------------------------
(* Polling: the source list is read once, then every source in turn.        *)

ListSources ==
    /\ pc = "list"
    /\ polling' = {S \in Feeds : feed[S] = "on"}
    /\ pc' = "poll"
    /\ UNCHANGED <<store, content, queue, cur, snapshot, batch, orphans, faults>>

\* Mutant: an item whose content changed keeps its ack.
NeverChanged(fetched) == {}

\* The items whose content hash the fetch changes: their acks are deleted.
Changed(fetched) == {e \in DOMAIN fetched : item[e] # NoRow /\ item[e].rev # fetched[e].rev}

\* _ingest_items for what one fetch returned: `fetched` is empty for a source
\* that is not due or failed, partial for one that failed half way.
PollSource(S, fetched) ==
    /\ pc = "poll"
    /\ S \in polling
    /\ DOMAIN fetched \subseteq S
    /\ item' = [e \in Items |-> IF e \in DOMAIN fetched THEN fetched[e] ELSE item[e]]
    /\ acked' = acked \ Changed(fetched)
    /\ polling' = polling \ {S}
    /\ UNCHANGED <<feed, exports, due, content, pc, queue, cur, snapshot, batch,
                   orphans, faults>>

PollDone ==
    /\ pc = "poll"
    /\ polling = {}
    /\ pc' = "prepare"
    /\ UNCHANGED <<store, content, round, orphans, faults>>

-----------------------------------------------------------------------------
(* The child process: rank the open rows, freeze their payloads, print them. *)

\* SELECT ... WHERE a.event_id IS NULL
Open == {e \in Items : item[e] # NoRow /\ e \notin acked}

AsEntry(e) == [id |-> e, rev |-> item[e].rev, meta |-> item[e].meta]

\* Mutant: a revision that has been exported is taken to have been submitted.
SelectUnexported ==
    /\ pc = "prepare"
    /\ snapshot' = {AsEntry(e) : e \in {o \in Open : exports[<<o, item[o].rev>>] = NoMeta}}
    /\ pc' = "freeze"
    /\ UNCHANGED <<store, content, queue, cur, polling, batch, orphans, faults>>

\* Admission depends on a score: the admissible ones are always in, any other
\* open row may be.
SelectOpen ==
    /\ pc = "prepare"
    /\ \E admitted \in SUBSET Open :
          /\ {e \in Open : item[e].meta \in Admissible} \subseteq admitted
          /\ snapshot' = {AsEntry(e) : e \in admitted}
    /\ pc' = "freeze"
    /\ UNCHANGED <<store, content, queue, cur, polling, batch, orphans, faults>>

\* INSERT OR IGNORE INTO content_exports: the first payload of a revision stays.
Frozen(rows) ==
    [p \in Pair |->
        IF exports[p] = NoMeta /\ \E row \in rows : <<row.id, row.rev>> = p
        THEN (CHOOSE row \in rows : <<row.id, row.rev>> = p).meta
        ELSE exports[p]]

\* Mutant: the items the child prints carry the row it has just ranked.
PrintedFresh(rows, table) == rows

\* The items the child prints carry the payload read back from the table.
Printed(rows, table) ==
    {[id |-> row.id, rev |-> row.rev, meta |-> table[<<row.id, row.rev>>]] : row \in rows}

FreezeExports ==
    /\ pc = "freeze"
    /\ exports' = Frozen(snapshot)
    /\ batch' = Printed(snapshot, exports')
    /\ snapshot' = {}
    /\ pc' = "submit"
    /\ UNCHANGED <<feed, item, acked, due, content, queue, cur, polling, orphans, faults>>

\* A child whose host died: its inserts still commit, its output goes nowhere.
OrphanFreezes(rows) ==
    /\ rows \in orphans
    /\ exports' = Frozen(rows)
    /\ orphans' = orphans \ {rows}
    /\ UNCHANGED <<feed, item, acked, due, content, pc, round, faults>>

-----------------------------------------------------------------------------
(* Submission and the deadline.                                             *)

\* content.submit keeps what it already has, by exact revision, and would
\* refuse a known revision with another payload (NoConflict says it never is).
Conflicts(rows) ==
    \E row \in rows : mail[<<row.id, row.rev>>] # "absent"
                      /\ body[<<row.id, row.rev>>] # row.meta

Submit ==
    LET isNew(p) == mail[p] = "absent" /\ \E row \in batch : <<row.id, row.rev>> = p
    IN  /\ pc = "submit"
        /\ ~Conflicts(batch)
        /\ mail' = [p \in Pair |-> IF isNew(p) THEN "pending" ELSE mail[p]]
        /\ body' = [p \in Pair |->
                       IF isNew(p)
                       THEN (CHOOSE row \in batch : <<row.id, row.rev>> = p).meta
                       ELSE body[p]]
        /\ batch' = {}
        /\ pc' = "commit"
        /\ UNCHANGED <<store, queue, cur, polling, snapshot, orphans, faults>>

\* commit_content_source_deadline, then the re-arm of a finished round.
CommitDeadline ==
    /\ pc = "commit"
    /\ due' = FALSE
    /\ pc' = "armed"
    /\ UNCHANGED <<feed, item, acked, exports, content, round, orphans, faults>>

\* Content hands a pending item to the user (external).
ContentDelivers(p) ==
    /\ mail[p] = "pending"
    /\ mail' = [mail EXCEPT ![p] = "delivered"]
    /\ UNCHANGED <<store, body, pc, round, orphans, faults>>

-----------------------------------------------------------------------------
(* The user's tools run in threads of the same process.                     *)

Subscribe(S) ==
    /\ pc # "down"
    /\ feed[S] = "new"
    /\ feed' = [feed EXCEPT ![S] = "on"]
    /\ UNCHANGED <<item, acked, exports, due, content, pc, round, orphans, faults>>

\* feed_manage unsubscribe: items, their acks and the source; not the exports. The
\* ids whose acks go are read just before the transaction that deletes, with no
\* await between: what would differ is the ack of an item that is polled, delivered
\* and settled between the two statements.
Unsubscribe(S) ==
    /\ pc # "down"
    /\ feed[S] = "on"
    /\ feed' = [feed EXCEPT ![S] = "gone"]
    /\ item' = [e \in Items |-> IF e \in S THEN NoRow ELSE item[e]]
    /\ acked' = acked \ {e \in S : item[e] # NoRow}
    /\ UNCHANGED <<exports, due, content, pc, round, orphans, faults>>

-----------------------------------------------------------------------------
(* Faults.                                                                  *)

ForgetRound == queue' = {} /\ cur' = {} /\ polling' = {} /\ snapshot' = {} /\ batch' = {}

\* An exception in any step of the round: the task ends, nothing re-arms it,
\* and the child process, if there is one, is killed and reaped.
RoundFails ==
    /\ pc \in RoundSteps
    /\ faults < MaxFaults
    /\ faults' = faults + 1
    /\ pc' = "dormant"
    /\ ForgetRound
    /\ UNCHANGED <<store, content, orphans>>

\* The host process dies; a child caught between its SELECT and its commit
\* goes on alone.
Crash ==
    /\ pc # "down"
    /\ faults < MaxFaults
    /\ faults' = faults + 1
    /\ pc' = "down"
    /\ orphans' = IF pc = "freeze" THEN orphans \cup {snapshot} ELSE orphans
    /\ ForgetRound
    /\ UNCHANGED <<store, content>>

\* The host restarts a source whose round failed.
Reload ==
    /\ pc = "dormant"
    /\ pc' = "down"
    /\ UNCHANGED <<store, content, round, orphans, faults>>

-----------------------------------------------------------------------------
\* What a fetch may return: rows for finitely many of the source's items.
Fetches(S) == UNION {[D -> Row] : D \in {E \in SUBSET S : IsFiniteSet(E)}}

RoundNext ==
    \/ TimerFires \/ ReadUnsettled \/ SettleWrite \/ ContentAck
    \/ \E p \in Pair : SettleRead(p)
    \/ ListSources \/ PollDone
    \/ \E S \in Feeds : \E fetched \in Fetches(S) : PollSource(S, fetched)
    \/ SelectOpen \/ FreezeExports \/ Submit \/ CommitDeadline

Next ==
    \/ Start \/ DeadlinePasses \/ Reload
    \/ RoundNext
    \/ \E p \in Pair : ContentDelivers(p)
    \/ \E S \in Feeds : Subscribe(S) \/ Unsubscribe(S)
    \/ \E rows \in orphans : OrphanFreezes(rows)
    \/ RoundFails \/ Crash

Spec == Init /\ [][Next]_vars

\* The task runs while the process does, the clock moves, the host is
\* (re)started, and Content delivers what it holds. Faults, the user and the
\* contents of a fetch are not fair.
Fairness ==
    /\ WF_vars(Start) /\ WF_vars(Reload) /\ WF_vars(DeadlinePasses)
    /\ WF_vars(RoundNext)
    /\ \A p \in Pair : WF_vars(ContentDelivers(p))

LiveSpec == Spec /\ Fairness

-----------------------------------------------------------------------------
(* Safety.                                                                  *)

\* README "旧 revision 的 ACK 不会误确认新内容": an item the provider no longer
\* offers is one whose present revision has reached the user. A settlement
\* that arrives after an update, a crash between the two ACKs, or an ack row
\* that outlives its item must not close content nobody has seen.
AckIsExact ==
    \A e \in acked : item[e] # NoRow => mail[<<e, item[e].rev>>] \in {"delivered", "settled"}

\* What Content holds for an exact revision is what the export table froze,
\* whatever the row says by now and however many child processes, orphaned
\* ones included, have prepared it since. A resubmission can then never clash.
FrozenAgreement ==
    \A p \in Pair : mail[p] # "absent" => exports[p] # NoMeta /\ body[p] = exports[p]

\* The same for the batch on its way to submit(): Content has no ground to
\* refuse it.
NoConflict == pc = "submit" => ~Conflicts(batch)

\* A receipt leaves Content only once the provider needs it no more: the exact
\* revision is acked, replaced or removed. A crash between the two ACKs leaves
\* the receipt with Content, never the open item without a receipt.
ProviderAcksFirst ==
    [][\A p \in Pair :
          mail[p] # "settled" /\ mail'[p] = "settled" => ~IsCurrent(p) \/ p[1] \in acked]_vars

\* An item the user has dealt with is offered again only if its content
\* changed: a poll that only refreshes dates, url or author keeps the ack.
AckOutlivesRefresh ==
    [][\A e \in acked : e \notin acked' => item'[e] = NoRow \/ item'[e].rev # item[e].rev]_vars

\* content_source.py "非空 Content 提交成功后才能推进 source deadline": when the deadline
\* moves on, every item the provider still owes the user is in Content.
DeadlineOwesNothing ==
    [][due /\ ~due' =>
          \A e \in Open : item[e].meta \in Admissible => mail[<<e, item[e].rev>>] # "absent"]_vars

-----------------------------------------------------------------------------
(* What of liveness is safety: a round cannot go on for ever.                *)

\* What Content holds and has no ack for.
Waiting == {p \in Pair : mail[p] \in {"pending", "delivered"}}

\* The stages of the round to come, and in the present one the receipts to
\* settle or the sources to poll.
Stages ==
    CASE pc \in {"settle", "settling", "provider", "content"} -> 7
      [] pc = "list" -> 6
      [] pc = "poll" -> 5
      [] pc = "prepare" -> 4
      [] pc = "freeze" -> 3
      [] pc = "submit" -> 2
      [] pc = "commit" -> 1
      [] OTHER -> 0

StepsLeft ==
    CASE pc = "settle" -> 4 * Cardinality(Waiting) + 3
      [] pc = "settling" -> 4 * Cardinality(Waiting) + 2
      [] pc = "provider" -> 4 * Cardinality(Waiting) + 1
      [] pc = "content" -> 4 * Cardinality(Waiting)
      [] pc = "poll" -> Cardinality(polling)
      [] OTHER -> 0

Nearer == Stages' < Stages \/ (Stages' = Stages /\ StepsLeft' < StepsLeft)

\* Each step of a round brings it nearer its end, and nobody makes it longer: the
\* loop over unsettled receipts stops however many Content delivers meanwhile,
\* since only a round adds to what Content holds, and the poll stops however
\* many sources the user adds.
RoundsComeToAnEnd ==
    [][(pc \in RoundSteps) =>
          Nearer \/ (~RoundNext /\ UNCHANGED pc /\ StepsLeft' = StepsLeft)]_vars

-----------------------------------------------------------------------------
(* Liveness, under LiveSpec.                                                *)

\* Every delivered receipt is settled in the end, across crashes, failed
\* rounds, updates and unsubscription.
ReceiptsSettle == \A p \in Pair : mail[p] = "delivered" ~> mail[p] = "settled"

\* Every admissible revision Content has not settled is acked in the end, or
\* stops being the provider's current revision or admissible. (A revision that
\* comes back after Content settled it is submitted for ever and never acked.)
OpenItemsClose ==
    \A e \in Items, r \in Revs :
        item[e] # NoRow /\ item[e].rev = r /\ item[e].meta \in Admissible
            /\ mail[<<e, r>>] # "settled"
        ~> e \in acked \/ ~(IsCurrent(<<e, r>>) /\ item[e].meta \in Admissible)

-----------------------------------------------------------------------------
(* Refinement: Spec implements RevisionLedger. The item's row counts for its  *)
(* revision alone, the acks for the closing marks, the exports for the        *)
(* payloads and the mailbox for the stages.                                  *)

CurrentRev == [e \in Items |-> IF item[e] = NoRow THEN NoRev ELSE item[e].rev]

Ledger == INSTANCE RevisionLedger WITH
    Payloads <- Metas,
    NoPayload <- NoMeta,
    current <- CurrentRev,
    closed <- acked,
    payload <- exports,
    stage <- mail

\* Revisions only move forward, payloads never change, and an item is closed
\* only by the delivery of its current revision: README "ACK 精确绑定
\* event_id + content_hash", and "每个已导出 revision 的冻结 payload".
LedgerSpec == Ledger!LedgerSpec
=============================================================================
