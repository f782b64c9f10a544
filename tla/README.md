# feed-mcp in TLA+

Specifications of feed-mcp, the Akashic plugin that polls RSS feeds and script
sources, keeps their entries in SQLite, and hands them to a Content inbox that
delivers them to the user. The modules are written from the code under `src/`;
file and line of everything modelled are in `PROJECT.json` under `map`.

Everything below is checked: the runs with TLC, the theorems with TLAPS.

## 1. The system

| Component | Code | State it keeps | Operations |
|---|---|---|---|
| Content source round | `content_source.py`, `feed_runtime/backend.py` | tables `items`, `acked_items`, `content_exports`, `metadata`; the round's local lists | settle delivered receipts, poll every source, select and freeze in a child process, submit, move the deadline |
| Content runtime life cycle | `content_source.py`, `plugin.py` | `_closed`, `_handle`, `_task`, the log handler | `start`, `close`, `_arm`, the poll task |
| Subscriptions and polling | `backend.feed_manage`, `scripts.py`, `backend._poll_source` | tables `sources`, `source_scripts`, `poll_state`, `items` | subscribe, unsubscribe, pause, resume, update, script save/use, RSS poll, script poll |
| Item identity | `_stable_event_id`, `_normalize_*`, `_ingest_items` | `items.event_id`, `items.url` | ingest, rename when a process opens the database |
| Schema preparation | `_connect`, `_prepare` and what it calls | `_PREPARED`, the journal mode, tables and columns, `user_version`, the `.init.lock` file | whatever opens the database brings it to the present schema first |
| Script runner and output | `script_runner.py`, `script_tool.py`, `events.py`, `plugin.py` | the run's locals; the host's process | run, parse, test-run |
| Ranking | `backend.py` 1447-2153 | `rank_*` tables | rank, admit, diversify |
| Query tools | `feed_query` | none | latest, search, summary, catalog |
| Legacy handoff | `feed_handoff*.py`, `legacy_handoff.py` | lineage database, `legacy_ack_handoff_receipts` | inventory, preflight, apply, verify, retire |
| Supersession and retirement | `backend.py` 2306-2593, `scripts/retire_legacy_feed_backlog.py` | `legacy_backlog_supersession_receipts` | plan, supersede, verify, read |
| Migration | `scripts/migrate_v2_data.py` | files and a receipt | select, stage, validate, publish, roll back |
| Offline scripts, route finder | `mcp/scripts/*`, `skills/*` | none of the above | run by hand |

How they interact. One asyncio task, owned by `FeedContentRuntime`, runs a
round whenever its one-shot timer fires. Inside the round every database step
runs in a thread, and the ranking in a child process (`backend.py
prepare-content-items`), so that between two awaits the user's tools may write
the same tables, Content may deliver, `close()` may be called, or the process
may die and leave the child behind. Content (EventMail) keeps what is pending
and delivered; Feed keeps what it has offered and what is acked. The two are
separate stores: nothing is atomic across them. The handoff, the retirement and
the migration are commands of their own, run by an operator, possibly beside a
host that is still up, and run again after they died.

What is hard, and what must hold all the same:

- *Two stores, no common transaction.* An ack must close the exact revision the
  user got, a receipt must leave Content only when the provider is done with
  it, a resubmission must carry the same payload, the deadline must not move
  past something nobody submitted.
- *A task that re-arms itself, and two callers of `close()`.* One timer, one
  round, nothing after `close()`, and `close()` ends.
- *Fetches and scripts that take minutes while the user edits the sources.* A
  result must not land on a source that has changed under it.
- *Identity.* The event id must be the same for the same entry in every
  process, round and version.
- *Several processes prepare one database.* The host, the child of a round and
  a command do so at once, statement by statement; whoever is connected must
  have the present schema, and nobody may fail because of another.
- *A script that is anyone's program.* It prints too much, hangs, leaves children
  behind: a result that is not whole must not pass for one.
- *Shortcuts in the ranking.* They must not change a score.
- *Commands that die and are run again.* A fact is handed over once and marked
  only when its target is there; a batch is what the operator was shown, at the
  revisions of the moment; a receipt is never written early and never made
  false; and running again gets through.

`PROJECT.json` `hazards` lists each at its line, with the properties that cover
it, or with a note where none does.

## 2. The modules

| Module | Models | Kind |
|---|---|---|
| `RevisionLedger` | what Feed promises about an item: revisions, payloads, stages, closing | abstract specification |
| `FeedDelivery` | the round against provider tables and Content, with tools and faults | detailed; implements `RevisionLedger` |
| `PollLoop` | what a runtime promises of its rounds: one at a time, none after closing | abstract specification |
| `FeedLifecycle` | `start`/`close`/timer/task | state machine at await grain; implements `PollLoop` |
| `FeedSources` | the subscription tables: tool calls against the poll round | state machine at transaction grain |
| `FeedIdentity` | event ids, ingestion, renaming | state machine over one source |
| `HandoffLedger` | what the handoff promises: each fact once, then its mark | abstract specification |
| `FeedHandoff` | `apply_handoff` with its adapter, over three stores | detailed; implements `HandoffLedger` |
| `FeedCutover` | the retirement command: plan, supersede, retire | state machine at transaction grain |
| `FeedMigration` | `migrate_v2_data` | state machine at the grain of file operations |
| `FeedSchema` | `_connect` and `_prepare` in several processes | state machine at the grain of SQL statements |
| `FeedScriptRun` | one run of a script, from the process service to the outcome | state machine at await grain |
| `FeedRanking` | the ranking's shortcuts and its diversity order | operators against plain definitions |
| `FeedInventory` | which rows of an old Wake database are facts or blocks | operators over the tables |
| `*_proofs` | the theorems about each | TLAPS |
| `MC*` | values of the constants for the runs that need definitions | TLC |

`FeedLifecycle`, `FeedCutover` and `FeedMigration` need only sets of model
values and are checked directly.

### FeedDelivery

`feed`, `item`, `acked`, `exports`, `due` are the provider's tables; `mail` and
`body` are Content's state and payload of each exact revision; `pc` and the
variables after it are the locals of the round (`_wait_poll_rearm`). One action
per await of the round: `ReadUnsettled`, `SettleRead`, `SettleWrite`,
`ContentAck` are `_settle_delivered` and `settle_content_item`, whose SELECT and
INSERT are two SQLite transactions and therefore two actions; `ListSources`,
`PollSource`, `PollDone` are `poll_feeds_only` (a fetch returns anything from
the source, nothing, or a part of it); `SelectOpen` and `FreezeExports` are the
child process, `Submit` and `CommitDeadline` the rest. `RoundFails` is an
exception at any await; `Crash` is the death of the process, which may leave
the child's snapshot in `orphans` to be committed later (`OrphanFreezes`).
`Reload` is the host restarting a source whose round died.

Abstracted: a payload is one value (`meta`) besides the content hash; the score
is reduced to whether it reaches the admission floor for certain (`Admissible`)
or depending on the day; expiry of acks is not in the code's read paths and is
left out; the renaming of rows is `FeedIdentity`'s matter, here sources without
X-like URLs are assumed. `Unsubscribe` is one step, though the ids
whose acks it deletes are read by the statement before its transaction
(`backend.py:347`): only an item that is polled, delivered and settled between
these two statements would keep an ack without a row. `content.submit` and `ack` are external: dedup by exact
revision, refusal of a known revision with another payload.

`RevisionLedger` is the contract: an item has a current revision, each revision
gets one payload for ever and moves from absent to pending to delivered to
settled, and an item is closed only while its current revision is delivered or
settled. The refinement mapping reads `current` off `item`, `closed` off
`acked`, `payload` off `exports` and `stage` off `mail`.

### FeedLifecycle

A step is what runs between two awaits. `handle`, `task`, `closed`, `logging`
are the object's fields; `timer` is the timer service; `tpc` is where each poll
task is; `spc` and `cpc` are the calls of `start` and `close` in progress. A
handle stands for its timer and its task.

`PollLoop` is the contract, and what `FeedDelivery` takes for granted when it has
one round at a time. The mapping reads `armed` off the tasks that wait for their
timer and `polling` off those in the round or a script of it; `phase` is "closing"
from the first line of the first `close()` until that call has returned, and
"closing" for ever if it raised (section 5, item 4): what `PollLoop` says of a
closed loop is said of one whose `close()` returned.

### FeedSources

A step is one read outside a transaction or one committed transaction, which is
what SQLite makes of the code: `save_script` and `record_outcome` take the write
lock first and are one step; `feed_manage` and `use_version` look first and
write later, and are two (`...Reads`, `...Writes`). The round reads its list
once and uses the rows, as read, until the last source is done. Names only
select rows and are left out: a call is given the ids its name selects.

### FeedIdentity

An event id is represented by the string hashed into it. `Opens` and `Renames`
are `_prepare`'s two data migrations of items, which every process runs when it
first opens the database: the host once, and the child process of *every* round
between the poll and the selection. The initial states are all the tables an
earlier version, which named rows by guid or URL, may have left.

### FeedHandoff

Three stores: the provider (`row`, `acked`, `receipts`), Content (`batch`,
`body`) and the lineage database (`file`, `lineage`, `completed`). A fact is one
of the inventory's, in its order, and `EventOf` the provider item it is about.
Each call of `apply_handoff` is at `pc[p]`: `preflight_handoff` fact by fact
(`Plans`, `PlanBlocks`, `PlanDone`), the recheck before the first write
(`Rechecks`), `_initialize` of the lineage database, which connects (`Begins`),
creates the first table of an empty file or raises where it is there (`Creates`),
and comes to `user_version` last (`Fills`), so that a call that dies in it leaves
a file that is empty or half filled, which nobody can read (`Readable`); then for each fact
`Reads`, the target (`Settles` and `Commits` are `settle_legacy_ack`, whose
looks come before its transaction; `Submits` is Content), `Verifies`, `Marks`,
and at the end `Completes` and the preflight whose report is returned. `Supersede`
selects the adapter: `for_cutover` acks unread items with the provider, the
other submits them to Content. `Interrupted` ends a call anywhere; `Host` is a
host that polls, settles and submits meanwhile.

Abstracted: which rows of the Wake database become facts or blocks is an input
(`FactsAreTyped`, `OneItemPerEvent`, which is what `InventoryIsExact` of
`FeedInventory` gives); one adapter per run; acks do not expire in
the provider; digests are the identities they are computed from. The host's own
submission of a revision has a payload of its own (`Foreign`), which Content
refuses to replace.

`HandoffLedger` is the contract: a fact gets one target revision, once, and is
marked only after that. The mapping reads `target` off `receipts` or `batch`
and `marked` off `lineage`.

### FeedCutover

A batch is a function from events to revisions; two have the same digest and
count only if they are the same. `Plans` is `--plan`, which leaves the operator
holding a `token`; `Applies` is `--apply` with it; `ReadsReceipt`, `Looks` and
`Commits` are the comparison, and `supersede_content_backlog` before and in its
transaction; `Retires` is what follows. `admitted` is what scores above the
floor at the moment. `Unreadable` is the inventory, which refuses every Wake
database (section 5).

`retire()`'s backup of the Wake database and its second inventory are not
modelled: no command gets there while that is so, and what would follow is
`FeedHandoff` with `Supersede`.

### FeedMigration

`sources` are the places to migrate from, primary first, then backups newest
first; `target`, `receipt` and `folder` the plugin data; `staging` each run's
directory, which outlives a run that died; `lock` is `.instance.lock`. `Acquires`
takes the lock without waiting (a busy lock changes nothing, and is not a step);
`Selects`, `Checks`, `Stages`, `Validates`, `Publishes` (file by file),
`WritesReceipt` (last), `Published`, `RollsBack` (in reverse, the receipt first),
`RolledBack` and `Cleans` follow the function. `Raises` is an exception or an
interrupt at any point: in the sweep of old staging, which it leaves half done; in
the rollback, which then ends as "torn"; and in the `finally` clauses
(`migrate_v2_data.py:406-410`, `:366-367`), after a failure or after a complete
publication, where it leaves staging and the directory the run created, or only
the directory, or neither, and the command ends as "unclean". `FailureRestores`
says what each of the endings is worth: "raised" has restored everything, the
directory included; "unclean" has restored the files or migrated them completely,
with a true receipt; "torn" promises nothing. `Dies` frees the lock and leaves everything else;
`Outside` is what a host or a user changes while the lock is free. `found` is a
history variable: the target and receipt a run met when it took the lock.

Abstracted: a file is its content, and a receipt's digests are the contents; the
SQLite backup, the integrity checks and the refusal of symbolic links are
exceptions; one marketplace.

### FeedSchema

`db` is what is committed, `tx` what the open transaction has, `writer` who has
SQLite's write lock; `initLock` is the `flock`, `cache` each process's
`_PREPARED`. A step is one statement outside a transaction, or one inside:
`Connects` and `Marks` are `_connect`, `LocksInit`, `SwitchBegins` and
`SwitchEnds` the journal mode, `Creates` the tables, `LooksAtColumns`, `Begins`
and `Alters` the columns of `_migrate_items_schema` and `_add_columns`,
`LooksAtStats` to `Trains` the ranking's back-fill, whose INSERTs open the
transaction that `LoopDone` commits, and `ListsSources`, `LooksForDuplicate` and
`Rewrites` are `_normalize_existing_source_urls`. `Fails` is a statement that
raises or a process that dies; `Swaps` deletes or replaces the file while nobody
has it open. The initial states are the databases earlier releases left.

Abstracted: a table has the columns of this release or not; the labels of old
items are in the ranking a number of times (`counted`, `trained`); waiting for
the write lock has no limit (the 30 seconds of `busy_timeout` are a fault); the
data migrations of items are `FeedIdentity`'s. A second thread of a process
waits for `_PREPARED_LOCK`, so a process is one actor. Two assumptions:
`FoundAreSound`, that two sources of a database found do not have the very same
URL string, and the last conjunct of `Swaps`, that a marked database of an
earlier release is not put under an inode this process has prepared, which
nothing in the code could notice.

### FeedScriptRun

`script`, `exit`, `behind` and `printed` are the process at the host; `output`,
`omitted` and `result` what `ScriptRunner.run` has of it. `Waits` is one
`exec_command` or `write_stdin`, `Cleans` and `CleanFails` are `terminate_owner`,
`OutcomeOf` and `Parsed` are `_outcome` and `parse_output`, `Saves` is what the
tool does with an "ok". The process service is external: its slices may lack a
line or have one cut short, which it then counts as omitted; it ends what
passes the hard timeout.

Abstracted: a line is a result, with a status, a list of event ids and whether
anything else in it is wrong, or it is a log line.

### FeedRanking

Scores are integers in a unit that makes every quotient exact, where the code
rounds. `Novelty` and `Frontier` are the code's, on bit masks, newest first in
blocks of one time, ending early; `PlainNovelty` and `PlainFrontier` say on sets
what they mean. `Diversified` is the last sort. The formulas in between, which
are floating point, are not there: `Scored` gives a row any score.

### FeedInventory

`reservoir` and `pending` are the two tables of the old Wake database, by their
keys; `Inventory` is what `inventory_workspace` makes of them. The integrity check
before it refuses every database (section 5, item 3), so no command gets here
as the code stands; this is what it would hand over, and what `FeedHandoff`
assumes of its facts. Kind and payload of a row are one flag.

### What of liveness is safety

Each liveness property rests on facts that are safety, and those are stated by
themselves, because they are where such code goes wrong and because they can
be proved (section 6). They come in three kinds. *A measure*:
`RoundsComeToAnEnd`, `CallsComeToAnEnd`, `HolderComesToAnEnd` and `EveryStepCounts`
give a round, a call or a process the stages it has to go and, in the present
one, the receipts, facts, files or statements, and say that each of its steps
makes the pair smaller in lexicographic order and that nobody else makes it larger; so no loop
of the code repeats a look until it comes out as hoped. *No lost
wake-up and no circle*: `AwaitedIsWoken` of the task that `close()` awaits,
`NoCircularWait` of the two locks of a preparation, `NothingRunsOn` of a script.
*Nothing is in the way*: `QuietCallsGoThrough`, `ReplayIsNotRefused` and
`NoRunIsInTheWay` say what the commands' replays need, that nothing an earlier,
dead or parallel run left behind stops the next one.

## 3. The runs

| Run | Instance | What it shows |
|---|---|---|
| `delivery` | one item, two revisions, two payloads (one always admissible), two faults, pages of two receipts, fairness | `AckIsExact`, `NoConflict`, `DeadlineOwesNothing`, `ProviderAcksFirst`, the refinement `LedgerSpec`; under fairness `ReceiptsSettle`, `OpenItemsClose` |
| `lifecycle` | three handles, two `start`, two `close`, fairness | the refinement `LoopSpec`, `ClosedIsQuiet`, `ClosedStartsNothing`, `CloseEnds`, `RoundRearms` |
| `sources_safe` | two ids, two URLs, two versions, two tool calls at once | `ActiveVersionExists`, `ScriptResultIsCurrent` |
| `sources_erase` | the same with one call and two script texts | **violated**: `UnsubscribeErases` |
| `identity_safe` | one post under two URLs, one ordinary entry, any old database | `FetchedIsOffered`, `MigratesOnce`, `OneRowPerPost` |
| `identity_lookalike` | one entry of a site like vox.com with an id of its own | **violated**: `FetchedIsOffered` |
| `handoff` | Content's adapter, an ack and an item of one event, two calls at once, one fault, two steps of the host, fairness | `MarkedIsReached`, `NothingLeftOut`, `NothingBeforeLineage`, the refinement `LedgerSpec`, `ReplayAddsNoAck`, `ReplayFinishes` |
| `cutover` | two events with two revisions, two operators, one fault, two steps of the host, fairness | `CutoverIsExact`, `CutoverAcksOnce`, `ReplayCompletes` |
| `cutover_unsound` | one command and a Wake database | **violated**: `HealthyIsRead` |
| `migration` | two files, a primary and a backup, two contents, two runs, two faults, one move of the host, fairness | `KeepsWhatWasThere`, `ReceiptIsTrue`, `ReceiptIsComplete`, `FailureRestores`, `RerunFinishes` |
| `schema` | two processes, three sources of which two are one account's or one is a script, five databases, two inodes, one fault, one replacement, fairness | `ConnectedIsPrepared`, `NobodyIsRefused`, `FeedsKeepOneSource`, `PreparationEnds` |
| `functions` | scripts of two lines, up to three events and a limit of two; three rows to rank, of two sources, with overlaps of 0 to 1 around both thresholds, and three to diversify; two rows and two acks of an old database | `SuccessIsTheScripts`, `RunEnds`; `ShortcutsChangeNoScore`, `OnlyRepetitionCosts`; `InventoryIsExact` |

`functions` checks three parts that share no state, one at a time: which one it
is is chosen in the initial state (`part` of `MCFeedFunctions`). The type
invariants, `OnePollOwner`, which `LoopSpec` comprises, `ScriptUrlsUnique`,
`RetiresAfterReceipt` and the definitions of "What of liveness is safety" are
theorems (section 6) and in no run; they hold on the instances of the table,
where they were looked at before they were proved.

Why these bounds are enough to be interesting. Two revisions and two payloads
make every stale case occur: a receipt for the old revision after an update, a
revision that returns, a payload that changes under a frozen one. Two faults
allow a crash in the recovery from a crash, and an orphaned child that meets
the child of the next host. Three handles are needed for a timer that is being
cleaned up, one whose task reads the deadline and one armed meanwhile. In
`sources_safe` two tool calls overlap, so that every pair of a read and a write
interleaves; two versions allow a switch and a switch back during a run. Two
moves of a host let a row change and change back, or change and be acked,
between two steps of a command; two facts of one event are what two receipts for
one item need. What the instances leave out, the proofs cover: several items,
of one feed or more, in `FeedDelivery`; facts of several events and the cutover's
adapter (`Supersede`) in `FeedHandoff`. Two processes and a death suffice in
`schema` for each statement of one to fall between any two of the other's, in a
first preparation and in one of a half-prepared file; two addresses of one
account and a third source are the fewest for which the loop goes on after a
deletion. In `migration` two files are the fewest of which one may be
published and not the other, two places make the choice of the first matter,
and two runs let a second meet what the first left. The bounds `MaxFaults`,
`MaxHost`, `MaxMoves`, `MaxSwaps`, `MaxLines`, `MaxRows`, `MaxRefined`,
`MaxPending` and `MaxVersion` are in the guards of the actions they
count and in no property but those of liveness that name them.

Deadlock is checked where something can always happen; the life cycle, which
ends when it is closed, the handoff, and `functions`, whose parts come to an
end, say so in their configurations.

## 4. Fairness

- `FeedDelivery`: the process is (re)started, a failed source is reloaded by the
  host, the clock reaches the deadline, the round's next step is taken, and
  Content delivers each pending item. Nothing is assumed about users, fetches or
  faults; faults are bounded by `MaxFaults`, as liveness needs them to stop.
- `FeedLifecycle`: the event loop runs what is ready, timers fire, and a round
  does not run scripts for ever (scripts have a time limit and a round has a
  list of them), for which strong fairness of `BodyEnds` stands. Nobody is
  obliged to call `start` or `close`.
- `FeedHandoff`, `FeedCutover`, `FeedMigration`: the operator runs the command
  again (weak fairness of `Calls`, `Applies`, `Acquires`), and a command that
  runs goes on. Nothing is assumed of planning: `ReplayCompletes` speaks of an
  operator who keeps his values and of a batch none of which reopens.
  `ReplayFinishes` speaks of a host that is quiet, since any change of a row is
  a drift the code answers with a block, and begins where the lineage database
  is whole (section 5, item 6). `RerunFinishes` says what happens while nobody
  else writes.

- `FeedSchema`: a process that prepares takes its next statement (weak fairness
  of `Prepares`), since it is straight-line code that waits only for the two
  locks, both of which are let go when their holder ends. Nobody is obliged to
  connect.
- `FeedScriptRun`: the process service answers each call, `terminate_owner` is
  made and returns or raises, and a script ends or is ended, as
  `hard_timeout_s` has it. The script need not print anything, ever.

## 5. Disagreements

Where the code does not do what a text of the repository says of it. Three are
shown by runs (`PROJECT.json` `findings` quotes the lines):

1. `unsubscribe` during the fetch of an RSS source leaves items and poll state
   of a source that no longer exists, written after it was deleted
   (`sources_erase`; `backend.py:937` against `tools.py:89`).
2. The renaming of "X" rows matches every URL that contains `x.com/`, ignores
   the id the source gave, and runs in the child of every round: entries of such
   sites lose their new content before it is selected (`identity_lookalike`;
   `backend.py:507` against `backend.py:133`).
3. `inventory_workspace` compares a `sqlite3.Row` with a tuple and so refuses
   every Wake database as broken: the retirement command can neither plan nor
   apply where there is one (`cutover_unsound`; `feed_handoff_inventory.py:60`).
   `apply_handoff` is therefore reached only by direct callers, such as the
   tests; `FeedHandoff` models it as it stands.

The others were met while modelling; the models have them as they are, and no
run is about them:

4. `close()` re-raises the exception of the poll task (`content_source.py:76`)
   and then skips the release of timer, references and log file; a second
   `close()` returns at once. Its docstring (`:66`) says that it cancels the
   wait and releases the diagnostic log.
5. A script outcome that cannot be stored ends the whole round
   (`content_source.py:173`) instead of being recorded at its source as `:154`
   says; the round then submits nothing and does not re-arm.
6. A call that dies in `_initialize` leaves a lineage file that is empty or has
   part of its schema, which `_read_lineage` refuses ever after
   (`feed_handoff.py:307`, `:337`; only `_initialize`, which comes later, would take an
   empty one, `:327`), though `retire` calls the handoff replayable (`:461`).
7. `settle_legacy_ack` says "atomically" (`backend.py:2665`), but looks at the
   content hash (`:2718`) before the transaction that acks. What holds all the
   same is `LedgerSpec` and `MarkedIsReached`; that the acked revision is the
   row's at the moment of the ack does not.
8. A plan of an empty backlog cannot be applied with its own values
   (`backend.py:2375` against `README.md:58-60`).

9. `_ensure_rank_stats` looks whether the table is empty before the transaction
   that fills it (`backend.py:1488`): two processes that prepare the same old
   database both count its labels (`counted` becomes 2 in the run `schema`), and
   so, with the same look, for the model; `:133` calls it a one-time migration.
10. `_normalize_existing_source_urls` writes URLs computed from a list it read
    before it had any lock (`backend.py:553`): an update of the URL by the user in
    between is undone. And a source deleted as a duplicate leaves its items,
    acks and poll state behind.

11. A migration whose `finally` clauses raise (`migrate_v2_data.py:406-410`) reports
   a failure though all files and the receipt may be published, or leaves the
   directory that it created; the next run accepts the receipt, or sweeps and goes on.

Fail-closed by intention, and not counted as disagreements: a provider row that
changes after its fact was marked blocks later calls; the batch id of the
retirement depends on the inventory alone, so that an item of the batch which
reopens blocks every later run; after a handoff through Content the provider's
own export of the same revision is refused if its payload differs; a second
migration after the host wrote the target, or after a newer backup appeared,
raises. And one observation without a claim against it: a revision that Content
has settled and that comes back later is open again and never acked (the comment
at `OpenItemsClose`). Two more of this kind: a script whose process is lost, but with an exit
code and a whole valid result, counts as a success; and rows of an old
Wake database whose event id is missing or padded with blanks are passed over
without a word, as no row of Feed's.

## 6. The proofs

Proved for every value of the constants, from the `ASSUME`s at the head of each
module (sentinels are no values, bounds are naturals, feeds do not share items,
status URLs are normal, the inventory has one item per event, normalising a URL
twice is normalising it once, databases found are sound):

- `FeedDelivery_proofs`: `TypeCorrect`, `AcksAreExact`, `PayloadsAgree`,
  `SubmissionsNeverClash`, `ProviderIsFirst`, `RefreshKeepsAcks`,
  `DeadlineIsHonest`, `RoundsEnd`, `ImplementsLedger`. `AckIsExact` is not
  inductive: it needs that the receipt in hand has been delivered and is the only
  one, that what is queued has been delivered, that an ack of a removed row cannot meet a new row
  with the same revision undelivered; `DeadlineOwesNothing` needs that between
  the selection and the commit the snapshot and then the batch hold every
  admissible open row. These are the parts of the inductive invariants there.
  `RoundsEnd` measures the loop over receipts by what Content still holds, which
  is finite at any time though items and revisions may be infinitely many
  (`FiniteInv`), and which grows only by what a round itself submits.
- `FeedLifecycle_proofs`: `TypeCorrect`, `ActiveTasksAreHeld`, `OneOwner`,
  `AwaitedAreWoken`, `ImplementsLoop`, `ClosedStaysQuiet`, `ClosedNeverStarts`.
  The heart is that a handle in use is the one the object holds, or held by a `close()` in progress, until its task has
  passed its `finally`. `ImplementsLoop` follows from the same invariant: who
  arms finds nothing that waits or polls, and a `close()` past its await has seen
  its task at the end. `AwaitedAreWoken` adds that the timer of a waiting task is
  armed, fired or cancelled, and no longer armed once `close()` awaits (`WakeInv`).

  Of the script a round runs, `SuccessesAreTheScripts` and `RunsLeaveNothing`:
  as long as nothing was omitted the runner has what was printed from the first
  line on (`ScriptInv`), and `clean` is reached without an exception only by an
  answer that came after the process was over.

  Of the ranking, `RankTypesHold`, `ShortcutsKeepScores` and `RepetitionAloneCosts`,
  for any number of rows. A bit mask determines its set of positions, so that
  counting in a mask is counting the set, and the best overlap over masks is the
  best over rows; of the walk from the newest, what the early exit leaves out is
  shown not to matter from the first block where it could (no induction over the
  list is needed, but the least index at which two functions differ); and the
  sorts are taken as what they are, bijections that leave no inversion. A
  multiplier falls with the number of earlier rows of a source, which is the
  size of a set and monotone for that reason.
- `FeedSources_proofs`: `TypeCorrect`, `ActiveVersions`, `ScriptUrls`,
  `ScriptResults`. The strengthening relates what a call or the round has read
  to the tables: an id that was given out is never given out again, scripts are
  only deleted with their source, versions are never rewritten.
- `FeedIdentity_proofs`: `TypeCorrect`, and under the condition `NoLookalikes`
  (no URL matches the patterns without being a status, unless the URL is the
  id) `FetchedAreOffered`, `OneMigration`, `PostsHaveOneRow`. The run
  `identity_lookalike` shows that the condition is needed.
- `FeedHandoff_proofs`: `TypeCorrect`, `MarkersAreReached`, `NothingIsLeftOut`,
  `ReplaysAddNoAck`, `LineageComesFirst`, `ImplementsLedger`, `CallsEnd`,
  `QuietCallsAreThrough`. A marker is written from what a call
  remembers, so the invariant follows each call (`CallInv`): the markers it has
  seen are there, the facts it has passed are planned or marked, and at
  `verify` and `mark` the target of the fact in hand is there at the planned
  revision. That nobody takes a target away again, whichever call it is, is the
  lemma on what a step leaves of `Reached`; it is where two items of one event
  would break it. That the facts have one item per event to begin with is
  `InventoriesAreExact`, of `FeedInventory`: rows enter one by one into tables
  keyed as Wake's are, and two rows of one event are a block. `QuietCallsAreThrough`
  needs that, while the host has done nothing, every row is what each store and
  each call in progress took it for (`QuietInv`), so that no comparison of a
  call can come out as a drift.
- `FeedCutover_proofs`: `TypeCorrect`, `RetirementIsLast`, `CutoversAreExact`,
  `CutoversAckOnce`, `ReplaysAreNotRefused`. Past the comparison a command's
  batch is its operator's (`OwnBatch`), past its commit it is the one in the database (`OwnReceipt`).
- `FeedMigration_proofs`: `TypeCorrect`, `ForeignFilesStay`, `ReceiptsAreTrue`,
  `ReceiptsAreComplete`, `FailuresRestore`, `HoldersComeToAnEnd`,
  `RunsAreNotInTheWay`. `RunInv` says for each point of a run
  what target and receipt are relative to `found`, what it met when it took the
  lock: as found up to the first publication, then with exactly the files it
  has published, during a rollback without those it has taken back, and in the
  `finally` clauses what its outcome says. What a
  run has published is the content of the first place, which `_validate_targets`
  of the next accepts.

- `FeedSchema_proofs`: `TypeCorrect`, `ConnectionsArePrepared`, `NobodyFails`,
  `FeedsAreKept`, `NobodyWaitsForHimself`, `PreparationsShrink`. A database only grows under its processes: tables, columns,
  labels and normal URLs are never taken back, so that what a process has
  established stays true whatever the others commit (what it relies on is
  stable), and its own transaction has at least what is committed. The
  invariant says for each point of `_prepare` what is there by then; that of the
  list says that a source still to do has the URL it was listed with, its
  normal form, or is gone because another has its feed.

`PayloadsAgree`, `RefreshKeepsAcks` and `ActiveTasksAreHeld` have no run of their
own: the first is part of the argument for `NoConflict`, the second is what
`Publish` and `Withdraw` of the ledger say of closing marks, which `LedgerSpec`
checks, and the third is part of the argument for `OnePollOwner` and `LoopSpec`.

Only model-checked are the liveness properties, since TLAPS does not prove
liveness under fairness here. Of each the part that is safety is proved, and what
TLC adds is that the fair steps are enabled and lead there:

| Liveness (TLC) | Its safety (TLAPS) |
|---|---|
| `ReceiptsSettle`, `OpenItemsClose` | `RoundsComeToAnEnd`, `DeadlineOwesNothing` |
| `CloseEnds`, `RoundRearms` | `AwaitedIsWoken`, `LoopSpec` |
| `ReplayFinishes` | `CallsComeToAnEnd`, `QuietCallsGoThrough` |
| `ReplayCompletes` | `ReplayIsNotRefused` |
| `RerunFinishes` | `HolderComesToAnEnd`, `NoRunIsInTheWay` |
| `PreparationEnds` | `NoCircularWait`, `EveryStepCounts` |
| `RunEnds` | `NothingRunsOn` |

The safety properties the passing runs check are all theorems.

## 7. Not modelled, and the order of work

Not modelled:

- the ranking's formulas (freshness, interest, the online model), its tables of
  weights and the splitting into tokens: floating point and regular expressions.
  `_record_rank_impressions` is called by nothing. What a rounded quotient does
  at a threshold is therefore not shown either;
- `feed_query` and all formatting: it reads and writes nothing;
- what `retire()` does before it reaches the handoff (backup, second
  inventory): no command gets there (section 5, item 3);
- the offline scripts under `mcp/scripts`, run by hand on copies or reports,
  and the route finder, a search command without state;
- tools beside the preparation of a database (section 5, item 10), and threads
  of one process, which wait for each other there.

Order in which the modules came, each with its proofs: `RevisionLedger` and
`FeedDelivery`, `PollLoop` and `FeedLifecycle`, `FeedSources`, `FeedIdentity`, `HandoffLedger` and
`FeedHandoff`, `FeedCutover`, `FeedMigration`, `FeedSchema`, `FeedInventory`,
`FeedScriptRun`, `FeedRanking`. What would come next: a
user's tools beside `FeedSchema`'s preparation, and, once the integrity check is
mended, `retire()` around `FeedHandoff`.
