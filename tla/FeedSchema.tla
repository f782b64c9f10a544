------------------------------ MODULE FeedSchema ------------------------------
(***************************************************************************)
(* _connect and _prepare of feed_runtime/backend.py: whoever opens the       *)
(* provider database brings it to the present schema first. The host, the     *)
(* child process of every round and the commands do so at the same time, may   *)
(* die anywhere, and between two calls the file may be deleted, or replaced by *)
(* another one.                                                             *)
(*                                                                          *)
(* A step is one statement outside a transaction, or one inside; a second     *)
(* thread of a process waits for _PREPARED_LOCK, so a process is one actor.   *)
(***************************************************************************)
EXTENDS Naturals, FiniteSets

CONSTANTS
    Procs,     \* processes that open the database
    K,         \* sources are 1..K, in the order of the table
    Scripts,   \* the script sources among them
    Urls,
    Canon,     \* _normalize_source_url
    Found,     \* the databases a process may find
    Inodes,
    MaxFaults, \* bound: deaths, and statements that raise
    MaxSwaps,  \* bound: how often the file is replaced
    NoUrl, NoOne

Source == 1..K
Rss == Source \ Scripts
Table == {"sources", "items", "poll_state", "rest"}

\* wal: the journal mode. table: whether each is there, with the columns of
\* this release or without. labelled: there are items with an interest label;
\* counted, trained: how often they are in rank_stats and in the rank model.
\* asked: the feeds whose sources were there when the file was found.
DB == [wal : BOOLEAN, table : [Table -> {"none", "old", "new"}],
       url : [Source -> Urls \cup {NoUrl}], labelled : BOOLEAN,
       counted : Nat, trained : Nat, mark : BOOLEAN, asked : SUBSET Urls]

\* The feeds, and pages of scripts, that a table of sources has.
Feed(url, s) == IF s \in Scripts THEN url[s] ELSE Canon[url[s]]
Kept(url) == {Feed(url, s) : s \in {r \in Source : url[r] # NoUrl}}

Unique(url) == \A s, t \in Source : s # t /\ url[s] # NoUrl => url[s] # url[t]

\* What _prepare brings about.
Prepared(d) ==
    /\ d.wal
    /\ \A t \in Table : d.table[t] = "new"
    /\ \A s \in Rss : d.url[s] # NoUrl => Canon[d.url[s]] = d.url[s]
    /\ d.labelled => d.counted > 0 /\ d.trained > 0

ASSUME SourcesAreNumbered == K \in Nat /\ Scripts \subseteq Source
ASSUME CanonIsIdempotent == Canon \in [Urls -> Urls] /\ \A u \in Urls : Canon[Canon[u]] = Canon[u]
ASSUME SchemaBounds == MaxFaults \in Nat /\ MaxSwaps \in Nat
ASSUME SchemaSentinels == NoUrl \notin Urls /\ NoOne \notin Procs
\* subscribe and save keep the URLs of a table apart; the tables of "rest" have
\* the columns they were first created with.
ASSUME FoundAreSound ==
    \A d \in Found :
        d \in DB /\ Unique(d.url) /\ d.asked = Kept(d.url) /\ d.table["rest"] # "old"

VARIABLES
    db,       \* what is committed
    inode,    \* of the file
    writer,   \* who has SQLite's write lock, or NoOne
    tx,       \* the database as the open transaction has it; db if there is none
    initLock, \* who has the flock on .init.lock, or NoOne
    cache,    \* _PREPARED of each process: the inodes it has prepared
    pc,
    at,       \* the table whose columns are being looked at
    seen,     \* whether they were of an earlier release
    knew,     \* `marked`
    list,     \* the sources with a URL to normalise that are still to do, as listed
    dup,      \* whether the one in hand has a duplicate
    faults, swaps

locals == <<at, seen, knew, list, dup>>
vars == <<db, inode, writer, tx, initLock, cache, pc, locals, faults, swaps>>

PC == {"idle", "flock", "wal", "switch", "create", "look", "begin", "alter", "rest", "stats",
       "count", "model", "train", "list", "loop", "write", "mark", "using", "raised"}
NoList == [s \in {} |-> NoUrl]

TypeOK ==
    /\ db \in DB /\ tx \in DB
    /\ inode \in Inodes
    /\ writer \in Procs \cup {NoOne}
    /\ initLock \in Procs \cup {NoOne}
    /\ cache \in [Procs -> SUBSET Inodes]
    /\ pc \in [Procs -> PC]
    /\ at \in [Procs -> Table]
    /\ seen \in [Procs -> BOOLEAN]
    /\ knew \in [Procs -> BOOLEAN]
    /\ list \in [Procs -> UNION {[S -> Urls] : S \in SUBSET Source}]
    /\ dup \in [Procs -> BOOLEAN]
    /\ faults \in 0..MaxFaults
    /\ swaps \in 0..MaxSwaps

Init ==
    /\ db \in Found
    /\ inode \in Inodes
    /\ writer = NoOne /\ tx = db
    /\ initLock = NoOne
    /\ cache = [p \in Procs |-> {}]
    /\ pc = [p \in Procs |-> "idle"]
    /\ at = [p \in Procs |-> "items"]
    /\ seen = [p \in Procs |-> FALSE]
    /\ knew = [p \in Procs |-> FALSE]
    /\ list = [p \in Procs |-> NoList]
    /\ dup = [p \in Procs |-> FALSE]
    /\ faults = 0 /\ swaps = 0

-----------------------------------------------------------------------------
View(p) == IF writer = p THEN tx ELSE db

Goes(p, where) == pc' = [pc EXCEPT ![p] = where]

\* A statement of its own, which waits for the writer.
Commits(p, new) ==
    /\ writer \in {NoOne, p}
    /\ db' = new /\ tx' = new /\ writer' = NoOne

\* A statement that opens a transaction, or goes on in one.
Writes(p, new) ==
    /\ writer \in {NoOne, p}
    /\ tx' = new /\ writer' = p
    /\ UNCHANGED db

Reads == UNCHANGED <<db, tx, writer>>
Outside == UNCHANGED <<inode, initLock, cache, faults, swaps>>

-----------------------------------------------------------------------------
(* _connect *)

\* Mutant: the cache is trusted without a look at the mark.
NeedsUnlessCached(p) == inode \notin cache[p]

NeedsPreparing(p) == inode \notin cache[p] \/ ~db.mark

Connects(p) ==
    /\ pc[p] \in {"idle", "raised"}
    /\ knew' = [knew EXCEPT ![p] = db.mark]
    /\ Goes(p, IF NeedsPreparing(p) THEN "flock" ELSE "using")
    /\ Reads /\ Outside
    /\ UNCHANGED <<at, seen, list, dup>>

\* user_version, if it was not there, and the process's cache.
Marks(p) ==
    /\ pc[p] = "mark"
    /\ IF knew[p] THEN Reads ELSE Commits(p, [db EXCEPT !.mark = TRUE])
    /\ cache' = [cache EXCEPT ![p] = @ \cup {inode}]
    /\ Goes(p, "using")
    /\ UNCHANGED <<inode, initLock, faults, swaps, locals>>

Closes(p) ==
    /\ pc[p] = "using"
    /\ Goes(p, "idle")
    /\ Reads /\ Outside
    /\ UNCHANGED locals

-----------------------------------------------------------------------------
(* The journal mode, under the flock: two processes that switch it at once     *)
(* do not wait for each other, one of them fails.                            *)

\* Mutant: no flock.
LocksNothing(p) ==
    /\ pc[p] = "flock"
    /\ initLock' = p
    /\ Goes(p, "wal")
    /\ Reads
    /\ UNCHANGED <<inode, cache, faults, swaps, locals>>

LocksInit(p) ==
    /\ pc[p] = "flock"
    /\ initLock = NoOne
    /\ initLock' = p
    /\ Goes(p, "wal")
    /\ Reads
    /\ UNCHANGED <<inode, cache, faults, swaps, locals>>

Unlocks(p) == initLock' = IF initLock = p THEN NoOne ELSE initLock

SwitchBegins(p) ==
    /\ pc[p] = "wal"
    /\ IF db.wal \/ \A q \in Procs : pc[q] # "switch"
       THEN Goes(p, "switch") /\ UNCHANGED initLock
       ELSE Goes(p, "raised") /\ Unlocks(p)
    /\ Reads
    /\ UNCHANGED <<inode, cache, faults, swaps, locals>>

SwitchEnds(p) ==
    /\ pc[p] = "switch"
    /\ IF db.wal THEN Reads ELSE Commits(p, [db EXCEPT !.wal = TRUE])
    /\ Unlocks(p)
    /\ Goes(p, "create")
    /\ UNCHANGED <<inode, cache, faults, swaps, locals>>

-----------------------------------------------------------------------------
(* CREATE TABLE IF NOT EXISTS, and the columns earlier releases had not.      *)

Batch(p) == IF pc[p] = "create" THEN {"sources", "items"} ELSE {"poll_state", "rest"}

\* sources and poll_state are created as they were first, without the columns
\* that _add_columns brings.
Born(t) == IF t \in {"sources", "poll_state"} THEN "old" ELSE "new"

Creates(p) ==
    /\ pc[p] \in {"create", "rest"}
    /\ \E t \in Batch(p) :
          /\ db.table[t] = "none"
          /\ Commits(p, [db EXCEPT !.table[t] = Born(t)])
    /\ Outside
    /\ UNCHANGED <<pc, locals>>

\* _migrate_items_schema comes after the first two tables and takes the lock at
\* once; _add_columns comes last and looks first.
CreatesDone(p) ==
    /\ pc[p] \in {"create", "rest"}
    /\ \A t \in Batch(p) : db.table[t] # "none"
    /\ Goes(p, IF pc[p] = "create" THEN "begin" ELSE "look")
    /\ at' = [at EXCEPT ![p] = IF pc[p] = "create" THEN "items" ELSE "sources"]
    /\ seen' = [seen EXCEPT ![p] = TRUE]
    /\ Reads /\ Outside
    /\ UNCHANGED <<knew, list, dup>>

\* What follows the columns of a table.
Follows(p) ==
    /\ at' = [at EXCEPT ![p] = "poll_state"]
    /\ Goes(p, CASE at[p] = "items" -> "rest"
                 [] at[p] = "sources" -> "look"
                 [] OTHER -> "stats")

LooksAtColumns(p) ==
    /\ pc[p] = "look"
    /\ seen' = [seen EXCEPT ![p] = db.table[at[p]] = "old"]
    /\ IF db.table[at[p]] = "old" THEN Goes(p, "begin") /\ UNCHANGED at ELSE Follows(p)
    /\ Reads /\ Outside
    /\ UNCHANGED <<knew, list, dup>>

\* Mutant: the columns are not read again under the lock.
BeginsOnly(p) ==
    /\ pc[p] = "begin"
    /\ Writes(p, View(p))
    /\ Goes(p, "alter")
    /\ Outside
    /\ UNCHANGED locals

\* BEGIN IMMEDIATE, and the columns as they are now.
Begins(p) ==
    /\ pc[p] = "begin"
    /\ Writes(p, View(p))
    /\ seen' = [seen EXCEPT ![p] = db.table[at[p]] = "old"]
    /\ Goes(p, "alter")
    /\ Outside
    /\ UNCHANGED <<at, knew, list, dup>>

\* ALTER TABLE for what is missing or obsolete, and the commit; a column that
\* is there cannot be added.
Alters(p) ==
    /\ pc[p] = "alter"
    /\ IF seen[p] /\ tx.table[at[p]] = "new"
       THEN Goes(p, "raised") /\ Commits(p, db) /\ UNCHANGED at
       ELSE /\ Commits(p, IF seen[p] THEN [tx EXCEPT !.table[at[p]] = "new"] ELSE tx)
            /\ Follows(p)
    /\ Outside
    /\ UNCHANGED <<seen, knew, list, dup>>

-----------------------------------------------------------------------------
(* _ensure_rank_stats and _ensure_rank_model: an INSERT opens the transaction  *)
(* that _normalize_existing_source_urls commits.                             *)

LooksAtStats(p) ==
    /\ pc[p] = "stats"
    /\ Goes(p, IF db.counted = 0 /\ db.labelled THEN "count" ELSE "model")
    /\ Reads /\ Outside
    /\ UNCHANGED locals

Counts(p) ==
    /\ pc[p] = "count"
    /\ Writes(p, [View(p) EXCEPT !.counted = @ + 1])
    /\ Goes(p, "model")
    /\ Outside
    /\ UNCHANGED locals

LooksAtModel(p) ==
    /\ pc[p] = "model"
    /\ Goes(p, IF View(p).trained = 0 /\ db.labelled THEN "train" ELSE "list")
    /\ Reads /\ Outside
    /\ UNCHANGED locals

Trains(p) ==
    /\ pc[p] = "train"
    /\ Writes(p, [View(p) EXCEPT !.trained = @ + 1])
    /\ Goes(p, "list")
    /\ Outside
    /\ UNCHANGED locals

-----------------------------------------------------------------------------
(* _normalize_existing_source_urls: one list, then a look and a write for      *)
(* each source on it. Up to the first write nothing is locked.               *)

ListsSources(p) ==
    /\ pc[p] = "list"
    /\ LET url == View(p).url
       IN  list' = [list EXCEPT ![p] =
                      [s \in {r \in Rss : url[r] # NoUrl /\ Canon[url[r]] # url[r]} |-> url[s]]]
    /\ Goes(p, "loop")
    /\ Reads /\ Outside
    /\ UNCHANGED <<at, seen, knew, dup>>

First(p, s) == s \in DOMAIN list[p] /\ \A r \in DOMAIN list[p] : s <= r

\* Mutant: a source may be its own duplicate.
TakenByAny(p, s) == \E t \in Source : View(p).url[t] = Canon[list[p][s]]

Taken(p, s) == \E t \in Source \ {s} : View(p).url[t] = Canon[list[p][s]]

LooksForDuplicate(p) ==
    /\ pc[p] = "loop"
    /\ \E s \in Source : First(p, s) /\ dup' = [dup EXCEPT ![p] = Taken(p, s)]
    /\ Goes(p, "write")
    /\ Reads /\ Outside
    /\ UNCHANGED <<at, seen, knew, list>>

\* DELETE a source whose feed has another, else UPDATE its URL, if it is there.
Rewritten(p, s) ==
    IF dup[p] \/ View(p).url[s] = NoUrl THEN NoUrl ELSE Canon[list[p][s]]

Rewrites(p) ==
    /\ pc[p] = "write"
    /\ \E s \in Source :
          /\ First(p, s)
          /\ Writes(p, [View(p) EXCEPT !.url[s] = Rewritten(p, s)])
          /\ list' = [list EXCEPT ![p] = [r \in DOMAIN list[p] \ {s} |-> list[p][r]]]
    /\ Goes(p, "loop")
    /\ Outside
    /\ UNCHANGED <<at, seen, knew, dup>>

LoopDone(p) ==
    /\ pc[p] = "loop"
    /\ DOMAIN list[p] = {}
    /\ IF writer = p THEN Commits(p, tx) ELSE Reads
    /\ Goes(p, "mark")
    /\ Outside
    /\ UNCHANGED locals

-----------------------------------------------------------------------------
(* Faults, and the file.                                                    *)

\* A statement raises, or the process dies, with its cache, and another takes
\* its place: SQLite rolls its transaction back, the flock is let go.
Fails(p) ==
    /\ faults < MaxFaults
    /\ faults' = faults + 1
    /\ Goes(p, "idle")
    /\ \E kept \in {cache[p], {}} : cache' = [cache EXCEPT ![p] = kept]
    /\ IF writer = p THEN writer' = NoOne /\ tx' = db ELSE UNCHANGED <<writer, tx>>
    /\ Unlocks(p)
    /\ list' = [list EXCEPT ![p] = NoList]
    /\ UNCHANGED <<db, inode, at, seen, knew, dup, swaps>>

\* The file is deleted, or replaced, while nobody has it open; the inode may be
\* used again. A database an earlier release marked must come as a new file:
\* under a known inode nothing would tell it from a prepared one.
Swaps ==
    /\ swaps < MaxSwaps
    /\ swaps' = swaps + 1
    /\ \A p \in Procs : pc[p] = "idle"
    /\ db' \in Found /\ tx' = db'
    /\ inode' \in Inodes
    /\ db'.mark => Prepared(db') \/ \A p \in Procs : inode' \notin cache[p]
    /\ UNCHANGED <<writer, initLock, cache, pc, locals, faults>>

-----------------------------------------------------------------------------
Prepares(p) ==
    \/ LocksInit(p) \/ SwitchBegins(p) \/ SwitchEnds(p)
    \/ Creates(p) \/ CreatesDone(p) \/ LooksAtColumns(p) \/ Begins(p) \/ Alters(p)
    \/ LooksAtStats(p) \/ Counts(p) \/ LooksAtModel(p) \/ Trains(p)
    \/ ListsSources(p) \/ LooksForDuplicate(p) \/ Rewrites(p) \/ LoopDone(p)
    \/ Marks(p)

Next ==
    \/ \E p \in Procs : Connects(p) \/ Prepares(p) \/ Closes(p) \/ Fails(p)
    \/ Swaps

Spec == Init /\ [][Next]_vars

\* A process that prepares goes on; that anybody connects is up to them.
LiveSpec == Spec /\ \A p \in Procs : WF_vars(Prepares(p))

-----------------------------------------------------------------------------
(* Safety.                                                                  *)

\* Whoever has a connection has a database of the present schema: every table
\* and column, normalised feeds, and the labels of old items in the ranking.
\* "换库后重新准备", "命中缓存时仍核对库自身的标记".
ConnectedIsPrepared == \A p \in Procs : pc[p] = "using" => Prepared(db)

\* Nobody who prepares fails because another does so too: neither in the
\* switch of the journal mode nor with a column that the other has added.
\* "缺列时在写锁内复查，并发连接只有一个执行 DDL".
NobodyIsRefused == \A p \in Procs : pc[p] # "raised"

\* However many normalise the same sources, from lists read before each
\* other's commits, a feed that had a source has one, and none gets a second.
FeedsKeepOneSource == db.asked \subseteq Kept(db.url) /\ Unique(db.url)

-----------------------------------------------------------------------------
(* What of progress is safety: who waits for whom, and how far there is to go. *)

Missing(p) == {t \in Batch(p) : db.table[t] = "none"}

\* The next statement of p is one for which SQLite wants the write lock.
NeedsWriter(p) ==
    \/ pc[p] = "switch" /\ ~db.wal
    \/ pc[p] \in {"create", "rest"} /\ Missing(p) # {}
    \/ pc[p] \in {"begin", "alter", "count", "train", "write"}
    \/ pc[p] = "mark" /\ ~knew[p]

WaitsFor(p) ==
    {q \in Procs : \/ pc[p] = "flock" /\ initLock = q
                   \/ NeedsWriter(p) /\ writer = q /\ q # p}

\* With two locks, and any number of processes, nobody waits for himself: who
\* wants the flock waits for one who at most waits for the writer, and the
\* writer waits for nobody.
NoCircularWait ==
    \A p, q, r \in Procs : q \in WaitsFor(p) /\ r \in WaitsFor(q) => WaitsFor(r) = {}

Busy(p) == pc[p] \notin {"idle", "using", "raised"}

\* What a process has yet to do of _prepare: the stages to come, and in the
\* present one the tables to create or the sources to look at and to write.
Stages(p) ==
    LET tables == CASE at[p] = "items" -> 15 [] at[p] = "sources" -> 11 [] OTHER -> 8
    IN  CASE pc[p] = "flock" -> 21
          [] pc[p] = "wal" -> 20
          [] pc[p] = "switch" -> 19
          [] pc[p] = "create" -> 18
          [] pc[p] = "rest" -> 14
          [] pc[p] = "look" -> tables + 2
          [] pc[p] = "begin" -> tables + 1
          [] pc[p] = "alter" -> tables
          [] pc[p] = "stats" -> 7
          [] pc[p] = "count" -> 6
          [] pc[p] = "model" -> 5
          [] pc[p] = "train" -> 4
          [] pc[p] = "list" -> 3
          [] pc[p] \in {"loop", "write"} -> 2
          [] pc[p] = "mark" -> 1
          [] OTHER -> 0

Statements(p) ==
    CASE pc[p] \in {"create", "rest"} -> Cardinality(Missing(p))
      [] pc[p] = "loop" -> 2 * Cardinality(DOMAIN list[p]) + 1
      [] pc[p] = "write" -> 2 * Cardinality(DOMAIN list[p])
      [] OTHER -> 0

Nearer(p) ==
    Stages(p)' < Stages(p) \/ (Stages(p)' = Stages(p) /\ Statements(p)' < Statements(p))

\* A process that prepares a database is at each of its steps nearer to the end,
\* and nobody else, dead or alive, sends it back: no look at the database is
\* repeated until it comes out as hoped.
EveryStepCounts ==
    [][\A p \in Procs : Busy(p) =>
          /\ Prepares(p) => Nearer(p)
          /\ Nearer(p) \/ (Stages(p)' = Stages(p) /\ Statements(p)' = Statements(p))]_vars

-----------------------------------------------------------------------------
(* Liveness, under LiveSpec.                                                *)

\* A preparation ends, whoever else prepares or dies.
PreparationEnds ==
    \A p \in Procs : pc[p] \notin {"idle", "using"} ~> pc[p] \in {"idle", "using"}
===============================================================================
