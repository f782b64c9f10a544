-------------------------- MODULE FeedSchema_proofs --------------------------
(***************************************************************************)
(* Machine-checked proofs about FeedSchema, for every number of processes,    *)
(* sources, URLs, files, deaths and replacements of the file.                 *)
(***************************************************************************)
EXTENDS FeedSchema, FiniteSetTheorems, TLAPS

(***************************************************************************)
(* The inductive invariant, in parts. A database only grows: tables and       *)
(* columns are added, labels are counted, and a source that needs no          *)
(* normalising is not touched again. So what a process has found or done, and   *)
(* still relies on, stays true while others write and commit.                 *)
(***************************************************************************)
Settled(url, s) == s \in Scripts \/ url[s] = NoUrl \/ Canon[url[s]] = url[s]

Grown(d, e) ==
    /\ d.wal => e.wal
    /\ d.mark => e.mark
    /\ \A t \in Table : d.table[t] # "none" => e.table[t] # "none"
    /\ \A t \in Table : d.table[t] = "new" => e.table[t] = "new"
    /\ e.labelled = d.labelled /\ e.asked = d.asked
    /\ d.counted > 0 => e.counted > 0
    /\ d.trained > 0 => e.trained > 0
    /\ \A s \in Source : Settled(d.url, s) => e.url[s] = d.url[s]
    /\ \A s \in Source : ~Settled(d.url, s) => e.url[s] \in {NoUrl, d.url[s], Canon[d.url[s]]}

Sound(d) == d.table["rest"] # "old" /\ Unique(d.url) /\ d.asked \subseteq Kept(d.url)

Locks ==
    /\ writer = NoOne => tx = db
    /\ tx.mark = db.mark
    /\ \A p \in Procs :
          /\ writer = p => pc[p] \in {"alter", "model", "train", "list", "loop", "write"}
          /\ pc[p] \in {"wal", "switch"} => initLock = p

Columns == {"look", "begin", "alter"}
Late == {"stats", "count", "model", "train", "list", "loop", "write", "mark"}

\* What has been done to the tables by the time a process is at some step.
TablesAt(p) ==
    /\ at[p] # "rest"
    /\ pc[p] = "look" => at[p] # "items"
    /\ pc[p] \in {"create", "rest"} \cup Columns \cup Late => db.wal
    /\ pc[p] \in {"rest"} \cup Columns \cup Late =>
          db.table["sources"] # "none" /\ db.table["items"] # "none"
    /\ pc[p] \in {"rest"} \cup Late \/ (pc[p] \in Columns /\ at[p] # "items") =>
          db.table["items"] = "new"
    /\ pc[p] \in Late \/ (pc[p] \in Columns /\ at[p] # "items") =>
          db.table["poll_state"] # "none" /\ db.table["rest"] = "new"
    /\ pc[p] \in Late \/ (pc[p] \in Columns /\ at[p] = "poll_state") =>
          db.table["sources"] = "new"
    /\ pc[p] \in Late => db.table["poll_state"] = "new"
    /\ pc[p] = "alter" => writer = p /\ tx = db /\ (seen[p] <=> db.table[at[p]] = "old")

\* ... and to the ranking and the sources, in the database as it sees it.
RowsAt(p) ==
    /\ pc[p] \in {"model", "train", "list", "loop", "write", "mark"} =>
          (db.labelled => View(p).counted > 0)
    /\ pc[p] \in {"list", "loop", "write", "mark"} => (db.labelled => View(p).trained > 0)
    /\ pc[p] \in {"loop", "write"} => \A s \in Rss \ DOMAIN list[p] : Settled(View(p).url, s)
    /\ pc[p] = "mark" => \A s \in Rss : Settled(db.url, s)

\* What a list that may be old still says.
ListAt(p) ==
    pc[p] \in {"loop", "write"} =>
        \A s \in DOMAIN list[p] :
            /\ s \in Rss
            /\ Canon[list[p][s]] # list[p][s]
            /\ View(p).url[s] \in {NoUrl, list[p][s], Canon[list[p][s]]}

DupAt(p) ==
    pc[p] = "write" =>
        \A s \in Source :
            First(p, s) =>
                IF dup[p] THEN Taken(p, s) ELSE View(p).url[s] = NoUrl \/ ~Taken(p, s)

CacheInv ==
    \A p \in Procs :
        /\ inode \in cache[p] /\ db.mark => Prepared(db)
        /\ pc[p] = "using" => Prepared(db)

SchemaInv ==
    /\ TypeOK
    /\ Locks
    /\ Grown(db, tx) /\ Sound(db) /\ Sound(tx)
    /\ \A p \in Procs : TablesAt(p) /\ RowsAt(p) /\ ListAt(p) /\ DupAt(p)
    /\ CacheInv
    /\ NobodyIsRefused

-----------------------------------------------------------------------------
(* Typing.                                                                  *)

Lists == UNION {[S -> Urls] : S \in SUBSET Source}

LEMMA NoListIsAList == NoList \in Lists
  <1>1. NoList \in [{} -> Urls]
    BY DEF NoList
  <1> QED BY <1>1 DEF Lists

LEMMA ListsAreLists ==
    ASSUME NEW l \in Lists
    PROVE  DOMAIN l \subseteq Source /\ l \in [DOMAIN l -> Urls]
  BY DEF Lists

LEMMA InitSchema == Init => TypeOK
  BY FoundAreSound, SchemaSentinels, SchemaBounds, NoListIsAList DEF Init, TypeOK, PC, Table, Lists

\* Every step that writes writes a database.
LEMMA DatabasesAreTyped ==
    ASSUME NEW d \in DB
    PROVE  /\ [d EXCEPT !.wal = TRUE] \in DB /\ [d EXCEPT !.mark = TRUE] \in DB
           /\ [d EXCEPT !.counted = @ + 1] \in DB /\ [d EXCEPT !.trained = @ + 1] \in DB
           /\ \A t \in Table, v \in {"old", "new"} : [d EXCEPT !.table[t] = v] \in DB
           /\ \A s \in Source, u \in Urls \cup {NoUrl} : [d EXCEPT !.url[s] = u] \in DB
  <1>1. /\ [d EXCEPT !.wal = TRUE] \in DB /\ [d EXCEPT !.mark = TRUE] \in DB
    BY DEF DB
  <1>2. /\ [d EXCEPT !.counted = @ + 1] \in DB /\ [d EXCEPT !.trained = @ + 1] \in DB
    BY DEF DB
  <1>3. ASSUME NEW t \in Table, NEW v \in {"old", "new"} PROVE [d EXCEPT !.table[t] = v] \in DB
    <2>1. [d.table EXCEPT ![t] = v] \in [Table -> {"none", "old", "new"}]
      BY <1>3 DEF DB
    <2> QED BY <2>1 DEF DB
  <1>4. ASSUME NEW s \in Source, NEW u \in Urls \cup {NoUrl} PROVE [d EXCEPT !.url[s] = u] \in DB
    <2>1. [d.url EXCEPT ![s] = u] \in [Source -> Urls \cup {NoUrl}]
      BY <1>4 DEF DB
    <2> QED BY <2>1 DEF DB
  <1> QED BY <1>1, <1>2, <1>3, <1>4

LEMMA ViewIsTyped ==
    ASSUME TypeOK, NEW p \in Procs
    PROVE  View(p) \in DB
  BY DEF TypeOK, View

LEMMA TypeStep == TypeOK /\ [Next]_vars => TypeOK'
  <1> SUFFICES ASSUME TypeOK, [Next]_vars PROVE TypeOK'
    OBVIOUS
  <1> USE DEF TypeOK, locals, Outside, Reads, Goes
  <1>1. ASSUME NEW p \in Procs, Connects(p) PROVE TypeOK'
    BY <1>1 DEF Connects, PC, DB
  <1>2. ASSUME NEW p \in Procs, Closes(p) PROVE TypeOK'
    BY <1>2 DEF Closes, PC
  <1>3. ASSUME NEW p \in Procs, Fails(p) PROVE TypeOK'
    <2>1. NoList \in Lists
      BY NoListIsAList
    <2>2. list' \in [Procs -> Lists]
      BY <1>3, <2>1 DEF Fails, Lists
    <2> QED BY <1>3, <2>2, SchemaBounds DEF Fails, Unlocks, PC, Lists
  <1>4. ASSUME NEW p \in Procs, Prepares(p) PROVE TypeOK'
    <2> DEFINE d == [db EXCEPT !.wal = TRUE]
    <2>0. View(p) \in DB
      BY ViewIsTyped
    <2>1. CASE LocksInit(p)
      BY <2>1 DEF LocksInit, PC
    <2>2. CASE SwitchBegins(p)
      BY <2>2 DEF SwitchBegins, Unlocks, PC
    <2>3. CASE SwitchEnds(p)
      BY <2>3, DatabasesAreTyped DEF SwitchEnds, Commits, Unlocks, PC
    <2>4. CASE Creates(p)
      <3>1. PICK t \in Batch(p) : Commits(p, [db EXCEPT !.table[t] = Born(t)])
        BY <2>4 DEF Creates
      <3>2. t \in Table /\ Born(t) \in {"old", "new"}
        BY DEF Batch, Table, Born
      <3>3. [db EXCEPT !.table[t] = Born(t)] \in DB
        BY <3>2, DatabasesAreTyped
      <3> QED BY <2>4, <3>1, <3>3 DEF Creates, Commits
    <2>5. CASE CreatesDone(p)
      BY <2>5 DEF CreatesDone, PC, Table
    <2>6. CASE LooksAtColumns(p)
      BY <2>6 DEF LooksAtColumns, Follows, PC, Table
    <2>7. CASE Begins(p)
      BY <2>0, <2>7 DEF Begins, Writes, PC
    <2>8. CASE Alters(p)
      <3>1. [tx EXCEPT !.table[at[p]] = "new"] \in DB
        BY DatabasesAreTyped
      <3> QED BY <2>8, <3>1 DEF Alters, Commits, Follows, PC, Table
    <2>9. CASE LooksAtStats(p)
      BY <2>9 DEF LooksAtStats, PC
    <2>10. CASE Counts(p)
      <3>1. [View(p) EXCEPT !.counted = @ + 1] \in DB
        BY <2>0, DatabasesAreTyped
      <3> QED BY <2>10, <3>1 DEF Counts, Writes, PC
    <2>11. CASE LooksAtModel(p)
      BY <2>11 DEF LooksAtModel, PC
    <2>12. CASE Trains(p)
      <3>1. [View(p) EXCEPT !.trained = @ + 1] \in DB
        BY <2>0, DatabasesAreTyped
      <3> QED BY <2>12, <3>1 DEF Trains, Writes, PC
    <2>13. CASE ListsSources(p)
      <3> DEFINE u == View(p).url
                 S == {r \in Rss : u[r] # NoUrl /\ Canon[u[r]] # u[r]}
      <3>1. u \in [Source -> Urls \cup {NoUrl}]
        BY <2>0 DEF DB
      <3>2. [s \in S |-> u[s]] \in [S -> Urls] /\ S \in SUBSET Source
        BY <3>1 DEF Rss
      <3>3. [s \in S |-> u[s]] \in Lists
        BY <3>2 DEF Lists
      <3>4. list' \in [Procs -> Lists]
        BY <2>13, <3>3 DEF ListsSources, Lists
      <3> QED BY <2>13, <3>4 DEF ListsSources, PC, Lists
    <2>14. CASE LooksForDuplicate(p)
      <3>1. PICK s \in Source : dup' = [dup EXCEPT ![p] = Taken(p, s)]
        BY <2>14 DEF LooksForDuplicate
      <3>2. Taken(p, s) \in BOOLEAN
        BY DEF Taken
      <3>3. dup' \in [Procs -> BOOLEAN]
        BY <3>1, <3>2
      <3> QED BY <2>14, <3>3 DEF LooksForDuplicate, PC
    <2>15. CASE Rewrites(p)
      <3>1. PICK s \in Source :
               /\ First(p, s)
               /\ Writes(p, [View(p) EXCEPT !.url[s] = Rewritten(p, s)])
               /\ list' = [list EXCEPT ![p] = [r \in DOMAIN list[p] \ {s} |-> list[p][r]]]
        BY <2>15 DEF Rewrites
      <3>2. list[p] \in Lists
        BY DEF Lists
      <3>3. DOMAIN list[p] \subseteq Source /\ list[p] \in [DOMAIN list[p] -> Urls]
        BY <3>2, ListsAreLists
      <3> DEFINE S == DOMAIN list[p] \ {s}
                 l == [r \in S |-> list[p][r]]
      <3>4. l \in Lists
        <4>1. S \in SUBSET Source /\ l \in [S -> Urls]
          BY <3>3
        <4> HIDE DEF S, l
        <4> QED BY <4>1 DEF Lists
      <3>5. Rewritten(p, s) \in Urls \cup {NoUrl}
        BY <3>1, <3>3, CanonIsIdempotent DEF Rewritten, First
      <3>6. [View(p) EXCEPT !.url[s] = Rewritten(p, s)] \in DB
        BY <2>0, <3>5, DatabasesAreTyped
      <3>7. list' \in [Procs -> Lists]
        <4>1. list' = [list EXCEPT ![p] = l]
          BY <3>1
        <4> HIDE DEF l
        <4> QED BY <4>1, <3>4 DEF Lists
      <3> QED BY <2>15, <3>1, <3>6, <3>7 DEF Rewrites, Writes, PC, Lists
    <2>16. CASE LoopDone(p)
      BY <2>16 DEF LoopDone, Commits, PC
    <2>17. CASE Marks(p)
      <3>1. [db EXCEPT !.mark = TRUE] \in DB
        BY DatabasesAreTyped
      <3> QED BY <2>17, <3>1 DEF Marks, Commits, PC
    <2> QED BY <1>4, <2>1, <2>2, <2>3, <2>4, <2>5, <2>6, <2>7, <2>8, <2>9, <2>10, <2>11, <2>12,
               <2>13, <2>14, <2>15, <2>16, <2>17 DEF Prepares
  <1>5. CASE Swaps
    BY <1>5, FoundAreSound, SchemaBounds DEF Swaps
  <1>6. CASE UNCHANGED vars
    BY <1>6 DEF vars
  <1> QED BY <1>1, <1>2, <1>3, <1>4, <1>5, <1>6 DEF Next

\* The types of FeedSchema's state.
THEOREM TypeCorrect == Spec => []TypeOK
  BY InitSchema, TypeStep, PTL DEF Spec

-----------------------------------------------------------------------------
(* How a database grows.                                                    *)

LEMMA GrownSelf == \A d : Grown(d, d)
  BY DEF Grown, Settled

LEMMA GrownOnwards ==
    ASSUME NEW d \in DB, NEW e \in DB, NEW f \in DB, Grown(d, e), Grown(e, f)
    PROVE  Grown(d, f)
  <1>1. ASSUME NEW s \in Source, Settled(d.url, s) PROVE f.url[s] = d.url[s]
    BY <1>1 DEF Grown, Settled
  <1>2. ASSUME NEW s \in Source, ~Settled(d.url, s)
        PROVE  f.url[s] \in {NoUrl, d.url[s], Canon[d.url[s]]}
    <2>1. d.url[s] \in Urls
      BY <1>2 DEF DB, Settled
    <2>2. e.url[s] \in {NoUrl, d.url[s], Canon[d.url[s]]}
      BY <1>2 DEF Grown
    <2>3. e.url[s] = d.url[s] \/ Settled(e.url, s)
      BY <2>1, <2>2, CanonIsIdempotent DEF Settled
    <2> QED BY <1>2, <2>2, <2>3 DEF Grown, Settled
  <1> QED BY <1>1, <1>2 DEF Grown

LEMMA GrownStaysPrepared ==
    ASSUME NEW d \in DB, NEW e \in DB, Grown(d, e), Prepared(d)
    PROVE  Prepared(e)
  <1>1. \A s \in Rss : Settled(d.url, s)
    BY DEF Prepared, Settled
  <1>2. \A s \in Rss : e.url[s] = d.url[s]
    BY <1>1 DEF Grown, Rss
  <1>3. \A t \in Table : e.table[t] = "new"
    BY DEF Grown, Prepared
  <1>4. e.labelled => e.counted > 0 /\ e.trained > 0
    BY DEF Grown, Prepared
  <1> QED BY <1>2, <1>3, <1>4 DEF Grown, Prepared

\* A statement about one column, table or label.
LEMMA SmallStepsGrow ==
    ASSUME NEW d \in DB, Sound(d)
    PROVE  /\ Grown(d, [d EXCEPT !.wal = TRUE]) /\ Sound([d EXCEPT !.wal = TRUE])
           /\ Grown(d, [d EXCEPT !.mark = TRUE]) /\ Sound([d EXCEPT !.mark = TRUE])
           /\ Grown(d, [d EXCEPT !.counted = @ + 1]) /\ Sound([d EXCEPT !.counted = @ + 1])
           /\ Grown(d, [d EXCEPT !.trained = @ + 1]) /\ Sound([d EXCEPT !.trained = @ + 1])
  <1> USE DEF DB
  <1>1. Grown(d, [d EXCEPT !.wal = TRUE]) /\ Grown(d, [d EXCEPT !.mark = TRUE])
    BY DEF Grown, Settled
  <1>2. Grown(d, [d EXCEPT !.counted = @ + 1]) /\ Grown(d, [d EXCEPT !.trained = @ + 1])
    BY DEF Grown, Settled
  <1> QED BY <1>1, <1>2 DEF Sound

LEMMA TablesGrow ==
    ASSUME NEW d \in DB, Sound(d), NEW t \in Table, NEW v \in {"old", "new"},
           d.table[t] # "new", t = "rest" => v = "new"
    PROVE  Grown(d, [d EXCEPT !.table[t] = v]) /\ Sound([d EXCEPT !.table[t] = v])
  <1> DEFINE e == [d EXCEPT !.table[t] = v]
  <1>1. /\ e.url = d.url /\ e.asked = d.asked /\ e.wal = d.wal /\ e.mark = d.mark
        /\ e.labelled = d.labelled /\ e.counted = d.counted /\ e.trained = d.trained
    BY DEF DB
  <1>2. \A r \in Table : e.table[r] = IF r = t THEN v ELSE d.table[r]
    BY DEF DB
  <1>3. "rest" \in Table
    BY DEF Table
  <1> HIDE DEF e
  <1>4. Grown(d, e)
    BY <1>1, <1>2 DEF Grown, Settled
  <1>5. Sound(e)
    BY <1>1, <1>2, <1>3 DEF Sound
  <1> QED BY <1>4, <1>5 DEF e

\* DELETE or UPDATE of a source that may have been dealt with already: it
\* grows, and every feed keeps exactly one source.
LEMMA RewritingGrows ==
    ASSUME NEW d \in DB, Sound(d), NEW s \in Rss, NEW u \in Urls, NEW dupl \in BOOLEAN,
           NEW new,
           Canon[u] # u, d.url[s] \in {NoUrl, u, Canon[u]},
           IF dupl THEN \E t \in Source \ {s} : d.url[t] = Canon[u]
           ELSE d.url[s] = NoUrl \/ ~\E t \in Source \ {s} : d.url[t] = Canon[u],
           new = IF dupl \/ d.url[s] = NoUrl THEN NoUrl ELSE Canon[u]
    PROVE  Grown(d, [d EXCEPT !.url[s] = new]) /\ Sound([d EXCEPT !.url[s] = new])
  <1> DEFINE e == [d EXCEPT !.url[s] = new]
             c == Canon[u]
  <1>1. s \in Source /\ s \notin Scripts
    BY DEF Rss
  <1>2. c \in Urls /\ Canon[c] = c /\ c # NoUrl
    BY CanonIsIdempotent, SchemaSentinels
  <1>3. /\ e.table = d.table /\ e.asked = d.asked /\ e.wal = d.wal /\ e.mark = d.mark
        /\ e.labelled = d.labelled /\ e.counted = d.counted /\ e.trained = d.trained
    BY DEF DB
  <1>4. \A r \in Source : e.url[r] = IF r = s THEN new ELSE d.url[r]
    BY <1>1 DEF DB
  <1>5. u # NoUrl
    BY SchemaSentinels
  <1> HIDE DEF e, c
  <1>6. c = Canon[u]
    BY DEF c
  <1>7. Settled(d.url, s) => new = d.url[s]
    <2>1. Settled(d.url, s) => d.url[s] \in {NoUrl, c}
      BY <1>1, <1>2, <1>5, <1>6 DEF Settled
    <2>2. d.url[s] = c /\ dupl => FALSE
      BY <1>1, <1>2, <1>6 DEF Sound, Unique
    <2> QED BY <2>1, <2>2, <1>6
  <1>8. ~Settled(d.url, s) => new \in {NoUrl, d.url[s], Canon[d.url[s]]}
    BY <1>1, <1>2, <1>5, <1>6 DEF Settled
  <1>9. \A r \in Source : e.url[r] # d.url[r] => r = s
    BY <1>4
  <1>10. Grown(d, e)
    BY <1>3, <1>4, <1>7, <1>8 DEF Grown, Settled
  <1>11. Unique(e.url)
    <2>1. SUFFICES ASSUME NEW r \in Source, NEW t \in Source, r # t, e.url[r] # NoUrl,
                          e.url[r] = e.url[t]
                   PROVE  FALSE
      BY DEF Unique
    <2>2. CASE r # s /\ t # s
      BY <2>1, <2>2, <1>4 DEF Sound, Unique
    <2>3. CASE r = s \/ t = s
      <3>1. new # NoUrl /\ \E q \in Source \ {s} : d.url[q] = new
        BY <2>1, <2>3, <1>4
      <3>2. ~dupl /\ d.url[s] # NoUrl /\ new = c
        BY <3>1, <1>6
      <3> QED BY <3>1, <3>2, <1>6
    <2> QED BY <2>2, <2>3
  <1>12. Kept(d.url) \subseteq Kept(e.url)
    <2>1. SUFFICES ASSUME NEW r \in Source, d.url[r] # NoUrl
                   PROVE  Feed(d.url, r) \in Kept(e.url)
      BY DEF Kept
    <2>2. CASE r # s
      <3>1. e.url[r] = d.url[r]
        BY <2>2, <1>4
      <3> QED BY <2>1, <3>1 DEF Kept, Feed
    <2>3. CASE r = s
      <3>1. Feed(d.url, s) = c
        BY <2>1, <2>3, <1>1, <1>2, <1>6 DEF Feed
      <3>2. CASE dupl
        <4>1. PICK t \in Source \ {s} : d.url[t] = c
          BY <3>2, <1>6
        <4>2. e.url[t] = c
          BY <4>1, <1>4
        <4>3. Feed(e.url, t) = c
          BY <4>2, <1>2 DEF Feed
        <4> QED BY <4>2, <4>3, <3>1, <1>2, <2>3 DEF Kept
      <3>3. CASE ~dupl
        <4>1. e.url[s] = c
          BY <3>3, <2>1, <2>3, <1>1, <1>4, <1>6
        <4>2. Feed(e.url, s) = c
          BY <4>1, <1>1, <1>2 DEF Feed
        <4> QED BY <4>1, <4>2, <3>1, <1>1, <1>2, <2>3 DEF Kept
      <3> QED BY <3>2, <3>3
    <2> QED BY <2>2, <2>3
  <1>13. Sound(e)
    BY <1>3, <1>11, <1>12 DEF Sound
  <1> QED BY <1>10, <1>13 DEF e

-----------------------------------------------------------------------------
(* What a step of a process does to the stores, and to the other processes.   *)

Committing(p) ==
    /\ writer \in {NoOne, p} /\ writer' = NoOne
    /\ tx' = db' /\ Grown(db, db') /\ Sound(db')
    /\ db'.url # db.url => db' = tx /\ \A s \in Rss : Settled(db'.url, s)

Writing(p) ==
    /\ writer \in {NoOne, p} /\ writer' = p
    /\ db' = db /\ Grown(db, tx') /\ Sound(tx')

Undoing(p) == writer = p /\ writer' = NoOne /\ db' = db /\ tx' = db

StoreStep(p) == Reads \/ Committing(p) \/ Writing(p) \/ Undoing(p)

OthersStay(p) ==
    /\ inode' = inode
    /\ \A q \in Procs \ {p} :
          /\ pc'[q] = pc[q] /\ at'[q] = at[q] /\ seen'[q] = seen[q]
          /\ list'[q] = list[q] /\ dup'[q] = dup[q]
          /\ cache'[q] = cache[q]
          /\ initLock = q => initLock' = q

ProcNext(p) == Connects(p) \/ Prepares(p) \/ Closes(p) \/ Fails(p)

LEMMA OthersStayed ==
    ASSUME TypeOK, NEW p \in Procs, ProcNext(p)
    PROVE  OthersStay(p)
  <1> USE DEF OthersStay, TypeOK, locals, Goes, Outside
  <1>1. CASE Connects(p) \/ Closes(p) \/ Fails(p)
    BY <1>1, SchemaSentinels DEF Connects, Closes, Fails, Unlocks
  <1>2. CASE LocksInit(p) \/ SwitchBegins(p) \/ SwitchEnds(p)
    BY <1>2, SchemaSentinels DEF LocksInit, SwitchBegins, SwitchEnds, Unlocks
  <1>3. CASE Creates(p) \/ CreatesDone(p) \/ LooksAtColumns(p) \/ Begins(p) \/ Alters(p)
    BY <1>3 DEF Creates, CreatesDone, LooksAtColumns, Begins, Alters, Follows
  <1>4. CASE LooksAtStats(p) \/ Counts(p) \/ LooksAtModel(p) \/ Trains(p)
    BY <1>4 DEF LooksAtStats, Counts, LooksAtModel, Trains
  <1>5. CASE ListsSources(p) \/ LooksForDuplicate(p) \/ Rewrites(p) \/ LoopDone(p) \/ Marks(p)
    BY <1>5 DEF ListsSources, LooksForDuplicate, Rewrites, LoopDone, Marks
  <1> QED BY <1>1, <1>2, <1>3, <1>4, <1>5 DEF ProcNext, Prepares

LEMMA ViewIsSound ==
    ASSUME SchemaInv, NEW p \in Procs
    PROVE  /\ View(p) \in DB /\ Sound(View(p)) /\ Grown(db, View(p))
           /\ writer # p => View(p) = db
  BY ViewIsTyped, GrownSelf DEF SchemaInv, View

\* A write in a transaction that only adds to what it sees.
LEMMA WritesAdd ==
    ASSUME SchemaInv, TypeOK', NEW p \in Procs, NEW new \in DB, Writes(p, new),
           Grown(View(p), new), Sound(new)
    PROVE  Writing(p)
  <1>1. View(p) \in DB /\ Grown(db, View(p)) /\ db \in DB
    BY ViewIsSound DEF SchemaInv, TypeOK
  <1>2. Grown(db, new)
    BY <1>1, GrownOnwards
  <1> QED BY <1>2 DEF Writes, Writing

LEMMA CommitsAdd ==
    ASSUME SchemaInv, NEW p \in Procs, NEW new, Commits(p, new),
           Grown(db, new), Sound(new), new.url = db.url
    PROVE  Committing(p)
  BY DEF Commits, Committing

LEMMA StoreSteps ==
    ASSUME SchemaInv, TypeOK', NEW p \in Procs, ProcNext(p)
    PROVE  StoreStep(p)
  <1> USE DEF StoreStep
  <1>0. /\ TypeOK /\ Locks /\ db \in DB /\ tx \in DB /\ Sound(db) /\ Sound(tx) /\ Grown(db, tx)
        /\ TablesAt(p) /\ RowsAt(p) /\ ListAt(p) /\ DupAt(p)
    BY DEF SchemaInv, TypeOK
  <1>00. /\ View(p) \in DB /\ Sound(View(p)) /\ Grown(db, View(p))
         /\ writer # p => View(p) = db
    BY ViewIsSound
  <1>1. CASE Connects(p) \/ Closes(p) \/ LocksInit(p) \/ SwitchBegins(p)
    BY <1>1 DEF Connects, Closes, LocksInit, SwitchBegins
  <1>2. CASE CreatesDone(p) \/ LooksAtColumns(p) \/ LooksAtStats(p) \/ LooksAtModel(p)
    BY <1>2 DEF CreatesDone, LooksAtColumns, LooksAtStats, LooksAtModel
  <1>3. CASE ListsSources(p) \/ LooksForDuplicate(p)
    BY <1>3 DEF ListsSources, LooksForDuplicate
  <1>4. CASE Fails(p)
    BY <1>4 DEF Fails, Undoing, Reads
  <1>5. CASE SwitchEnds(p)
    <2>1. Grown(db, [db EXCEPT !.wal = TRUE]) /\ Sound([db EXCEPT !.wal = TRUE])
      BY <1>0, SmallStepsGrow
    <2>2. [db EXCEPT !.wal = TRUE].url = db.url
      BY <1>0 DEF DB
    <2> HIDE DEF StoreStep
    <2>3. Reads \/ Commits(p, [db EXCEPT !.wal = TRUE])
      BY <1>5 DEF SwitchEnds
    <2> QED BY <2>1, <2>2, <2>3, CommitsAdd DEF StoreStep
  <1>6. CASE Marks(p)
    <2>1. Grown(db, [db EXCEPT !.mark = TRUE]) /\ Sound([db EXCEPT !.mark = TRUE])
      BY <1>0, SmallStepsGrow
    <2>2. [db EXCEPT !.mark = TRUE].url = db.url
      BY <1>0 DEF DB
    <2> HIDE DEF StoreStep
    <2>3. Reads \/ Commits(p, [db EXCEPT !.mark = TRUE])
      BY <1>6 DEF Marks
    <2> QED BY <2>1, <2>2, <2>3, CommitsAdd DEF StoreStep
  <1>7. CASE Creates(p)
    <2>1. PICK t \in Batch(p) : db.table[t] = "none" /\ Commits(p, [db EXCEPT !.table[t] = Born(t)])
      BY <1>7 DEF Creates
    <2>2. t \in Table /\ Born(t) \in {"old", "new"} /\ (t = "rest" => Born(t) = "new")
      BY DEF Batch, Table, Born
    <2> DEFINE new == [db EXCEPT !.table[t] = Born(t)]
    <2>3. Grown(db, new) /\ Sound(new)
      BY <1>0, <2>1, <2>2, TablesGrow
    <2>4. new.url = db.url
      BY <1>0 DEF DB
    <2>5. Commits(p, new)
      BY <2>1
    <2> HIDE DEF new
    <2> QED BY <2>3, <2>4, <2>5, CommitsAdd
  <1>8. CASE Begins(p)
    <2>1. Writes(p, View(p))
      BY <1>8 DEF Begins
    <2> QED BY <1>00, <2>1, GrownSelf, WritesAdd
  <1>9. CASE Alters(p)
    <2>1. writer = p /\ tx = db /\ (seen[p] <=> db.table[at[p]] = "old")
      BY <1>0, <1>9 DEF Alters, TablesAt
    <2>2. Commits(p, IF seen[p] THEN [tx EXCEPT !.table[at[p]] = "new"] ELSE tx)
      BY <1>9, <2>1 DEF Alters
    <2>3. CASE seen[p]
      <3> DEFINE new == [db EXCEPT !.table[at[p]] = "new"]
      <3>1. at[p] \in Table /\ db.table[at[p]] # "new"
        BY <1>0, <2>1, <2>3 DEF TypeOK
      <3>2. Grown(db, new) /\ Sound(new)
        BY <1>0, <3>1, TablesGrow
      <3>3. new.url = db.url
        BY <1>0 DEF DB
      <3>4. Commits(p, new)
        BY <2>1, <2>2, <2>3
      <3> HIDE DEF new
      <3> QED BY <3>2, <3>3, <3>4, CommitsAdd
    <2>4. CASE ~seen[p]
      BY <1>0, <2>1, <2>2, <2>4, GrownSelf, CommitsAdd
    <2> QED BY <2>3, <2>4
  <1>10. CASE Counts(p)
    <2> DEFINE new == [View(p) EXCEPT !.counted = @ + 1]
    <2>1. new \in DB /\ Grown(View(p), new) /\ Sound(new)
      BY <1>00, DatabasesAreTyped, SmallStepsGrow
    <2>2. Writes(p, new)
      BY <1>10 DEF Counts
    <2> HIDE DEF new
    <2> QED BY <2>1, <2>2, WritesAdd
  <1>11. CASE Trains(p)
    <2> DEFINE new == [View(p) EXCEPT !.trained = @ + 1]
    <2>1. new \in DB /\ Grown(View(p), new) /\ Sound(new)
      BY <1>00, DatabasesAreTyped, SmallStepsGrow
    <2>2. Writes(p, new)
      BY <1>11 DEF Trains
    <2> HIDE DEF new
    <2> QED BY <2>1, <2>2, WritesAdd
  <1>12. CASE Rewrites(p)
    <2>1. PICK s \in Source :
             First(p, s) /\ Writes(p, [View(p) EXCEPT !.url[s] = Rewritten(p, s)])
      BY <1>12 DEF Rewrites
    <2>2. pc[p] = "write" /\ s \in DOMAIN list[p]
      BY <1>12, <2>1 DEF Rewrites, First
    <2> DEFINE u == list[p][s]
               new == [View(p) EXCEPT !.url[s] = Rewritten(p, s)]
    <2>3. s \in Rss /\ Canon[u] # u /\ View(p).url[s] \in {NoUrl, u, Canon[u]}
      BY <1>0, <2>2 DEF ListAt
    <2>4. list[p] \in Lists
      BY <1>0 DEF TypeOK, Lists
    <2>5. u \in Urls
      BY <2>2, <2>4, ListsAreLists
    <2>6. IF dup[p] THEN \E t \in Source \ {s} : View(p).url[t] = Canon[u]
          ELSE View(p).url[s] = NoUrl \/ ~\E t \in Source \ {s} : View(p).url[t] = Canon[u]
      BY <1>0, <2>1, <2>2 DEF DupAt, Taken
    <2>7. dup[p] \in BOOLEAN
      BY <1>0 DEF TypeOK
    <2>8. Rewritten(p, s) = IF dup[p] \/ View(p).url[s] = NoUrl THEN NoUrl ELSE Canon[u]
      BY DEF Rewritten
    <2>9. Grown(View(p), new) /\ Sound(new)
      BY <1>00, <2>3, <2>5, <2>6, <2>7, <2>8, RewritingGrows
    <2>10. Rewritten(p, s) \in Urls \cup {NoUrl}
      BY <2>5, <2>8, CanonIsIdempotent
    <2>11. new \in DB
      BY <1>00, <2>10, DatabasesAreTyped
    <2>12. Writes(p, new)
      BY <2>1
    <2> HIDE DEF new
    <2> QED BY <2>9, <2>11, <2>12, WritesAdd
  <1>13. CASE LoopDone(p)
    <2>1. CASE writer = p
      <3>1. \A s \in Rss : Settled(tx.url, s)
        BY <1>0, <1>13, <2>1 DEF LoopDone, RowsAt, View
      <3> QED BY <1>0, <1>13, <2>1, <3>1 DEF LoopDone, Commits, Committing
    <2>2. CASE writer # p
      BY <1>13, <2>2 DEF LoopDone
    <2> QED BY <2>1, <2>2
  <1> QED BY <1>1, <1>2, <1>3, <1>4, <1>5, <1>6, <1>7, <1>8, <1>9, <1>10, <1>11, <1>12, <1>13
          DEF ProcNext, Prepares

-----------------------------------------------------------------------------
(* The other processes rely on what still holds.                            *)

LEMMA ViewsGrow ==
    ASSUME SchemaInv, TypeOK', NEW p \in Procs, StoreStep(p), NEW q \in Procs \ {p}
    PROVE  /\ View(q) \in DB /\ View(q)' \in DB
           /\ Grown(View(q), View(q)')
           /\ Grown(db, db')
           /\ writer = q => Reads
           /\ View(q)'.url # View(q).url =>
                 View(q) = db /\ Sound(View(q)') /\ \A s \in Rss : Settled(View(q)'.url, s)
  <1>1. View(q) \in DB /\ View(q)' \in DB
    BY DEF SchemaInv, TypeOK, View
  <1>2. CASE Reads
    BY <1>1, <1>2, GrownSelf DEF Reads, View
  <1>3. CASE Committing(p)
    <2>1. writer # q /\ writer' # q
      BY <1>3, SchemaSentinels DEF Committing
    <2> QED BY <1>1, <1>3, <2>1 DEF Committing, View
  <1>4. CASE Writing(p)
    <2>1. writer # q /\ writer' # q
      BY <1>4, SchemaSentinels DEF Writing
    <2> QED BY <1>1, <1>4, <2>1, GrownSelf DEF Writing, View
  <1>5. CASE Undoing(p)
    <2>1. writer # q /\ writer' # q
      BY <1>5, SchemaSentinels DEF Undoing
    <2> QED BY <1>1, <1>5, <2>1, GrownSelf DEF Undoing, View
  <1> QED BY <1>2, <1>3, <1>4, <1>5 DEF StoreStep

LEMMA OthersKeep ==
    ASSUME SchemaInv, TypeOK', NEW p \in Procs, StoreStep(p), OthersStay(p),
           NEW q \in Procs \ {p}
    PROVE  TablesAt(q)' /\ RowsAt(q)' /\ ListAt(q)' /\ DupAt(q)'
  <1>1. /\ pc'[q] = pc[q] /\ at'[q] = at[q] /\ seen'[q] = seen[q]
        /\ list'[q] = list[q] /\ dup'[q] = dup[q]
    BY DEF OthersStay
  <1>2. /\ TablesAt(q) /\ RowsAt(q) /\ ListAt(q) /\ DupAt(q)
        /\ db \in DB /\ db' \in DB /\ at[q] \in Table /\ list[q] \in Lists
    BY DEF SchemaInv, TypeOK, Lists
  <1>3. /\ View(q) \in DB /\ View(q)' \in DB
        /\ Grown(View(q), View(q)') /\ Grown(db, db')
        /\ writer = q => Reads
    BY ViewsGrow
  <1>4. TablesAt(q)'
    <2>1. pc[q] = "alter" => UNCHANGED <<db, tx, writer>>
      BY <1>2, <1>3 DEF TablesAt, Reads
    <2>2. \A t \in Table : /\ db.table[t] # "none" => db'.table[t] # "none"
                           /\ db.table[t] = "new" => db'.table[t] = "new"
      BY <1>3 DEF Grown
    <2>3. db.wal => db'.wal
      BY <1>3 DEF Grown
    <2>4. {"sources", "items", "poll_state", "rest"} \subseteq Table
      BY DEF Table
    <2> QED BY <1>1, <1>2, <2>1, <2>2, <2>3, <2>4 DEF TablesAt
  <1>5. RowsAt(q)'
    <2>1. db'.labelled = db.labelled
      BY <1>3 DEF Grown
    <2>2. /\ View(q).counted > 0 => View(q)'.counted > 0
          /\ View(q).trained > 0 => View(q)'.trained > 0
      BY <1>3 DEF Grown
    <2>3. \A s \in Source : Settled(View(q).url, s) => Settled(View(q)'.url, s)
      BY <1>3 DEF Grown, Settled
    <2>4. \A s \in Source : Settled(db.url, s) => Settled(db'.url, s)
      BY <1>3 DEF Grown, Settled
    <2>5. Rss \subseteq Source
      BY DEF Rss
    <2> QED BY <1>1, <1>2, <2>1, <2>2, <2>3, <2>4, <2>5 DEF RowsAt
  <1>6. ListAt(q)'
    <2>1. SUFFICES ASSUME pc[q] \in {"loop", "write"}, NEW s \in DOMAIN list[q]
                   PROVE  View(q)'.url[s] \in {NoUrl, list[q][s], Canon[list[q][s]]}
      BY <1>1, <1>2 DEF ListAt
    <2> DEFINE u == list[q][s]
    <2>2. s \in Rss /\ s \in Source /\ View(q).url[s] \in {NoUrl, u, Canon[u]}
      BY <1>2, <2>1 DEF ListAt, Rss
    <2>3. u \in Urls
      BY <1>2, ListsAreLists
    <2>4. CASE Settled(View(q).url, s)
      BY <1>3, <2>2, <2>4 DEF Grown
    <2>5. CASE ~Settled(View(q).url, s)
      <3>1. View(q).url[s] = u
        BY <2>2, <2>3, <2>5, CanonIsIdempotent DEF Settled
      <3> QED BY <1>3, <2>2, <2>5, <3>1 DEF Grown
    <2> QED BY <2>4, <2>5
  <1>7. DupAt(q)'
    <2>1. SUFFICES ASSUME pc[q] = "write", NEW s \in Source, First(q, s)
                   PROVE  IF dup[q] THEN Taken(q, s)'
                          ELSE View(q)'.url[s] = NoUrl \/ ~Taken(q, s)'
      BY <1>1 DEF DupAt, First
    <2>2. IF dup[q] THEN Taken(q, s) ELSE View(q).url[s] = NoUrl \/ ~Taken(q, s)
      BY <1>2, <2>1 DEF DupAt
    <2> DEFINE u == list[q][s]
    <2>3. /\ s \in Rss /\ Canon[u] # u
          /\ View(q).url[s] \in {NoUrl, u, Canon[u]}
      BY <1>2, <2>1 DEF ListAt, First
    <2>4. u \in Urls /\ Canon[u] \in Urls /\ Canon[Canon[u]] = Canon[u] /\ Canon[u] # NoUrl
      BY <1>2, <2>1, ListsAreLists, CanonIsIdempotent, SchemaSentinels DEF First
    <2>5. \A t \in Source : View(q).url[t] = Canon[u] => View(q)'.url[t] = Canon[u]
      BY <1>3, <2>4 DEF Grown, Settled
    <2>6. Taken(q, s) => Taken(q, s)'
      BY <1>1, <2>5 DEF Taken
    <2>7. View(q).url[s] = NoUrl => View(q)'.url[s] = NoUrl
      BY <1>3 DEF Grown, Settled
    <2>8. ASSUME ~Taken(q, s), View(q)'.url[s] # NoUrl PROVE ~Taken(q, s)'
      <3>1. CASE View(q)'.url = View(q).url
        BY <1>1, <2>8, <3>1 DEF Taken
      <3>2. CASE View(q)'.url # View(q).url
        <4>1. Sound(View(q)') /\ Settled(View(q)'.url, s)
          BY <2>3, <3>2, ViewsGrow
        <4>2. View(q)'.url[s] \in {NoUrl, u, Canon[u]}
          BY <1>1, <1>6, <2>1 DEF ListAt, First
        <4>3. View(q)'.url[s] = Canon[u]
          BY <2>3, <2>4, <2>8, <4>1, <4>2 DEF Settled, Rss
        <4> QED BY <1>1, <2>4, <4>1, <4>3 DEF Sound, Unique, Taken
      <3> QED BY <3>1, <3>2
    <2> QED BY <2>2, <2>6, <2>7, <2>8
  <1> QED BY <1>4, <1>5, <1>6, <1>7

-----------------------------------------------------------------------------
(* What a process has done by its next step.                                *)

ProcessAt(p) == TablesAt(p) /\ RowsAt(p) /\ ListAt(p) /\ DupAt(p)

LEMMA TablesFollow ==
    ASSUME SchemaInv, TypeOK', NEW p \in Procs, StoreStep(p)
    PROVE  /\ db' \in DB
           /\ db.wal => db'.wal
           /\ \A t \in Table : /\ db.table[t] # "none" => db'.table[t] # "none"
                               /\ db.table[t] = "new" => db'.table[t] = "new"
           /\ db'.labelled = db.labelled
  <1>1. Grown(db, db')
    BY GrownSelf DEF StoreStep, Reads, Committing, Writing, Undoing
  <1> QED BY <1>1 DEF TypeOK, Grown

\* Up to the columns: nothing is said of the rows yet.
LEMMA EarlySteps ==
    ASSUME SchemaInv, TypeOK', NEW p \in Procs, StoreStep(p),
           \/ Connects(p) \/ Closes(p) \/ Fails(p) \/ LocksInit(p) \/ SwitchBegins(p)
           \/ SwitchEnds(p) \/ Creates(p) \/ CreatesDone(p) \/ LooksAtColumns(p)
    PROVE  ProcessAt(p)'
  <1> USE DEF Goes
  <1>0. TypeOK /\ ProcessAt(p)
    BY DEF SchemaInv, ProcessAt
  <1>00. /\ db' \in DB
         /\ db.wal => db'.wal
         /\ \A t \in Table : /\ db.table[t] # "none" => db'.table[t] # "none"
                             /\ db.table[t] = "new" => db'.table[t] = "new"
         /\ db'.labelled = db.labelled
    BY TablesFollow
  <1>1. pc'[p] \in {"flock", "using", "idle", "wal", "switch", "raised", "create", "rest", "begin",
                    "look", "stats"}
    BY <1>0 DEF TypeOK, Connects, Closes, Fails, LocksInit, SwitchBegins, SwitchEnds, Creates,
            CreatesDone, LooksAtColumns, Follows
  <1>2. RowsAt(p)' /\ ListAt(p)' /\ DupAt(p)'
    BY <1>1 DEF RowsAt, ListAt, DupAt
  <1>3. TablesAt(p)'
    <2> USE <1>0 DEF TypeOK, ProcessAt, TablesAt, Columns, Late, locals, Outside, Reads
    <2>1. CASE Connects(p) \/ Closes(p) \/ Fails(p)
      BY <2>1 DEF Connects, Closes, Fails
    <2>2. CASE LocksInit(p) \/ SwitchBegins(p)
      BY <2>2 DEF LocksInit, SwitchBegins
    <2>3. CASE SwitchEnds(p)
      <3>1. db'.wal
        BY <2>3 DEF SwitchEnds, Commits, DB
      <3> QED BY <2>3, <3>1 DEF SwitchEnds
    <2>4. CASE Creates(p)
      BY <2>4, <1>00 DEF Creates, Table
    <2>5. CASE CreatesDone(p)
      <3>1. \A t \in Table : db.table[t] \in {"none", "old", "new"}
        BY DEF DB
      <3>2. db.table["rest"] # "old"
        BY DEF SchemaInv, Sound
      <3> QED BY <2>5, <3>1, <3>2 DEF CreatesDone, Batch, Table
    <2>6. CASE LooksAtColumns(p)
      <3>1. \A t \in Table : db.table[t] \in {"none", "old", "new"}
        BY DEF DB
      <3> QED BY <2>6, <3>1 DEF LooksAtColumns, Follows, Table
    <2> QED BY <2>1, <2>2, <2>3, <2>4, <2>5, <2>6
  <1> QED BY <1>2, <1>3 DEF ProcessAt

LEMMA ColumnSteps ==
    ASSUME SchemaInv, TypeOK', NEW p \in Procs, StoreStep(p), Begins(p) \/ Alters(p)
    PROVE  ProcessAt(p)'
  <1> USE DEF Goes
  <1>0. TypeOK /\ ProcessAt(p) /\ Locks
    BY DEF SchemaInv, ProcessAt
  <1>00. /\ db' \in DB
         /\ db.wal => db'.wal
         /\ \A t \in Table : /\ db.table[t] # "none" => db'.table[t] # "none"
                             /\ db.table[t] = "new" => db'.table[t] = "new"
    BY TablesFollow
  <1>1. pc'[p] \in {"alter", "raised", "rest", "look", "stats"}
    BY <1>0 DEF TypeOK, Begins, Alters, Follows
  <1>2. RowsAt(p)' /\ ListAt(p)' /\ DupAt(p)'
    BY <1>1 DEF RowsAt, ListAt, DupAt
  <1>3. CASE Begins(p)
    <2>1. writer # p
      BY <1>0, <1>3 DEF Locks, Begins
    <2>2. db' = db /\ tx' = db' /\ writer' = p
      BY <1>3, <2>1 DEF Begins, Writes, View
    <2>3. TablesAt(p)'
      BY <1>0, <1>3, <2>2 DEF Begins, TypeOK, ProcessAt, TablesAt, Columns, Late, Outside
    <2> QED BY <1>2, <2>3 DEF ProcessAt
  <1>4. CASE Alters(p)
    <2>1. /\ writer = p /\ tx = db /\ (seen[p] <=> db.table[at[p]] = "old")
          /\ at[p] \in Table /\ db.table[at[p]] \in {"none", "old", "new"} /\ db \in DB
      BY <1>0, <1>4 DEF Alters, TypeOK, ProcessAt, TablesAt, DB
    <2>2. db' = IF seen[p] THEN [db EXCEPT !.table[at[p]] = "new"] ELSE db
      BY <1>4, <2>1 DEF Alters, Commits
    <2>3. db.table[at[p]] # "none"
      BY <1>0, <1>4, <2>1 DEF Alters, ProcessAt, TablesAt, Columns, Table
    <2>4. db'.table[at[p]] = "new"
      BY <2>1, <2>2, <2>3 DEF DB
    <2>5. pc'[p] # "raised"
      BY <1>0, <1>4, <2>1 DEF Alters, Follows, TypeOK
    <2>6. TablesAt(p)'
      BY <1>0, <1>00, <1>4, <2>1, <2>4 DEF Alters, Follows, TypeOK, ProcessAt, TablesAt, Columns,
         Late, Outside, Table
    <2> QED BY <1>2, <2>6 DEF ProcessAt
  <1> QED BY <1>3, <1>4

LEMMA RankSteps ==
    ASSUME SchemaInv, TypeOK', NEW p \in Procs, StoreStep(p),
           LooksAtStats(p) \/ Counts(p) \/ LooksAtModel(p) \/ Trains(p)
    PROVE  ProcessAt(p)'
  <1> USE DEF Goes
  <1>0. TypeOK /\ ProcessAt(p) /\ Locks
    BY DEF SchemaInv, ProcessAt
  <1>00. db \in DB /\ View(p) \in DB /\ Grown(db, View(p)) /\ (writer # p => View(p) = db)
    BY ViewIsSound DEF SchemaInv, TypeOK
  <1>1. pc'[p] \in {"count", "model", "train", "list"}
    BY <1>0 DEF TypeOK, LooksAtStats, Counts, LooksAtModel, Trains
  <1>2. db' = db /\ at'[p] = at[p]
    BY DEF LooksAtStats, Counts, LooksAtModel, Trains, Writes, Reads, locals
  <1>3. TablesAt(p)' /\ ListAt(p)' /\ DupAt(p)'
    BY <1>0, <1>1, <1>2 DEF LooksAtStats, Counts, LooksAtModel, Trains, ProcessAt, TablesAt,
       ListAt, DupAt, Columns, Late
  <1>4. RowsAt(p)'
    <2>1. CASE LooksAtStats(p)
      <3>1. db.labelled /\ pc'[p] = "model" => db.counted > 0
        BY <1>0, <1>00, <2>1 DEF LooksAtStats, TypeOK, DB
      <3>2. writer # p /\ View(p)' = db
        BY <1>0, <2>1 DEF LooksAtStats, Locks, Reads, View
      <3> QED BY <1>0, <1>2, <2>1, <3>1, <3>2 DEF LooksAtStats, RowsAt, TypeOK
    <2>2. CASE Counts(p)
      <3>1. View(p)' = [View(p) EXCEPT !.counted = @ + 1]
        BY <2>2 DEF Counts, Writes, View
      <3>2. View(p)'.counted > 0
        BY <1>00, <3>1 DEF DB
      <3> QED BY <1>0, <1>2, <2>2, <3>2 DEF Counts, RowsAt, TypeOK
    <2>3. CASE LooksAtModel(p)
      <3>1. View(p)' = View(p)
        BY <2>3 DEF LooksAtModel, Reads, View
      <3>2. db.labelled /\ pc'[p] = "list" => View(p).trained > 0
        BY <1>0, <1>00, <2>3 DEF LooksAtModel, TypeOK, DB
      <3> QED BY <1>0, <1>2, <2>3, <3>1, <3>2 DEF LooksAtModel, ProcessAt, RowsAt, TypeOK
    <2>4. CASE Trains(p)
      <3>1. View(p)' = [View(p) EXCEPT !.trained = @ + 1]
        BY <2>4 DEF Trains, Writes, View
      <3>2. View(p)'.trained > 0 /\ View(p)'.counted = View(p).counted
        BY <1>00, <3>1 DEF DB
      <3> QED BY <1>0, <1>2, <2>4, <3>2 DEF Trains, ProcessAt, RowsAt, TypeOK
    <2> QED BY <2>1, <2>2, <2>3, <2>4
  <1> QED BY <1>3, <1>4 DEF ProcessAt

LEMMA SourceSteps ==
    ASSUME SchemaInv, TypeOK', NEW p \in Procs, StoreStep(p),
           \/ ListsSources(p) \/ LooksForDuplicate(p) \/ Rewrites(p) \/ LoopDone(p) \/ Marks(p)
    PROVE  ProcessAt(p)'
  <1> USE DEF Goes
  <1>0. TypeOK /\ ProcessAt(p) /\ Locks
    BY DEF SchemaInv, ProcessAt
  <1>00. db \in DB /\ View(p) \in DB /\ Grown(db, View(p)) /\ (writer # p => View(p) = db)
    BY ViewIsSound DEF SchemaInv, TypeOK
  <1>000. /\ db' \in DB
          /\ db.wal => db'.wal
          /\ \A t \in Table : /\ db.table[t] # "none" => db'.table[t] # "none"
                              /\ db.table[t] = "new" => db'.table[t] = "new"
          /\ db'.labelled = db.labelled
    BY TablesFollow
  <1>1. pc[p] \in {"list", "loop", "write", "mark"} /\ pc'[p] \in {"loop", "write", "mark", "using"}
    BY <1>0 DEF TypeOK, ListsSources, LooksForDuplicate, Rewrites, LoopDone, Marks
  <1>2. TablesAt(p)'
    <2>1. at'[p] = at[p]
      BY DEF ListsSources, LooksForDuplicate, Rewrites, LoopDone, Marks, locals
    <2>2. {"sources", "items", "poll_state", "rest"} \subseteq Table
      BY DEF Table
    <2>3. at[p] # "rest" /\ db.wal /\ \A t \in Table : db.table[t] = "new"
      BY <1>0, <1>1 DEF ProcessAt, TablesAt, Columns, Late, Table
    <2>4. at'[p] # "rest" /\ db'.wal /\ \A t \in Table : db'.table[t] = "new"
      <3>1. at'[p] # "rest" /\ db'.wal
        BY <1>00, <1>000, <2>1, <2>3 DEF DB
      <3>2. ASSUME NEW t \in Table PROVE db'.table[t] = "new"
        BY <1>000, <2>3
      <3> QED BY <3>1, <3>2
    <2>5. /\ db'.table["sources"] = "new" /\ db'.table["items"] = "new"
          /\ db'.table["poll_state"] = "new" /\ db'.table["rest"] = "new"
      BY <2>2, <2>4
    <2>6. pc'[p] \notin {"look", "alter"}
      BY <1>1
    <2> QED BY <2>4, <2>5, <2>6 DEF TablesAt
  <1>3. CASE ListsSources(p)
    <2> DEFINE url == View(p).url
               S == {r \in Rss : url[r] # NoUrl /\ Canon[url[r]] # url[r]}
    <2>1. View(p)' = View(p) /\ pc[p] = "list" /\ pc'[p] = "loop"
      BY <1>0, <1>3 DEF ListsSources, Reads, View, TypeOK
    <2>2. list'[p] = [s \in S |-> url[s]]
      BY <1>0, <1>3 DEF ListsSources, TypeOK
    <2>3. RowsAt(p)'
      BY <1>0, <1>000, <2>1, <2>2 DEF ProcessAt, RowsAt, Settled
    <2>4. ListAt(p)'
      BY <2>1, <2>2 DEF ListAt
    <2>5. DupAt(p)'
      BY <2>1 DEF DupAt
    <2> QED BY <1>2, <2>3, <2>4, <2>5 DEF ProcessAt
  <1>4. CASE LooksForDuplicate(p)
    <2>1. View(p)' = View(p) /\ pc[p] = "loop" /\ pc'[p] = "write" /\ list' = list
      BY <1>0, <1>4 DEF LooksForDuplicate, Reads, View, TypeOK
    <2>2. PICK s \in Source : First(p, s) /\ dup'[p] = Taken(p, s)
      BY <1>0, <1>4 DEF LooksForDuplicate, TypeOK
    <2>3. \A r \in Source : First(p, r) => r = s
      BY <2>2, SourcesAreNumbered DEF First, Source
    <2>4. Taken(p, s)' = Taken(p, s)
      BY <2>1 DEF Taken
    <2>5. DupAt(p)'
      BY <2>1, <2>2, <2>3, <2>4 DEF DupAt, First
    <2>6. RowsAt(p)' /\ ListAt(p)'
      BY <1>0, <1>000, <2>1 DEF ProcessAt, RowsAt, ListAt
    <2> QED BY <1>2, <2>5, <2>6 DEF ProcessAt
  <1>5. CASE Rewrites(p)
    <2>1. PICK s \in Source :
             /\ First(p, s)
             /\ Writes(p, [View(p) EXCEPT !.url[s] = Rewritten(p, s)])
             /\ list' = [list EXCEPT ![p] = [r \in DOMAIN list[p] \ {s} |-> list[p][r]]]
      BY <1>5 DEF Rewrites
    <2>2. pc[p] = "write" /\ pc'[p] = "loop" /\ s \in DOMAIN list[p]
      BY <1>0, <1>5, <2>1 DEF Rewrites, First, TypeOK
    <2>3. list'[p] = [r \in DOMAIN list[p] \ {s} |-> list[p][r]]
      BY <1>0, <2>1 DEF TypeOK
    <2>4. View(p)' = [View(p) EXCEPT !.url[s] = Rewritten(p, s)]
      BY <2>1 DEF Writes, View
    <2>5. /\ View(p)'.url[s] = Rewritten(p, s)
          /\ \A r \in Source \ {s} : View(p)'.url[r] = View(p).url[r]
          /\ View(p)'.counted = View(p).counted /\ View(p)'.trained = View(p).trained
      BY <1>00, <2>4 DEF DB
    <2>6. list[p] \in Lists
      BY <1>0 DEF TypeOK, Lists
    <2>7. list[p][s] \in Urls /\ DOMAIN list[p] \subseteq Source
      BY <2>2, <2>6, ListsAreLists
    <2>8. Settled(View(p)'.url, s)
      BY <2>5, <2>7, CanonIsIdempotent DEF Rewritten, Settled
    <2>9. \A r \in Source \ {s} : Settled(View(p).url, r) => Settled(View(p)'.url, r)
      BY <2>5 DEF Settled
    <2>10. RowsAt(p)'
      <3>1. \A r \in Rss \ DOMAIN list'[p] : Settled(View(p)'.url, r)
        BY <1>0, <2>2, <2>3, <2>8, <2>9 DEF ProcessAt, RowsAt, Rss
      <3> QED BY <1>0, <1>000, <2>2, <2>5, <3>1 DEF ProcessAt, RowsAt
    <2>11. ListAt(p)'
      BY <1>0, <2>2, <2>3, <2>5, <2>7 DEF ProcessAt, ListAt
    <2>12. DupAt(p)'
      BY <2>2 DEF DupAt
    <2> QED BY <1>2, <2>10, <2>11, <2>12 DEF ProcessAt
  <1>6. CASE LoopDone(p)
    <2>1. pc[p] = "loop" /\ pc'[p] = "mark" /\ DOMAIN list[p] = {}
      BY <1>0, <1>6 DEF LoopDone, TypeOK
    <2>2. db' = View(p) /\ View(p)' = View(p)
      BY <1>6, SchemaSentinels DEF LoopDone, Commits, Reads, View
    <2>3. RowsAt(p)'
      BY <1>0, <1>000, <2>1, <2>2 DEF ProcessAt, RowsAt
    <2> QED BY <1>2, <2>1, <2>3 DEF ProcessAt, ListAt, DupAt
  <1>7. CASE Marks(p)
    <2>1. pc'[p] = "using"
      BY <1>0, <1>7 DEF Marks, TypeOK
    <2> QED BY <1>2, <2>1 DEF ProcessAt, RowsAt, ListAt, DupAt
  <1> QED BY <1>3, <1>4, <1>5, <1>6, <1>7

LEMMA OwnKeeps ==
    ASSUME SchemaInv, TypeOK', NEW p \in Procs, StoreStep(p), ProcNext(p)
    PROVE  ProcessAt(p)'
  BY EarlySteps, ColumnSteps, RankSteps, SourceSteps DEF ProcNext, Prepares

-----------------------------------------------------------------------------
(* The locks, the stores, the cache.                                        *)

LEMMA LocksKeep ==
    ASSUME SchemaInv, TypeOK', NEW p \in Procs, StoreStep(p), OthersStay(p), ProcNext(p)
    PROVE  Locks'
  <1> USE DEF Goes
  <1>0. TypeOK /\ Locks /\ TablesAt(p)
    BY DEF SchemaInv
  <1>1. (writer = NoOne => tx = db)'
    BY <1>0, SchemaSentinels DEF StoreStep, Reads, Committing, Writing, Undoing, Locks
  <1>5. (tx.mark = db.mark)'
    <2>1. db \in DB /\ View(p) \in DB /\ View(p).mark = db.mark
      BY <1>0, ViewIsTyped DEF Locks, View, TypeOK
    <2>3. CASE Begins(p)
      BY <2>1, <2>3 DEF Begins, Writes
    <2>4. CASE Counts(p)
      BY <2>1, <2>4 DEF Counts, Writes, DB
    <2>5. CASE Trains(p)
      BY <2>1, <2>5 DEF Trains, Writes, DB
    <2>6. CASE Rewrites(p)
      BY <2>1, <2>6 DEF Rewrites, Writes, DB
    <2>7. CASE ~(Begins(p) \/ Counts(p) \/ Trains(p) \/ Rewrites(p))
      <3>1. (tx' = tx /\ db' = db) \/ tx' = db'
        <4> USE <2>1 DEF Reads, Commits, DB
        <4>1. CASE Connects(p) \/ Closes(p) \/ Fails(p) \/ LocksInit(p)
          BY <4>1 DEF Connects, Closes, Fails, LocksInit
        <4>2. CASE SwitchBegins(p) \/ CreatesDone(p) \/ LooksAtColumns(p)
          BY <4>2 DEF SwitchBegins, CreatesDone, LooksAtColumns
        <4>0. \A new : Commits(p, new) => tx' = db'
          OBVIOUS
        <4> HIDE DEF Commits
        <4>5. CASE SwitchEnds(p) \/ Creates(p)
          BY <4>0, <4>5, Zenon DEF SwitchEnds, Creates
        <4>6. CASE Alters(p)
          BY <4>0, <4>6 DEF Alters
        <4>3. CASE LooksAtStats(p) \/ LooksAtModel(p)
          BY <4>3 DEF LooksAtStats, LooksAtModel
        <4>4. CASE ListsSources(p) \/ LooksForDuplicate(p) \/ LoopDone(p)
          BY <4>0, <4>4 DEF ListsSources, LooksForDuplicate, LoopDone
        <4>7. CASE Marks(p)
          BY <4>0, <4>7, Zenon DEF Marks
        <4> QED BY <4>7, <2>7, <4>1, <4>2, <4>3, <4>4, <4>5, <4>6 DEF ProcNext, Prepares
      <3> QED BY <1>0, <3>1 DEF Locks
    <2> QED BY <2>3, <2>4, <2>5, <2>6, <2>7
  <1>2. ASSUME NEW q \in Procs \ {p}
        PROVE  /\ writer' = q => pc'[q] \in {"alter", "model", "train", "list", "loop", "write"}
               /\ pc'[q] \in {"wal", "switch"} => initLock' = q
    <2>1. writer' = q => writer = q
      BY <1>2, SchemaSentinels DEF StoreStep, Reads, Committing, Writing, Undoing
    <2> QED BY <1>0, <1>2, <2>1 DEF OthersStay, Locks
  <1>3. writer' = p => pc'[p] \in {"alter", "model", "train", "list", "loop", "write"}
    <2> USE <1>0, SchemaSentinels DEF TypeOK, Locks, Reads
    <2>1. CASE Connects(p) \/ Closes(p) \/ LocksInit(p) \/ SwitchBegins(p) \/ Fails(p)
      BY <2>1 DEF Connects, Closes, LocksInit, SwitchBegins, Fails
    <2>2. CASE SwitchEnds(p) \/ Creates(p) \/ CreatesDone(p) \/ LooksAtColumns(p) \/ Marks(p)
      BY <2>2 DEF SwitchEnds, Creates, CreatesDone, LooksAtColumns, Marks, Commits
    <2>3. CASE Begins(p) \/ Alters(p) \/ LooksAtStats(p) \/ Counts(p)
      BY <2>3 DEF Begins, Alters, LooksAtStats, Counts, Commits
    <2>4. CASE LooksAtModel(p) \/ Trains(p) \/ ListsSources(p) \/ LooksForDuplicate(p)
      BY <2>4 DEF LooksAtModel, Trains, ListsSources, LooksForDuplicate
    <2>5. CASE Rewrites(p) \/ LoopDone(p)
      BY <2>5 DEF Rewrites, LoopDone, Commits
    <2> QED BY <2>1, <2>2, <2>3, <2>4, <2>5 DEF ProcNext, Prepares
  <1>4. pc'[p] \in {"wal", "switch"} => initLock' = p
    <2>1. pc'[p] \in {"wal", "switch"} => LocksInit(p) \/ SwitchBegins(p)
      BY <1>0 DEF TypeOK, ProcNext, Prepares, Connects, Closes, Fails, SwitchEnds, Creates,
         CreatesDone, LooksAtColumns, Begins, Alters, LooksAtStats, Counts, LooksAtModel, Trains,
         ListsSources, LooksForDuplicate, Rewrites, LoopDone, Marks, Follows
    <2> QED BY <1>0, <2>1 DEF TypeOK, Locks, LocksInit, SwitchBegins
  <1> QED BY <1>1, <1>2, <1>3, <1>4, <1>5 DEF Locks

LEMMA StoresKeep ==
    ASSUME SchemaInv, TypeOK', NEW p \in Procs, StoreStep(p)
    PROVE  Grown(db', tx') /\ Sound(db') /\ Sound(tx')
  BY GrownSelf DEF SchemaInv, StoreStep, Reads, Committing, Writing, Undoing

LEMMA CacheKeeps ==
    ASSUME SchemaInv, TypeOK', NEW p \in Procs, StoreStep(p), OthersStay(p), ProcNext(p)
    PROVE  CacheInv'
  <1>0. TypeOK /\ Locks /\ CacheInv /\ TablesAt(p) /\ RowsAt(p) /\ db \in DB /\ db' \in DB
    BY DEF SchemaInv, TypeOK
  <1>1. Grown(db, db')
    BY GrownSelf DEF StoreStep, Reads, Committing, Writing, Undoing
  <1>2. Prepared(db) => Prepared(db')
    BY <1>0, <1>1, GrownStaysPrepared
  <1>3. CASE Marks(p)
    <2>1. writer # p
      BY <1>0, <1>3 DEF Marks, Locks
    <2>2. Prepared(db)
      <3>1. \A t \in Table : db.table[t] = "new"
        BY <1>0, <1>3 DEF Marks, TablesAt, Late, Table
      <3>2. db.wal /\ (db.labelled => db.counted > 0 /\ db.trained > 0)
        BY <1>0, <1>3, <2>1 DEF Marks, TablesAt, Late, RowsAt, View
      <3>3. \A s \in Rss : db.url[s] # NoUrl => Canon[db.url[s]] = db.url[s]
        BY <1>0, <1>3 DEF Marks, RowsAt, Settled, Rss
      <3> QED BY <3>1, <3>2, <3>3 DEF Prepared
    <2> QED BY <1>2, <2>2 DEF CacheInv
  <1>4. CASE ~Marks(p)
    <2>1. db'.mark = db.mark \/ Prepared(db)
      <3> USE <1>0, <1>4 DEF DB
      <3>1. CASE SwitchEnds(p) \/ Creates(p)
        BY <3>1 DEF SwitchEnds, Creates, Commits, Reads
      <3>2. CASE Alters(p)
        BY <3>2 DEF Alters, Commits, TablesAt
      <3>3. CASE LoopDone(p)
        <4>1. CASE writer = p
          BY <3>3, <4>1 DEF LoopDone, Commits, Locks
        <4>2. CASE writer # p
          BY <3>3, <4>2 DEF LoopDone, Reads
        <4> QED BY <4>1, <4>2
      <3>4. CASE Connects(p) \/ Closes(p) \/ Fails(p) \/ LocksInit(p) \/ SwitchBegins(p)
        BY <3>4 DEF Connects, Closes, Fails, LocksInit, SwitchBegins, Reads
      <3>5. CASE CreatesDone(p) \/ LooksAtColumns(p) \/ Begins(p) \/ LooksAtStats(p) \/ Counts(p)
        BY <3>5 DEF CreatesDone, LooksAtColumns, Begins, LooksAtStats, Counts, Reads, Writes
      <3>6. CASE LooksAtModel(p) \/ Trains(p) \/ ListsSources(p) \/ LooksForDuplicate(p)
                 \/ Rewrites(p)
        BY <3>6 DEF LooksAtModel, Trains, ListsSources, LooksForDuplicate, Rewrites, Reads, Writes
      <3> QED BY <3>1, <3>2, <3>3, <3>4, <3>5, <3>6 DEF ProcNext, Prepares
    <2>2. \A q \in Procs : inode \in cache'[q] => inode \in cache[q]
      <3>1. cache'[p] \in {cache[p], {}}
        BY <1>0, <1>4 DEF TypeOK, Outside, ProcNext, Prepares, Connects, Closes, Fails, LocksInit,
           SwitchBegins, SwitchEnds, Creates, CreatesDone, LooksAtColumns, Begins, Alters,
           LooksAtStats, Counts, LooksAtModel, Trains, ListsSources, LooksForDuplicate, Rewrites,
           LoopDone
      <3> QED BY <3>1 DEF OthersStay
    <2>3. \A q \in Procs : pc'[q] = "using" => pc[q] = "using" \/ Prepared(db)
      <3>1. pc'[p] = "using" => Connects(p) \/ pc[p] = "using"
        BY <1>0, <1>4 DEF TypeOK, Goes, ProcNext, Prepares, Closes, Fails, LocksInit,
           SwitchBegins, SwitchEnds, Creates, CreatesDone, LooksAtColumns, Begins, Alters,
           LooksAtStats, Counts, LooksAtModel, Trains, ListsSources, LooksForDuplicate, Rewrites,
           LoopDone, Follows
      <3>2. Connects(p) /\ pc'[p] = "using" => Prepared(db)
        BY <1>0 DEF TypeOK, Goes, Connects, NeedsPreparing, CacheInv
      <3> QED BY <3>1, <3>2 DEF OthersStay
    <2> QED BY <1>0, <1>2, <2>1, <2>2, <2>3 DEF CacheInv, OthersStay
  <1> QED BY <1>3, <1>4


LEMMA NobodyRaises ==
    ASSUME SchemaInv, NEW p \in Procs, OthersStay(p), ProcNext(p)
    PROVE  NobodyIsRefused'
  <1> USE DEF Goes
  <1>0. TypeOK /\ Locks /\ TablesAt(p) /\ NobodyIsRefused
    BY DEF SchemaInv
  <1>1. CASE SwitchBegins(p)
    <2>1. pc[p] = "wal" /\ initLock = p
      BY <1>0, <1>1 DEF SwitchBegins, Locks
    <2>2. \A q \in Procs : pc[q] # "switch"
      BY <1>0, <2>1 DEF Locks
    <2> QED BY <1>0, <1>1, <2>2 DEF SwitchBegins, TypeOK, NobodyIsRefused
  <1>2. CASE Alters(p)
    <2>1. tx = db /\ (seen[p] <=> db.table[at[p]] = "old")
      BY <1>0, <1>2 DEF Alters, TablesAt
    <2>2. pc'[p] # "raised"
      BY <1>0, <1>2, <2>1 DEF Alters, Follows, TypeOK
    <2> QED BY <1>0, <2>2 DEF OthersStay, NobodyIsRefused
  <1>3. CASE ~SwitchBegins(p) /\ ~Alters(p)
    <2>1. pc[p] # "raised"
      BY <1>0 DEF NobodyIsRefused
    <2>2. pc'[p] # "raised"
      BY <1>0, <1>3, <2>1 DEF TypeOK, Outside, ProcNext, Prepares, Connects, Closes, Fails, LocksInit,
         SwitchEnds, Creates, CreatesDone, LooksAtColumns, Begins, LooksAtStats, Counts,
         LooksAtModel, Trains, ListsSources, LooksForDuplicate, Rewrites, LoopDone, Marks, Follows
    <2> QED BY <1>0, <2>2 DEF OthersStay, NobodyIsRefused
  <1> QED BY <1>1, <1>2, <1>3

-----------------------------------------------------------------------------
(* The invariant.                                                           *)

LEMMA FoundIsSound ==
    ASSUME NEW d \in Found
    PROVE  d \in DB /\ Sound(d) /\ Grown(d, d)
  BY FoundAreSound, GrownSelf DEF Sound

LEMMA InitInv == Init => SchemaInv
  <1> SUFFICES ASSUME Init PROVE SchemaInv
    OBVIOUS
  <1>1. TypeOK
    BY InitSchema
  <1>2. Grown(db, tx) /\ Sound(db) /\ Sound(tx)
    BY FoundIsSound DEF Init
  <1>3. \A p \in Procs : pc[p] = "idle" /\ at[p] = "items" /\ cache[p] = {}
    BY DEF Init
  <1>4. Locks
    BY <1>3, SchemaSentinels DEF Init, Locks
  <1>5. \A p \in Procs : TablesAt(p) /\ RowsAt(p) /\ ListAt(p) /\ DupAt(p)
    BY <1>3 DEF TablesAt, RowsAt, ListAt, DupAt, Columns, Late
  <1>6. CacheInv /\ NobodyIsRefused
    BY <1>3 DEF CacheInv, NobodyIsRefused
  <1> QED BY <1>1, <1>2, <1>4, <1>5, <1>6 DEF SchemaInv

LEMMA SwapsKeep == SchemaInv /\ TypeOK' /\ Swaps => SchemaInv'
  <1> SUFFICES ASSUME SchemaInv, TypeOK', Swaps PROVE SchemaInv'
    OBVIOUS
  <1>1. Grown(db', tx') /\ Sound(db') /\ Sound(tx') /\ tx' = db'
    BY FoundIsSound DEF Swaps
  <1>2. \A p \in Procs : pc'[p] = "idle" /\ at'[p] # "rest" /\ cache'[p] = cache[p]
    BY DEF Swaps, SchemaInv, TablesAt, locals
  <1>3. Locks'
    BY <1>1, <1>2 DEF Swaps, SchemaInv, Locks
  <1>4. \A p \in Procs : (TablesAt(p) /\ RowsAt(p) /\ ListAt(p) /\ DupAt(p))'
    BY <1>2 DEF TablesAt, RowsAt, ListAt, DupAt, Columns, Late
  <1>5. CacheInv'
    BY <1>2 DEF Swaps, CacheInv
  <1>6. NobodyIsRefused'
    BY <1>2 DEF NobodyIsRefused
  <1> QED BY <1>1, <1>3, <1>4, <1>5, <1>6 DEF SchemaInv

LEMMA ProcKeeps ==
    ASSUME SchemaInv, TypeOK', NEW p \in Procs, ProcNext(p)
    PROVE  SchemaInv'
  <1>1. TypeOK
    BY DEF SchemaInv
  <1>2. StoreStep(p) /\ OthersStay(p)
    BY <1>1, StoreSteps, OthersStayed
  <1>3. ASSUME NEW q \in Procs PROVE ProcessAt(q)'
    <2>1. CASE q = p
      BY <1>2, <2>1, OwnKeeps
    <2>2. CASE q # p
      BY <1>2, <2>2, OthersKeep DEF ProcessAt
    <2> QED BY <2>1, <2>2
  <1>4. Locks' /\ CacheInv' /\ NobodyIsRefused'
    BY <1>2, LocksKeep, CacheKeeps, NobodyRaises
  <1>5. Grown(db', tx') /\ Sound(db') /\ Sound(tx')
    BY <1>2, StoresKeep
  <1> QED BY <1>3, <1>4, <1>5 DEF SchemaInv, ProcessAt

LEMMA SchemaStep == SchemaInv /\ [Next]_vars => SchemaInv'
  <1> SUFFICES ASSUME SchemaInv, [Next]_vars PROVE SchemaInv'
    OBVIOUS
  <1>1. TypeOK'
    BY TypeStep DEF SchemaInv
  <1>2. CASE Next
    BY <1>1, <1>2, ProcKeeps, SwapsKeep DEF Next, ProcNext
  <1>3. CASE UNCHANGED vars
    BY <1>3 DEF vars, locals, SchemaInv, TypeOK, Locks, TablesAt, RowsAt, ListAt, DupAt, First, Taken,
       View, CacheInv, NobodyIsRefused
  <1> QED BY <1>2, <1>3

LEMMA SchemaInvHolds == Spec => []SchemaInv
  <1> QED BY InitInv, SchemaStep, PTL DEF Spec

-----------------------------------------------------------------------------
(* What it is for.                                                          *)

\* Whoever has a connection has a database of the present schema, however the
\* file was replaced and whoever else was preparing it, or died doing so:
\* ConnectedIsPrepared, of _connect's cache and mark.
THEOREM ConnectionsArePrepared == Spec => []ConnectedIsPrepared
  <1>1. SchemaInv => ConnectedIsPrepared
    BY DEF SchemaInv, CacheInv, ConnectedIsPrepared
  <1> QED BY <1>1, SchemaInvHolds, PTL

\* No process that prepares fails because of another: NobodyIsRefused, of the
\* flock around the journal mode and of the second look in _add_columns and
\* _migrate_items_schema.
THEOREM NobodyFails == Spec => []NobodyIsRefused
  <1>1. SchemaInv => NobodyIsRefused
    BY DEF SchemaInv
  <1> QED BY <1>1, SchemaInvHolds, PTL

\* Normalising loses no feed and leaves no two sources of one URL, however many
\* do it at once: FeedsKeepOneSource, of _normalize_existing_source_urls.
THEOREM FeedsAreKept == Spec => []FeedsKeepOneSource
  <1>1. SchemaInv => FeedsKeepOneSource
    BY DEF SchemaInv, Sound, FeedsKeepOneSource
  <1> QED BY <1>1, SchemaInvHolds, PTL
-----------------------------------------------------------------------------
(* Nobody waits for himself.                                                *)

\* The flock is held only while the journal mode is switched.
FlockInv == \A p \in Procs : initLock = p => pc[p] \in {"wal", "switch"}

LEMMA FlockStep == TypeOK /\ FlockInv /\ [Next]_vars => FlockInv'
  <1> SUFFICES ASSUME TypeOK, FlockInv, [Next]_vars PROVE FlockInv'
    OBVIOUS
  <1> USE SchemaSentinels DEF FlockInv, TypeOK, Goes, Outside, locals
  <1>1. ASSUME NEW p \in Procs, Connects(p) \/ Closes(p) \/ Fails(p) PROVE FlockInv'
    BY <1>1 DEF Connects, Closes, Fails, Unlocks
  <1>2. ASSUME NEW p \in Procs, LocksInit(p) \/ SwitchBegins(p) \/ SwitchEnds(p) PROVE FlockInv'
    BY <1>2 DEF LocksInit, SwitchBegins, SwitchEnds, Unlocks
  <1>3. ASSUME NEW p \in Procs, Prepares(p), ~(LocksInit(p) \/ SwitchBegins(p) \/ SwitchEnds(p))
        PROVE  FlockInv'
    <2>1. /\ initLock' = initLock /\ pc[p] \notin {"wal", "switch"}
          /\ \A q \in Procs \ {p} : pc'[q] = pc[q]
      BY <1>3 DEF Prepares, Creates, CreatesDone, LooksAtColumns, Begins, Alters, Follows,
         LooksAtStats, Counts, LooksAtModel, Trains, ListsSources, LooksForDuplicate, Rewrites,
         LoopDone, Marks
    <2> QED BY <2>1
  <1>4. CASE Swaps
    BY <1>4 DEF Swaps
  <1>5. CASE UNCHANGED vars
    BY <1>5 DEF vars
  <1> QED BY <1>1, <1>2, <1>3, <1>4, <1>5 DEF Next

LEMMA FlockIsShort == Spec => []FlockInv
  <1>1. Init => FlockInv
    BY SchemaSentinels DEF Init, FlockInv
  <1> QED BY <1>1, FlockStep, TypeCorrect, PTL DEF Spec

\* However many processes prepare one database, they cannot all wait for each
\* other: NoCircularWait, of the flock in _connect and SQLite's write lock.
THEOREM NobodyWaitsForHimself == Spec => []NoCircularWait
  <1>1. SchemaInv /\ FlockInv => NoCircularWait
    <2> SUFFICES ASSUME SchemaInv, FlockInv, NEW p \in Procs, NEW q \in Procs, NEW r \in Procs,
                        q \in WaitsFor(p), r \in WaitsFor(q)
                 PROVE  WaitsFor(r) = {}
      BY DEF NoCircularWait
    <2>1. Locks
      BY DEF SchemaInv
    <2>2. pc[q] # "flock"
      <3>1. CASE initLock = q
        BY <3>1 DEF FlockInv
      <3>2. CASE writer = q
        BY <2>1, <3>2 DEF Locks
      <3> QED BY <3>1, <3>2 DEF WaitsFor
    <2>3. writer = r
      BY <2>2 DEF WaitsFor
    <2>4. pc[r] # "flock"
      BY <2>1, <2>3 DEF Locks
    <2> QED BY <2>3, <2>4 DEF WaitsFor
  <1> QED BY <1>1, SchemaInvHolds, FlockIsShort, PTL

-----------------------------------------------------------------------------
(* A preparation has an end.                                                *)

LEMMA StatementsAreCounted ==
    ASSUME TypeOK, NEW p \in Procs
    PROVE  /\ IsFiniteSet(Missing(p)) /\ Cardinality(Missing(p)) \in Nat
           /\ IsFiniteSet(DOMAIN list[p]) /\ Cardinality(DOMAIN list[p]) \in Nat
           /\ Statements(p) \in Nat
  <1>1. IsFiniteSet(Batch(p))
    <2>1. ASSUME NEW t, NEW u PROVE IsFiniteSet({t, u})
      <3>1. {t, u} = {t} \cup {u}
        OBVIOUS
      <3>2. IsFiniteSet({t} \cup {u})
        BY FS_Singleton, FS_Union
      <3> QED BY <3>1, <3>2
    <2> QED BY <2>1, Zenon DEF Batch
  <1>2. IsFiniteSet(Missing(p)) /\ Cardinality(Missing(p)) \in Nat
    BY <1>1, FS_Subset, FS_CardinalityType DEF Missing
  <1>3. DOMAIN list[p] \subseteq Source
    BY DEF TypeOK
  <1>4. IsFiniteSet(Source)
    BY FS_Interval, SourcesAreNumbered DEF Source
  <1>5. IsFiniteSet(DOMAIN list[p]) /\ Cardinality(DOMAIN list[p]) \in Nat
    BY <1>3, <1>4, FS_Subset, FS_CardinalityType
  <1> QED BY <1>2, <1>5 DEF Statements

\* What another does leaves the tables it may have created fewer.
LEMMA OthersDoNotHinder ==
    ASSUME SchemaInv, TypeOK', NEW p \in Procs, ProcNext(p), NEW q \in Procs \ {p}
    PROVE  /\ Stages(q)' = Stages(q)
           /\ Statements(q)' \in Nat /\ Statements(q)' <= Statements(q)
  <1>1. TypeOK
    BY DEF SchemaInv
  <1>2. pc'[q] = pc[q] /\ at'[q] = at[q] /\ list'[q] = list[q]
    BY <1>1, OthersStayed DEF OthersStay
  <1>3. Grown(db, db')
    BY <1>1, StoreSteps, ViewsGrow
  <1>4. Missing(q)' \subseteq Missing(q)
    <2>1. Batch(q)' = Batch(q) /\ Batch(q) \subseteq Table
      BY <1>2 DEF Batch, Table
    <2> QED BY <1>3, <2>1 DEF Missing, Grown
  <1>5. Cardinality(Missing(q)') \in Nat /\ Cardinality(Missing(q)') <= Cardinality(Missing(q))
    BY <1>1, <1>4, StatementsAreCounted, FS_Subset, FS_CardinalityType
  <1>6. Cardinality(Missing(q)) \in Nat /\ Cardinality(DOMAIN list[q]) \in Nat
    BY <1>1, StatementsAreCounted
  <1> QED BY <1>2, <1>5, <1>6 DEF Stages, Statements

LEMMA OneFewer ==
    ASSUME NEW S, IsFiniteSet(S), NEW x \in S
    PROVE  Cardinality(S \ {x}) = Cardinality(S) - 1
  BY FS_RemoveElement

LEMMA StagesPass ==
    ASSUME SchemaInv, TypeOK', NEW p \in Procs, Prepares(p),
           ~(Creates(p) \/ LooksForDuplicate(p) \/ Rewrites(p))
    PROVE  Stages(p)' < Stages(p)
  <1>1. TypeOK /\ TablesAt(p)
    BY DEF SchemaInv
  <1> USE <1>1 DEF TypeOK, Goes, Stages
  <1>2. CASE LocksInit(p) \/ SwitchBegins(p) \/ SwitchEnds(p)
    BY <1>2 DEF LocksInit, SwitchBegins, SwitchEnds
  <1>3. CASE CreatesDone(p)
    BY <1>3 DEF CreatesDone
  <1>4. CASE LooksAtColumns(p)
    BY <1>4 DEF LooksAtColumns, Follows, TablesAt, Table
  <1>5. CASE Begins(p)
    BY <1>5 DEF Begins
  <1>6. CASE Alters(p)
    BY <1>6 DEF Alters, Follows, TablesAt, Table
  <1>7. CASE LooksAtStats(p) \/ Counts(p) \/ LooksAtModel(p) \/ Trains(p)
    BY <1>7 DEF LooksAtStats, Counts, LooksAtModel, Trains
  <1>8. CASE ListsSources(p) \/ LoopDone(p) \/ Marks(p)
    BY <1>8 DEF ListsSources, LoopDone, Marks
  <1> QED BY <1>2, <1>3, <1>4, <1>5, <1>6, <1>7, <1>8 DEF Prepares

LEMMA StepsAreNearer ==
    ASSUME SchemaInv, TypeOK', NEW p \in Procs, Prepares(p)
    PROVE  Nearer(p)
  <1>1. TypeOK
    BY DEF SchemaInv
  <1>2. CASE Creates(p)
    <2>1. PICK t \in Batch(p) : db.table[t] = "none" /\ db' = [db EXCEPT !.table[t] = Born(t)]
      BY <1>2 DEF Creates, Commits
    <2>2. pc' = pc /\ at' = at /\ pc[p] \in {"create", "rest"}
      BY <1>2 DEF Creates, locals
    <2>3. Missing(p)' = Missing(p) \ {t} /\ t \in Missing(p)
      <3>1. db \in DB /\ Batch(p)' = Batch(p) /\ Batch(p) \subseteq Table /\ Born(t) # "none"
        BY <1>1, <2>2 DEF TypeOK, Batch, Table, Born
      <3>2. \A u \in Table : db'.table[u] = IF u = t THEN Born(t) ELSE db.table[u]
        BY <2>1, <3>1 DEF DB
      <3> QED BY <2>1, <3>1, <3>2 DEF Missing
    <2>4. Cardinality(Missing(p)') = Cardinality(Missing(p)) - 1
      BY <1>1, <2>3, OneFewer, StatementsAreCounted
    <2>5. Stages(p)' = Stages(p)
      BY <2>2 DEF Stages
    <2>6. Cardinality(Missing(p)) \in Nat
      BY <1>1, StatementsAreCounted
    <2> QED BY <2>2, <2>4, <2>5, <2>6 DEF Nearer, Statements
  <1>3. CASE LooksForDuplicate(p)
    <2>1. pc[p] = "loop" /\ pc'[p] = "write" /\ list' = list
      BY <1>1, <1>3 DEF LooksForDuplicate, Goes, TypeOK
    <2>2. Cardinality(DOMAIN list[p]) \in Nat
      BY <1>1, StatementsAreCounted
    <2> QED BY <2>1, <2>2 DEF Nearer, Statements, Stages
  <1>4. CASE Rewrites(p)
    <2>1. PICK s \in Source : /\ s \in DOMAIN list[p]
                              /\ list'[p] = [r \in DOMAIN list[p] \ {s} |-> list[p][r]]
      BY <1>1, <1>4 DEF Rewrites, First, TypeOK
    <2>2. DOMAIN list'[p] = DOMAIN list[p] \ {s}
      BY <2>1
    <2>3. pc[p] = "write" /\ pc'[p] = "loop"
      BY <1>1, <1>4 DEF Rewrites, Goes, TypeOK
    <2>4. Cardinality(DOMAIN list'[p]) = Cardinality(DOMAIN list[p]) - 1
      BY <1>1, <2>1, <2>2, OneFewer, StatementsAreCounted
    <2>5. Cardinality(DOMAIN list[p]) \in Nat
      BY <1>1, StatementsAreCounted
    <2> QED BY <2>3, <2>4, <2>5 DEF Nearer, Statements, Stages
  <1> QED BY <1>2, <1>3, <1>4, StagesPass DEF Nearer

\* Every statement of a preparation brings it nearer to its end, and nobody
\* sets it back: EveryStepCounts, of _prepare, whose looks at the database are
\* never repeated. With NobodyWaitsForHimself it is what PreparationEnds rests
\* on, for any number of processes and sources.
THEOREM PreparationsShrink == Spec => EveryStepCounts
  <1> DEFINE StepCounts(p) ==
        Busy(p) => /\ Prepares(p) => Nearer(p)
                   /\ Nearer(p) \/ (Stages(p)' = Stages(p) /\ Statements(p)' = Statements(p))
  <1>1. ASSUME SchemaInv, TypeOK', [Next]_vars, NEW p \in Procs PROVE StepCounts(p)
    <2> SUFFICES ASSUME Busy(p)
                 PROVE  /\ Prepares(p) => Nearer(p)
                        /\ \/ Nearer(p)
                           \/ Stages(p)' = Stages(p) /\ Statements(p)' = Statements(p)
      OBVIOUS
    <2>0. TypeOK
      BY <1>1 DEF SchemaInv
    <2>1. Prepares(p) => Nearer(p)
      BY <1>1, StepsAreNearer
    <2>2. ASSUME NEW q \in Procs \ {p}, ProcNext(q)
          PROVE  Nearer(p) \/ (Stages(p)' = Stages(p) /\ Statements(p)' = Statements(p))
      <3>1. /\ Stages(p)' = Stages(p)
            /\ Statements(p)' \in Nat /\ Statements(p)' <= Statements(p)
        BY <1>1, <2>2, OthersDoNotHinder
      <3>2. Statements(p) \in Nat
        BY <2>0, StatementsAreCounted
      <3> QED BY <3>1, <3>2 DEF Nearer
    <2>3. CASE Connects(p) \/ Closes(p)
      BY <2>3 DEF Connects, Closes, Busy
    <2>4. CASE Fails(p)
      <3>1. pc'[p] = "idle"
        BY <2>0, <2>4 DEF Fails, Goes, TypeOK
      <3> QED BY <2>0, <3>1 DEF Nearer, Stages, Busy, TypeOK, PC
    <2>5. CASE Swaps
      BY <2>5 DEF Swaps, Busy
    <2>6. CASE UNCHANGED vars
      <3>1. pc' = pc /\ at' = at /\ list' = list /\ db' = db
        BY <2>6 DEF vars, locals
      <3>2. Missing(p)' = Missing(p)
        BY <3>1 DEF Missing, Batch
      <3> QED BY <2>1, <3>1, <3>2 DEF Stages, Statements
    <2>7. CASE Prepares(p)
      BY <2>1, <2>7
    <2> QED BY <1>1, <2>1, <2>2, <2>3, <2>4, <2>5, <2>6, <2>7 DEF Next, ProcNext
  <1>2. SchemaInv /\ TypeOK' /\ [Next]_vars => \A p \in Procs : StepCounts(p)
    BY <1>1
  <1>3. SchemaInv /\ SchemaInv' /\ [Next]_vars => [\A p \in Procs : StepCounts(p)]_vars
    BY <1>2 DEF SchemaInv
  <1> QED BY <1>3, SchemaInvHolds, PTL DEF Spec, EveryStepCounts
=============================================================================
