---------------------------- MODULE FeedIdentity ----------------------------
(***************************************************************************)
(* Under which event id an entry of a source is kept. _ingest_items names it  *)
(* by its X status, else by the id the source gives it, else by its URL; and  *)
(* _prepare, which runs whenever a process first opens the database, renames  *)
(* rows whose URL looks like one of X. Each poll round starts a new child     *)
(* process to select the items, so the renaming comes between every poll and  *)
(* every selection.                                                          *)
(*                                                                          *)
(* One source is modelled: the id of the source is part of every event id.    *)
(* An event id is modelled by the string that is hashed into it, the hash     *)
(* being taken as injective. Every entry has a URL.                          *)
(***************************************************************************)
EXTENDS Naturals, FiniteSets

CONSTANTS
    Keys,      \* the strings: URLs, ids given by the source, X status keys
    Urls,
    Canon,     \* _normalize_item_url: an X status URL becomes one of x.com
    StatusKey, \* the X status key of a URL, or NoKey
    Scanned,   \* the URLs the LIKE patterns of _normalize_existing_xcancel_items match
    Posts,     \* the entries the source may carry: [guid, url]
    Revs,      \* content hashes
    NoKey, NoRow, Gone

ASSUME KeysAreStrings ==
    /\ Urls \subseteq Keys /\ Scanned \subseteq Urls
    /\ NoKey \notin Keys
    /\ Canon \in [Urls -> Urls]
    /\ StatusKey \in [Urls -> Keys \cup {NoKey}]
    /\ Posts \subseteq [guid : Keys \cup {NoKey}, url : Urls]
ASSUME CanonIsNormal == \A u \in Urls : Canon[Canon[u]] = Canon[u]
ASSUME IdentitySentinels == NoRow \notin [url : Urls, rev : Revs] /\ Gone \notin Revs

VARIABLES
    fetched,  \* what the round in progress has fetched
    todo,     \* fetched posts not ingested yet
    rows,     \* table items: URL and content hash by event id
    acked,    \* table acked_items
    left,     \* rows the renaming has listed and not come to yet
    pc        \* the poll round

vars == <<fetched, todo, rows, acked, left, pc>>

Row == [url : Urls, rev : Revs]

TypeOK ==
    /\ fetched \in [Posts -> Revs \cup {Gone}]
    /\ todo \in SUBSET Posts
    /\ rows \in [Keys -> Row \cup {NoRow}]
    /\ acked \in SUBSET Keys
    /\ left \in SUBSET Keys
    /\ pc \in {"opening", "upgrade", "idle", "ingest", "polled", "rename", "select"}

-----------------------------------------------------------------------------
\* Mutant: the id given by the source comes before the X status.
GuidFirst(url, guid) ==
    IF guid # NoKey THEN guid ELSE IF StatusKey[url] # NoKey THEN StatusKey[url] ELSE url

\* _stable_event_id
StableId(url, guid) ==
    IF StatusKey[url] # NoKey THEN StatusKey[url] ELSE IF guid # NoKey THEN guid ELSE url

\* The id an entry is ingested under, and the one a row is renamed to: the row
\* does not keep the id the source gave.
IdOf(p) == StableId(Canon[p.url], p.guid)
RenamedTo(row) == StableId(row.url, NoKey)

\* A row an earlier version may have left for a post: under its URL or its guid.
Legacy(k, row) ==
    \E p \in Posts : row.url \in {p.url, Canon[p.url]} /\ k \in {p.url, p.guid, IdOf(p)}

Init ==
    /\ fetched = [p \in Posts |-> Gone]
    /\ todo = {}
    /\ rows \in [Keys -> Row \cup {NoRow}]
    /\ \A k \in Keys : rows[k] # NoRow => Legacy(k, rows[k])
    /\ acked \in SUBSET {k \in Keys : rows[k] # NoRow}
    /\ left = {}
    /\ pc = "opening"

-----------------------------------------------------------------------------
\* _normalize_existing_item_urls
CanonRows == [k \in Keys |-> IF rows[k] = NoRow THEN NoRow ELSE [rows[k] EXCEPT !.url = Canon[@]]]

\* Mutant: the URLs of the rows are left as they are.
OpensWithoutUrls ==
    /\ pc \in {"opening", "polled"}
    /\ left' = {k \in Keys : rows[k] # NoRow /\ rows[k].url \in Scanned /\ RenamedTo(rows[k]) # k}
    /\ pc' = IF pc = "opening" THEN "upgrade" ELSE "rename"
    /\ UNCHANGED <<fetched, todo, rows, acked>>

\* A process opens the database, the host when it starts and the child of
\* every round: URLs are normalised, then the rows to rename are listed.
Opens ==
    /\ pc \in {"opening", "polled"}
    /\ rows' = CanonRows
    /\ left' = {k \in Keys : rows'[k] # NoRow /\ rows'[k].url \in Scanned /\ RenamedTo(rows'[k]) # k}
    /\ pc' = IF pc = "opening" THEN "upgrade" ELSE "rename"
    /\ UNCHANGED <<fetched, todo, acked>>

\* One row of _normalize_existing_xcancel_items: renamed, or deleted when its
\* new id is taken. Nobody else has written to it since it was listed.
Renames(k) ==
    /\ pc \in {"upgrade", "rename"}
    /\ k \in left
    /\ LET to == RenamedTo(rows[k])
       IN  rows' = IF rows[to] # NoRow
                   THEN [rows EXCEPT ![k] = NoRow]
                   ELSE [rows EXCEPT ![k] = NoRow, ![to] = rows[k]]
    /\ left' = left \ {k}
    /\ UNCHANGED <<fetched, todo, acked, pc>>

RenamesDone ==
    /\ pc \in {"upgrade", "rename"}
    /\ left = {}
    /\ pc' = IF pc = "upgrade" THEN "idle" ELSE "select"
    /\ UNCHANGED <<fetched, todo, rows, acked, left>>

-----------------------------------------------------------------------------
\* What the source carries is up to its authors.
Fetches ==
    /\ pc = "idle"
    /\ fetched' \in [Posts -> Revs \cup {Gone}]
    /\ todo' = {p \in Posts : fetched'[p] # Gone}
    /\ pc' = "ingest"
    /\ UNCHANGED <<rows, acked, left>>

\* Mutant: the row of an entry that was seen before stays as it is.
IngestsNew(p) ==
    LET k == IdOf(p)
    IN  /\ pc = "ingest"
        /\ p \in todo
        /\ todo' = todo \ {p}
        /\ rows' = IF rows[k] = NoRow
                   THEN [rows EXCEPT ![k] = [url |-> Canon[p.url], rev |-> fetched[p]]]
                   ELSE rows
        /\ UNCHANGED <<fetched, acked, left, pc>>

\* One entry of _ingest_items, in the order of the page.
Ingests(p) ==
    LET k == IdOf(p)
    IN  /\ pc = "ingest"
        /\ p \in todo
        /\ todo' = todo \ {p}
        /\ rows' = [rows EXCEPT ![k] = [url |-> Canon[p.url], rev |-> fetched[p]]]
        /\ acked' = IF rows[k] # NoRow /\ rows[k].rev # fetched[p] THEN acked \ {k} ELSE acked
        /\ UNCHANGED <<fetched, left, pc>>

IngestDone ==
    /\ pc = "ingest"
    /\ todo = {}
    /\ pc' = "polled"
    /\ UNCHANGED <<fetched, todo, rows, acked, left>>

\* The rows that are not acked are offered.
Selects ==
    /\ pc = "select"
    /\ pc' = "idle"
    /\ UNCHANGED <<fetched, todo, rows, acked, left>>

\* The present content of a row has been delivered and is settled (FeedDelivery).
Settles(k) ==
    /\ pc = "idle"
    /\ rows[k] # NoRow
    /\ acked' = acked \cup {k}
    /\ UNCHANGED <<fetched, todo, rows, left, pc>>

Next ==
    \/ Opens \/ RenamesDone \/ Fetches \/ IngestDone \/ Selects
    \/ \E k \in Keys : Renames(k) \/ Settles(k)
    \/ \E p \in Posts : Ingests(p)

Spec == Init /\ [][Next]_vars

-----------------------------------------------------------------------------
(* Safety.                                                                  *)

\* No URL looks like one of X to the LIKE patterns without being a status, or
\* else the source gives its entry no id but the URL. ("%x.com/%" also matches
\* vox.com/, and any page of x.com that is not a post.)
NoLookalikes ==
    \A p \in Posts : Canon[p.url] \in Scanned => StableId(Canon[p.url], NoKey) = IdOf(p)

\* SKILL.md "每次都输出页面上的全部当前条目，新旧由 Feed 按 id 判断": when a round selects,
\* every entry it fetched is there with the content it fetched (or that of an
\* entry of the same id), whatever was renamed since.
FetchedIsOffered ==
    pc = "select" =>
        \A p \in Posts : fetched[p] # Gone =>
            \E k \in Keys, q \in Posts :
                /\ IdOf(q) = IdOf(p) /\ fetched[q] # Gone
                /\ rows[k] = [url |-> Canon[q.url], rev |-> fetched[q]]

\* backend.py "旧数据规整是一次性迁移": once the host has opened the database, the
\* child of a round finds nothing to rename.
MigratesOnce == pc = "rename" => left = {}

\* A post that came in as twitter.com, xcancel.com or x.com, under its guid,
\* its URL or its status, now or with an earlier version, is one row: the user
\* does not get it twice.
OneRowPerPost ==
    pc \in {"idle", "ingest", "polled", "rename", "select"} =>
        \A k, l \in Keys :
            /\ rows[k] # NoRow /\ rows[l] # NoRow
            /\ Canon[rows[k].url] \in Scanned /\ Canon[rows[l].url] \in Scanned
            /\ StableId(Canon[rows[k].url], NoKey) = StableId(Canon[rows[l].url], NoKey)
            => k = l
=============================================================================
