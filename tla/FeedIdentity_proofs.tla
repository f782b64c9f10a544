------------------------ MODULE FeedIdentity_proofs -------------------------
(***************************************************************************)
(* Proofs about FeedIdentity. The invariants of its runs come from one         *)
(* inductive invariant, which holds as long as no entry looks like one of X    *)
(* without being one (NoLookalikes).                                         *)
(***************************************************************************)
EXTENDS FeedIdentity, TLAPS

\* _stable_event_id yields a string, and so does the renaming.
LEMMA IdsAreKeys ==
    /\ \A p \in Posts : Canon[p.url] \in Urls /\ IdOf(p) \in Keys
    /\ \A row \in Row : RenamedTo(row) \in Keys /\ Canon[row.url] \in Urls
BY KeysAreStrings DEF IdOf, RenamedTo, StableId, Row

LEMMA CanonRowsTyped ==
    ASSUME TypeOK
    PROVE  /\ CanonRows \in [Keys -> Row \cup {NoRow}]
           /\ \A k \in Keys : CanonRows[k] # NoRow =>
                 /\ rows[k] # NoRow
                 /\ CanonRows[k] = [url |-> Canon[rows[k].url], rev |-> rows[k].rev]
                 /\ Canon[CanonRows[k].url] = CanonRows[k].url
<1>1. \A k \in Keys : rows[k] # NoRow =>
        /\ rows[k] \in Row
        /\ [rows[k] EXCEPT !.url = Canon[@]] = [url |-> Canon[rows[k].url], rev |-> rows[k].rev]
        /\ Canon[rows[k].url] \in Urls
    BY IdsAreKeys DEF TypeOK, Row
<1>2. \A k \in Keys : rows[k] # NoRow =>
        CanonRows[k] \in Row /\ Canon[CanonRows[k].url] = CanonRows[k].url
    BY <1>1, CanonIsNormal DEF CanonRows, Row
<1> QED
    BY <1>1, <1>2 DEF CanonRows

-----------------------------------------------------------------------------
\* Only posts the fetch has brought are ingested.
Wanted == \A p \in todo : fetched[p] # Gone

LEMMA TypeStep == TypeOK /\ Wanted /\ [Next]_vars => TypeOK' /\ Wanted'
<1> SUFFICES ASSUME TypeOK, Wanted, [Next]_vars PROVE TypeOK' /\ Wanted'
    OBVIOUS
<1>1. CASE Opens
    BY <1>1, CanonRowsTyped DEF Opens, TypeOK, Wanted
<1>2. CASE RenamesDone
    BY <1>2 DEF RenamesDone, TypeOK, Wanted
<1>3. CASE Fetches
    BY <1>3 DEF Fetches, TypeOK, Wanted
<1>4. CASE IngestDone
    BY <1>4 DEF IngestDone, TypeOK, Wanted
<1>5. CASE Selects
    BY <1>5 DEF Selects, TypeOK, Wanted
<1>6. ASSUME NEW k \in Keys, Renames(k) PROVE TypeOK' /\ Wanted'
    BY <1>6, IdsAreKeys DEF Renames, TypeOK, Wanted
<1>7. ASSUME NEW k \in Keys, Settles(k) PROVE TypeOK' /\ Wanted'
    BY <1>7 DEF Settles, TypeOK, Wanted
<1>8. ASSUME NEW p \in Posts, Ingests(p) PROVE TypeOK' /\ Wanted'
    <2>1. [url |-> Canon[p.url], rev |-> fetched[p]] \in Row
        BY <1>8, IdsAreKeys DEF Ingests, TypeOK, Wanted, Row
    <2> QED
        BY <1>8, <2>1, IdsAreKeys DEF Ingests, TypeOK, Wanted
<1>9. CASE UNCHANGED vars
    BY <1>9 DEF vars, TypeOK, Wanted
<1> QED
    BY <1>1, <1>2, <1>3, <1>4, <1>5, <1>6, <1>7, <1>8, <1>9 DEF Next

\* The variables of FeedIdentity stay in the sets TypeOK gives them.
THEOREM TypeCorrect == Spec => []TypeOK
<1>1. Init => TypeOK /\ Wanted
    BY DEF Init, TypeOK, Wanted
<1> QED
    BY <1>1, TypeStep, PTL DEF Spec

-----------------------------------------------------------------------------
\* A row the renaming looks at.
IsScanned(k) == rows[k] # NoRow /\ rows[k].url \in Scanned

\* Once the database is open, URLs are normal and every row the renaming would
\* move is on its list; the list is empty but for the first opening.
Named ==
    pc # "opening" =>
        \A k \in Keys :
            /\ rows[k] # NoRow => Canon[rows[k].url] = rows[k].url
            /\ IsScanned(k) /\ k \notin left => RenamedTo(rows[k]) = k

Listed == (pc # "upgrade" => left = {}) /\ \A k \in left : IsScanned(k)

\* The entries ingested so far are in the table, under their own id.
Ingested(p) ==
    \E q \in Posts :
        /\ IdOf(q) = IdOf(p) /\ fetched[q] # Gone
        /\ rows[IdOf(p)] = [url |-> Canon[q.url], rev |-> fetched[q]]

Fetched ==
    /\ pc \in {"ingest", "polled", "rename", "select"} =>
           \A p \in Posts : fetched[p] # Gone /\ p \notin todo => Ingested(p)
    /\ pc \in {"polled", "rename", "select"} => todo = {}

IInv == TypeOK /\ Wanted /\ Named /\ Listed /\ Fetched

LEMMA NamedStep ==
    ASSUME NoLookalikes, IInv, [Next]_vars
    PROVE  Named' /\ Listed'
<1> USE DEF IInv
<1>1. CASE Opens
    <2>1. ASSUME NEW k \in Keys, rows'[k] # NoRow
          PROVE  Canon[rows'[k].url] = rows'[k].url
        BY <1>1, <2>1, CanonRowsTyped DEF Opens
    <2>2. pc = "polled" => \A k \in Keys : rows'[k] = rows[k]
        BY <1>1 DEF Opens, CanonRows, Named, TypeOK, Row
    <2>3. pc = "polled" => left' = {}
        BY <1>1, <2>2 DEF Opens, Named, Listed, IsScanned
    <2>4. \A k \in Keys : (IsScanned(k))' /\ k \notin left' => RenamedTo(rows'[k]) = k
        BY <1>1 DEF Opens, IsScanned
    <2>5. \A k \in left' : (IsScanned(k))'
        BY <1>1 DEF Opens, IsScanned
    <2> QED
        BY <1>1, <2>1, <2>3, <2>4, <2>5 DEF Opens, Named, Listed
<1>2. CASE RenamesDone
    BY <1>2 DEF RenamesDone, Named, Listed, IsScanned
<1>3. CASE Fetches
    BY <1>3 DEF Fetches, Named, Listed, IsScanned
<1>4. CASE IngestDone
    BY <1>4 DEF IngestDone, Named, Listed, IsScanned
<1>5. CASE Selects
    BY <1>5 DEF Selects, Named, Listed, IsScanned
<1>6. ASSUME NEW k \in Keys, Renames(k) PROVE Named' /\ Listed'
    <2> DEFINE to == RenamedTo(rows[k])
    <2>1. /\ to \in Keys /\ rows[k] \in Row
          /\ IsScanned(k) /\ Canon[rows[k].url] = rows[k].url
          /\ pc = "upgrade" /\ pc' = pc
        BY <1>6, IdsAreKeys DEF Renames, Listed, Named, TypeOK, IsScanned
    <2>2. \A j \in Keys :
            \/ rows'[j] = NoRow
            \/ rows'[j] = rows[j] /\ j # k
            \/ j = to /\ rows'[j] = rows[k] /\ rows[j] = NoRow
            \/ j = to /\ rows'[j] = rows[k] /\ j = k
        BY <1>6, <2>1 DEF Renames, TypeOK
    <2>3. \A j \in left' : j # k /\ j \in left /\ rows'[j] = rows[j]
        BY <1>6, <2>1 DEF Renames, TypeOK, Listed, IsScanned
    <2>4. \A j \in left' : (IsScanned(j))'
        BY <2>3 DEF Listed, IsScanned
    <2>5. ASSUME NEW j \in Keys, rows'[j] # NoRow
          PROVE  /\ Canon[rows'[j].url] = rows'[j].url
                 /\ (IsScanned(j))' /\ j \notin left' => RenamedTo(rows'[j]) = j
        BY <1>6, <2>1, <2>2, <2>5 DEF Renames, Named, IsScanned
    <2> QED
        BY <2>1, <2>4, <2>5 DEF Named, Listed, IsScanned
<1>7. ASSUME NEW k \in Keys, Settles(k) PROVE Named' /\ Listed'
    BY <1>7 DEF Settles, Named, Listed, IsScanned
<1>8. ASSUME NEW p \in Posts, Ingests(p) PROVE Named' /\ Listed'
    <2> DEFINE new == [url |-> Canon[p.url], rev |-> fetched[p]]
    <2>1. /\ IdOf(p) \in Keys /\ left = {} /\ left' = {} /\ pc = "ingest" /\ pc' = pc
          /\ rows' = [rows EXCEPT ![IdOf(p)] = new]
        BY <1>8, IdsAreKeys DEF Ingests, Listed
    <2>2. /\ new.url = Canon[p.url] /\ Canon[new.url] = new.url
          /\ new.url \in Scanned => RenamedTo(new) = IdOf(p)
        BY KeysAreStrings, CanonIsNormal DEF NoLookalikes, RenamedTo
    <2>3. \A j \in Keys : rows'[j] = IF j = IdOf(p) THEN new ELSE rows[j]
        BY <2>1 DEF TypeOK
    <2> HIDE DEF new
    <2> QED
        BY <2>1, <2>2, <2>3 DEF Named, Listed, IsScanned
<1>9. CASE UNCHANGED vars
    BY <1>9 DEF vars, Named, Listed, IsScanned
<1> QED
    BY <1>1, <1>2, <1>3, <1>4, <1>5, <1>6, <1>7, <1>8, <1>9 DEF Next

LEMMA FetchedStep ==
    ASSUME NoLookalikes, IInv, [Next]_vars
    PROVE  Fetched'
<1> USE DEF IInv
<1>1. CASE Opens
    <2>1. CASE pc = "opening"
        BY <1>1, <2>1 DEF Opens, Fetched
    <2>2. CASE pc = "polled"
        <3>1. \A k \in Keys : rows'[k] = rows[k]
            BY <1>1, <2>2 DEF Opens, CanonRows, Named, TypeOK, Row
        <3>2. \A p \in Posts : Ingested(p) => Ingested(p)'
            BY <1>1, <3>1, IdsAreKeys DEF Opens, Ingested
        <3> QED
            BY <1>1, <2>2, <3>2 DEF Opens, Fetched
    <2> QED
        BY <1>1, <2>1, <2>2 DEF Opens
<1>2. CASE RenamesDone
    BY <1>2 DEF RenamesDone, Fetched, Ingested, Listed
<1>3. CASE Fetches
    BY <1>3 DEF Fetches, Fetched
<1>4. CASE IngestDone
    BY <1>4 DEF IngestDone, Fetched, Ingested
<1>5. CASE Selects
    BY <1>5 DEF Selects, Fetched
<1>6. ASSUME NEW k \in Keys, Renames(k) PROVE Fetched'
    BY <1>6 DEF Renames, Listed, Fetched
<1>7. ASSUME NEW k \in Keys, Settles(k) PROVE Fetched'
    BY <1>7 DEF Settles, Fetched
<1>8. ASSUME NEW p \in Posts, Ingests(p) PROVE Fetched'
    <2>1. /\ IdOf(p) \in Keys /\ pc = "ingest" /\ pc' = pc /\ fetched' = fetched
          /\ todo' = todo \ {p} /\ fetched[p] # Gone
          /\ \A j \in Keys : rows'[j] =
                IF j = IdOf(p) THEN [url |-> Canon[p.url], rev |-> fetched[p]] ELSE rows[j]
        BY <1>8, IdsAreKeys DEF Ingests, TypeOK, Wanted
    <2>2. ASSUME NEW q \in Posts, fetched[q] # Gone, q \notin todo'
          PROVE  Ingested(q)'
        <3>1. CASE IdOf(q) = IdOf(p)
            BY <2>1, <3>1 DEF Ingested
        <3>2. CASE IdOf(q) # IdOf(p)
            <4>1. Ingested(q) /\ IdOf(q) \in Keys
                BY <2>1, <2>2, <3>2, IdsAreKeys DEF Fetched
            <4> QED
                BY <2>1, <3>2, <4>1 DEF Ingested
        <3> QED
            BY <3>1, <3>2
    <2> QED
        BY <2>1, <2>2 DEF Fetched
<1>9. CASE UNCHANGED vars
    BY <1>9 DEF vars, Fetched, Ingested
<1> QED
    BY <1>1, <1>2, <1>3, <1>4, <1>5, <1>6, <1>7, <1>8, <1>9 DEF Next

LEMMA Invariance == ASSUME NoLookalikes PROVE Spec => []IInv
<1>1. Init => IInv
    BY DEF Init, IInv, TypeOK, Wanted, Named, Listed, Fetched
<1>2. IInv /\ [Next]_vars => IInv'
    BY TypeStep, NamedStep, FetchedStep DEF IInv
<1> QED
    BY <1>1, <1>2, PTL DEF Spec

-----------------------------------------------------------------------------
\* Every entry a round fetched is among the rows it selects from, with the
\* content it fetched, if no entry looks like one of X without being one.
THEOREM FetchedAreOffered == ASSUME NoLookalikes PROVE Spec => []FetchedIsOffered
<1>1. IInv => FetchedIsOffered
    BY IdsAreKeys DEF IInv, FetchedIsOffered, Fetched, Ingested
<1> QED
    BY <1>1, Invariance, PTL

\* Under the same condition the rows are renamed once, when the host opens the
\* database, and never again by the child of a round.
THEOREM OneMigration == ASSUME NoLookalikes PROVE Spec => []MigratesOnce
<1>1. IInv => MigratesOnce
    BY DEF IInv, MigratesOnce, Listed
<1> QED
    BY <1>1, Invariance, PTL

\* Under the same condition an X post has one row, by whatever URL or id it came
\* and comes in.
THEOREM PostsHaveOneRow == ASSUME NoLookalikes PROVE Spec => []OneRowPerPost
<1>1. IInv => OneRowPerPost
    BY IdsAreKeys DEF IInv, OneRowPerPost, Named, Listed, IsScanned, RenamedTo, TypeOK
<1> QED
    BY <1>1, Invariance, PTL
=============================================================================
