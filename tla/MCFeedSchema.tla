---------------------------- MODULE MCFeedSchema ----------------------------
(* FeedSchema on small instances: the databases a process may find. *)
EXTENDS FeedSchema

CONSTANTS a1, a2, a, b

\* Two addresses of one account, that account's feed, and another feed.
CanonUrl == [u \in Urls |-> IF u \in {a1, a2} THEN a ELSE u]

File(wal, table, url, labelled, rank, mark) ==
    [wal |-> wal, table |-> table, url |-> url, labelled |-> labelled, counted |-> rank,
     trained |-> rank, mark |-> mark, asked |-> Kept(url)]

Nothing == File(FALSE, [t \in Table |-> "none"], [s \in Source |-> NoUrl], FALSE, 0, FALSE)

OldTables == [t \in Table |-> IF t = "rest" THEN "none" ELSE "old"]
NewTables == [t \in Table |-> "new"]

\* None at all; what releases without and with the mark left, the last source
\* being a script, of a page of its own or of the account's feed; a prepared one.
FoundFiles ==
    {Nothing,
     File(FALSE, OldTables, <<a1, a2, b>>, FALSE, 0, FALSE),
     File(FALSE, OldTables, <<a1, b, a>>, TRUE, 0, FALSE),
     File(TRUE, [NewTables EXCEPT !["sources"] = "old"], <<a1, a2, b>>, TRUE, 0, TRUE),
     File(TRUE, NewTables, <<a, b, NoUrl>>, TRUE, 1, TRUE)}
=============================================================================
