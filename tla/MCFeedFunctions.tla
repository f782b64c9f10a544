--------------------------- MODULE MCFeedFunctions ---------------------------
(***************************************************************************)
(* Three parts of Feed that share no state, checked one at a time: the run of   *)
(* a script, the ranking, and the inventory of an old database.               *)
(***************************************************************************)
EXTENDS FeedScriptRun, FeedRanking, FeedInventory

CONSTANTS id1, id2

VARIABLE part \* the one that runs

MCResults ==
    {[status |-> "ok", events |-> <<id1>>, odd |-> FALSE],
     [status |-> "ok", events |-> <<id1, id2>>, odd |-> FALSE],
     [status |-> "ok", events |-> <<id1, id1>>, odd |-> FALSE],
     [status |-> "ok", events |-> <<id1, Bad>>, odd |-> FALSE],
     [status |-> "ok", events |-> <<id1, id2, id1>>, odd |-> FALSE],
     [status |-> "ok", events |-> <<>>, odd |-> FALSE],
     [status |-> "ok", events |-> <<id1>>, odd |-> TRUE],
     [status |-> "empty", events |-> <<>>, odd |-> FALSE],
     [status |-> "empty", events |-> <<id1>>, odd |-> FALSE],
     [status |-> "blocked", events |-> <<id1>>, odd |-> FALSE],
     [status |-> "other", events |-> <<>>, odd |-> FALSE]}

\* A cut line is no JSON any more, or, cut between two events, a shorter list.
MCCut ==
    [l \in MCResults \cup {Log} |->
        {Log} \cup {r \in MCResults : l # Log /\ r.status = l.status /\ r.odd = l.odd
                                             /\ Len(r.events) < Len(l.events)}]

\* Of each other they contain 0, 1/4, 1/2 or all: both sides of both thresholds of
\* the frontier score.
MCTokenSets == {{}, {1}, 1..2, 2..5, 5..12, 6..12}

\* The owner a row has, by one of its two fields; a status that is open, over or
\* unheard of.
MCOldRows ==
    {r \in WakeRow :
        /\ <<r.source, r.ack>> \in {<<Feed, NoId>>, <<Other, Feed>>, <<Feed, Other>>, <<NoId, NoId>>}
        /\ r.status \in {"unread", "consumed", "unknown"}
        /\ ~r.content => r.status = "unread"}
MCOldAcks ==
    {w \in Pending : w.source = Feed /\ w.event # NoId}
        \cup {[source |-> Other, event |-> e, item |-> 1, action |-> "consume"] : e \in EventIds}
        \cup {[source |-> Feed, event |-> NoId, item |-> 1, action |-> "consume"]}

Others(p) ==
    /\ p # "script" => UNCHANGED scriptVars
    /\ p # "ranking" => UNCHANGED rankVars
    /\ p # "inventory" => UNCHANGED wakeVars
    /\ UNCHANGED part

MCInit ==
    /\ part \in {"script", "ranking", "inventory"}
    /\ ScriptInit /\ RankInit /\ WakeInit
    /\ part # "script" => for = "round"
    /\ part # "inventory" => schema = "missing"

MCNext ==
    \/ part = "script" /\ ScriptNext /\ Others("script")
    \/ part = "ranking" /\ rows = <<>> /\ Scored /\ Others("ranking")
    \/ part = "ranking" /\ refined = <<>> /\ Loads /\ Others("ranking")
    \/ part = "inventory" /\ WakeNext /\ Others("inventory")

MCVars == <<scriptVars, rankVars, wakeVars, part>>

MCSpec == MCInit /\ [][MCNext]_MCVars /\ ScriptFairness
===============================================================================
