---------------------------- MODULE FeedSources -----------------------------
(***************************************************************************)
(* The subscription tables under their two kinds of writers: the user's      *)
(* tools (feed_manage, feed_script), each call in a thread of its own, and    *)
(* the poll round, which lists the sources, fetches or runs them one by one   *)
(* and writes what came of it.                                               *)
(*                                                                          *)
(* A step is one SQLite statement read outside a transaction, or one          *)
(* committed transaction. save_script and record_outcome take the write lock  *)
(* before they look (BEGIN IMMEDIATE); everything else looks first.           *)
(* Names only select sources, so a call is given the ids its name selects.    *)
(***************************************************************************)
EXTENDS Naturals, FiniteSets

CONSTANTS
    Ids,        \* source ids, never reused (uuid4)
    Urls,
    Codes,      \* script texts
    Tools,      \* concurrent tool calls
    MaxVersion, \* bound: versions of one script
    NoSource, NoCode

ASSUME SourceSentinels == /\ NoCode \notin Codes
                          /\ NoSource \notin [url : Urls, kind : {"rss", "script"}, on : BOOLEAN,
                                              version : 0..MaxVersion]
ASSUME VersionBound == MaxVersion \in Nat
ASSUME IdsAreNotRuns == Ids \cap [id : Ids, version : 1..MaxVersion, code : Codes] = {}

VARIABLES
    src,     \* table sources
    code,    \* table source_scripts
    state,   \* poll_state.last_polled_at: no row, NULL, within the interval, or older
    stock,   \* sources with rows in items
    used,    \* ids given out so far
    job,     \* each tool call between its read and its write
    pc,      \* the poll round
    list,    \* sources the round read and has not done yet
    run      \* the script run in progress

tables == <<src, code, state, stock, used>>
vars == <<tables, job, pc, list, run>>

Version == 1..MaxVersion
Source == [url : Urls, kind : {"rss", "script"}, on : BOOLEAN, version : 0..MaxVersion]
Idle == [op |-> "idle"]
Jobs == [op : {"subscribe"}, url : Urls]
        \cup [op : {"unsubscribe"}, ids : SUBSET Ids]
        \cup [op : {"enable"}, id : Ids, on : BOOLEAN]
        \cup [op : {"update"}, id : Ids, url : Urls]
        \cup [op : {"use"}, id : Ids, version : Version]
        \cup {Idle}
Runs == [id : Ids, version : Version, code : Codes]

TypeOK ==
    /\ src \in [Ids -> Source \cup {NoSource}]
    /\ code \in [Ids -> [Version -> Codes \cup {NoCode}]]
    /\ state \in [Ids -> {"none", "null", "recent", "old"}]
    /\ stock \in SUBSET Ids
    /\ used \in SUBSET Ids
    /\ job \in [Tools -> Jobs]
    /\ pc \in {"idle", "rss", "fetching", "listing", "scripts", "running", "aborted"}
    /\ list \in SUBSET (Ids \cup Runs)
    /\ run \in SUBSET (Ids \cup Runs)
    /\ pc \in {"fetching", "running"} <=> run # {}

NoScripts == [v \in Version |-> NoCode]

Init ==
    /\ src = [i \in Ids |-> NoSource]
    /\ code = [i \in Ids |-> NoScripts]
    /\ state = [i \in Ids |-> "none"]
    /\ stock = {} /\ used = {}
    /\ job = [w \in Tools |-> Idle]
    /\ pc = "idle"
    /\ list = {} /\ run = {}

Exists(i) == src[i] # NoSource
UrlTaken(u, except) == \E i \in Ids \ except : Exists(i) /\ src[i].url = u
Due(i) == state[i] # "recent"

\* UPDATE poll_state SET last_polled_at = NULL: no row, no effect.
Reset(i) == [state EXCEPT ![i] = IF @ = "none" THEN "none" ELSE "null"]

-----------------------------------------------------------------------------
(* feed_manage                                                              *)

Begins(w, j) ==
    /\ job[w] = Idle
    /\ job' = [job EXCEPT ![w] = j]
    /\ UNCHANGED <<tables, pc, list, run>>

Ends(w) == job' = [job EXCEPT ![w] = Idle]

SubscribeReads(w, u) == ~UrlTaken(u, {}) /\ Begins(w, [op |-> "subscribe", url |-> u])

SubscribeInserts(w) ==
    /\ job[w].op = "subscribe"
    /\ \E i \in Ids \ used :
          /\ src' = [src EXCEPT ![i] =
                [url |-> job[w].url, kind |-> "rss", on |-> TRUE, version |-> 0]]
          /\ used' = used \cup {i}
    /\ Ends(w)
    /\ UNCHANGED <<code, state, stock, pc, list, run>>

\* The name of unsubscribe is a substring: it may select several sources.
UnsubscribeReads(w, S) ==
    /\ S # {} /\ \A i \in S : Exists(i)
    /\ Begins(w, [op |-> "unsubscribe", ids |-> S])

\* Mutant: the history is deleted, the scripts are not.
UnsubscribeKeepsScripts(w) ==
    /\ job[w].op = "unsubscribe"
    /\ LET S == job[w].ids
       IN  /\ src' = [i \in Ids |-> IF i \in S THEN NoSource ELSE src[i]]
           /\ state' = [i \in Ids |-> IF i \in S THEN "none" ELSE state[i]]
           /\ stock' = stock \ S
    /\ Ends(w)
    /\ UNCHANGED <<code, used, pc, list, run>>

\* _delete_source_history and the sources, in one transaction.
UnsubscribeDeletes(w) ==
    /\ job[w].op = "unsubscribe"
    /\ LET S == job[w].ids
       IN  /\ src' = [i \in Ids |-> IF i \in S THEN NoSource ELSE src[i]]
           /\ code' = [i \in Ids |-> IF i \in S THEN NoScripts ELSE code[i]]
           /\ state' = [i \in Ids |-> IF i \in S THEN "none" ELSE state[i]]
           /\ stock' = stock \ S
    /\ Ends(w)
    /\ UNCHANGED <<used, pc, list, run>>

\* pause and resume
EnableReads(w, i, on) == Exists(i) /\ Begins(w, [op |-> "enable", id |-> i, on |-> on])

EnableWrites(w) ==
    /\ job[w].op = "enable"
    /\ LET i == job[w].id
       IN  src' = IF Exists(i) THEN [src EXCEPT ![i].on = job[w].on] ELSE src
    /\ Ends(w)
    /\ UNCHANGED <<code, state, stock, used, pc, list, run>>

UpdateReads(w, i, u) ==
    /\ Exists(i) /\ src[i].kind = "rss"
    /\ ~UrlTaken(u, {i})
    /\ Begins(w, [op |-> "update", id |-> i, url |-> u])

UpdateWrites(w) ==
    /\ job[w].op = "update"
    /\ LET i == job[w].id
       IN  /\ src' = IF Exists(i) THEN [src EXCEPT ![i].url = job[w].url] ELSE src
           /\ state' = Reset(i)
    /\ Ends(w)
    /\ UNCHANGED <<code, stock, used, pc, list, run>>

-----------------------------------------------------------------------------
(* feed_script save and use                                                 *)

Versions(i) == {v \in Version : code[i][v] # NoCode}

\* coalesce(max(version), 0) + 1
IsNextVersion(i, v) ==
    /\ \A w \in Versions(i) : w < v
    /\ v = 1 \/ v - 1 \in Versions(i)

\* A save that names no source, or several, creates one.
SaveNew(i, u, c) ==
    /\ i \notin used
    /\ ~UrlTaken(u, {})
    /\ MaxVersion > 0
    /\ src' = [src EXCEPT ![i] = [url |-> u, kind |-> "script", on |-> TRUE, version |-> 1]]
    /\ code' = [code EXCEPT ![i][1] = c]
    /\ used' = used \cup {i}
    /\ UNCHANGED <<state, stock, job, pc, list, run>>

SaveVersion(i, u, c) ==
    /\ Exists(i) /\ src[i].kind = "script"
    /\ ~UrlTaken(u, {i})
    /\ \E v \in Version :
          /\ IsNextVersion(i, v)
          /\ code' = [code EXCEPT ![i][v] = c]
          /\ src' = [src EXCEPT ![i].url = u, ![i].version = v]
    /\ state' = Reset(i)
    /\ UNCHANGED <<stock, used, job, pc, list, run>>

UseReads(w, i, v) ==
    /\ Exists(i) /\ src[i].kind = "script" /\ v \in Versions(i)
    /\ Begins(w, [op |-> "use", id |-> i, version |-> v])

UseWrites(w) ==
    /\ job[w].op = "use"
    /\ LET i == job[w].id
       IN  /\ src' = IF Exists(i) THEN [src EXCEPT ![i].version = job[w].version] ELSE src
           /\ state' = Reset(i)
    /\ Ends(w)
    /\ UNCHANGED <<code, stock, used, pc, list, run>>

-----------------------------------------------------------------------------
(* The poll round: RSS sources first. The rows read here are used, as read,   *)
(* until the last source is done.                                            *)

RssList ==
    /\ pc = "idle"
    /\ list' = {i \in Ids : Exists(i) /\ src[i].on /\ src[i].kind # "script"}
    /\ pc' = "rss"
    /\ UNCHANGED <<tables, job, run>>

\* _poll_source: skipped within the interval, else fetched (a slow call).
RssFetches(i) ==
    /\ pc = "rss" /\ i \in list
    /\ list' = list \ {i}
    /\ IF Due(i) THEN run' = {i} /\ pc' = "fetching" ELSE UNCHANGED <<run, pc>>
    /\ UNCHANGED <<tables, job>>

\* Ingestion and poll_state; a failure writes poll_state alone, and keeps what
\* it had ingested.
RssWrites(i) ==
    /\ pc = "fetching" /\ i \in run
    /\ \/ stock' = stock \cup {i}
       \/ UNCHANGED stock
    /\ state' = [state EXCEPT ![i] = "recent"]
    /\ run' = {} /\ pc' = "rss"
    /\ UNCHANGED <<src, code, used, job, list>>

RssDone ==
    /\ pc = "rss" /\ list = {}
    /\ pc' = "listing"
    /\ UNCHANGED <<tables, job, list, run>>

-----------------------------------------------------------------------------
(* Then the scripts, one after the other.                                   *)

DueScripts ==
    /\ pc = "listing"
    /\ list' = {[id |-> i, version |-> src[i].version, code |-> code[i][src[i].version]] :
                  i \in {j \in Ids : /\ Exists(j) /\ src[j].on /\ src[j].kind = "script"
                                     /\ src[j].version \in Versions(j) /\ Due(j)}}
    /\ pc' = "scripts"
    /\ UNCHANGED <<tables, job, run>>

ScriptRuns(r) ==
    /\ pc = "scripts" /\ r \in list
    /\ list' = list \ {r}
    /\ run' = {r} /\ pc' = "running"
    /\ UNCHANGED <<tables, job>>

\* Mutant: the source is looked up by id alone.
StillThere(r) == Exists(r.id) /\ src[r.id].on

\* record_outcome's look at the source, under the write lock.
StillActive(r) == Exists(r.id) /\ src[r.id].on /\ src[r.id].version = r.version

ScriptRecorded(r) ==
    /\ pc = "running" /\ r \in run
    /\ IF StillActive(r)
       THEN /\ \/ stock' = stock \cup {r.id}
               \/ UNCHANGED stock
            /\ state' = [state EXCEPT ![r.id] = "recent"]
       ELSE UNCHANGED <<stock, state>>
    /\ run' = {} /\ pc' = "scripts"
    /\ UNCHANGED <<src, code, used, job, list>>

\* Storing the outcome may raise, on text that cannot be encoded or on a lock held
\* too long: nothing catches it, the transaction is dropped and the round ends there.
RecordRaises(r) ==
    /\ pc = "running" /\ r \in run
    /\ run' = {} /\ pc' = "aborted"
    /\ UNCHANGED <<tables, job, list>>

RoundDone ==
    /\ pc = "scripts" /\ list = {}
    /\ pc' = "idle"
    /\ UNCHANGED <<tables, job, list, run>>

\* The host restarts a source whose round died; the next round starts afresh.
Restart ==
    /\ pc = "aborted"
    /\ list' = {} /\ pc' = "idle"
    /\ UNCHANGED <<tables, job, run>>

\* Poll intervals run out.
IntervalPasses(i) ==
    /\ state[i] = "recent"
    /\ state' = [state EXCEPT ![i] = "old"]
    /\ UNCHANGED <<src, code, stock, used, job, pc, list, run>>

-----------------------------------------------------------------------------
ToolNext(w) ==
    \/ \E u \in Urls : SubscribeReads(w, u)
    \/ \E S \in SUBSET Ids : UnsubscribeReads(w, S)
    \/ \E i \in Ids, on \in BOOLEAN : EnableReads(w, i, on)
    \/ \E i \in Ids, u \in Urls : UpdateReads(w, i, u)
    \/ \E i \in Ids, v \in Version : UseReads(w, i, v)
    \/ SubscribeInserts(w) \/ UnsubscribeDeletes(w) \/ EnableWrites(w)
    \/ UpdateWrites(w) \/ UseWrites(w)

PollNext ==
    \/ RssList \/ RssDone \/ DueScripts \/ RoundDone
    \/ \E i \in Ids : RssFetches(i) \/ RssWrites(i)
    \/ \E r \in Runs : ScriptRuns(r) \/ ScriptRecorded(r)

Next ==
    \/ \E w \in Tools : ToolNext(w)
    \/ \E i \in Ids, u \in Urls, c \in Codes : SaveNew(i, u, c) \/ SaveVersion(i, u, c)
    \/ PollNext
    \/ \E r \in Runs : RecordRaises(r)
    \/ Restart
    \/ \E i \in Ids : IntervalPasses(i)

Spec == Init /\ [][Next]_vars

-----------------------------------------------------------------------------
(* Safety.                                                                  *)

\* scripts.py "运行期间被暂停或换版的结果直接丢弃": the result of a run that may
\* have taken minutes touches a source only while that source still exists, is
\* enabled, and its active version is the one that ran, with the code that ran.
ScriptResultIsCurrent ==
    [][\A r \in Runs :
          run = {r} /\ run' = {} /\ <<stock, state>> # <<stock', state'>> =>
              /\ Exists(r.id) /\ src[r.id].on
              /\ src[r.id].version = r.version
              /\ code[r.id][r.version] = r.code]_vars

\* The version a script source runs exists, though use looks it up in one
\* transaction and switches in another; and unsubscribe, which may fall between
\* the two, leaves no script behind.
ActiveVersionExists ==
    \A i \in Ids :
        IF Exists(i)
        THEN src[i].kind = "script" => src[i].version \in Versions(i)
        ELSE code[i] = NoScripts

\* save_script looks for a second user of its URL under the write lock: two
\* script sources never poll the same page, whatever else goes on.
ScriptUrlsUnique ==
    \A i, j \in Ids :
        Exists(i) /\ Exists(j) /\ src[i].kind = "script" /\ src[j].kind = "script"
            /\ src[i].url = src[j].url
        => i = j

-----------------------------------------------------------------------------
(* What the program says of itself and does not keep.                       *)

\* tools.py "unsubscribe 删除来源及其历史": no items and no poll state stay behind
\* for a source that is gone.
UnsubscribeErases ==
    \A i \in used : ~Exists(i) => i \notin stock /\ state[i] = "none"
=============================================================================
