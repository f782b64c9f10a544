------------------------- MODULE FeedSources_proofs -------------------------
(***************************************************************************)
(* Machine-checked proofs about FeedSources, for every set of sources, URLs,  *)
(* script texts and tool calls, and every number of versions.                *)
(***************************************************************************)
EXTENDS FeedSources, TLAPS

(***************************************************************************)
(* The inductive invariant, in parts. Everything a call or a run has read     *)
(* and still holds is about an id that was given out; so the source it was    *)
(* about is either still the same one or gone for good.                      *)
(***************************************************************************)
SourcesAreUsed == \A i \in Ids : Exists(i) => i \in used

JobsAreOld ==
    \A w \in Tools :
        /\ job[w].op = "update" =>
              job[w].id \in used /\ (Exists(job[w].id) => src[job[w].id].kind = "rss")
        /\ job[w].op = "use" =>
              /\ job[w].id \in used
              /\ Exists(job[w].id) => job[w].version \in Versions(job[w].id)

RunsAreOld ==
    \A r \in Runs \cap (list \cup run) :
        r.id \in used /\ (Exists(r.id) => code[r.id][r.version] = r.code)

SourcesInv ==
    /\ TypeOK
    /\ SourcesAreUsed
    /\ JobsAreOld
    /\ RunsAreOld
    /\ ActiveVersionExists
    /\ ScriptUrlsUnique

-----------------------------------------------------------------------------
(* Typing.                                                                  *)

LEMMA InitSources == Init => SourcesInv
  BY SourceSentinels, VersionBound
  DEF Init, SourcesInv, TypeOK, SourcesAreUsed, JobsAreOld, RunsAreOld, ActiveVersionExists,
      ScriptUrlsUnique, Exists, Idle, Jobs, NoScripts, Version, Source

LEMMA NoSourceIsNone == \A s \in Source : s # NoSource
  BY SourceSentinels DEF Source

LEMMA JobTypes ==
    ASSUME TypeOK, NEW w \in Tools
    PROVE  /\ job[w].op = "subscribe" => job[w].url \in Urls
           /\ job[w].op = "unsubscribe" => job[w].ids \in SUBSET Ids
           /\ job[w].op = "enable" => job[w].id \in Ids /\ job[w].on \in BOOLEAN
           /\ job[w].op = "update" => job[w].id \in Ids /\ job[w].url \in Urls
           /\ job[w].op = "use" => job[w].id \in Ids /\ job[w].version \in Version
  BY DEF TypeOK, Jobs, Idle

LEMMA TypeStep == TypeOK /\ [Next]_vars => TypeOK'
  <1> SUFFICES ASSUME TypeOK, [Next]_vars PROVE TypeOK'
    OBVIOUS
  <1> USE DEF TypeOK
  <1>1. ASSUME NEW w \in Tools, ToolNext(w) PROVE TypeOK'
    <2>1. ASSUME NEW u \in Urls, SubscribeReads(w, u) PROVE TypeOK'
      BY <2>1 DEF SubscribeReads, Begins, tables, Jobs
    <2>2. ASSUME NEW S \in SUBSET Ids, UnsubscribeReads(w, S) PROVE TypeOK'
      BY <2>2 DEF UnsubscribeReads, Begins, tables, Jobs
    <2>3. ASSUME NEW i \in Ids, NEW on \in BOOLEAN, EnableReads(w, i, on) PROVE TypeOK'
      BY <2>3 DEF EnableReads, Begins, tables, Jobs
    <2>4. ASSUME NEW i \in Ids, NEW u \in Urls, UpdateReads(w, i, u) PROVE TypeOK'
      BY <2>4 DEF UpdateReads, Begins, tables, Jobs
    <2>5. ASSUME NEW i \in Ids, NEW v \in Version, UseReads(w, i, v) PROVE TypeOK'
      BY <2>5 DEF UseReads, Begins, tables, Jobs
    <2>6. CASE SubscribeInserts(w)
      <3>1. PICK i \in Ids \ used :
                  src' = [src EXCEPT ![i] =
                     [url |-> job[w].url, kind |-> "rss", on |-> TRUE, version |-> 0]]
                  /\ used' = used \cup {i}
        BY <2>6 DEF SubscribeInserts
      <3>2. src' \in [Ids -> Source \cup {NoSource}] /\ used' \in SUBSET Ids
        BY <2>6, <3>1, JobTypes, VersionBound DEF SubscribeInserts, Source
      <3>3. QED
        BY <2>6, <3>2 DEF SubscribeInserts, Ends, Jobs, Idle
    <2>7. CASE UnsubscribeDeletes(w)
      <3>1. NoScripts \in [Version -> Codes \cup {NoCode}]
        BY DEF NoScripts
      <3>2. QED
        BY <2>7, <3>1 DEF UnsubscribeDeletes, Ends, Jobs, Idle
    <2>8. CASE EnableWrites(w)
      <3>1. src' \in [Ids -> Source \cup {NoSource}]
        <4>1. job[w].id \in Ids /\ job[w].on \in BOOLEAN
          BY <2>8, JobTypes DEF EnableWrites
        <4>2. CASE Exists(job[w].id)
          <5>1. src[job[w].id] \in Source
            BY <4>1, <4>2 DEF Exists
          <5>2. [src[job[w].id] EXCEPT !.on = job[w].on] \in Source
            BY <4>1, <5>1 DEF Source
          <5>3. src' = [src EXCEPT ![job[w].id] = [src[job[w].id] EXCEPT !.on = job[w].on]]
            BY <2>8, <4>2 DEF EnableWrites
          <5>4. QED
            BY <4>1, <5>2, <5>3
        <4>3. CASE ~Exists(job[w].id)
          BY <2>8, <4>3 DEF EnableWrites
        <4>4. QED
          BY <4>2, <4>3
      <3>2. QED
        BY <2>8, <3>1 DEF EnableWrites, Ends, Jobs, Idle
    <2>9. CASE UpdateWrites(w)
      <3>1. src' \in [Ids -> Source \cup {NoSource}]
        <4>1. job[w].id \in Ids /\ job[w].url \in Urls
          BY <2>9, JobTypes DEF UpdateWrites
        <4>2. CASE Exists(job[w].id)
          <5>1. src[job[w].id] \in Source
            BY <4>1, <4>2 DEF Exists
          <5>2. [src[job[w].id] EXCEPT !.url = job[w].url] \in Source
            BY <4>1, <5>1 DEF Source
          <5>3. src' = [src EXCEPT ![job[w].id] = [src[job[w].id] EXCEPT !.url = job[w].url]]
            BY <2>9, <4>2 DEF UpdateWrites
          <5>4. QED
            BY <4>1, <5>2, <5>3
        <4>3. CASE ~Exists(job[w].id)
          BY <2>9, <4>3 DEF UpdateWrites
        <4>4. QED
          BY <4>2, <4>3
      <3>2. QED
        BY <2>9, <3>1, JobTypes DEF UpdateWrites, Reset, Ends, Jobs, Idle
    <2>10. CASE UseWrites(w)
      <3>1. CASE Exists(job[w].id)
        <4>1. src[job[w].id] \in Source /\ job[w].version \in 0..MaxVersion /\ job[w].id \in Ids
          BY <2>10, <3>1, JobTypes, VersionBound DEF UseWrites, Exists, Version
        <4>2. [src[job[w].id] EXCEPT !.version = job[w].version] \in Source
          BY <4>1 DEF Source
        <4>3. src' = [src EXCEPT ![job[w].id] = [src[job[w].id] EXCEPT !.version = job[w].version]]
          BY <2>10, <3>1 DEF UseWrites
        <4>4. src' \in [Ids -> Source \cup {NoSource}]
          BY <4>1, <4>2, <4>3
        <4>5. QED
          BY <2>10, <4>4, JobTypes DEF Reset, UseWrites, Ends, Jobs, Idle
      <3>2. CASE ~Exists(job[w].id)
        BY <2>10, <3>2, JobTypes DEF Reset, UseWrites, Ends, Jobs, Idle
      <3>3. QED
        BY <3>1, <3>2
    <2>11. QED
      BY <1>1, <2>1, <2>2, <2>3, <2>4, <2>5, <2>6, <2>7, <2>8, <2>9, <2>10 DEF ToolNext
  <1>2. ASSUME NEW i \in Ids, NEW u \in Urls, NEW c \in Codes, SaveNew(i, u, c) PROVE TypeOK'
    <2>1. 1 \in Version /\ 1 \in 0..MaxVersion
      BY <1>2, VersionBound DEF SaveNew, Version
    <2>2. src' \in [Ids -> Source \cup {NoSource}]
      BY <1>2, <2>1 DEF SaveNew, Source
    <2>3. code' \in [Ids -> [Version -> Codes \cup {NoCode}]]
      BY <1>2, <2>1 DEF SaveNew
    <2>4. QED
      BY <1>2, <2>2, <2>3 DEF SaveNew
  <1>3. ASSUME NEW i \in Ids, NEW u \in Urls, NEW c \in Codes, SaveVersion(i, u, c) PROVE TypeOK'
    <2>1. PICK v \in Version : /\ code' = [code EXCEPT ![i][v] = c]
                               /\ src' = [src EXCEPT ![i].url = u, ![i].version = v]
      BY <1>3 DEF SaveVersion
    <2>2. src[i] \in Source /\ v \in 0..MaxVersion
      BY <1>3, VersionBound DEF SaveVersion, Exists, Version
    <2>3. src' \in [Ids -> Source \cup {NoSource}]
      BY <2>1, <2>2 DEF Source
    <2>4. code' \in [Ids -> [Version -> Codes \cup {NoCode}]]
      BY <2>1
    <2>5. QED
      BY <1>3, <2>3, <2>4 DEF SaveVersion, Reset
  <1>4. CASE RssList
    BY <1>4 DEF RssList, tables
  <1>5. CASE RssDone \/ RoundDone \/ Restart
    BY <1>5 DEF RssDone, RoundDone, Restart, tables
  <1>6. CASE DueScripts
    <2>1. \A i \in Ids : src[i] # NoSource /\ src[i].version \in Versions(i) =>
              [id |-> i, version |-> src[i].version, code |-> code[i][src[i].version]] \in Runs
      BY DEF Versions, Runs
    <2>2. list' \subseteq Runs
      BY <1>6, <2>1 DEF DueScripts, Exists
    <2>3. QED
      BY <1>6, <2>2 DEF DueScripts, tables
  <1>7. ASSUME NEW i \in Ids, RssFetches(i) \/ RssWrites(i) PROVE TypeOK'
    BY <1>7 DEF RssFetches, RssWrites, tables
  <1>8. ASSUME NEW r \in Runs, ScriptRuns(r) PROVE TypeOK'
    BY <1>8 DEF ScriptRuns, tables
  <1>9. ASSUME NEW r \in Runs, ScriptRecorded(r) \/ RecordRaises(r) PROVE TypeOK'
    <2>1. r.id \in Ids
      BY DEF Runs
    <2>2. QED
      BY <1>9, <2>1 DEF ScriptRecorded, RecordRaises, tables
  <1>10. ASSUME NEW i \in Ids, IntervalPasses(i) PROVE TypeOK'
    BY <1>10 DEF IntervalPasses
  <1>11. CASE UNCHANGED vars
    BY <1>11 DEF vars, tables
  <1>12. QED
    BY <1>1, <1>2, <1>3, <1>4, <1>5, <1>6, <1>7, <1>8, <1>9, <1>10, <1>11 DEF Next, PollNext

-----------------------------------------------------------------------------
(* The invariant is kept. SourcesInv is about the tables, the jobs in flight  *)
(* and the runs in flight; the cases below are the steps that touch each.    *)

LEMMA SourcesStep == SourcesInv /\ [Next]_vars => SourcesInv'
  <1> SUFFICES ASSUME SourcesInv, [Next]_vars PROVE SourcesInv'
    OBVIOUS
  <1>t. TypeOK /\ TypeOK'
    BY TypeStep DEF SourcesInv
  <1> USE <1>t
  <1> DEFINE Rest == SourcesAreUsed' /\ JobsAreOld' /\ RunsAreOld'
                       /\ ActiveVersionExists' /\ ScriptUrlsUnique'
  <1>q. Rest => SourcesInv'
    BY DEF SourcesInv
  <1>1. ASSUME NEW w \in Tools, ToolNext(w) PROVE Rest
    \* A call reads: only its own job changes, to something just read.
    <2>1. ASSUME NEW j \in Jobs, Begins(w, j),
                 j.op = "update" => j.id \in used /\ (Exists(j.id) => src[j.id].kind = "rss"),
                 j.op = "use" => j.id \in used /\ (Exists(j.id) => j.version \in Versions(j.id))
          PROVE  Rest
      <3>1. UNCHANGED <<src, code, used, list, run>> /\ job' = [job EXCEPT ![w] = j]
        BY <2>1 DEF Begins, tables
      <3>2. JobsAreOld'
        BY <2>1, <3>1 DEF SourcesInv, JobsAreOld, Exists, Versions, TypeOK
      <3>3. QED
        BY <3>1, <3>2 DEF SourcesInv, SourcesAreUsed, RunsAreOld, ActiveVersionExists,
           ScriptUrlsUnique, Exists, Versions
    <2>2. ASSUME NEW u \in Urls, SubscribeReads(w, u) PROVE Rest
      BY <2>1, <2>2 DEF SubscribeReads, Jobs
    <2>3. ASSUME NEW S \in SUBSET Ids, UnsubscribeReads(w, S) PROVE Rest
      BY <2>1, <2>3 DEF UnsubscribeReads, Jobs
    <2>4. ASSUME NEW i \in Ids, NEW on \in BOOLEAN, EnableReads(w, i, on) PROVE Rest
      BY <2>1, <2>4 DEF EnableReads, Jobs
    <2>5. ASSUME NEW i \in Ids, NEW u \in Urls, UpdateReads(w, i, u) PROVE Rest
      BY <2>1, <2>5 DEF UpdateReads, Jobs, SourcesInv, SourcesAreUsed
    <2>6. ASSUME NEW i \in Ids, NEW v \in Version, UseReads(w, i, v) PROVE Rest
      BY <2>1, <2>6 DEF UseReads, Jobs, SourcesInv, SourcesAreUsed
    \* A call writes.
    <2>7. CASE SubscribeInserts(w)
      <3>1. PICK i \in Ids \ used :
                  src' = [src EXCEPT ![i] =
                     [url |-> job[w].url, kind |-> "rss", on |-> TRUE, version |-> 0]]
                  /\ used' = used \cup {i}
        BY <2>7 DEF SubscribeInserts
      <3>2. ~Exists(i)
        BY <3>1 DEF SourcesInv, SourcesAreUsed
      <3>3. UNCHANGED <<code, list, run>> /\ job' = [job EXCEPT ![w] = Idle]
        BY <2>7 DEF SubscribeInserts, Ends
      <3>4. [url |-> job[w].url, kind |-> "rss", on |-> TRUE, version |-> 0] # NoSource
        <4>1. job[w].url \in Urls /\ 0 \in 0..MaxVersion
          BY <2>7, JobTypes, VersionBound DEF SubscribeInserts
        <4>2. [url |-> job[w].url, kind |-> "rss", on |-> TRUE, version |-> 0] \in Source
          BY <4>1 DEF Source
        <4>3. QED
          BY <4>2, NoSourceIsNone
      <3>5. SourcesAreUsed'
        BY <3>1 DEF SourcesInv, SourcesAreUsed, Exists, TypeOK
      <3>6. JobsAreOld'
        BY <3>1, <3>3 DEF SourcesInv, JobsAreOld, Exists, Versions, TypeOK, Idle, Jobs
      <3>7. RunsAreOld'
        BY <3>1, <3>3 DEF SourcesInv, RunsAreOld, Exists, TypeOK, Runs
      <3>8. ActiveVersionExists'
        BY <3>1, <3>3, <3>4 DEF SourcesInv, ActiveVersionExists, Exists, Versions, TypeOK
      <3>9. ScriptUrlsUnique'
        BY <3>1 DEF SourcesInv, ScriptUrlsUnique, Exists, TypeOK
      <3>10. QED
        BY <3>5, <3>6, <3>7, <3>8, <3>9
    <2>8. CASE UnsubscribeDeletes(w)
      <3> DEFINE S == job[w].ids
      <3>1. /\ src' = [i \in Ids |-> IF i \in S THEN NoSource ELSE src[i]]
            /\ code' = [i \in Ids |-> IF i \in S THEN NoScripts ELSE code[i]]
            /\ UNCHANGED <<used, list, run>>
            /\ job' = [job EXCEPT ![w] = Idle]
        BY <2>8 DEF UnsubscribeDeletes, Ends
      <3> HIDE DEF S
      <3>2. \A i \in Ids : Exists(i)' => Exists(i) /\ src'[i] = src[i] /\ code'[i] = code[i]
        BY <3>1 DEF Exists
      <3>3. SourcesAreUsed'
        BY <3>1, <3>2 DEF SourcesInv, SourcesAreUsed
      <3>4. JobsAreOld'
        BY <3>1, <3>2, JobTypes DEF SourcesInv, JobsAreOld, Versions, TypeOK, Idle
      <3>5. RunsAreOld'
        BY <3>1, <3>2 DEF SourcesInv, RunsAreOld, Runs
      <3>6. ActiveVersionExists'
        BY <3>1, <3>2 DEF SourcesInv, ActiveVersionExists, Versions, Exists
      <3>7. ScriptUrlsUnique'
        <4>1. SUFFICES ASSUME NEW i \in Ids, NEW j \in Ids, Exists(i)', Exists(j)',
                              src'[i].kind = "script", src'[j].kind = "script",
                              src'[i].url = src'[j].url
                       PROVE  i = j
          BY DEF ScriptUrlsUnique
        <4>2. QED
          BY <3>2, <4>1 DEF SourcesInv, ScriptUrlsUnique
      <3>8. QED
        BY <3>3, <3>4, <3>5, <3>6, <3>7
    <2>9. ASSUME NEW i \in Ids, NEW row \in Source,
                 src' = IF Exists(i) THEN [src EXCEPT ![i] = row] ELSE src,
                 UNCHANGED <<code, used, list, run>>, job' = [job EXCEPT ![w] = Idle],
                 Exists(i) => /\ row.kind = src[i].kind
                              /\ row.kind = "script" =>
                                    row.url = src[i].url /\ row.version \in Versions(i)
          PROVE  Rest
      <3>1. row # NoSource
        BY <2>9, NoSourceIsNone
      <3>2. \A k \in Ids : Exists(k)' <=> Exists(k)
        BY <2>9, <3>1 DEF Exists, TypeOK
      <3>3. \A k \in Ids : Exists(k) => /\ src'[k].kind = src[k].kind
                                        /\ src[k].kind = "script" => src'[k].url = src[k].url
        BY <2>9 DEF Exists, TypeOK
      <3>4. \A k \in Ids : Versions(k)' = Versions(k)
        BY <2>9 DEF Versions
      <3>5. SourcesAreUsed'
        BY <2>9, <3>2 DEF SourcesInv, SourcesAreUsed
      <3>6. JobsAreOld'
        BY <2>9, <3>2, <3>3, <3>4, JobTypes DEF SourcesInv, JobsAreOld, TypeOK, Idle
      <3>7. RunsAreOld'
        BY <2>9, <3>2 DEF SourcesInv, RunsAreOld, Runs
      <3>8. ActiveVersionExists'
        BY <2>9, <3>2, <3>3, <3>4 DEF SourcesInv, ActiveVersionExists, TypeOK, Exists
      <3>9. ScriptUrlsUnique'
        <4>1. SUFFICES ASSUME NEW a \in Ids, NEW b \in Ids, Exists(a)', Exists(b)',
                              src'[a].kind = "script", src'[b].kind = "script",
                              src'[a].url = src'[b].url
                       PROVE  a = b
          BY DEF ScriptUrlsUnique
        <4>2. Exists(a) /\ Exists(b)
          BY <3>2, <4>1
        <4>3. src[a].kind = "script" /\ src[b].kind = "script" /\ src[a].url = src[b].url
          BY <3>3, <4>1, <4>2
        <4>4. QED
          BY <4>2, <4>3 DEF SourcesInv, ScriptUrlsUnique
      <3>10. QED
        BY <3>5, <3>6, <3>7, <3>8, <3>9
    <2>10. CASE EnableWrites(w)
      <3> DEFINE i == job[w].id
                 row == [src[i] EXCEPT !.on = job[w].on]
      <3>1. i \in Ids /\ job[w].on \in BOOLEAN
        BY <2>10, JobTypes DEF EnableWrites
      <3>2. CASE Exists(i)
        <4>1. src[i] \in Source
          BY <3>1, <3>2 DEF Exists, TypeOK
        <4>2. row \in Source /\ row.kind = src[i].kind /\ row.url = src[i].url
                /\ row.version = src[i].version
          BY <3>1, <4>1 DEF Source
        <4>3. src' = [src EXCEPT ![i] = row]
          BY <2>10, <3>2 DEF EnableWrites
        <4>4. UNCHANGED <<code, used, list, run>> /\ job' = [job EXCEPT ![w] = Idle]
          BY <2>10 DEF EnableWrites, Ends
        <4>5. row.kind = "script" => row.version \in Versions(i)
          BY <3>1, <3>2, <4>2 DEF SourcesInv, ActiveVersionExists
        <4> HIDE DEF i, row
        <4>6. QED
          BY <2>9, <3>1, <3>2, <4>2, <4>3, <4>4, <4>5
      <3>3. CASE ~Exists(i)
        <4>1. UNCHANGED <<src, code, used, list, run>> /\ job' = [job EXCEPT ![w] = Idle]
          BY <2>10, <3>3 DEF EnableWrites, Ends
        <4>2. QED
          BY <4>1 DEF SourcesInv, SourcesAreUsed, JobsAreOld, RunsAreOld, ActiveVersionExists,
             ScriptUrlsUnique, Exists, Versions, TypeOK, Idle
      <3>4. QED
        BY <3>2, <3>3
    <2>11. CASE UpdateWrites(w)
      <3> DEFINE i == job[w].id
                 row == [src[i] EXCEPT !.url = job[w].url]
      <3>1. i \in Ids /\ job[w].url \in Urls
        BY <2>11, JobTypes DEF UpdateWrites
      <3>2. CASE Exists(i)
        <4>1. src[i] \in Source /\ src[i].kind = "rss"
          BY <2>11, <3>1, <3>2 DEF Exists, TypeOK, UpdateWrites, SourcesInv, JobsAreOld
        <4>2. row \in Source /\ row.kind = "rss"
          BY <3>1, <4>1 DEF Source
        <4>3. src' = [src EXCEPT ![i] = row]
          BY <2>11, <3>2 DEF UpdateWrites
        <4>4. UNCHANGED <<code, used, list, run>> /\ job' = [job EXCEPT ![w] = Idle]
          BY <2>11 DEF UpdateWrites, Ends
        <4> HIDE DEF i, row
        <4>5. QED
          BY <2>9, <3>1, <3>2, <4>1, <4>2, <4>3, <4>4
      <3>3. CASE ~Exists(i)
        <4>1. UNCHANGED <<src, code, used, list, run>> /\ job' = [job EXCEPT ![w] = Idle]
          BY <2>11, <3>3 DEF UpdateWrites, Ends
        <4>2. QED
          BY <4>1 DEF SourcesInv, SourcesAreUsed, JobsAreOld, RunsAreOld, ActiveVersionExists,
             ScriptUrlsUnique, Exists, Versions, TypeOK, Idle
      <3>4. QED
        BY <3>2, <3>3
    <2>12. CASE UseWrites(w)
      <3> DEFINE i == job[w].id
                 row == [src[i] EXCEPT !.version = job[w].version]
      <3>1. i \in Ids /\ job[w].version \in 0..MaxVersion
        BY <2>12, JobTypes, VersionBound DEF UseWrites, Version
      <3>2. CASE Exists(i)
        <4>1. src[i] \in Source /\ job[w].version \in Versions(i)
          BY <2>12, <3>1, <3>2 DEF Exists, TypeOK, UseWrites, SourcesInv, JobsAreOld
        <4>2. row \in Source /\ row.kind = src[i].kind /\ row.url = src[i].url
                /\ row.version = job[w].version
          BY <3>1, <4>1 DEF Source
        <4>3. src' = [src EXCEPT ![i] = row]
          BY <2>12, <3>2 DEF UseWrites
        <4>4. UNCHANGED <<code, used, list, run>> /\ job' = [job EXCEPT ![w] = Idle]
          BY <2>12 DEF UseWrites, Ends
        <4>5. row.version \in Versions(i)
          BY <4>1, <4>2
        <4> HIDE DEF i, row
        <4>6. QED
          BY <2>9, <3>1, <3>2, <4>2, <4>3, <4>4, <4>5
      <3>3. CASE ~Exists(i)
        <4>1. UNCHANGED <<src, code, used, list, run>> /\ job' = [job EXCEPT ![w] = Idle]
          BY <2>12, <3>3 DEF UseWrites, Ends
        <4>2. QED
          BY <4>1 DEF SourcesInv, SourcesAreUsed, JobsAreOld, RunsAreOld, ActiveVersionExists,
             ScriptUrlsUnique, Exists, Versions, TypeOK, Idle
      <3>4. QED
        BY <3>2, <3>3
    <2>13. QED
      BY <1>1, <2>2, <2>3, <2>4, <2>5, <2>6, <2>7, <2>8, <2>10, <2>11, <2>12 DEF ToolNext
  \* save: one transaction, so only the runs in flight may have an older view.
  <1>2. ASSUME NEW i \in Ids, NEW u \in Urls, NEW c \in Codes, SaveNew(i, u, c) PROVE Rest
    <2>1. /\ i \notin used /\ used' = used \cup {i} /\ ~UrlTaken(u, {})
          /\ src' = [src EXCEPT ![i] = [url |-> u, kind |-> "script", on |-> TRUE, version |-> 1]]
          /\ code' = [code EXCEPT ![i][1] = c]
          /\ UNCHANGED <<job, list, run>>
      BY <1>2 DEF SaveNew
    <2>2. 1 \in Version /\ c # NoCode /\ 1 \in 0..MaxVersion
      BY <1>2, VersionBound, SourceSentinels DEF SaveNew, Version
    <2>3. [url |-> u, kind |-> "script", on |-> TRUE, version |-> 1] # NoSource
      <3>1. [url |-> u, kind |-> "script", on |-> TRUE, version |-> 1] \in Source
        BY <2>2 DEF Source
      <3>2. QED
        BY <3>1, NoSourceIsNone
    <2>4. code'[i][1] = c /\ \A k \in Ids \ {i} : code'[k] = code[k]
      BY <2>1, <2>2 DEF TypeOK
    <2>5. SourcesAreUsed'
      BY <2>1 DEF SourcesInv, SourcesAreUsed, Exists, TypeOK
    <2>6. JobsAreOld'
      BY <2>1, <2>4, JobTypes DEF SourcesInv, JobsAreOld, Exists, Versions, TypeOK
    <2>7. RunsAreOld'
      BY <2>1, <2>4 DEF SourcesInv, RunsAreOld, Exists, TypeOK, Runs
    <2>8. ActiveVersionExists'
      BY <2>1, <2>2, <2>3, <2>4 DEF SourcesInv, ActiveVersionExists, Exists, Versions, TypeOK
    <2>9. ScriptUrlsUnique'
      BY <2>1 DEF SourcesInv, ScriptUrlsUnique, Exists, TypeOK, UrlTaken
    <2>10. QED
      BY <2>5, <2>6, <2>7, <2>8, <2>9
  <1>3. ASSUME NEW i \in Ids, NEW u \in Urls, NEW c \in Codes, SaveVersion(i, u, c) PROVE Rest
    <2>1. /\ Exists(i) /\ src[i].kind = "script" /\ ~UrlTaken(u, {i})
          /\ UNCHANGED <<used, job, list, run>>
      BY <1>3 DEF SaveVersion
    <2>2. PICK v \in Version : /\ IsNextVersion(i, v)
                               /\ code' = [code EXCEPT ![i][v] = c]
                               /\ src' = [src EXCEPT ![i].url = u, ![i].version = v]
      BY <1>3 DEF SaveVersion
    <2>3. c # NoCode /\ v \notin Versions(i)
      BY <2>2, SourceSentinels DEF IsNextVersion, Versions, Version
    <2>4. /\ \A k \in Ids \ {i} : src'[k] = src[k] /\ code'[k] = code[k]
          /\ src'[i].url = u /\ src'[i].version = v /\ src'[i].kind = "script"
          /\ src'[i] # NoSource
      <3>1. src[i] \in Source
        BY <2>1 DEF Exists, TypeOK
      <3>2. src'[i].url = u /\ src'[i].version = v /\ src'[i].kind = "script"
        BY <2>1, <2>2, <3>1 DEF TypeOK, Source
      <3>3. src'[i] \in Source
        <4>1. v \in 0..MaxVersion
          BY VersionBound DEF Version
        <4>2. QED
          BY <2>2, <3>1, <4>1 DEF TypeOK, Source
      <3>4. QED
        BY <2>2, <3>2, <3>3, SourceSentinels DEF TypeOK, Source
    <2>5. \A w \in Version : code'[i][w] = IF w = v THEN c ELSE code[i][w]
      BY <2>2 DEF TypeOK
    <2>6. SourcesAreUsed'
      BY <2>1, <2>4 DEF SourcesInv, SourcesAreUsed, Exists
    <2>7. \A k \in Ids : Versions(k) \subseteq Versions(k)'
      BY <2>3, <2>4, <2>5 DEF Versions
    <2>8. JobsAreOld'
      BY <2>1, <2>4, <2>7, JobTypes DEF SourcesInv, JobsAreOld, Exists
    <2>9. RunsAreOld'
      <3>1. \A r \in Runs \cap (list \cup run) :
               r.id = i => r.version # v
        BY <2>1, <2>3, SourceSentinels DEF SourcesInv, RunsAreOld, Runs, Versions
      <3>2. QED
        BY <2>1, <2>4, <2>5, <3>1 DEF SourcesInv, RunsAreOld, Exists, Runs
    <2>10. ActiveVersionExists'
      <3>1. v \in Versions(i)'
        BY <2>3, <2>5 DEF Versions
      <3>2. QED
        BY <2>1, <2>4, <2>7, <3>1 DEF SourcesInv, ActiveVersionExists, Exists, Versions
    <2>11. ScriptUrlsUnique'
      BY <2>1, <2>4 DEF SourcesInv, ScriptUrlsUnique, Exists, UrlTaken
    <2>12. QED
      BY <2>6, <2>8, <2>9, <2>10, <2>11
  \* The poll round: the tables it writes are none the invariant is about.
  <1>4. ASSUME UNCHANGED <<src, code, used, job>>, RunsAreOld' PROVE Rest
    BY <1>4 DEF SourcesInv, SourcesAreUsed, JobsAreOld, ActiveVersionExists, ScriptUrlsUnique,
       Exists, Versions
  <1>5. ASSUME DueScripts PROVE Rest
    <2>1. \A r \in list' : r.id \in Ids /\ Exists(r.id) /\ code[r.id][r.version] = r.code
      BY <1>5 DEF DueScripts
    <2>2. run = {}
      BY <1>5 DEF DueScripts, TypeOK
    <2>3. RunsAreOld'
      BY <1>5, <2>1, <2>2 DEF DueScripts, tables, SourcesInv, RunsAreOld, SourcesAreUsed, Exists
    <2>4. QED
      BY <1>4, <1>5, <2>3 DEF DueScripts, tables
  <1>6. ASSUME RssList PROVE Rest
    <2>1. list' \subseteq Ids /\ run = {}
      BY <1>6 DEF RssList, TypeOK
    <2>2. RunsAreOld'
      BY <1>6, <2>1, IdsAreNotRuns DEF RssList, RunsAreOld, Runs, Version
    <2>3. QED
      BY <1>4, <1>6, <2>2 DEF RssList, tables
  <1>7. ASSUME (list' \cup run') \cap Runs \subseteq list \cup run, UNCHANGED <<src, code, used, job>>
        PROVE  Rest
    <2>1. RunsAreOld'
      BY <1>7 DEF SourcesInv, RunsAreOld, Exists
    <2>2. QED
      BY <1>4, <1>7, <2>1
  <1>8. ASSUME RssDone \/ RoundDone \/ Restart PROVE Rest
    BY <1>7, <1>8 DEF RssDone, RoundDone, Restart, tables
  <1>9. ASSUME NEW i \in Ids, RssFetches(i) \/ RssWrites(i) PROVE Rest
    BY <1>7, <1>9 DEF RssFetches, RssWrites, tables
  <1>10. ASSUME NEW r \in Runs, ScriptRuns(r) \/ ScriptRecorded(r) \/ RecordRaises(r) PROVE Rest
    BY <1>7, <1>10 DEF ScriptRuns, ScriptRecorded, RecordRaises, tables
  <1>11. ASSUME NEW i \in Ids, IntervalPasses(i) PROVE Rest
    BY <1>7, <1>11 DEF IntervalPasses
  <1>12. ASSUME UNCHANGED vars PROVE Rest
    BY <1>7, <1>12 DEF vars, tables
  <1>13. Rest
    BY <1>1, <1>2, <1>3, <1>5, <1>6, <1>8, <1>9, <1>10, <1>11, <1>12 DEF Next, PollNext
  <1>14. QED
    BY <1>q, <1>13

LEMMA Invariants == Spec => []SourcesInv
  BY InitSources, SourcesStep, PTL DEF Spec

-----------------------------------------------------------------------------
(* What follows.                                                            *)

\* Every table, job and run keeps its type.
THEOREM TypeCorrect == Spec => []TypeOK
  <1>1. SourcesInv => TypeOK
    BY DEF SourcesInv
  <1>2. QED
    BY <1>1, Invariants, PTL

\* No source runs a version that does not exist, and none leaves scripts behind.
THEOREM ActiveVersions == Spec => []ActiveVersionExists
  <1>1. SourcesInv => ActiveVersionExists
    BY DEF SourcesInv
  <1>2. QED
    BY <1>1, Invariants, PTL

\* Two script sources never share a page.
THEOREM ScriptUrls == Spec => []ScriptUrlsUnique
  <1>1. SourcesInv => ScriptUrlsUnique
    BY DEF SourcesInv
  <1>2. QED
    BY <1>1, Invariants, PTL

\* The result of a run is recorded only for the version and the code that ran.
THEOREM ScriptResults == Spec => ScriptResultIsCurrent
  <1>1. ASSUME SourcesInv, [Next]_vars, NEW r \in Runs,
               run = {r}, run' = {}, <<stock, state>> # <<stock', state'>>
        PROVE  /\ Exists(r.id) /\ src[r.id].on
               /\ src[r.id].version = r.version
               /\ code[r.id][r.version] = r.code
    <2>1. StillActive(r)
      <3>1. run' # run /\ r \notin Ids
        BY <1>1, IdsAreNotRuns DEF Runs, Version
      <3>2. \E q \in Runs : ScriptRecorded(q) \/ RecordRaises(q)
        BY <1>1, <3>1 DEF Next, PollNext, ToolNext, SubscribeReads, UnsubscribeReads,
           EnableReads, UpdateReads, UseReads, Begins, SubscribeInserts, UnsubscribeDeletes,
           EnableWrites, UpdateWrites, UseWrites, SaveNew, SaveVersion, RssList, RssFetches,
           RssWrites, RssDone, DueScripts, ScriptRuns, RoundDone, Restart, IntervalPasses, vars
      <3>3. ScriptRecorded(r)
        BY <1>1, <3>2 DEF ScriptRecorded, RecordRaises, tables
      <3>4. QED
        BY <1>1, <3>3 DEF ScriptRecorded
    <2>2. QED
      BY <1>1, <2>1 DEF StillActive, SourcesInv, RunsAreOld
  <1>2. SourcesInv /\ [Next]_vars =>
          [\A r \in Runs :
             run = {r} /\ run' = {} /\ <<stock, state>> # <<stock', state'>> =>
                 /\ Exists(r.id) /\ src[r.id].on
                 /\ src[r.id].version = r.version
                 /\ code[r.id][r.version] = r.code]_vars
    BY <1>1
  <1>3. QED
    BY <1>2, Invariants, PTL DEF Spec, ScriptResultIsCurrent
=============================================================================
