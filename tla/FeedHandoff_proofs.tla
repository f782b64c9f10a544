------------------------- MODULE FeedHandoff_proofs -------------------------
(***************************************************************************)
(* Theorems about FeedHandoff: its types, that a marker names a target that   *)
(* is there, that nothing is left out, that a replay acks nothing, and that    *)
(* it implements HandoffLedger; and about FeedInventory, that the facts it     *)
(* starts from are the old database's open events, each once.                *)
(***************************************************************************)
EXTENDS FeedHandoff, FeedInventory, TLAPS

Inner == {"settle", "commit", "submit", "verify", "mark"}

StoreTypes ==
    /\ row \in [Events -> Row \cup {NoRow}]
    /\ acked \in SUBSET Events
    /\ receipts \in [Fact -> Revs \cup {NoRev}]
    /\ batch \in [Fact -> Row \cup {NoRow}]
    /\ body \in [Events \X Revs -> Metas \cup {Foreign, NoMeta}]
    /\ file \in {"absent", "empty", "partial", "ready"}
    /\ lineage \in [Fact -> Revs \cup {NoRev}]
    /\ completed \in BOOLEAN

LocalTypes ==
    /\ pc \in [Runners -> PC]
    /\ at \in [Runners -> 1..N + 1]
    /\ plan \in [Runners -> [Fact -> Revs \cup {NoRev}]]
    /\ seen \in [Runners -> [Fact -> Revs \cup {NoRev}]]
    /\ hand \in [Runners -> Row \cup {NoRow}]
    /\ live \in [Runners -> BOOLEAN]
    /\ report \in [Runners -> {"none", "block", "raised", "applied"}]
    /\ \A p \in Runners :
          /\ pc[p] \in Inner => at[p] \in Fact
          /\ pc[p] = "submit" => hand[p] \in Row

BoundTypes == faults \in 0..MaxFaults /\ moves \in 0..MaxHost

LEMMA Types == TypeOK <=> StoreTypes /\ LocalTypes /\ BoundTypes
  BY DEF TypeOK, StoreTypes, LocalTypes, BoundTypes, Inner

LEMMA Places == N \in Nat /\ 1 \in 1..N + 1 /\ \A a \in Fact : a \in 1..N + 1 /\ a + 1 \in 1..N + 1
  BY FactsAreTyped DEF Fact

LEMMA UnknownType == Unknown \in [Fact -> Revs \cup {NoRev}]
  BY DEF Unknown

\* What a call that ends leaves of its locals.
LEMMA EndsTypes ==
    ASSUME LocalTypes, NEW p \in Runners, NEW how \in {"none", "block", "raised", "applied"},
           Ends(p, how)
    PROVE  LocalTypes'
  <1>1. pc' \in [Runners -> PC] /\ at' \in [Runners -> 1..N + 1]
        /\ hand' \in [Runners -> Row \cup {NoRow}] /\ live' \in [Runners -> BOOLEAN]
    BY Places DEF LocalTypes, Ends, Goes, PC
  <1>2. plan' \in [Runners -> [Fact -> Revs \cup {NoRev}]]
        /\ seen' \in [Runners -> [Fact -> Revs \cup {NoRev}]]
    BY UnknownType DEF LocalTypes, Ends
  <1>3. report' \in [Runners -> {"none", "block", "raised", "applied"}]
    BY DEF LocalTypes, Ends
  <1>4. ASSUME NEW q \in Runners
        PROVE  (pc'[q] \in Inner => at'[q] \in Fact) /\ (pc'[q] = "submit" => hand'[q] \in Row)
    <2>1. CASE q = p
      BY <2>1 DEF LocalTypes, Ends, Goes, Inner
    <2>2. CASE q # p
      <3>1. pc'[q] = pc[q] /\ at'[q] = at[q] /\ hand'[q] = hand[q]
        BY <2>2 DEF LocalTypes, Ends, Goes
      <3>2. QED
        BY <3>1 DEF LocalTypes
    <2>3. QED
      BY <2>1, <2>2
  <1>5. QED
    BY <1>1, <1>2, <1>3, <1>4 DEF LocalTypes

\* A step of a call that goes on: the pc moves, at stays or moves within bounds.
LEMMA MovesTypes ==
    ASSUME LocalTypes, NEW p \in Runners, NEW where \in PC, Goes(p, where),
           NEW a \in 1..N + 1, at' = [at EXCEPT ![p] = a],
           where \in Inner => a \in Fact,
           plan' \in [Runners -> [Fact -> Revs \cup {NoRev}]],
           seen' \in [Runners -> [Fact -> Revs \cup {NoRev}]],
           hand' \in [Runners -> Row \cup {NoRow}],
           \A q \in Runners : q # p => hand'[q] = hand[q],
           where = "submit" => hand'[p] \in Row,
           live' \in [Runners -> BOOLEAN],
           report' \in [Runners -> {"none", "block", "raised", "applied"}]
    PROVE  LocalTypes'
  <1>1. pc' \in [Runners -> PC] /\ at' \in [Runners -> 1..N + 1]
    BY DEF LocalTypes, Goes
  <1>2. ASSUME NEW q \in Runners
        PROVE  (pc'[q] \in Inner => at'[q] \in Fact) /\ (pc'[q] = "submit" => hand'[q] \in Row)
    <2>1. CASE q = p
      BY <2>1 DEF LocalTypes, Goes
    <2>2. CASE q # p
      BY <2>2 DEF LocalTypes, Goes
    <2>3. QED
      BY <2>1, <2>2
  <1>3. QED
    BY <1>1, <1>2 DEF LocalTypes

\* Where at does not change.
LEMMA GoesTypes ==
    ASSUME LocalTypes, NEW p \in Runners, NEW where \in PC, Goes(p, where),
           where \in Inner => at[p] \in Fact,
           hand' \in [Runners -> Row \cup {NoRow}],
           \A q \in Runners : q # p => hand'[q] = hand[q],
           where = "submit" => hand'[p] \in Row,
           live' \in [Runners -> BOOLEAN],
           UNCHANGED <<at, plan, seen, report>>
    PROVE  LocalTypes'
  <1>1. at[p] \in 1..N + 1 /\ at' = [at EXCEPT ![p] = at[p]]
    BY DEF LocalTypes
  <1>2. /\ plan' \in [Runners -> [Fact -> Revs \cup {NoRev}]]
        /\ seen' \in [Runners -> [Fact -> Revs \cup {NoRev}]]
        /\ report' \in [Runners -> {"none", "block", "raised", "applied"}]
    BY DEF LocalTypes
  <1>3. QED
    BY <1>1, <1>2, MovesTypes

LEMMA RowOf == StoreTypes => \A f \in Fact : row[EventOf[f]] # NoRow => row[EventOf[f]] \in Row
  BY FactsAreTyped DEF StoreTypes

LEMMA RowFields == \A r \in Row : r.rev \in Revs /\ r.meta \in Metas
  BY DEF Row

-----------------------------------------------------------------------------
\* Type correctness.
LEMMA PlanTypes ==
    ASSUME TypeOK, NEW p \in Runners,
           Calls(p) \/ Plans(p) \/ PlanBlocks(p) \/ PlanDone(p) \/ FinalDone(p)
    PROVE  StoreTypes' /\ LocalTypes'
  <1>t. StoreTypes /\ LocalTypes
    BY Types
  <1>s. StoreTypes'
    BY <1>t DEF StoreTypes, stores, Calls, Plans, PlanBlocks, PlanDone, FinalDone
  <1>1. CASE Calls(p)
    <2>1. seen' \in [Runners -> [Fact -> Revs \cup {NoRev}]]
      BY <1>t, <1>1 DEF StoreTypes, LocalTypes, Calls, Restarts
    <2>2. report' \in [Runners -> {"none", "block", "raised", "applied"}]
      BY <1>t, <1>1 DEF LocalTypes, Calls
    <2>3. "plan" \in PC /\ "plan" \notin Inner /\ "plan" # "submit"
      BY DEF PC, Inner
    <2>4. Goes(p, "plan") /\ at' = [at EXCEPT ![p] = 1] /\ UNCHANGED <<plan, hand, live>>
      BY <1>1 DEF Calls, Restarts
    <2>5. QED
      BY <1>s, <1>t, <2>1, <2>2, <2>3, <2>4, Places, MovesTypes DEF LocalTypes
  <1>2. CASE Plans(p)
    <2>1. at[p] \in Fact /\ row[EventOf[at[p]]] # NoRow
      BY <1>2 DEF Plans, Accepted
    <2>2. row[EventOf[at[p]]].rev \in Revs
      BY <1>t, <2>1, RowOf, RowFields
    <2>3. plan' \in [Runners -> [Fact -> Revs \cup {NoRev}]]
      BY <1>t, <1>2, <2>1, <2>2 DEF LocalTypes, Plans
    <2>4. at' = [at EXCEPT ![p] = at[p] + 1] /\ at[p] + 1 \in 1..N + 1
      BY <1>2, <2>1, Places DEF Plans, Advances
    <2>5. pc[p] \in PC /\ pc[p] \notin Inner \cup {"submit"} /\ Goes(p, pc[p])
      BY <1>t, <1>2 DEF LocalTypes, Plans, Goes, PC, Inner
    <2>6. UNCHANGED <<seen, hand, live, report>>
      BY <1>2 DEF Plans
    <2>7. QED
      BY <1>s, <1>t, <2>3, <2>4, <2>5, <2>6, MovesTypes DEF LocalTypes
  <1>3. CASE PlanBlocks(p)
    BY <1>s, <1>t, <1>3, EndsTypes DEF PlanBlocks
  <1>4. CASE PlanDone(p)
    <2>1. CASE plan[p] = Unknown
      BY <1>s, <1>t, <1>4, <2>1, EndsTypes DEF PlanDone
    <2>2. CASE plan[p] # Unknown /\ Readable
      <3>1. seen' \in [Runners -> [Fact -> Revs \cup {NoRev}]]
        BY <1>t, <1>4, <2>2 DEF StoreTypes, LocalTypes, PlanDone, Restarts
      <3>2. "recheck" \in PC /\ "recheck" \notin Inner
        BY DEF PC, Inner
      <3>3. Goes(p, "recheck") /\ at' = [at EXCEPT ![p] = 1] /\ UNCHANGED <<plan, hand, live, report>>
        BY <1>4, <2>2 DEF PlanDone, Restarts
      <3>4. QED
        BY <1>s, <1>t, <3>1, <3>2, <3>3, Places, MovesTypes DEF LocalTypes
    <2>3. CASE plan[p] # Unknown /\ ~Readable
      <3>1. Ends(p, "raised")
        BY <1>4, <2>3 DEF PlanDone
      <3>2. QED
        BY <1>s, <1>t, <3>1, EndsTypes
    <2>4. QED
      BY <2>1, <2>2, <2>3
  <1>5. CASE FinalDone(p)
    BY <1>s, <1>t, <1>5, EndsTypes DEF FinalDone
  <1>6. QED
    BY <1>1, <1>2, <1>3, <1>4, <1>5

LEMMA BeginTypes ==
    ASSUME TypeOK, NEW p \in Runners,
           \/ Rechecks(p) \/ RecheckBlocks(p) \/ Begins(p) \/ Creates(p) \/ Fills(p)
           \/ Completes(p)
    PROVE  StoreTypes' /\ LocalTypes'
  <1>t. StoreTypes /\ LocalTypes
    BY Types
  <1>w. {"recheck", "create", "fill", "apply", "final"} \subseteq PC
        /\ {"recheck", "create", "fill", "apply", "final"} \cap Inner = {}
    BY DEF PC, Inner
  <1>1. CASE Rechecks(p)
    <2>1. at[p] \in Fact /\ pc[p] = "recheck" /\ Goes(p, "recheck")
      BY <1>t, <1>1 DEF Rechecks, AtFact, Goes, LocalTypes
    <2>2. at' = [at EXCEPT ![p] = at[p] + 1] /\ at[p] + 1 \in 1..N + 1
      BY <1>1, <2>1, Places DEF Rechecks, Advances
    <2>3. UNCHANGED <<stores, plan, seen, hand, live, report>>
      BY <1>1 DEF Rechecks
    <2>4. QED
      BY <1>t, <1>w, <2>1, <2>2, <2>3, MovesTypes DEF LocalTypes, StoreTypes, stores
  <1>2. CASE RecheckBlocks(p)
    BY <1>t, <1>2, EndsTypes DEF RecheckBlocks, StoreTypes, stores
  <1>3. CASE Begins(p)
    <2>1. StoreTypes'
      BY <1>t, <1>3 DEF Begins, StoreTypes
    <2>2. CASE file # "ready"
      <3>1. Goes(p, "create") /\ UNCHANGED <<at, plan, seen, hand, live, report>>
        BY <1>3, <2>2 DEF Begins
      <3>2. QED
        BY <1>t, <1>w, <2>1, <3>1, GoesTypes DEF LocalTypes
    <2>3. CASE file = "ready"
      <3>1. Goes(p, "apply") /\ at' = [at EXCEPT ![p] = 1] /\ UNCHANGED <<plan, seen, hand, live, report>>
        BY <1>3, <2>3 DEF Begins, StartsToApply
      <3>2. QED
        BY <1>t, <1>w, <2>1, <3>1, Places, MovesTypes DEF LocalTypes
    <2>4. QED
      BY <2>2, <2>3
  <1>4. CASE Creates(p)
    <2>1. StoreTypes'
      BY <1>t, <1>4 DEF Creates, StoreTypes
    <2>2. CASE file = "empty"
      <3>1. Goes(p, "fill") /\ UNCHANGED <<at, plan, seen, hand, live, report>>
        BY <1>4, <2>2 DEF Creates
      <3>2. QED
        BY <1>t, <1>w, <2>1, <3>1, GoesTypes DEF LocalTypes
    <2>3. CASE file # "empty"
      BY <1>t, <1>4, <2>1, <2>3, EndsTypes DEF Creates
    <2>4. QED
      BY <2>2, <2>3
  <1>5. CASE Fills(p)
    <2>1. StoreTypes'
      BY <1>t, <1>5 DEF Fills, StoreTypes
    <2>2. Goes(p, "apply") /\ at' = [at EXCEPT ![p] = 1] /\ UNCHANGED <<plan, seen, hand, live, report>>
      BY <1>5 DEF Fills, StartsToApply
    <2>3. QED
      BY <1>t, <1>w, <2>1, <2>2, Places, MovesTypes DEF LocalTypes
  <1>6. CASE Completes(p)
    <2>1. StoreTypes'
      BY <1>t, <1>6 DEF Completes, StoreTypes
    <2>2. seen' \in [Runners -> [Fact -> Revs \cup {NoRev}]]
      BY <1>t, <1>6 DEF StoreTypes, LocalTypes, Completes, Restarts
    <2>3. Goes(p, "final") /\ at' = [at EXCEPT ![p] = 1] /\ UNCHANGED <<plan, hand, live, report>>
      BY <1>6 DEF Completes, Restarts
    <2>4. QED
      BY <1>t, <1>w, <2>1, <2>2, <2>3, Places, MovesTypes DEF LocalTypes
  <1>7. QED
    BY <1>1, <1>2, <1>3, <1>4, <1>5, <1>6

LEMMA ApplyTypes ==
    ASSUME TypeOK, NEW p \in Runners,
           Skips(p) \/ Reads(p) \/ Settles(p) \/ Commits(p) \/ Submits(p) \/ Verifies(p) \/ Marks(p)
    PROVE  StoreTypes' /\ LocalTypes'
  <1>t. StoreTypes /\ LocalTypes
    BY Types
  <1>w. {"apply", "settle", "submit", "commit", "verify", "mark"} \subseteq PC /\ "apply" \notin Inner
    BY DEF PC, Inner
  <1>f. at[p] \in Fact
    BY DEF Skips, Reads, Settles, Commits, Submits, Verifies, Marks, AtFact
  <1>a. at[p] + 1 \in 1..N + 1
    BY <1>f, Places
  <1>r. plan[p][at[p]] \in Revs \cup {NoRev}
    BY <1>t, <1>f DEF LocalTypes
  <1>1. CASE Skips(p)
    <2>1. pc[p] = "apply" /\ Goes(p, "apply") /\ at' = [at EXCEPT ![p] = at[p] + 1]
          /\ UNCHANGED <<stores, plan, seen, hand, live, report>>
      BY <1>t, <1>1 DEF Skips, AtFact, Advances, Goes, LocalTypes
    <2>2. QED
      BY <1>t, <1>w, <1>a, <2>1, MovesTypes DEF LocalTypes, StoreTypes, stores
  <1>2. CASE Reads(p)
    <2>0. StoreTypes'
      BY <1>t, <1>2 DEF Reads, StoreTypes, stores
    <2>1. CASE RowIs(at[p], plan[p][at[p]]) /\ ByAck(at[p])
      <3>1. Goes(p, "settle") /\ UNCHANGED <<at, plan, seen, hand, live, report>>
        BY <1>2, <2>1 DEF Reads
      <3>2. QED
        BY <1>t, <1>w, <1>f, <2>0, <3>1, GoesTypes DEF LocalTypes
    <2>2. CASE RowIs(at[p], plan[p][at[p]]) /\ ~ByAck(at[p])
      <3>1. Goes(p, "submit") /\ hand' = [hand EXCEPT ![p] = row[EventOf[at[p]]]]
            /\ UNCHANGED <<at, plan, seen, live, report>>
        BY <1>2, <2>2 DEF Reads
      <3>2. row[EventOf[at[p]]] \in Row
        BY <1>t, <1>f, <2>2, RowOf DEF RowIs
      <3>4. hand' \in [Runners -> Row \cup {NoRow}] /\ hand'[p] \in Row
            /\ \A q \in Runners : q # p => hand'[q] = hand[q]
        BY <1>t, <3>1, <3>2 DEF LocalTypes
      <3>3. QED
        BY <1>t, <1>w, <1>f, <2>0, <3>1, <3>4, GoesTypes DEF LocalTypes
    <2>3. CASE ~RowIs(at[p], plan[p][at[p]])
      BY <1>t, <1>2, <2>0, <2>3, EndsTypes DEF Reads
    <2>4. QED
      BY <2>1, <2>2, <2>3
  <1>3. CASE Settles(p)
    <2>0. StoreTypes'
      BY <1>t, <1>3 DEF Settles, StoreTypes, stores
    <2>1. CASE Ends(p, "raised")
      BY <1>t, <2>0, <2>1, EndsTypes
    <2>2. CASE Goes(p, "verify") /\ UNCHANGED <<at, plan, seen, hand, live, report>>
      BY <1>t, <1>w, <1>f, <2>0, <2>2, GoesTypes DEF LocalTypes
    <2>3. CASE /\ Goes(p, "commit") /\ UNCHANGED <<at, plan, seen, hand, report>>
               /\ live' = [live EXCEPT ![p] = EventOf[at[p]] \in acked]
      <3>1. live' \in [Runners -> BOOLEAN]
        BY <1>t, <2>3 DEF LocalTypes
      <3>2. QED
        BY <1>t, <1>w, <1>f, <2>0, <2>3, <3>1, GoesTypes DEF LocalTypes
    <2>4. QED
      BY <1>3, <2>1, <2>2, <2>3 DEF Settles
  <1>4. CASE Commits(p)
    <2>1. CASE receipts[at[p]] = NoRev
      <3>1. StoreTypes'
        <4>1. receipts' \in [Fact -> Revs \cup {NoRev}]
          BY <1>t, <1>4, <1>r, <2>1 DEF Commits, StoreTypes
        <4>2. acked' \in SUBSET Events
          <5>1. EventOf[at[p]] \in Events
            BY <1>f, FactsAreTyped
          <5>2. acked' = acked \/ acked' = acked \cup {EventOf[at[p]]}
            BY <1>4, <2>1 DEF Commits
          <5>3. QED
            BY <1>t, <5>1, <5>2 DEF StoreTypes
        <4>3. UNCHANGED <<row, batch, body, file, lineage, completed>>
          BY <1>4 DEF Commits
        <4>4. QED
          BY <1>t, <4>1, <4>2, <4>3 DEF StoreTypes
      <3>2. Goes(p, "verify") /\ UNCHANGED <<at, plan, seen, hand, live, report>>
        BY <1>4, <2>1 DEF Commits
      <3>3. QED
        BY <1>t, <1>w, <1>f, <3>1, <3>2, GoesTypes DEF LocalTypes
    <2>2. CASE receipts[at[p]] # NoRev
      <3>1. UNCHANGED stores /\ Ends(p, "raised")
        BY <1>4, <2>2 DEF Commits, stores
      <3>2. QED
        BY <1>t, <3>1, EndsTypes DEF StoreTypes, stores
    <2>3. QED
      BY <2>1, <2>2
  <1>5. CASE Submits(p)
    <2>1. CASE Refused(at[p], hand[p])
      <3>1. UNCHANGED stores /\ Ends(p, "raised")
        BY <1>5, <2>1 DEF Submits, stores
      <3>2. QED
        BY <1>t, <3>1, EndsTypes DEF StoreTypes, stores
    <2>2. CASE ~Refused(at[p], hand[p])
      <3>1. StoreTypes'
        <4>h. hand[p] \in Row
          BY <1>t, <1>5 DEF Submits, AtFact, LocalTypes
        <4>1. batch' \in [Fact -> Row \cup {NoRow}]
          BY <1>t, <1>5, <2>2, <4>h DEF Submits, StoreTypes
        <4>2. body' \in [Events \X Revs -> Metas \cup {Foreign, NoMeta}]
          <5>1. body' = [body EXCEPT ![<<EventOf[at[p]], hand[p].rev>>] = hand[p].meta]
            BY <1>5, <2>2 DEF Submits
          <5>2. hand[p].meta \in Metas
            BY <4>h, RowFields
          <5>3. body \in [Events \X Revs -> Metas \cup {Foreign, NoMeta}]
            BY <1>t DEF StoreTypes
          <5>4. QED
            BY <5>1, <5>2, <5>3
        <4>3. UNCHANGED <<row, acked, receipts, file, lineage, completed>>
          BY <1>5 DEF Submits
        <4>4. QED
          BY <1>t, <4>1, <4>2, <4>3 DEF StoreTypes
      <3>2. Goes(p, "verify") /\ UNCHANGED <<at, plan, seen, hand, live, report>>
        BY <1>5, <2>2 DEF Submits
      <3>3. QED
        BY <1>t, <1>w, <1>f, <3>1, <3>2, GoesTypes DEF LocalTypes
    <2>3. QED
      BY <2>1, <2>2
  <1>6. CASE Verifies(p)
    <2>0. StoreTypes'
      BY <1>t, <1>6 DEF Verifies, StoreTypes, stores
    <2>1. CASE Ends(p, "raised")
      BY <1>t, <2>0, <2>1, EndsTypes
    <2>2. CASE Goes(p, "mark") /\ UNCHANGED <<at, plan, seen, hand, live, report>>
      BY <1>t, <1>w, <1>f, <2>0, <2>2, GoesTypes DEF LocalTypes
    <2>3. QED
      BY <1>6, <2>1, <2>2 DEF Verifies
  <1>7. CASE Marks(p)
    <2>1. CASE lineage[at[p]] \in {NoRev, plan[p][at[p]]}
      <3>1. StoreTypes'
        BY <1>t, <1>7, <1>f, <1>r, <2>1 DEF Marks, StoreTypes
      <3>2. Goes(p, "apply") /\ at' = [at EXCEPT ![p] = at[p] + 1]
            /\ UNCHANGED <<plan, seen, hand, live, report>>
        BY <1>7, <2>1 DEF Marks, Advances
      <3>3. QED
        BY <1>t, <1>w, <1>a, <3>1, <3>2, MovesTypes DEF LocalTypes
    <2>2. CASE lineage[at[p]] \notin {NoRev, plan[p][at[p]]}
      <3>1. UNCHANGED stores /\ Ends(p, "raised")
        BY <1>7, <2>2 DEF Marks, stores
      <3>2. QED
        BY <1>t, <3>1, EndsTypes DEF StoreTypes, stores
    <2>3. QED
      BY <2>1, <2>2
  <1>8. QED
    BY <1>1, <1>2, <1>3, <1>4, <1>5, <1>6, <1>7

LEMMA RunTypes ==
    ASSUME TypeOK, NEW p \in Runners, Calls(p) \/ RunnerNext(p)
    PROVE  TypeOK'
  <1>1. StoreTypes' /\ LocalTypes'
    BY PlanTypes, BeginTypes, ApplyTypes DEF RunnerNext
  <1>2. BoundTypes'
    BY Types DEF BoundTypes, RunnerNext, Calls, Plans, PlanBlocks, PlanDone, FinalDone, Rechecks,
       RecheckBlocks, Begins, Creates, Fills, Skips, Reads, Settles, Commits, Submits, Verifies, Marks,
       Completes
  <1>3. QED
    BY <1>1, <1>2, Types DEF TypeOK, StoreTypes, LocalTypes, BoundTypes, Inner

LEMMA InterruptedTypes ==
    ASSUME TypeOK, NEW p \in Runners, Interrupted(p)
    PROVE  TypeOK'
  <1>1. StoreTypes'
    BY Types DEF Interrupted, StoreTypes, stores
  <1>2. LocalTypes'
    BY Types, EndsTypes DEF Interrupted
  <1>3. BoundTypes'
    BY Types, HandoffBounds DEF Interrupted, BoundTypes
  <1>4. QED
    BY <1>1, <1>2, <1>3 DEF TypeOK, StoreTypes, LocalTypes, BoundTypes, Inner

LEMMA HostTypes ==
    ASSUME TypeOK, Host
    PROVE  TypeOK'
  <1>t. StoreTypes /\ LocalTypes /\ BoundTypes
    BY Types
  <1>1. PICK e \in Events : HostPolls(e) \/ HostSettles(e) \/ HostSubmits(e)
    BY DEF Host
  <1>2. StoreTypes'
    <2>1. CASE HostPolls(e)
      <3>1. row' \in [Events -> Row \cup {NoRow}]
        BY <1>t, <2>1 DEF StoreTypes, HostPolls
      <3>2. acked' \in SUBSET Events
        BY <1>t, <2>1 DEF StoreTypes, HostPolls
      <3>3. QED
        BY <1>t, <2>1, <3>1, <3>2 DEF StoreTypes, HostPolls
    <2>2. CASE HostSettles(e)
      BY <1>t, <2>2 DEF StoreTypes, HostSettles
    <2>3. CASE HostSubmits(e)
      BY <1>t, <2>3 DEF StoreTypes, HostSubmits
    <2>4. QED
      BY <1>1, <2>1, <2>2, <2>3
  <1>3. LocalTypes'
    BY <1>t DEF Host, LocalTypes, locals
  <1>4. BoundTypes'
    BY <1>t, HandoffBounds DEF Host, BoundTypes
  <1>5. QED
    BY <1>2, <1>3, <1>4 DEF TypeOK, StoreTypes, LocalTypes, BoundTypes, Inner

LEMMA TypesHold == TypeOK /\ [Next]_vars => TypeOK'
  <1>1. TypeOK /\ Next => TypeOK'
    BY RunTypes, InterruptedTypes, HostTypes DEF Next
  <1>2. TypeOK /\ UNCHANGED vars => TypeOK'
    BY DEF TypeOK, vars, stores, locals
  <1>3. QED
    BY <1>1, <1>2

LEMMA InitTypes == Init => TypeOK
  <1>1. SUFFICES ASSUME Init PROVE TypeOK
    OBVIOUS
  <1>2. StoreTypes
    BY <1>1, UnknownType DEF Init, StoreTypes
  <1>3. LocalTypes
    BY <1>1, UnknownType, Places DEF Init, LocalTypes, PC, Inner
  <1>4. BoundTypes
    BY <1>1, HandoffBounds DEF Init, BoundTypes
  <1>5. QED
    BY <1>2, <1>3, <1>4, Types

\* The state keeps its types; in particular a call has a fact at hand wherever
\* it uses one, and a provider row where it submits one.
THEOREM TypeCorrect == Spec => []TypeOK
  BY InitTypes, TypesHold, PTL DEF Spec

-----------------------------------------------------------------------------
(* The inductive invariant: of each call, that the markers it read are there,  *)
(* that it planned, or got through, every fact before the one it is at, and    *)
(* that the target of the fact at hand is there once it is to be verified.    *)
SeenIsMarked(p) == \A f \in Fact : seen[p][f] # NoRev => lineage[f] = seen[p][f]

PlannedSoFar(p) ==
    pc[p] \in {"plan", "final"} =>
        \A g \in Fact : g < at[p] => seen[p][g] # NoRev \/ plan[p][g] # NoRev

MarkedSoFar(p) ==
    pc[p] \in Inner \cup {"apply"} => \A g \in Fact : g < at[p] => lineage[g] # NoRev

AtHand(p) ==
    /\ pc[p] \in Inner => plan[p][at[p]] \in Revs
    /\ pc[p] = "submit" => hand[p].rev = plan[p][at[p]] /\ ~ByAck(at[p])
    /\ pc[p] \in {"settle", "commit"} => ByAck(at[p])
    /\ pc[p] \in {"verify", "mark"} => Reached(at[p], plan[p][at[p]])

CallInv(p) == SeenIsMarked(p) /\ PlannedSoFar(p) /\ MarkedSoFar(p) /\ AtHand(p)

IInv == TypeOK /\ (\A p \in Runners : CallInv(p)) /\ MarkedIsReached /\ NothingLeftOut

\* The next three: what is there stays there.
LEMMA Footprint ==
    ASSUME TypeOK, Next
    PROVE  \/ \E p \in Runners : Commits(p) \/ Submits(p) \/ Marks(p)
           \/ /\ UNCHANGED <<receipts, batch, lineage>>
              /\ \A v \in Events \X Revs : body[v] # NoMeta => body'[v] = body[v]
  <1>1. CASE Host
    <2>1. PICK e \in Events : HostPolls(e) \/ HostSettles(e) \/ HostSubmits(e)
      BY <1>1 DEF Host
    <2>2. UNCHANGED <<receipts, batch, lineage>>
      BY <2>1 DEF HostPolls, HostSettles, HostSubmits
    <2>3. ASSUME NEW v \in Events \X Revs, body[v] # NoMeta PROVE body'[v] = body[v]
      BY <2>1, <2>3 DEF HostPolls, HostSettles, HostSubmits, TypeOK
    <2>4. QED
      BY <2>2, <2>3
  <1>2. ASSUME NEW p \in Runners, Interrupted(p) \/ Calls(p)
        PROVE  UNCHANGED <<receipts, batch, lineage, body>>
    BY <1>2 DEF Interrupted, Calls, stores
  <1>3. ASSUME NEW p \in Runners, RunnerNext(p), ~(Commits(p) \/ Submits(p) \/ Marks(p))
        PROVE  UNCHANGED <<receipts, batch, lineage, body>>
    BY <1>3 DEF RunnerNext, stores, Plans, PlanBlocks, PlanDone, FinalDone, Rechecks,
       RecheckBlocks, Begins, Creates, Fills, Skips, Reads, Settles, Verifies, Completes
  <1>4. QED
    BY <1>1, <1>2, <1>3 DEF Next

LEMMA LineageGrows ==
    ASSUME TypeOK, Next, NEW f \in Fact, lineage[f] # NoRev
    PROVE  lineage'[f] = lineage[f]
  <1>1. CASE \E p \in Runners : Marks(p)
    <2>1. PICK p \in Runners : Marks(p)
      BY <1>1
    <2>2. at[p] \in Fact /\ lineage \in [Fact -> Revs \cup {NoRev}]
      BY <2>1 DEF Marks, AtFact, TypeOK
    <2>3. QED
      BY <2>1, <2>2 DEF Marks
  <1>2. CASE \E p \in Runners : Commits(p) \/ Submits(p)
    BY <1>2 DEF Commits, Submits
  <1>3. QED
    BY <1>1, <1>2, Footprint

LEMMA ReachedStays ==
    ASSUME TypeOK, \A p \in Runners : CallInv(p), Next,
           NEW f \in Fact, NEW r \in Revs, Reached(f, r)
    PROVE  Reached(f, r)'
  <1>n. r # NoRev
    BY HandoffSentinels
  <1>b. ~ByAck(f) => batch[f] \in Row /\ batch[f].meta \in Metas
                     /\ <<EventOf[f], r>> \in Events \X Revs
                     /\ body[<<EventOf[f], r>>] # NoMeta
    BY RowFields, FactsAreTyped, HandoffSentinels DEF Reached, TypeOK
  <1>1. ASSUME NEW p \in Runners, Commits(p) PROVE Reached(f, r)'
    <2>1. UNCHANGED <<batch, body>>
      BY <1>1 DEF Commits
    <2>2. ByAck(f) => receipts'[f] = r
      BY <1>1, <1>n DEF Commits, Reached, TypeOK
    <2>3. QED
      BY <2>1, <2>2 DEF Reached, ByAck
  <1>2. ASSUME NEW p \in Runners, Submits(p) PROVE Reached(f, r)'
    <2>h. /\ at[p] \in Fact /\ hand[p] \in Row /\ ~ByAck(at[p])
          /\ hand[p].rev \in Revs /\ hand[p].meta \in Metas /\ EventOf[at[p]] \in Events
      BY <1>2, RowFields, FactsAreTyped DEF Submits, AtFact, TypeOK, CallInv, AtHand
    <2>1. CASE ByAck(f)
      BY <1>2, <2>1 DEF Submits, Reached, ByAck
    <2>2. CASE ~ByAck(f) /\ Refused(at[p], hand[p])
      BY <1>2, <2>2 DEF Submits, Reached, ByAck
    <2>3. CASE ~ByAck(f) /\ ~Refused(at[p], hand[p])
      <3>0. /\ batch' = [batch EXCEPT ![at[p]] = hand[p]]
            /\ body' = [body EXCEPT ![<<EventOf[at[p]], hand[p].rev>>] = hand[p].meta]
        BY <1>2, <2>3 DEF Submits
      <3>1. CASE at[p] = f
        <4>1. batch[f] = hand[p]
          BY <2>3, <3>1 DEF Refused, Reached
        <4>2. batch'[f] = batch[f]
          BY <3>0, <4>1, <3>1 DEF TypeOK
        <4>3. body'[<<EventOf[f], r>>] = batch[f].meta
          BY <1>b, <2>3, <3>0, <3>1, <4>1 DEF TypeOK, Reached
        <4>4. QED
          BY <2>3, <4>2, <4>3 DEF Reached, ByAck
      <3>2. CASE at[p] # f
        <4>1. EventOf[at[p]] # EventOf[f]
          BY <2>h, <2>3, <3>2, OneItemPerEvent, FactsAreTyped DEF ByAck
        <4>2. batch'[f] = batch[f]
          BY <3>0, <3>2 DEF TypeOK
        <4>3. body'[<<EventOf[f], r>>] = body[<<EventOf[f], r>>]
          BY <1>b, <2>3, <3>0, <4>1 DEF TypeOK
        <4>4. QED
          BY <2>3, <4>2, <4>3 DEF Reached, ByAck
      <3>3. QED
        BY <3>1, <3>2
    <2>4. QED
      BY <2>1, <2>2, <2>3
  <1>3. ASSUME NEW p \in Runners, Marks(p) PROVE Reached(f, r)'
    BY <1>3 DEF Marks, Reached, ByAck
  <1>4. CASE /\ UNCHANGED <<receipts, batch, lineage>>
             /\ \A v \in Events \X Revs : body[v] # NoMeta => body'[v] = body[v]
    <2>1. CASE ByAck(f)
      BY <1>4, <2>1 DEF Reached, ByAck
    <2>2. CASE ~ByAck(f)
      BY <1>4, <1>b, <2>2 DEF Reached, ByAck
    <2>3. QED
      BY <2>1, <2>2
  <1>5. QED
    BY <1>1, <1>2, <1>3, <1>4, Footprint

-----------------------------------------------------------------------------
\* What the step of one call does to the invariant of another.
LEMMA OnlyOne ==
    ASSUME TypeOK, NEW p \in Runners, Calls(p) \/ RunnerNext(p) \/ Interrupted(p),
           NEW q \in Runners, q # p
    PROVE  UNCHANGED <<pc[q], at[q], plan[q], seen[q], hand[q]>>
  <1>1. CASE Calls(p) \/ Plans(p) \/ PlanBlocks(p) \/ PlanDone(p) \/ FinalDone(p)
    BY <1>1 DEF TypeOK, Calls, Plans, PlanBlocks, PlanDone, FinalDone, Goes, Ends, Restarts, Advances
  <1>2. CASE \/ Rechecks(p) \/ RecheckBlocks(p) \/ Begins(p) \/ Creates(p) \/ Fills(p)
             \/ Completes(p)
    BY <1>2 DEF TypeOK, Rechecks, RecheckBlocks, Begins, Creates, Fills, StartsToApply, Completes,
       Goes, Ends, Restarts, Advances
  <1>3. CASE Skips(p) \/ Reads(p) \/ Settles(p) \/ Commits(p)
    BY <1>3 DEF TypeOK, Skips, Reads, Settles, Commits, Goes, Ends, Advances
  <1>4. CASE Submits(p) \/ Verifies(p) \/ Marks(p) \/ Interrupted(p)
    BY <1>4 DEF TypeOK, Submits, Verifies, Marks, Interrupted, Goes, Ends, Advances
  <1>5. QED
    BY <1>1, <1>2, <1>3, <1>4 DEF RunnerNext

LEMMA StillInv ==
    ASSUME IInv, Next, NEW q \in Runners, UNCHANGED <<pc[q], at[q], plan[q], seen[q], hand[q]>>
    PROVE  CallInv(q)'
  <1>t. TypeOK /\ CallInv(q) /\ at[q] \in 1..N + 1
    BY DEF IInv, TypeOK
  <1>g. \A f \in Fact : lineage[f] # NoRev => lineage'[f] = lineage[f]
    BY <1>t, LineageGrows
  <1>1. SeenIsMarked(q)'
    BY <1>t, <1>g DEF CallInv, SeenIsMarked
  <1>2. PlannedSoFar(q)'
    BY <1>t DEF CallInv, PlannedSoFar
  <1>3. MarkedSoFar(q)'
    BY <1>t, <1>g DEF CallInv, MarkedSoFar
  <1>4. AtHand(q)'
    <2>1. pc[q] \in {"verify", "mark"} => Reached(at[q], plan[q][at[q]])'
      <3>1. SUFFICES ASSUME pc[q] \in {"verify", "mark"} PROVE Reached(at[q], plan[q][at[q]])'
        OBVIOUS
      <3>2. at[q] \in Fact /\ plan[q][at[q]] \in Revs /\ Reached(at[q], plan[q][at[q]])
        BY <1>t, <3>1 DEF CallInv, AtHand, Inner, TypeOK
      <3>3. \A f \in Fact, r \in Revs : Reached(f, r) => Reached(f, r)'
        BY <1>t, ReachedStays DEF IInv
      <3>4. at'[q] = at[q] /\ plan'[q] = plan[q]
        OBVIOUS
      <3>5. QED
        BY <3>2, <3>3, <3>4
    <2>2. QED
      BY <1>t, <2>1 DEF CallInv, AtHand, ByAck, Reached
  <1>5. QED
    BY <1>1, <1>2, <1>3, <1>4 DEF CallInv

LEMMA EndsInv ==
    ASSUME TypeOK, NEW p \in Runners, NEW how, Ends(p, how)
    PROVE  CallInv(p)'
  <1>1. pc'[p] = "idle" /\ seen'[p] = Unknown
    BY DEF Ends, Goes, TypeOK
  <1>2. QED
    BY <1>1 DEF CallInv, SeenIsMarked, PlannedSoFar, MarkedSoFar, AtHand, Unknown, Inner

\* A call that is about to plan, to plan again or to recheck.
LEMMA RestartsInv ==
    ASSUME TypeOK, TypeOK', NEW p \in Runners, NEW where \in {"plan", "recheck", "final"},
           Restarts(p, where), UNCHANGED lineage
    PROVE  CallInv(p)'
  <1>1. pc'[p] = where /\ at'[p] = 1 /\ seen'[p] = lineage'
    BY DEF Restarts, Goes, TypeOK
  <1>2. \A g \in Fact : ~(g < 1)
    BY FactsAreTyped DEF Fact
  <1>3. QED
    BY <1>1, <1>2 DEF CallInv, SeenIsMarked, PlannedSoFar, MarkedSoFar, AtHand, Inner

-----------------------------------------------------------------------------
\* What a call's own step does to its invariant.
LEMMA PlanInv ==
    ASSUME IInv, TypeOK', NEW p \in Runners,
           Calls(p) \/ Plans(p) \/ PlanBlocks(p) \/ PlanDone(p) \/ FinalDone(p)
    PROVE  CallInv(p)'
  <1>t. TypeOK /\ CallInv(p)
    BY DEF IInv
  <1>l. UNCHANGED lineage
    BY DEF Calls, Plans, PlanBlocks, PlanDone, FinalDone, stores
  <1>1. CASE Calls(p)
    BY <1>t, <1>l, <1>1, RestartsInv DEF Calls
  <1>2. CASE Plans(p)
    <2>1. /\ pc'[p] = pc[p] /\ pc[p] \in {"plan", "final"} /\ seen'[p] = seen[p]
          /\ at[p] \in Fact /\ at'[p] = at[p] + 1
      BY <1>t, <1>2 DEF Plans, Advances, TypeOK
    <2>2. \A g \in Fact : g # at[p] => plan'[p][g] = plan[p][g]
      BY <1>t, <1>2, <2>1 DEF Plans, TypeOK
    <2>3. seen[p][at[p]] = NoRev => plan'[p][at[p]] # NoRev
      <3>1. SUFFICES ASSUME seen[p][at[p]] = NoRev PROVE plan'[p][at[p]] # NoRev
        OBVIOUS
      <3>2. row[EventOf[at[p]]] \in Row
        BY <1>t, <1>2, <2>1, FactsAreTyped DEF Plans, Accepted, TypeOK
      <3>3. plan'[p][at[p]] = row[EventOf[at[p]]].rev
        BY <1>t, <1>2, <2>1, <3>1 DEF Plans, TypeOK
      <3>4. QED
        BY <3>2, <3>3, RowFields, HandoffSentinels
    <2>4. PlannedSoFar(p)'
      <3>1. ASSUME NEW g \in Fact, g < at[p] + 1 PROVE seen[p][g] # NoRev \/ plan'[p][g] # NoRev
        <4>1. g = at[p] \/ g < at[p]
          BY <2>1, <3>1, FactsAreTyped DEF Fact
        <4>2. QED
          BY <1>t, <2>1, <2>2, <2>3, <4>1 DEF CallInv, PlannedSoFar
      <3>2. QED
        BY <2>1, <3>1 DEF PlannedSoFar
    <2>5. SeenIsMarked(p)' /\ MarkedSoFar(p)' /\ AtHand(p)'
      BY <1>t, <1>l, <2>1 DEF CallInv, SeenIsMarked, MarkedSoFar, AtHand, Inner
    <2>6. QED
      BY <2>4, <2>5 DEF CallInv
  <1>3. CASE PlanBlocks(p)
    BY <1>t, <1>3, EndsInv DEF PlanBlocks
  <1>4. CASE PlanDone(p)
    <2>1. CASE plan[p] = Unknown
      BY <1>t, <1>4, <2>1, EndsInv DEF PlanDone
    <2>2. CASE plan[p] # Unknown /\ Readable
      BY <1>t, <1>l, <1>4, <2>2, RestartsInv DEF PlanDone
    <2>3. CASE plan[p] # Unknown /\ ~Readable
      BY <1>t, <1>4, <2>3, EndsInv DEF PlanDone
    <2>4. QED
      BY <2>1, <2>2, <2>3
  <1>5. CASE FinalDone(p)
    BY <1>t, <1>5, EndsInv DEF FinalDone
  <1>6. QED
    BY <1>1, <1>2, <1>3, <1>4, <1>5

LEMMA BeginInv ==
    ASSUME IInv, TypeOK', NEW p \in Runners,
           \/ Rechecks(p) \/ RecheckBlocks(p) \/ Begins(p) \/ Creates(p) \/ Fills(p)
           \/ Skips(p) \/ Completes(p)
    PROVE  CallInv(p)'
  <1>t. TypeOK /\ CallInv(p)
    BY DEF IInv
  <1>l. UNCHANGED lineage
    BY DEF Rechecks, RecheckBlocks, Begins, Creates, Fills, Skips, Completes, stores
  <1>0. \A g \in Fact : ~(g < 1)
    BY FactsAreTyped DEF Fact
  <1>1. CASE Rechecks(p)
    <2>1. pc'[p] = "recheck" /\ seen'[p] = seen[p]
      BY <1>t, <1>1 DEF Rechecks, AtFact
    <2>2. QED
      BY <1>t, <1>l, <2>1 DEF CallInv, SeenIsMarked, PlannedSoFar, MarkedSoFar, AtHand, Inner
  <1>2. CASE RecheckBlocks(p)
    BY <1>t, <1>2, EndsInv DEF RecheckBlocks
  <1>3. ASSUME seen'[p] = seen[p], pc'[p] \in {"create", "fill"} \/ (pc'[p] = "apply" /\ at'[p] = 1)
        PROVE  CallInv(p)'
    BY <1>t, <1>l, <1>0, <1>3 DEF CallInv, SeenIsMarked, PlannedSoFar, MarkedSoFar, AtHand, Inner
  <1>4. CASE Begins(p) \/ Fills(p)
    <2>1. seen'[p] = seen[p] /\ (pc'[p] = "create" \/ (pc'[p] = "apply" /\ at'[p] = 1))
      BY <1>t, <1>4 DEF Begins, Fills, StartsToApply, Goes, TypeOK
    <2>2. QED
      BY <1>3, <2>1
  <1>5. CASE Creates(p)
    <2>1. CASE Ends(p, "raised")
      BY <1>t, <2>1, EndsInv
    <2>2. CASE Goes(p, "fill") /\ UNCHANGED seen
      BY <1>t, <1>3, <2>2 DEF Goes, TypeOK
    <2>3. QED
      BY <1>5, <2>1, <2>2 DEF Creates
  <1>6. CASE Skips(p)
    <2>1. /\ pc'[p] = "apply" /\ pc[p] = "apply" /\ seen'[p] = seen[p] /\ at[p] \in Fact
          /\ at'[p] = at[p] + 1 /\ seen[p][at[p]] # NoRev
      BY <1>t, <1>6 DEF Skips, AtFact, Advances, TypeOK
    <2>2. ASSUME NEW g \in Fact, g < at[p] + 1 PROVE lineage[g] # NoRev
      <3>1. g = at[p] \/ g < at[p]
        BY <2>1, <2>2, FactsAreTyped DEF Fact
      <3>2. QED
        BY <1>t, <2>1, <3>1 DEF CallInv, SeenIsMarked, MarkedSoFar
    <2>3. QED
      BY <1>t, <1>l, <2>1, <2>2
      DEF CallInv, SeenIsMarked, PlannedSoFar, MarkedSoFar, AtHand, Inner
  <1>7. CASE Completes(p)
    BY <1>t, <1>l, <1>7, RestartsInv DEF Completes
  <1>8. QED
    BY <1>1, <1>2, <1>4, <1>5, <1>6, <1>7

\* A call that goes on with the fact at hand: only the last part can change.
LEMMA GoesInv ==
    ASSUME IInv, NEW p \in Runners, NEW where \in Inner, Goes(p, where),
           pc[p] \in Inner \cup {"apply"}, UNCHANGED <<at, plan, seen, lineage>>,
           AtHand(p)'
    PROVE  CallInv(p)'
  <1>1. pc'[p] = where
    BY DEF Goes, IInv, TypeOK
  <1>2. SeenIsMarked(p)' /\ PlannedSoFar(p)' /\ MarkedSoFar(p)'
    BY <1>1 DEF IInv, CallInv, SeenIsMarked, PlannedSoFar, MarkedSoFar, Inner
  <1>3. QED
    BY <1>2 DEF CallInv

LEMMA ReadInv ==
    ASSUME IInv, NEW p \in Runners, Reads(p) \/ Settles(p) \/ Verifies(p)
    PROVE  CallInv(p)'
  <1>t. TypeOK /\ CallInv(p) /\ at[p] \in Fact
    BY DEF IInv, Reads, Settles, Verifies, AtFact
  <1>l. UNCHANGED <<row, receipts, batch, body, lineage>>
    BY DEF Reads, Settles, Verifies, stores
  <1>e. ASSUME Ends(p, "raised") PROVE CallInv(p)'
    BY <1>t, <1>e, EndsInv
  <1>1. CASE Reads(p)
    <2>1. CASE RowIs(at[p], plan[p][at[p]])
      <3>1. pc[p] = "apply" /\ UNCHANGED <<at, plan, seen>>
        BY <1>1, <2>1 DEF Reads, AtFact
      <3>2. row[EventOf[at[p]]] \in Row /\ row[EventOf[at[p]]].rev = plan[p][at[p]]
        BY <1>t, <2>1, FactsAreTyped DEF RowIs, TypeOK
      <3>3. plan[p][at[p]] \in Revs
        BY <3>2, RowFields
      <3>4. CASE ByAck(at[p])
        <4>1. Goes(p, "settle") /\ pc'[p] = "settle"
          BY <1>t, <1>1, <2>1, <3>4 DEF Reads, Goes, TypeOK
        <4>2. AtHand(p)'
          BY <3>1, <3>3, <3>4, <4>1 DEF AtHand, ByAck
        <4>3. QED
          BY <1>l, <3>1, <4>1, <4>2, GoesInv DEF Inner
      <3>5. CASE ~ByAck(at[p])
        <4>1. Goes(p, "submit") /\ pc'[p] = "submit" /\ hand'[p] = row[EventOf[at[p]]]
          BY <1>t, <1>1, <2>1, <3>5 DEF Reads, Goes, TypeOK
        <4>2. AtHand(p)'
          BY <3>1, <3>2, <3>3, <3>5, <4>1 DEF AtHand, ByAck
        <4>3. QED
          BY <1>l, <3>1, <4>1, <4>2, GoesInv DEF Inner
      <3>6. QED
        BY <3>4, <3>5
    <2>2. CASE ~RowIs(at[p], plan[p][at[p]])
      BY <1>e, <1>1, <2>2 DEF Reads
    <2>3. QED
      BY <2>1, <2>2
  <1>2. CASE Settles(p)
    <2>0. pc[p] = "settle" /\ ByAck(at[p]) /\ plan[p][at[p]] \in Revs
      BY <1>t, <1>2 DEF Settles, AtFact, CallInv, AtHand, Inner
    <2>1. CASE receipts[at[p]] = plan[p][at[p]]
      <3>0. receipts[at[p]] # NoRev
        BY <2>0, <2>1, HandoffSentinels
      <3>g. Goes(p, "verify") /\ UNCHANGED <<at, plan, seen, hand>>
        BY <1>2, <2>1, <3>0 DEF Settles
      <3>1. pc'[p] = "verify" /\ Goes(p, "verify") /\ UNCHANGED <<at, plan, seen, hand>>
        BY <1>t, <3>g DEF Goes, TypeOK
      <3>2. AtHand(p)'
        BY <1>l, <2>0, <2>1, <3>1 DEF AtHand, ByAck, Reached
      <3>3. QED
        BY <1>l, <2>0, <3>1, <3>2, GoesInv DEF Inner
    <2>2. CASE receipts[at[p]] = NoRev /\ RowIs(at[p], plan[p][at[p]])
      <3>0. receipts[at[p]] # plan[p][at[p]]
        BY <2>0, <2>2, HandoffSentinels
      <3>1. Goes(p, "commit") /\ pc'[p] = "commit" /\ UNCHANGED <<at, plan, seen, hand>>
        BY <1>t, <1>2, <2>2, <3>0 DEF Settles, Goes, TypeOK
      <3>2. AtHand(p)'
        BY <2>0, <3>1 DEF AtHand, ByAck
      <3>3. QED
        BY <1>l, <2>0, <3>1, <3>2, GoesInv DEF Inner
    <2>3. CASE /\ receipts[at[p]] # plan[p][at[p]]
               /\ ~(receipts[at[p]] = NoRev /\ RowIs(at[p], plan[p][at[p]]))
      BY <1>e, <1>2, <2>3 DEF Settles
    <2>4. QED
      BY <2>1, <2>2, <2>3
  <1>3. CASE Verifies(p)
    <2>0. pc[p] = "verify" /\ plan[p][at[p]] \in Revs /\ Reached(at[p], plan[p][at[p]])
      BY <1>t, <1>3 DEF Verifies, AtFact, CallInv, AtHand, Inner
    <2>1. CASE Goes(p, "mark") /\ UNCHANGED <<at, plan, seen, hand, live, report>>
      <3>1. pc'[p] = "mark"
        BY <1>t, <2>1 DEF Goes, TypeOK
      <3>2. AtHand(p)'
        BY <1>l, <2>0, <2>1, <3>1 DEF AtHand, ByAck, Reached
      <3>3. QED
        BY <1>l, <2>0, <2>1, <3>2, GoesInv DEF Inner
    <2>2. QED
      BY <1>e, <1>3, <2>1 DEF Verifies
  <1>4. QED
    BY <1>1, <1>2, <1>3

LEMMA CommitInv ==
    ASSUME IInv, NEW p \in Runners, Commits(p)
    PROVE  CallInv(p)'
  <1>t. TypeOK /\ CallInv(p) /\ at[p] \in Fact /\ pc[p] = "commit"
    BY DEF IInv, Commits, AtFact
  <1>0. ByAck(at[p]) /\ plan[p][at[p]] \in Revs
    BY <1>t DEF CallInv, AtHand, Inner
  <1>1. CASE receipts[at[p]] = NoRev
    <2>1. /\ Goes(p, "verify") /\ pc'[p] = "verify" /\ UNCHANGED <<at, plan, seen, hand, lineage>>
          /\ receipts'[at[p]] = plan[p][at[p]]
      BY <1>t, <1>1 DEF Commits, Goes, TypeOK
    <2>2. AtHand(p)'
      BY <1>0, <2>1 DEF AtHand, ByAck, Reached
    <2>3. QED
      BY <1>t, <2>1, <2>2, GoesInv DEF Inner
  <1>2. CASE receipts[at[p]] # NoRev
    BY <1>t, <1>2, EndsInv DEF Commits
  <1>3. QED
    BY <1>1, <1>2

LEMMA SubmitInv ==
    ASSUME IInv, NEW p \in Runners, Submits(p)
    PROVE  CallInv(p)'
  <1>t. TypeOK /\ CallInv(p) /\ at[p] \in Fact /\ pc[p] = "submit"
    BY DEF IInv, Submits, AtFact
  <1>0. /\ ~ByAck(at[p]) /\ plan[p][at[p]] \in Revs /\ hand[p] \in Row
        /\ hand[p].rev = plan[p][at[p]] /\ <<EventOf[at[p]], hand[p].rev>> \in Events \X Revs
    BY <1>t, FactsAreTyped DEF CallInv, AtHand, Inner, TypeOK
  <1>1. CASE ~Refused(at[p], hand[p])
    <2>0. /\ Goes(p, "verify") /\ UNCHANGED <<at, plan, seen, hand, lineage>>
          /\ batch' = [batch EXCEPT ![at[p]] = hand[p]]
          /\ body' = [body EXCEPT ![<<EventOf[at[p]], hand[p].rev>>] = hand[p].meta]
      BY <1>1 DEF Submits
    <2>1. pc'[p] = "verify" /\ batch'[at[p]] = hand[p]
      BY <1>t, <2>0 DEF Goes, TypeOK
    <2>2. body'[<<EventOf[at[p]], hand[p].rev>>] = hand[p].meta
      BY <1>t, <1>0, <2>0 DEF TypeOK
    <2>3. AtHand(p)'
      BY <1>0, <2>0, <2>1, <2>2, HandoffSentinels DEF AtHand, ByAck, Reached
    <2>4. QED
      BY <1>t, <2>0, <2>3, GoesInv DEF Inner
  <1>2. CASE Refused(at[p], hand[p])
    BY <1>t, <1>2, EndsInv DEF Submits
  <1>3. QED
    BY <1>1, <1>2

LEMMA MarkInv ==
    ASSUME IInv, NEW p \in Runners, Marks(p)
    PROVE  CallInv(p)'
  <1>t. TypeOK /\ CallInv(p) /\ at[p] \in Fact /\ pc[p] = "mark"
    BY DEF IInv, Marks, AtFact
  <1>0. plan[p][at[p]] \in Revs /\ plan[p][at[p]] # NoRev
    BY <1>t, HandoffSentinels DEF CallInv, AtHand, Inner
  <1>1. CASE lineage[at[p]] \in {NoRev, plan[p][at[p]]}
    <2>1. /\ lineage' = [lineage EXCEPT ![at[p]] = plan[p][at[p]]] /\ pc'[p] = "apply"
          /\ at'[p] = at[p] + 1 /\ UNCHANGED <<plan, seen>>
      BY <1>t, <1>1 DEF Marks, Goes, Advances, TypeOK
    <2>2. lineage'[at[p]] = plan[p][at[p]]
      BY <1>t, <2>1 DEF TypeOK
    <2>3. \A g \in Fact : g # at[p] => lineage'[g] = lineage[g]
      BY <1>t, <2>1 DEF TypeOK
    <2>4. \A g \in Fact : lineage[g] # NoRev => lineage'[g] = lineage[g]
      BY <1>1, <2>2, <2>3
    <2>5. SeenIsMarked(p)'
      BY <1>t, <2>1, <2>4 DEF CallInv, SeenIsMarked
    <2>6. MarkedSoFar(p)'
      <3>1. ASSUME NEW g \in Fact, g < at[p] + 1 PROVE lineage'[g] # NoRev
        <4>1. g = at[p] \/ g < at[p]
          BY <1>t, <3>1, FactsAreTyped DEF Fact
        <4>2. QED
          BY <1>t, <1>0, <2>2, <2>4, <4>1 DEF CallInv, MarkedSoFar, Inner
      <3>2. QED
        BY <2>1, <3>1 DEF MarkedSoFar
    <2>7. PlannedSoFar(p)' /\ AtHand(p)'
      BY <2>1 DEF PlannedSoFar, AtHand, Inner
    <2>8. QED
      BY <2>5, <2>6, <2>7 DEF CallInv
  <1>2. CASE lineage[at[p]] \notin {NoRev, plan[p][at[p]]}
    BY <1>t, <1>2, EndsInv DEF Marks
  <1>3. QED
    BY <1>1, <1>2

LEMMA CallsInv ==
    ASSUME IInv, Next
    PROVE  \A q \in Runners : CallInv(q)'
  <1>t. TypeOK /\ TypeOK'
    BY TypesHold DEF IInv
  <1>1. ASSUME NEW q \in Runners, Host PROVE CallInv(q)'
    BY <1>1, StillInv DEF Host, locals
  <1>2. ASSUME NEW p \in Runners, Calls(p) \/ RunnerNext(p) \/ Interrupted(p) PROVE CallInv(p)'
    <2>1. CASE Interrupted(p)
      BY <1>t, <2>1, EndsInv DEF Interrupted
    <2>2. CASE Calls(p) \/ RunnerNext(p)
      BY <1>t, <2>2, PlanInv, BeginInv, ReadInv, CommitInv, SubmitInv, MarkInv DEF RunnerNext
    <2>3. QED
      BY <1>2, <2>1, <2>2
  <1>3. ASSUME NEW q \in Runners, NEW p \in Runners, q # p,
               Calls(p) \/ RunnerNext(p) \/ Interrupted(p)
        PROVE  CallInv(q)'
    <2>1. UNCHANGED <<pc[q], at[q], plan[q], seen[q], hand[q]>>
      BY <1>t, <1>3, OnlyOne
    <2>2. QED
      BY <2>1, StillInv
  <1>4. QED
    BY <1>1, <1>2, <1>3 DEF Next

-----------------------------------------------------------------------------
\* The safety invariants.
LEMMA MarkedStep ==
    ASSUME IInv, Next
    PROVE  MarkedIsReached'
  <1>t. TypeOK /\ \A p \in Runners : CallInv(p)
    BY DEF IInv
  <1>1. SUFFICES ASSUME NEW f \in Fact, lineage'[f] # NoRev PROVE Reached(f, lineage[f])'
    BY DEF MarkedIsReached, Reached, ByAck
  <1>2. CASE lineage[f] # NoRev
    <2>1. lineage[f] \in Revs /\ Reached(f, lineage[f])
      BY <1>t, <1>2 DEF TypeOK, IInv, MarkedIsReached
    <2>2. \A r \in Revs : Reached(f, r) => Reached(f, r)'
      BY <1>t, ReachedStays
    <2>3. lineage'[f] = lineage[f]
      BY <1>t, <1>2, LineageGrows
    <2>4. QED
      BY <2>1, <2>2, <2>3
  <1>3. CASE lineage[f] = NoRev
    <2>1. ~UNCHANGED lineage
      BY <1>1, <1>3
    <2>2. PICK p \in Runners : Marks(p)
      BY <1>t, <2>1, Footprint DEF Commits, Submits
    <2>3. at[p] \in Fact /\ Reached(at[p], plan[p][at[p]])
      BY <1>t, <2>2 DEF Marks, AtFact, CallInv, AtHand
    <2>4. f = at[p] /\ lineage'[f] = plan[p][at[p]]
      BY <1>t, <1>1, <1>3, <2>2, <2>3 DEF Marks, TypeOK
    <2>5. UNCHANGED <<receipts, batch, body>>
      BY <2>2 DEF Marks
    <2>6. QED
      BY <2>3, <2>4, <2>5 DEF Reached, ByAck
  <1>4. QED
    BY <1>2, <1>3

LEMMA LeftOutStep ==
    ASSUME IInv, Next
    PROVE  NothingLeftOut'
  <1>t. TypeOK /\ (\A p \in Runners : CallInv(p)) /\ N + 1 \in Nat /\ \A g \in Fact : g < N + 1
    BY FactsAreTyped DEF IInv, Fact
  <1>g. AllMarked => AllMarked'
    BY <1>t, LineageGrows DEF AllMarked
  <1>1. ASSUME NEW p \in Runners, Completes(p) PROVE AllMarked
    BY <1>t, <1>1 DEF Completes, AtEnd, CallInv, MarkedSoFar, AllMarked
  <1>2. ASSUME NEW p \in Runners, PlanDone(p) \/ FinalDone(p), plan[p] = Unknown PROVE AllMarked
    BY <1>t, <1>2
    DEF PlanDone, FinalDone, AtEnd, CallInv, PlannedSoFar, SeenIsMarked, AllMarked, Unknown
  <1>3. completed' # completed => \E p \in Runners : Completes(p)
    <2>1. CASE Host
      BY <2>1 DEF Host, HostPolls, HostSettles, HostSubmits
    <2>2. ASSUME NEW p \in Runners, Calls(p) \/ Interrupted(p) PROVE UNCHANGED completed
      BY <2>2 DEF Calls, Interrupted, stores
    <2>3. ASSUME NEW p \in Runners, RunnerNext(p), ~Completes(p) PROVE UNCHANGED completed
      BY <2>3 DEF RunnerNext, stores, Plans, PlanBlocks, PlanDone, FinalDone, Rechecks,
         RecheckBlocks, Begins, Creates, Fills, Skips, Reads, Settles, Commits, Submits, Verifies, Marks
    <2>4. QED
      BY <2>1, <2>2, <2>3 DEF Next
  <1>4. ASSUME NEW q \in Runners, report'[q] = "applied", report[q] # "applied"
        PROVE  \E p \in Runners : (PlanDone(p) \/ FinalDone(p)) /\ plan[p] = Unknown
    <2>1. CASE Host
      BY <1>4, <2>1 DEF Host, locals
    <2>2. ASSUME NEW p \in Runners, NEW how, how # "applied", Ends(p, how) PROVE FALSE
      BY <1>t, <1>4, <2>2 DEF Ends, TypeOK
    <2>3. ASSUME NEW p \in Runners, Calls(p) PROVE FALSE
      BY <1>t, <1>4, <2>3 DEF Calls, TypeOK
    <2>4. ASSUME NEW p \in Runners,
                 PlanBlocks(p) \/ RecheckBlocks(p) \/ Interrupted(p) PROVE FALSE
      BY <2>2, <2>4 DEF PlanBlocks, RecheckBlocks, Interrupted
    <2>5. ASSUME NEW p \in Runners, \/ Plans(p) \/ Rechecks(p) \/ Begins(p) \/ Fills(p)
                                    \/ Skips(p) \/ Completes(p)
          PROVE  FALSE
      BY <1>4, <2>5 DEF Plans, Rechecks, Begins, Fills, Skips, Completes
    <2>6. ASSUME NEW p \in Runners,
                 Creates(p) \/ Reads(p) \/ Settles(p) \/ Commits(p) \/ Submits(p) \/ Verifies(p)
                 \/ Marks(p)
          PROVE  FALSE
      <3>1. ~UNCHANGED report
        BY <1>4
      <3>2. Ends(p, "raised")
        BY <1>t, <2>6, <3>1
        DEF Creates, Reads, Settles, Commits, Submits, Verifies, Marks, TypeOK
      <3>3. QED
        BY <2>2, <3>2
    <2>7. ASSUME NEW p \in Runners, PlanDone(p) \/ FinalDone(p) PROVE plan[p] = Unknown
      <3>1. ~UNCHANGED report
        BY <1>4
      <3>2. QED
        BY <2>2, <2>7, <3>1 DEF PlanDone, FinalDone
    <2>8. QED
      BY <2>1, <2>3, <2>4, <2>5, <2>6, <2>7 DEF Next, RunnerNext
  <1>5. completed \/ (\E p \in Runners : report[p] = "applied") => AllMarked
    BY DEF IInv, NothingLeftOut, AllMarked
  <1>6. completed' \/ (\E p \in Runners : report'[p] = "applied") => AllMarked
    BY <1>1, <1>2, <1>3, <1>4, <1>5
  <1>7. QED
    BY <1>6, <1>g DEF NothingLeftOut, AllMarked

LEMMA InvHolds == IInv /\ [Next]_vars => IInv'
  <1>1. IInv /\ Next => IInv'
    BY TypesHold, CallsInv, MarkedStep, LeftOutStep DEF IInv
  <1>2. IInv /\ UNCHANGED vars => IInv'
    <2>1. SUFFICES ASSUME IInv, UNCHANGED vars PROVE IInv'
      OBVIOUS
    <2>2. TypeOK'
      BY <2>1, TypesHold DEF IInv
    <2>3. ASSUME NEW p \in Runners PROVE CallInv(p)'
      BY <2>1 DEF IInv, vars, stores, locals, CallInv, SeenIsMarked, PlannedSoFar, MarkedSoFar,
         AtHand, ByAck, Reached
    <2>4. MarkedIsReached'
      BY <2>1 DEF IInv, vars, stores, MarkedIsReached, ByAck, Reached
    <2>5. NothingLeftOut'
      BY <2>1 DEF IInv, vars, stores, locals, NothingLeftOut
    <2>6. QED
      BY <2>2, <2>3, <2>4, <2>5 DEF IInv
  <1>3. QED
    BY <1>1, <1>2

LEMMA InitInv == Init => IInv
  <1>1. SUFFICES ASSUME Init PROVE IInv
    OBVIOUS
  <1>2. \A p \in Runners : CallInv(p)
    BY <1>1 DEF Init, CallInv, SeenIsMarked, PlannedSoFar, MarkedSoFar, AtHand, Inner, Unknown
  <1>3. MarkedIsReached /\ NothingLeftOut
    BY <1>1 DEF Init, MarkedIsReached, NothingLeftOut, Unknown
  <1>4. QED
    BY <1>1, <1>2, <1>3, InitTypes DEF IInv

LEMMA AlwaysInv == Spec => []IInv
  BY InitInv, InvHolds, PTL DEF Spec

\* A marker names a target that is there, for the revision it was joined with,
\* wherever calls died, whatever the provider and other calls did meanwhile.
THEOREM MarkersAreReached == Spec => []MarkedIsReached
  <1>1. IInv => MarkedIsReached
    BY DEF IInv
  <1>2. QED
    BY <1>1, AlwaysInv, PTL

\* No completed attempt, and no report APPLIED, leaves a fact without its marker.
THEOREM NothingIsLeftOut == Spec => []NothingLeftOut
  <1>1. IInv => NothingLeftOut
    BY DEF IInv
  <1>2. QED
    BY <1>1, AlwaysInv, PTL

\* A call acks an item only with the first receipt of a fact about it.
LEMMA ReplayStep ==
    ASSUME IInv, Next, pc' # pc, NEW e \in Events, e \in acked' \ acked
    PROVE  \E f \in Fact : EventOf[f] = e /\ receipts[f] = NoRev /\ receipts'[f] # NoRev
  <1>1. PICK p \in Runners : Calls(p) \/ RunnerNext(p) \/ Interrupted(p)
    BY DEF Next, Host, locals
  <1>2. Commits(p)
    <2>1. ~UNCHANGED acked
      OBVIOUS
    <2>2. QED
      BY <1>1, <2>1 DEF RunnerNext, stores, Calls, Interrupted, Plans, PlanBlocks, PlanDone,
         FinalDone, Rechecks, RecheckBlocks, Begins, Creates, Fills, Skips, Reads, Settles, Submits,
         Verifies, Marks, Completes
  <1>3. /\ at[p] \in Fact /\ plan[p][at[p]] \in Revs /\ plan[p][at[p]] # NoRev
        /\ receipts \in [Fact -> Revs \cup {NoRev}]
    BY <1>2, HandoffSentinels DEF Commits, AtFact, IInv, TypeOK, CallInv, AtHand, Inner
  <1>4. receipts[at[p]] = NoRev /\ e = EventOf[at[p]]
    BY <1>2 DEF Commits
  <1>5. receipts'[at[p]] # NoRev
    BY <1>2, <1>3, <1>4 DEF Commits
  <1>6. QED
    BY <1>3, <1>4, <1>5

\* "Reuse a completed handoff without extending the provider ACK".
THEOREM ReplaysAddNoAck == Spec => ReplayAddsNoAck
  <1>1. IInv /\ [Next]_vars =>
          [\A e \in Events :
             pc' # pc /\ e \in acked' \ acked =>
                 \E f \in Fact : EventOf[f] = e /\ receipts[f] = NoRev /\ receipts'[f] # NoRev]_vars
    BY ReplayStep
  <1>2. QED
    BY <1>1, AlwaysInv, PTL DEF Spec, ReplayAddsNoAck

-----------------------------------------------------------------------------
\* The handoff implements HandoffLedger.
Targets == [f \in Fact |-> Target(f)]
Marked == {f \in Fact : lineage[f] # NoRev}

LEMMA LedgerStarts == Init => Ledger!LedgerInit
  BY DEF Init, Ledger!LedgerInit, Target, Unknown

LEMMA LedgerQuiet ==
    ASSUME UNCHANGED <<receipts, batch, lineage>>
    PROVE  UNCHANGED Ledger!ledgerVars
  BY DEF Ledger!ledgerVars, Target, ByAck

LEMMA CommitReaches ==
    ASSUME IInv, NEW p \in Runners, Commits(p)
    PROVE  [Ledger!LedgerNext]_(Ledger!ledgerVars)
  <1>1. CASE receipts[at[p]] # NoRev
    BY <1>1, LedgerQuiet DEF Commits
  <1>2. CASE receipts[at[p]] = NoRev
    <2>1. at[p] \in Fact /\ ByAck(at[p]) /\ plan[p][at[p]] \in Revs
      BY DEF Commits, AtFact, IInv, TypeOK, CallInv, AtHand, Inner
    <2>2. receipts' = [receipts EXCEPT ![at[p]] = plan[p][at[p]]] /\ UNCHANGED <<batch, lineage>>
      BY <1>2 DEF Commits
    <2>3. Targets[at[p]] = NoRev
      BY <1>2, <2>1 DEF Targets, Target
    <2>4. Targets' = [Targets EXCEPT ![at[p]] = plan[p][at[p]]]
      BY <2>1, <2>2 DEF Targets, Target, ByAck, IInv, TypeOK
    <2>5. UNCHANGED Marked
      BY <2>2 DEF Marked
    <2>6. Ledger!Reach(at[p])
      BY <2>1, <2>3, <2>4, <2>5 DEF Ledger!Reach, Targets, Marked
    <2>7. QED
      BY <2>1, <2>6 DEF Ledger!LedgerNext
  <1>3. QED
    BY <1>1, <1>2

LEMMA SubmitReaches ==
    ASSUME IInv, NEW p \in Runners, Submits(p)
    PROVE  [Ledger!LedgerNext]_(Ledger!ledgerVars)
  <1>0. at[p] \in Fact /\ ~ByAck(at[p]) /\ hand[p] \in Row /\ hand[p].rev \in Revs
    BY RowFields DEF Submits, AtFact, IInv, TypeOK, CallInv, AtHand, Inner
  <1>u. UNCHANGED <<receipts, lineage>>
    BY DEF Submits
  <1>b. batch \in [Fact -> Row \cup {NoRow}]
    BY DEF IInv, TypeOK
  <1>1. CASE Refused(at[p], hand[p])
    BY <1>1, <1>u, LedgerQuiet DEF Submits
  <1>2. CASE ~Refused(at[p], hand[p]) /\ batch[at[p]] # NoRow
    <2>1. batch' = [batch EXCEPT ![at[p]] = hand[p]] /\ batch[at[p]] = hand[p]
      BY <1>2 DEF Submits, Refused
    <2>2. batch' = batch
      BY <1>b, <2>1
    <2>3. QED
      BY <1>u, <2>2, LedgerQuiet
  <1>3. CASE ~Refused(at[p], hand[p]) /\ batch[at[p]] = NoRow
    <2>1. batch' = [batch EXCEPT ![at[p]] = hand[p]]
      BY <1>3 DEF Submits
    <2>2. Targets[at[p]] = NoRev
      BY <1>0, <1>3 DEF Targets, Target
    <2>3. Targets' = [Targets EXCEPT ![at[p]] = hand[p].rev]
      BY <1>0, <1>u, <1>b, <2>1, HandoffSentinels DEF Targets, Target, ByAck
    <2>4. UNCHANGED Marked
      BY <1>u DEF Marked
    <2>5. Ledger!Reach(at[p])
      BY <1>0, <2>2, <2>3, <2>4 DEF Ledger!Reach, Targets, Marked
    <2>6. QED
      BY <1>0, <2>5 DEF Ledger!LedgerNext
  <1>4. QED
    BY <1>1, <1>2, <1>3

LEMMA MarkMarks ==
    ASSUME IInv, NEW p \in Runners, Marks(p)
    PROVE  [Ledger!LedgerNext]_(Ledger!ledgerVars)
  <1>1. CASE lineage[at[p]] \notin {NoRev, plan[p][at[p]]}
    BY <1>1, LedgerQuiet DEF Marks
  <1>2. CASE lineage[at[p]] \in {NoRev, plan[p][at[p]]}
    <2>1. /\ at[p] \in Fact /\ plan[p][at[p]] \in Revs /\ plan[p][at[p]] # NoRev
          /\ Reached(at[p], plan[p][at[p]])
      BY HandoffSentinels DEF Marks, AtFact, IInv, TypeOK, CallInv, AtHand, Inner
    <2>2. lineage' = [lineage EXCEPT ![at[p]] = plan[p][at[p]]] /\ UNCHANGED <<receipts, batch>>
      BY <1>2 DEF Marks
    <2>3. Targets[at[p]] # NoRev
      BY <2>1 DEF Targets, Target, Reached
    <2>4. UNCHANGED Targets
      BY <2>2 DEF Targets, Target, ByAck
    <2>5. Marked' = Marked \cup {at[p]}
      BY <2>1, <2>2 DEF Marked, IInv, TypeOK
    <2>6. Ledger!Mark(at[p])
      BY <2>1, <2>3, <2>4, <2>5 DEF Ledger!Mark, Targets, Marked
    <2>7. Ledger!LedgerNext
      BY <2>1, <2>6 DEF Ledger!LedgerNext, Ledger!Mark
    <2>8. QED
      BY <2>7
  <1>3. QED
    BY <1>1, <1>2

\* Each fact reaches its target once, at one revision, and is marked after that.
THEOREM ImplementsLedger == Spec => LedgerSpec
  <1>1. IInv /\ [Next]_vars => [Ledger!LedgerNext]_(Ledger!ledgerVars)
    <2>1. SUFFICES ASSUME IInv, [Next]_vars PROVE [Ledger!LedgerNext]_(Ledger!ledgerVars)
      OBVIOUS
    <2>2. CASE \E p \in Runners : Commits(p) \/ Submits(p) \/ Marks(p)
      BY <2>1, <2>2, CommitReaches, SubmitReaches, MarkMarks
    <2>3. CASE UNCHANGED <<receipts, batch, lineage>>
      BY <2>3, LedgerQuiet
    <2>4. QED
      BY <2>1, <2>2, <2>3, Footprint DEF IInv, vars, stores
  <1>2. QED
    BY <1>1, LedgerStarts, AlwaysInv, PTL DEF Spec, LedgerSpec, Ledger!LedgerSpec


-----------------------------------------------------------------------------
(* The lineage database is whole before anything is handed over.             *)
Working == Inner \cup {"apply"}

FileInv ==
    /\ TypeOK
    /\ \A p \in Runners : pc[p] \in Working => file = "ready"
    /\ NothingBeforeLineage

LEMMA CallFile ==
    ASSUME FileInv, NEW p \in Runners, Calls(p) \/ RunnerNext(p) \/ Interrupted(p)
    PROVE  /\ file = "ready" => file' = "ready"
           /\ pc'[p] \in Working => file' = "ready"
           /\ \A q \in Runners \ {p} : pc'[q] = pc[q]
           /\ file # "ready" => UNCHANGED <<receipts, batch>>
  <1> USE DEF FileInv, TypeOK, Goes, Ends, Working, Inner
  <1>1. CASE Calls(p) \/ Interrupted(p)
    BY <1>1 DEF Calls, Interrupted, Restarts, stores
  <1>2. CASE Plans(p) \/ PlanBlocks(p) \/ PlanDone(p) \/ FinalDone(p)
    BY <1>2 DEF Plans, PlanBlocks, PlanDone, FinalDone, Restarts, AtEnd, stores
  <1>3. CASE Rechecks(p) \/ RecheckBlocks(p)
    BY <1>3 DEF Rechecks, RecheckBlocks, AtFact, stores
  <1>4. CASE Begins(p)
    BY <1>4 DEF Begins, StartsToApply, AtEnd
  <1>5. CASE Creates(p) \/ Fills(p)
    BY <1>5 DEF Creates, Fills, StartsToApply
  <1>6. CASE Skips(p) \/ Reads(p) \/ Settles(p)
    BY <1>6 DEF Skips, Reads, Settles, AtFact, stores
  <1>7. CASE Commits(p) \/ Submits(p)
    BY <1>7 DEF Commits, Submits, AtFact
  <1>8. CASE Verifies(p) \/ Marks(p) \/ Completes(p)
    BY <1>8 DEF Verifies, Marks, Completes, Restarts, AtFact, AtEnd, stores
  <1>9. QED
    BY <1>1, <1>2, <1>3, <1>4, <1>5, <1>6, <1>7, <1>8 DEF RunnerNext

LEMMA FileStep == FileInv /\ [Next]_vars => FileInv'
  <1>1. SUFFICES ASSUME FileInv, [Next]_vars PROVE FileInv'
    OBVIOUS
  <1>t. TypeOK'
    BY <1>1, TypesHold DEF FileInv
  <1>2. ASSUME NEW p \in Runners, Calls(p) \/ RunnerNext(p) \/ Interrupted(p) PROVE FileInv'
    <2>1. \A q \in Runners : pc'[q] \in Working => file' = "ready"
      BY <1>1, <1>2, CallFile DEF FileInv
    <2>2. NothingBeforeLineage'
      BY <1>1, <1>2, CallFile DEF FileInv, NothingBeforeLineage, Target, ByAck
    <2>3. QED
      BY <1>t, <2>1, <2>2 DEF FileInv
  <1>3. CASE Host
    <2>1. UNCHANGED <<receipts, batch, file, pc>>
      BY <1>3 DEF Host, HostPolls, HostSettles, HostSubmits, locals
    <2>2. QED
      BY <1>1, <1>t, <2>1 DEF FileInv, NothingBeforeLineage, Target, ByAck
  <1>4. CASE UNCHANGED vars
    BY <1>1, <1>t, <1>4 DEF vars, stores, locals, FileInv, NothingBeforeLineage, Target, ByAck
  <1>5. QED
    BY <1>1, <1>2, <1>3, <1>4 DEF Next

\* A fact has a target only if the lineage database is whole, wherever a call
\* died while it made it, and whoever called at the same time:
\* NothingBeforeLineage, of _initialize before the first adapter.apply.
THEOREM LineageComesFirst == Spec => []NothingBeforeLineage
  <1>1. Init => FileInv
    BY InitTypes DEF Init, FileInv, NothingBeforeLineage, Target, Unknown, Working, Inner
  <1>2. FileInv => NothingBeforeLineage
    BY DEF FileInv
  <1>3. QED
    BY <1>1, <1>2, FileStep, PTL DEF Spec

-----------------------------------------------------------------------------
(* What of ReplayFinishes is safety: every step of a call brings it nearer its *)
(* end, and a quiet host lets it through.                                     *)

\* What the operators the actions are made of do to the call's place.
LEMMA PlaceSteps ==
    ASSUME TypeOK, NEW p \in Runners
    PROVE  /\ \A w \in PC : Goes(p, w) => pc'[p] = w
           /\ Advances(p) => at'[p] = at[p] + 1
           /\ \A w \in PC : Restarts(p, w) => pc'[p] = w /\ at'[p] = 1
           /\ \A how \in {"none", "block", "raised", "applied"} : Ends(p, how) => pc'[p] = "idle"
           /\ at' = [at EXCEPT ![p] = 1] => at'[p] = 1
           /\ at[p] \in 1..N + 1 /\ N \in Nat
  BY FactsAreTyped DEF TypeOK, Goes, Advances, Restarts, Ends

LEMMA EndNears ==
    ASSUME NEW p \in Runners, pc[p] \in PC, pc[p] # "idle", pc'[p] = "idle"
    PROVE  Nearer(p)
  <1>1. Stages(p)' = 0
    BY DEF Stages
  <1>2. Stages(p) \in Nat /\ Stages(p) > 0
    BY DEF Stages
  <1>3. QED
    BY <1>1, <1>2 DEF Nearer

\* The same stage, one fact further.
LEMMA FactNears ==
    ASSUME TypeOK, NEW p \in Runners, UNCHANGED pc, Advances(p),
           pc[p] \in {"plan", "final", "recheck", "apply"}
    PROVE  Nearer(p)
  <1>1. at'[p] = at[p] + 1 /\ at[p] \in Nat /\ N \in Nat
    BY PlaceSteps
  <1>2. Stages(p)' = Stages(p)
    BY DEF Stages
  <1>3. StepsLeft(p)' = 5 * (N + 1 - (at[p] + 1)) - 0 /\ StepsLeft(p) = 5 * (N + 1 - at[p]) - 0
    BY <1>1 DEF StepsLeft
  <1>4. QED
    BY <1>1, <1>2, <1>3 DEF Nearer

\* The next stage.
LEMMA StageNears ==
    ASSUME NEW p \in Runners,
           \/ pc[p] = "plan" /\ pc'[p] = "recheck"
           \/ pc[p] = "recheck" /\ pc'[p] \in {"create", "apply"}
           \/ pc[p] = "create" /\ pc'[p] = "fill"
           \/ pc[p] = "fill" /\ pc'[p] = "apply"
           \/ pc[p] = "apply" /\ pc'[p] = "final"
    PROVE  Nearer(p)
  BY DEF Stages, Nearer

\* The same fact, one step further.
LEMMA InnerNears ==
    ASSUME TypeOK, NEW p \in Runners,
           \/ pc[p] = "apply" /\ pc'[p] \in {"settle", "submit"}
           \/ pc[p] = "settle" /\ pc'[p] \in {"commit", "verify"}
           \/ pc[p] \in {"commit", "submit"} /\ pc'[p] = "verify"
           \/ pc[p] = "verify" /\ pc'[p] = "mark",
           at'[p] = at[p]
    PROVE  Nearer(p)
  <1>1. at[p] \in Nat /\ N \in Nat
    BY PlaceSteps
  <1>2. Stages(p)' = 2 /\ Stages(p) = 2
    BY DEF Stages
  <1>3. StepsLeft(p)' < StepsLeft(p)
    BY <1>1 DEF StepsLeft
  <1>4. QED
    BY <1>2, <1>3 DEF Nearer

LEMMA RunnerNears ==
    ASSUME TypeOK, NEW p \in Runners, RunnerNext(p)
    PROVE  Nearer(p)
  <1>t. pc[p] \in PC
    BY DEF TypeOK
  <1>1. CASE Plans(p) \/ Rechecks(p) \/ Skips(p)
    BY <1>1, FactNears DEF Plans, Rechecks, Skips, AtFact
  <1>2. CASE PlanBlocks(p) \/ FinalDone(p) \/ RecheckBlocks(p)
    BY <1>t, <1>2, EndNears, PlaceSteps DEF PlanBlocks, FinalDone, RecheckBlocks, AtEnd, AtFact
  <1>3. CASE PlanDone(p)
    BY <1>t, <1>3, EndNears, StageNears, PlaceSteps DEF PlanDone, AtEnd, PC
  <1>4. CASE Begins(p)
    BY <1>4, StageNears, PlaceSteps DEF Begins, StartsToApply, AtEnd, PC
  <1>5. CASE Creates(p) \/ Fills(p) \/ Completes(p)
    BY <1>t, <1>5, EndNears, StageNears, PlaceSteps DEF Creates, Fills, StartsToApply, Completes, AtEnd, PC
  <1>6. CASE Reads(p) \/ Settles(p) \/ Commits(p) \/ Submits(p) \/ Verifies(p)
    <2>1. \/ Ends(p, "raised") /\ pc[p] # "idle"
          \/ /\ UNCHANGED at
             /\ \/ pc[p] = "apply" /\ pc'[p] \in {"settle", "submit"}
                \/ pc[p] = "settle" /\ pc'[p] \in {"commit", "verify"}
                \/ pc[p] \in {"commit", "submit"} /\ pc'[p] = "verify"
                \/ pc[p] = "verify" /\ pc'[p] = "mark"
      BY <1>6, PlaceSteps DEF Reads, Settles, Commits, Submits, Verifies, AtFact, PC
    <2>2. QED
      BY <1>t, <2>1, EndNears, InnerNears, PlaceSteps
  <1>7. CASE Marks(p)
    <2>1. CASE Ends(p, "raised")
      BY <1>t, <1>7, <2>1, EndNears, PlaceSteps DEF Marks, AtFact
    <2>2. CASE Goes(p, "apply") /\ Advances(p)
      <3>1. /\ pc[p] = "mark" /\ pc'[p] = "apply" /\ at'[p] = at[p] + 1
            /\ at[p] \in Nat /\ N \in Nat
        BY <1>7, <2>2, PlaceSteps DEF Marks, AtFact, PC
      <3>2. Stages(p)' = Stages(p)
        BY <3>1 DEF Stages
      <3>3. StepsLeft(p)' = 5 * (N + 1 - (at[p] + 1)) - 0 /\ StepsLeft(p) = 5 * (N + 1 - at[p]) - 4
        BY <3>1 DEF StepsLeft
      <3>4. QED
        BY <3>1, <3>2, <3>3 DEF Nearer
    <2>3. QED
      BY <1>7, <2>1, <2>2 DEF Marks
  <1>8. QED
    BY <1>1, <1>2, <1>3, <1>4, <1>5, <1>6, <1>7 DEF RunnerNext

\* A call cannot go on for ever, and nobody sends it back: CallsComeToAnEnd, of
\* apply_handoff's loops over the facts, whatever other calls and the host do.
THEOREM CallsEnd == Spec => CallsComeToAnEnd
  <1>1. ASSUME TypeOK, [Next]_vars, NEW p \in Runners, pc[p] # "idle"
        PROVE  Nearer(p) \/ (~RunnerNext(p) /\ UNCHANGED <<pc[p], at[p]>>)
    <2>1. CASE RunnerNext(p)
      BY <1>1, <2>1, RunnerNears
    <2>2. CASE Interrupted(p)
      BY <1>1, <2>2, EndNears, PlaceSteps DEF Interrupted, TypeOK
    <2>3. CASE ~RunnerNext(p) /\ ~Interrupted(p)
      <3>1. CASE Next /\ ~Host
        <4>1. PICK q \in Runners : Calls(q) \/ RunnerNext(q) \/ Interrupted(q)
          BY <3>1 DEF Next
        <4>2. q # p
          BY <1>1, <2>3, <4>1 DEF Calls
        <4>3. QED
          BY <1>1, <2>3, <4>1, <4>2, OnlyOne
      <3>2. CASE Host \/ UNCHANGED vars
        BY <2>3, <3>2 DEF Host, locals, vars
      <3>3. QED
        BY <1>1, <3>1, <3>2
    <2>4. QED
      BY <2>1, <2>2, <2>3
  <1>2. TypeOK /\ [Next]_vars =>
          [\A p \in Runners : pc[p] # "idle" =>
              Nearer(p) \/ (~RunnerNext(p) /\ UNCHANGED <<pc[p], at[p]>>)]_vars
    BY <1>1
  <1>3. QED
    BY <1>2, TypeCorrect, PTL DEF Spec, CallsComeToAnEnd

-----------------------------------------------------------------------------
\* A call past its plan remembers of each fact a marker or a plan.
Covers(p) ==
    pc[p] \in {"recheck", "create", "fill"} \cup Working =>
        \A f \in Fact : seen[p][f] # NoRev \/ plan[p][f] # NoRev

\* Where the host is quiet the provider's rows are what every store and every
\* call took them for.
StoresStand ==
    /\ \A f \in Fact :
          receipts[f] # NoRev => RowIs(f, receipts[f]) /\ (Supersede => EventOf[f] \in acked)
    /\ \A f \in Fact : batch[f] # NoRow => batch[f] = row[EventOf[f]]
    /\ \A e \in Events, r \in Revs : body[<<e, r>>] # NoMeta =>
          row[e] # NoRow /\ row[e].rev = r /\ row[e].meta = body[<<e, r>>]
    /\ file # "absent" => \A f \in Fact : row[EventOf[f]] # NoRow

CallStands(p) ==
    /\ \A f \in Fact : plan[p][f] # NoRev => RowIs(f, plan[p][f])
    /\ pc[p] = "submit" => hand[p] = row[EventOf[at[p]]]
    /\ pc[p] = "commit" /\ live[p] => EventOf[at[p]] \in acked

StandsStill == StoresStand /\ \A p \in Runners : CallStands(p)

QuietInv == (\A p \in Runners : Covers(p)) /\ (moves = 0 => StandsStill)

\* A call past its plan stays covered: it keeps plan and markers, and when it
\* reads the markers again it has at least those it had.
LEMMA CoversStep ==
    ASSUME IInv, NEW p \in Runners, Covers(p), Calls(p) \/ RunnerNext(p) \/ Interrupted(p)
    PROVE  Covers(p)'
  <1>t. TypeOK /\ CallInv(p)
    BY DEF IInv
  <1>1. CASE pc'[p] \in {"idle", "plan", "final"}
    BY <1>1 DEF Covers, Working, Inner
  <1>2. CASE PlanDone(p) /\ pc'[p] # "idle"
    <2>1. plan[p] # Unknown /\ Readable
      BY <1>t, <1>2, PlaceSteps DEF PlanDone
    <2>2. /\ AtEnd(p, "plan") /\ plan'[p] = plan[p] /\ seen'[p] = lineage
      BY <1>t, <1>2, <2>1 DEF PlanDone, Restarts, TypeOK
    <2>3. \A f \in Fact : f < at[p]
      BY <2>2, FactsAreTyped DEF AtEnd, Fact
    <2>4. ASSUME NEW f \in Fact PROVE seen'[p][f] # NoRev \/ plan'[p][f] # NoRev
      BY <1>t, <2>2, <2>3 DEF CallInv, PlannedSoFar, SeenIsMarked, AtEnd
    <2>5. QED
      BY <2>4 DEF Covers
  <1>3. CASE /\ pc[p] \in {"recheck", "create", "fill"} \cup Working
             /\ plan'[p] = plan[p] /\ seen'[p] = seen[p]
    BY <1>3 DEF Covers
  <1>4. \/ pc'[p] \in {"idle", "plan", "final"}
        \/ PlanDone(p)
        \/ /\ pc[p] \in {"recheck", "create", "fill"} \cup Working
           /\ plan'[p] = plan[p] /\ seen'[p] = seen[p]
    <2>1. CASE Calls(p) \/ Completes(p)
      BY <1>t, <2>1, PlaceSteps DEF Calls, Completes, PC
    <2>2. CASE Plans(p)
      BY <2>2 DEF Plans
    <2>3. CASE PlanBlocks(p) \/ FinalDone(p) \/ RecheckBlocks(p) \/ Interrupted(p)
      BY <1>t, <2>3, PlaceSteps DEF PlanBlocks, FinalDone, RecheckBlocks, Interrupted
    <2>4. CASE Rechecks(p) \/ Begins(p) \/ Creates(p) \/ Fills(p) \/ Skips(p)
      BY <1>t, <2>4, PlaceSteps
      DEF Rechecks, Begins, Creates, Fills, StartsToApply, Skips, AtFact, AtEnd, Working, TypeOK
    <2>5. CASE Reads(p) \/ Settles(p) \/ Commits(p)
      BY <1>t, <2>5, PlaceSteps DEF Reads, Settles, Commits, AtFact, Working, Inner
    <2>6. CASE Submits(p) \/ Verifies(p) \/ Marks(p)
      BY <1>t, <2>6, PlaceSteps DEF Submits, Verifies, Marks, AtFact, Working, Inner
    <2>7. QED
      BY <2>1, <2>2, <2>3, <2>4, <2>5, <2>6 DEF RunnerNext
  <1>5. QED
    BY <1>1, <1>2, <1>3, <1>4

\* What a target that is there says of the row, where the row stands still.
LEMMA ReachedStands ==
    ASSUME TypeOK, StoresStand, NEW f \in Fact, NEW r \in Revs, Reached(f, r)
    PROVE  RowIs(f, r) /\ Verified(f)
  <1>0. r # NoRev /\ EventOf[f] \in Events
    BY HandoffSentinels, FactsAreTyped
  <1>1. CASE ByAck(f)
    BY <1>0, <1>1 DEF Reached, StoresStand, Verified
  <1>2. CASE ~ByAck(f)
    <2>1. batch[f] # NoRow /\ batch[f] = row[EventOf[f]]
      BY <1>2 DEF Reached, StoresStand
    <2>2. row[EventOf[f]].rev = r /\ body[<<EventOf[f], r>>] = row[EventOf[f]].meta
      BY <1>2, <2>1 DEF Reached
    <2>3. QED
      BY <1>2, <2>1, <2>2 DEF RowIs, Verified
  <1>3. QED
    BY <1>1, <1>2

LEMMA MarkedStands ==
    ASSUME IInv, StoresStand, NEW f \in Fact, lineage[f] # NoRev
    PROVE  RowIs(f, lineage[f]) /\ Verified(f)
  <1>1. lineage[f] \in Revs /\ Reached(f, lineage[f])
    BY DEF IInv, TypeOK, MarkedIsReached
  <1>2. QED
    BY <1>1, ReachedStands DEF IInv

\* Past its plan a call has seen every row.
LEMMA CoveredRows ==
    ASSUME IInv, StandsStill, NEW p \in Runners, Covers(p),
           pc[p] \in {"recheck", "create", "fill"} \cup Working
    PROVE  \A f \in Fact : row[EventOf[f]] # NoRow
  <1>1. SUFFICES ASSUME NEW f \in Fact PROVE row[EventOf[f]] # NoRow
    OBVIOUS
  <1>2. CASE seen[p][f] # NoRev
    <2>1. lineage[f] # NoRev
      BY <1>2 DEF IInv, CallInv, SeenIsMarked
    <2>2. QED
      BY <2>1, MarkedStands DEF StandsStill, RowIs
  <1>3. CASE plan[p][f] # NoRev
    BY <1>3 DEF StandsStill, CallStands, RowIs
  <1>4. QED
    BY <1>2, <1>3 DEF Covers

-----------------------------------------------------------------------------
\* What a call leaves alone of the stores.
LEMMA CallFootprint ==
    ASSUME TypeOK, NEW p \in Runners, Calls(p) \/ RunnerNext(p) \/ Interrupted(p)
    PROVE  /\ row' = row /\ moves' = moves /\ acked \subseteq acked'
           /\ ~Commits(p) => UNCHANGED <<acked, receipts>>
           /\ ~Submits(p) => UNCHANGED <<batch, body>>
           /\ ~(Begins(p) \/ Creates(p) \/ Fills(p)) => UNCHANGED file
  <1>1. CASE Calls(p) \/ Interrupted(p)
    BY <1>1 DEF Calls, Interrupted, stores
  <1>2. CASE Plans(p) \/ PlanBlocks(p) \/ PlanDone(p) \/ FinalDone(p) \/ Rechecks(p)
             \/ RecheckBlocks(p)
    BY <1>2 DEF Plans, PlanBlocks, PlanDone, FinalDone, Rechecks, RecheckBlocks, stores
  <1>3. CASE Begins(p) \/ Creates(p) \/ Fills(p) \/ Completes(p) \/ Marks(p) \/ Submits(p)
    BY <1>3 DEF Begins, Creates, Fills, Completes, Marks, Submits
  <1>4. CASE Skips(p) \/ Reads(p) \/ Settles(p) \/ Verifies(p)
    BY <1>4 DEF Skips, Reads, Settles, Verifies, stores
  <1>5. CASE Commits(p)
    BY <1>5 DEF Commits
  <1>6. QED
    BY <1>1, <1>2, <1>3, <1>4, <1>5 DEF RunnerNext

LEMMA StoresStandStep ==
    ASSUME IInv, StandsStill, NEW p \in Runners, Covers(p),
           Calls(p) \/ RunnerNext(p) \/ Interrupted(p)
    PROVE  StoresStand'
  <1>t. TypeOK /\ CallInv(p) /\ CallStands(p) /\ StoresStand
    BY DEF IInv, StandsStill
  <1>f. row' = row /\ acked \subseteq acked'
    BY <1>t, CallFootprint
  <1>1. ASSUME NEW f \in Fact, receipts'[f] # NoRev
        PROVE  RowIs(f, receipts[f])' /\ (Supersede => EventOf[f] \in acked')
    <2>1. CASE receipts'[f] = receipts[f]
      BY <1>t, <1>f, <1>1, <2>1 DEF StoresStand, RowIs
    <2>2. CASE receipts'[f] # receipts[f]
      <3>1. Commits(p)
        BY <1>t, <2>2, CallFootprint
      <3>2. at[p] \in Fact /\ pc[p] = "commit" /\ plan[p][at[p]] \in Revs
        BY <1>t, <3>1 DEF Commits, AtFact, CallInv, AtHand, Inner
      <3>3. /\ f = at[p] /\ receipts'[f] = plan[p][f]
            /\ acked' = IF live[p] THEN acked ELSE acked \cup {EventOf[f]}
        BY <1>t, <2>2, <3>1, <3>2 DEF Commits, TypeOK
      <3>4. RowIs(f, plan[p][f])
        BY <1>t, <3>2, <3>3, HandoffSentinels DEF CallStands
      <3>5. EventOf[f] \in acked'
        BY <1>t, <3>2, <3>3 DEF CallStands
      <3>6. QED
        BY <1>f, <3>3, <3>4, <3>5 DEF RowIs
    <2>3. QED
      BY <2>1, <2>2
  <1>2. ASSUME NEW f \in Fact, batch'[f] # NoRow PROVE batch'[f] = row'[EventOf[f]]
    <2>1. CASE batch'[f] = batch[f]
      BY <1>t, <1>f, <1>2, <2>1 DEF StoresStand
    <2>2. CASE batch'[f] # batch[f]
      <3>1. Submits(p)
        BY <1>t, <2>2, CallFootprint
      <3>2. f = at[p] /\ batch'[f] = hand[p] /\ pc[p] = "submit"
        BY <1>t, <2>2, <3>1 DEF Submits, AtFact, TypeOK
      <3>3. QED
        BY <1>t, <1>f, <3>2 DEF CallStands
    <2>3. QED
      BY <2>1, <2>2
  <1>3. ASSUME NEW e \in Events, NEW r \in Revs, body'[<<e, r>>] # NoMeta
        PROVE  row'[e] # NoRow /\ row'[e].rev = r /\ row'[e].meta = body'[<<e, r>>]
    <2>1. CASE body'[<<e, r>>] = body[<<e, r>>]
      BY <1>t, <1>f, <1>3, <2>1 DEF StoresStand
    <2>2. CASE body'[<<e, r>>] # body[<<e, r>>]
      <3>1. Submits(p)
        BY <1>t, <2>2, CallFootprint
      <3>2. /\ pc[p] = "submit" /\ at[p] \in Fact /\ hand[p] \in Row
            /\ hand[p] = row[EventOf[at[p]]] /\ EventOf[at[p]] \in Events
        BY <1>t, <3>1, FactsAreTyped DEF Submits, AtFact, TypeOK, CallStands
      <3>3. body' = [body EXCEPT ![<<EventOf[at[p]], hand[p].rev>>] = hand[p].meta]
        BY <2>2, <3>1 DEF Submits
      <3>4. <<e, r>> \in Events \X Revs
        OBVIOUS
      <3>5. e = EventOf[at[p]] /\ r = hand[p].rev /\ body'[<<e, r>>] = hand[p].meta
        BY <1>t, <2>2, <3>3, <3>4 DEF TypeOK
      <3>6. hand[p] # NoRow
        BY <3>2, HandoffSentinels
      <3>7. QED
        BY <1>f, <3>2, <3>5, <3>6
    <2>3. QED
      BY <2>1, <2>2
  <1>4. ASSUME file' # "absent", NEW f \in Fact PROVE row'[EventOf[f]] # NoRow
    <2>1. CASE file' = file
      BY <1>t, <1>f, <1>4, <2>1 DEF StoresStand
    <2>2. CASE file' # file
      <3>1. Begins(p) \/ Creates(p) \/ Fills(p)
        BY <1>t, <2>2, CallFootprint
      <3>2. pc[p] \in {"recheck", "create", "fill"}
        BY <3>1 DEF Begins, Creates, Fills, AtEnd
      <3>3. QED
        BY <1>f, <3>2, CoveredRows
    <2>3. QED
      BY <2>1, <2>2
  <1>5. QED
    BY <1>1, <1>2, <1>3, <1>4 DEF StoresStand

LEMMA CallStandsStep ==
    ASSUME IInv, StandsStill, NEW p \in Runners, Calls(p) \/ RunnerNext(p) \/ Interrupted(p)
    PROVE  CallStands(p)'
  <1>t. TypeOK /\ CallStands(p) /\ row' = row /\ acked \subseteq acked'
    BY CallFootprint DEF IInv, StandsStill
  <1>1. ASSUME NEW f \in Fact, plan'[p][f] # NoRev PROVE RowIs(f, plan[p][f])'
    <2>1. CASE plan'[p][f] = plan[p][f]
      BY <1>t, <1>1, <2>1 DEF CallStands, RowIs
    <2>2. CASE Plans(p) /\ plan'[p][f] # plan[p][f]
      <3>1. /\ f = at[p] /\ seen[p][f] = NoRev /\ plan'[p][f] = row[EventOf[f]].rev
            /\ row[EventOf[f]] # NoRow
        BY <1>t, <1>1, <2>2 DEF Plans, Accepted, TypeOK
      <3>2. QED
        BY <1>t, <3>1 DEF RowIs
    <2>3. plan'[p] \in {plan[p], Unknown} \/ Plans(p)
      <3>1. CASE Calls(p) \/ PlanBlocks(p) \/ PlanDone(p) \/ FinalDone(p) \/ Interrupted(p)
        BY <1>t, <3>1 DEF TypeOK, Calls, PlanBlocks, PlanDone, FinalDone, Interrupted, Ends
      <3>2. CASE \/ Rechecks(p) \/ RecheckBlocks(p) \/ Begins(p) \/ Creates(p) \/ Fills(p)
                 \/ Skips(p)
        BY <1>t, <3>2 DEF TypeOK, Rechecks, RecheckBlocks, Begins, Creates, Fills, Skips, Ends
      <3>3. CASE Reads(p) \/ Settles(p) \/ Commits(p) \/ Submits(p)
        BY <1>t, <3>3 DEF TypeOK, Reads, Settles, Commits, Submits, Ends
      <3>4. CASE Verifies(p) \/ Marks(p) \/ Completes(p)
        BY <1>t, <3>4 DEF TypeOK, Verifies, Marks, Completes, Ends
      <3>5. QED
        BY <3>1, <3>2, <3>3, <3>4 DEF RunnerNext
    <2>4. QED
      BY <1>1, <2>1, <2>2, <2>3 DEF Unknown
  <1>2. /\ pc'[p] = "submit" => Reads(p)
        /\ pc'[p] = "commit" => Settles(p)
    <2>1. CASE Calls(p) \/ PlanBlocks(p) \/ PlanDone(p) \/ FinalDone(p) \/ Interrupted(p)
      BY <1>t, <2>1, PlaceSteps DEF Calls, PlanBlocks, PlanDone, FinalDone, Interrupted, PC
    <2>2. CASE Plans(p) \/ Rechecks(p) \/ Skips(p)
      BY <2>2 DEF Plans, Rechecks, Skips, AtFact
    <2>3. CASE RecheckBlocks(p) \/ Begins(p) \/ Creates(p) \/ Fills(p) \/ Completes(p)
      BY <1>t, <2>3, PlaceSteps DEF RecheckBlocks, Begins, Creates, Fills, StartsToApply, Completes, PC, TypeOK
    <2>4. CASE Commits(p) \/ Submits(p) \/ Verifies(p) \/ Marks(p)
      BY <1>t, <2>4, PlaceSteps DEF Commits, Submits, Verifies, Marks, PC
    <2>5. CASE Reads(p)
      BY <1>t, <2>5, PlaceSteps DEF Reads, PC
    <2>6. CASE Settles(p)
      BY <1>t, <2>6, PlaceSteps DEF Settles, PC
    <2>7. QED
      BY <2>1, <2>2, <2>3, <2>4, <2>5, <2>6 DEF RunnerNext
  <1>3. ASSUME pc'[p] = "submit" PROVE hand'[p] = row'[EventOf[at'[p]]]
    <2>1. Reads(p)
      BY <1>2, <1>3
    <2>2. hand'[p] = row[EventOf[at[p]]] /\ at' = at
      BY <1>t, <1>3, <2>1, PlaceSteps DEF Reads, TypeOK, PC
    <2>3. QED
      BY <1>t, <2>2
  <1>4. ASSUME pc'[p] = "commit", live'[p] PROVE EventOf[at'[p]] \in acked'
    <2>1. Settles(p)
      BY <1>2, <1>4
    <2>2. at' = at /\ live' = [live EXCEPT ![p] = EventOf[at[p]] \in acked]
      BY <1>t, <1>4, <2>1, PlaceSteps DEF Settles, PC
    <2>3. live'[p] = (EventOf[at[p]] \in acked)
      BY <1>t, <2>2, Zenon DEF TypeOK
    <2>4. QED
      BY <1>t, <1>4, <2>2, <2>3
  <1>5. QED
    BY <1>1, <1>3, <1>4 DEF CallStands

LEMMA LiveStays ==
    ASSUME TypeOK, NEW p \in Runners, Calls(p) \/ RunnerNext(p) \/ Interrupted(p),
           NEW q \in Runners, q # p
    PROVE  live'[q] = live[q]
  <1>1. CASE Calls(p) \/ PlanBlocks(p) \/ PlanDone(p) \/ FinalDone(p) \/ Interrupted(p)
    BY <1>1 DEF TypeOK, Calls, PlanBlocks, PlanDone, FinalDone, Interrupted, Ends
  <1>2. CASE \/ Plans(p) \/ Rechecks(p) \/ RecheckBlocks(p) \/ Begins(p) \/ Creates(p)
             \/ Fills(p) \/ Skips(p)
    BY <1>2 DEF TypeOK, Plans, Rechecks, RecheckBlocks, Begins, Creates, Fills, Skips, Ends
  <1>3. CASE Reads(p) \/ Settles(p) \/ Commits(p) \/ Submits(p)
    BY <1>3 DEF TypeOK, Reads, Settles, Commits, Submits, Ends
  <1>4. CASE Verifies(p) \/ Marks(p) \/ Completes(p)
    BY <1>4 DEF TypeOK, Verifies, Marks, Completes, Ends
  <1>5. QED
    BY <1>1, <1>2, <1>3, <1>4 DEF RunnerNext

LEMMA QuietStep == IInv /\ QuietInv /\ [Next]_vars => QuietInv'
  <1>1. SUFFICES ASSUME IInv, QuietInv, [Next]_vars PROVE QuietInv'
    OBVIOUS
  <1>t. TypeOK
    BY <1>1 DEF IInv
  <1>2. ASSUME NEW p \in Runners, Calls(p) \/ RunnerNext(p) \/ Interrupted(p) PROVE QuietInv'
    <2>1. row' = row /\ moves' = moves /\ acked \subseteq acked'
      BY <1>t, <1>2, CallFootprint
    <2>2. ASSUME NEW q \in Runners, q # p
          PROVE  /\ UNCHANGED <<pc[q], at[q], plan[q], seen[q], hand[q], live[q]>>
                 /\ CallStands(q) => CallStands(q)'
                 /\ Covers(q) => Covers(q)'
      <3>1. UNCHANGED <<pc[q], at[q], plan[q], seen[q], hand[q], live[q]>>
        BY <1>t, <1>2, <2>2, OnlyOne, LiveStays
      <3>2. Covers(q) => Covers(q)'
        BY <3>1 DEF Covers
      <3>3. CallStands(q) => CallStands(q)'
        BY <2>1, <3>1 DEF CallStands, RowIs
      <3>4. QED
        BY <3>1, <3>2, <3>3
    <2>3. \A q \in Runners : Covers(q)'
      BY <1>1, <1>2, <2>2, CoversStep DEF QuietInv
    <2>4. ASSUME moves = 0 PROVE StandsStill'
      <3>1. StandsStill /\ Covers(p)
        BY <1>1, <2>4 DEF QuietInv
      <3>2. StoresStand'
        BY <1>1, <1>2, <3>1, StoresStandStep
      <3>3. \A q \in Runners : CallStands(q)'
        BY <1>1, <1>2, <2>2, <3>1, CallStandsStep DEF StandsStill
      <3>4. QED
        BY <3>2, <3>3 DEF StandsStill
    <2>5. QED
      BY <2>1, <2>3, <2>4 DEF QuietInv
  <1>3. CASE Host
    <2>1. moves' # 0 /\ UNCHANGED <<pc, plan, seen>>
      BY <1>t, <1>3 DEF Host, locals, TypeOK
    <2>2. QED
      BY <1>1, <2>1 DEF QuietInv, Covers
  <1>4. CASE UNCHANGED vars
    BY <1>1, <1>4 DEF vars, stores, locals, QuietInv, Covers, StandsStill, StoresStand, CallStands,
       RowIs
  <1>5. QED
    BY <1>1, <1>2, <1>3, <1>4 DEF Next

LEMMA QuietHolds == Spec => [](IInv /\ QuietInv)
  <1>1. Init => QuietInv
    <2>1. SUFFICES ASSUME Init PROVE QuietInv
      OBVIOUS
    <2>2. \A p \in Runners : Covers(p) /\ CallStands(p)
      BY <2>1 DEF Init, Covers, CallStands, Working, Inner, Unknown
    <2>3. StoresStand
      BY <2>1 DEF Init, StoresStand, Unknown
    <2>4. QED
      BY <2>2, <2>3 DEF QuietInv, StandsStill
  <1>2. QED
    BY <1>1, AlwaysInv, QuietStep, PTL DEF Spec

-----------------------------------------------------------------------------
\* What a call reports when it ends badly, by action.
LEMMA QuietReports ==
    ASSUME IInv, StandsStill, file = "ready", NEW p \in Runners, Covers(p),
           Calls(p) \/ RunnerNext(p) \/ Interrupted(p),
           ~Creates(p), ~(Commits(p) /\ receipts[at[p]] # NoRev)
    PROVE  report'[p] \in {report[p], "none", "applied"}
  <1>t. TypeOK /\ CallInv(p) /\ CallStands(p) /\ StoresStand
    BY DEF IInv, StandsStill
  <1>e. \A how \in {"none", "applied"} : Ends(p, how) => report'[p] = how
    BY <1>t DEF Ends, TypeOK
  <1>m. \A f \in Fact : lineage[f] # NoRev => RowIs(f, lineage[f]) /\ Verified(f)
    BY <1>t, MarkedStands
  <1>1. CASE Calls(p) \/ PlanDone(p) \/ FinalDone(p) \/ Interrupted(p)
    BY <1>t, <1>e, <1>1 DEF Calls, PlanDone, Readable, FinalDone, Interrupted, TypeOK
  <1>2. CASE Plans(p) \/ Rechecks(p) \/ Fills(p) \/ Skips(p) \/ Completes(p)
    BY <1>2 DEF Plans, Rechecks, Fills, Skips, Completes
  <1>3. ~PlanBlocks(p)
    <2>1. SUFFICES ASSUME PlanBlocks(p) PROVE FALSE
      OBVIOUS
    <2>2. at[p] \in Fact /\ row[EventOf[at[p]]] # NoRow
      BY <1>t, <2>1 DEF PlanBlocks, StoresStand
    <2>3. seen[p][at[p]] # NoRev => lineage[at[p]] = seen[p][at[p]]
      BY <1>t, <2>2 DEF CallInv, SeenIsMarked
    <2>4. QED
      BY <1>m, <2>1, <2>2, <2>3 DEF PlanBlocks, Accepted
  <1>4. ~RecheckBlocks(p)
    BY <1>t DEF RecheckBlocks, AtFact, Covers, CallStands
  <1>5. CASE Begins(p)
    BY <1>5 DEF Begins
  <1>6. CASE Reads(p)
    <2>1. at[p] \in Fact /\ plan[p][at[p]] # NoRev
      BY <1>6 DEF Reads, AtFact, Covers, Working
    <2>2. RowIs(at[p], plan[p][at[p]])
      BY <1>t, <2>1 DEF CallStands
    <2>3. QED
      BY <1>6, <2>2 DEF Reads
  <1>7. ASSUME pc[p] \in Inner, at[p] \in Fact
        PROVE  plan[p][at[p]] \in Revs /\ plan[p][at[p]] # NoRev /\ RowIs(at[p], plan[p][at[p]])
    BY <1>t, <1>7, HandoffSentinels DEF CallInv, AtHand, CallStands
  <1>8. CASE Settles(p)
    <2>1. at[p] \in Fact /\ RowIs(at[p], plan[p][at[p]])
      BY <1>7, <1>8 DEF Settles, AtFact, Inner
    <2>2. receipts[at[p]] # NoRev => receipts[at[p]] = plan[p][at[p]]
      BY <1>t, <2>1 DEF StoresStand, RowIs
    <2>3. QED
      BY <1>8, <2>1, <2>2 DEF Settles
  <1>9. CASE Commits(p)
    BY <1>9 DEF Commits
  <1>10. CASE Submits(p)
    <2>1. /\ at[p] \in Fact /\ hand[p] = row[EventOf[at[p]]] /\ hand[p] \in Row
          /\ EventOf[at[p]] \in Events /\ hand[p].rev \in Revs
      BY <1>t, <1>10, RowFields, FactsAreTyped DEF Submits, AtFact, CallStands, TypeOK
    <2>2. ~Refused(at[p], hand[p])
      BY <1>t, <2>1 DEF StoresStand, Refused
    <2>3. QED
      BY <1>10, <2>2 DEF Submits
  <1>11. CASE Verifies(p)
    <2>1. /\ at[p] \in Fact /\ plan[p][at[p]] \in Revs /\ RowIs(at[p], plan[p][at[p]])
          /\ Reached(at[p], plan[p][at[p]])
      BY <1>t, <1>7, <1>11 DEF Verifies, AtFact, Inner, CallInv, AtHand
    <2>2. Verified(at[p])
      BY <1>t, <2>1, ReachedStands
    <2>3. QED
      BY <1>11, <2>1, <2>2 DEF Verifies
  <1>12. CASE Marks(p)
    <2>1. at[p] \in Fact /\ RowIs(at[p], plan[p][at[p]])
      BY <1>7, <1>12 DEF Marks, AtFact, Inner
    <2>2. lineage[at[p]] \in {NoRev, plan[p][at[p]]}
      BY <1>m, <2>1 DEF RowIs
    <2>3. QED
      BY <1>12, <2>2 DEF Marks
  <1>13. QED
    BY <1>1, <1>2, <1>3, <1>4, <1>5, <1>6, <1>8, <1>9, <1>10, <1>11, <1>12 DEF RunnerNext

LEMMA ReportStays ==
    ASSUME TypeOK, NEW p \in Runners, Calls(p) \/ RunnerNext(p) \/ Interrupted(p),
           NEW q \in Runners, q # p
    PROVE  report'[q] = report[q]
  <1>1. CASE Calls(p) \/ PlanBlocks(p) \/ PlanDone(p) \/ FinalDone(p) \/ Interrupted(p)
    BY <1>1 DEF TypeOK, Calls, PlanBlocks, PlanDone, FinalDone, Interrupted, Ends
  <1>2. CASE Plans(p) \/ Rechecks(p) \/ Begins(p) \/ Fills(p) \/ Skips(p)
    BY <1>2 DEF Plans, Rechecks, Begins, Fills, Skips
  <1>3. CASE RecheckBlocks(p)
    BY <1>3 DEF TypeOK, RecheckBlocks, Ends
  <1>4. CASE Creates(p)
    <2>1. report' = report \/ Ends(p, "raised")
      BY <1>4 DEF Creates
    <2>2. QED
      BY <2>1 DEF TypeOK, Ends
  <1>5. CASE Reads(p) \/ Settles(p) \/ Commits(p) \/ Submits(p)
    BY <1>5 DEF TypeOK, Reads, Settles, Commits, Submits, Ends
  <1>6. CASE Verifies(p) \/ Marks(p) \/ Completes(p)
    BY <1>6 DEF TypeOK, Verifies, Marks, Completes, Ends
  <1>7. QED
    BY <1>1, <1>2, <1>3, <1>4, <1>5, <1>6 DEF RunnerNext

\* What dead calls left is in nobody's way: QuietCallsGoThrough. Where the host
\* is quiet every look of apply_handoff at the provider, Content and the markers
\* comes out as planned, and only the unique key of a receipt, or the
\* schema, can still stop a call, in the step in which another call was faster.
THEOREM QuietCallsAreThrough == Spec => QuietCallsGoThrough
  <1>1. ASSUME IInv, QuietInv, Next, file = "ready", moves' = 0, NEW p \in Runners,
               report'[p] # report[p], report'[p] \in {"block", "raised"}
        PROVE  pc[p] = "create" \/ (pc[p] = "commit" /\ receipts[at[p]] # NoRev)
    <2>t. TypeOK
      BY <1>1 DEF IInv
    <2>1. PICK q \in Runners : Calls(q) \/ RunnerNext(q) \/ Interrupted(q)
      BY <1>1, <2>t DEF Next, Host, TypeOK
    <2>2. q = p
      BY <1>1, <2>t, <2>1, ReportStays
    <2>3. moves = 0
      BY <1>1, <2>t, <2>1, CallFootprint
    <2>4. StandsStill /\ Covers(p)
      BY <1>1, <2>3 DEF QuietInv
    <2>5. Creates(p) \/ (Commits(p) /\ receipts[at[p]] # NoRev)
      BY <1>1, <2>1, <2>2, <2>4, QuietReports
    <2>6. QED
      BY <2>5 DEF Creates, Commits, AtFact
  <1>2. IInv /\ QuietInv /\ [Next]_vars =>
          [file = "ready" /\ moves' = 0 =>
             \A p \in Runners :
                report'[p] # report[p] /\ report'[p] \in {"block", "raised"} =>
                   pc[p] = "create" \/ (pc[p] = "commit" /\ receipts[at[p]] # NoRev)]_vars
    BY <1>1
  <1>3. QED
    BY <1>2, QuietHolds, PTL DEF Spec, QuietCallsGoThrough

-----------------------------------------------------------------------------
(* The inventory the facts come from.                                       *)

\* The tables of the old database, with the keys they have.
WakeInv ==
    /\ DOMAIN reservoir \subseteq Nat
    /\ pending \in Seq(Pending)
    /\ \A k, l \in DOMAIN pending :
          /\ pending[k].source = pending[l].source
          /\ pending[k].event = pending[l].event
          /\ pending[k].item = pending[l].item
          => k = l

LEMMA WakeHolds == WakeSpec => []WakeInv
  <1>1. WakeInit => WakeInv
    BY DEF WakeInit, WakeInv
  <1>2. ASSUME WakeInv, [WakeNext]_wakeVars
        PROVE  WakeInv'
    <2>1. CASE WakeHasRow
      BY <1>2, <2>1, ItemsAreNumbers DEF WakeInv, WakeHasRow
    <2>2. CASE WakeHasAck
      <3>1. PICK w \in OldAcks :
              /\ \A k \in DOMAIN pending :
                    <<pending[k].source, pending[k].event, pending[k].item>>
                        # <<w.source, w.event, w.item>>
              /\ pending' = Append(pending, w)
        BY <2>2 DEF WakeHasAck
      <3>2. w \in Pending /\ pending \in Seq(Pending)
        BY <1>2, OldIsTyped DEF WakeInv
      <3>3. /\ pending' \in Seq(Pending)
            /\ DOMAIN pending' = 1..Len(pending) + 1
            /\ DOMAIN pending = 1..Len(pending)
            /\ Len(pending) \in Nat
            /\ \A k \in DOMAIN pending : pending'[k] = pending[k]
            /\ pending'[Len(pending) + 1] = w
        BY <3>1, <3>2
      <3>4. reservoir' = reservoir
        BY <2>2 DEF WakeHasAck
      <3>5. ASSUME NEW k \in DOMAIN pending', NEW l \in DOMAIN pending',
                   pending'[k].source = pending'[l].source,
                   pending'[k].event = pending'[l].event,
                   pending'[k].item = pending'[l].item
            PROVE  k = l
        <4>1. CASE k \in DOMAIN pending /\ l \in DOMAIN pending
          BY <1>2, <3>3, <3>5, <4>1 DEF WakeInv
        <4>2. CASE k \notin DOMAIN pending /\ l \in DOMAIN pending
          BY <3>1, <3>3, <3>5, <4>2
        <4>3. CASE k \in DOMAIN pending /\ l \notin DOMAIN pending
          BY <3>1, <3>3, <3>5, <4>3
        <4> QED BY <3>3, <4>1, <4>2, <4>3
      <3> QED BY <1>2, <3>3, <3>4, <3>5 DEF WakeInv
    <2>3. CASE UNCHANGED wakeVars
      BY <1>2, <2>3 DEF WakeInv, wakeVars
    <2> QED BY <1>2, <2>1, <2>2, <2>3 DEF WakeNext
  <1> QED BY <1>1, <1>2, PTL DEF WakeSpec

\* Where nothing of Feed's is a block, an event belongs to one row at the most.
LEMMA OneRowPerEvent ==
    ASSUME WakeInv, \A i \in Ours : ItemReason(i) = "none",
           NEW i \in Ours, NEW j \in Ours, reservoir[i].event = reservoir[j].event
    PROVE  i = j
  <1>1. i \in Nat /\ j \in Nat
    BY DEF Ours, WakeInv
  <1>2. ASSUME NEW k \in Ours, NEW l \in Ours, reservoir[k].event = reservoir[l].event, l < k
        PROVE  FALSE
    <2>1. Repeats(k)
      BY <1>2 DEF Repeats
    <2> QED BY <1>2, <2>1 DEF ItemReason
  <1> QED BY <1>1, <1>2

\* For any tables an old release left, as long as their keys are unique: an
\* inventory without blocks has everything of Feed's that is open, and each
\* event once per kind.
THEOREM InventoriesAreExact == WakeSpec => []InventoryIsExact
  <1>1. ASSUME WakeInv PROVE InventoryIsExact
    <2> SUFFICES ASSUME Inventory.blocks = {} PROVE InventoryIsExact!2
      BY DEF InventoryIsExact
    <2>1. schema = "whole" /\ Blocks = {} /\ Inventory.facts = ItemFacts \cup AckFacts
      BY DEF Inventory
    <2>2. \A i \in Ours : ItemReason(i) = "none"
      BY <2>1 DEF Blocks
    <2>3. \A k \in PendingOurs : AckReason(k) = "none"
      BY <2>1 DEF Blocks
    <2>4. ASSUME NEW i \in DOMAIN reservoir
          PROVE  LET r == reservoir[i]
                 IN  (<<"item", i, r.event>> \in Inventory.facts)
                         <=> /\ r.status = "unread" /\ r.event # NoId
                             /\ (r.ack = Feed \/ (r.ack = NoId /\ r.source = Feed))
      <3>1. <<"item", i, reservoir[i].event>> \in Inventory.facts
                <=> i \in Ours /\ reservoir[i].status = "unread"
        BY <2>1, <2>2 DEF ItemFacts, AckFacts
      <3> QED BY <3>1, InventorySentinels DEF Ours, IsOurs, OwnerOf
    <2>5. ASSUME NEW k \in DOMAIN pending, pending[k].source = Feed, pending[k].event # NoId
          PROVE  <<"ack", k, pending[k].event>> \in Inventory.facts
      BY <2>1, <2>3, <2>5 DEF PendingOurs, AckFacts
    <2>6. ASSUME NEW k \in PendingOurs
          PROVE  /\ pending[k].item \in Ours
                 /\ reservoir[pending[k].item].event = pending[k].event
      <3>1. AckReason(k) = "none"
        BY <2>3
      <3>2. /\ pending[k].item \in DOMAIN reservoir
            /\ OwnerOf(reservoir[pending[k].item]) = Feed
            /\ reservoir[pending[k].item].event = pending[k].event
        BY <3>1 DEF AckReason
      <3> QED BY <3>2 DEF PendingOurs, Ours, IsOurs
    <2>7. ASSUME NEW f \in Inventory.facts, NEW g \in Inventory.facts, f[1] = g[1], f[3] = g[3]
          PROVE  f = g
      <3>1. CASE f \in ItemFacts /\ g \in ItemFacts
        BY <1>1, <2>2, <2>7, <3>1, OneRowPerEvent DEF ItemFacts
      <3>2. CASE f \in AckFacts /\ g \in AckFacts
        <4>1. PICK k \in PendingOurs : f = <<"ack", k, pending[k].event>>
          BY <3>2 DEF AckFacts
        <4>2. PICK l \in PendingOurs : g = <<"ack", l, pending[l].event>>
          BY <3>2 DEF AckFacts
        <4>3. pending[k].event = pending[l].event
          BY <2>7, <4>1, <4>2
        <4>4. pending[k].item = pending[l].item
          BY <1>1, <2>2, <2>6, <4>3, OneRowPerEvent
        <4>5. k = l
          BY <1>1, <4>3, <4>4 DEF WakeInv, PendingOurs
        <4> QED BY <4>1, <4>2, <4>5
      <3>3. ~(f \in ItemFacts /\ g \in AckFacts) /\ ~(f \in AckFacts /\ g \in ItemFacts)
        BY <2>7 DEF ItemFacts, AckFacts
      <3> QED BY <2>1, <3>1, <3>2, <3>3
    <2>8. ASSUME NEW f \in Inventory.facts, f[1] = "ack"
          PROVE  LET r == reservoir[pending[f[2]].item] IN IsOurs(r) /\ r.event = f[3]
      <3>1. PICK k \in PendingOurs : f = <<"ack", k, pending[k].event>>
        BY <2>1, <2>8 DEF ItemFacts, AckFacts
      <3> QED BY <2>6, <3>1 DEF Ours
    <2> QED BY <2>4, <2>5, <2>7, <2>8
  <1> QED BY <1>1, WakeHolds, PTL
===============================================================================
