---------------------------- MODULE FeedHandoff -----------------------------
(***************************************************************************)
(* apply_handoff: every fact the old Wake database left to Feed is handed     *)
(* to its target, and then marked in the lineage database. An unread item     *)
(* goes to Content, or, at the cutover, is acked with the provider; a pending *)
(* ack goes to the provider. Target, lineage and provider are three stores;   *)
(* the call may die between any two of its steps and be made again, another   *)
(* call may run beside it (nothing locks the workspace), and a host that is    *)
(* still up polls, acks and submits meanwhile.                              *)
(*                                                                          *)
(* A step is one read of a store or one committed transaction.              *)
(***************************************************************************)
EXTENDS Naturals

CONSTANTS
    N,          \* the inventory's facts are 1..N, in its order
    Kind,       \* of each fact, LegacyFactKind: "ack" or "item"
    EventOf,    \* the provider item each fact is about
    Events,
    Revs,       \* content hashes
    Metas,      \* what else of a provider row goes into Content's payload
    Foreign,    \* the payload of the host's own submission of a revision
    Supersede,  \* FeedLegacyHandoffAdapter.for_cutover
    Runners,    \* overlapping calls
    MaxFaults,  \* bound: calls that die, or find a store busy
    MaxHost,    \* bound: steps of the host
    NoRow, NoRev, NoMeta

Fact == 1..N
Row == [rev : Revs, meta : Metas]

ASSUME FactsAreTyped ==
    /\ N \in Nat
    /\ Kind \in [Fact -> {"ack", "item"}]
    /\ EventOf \in [Fact -> Events]
    /\ Supersede \in BOOLEAN
ASSUME HandoffBounds == MaxFaults \in Nat /\ MaxHost \in Nat
ASSUME HandoffSentinels ==
    NoRow \notin Row /\ NoRev \notin Revs /\ NoMeta \notin Metas \cup {Foreign}

\* inventory_workspace blocks a second unread row of one event.
ASSUME OneItemPerEvent ==
    \A f, g \in Fact :
        Kind[f] = "item" /\ Kind[g] = "item" /\ EventOf[f] = EventOf[g] => f = g

VARIABLES
    row,       \* provider table items, or NoRow
    acked,     \* provider table acked_items
    receipts,  \* legacy_ack_handoff_receipts: the revision each fact acked, or NoRev
    batch,     \* Content: the item submitted under each fact's batch id, or NoRow
    body,      \* Content: the payload it has of each exact revision, or NoMeta
    file,      \* the lineage database: "absent", "empty", "partial" or "ready"
    lineage,   \* its markers: the revision in the target identity, or NoRev
    completed, \* its attempts: whether one is completed
    pc, at,    \* where each call is, and at which fact
    plan,      \* the revision in the target each call planned for a fact, or NoRev
    seen,      \* the markers as the call last read them
    hand,      \* the item a call is about to submit
    live,      \* whether it found the provider acked already
    report,    \* how each call's last run ended
    faults, moves

stores == <<row, acked, receipts, batch, body, file, lineage, completed>>
locals == <<pc, at, plan, seen, hand, live, report>>
vars == <<stores, locals, faults, moves>>

Unknown == [f \in Fact |-> NoRev]
PC == {"idle", "plan", "recheck", "create", "fill", "apply", "settle", "commit", "submit",
       "verify", "mark", "final"}

TypeOK ==
    /\ row \in [Events -> Row \cup {NoRow}]
    /\ acked \in SUBSET Events
    /\ receipts \in [Fact -> Revs \cup {NoRev}]
    /\ batch \in [Fact -> Row \cup {NoRow}]
    /\ body \in [Events \X Revs -> Metas \cup {Foreign, NoMeta}]
    /\ file \in {"absent", "empty", "partial", "ready"}
    /\ lineage \in [Fact -> Revs \cup {NoRev}]
    /\ completed \in BOOLEAN
    /\ pc \in [Runners -> PC]
    /\ at \in [Runners -> 1..N + 1]
    /\ plan \in [Runners -> [Fact -> Revs \cup {NoRev}]]
    /\ seen \in [Runners -> [Fact -> Revs \cup {NoRev}]]
    /\ hand \in [Runners -> Row \cup {NoRow}]
    /\ live \in [Runners -> BOOLEAN]
    /\ report \in [Runners -> {"none", "block", "raised", "applied"}]
    /\ faults \in 0..MaxFaults
    /\ moves \in 0..MaxHost
    /\ \A p \in Runners :
          /\ pc[p] \in {"settle", "commit", "submit", "verify", "mark"} => at[p] \in Fact
          /\ pc[p] = "submit" => hand[p] \in Row

Init ==
    /\ row \in [Events -> Row \cup {NoRow}]
    /\ acked = {}
    /\ receipts = Unknown
    /\ batch = [f \in Fact |-> NoRow]
    /\ body = [v \in Events \X Revs |-> NoMeta]
    /\ file = "absent"
    /\ lineage = Unknown
    /\ completed = FALSE
    /\ pc = [p \in Runners |-> "idle"]
    /\ at = [p \in Runners |-> 1]
    /\ plan = [p \in Runners |-> Unknown]
    /\ seen = [p \in Runners |-> Unknown]
    /\ hand = [p \in Runners |-> NoRow]
    /\ live = [p \in Runners |-> FALSE]
    /\ report = [p \in Runners |-> "none"]
    /\ faults = 0 /\ moves = 0

-----------------------------------------------------------------------------
ByAck(f) == Kind[f] = "ack" \/ Supersede
AtFact(p, where) == pc[p] = where /\ at[p] \in Fact
AtEnd(p, where) == pc[p] = where /\ at[p] = N + 1

\* _provider_item and _target_identity: the provider has the event, at revision r.
RowIs(f, r) == row[EventOf[f]] # NoRow /\ row[EventOf[f]].rev = r

\* adapter.verify of a receipt whose target is the provider's present revision:
\* the target is there, and Content has the very payload the row gives now.
Verified(f) ==
    IF ByAck(f)
    THEN receipts[f] # NoRev /\ (Supersede => EventOf[f] \in acked)
    ELSE /\ batch[f] # NoRow
         /\ body[<<EventOf[f], row[EventOf[f]].rev>>] = row[EventOf[f]].meta

Goes(p, where) == pc' = [pc EXCEPT ![p] = where]
Advances(p) == at' = [at EXCEPT ![p] = @ + 1]
Restarts(p, where) ==
    /\ Goes(p, where)
    /\ at' = [at EXCEPT ![p] = 1]
    /\ seen' = [seen EXCEPT ![p] = lineage]

\* The call returns or raises; its locals are gone.
Ends(p, how) ==
    /\ Goes(p, "idle")
    /\ report' = [report EXCEPT ![p] = how]
    /\ at' = [at EXCEPT ![p] = 1]
    /\ plan' = [plan EXCEPT ![p] = Unknown]
    /\ seen' = [seen EXCEPT ![p] = Unknown]
    /\ hand' = [hand EXCEPT ![p] = NoRow]
    /\ live' = [live EXCEPT ![p] = FALSE]

-----------------------------------------------------------------------------
(* preflight_handoff, at the start ("plan") and again at the end ("final").   *)

\* _read_lineage: a database that is there and not whole, still empty or with
\* some of its tables, has no version and raises.
Readable == file \in {"absent", "ready"}

\* Where it raises at once nothing happens.
Calls(p) ==
    /\ pc[p] = "idle"
    /\ Readable
    /\ Restarts(p, "plan")
    /\ report' = [report EXCEPT ![p] = "none"]
    /\ UNCHANGED <<stores, plan, hand, live, faults, moves>>

Accepted(p, f) ==
    /\ row[EventOf[f]] # NoRow
    /\ seen[p][f] # NoRev => RowIs(f, seen[p][f]) /\ Verified(f)

\* One fact: planned if it has no marker, else verified again.
Plans(p) ==
    /\ pc[p] \in {"plan", "final"} /\ at[p] \in Fact
    /\ Accepted(p, at[p])
    /\ plan' = [plan EXCEPT ![p][at[p]] =
                  IF seen[p][at[p]] = NoRev THEN row[EventOf[at[p]]].rev ELSE NoRev]
    /\ Advances(p)
    /\ UNCHANGED <<stores, pc, seen, hand, live, report, faults, moves>>

\* The facts after it are looked at too, and only listed: nothing is written on
\* the way to the report.
PlanBlocks(p) ==
    /\ pc[p] \in {"plan", "final"} /\ at[p] \in Fact
    /\ ~Accepted(p, at[p])
    /\ Ends(p, "block")
    /\ UNCHANGED <<stores, faults, moves>>

\* Status PLAN goes on to apply, and the markers are read again.
PlanDone(p) ==
    /\ AtEnd(p, "plan")
    /\ CASE plan[p] = Unknown -> Ends(p, "applied")
         [] plan[p] # Unknown /\ Readable ->
              Restarts(p, "recheck") /\ UNCHANGED <<plan, hand, live, report>>
         [] OTHER -> Ends(p, "raised")
    /\ UNCHANGED <<stores, faults, moves>>

FinalDone(p) ==
    /\ AtEnd(p, "final")
    /\ Ends(p, IF plan[p] = Unknown THEN "applied" ELSE "none")
    /\ UNCHANGED <<stores, faults, moves>>

-----------------------------------------------------------------------------
(* apply_handoff                                                            *)

\* Before the first write every planned target must be what it was.
Rechecks(p) ==
    /\ AtFact(p, "recheck")
    /\ seen[p][at[p]] # NoRev \/ RowIs(at[p], plan[p][at[p]])
    /\ Advances(p)
    /\ UNCHANGED <<stores, pc, plan, seen, hand, live, report, faults, moves>>

RecheckBlocks(p) ==
    /\ AtFact(p, "recheck")
    /\ seen[p][at[p]] = NoRev /\ ~RowIs(at[p], plan[p][at[p]])
    /\ Ends(p, "block")
    /\ UNCHANGED <<stores, faults, moves>>

StartsToApply(p) == Goes(p, "apply") /\ at' = [at EXCEPT ![p] = 1]

\* Mutant: a lineage database that is there is taken to be whole.
BeginsAnyway(p) ==
    /\ AtEnd(p, "recheck")
    /\ IF file = "absent"
       THEN Goes(p, "create") /\ file' = "empty" /\ UNCHANGED at
       ELSE StartsToApply(p) /\ UNCHANGED file
    /\ UNCHANGED <<row, acked, receipts, batch, body, lineage, completed, plan, seen, hand, live,
                   report, faults, moves>>

\* _initialize creates the file when it connects. A file without user_version, be
\* it empty or half filled, gets the schema, statement by statement.
Begins(p) ==
    /\ AtEnd(p, "recheck")
    /\ IF file = "ready"
       THEN StartsToApply(p) /\ UNCHANGED file
       ELSE /\ Goes(p, "create") /\ UNCHANGED at
            /\ file' = IF file = "absent" THEN "empty" ELSE file
    /\ UNCHANGED <<row, acked, receipts, batch, body, lineage, completed, plan, seen, hand, live,
                   report, faults, moves>>

\* The first CREATE TABLE raises where the table is already there.
Creates(p) ==
    /\ pc[p] = "create"
    /\ IF file = "empty"
       THEN /\ file' = "partial" /\ Goes(p, "fill")
            /\ UNCHANGED <<at, plan, seen, hand, live, report>>
       ELSE Ends(p, "raised") /\ UNCHANGED file
    /\ UNCHANGED <<row, acked, receipts, batch, body, lineage, completed, faults, moves>>

\* The rest of the schema, of which user_version comes last.
Fills(p) ==
    /\ pc[p] = "fill"
    /\ file' = "ready" /\ StartsToApply(p)
    /\ UNCHANGED <<row, acked, receipts, batch, body, lineage, completed, plan, seen, hand, live,
                   report, faults, moves>>

\* Mutant: a fact whose target is there counts as handed over.
SkipsReached(p) ==
    /\ AtFact(p, "apply")
    /\ seen[p][at[p]] # NoRev \/ receipts[at[p]] # NoRev \/ batch[at[p]] # NoRow
    /\ Advances(p)
    /\ UNCHANGED <<stores, pc, plan, seen, hand, live, report, faults, moves>>

Skips(p) ==
    /\ AtFact(p, "apply")
    /\ seen[p][at[p]] # NoRev
    /\ Advances(p)
    /\ UNCHANGED <<stores, pc, plan, seen, hand, live, report, faults, moves>>

\* adapter.apply reads the provider row again; a drift from the plan raises.
Reads(p) ==
    /\ AtFact(p, "apply")
    /\ seen[p][at[p]] = NoRev
    /\ IF RowIs(at[p], plan[p][at[p]])
       THEN /\ IF ByAck(at[p])
               THEN Goes(p, "settle") /\ UNCHANGED hand
               ELSE Goes(p, "submit") /\ hand' = [hand EXCEPT ![p] = row[EventOf[at[p]]]]
            /\ UNCHANGED <<at, plan, seen, live, report>>
       ELSE Ends(p, "raised")
    /\ UNCHANGED <<stores, faults, moves>>

-----------------------------------------------------------------------------
(* settle_legacy_ack: the looks are not in the transaction that writes.      *)

\* Mutant: a replay closes the item again.
SettlesAgain(p) ==
    /\ AtFact(p, "settle")
    /\ LET f == at[p]
       IN  /\ receipts[f] # NoRev \/ RowIs(f, plan[p][f])
           /\ IF receipts[f] # NoRev
              THEN /\ Goes(p, "verify")
                   /\ acked' = acked \cup {EventOf[f]}
                   /\ UNCHANGED live
              ELSE /\ Goes(p, "commit")
                   /\ live' = [live EXCEPT ![p] = EventOf[f] \in acked]
                   /\ UNCHANGED acked
    /\ UNCHANGED <<row, receipts, batch, body, file, lineage, completed, at, plan, seen, hand,
                   report, faults, moves>>

\* Mutant: an old receipt is taken for this revision's.
SettlesAny(p) ==
    /\ AtFact(p, "settle")
    /\ LET f == at[p]
       IN  CASE receipts[f] # NoRev ->
                  Goes(p, "verify") /\ UNCHANGED <<at, plan, seen, hand, live, report>>
             [] receipts[f] = NoRev /\ RowIs(f, plan[p][f]) ->
                  /\ Goes(p, "commit")
                  /\ live' = [live EXCEPT ![p] = EventOf[f] \in acked]
                  /\ UNCHANGED <<at, plan, seen, hand, report>>
             [] OTHER -> Ends(p, "raised")
    /\ UNCHANGED <<stores, faults, moves>>

\* A receipt of an earlier call is reused, if it is of the same revision. Else
\* the row must still be at that revision, and the ack it may have is noted.
Settles(p) ==
    /\ AtFact(p, "settle")
    /\ LET f == at[p]
       IN  CASE receipts[f] = plan[p][f] ->
                  Goes(p, "verify") /\ UNCHANGED <<at, plan, seen, hand, live, report>>
             [] receipts[f] = NoRev /\ RowIs(f, plan[p][f]) ->
                  /\ Goes(p, "commit")
                  /\ live' = [live EXCEPT ![p] = EventOf[f] \in acked]
                  /\ UNCHANGED <<at, plan, seen, hand, report>>
             [] OTHER -> Ends(p, "raised")
    /\ UNCHANGED <<stores, faults, moves>>

\* Mutant: a second receipt for the same fact replaces the first.
CommitsOver(p) ==
    /\ AtFact(p, "commit")
    /\ LET f == at[p]
       IN  /\ receipts' = [receipts EXCEPT ![f] = plan[p][f]]
           /\ acked' = IF live[p] THEN acked ELSE acked \cup {EventOf[f]}
    /\ Goes(p, "verify")
    /\ UNCHANGED <<row, batch, body, file, lineage, completed, at, plan, seen, hand, live, report,
                   faults, moves>>

\* The ack, unless there was one, and the receipt, in one transaction; the
\* receipt's key is unique.
Commits(p) ==
    /\ AtFact(p, "commit")
    /\ LET f == at[p]
       IN  IF receipts[f] = NoRev
           THEN /\ receipts' = [receipts EXCEPT ![f] = plan[p][f]]
                /\ acked' = IF live[p] THEN acked ELSE acked \cup {EventOf[f]}
                /\ Goes(p, "verify")
                /\ UNCHANGED <<at, plan, seen, hand, live, report>>
           ELSE Ends(p, "raised") /\ UNCHANGED <<receipts, acked>>
    /\ UNCHANGED <<row, batch, body, file, lineage, completed, faults, moves>>

-----------------------------------------------------------------------------
(* Content (external): a batch id stands for one item, a revision for one     *)
(* payload; the same again is answered with the same receipt.               *)

\* Mutant: a batch is submitted once, ever.
RefusedTwice(f, item) ==
    batch[f] # NoRow \/ body[<<EventOf[f], item.rev>>] \notin {NoMeta, item.meta}

Refused(f, item) ==
    IF batch[f] = NoRow
    THEN body[<<EventOf[f], item.rev>>] \notin {NoMeta, item.meta}
    ELSE batch[f] # item

Submits(p) ==
    /\ AtFact(p, "submit")
    /\ LET f == at[p]
           item == hand[p]
       IN  IF Refused(f, item)
           THEN Ends(p, "raised") /\ UNCHANGED <<batch, body>>
           ELSE /\ batch' = [batch EXCEPT ![f] = item]
                /\ body' = [body EXCEPT ![<<EventOf[f], item.rev>>] = item.meta]
                /\ Goes(p, "verify")
                /\ UNCHANGED <<at, plan, seen, hand, live, report>>
    /\ UNCHANGED <<row, acked, receipts, file, lineage, completed, faults, moves>>

-----------------------------------------------------------------------------
\* adapter.verify; after that comes after_target.
Verifies(p) ==
    /\ AtFact(p, "verify")
    /\ IF RowIs(at[p], plan[p][at[p]]) /\ Verified(at[p])
       THEN Goes(p, "mark") /\ UNCHANGED <<at, plan, seen, hand, live, report>>
       ELSE Ends(p, "raised")
    /\ UNCHANGED <<stores, faults, moves>>

\* _append_marker
Marks(p) ==
    /\ AtFact(p, "mark")
    /\ LET f == at[p]
       IN  IF lineage[f] \in {NoRev, plan[p][f]}
           THEN /\ lineage' = [lineage EXCEPT ![f] = plan[p][f]]
                /\ Goes(p, "apply")
                /\ Advances(p)
                /\ UNCHANGED <<plan, seen, hand, live, report>>
           ELSE Ends(p, "raised") /\ UNCHANGED lineage
    /\ UNCHANGED <<row, acked, receipts, batch, body, file, completed, faults, moves>>

\* _complete_attempt, and the preflight whose report is returned.
Completes(p) ==
    /\ AtEnd(p, "apply")
    /\ completed' = TRUE
    /\ Restarts(p, "final")
    /\ UNCHANGED <<row, acked, receipts, batch, body, file, lineage, plan, hand, live, report,
                   faults, moves>>

-----------------------------------------------------------------------------
(* Around the call.                                                         *)

\* It dies; or a step raises; or the provider's log is not checkpointed, which
\* blocks a plan and raises anywhere else.
Interrupted(p) ==
    /\ pc[p] # "idle"
    /\ faults < MaxFaults
    /\ faults' = faults + 1
    /\ Ends(p, "none")
    /\ UNCHANGED <<stores, moves>>

\* A poll of the host changes a row, which drops its ack if the content is
\* new, or the user unsubscribes its source, or subscribes again.
HostPolls(e) ==
    /\ \E r \in Row \cup {NoRow} :
          /\ r # row[e]
          /\ row' = [row EXCEPT ![e] = r]
          /\ acked' = IF r # NoRow /\ row[e] # NoRow /\ r.rev = row[e].rev
                      THEN acked ELSE acked \ {e}
    /\ UNCHANGED <<receipts, batch, body, file, lineage, completed>>

HostSettles(e) ==
    /\ row[e] # NoRow
    /\ acked' = acked \cup {e}
    /\ UNCHANGED <<row, receipts, batch, body, file, lineage, completed>>

HostSubmits(e) ==
    /\ row[e] # NoRow /\ e \notin acked
    /\ body[<<e, row[e].rev>>] = NoMeta
    /\ body' = [body EXCEPT ![<<e, row[e].rev>>] = Foreign]
    /\ UNCHANGED <<row, acked, receipts, batch, file, lineage, completed>>

Host ==
    /\ moves < MaxHost
    /\ moves' = moves + 1
    /\ \E e \in Events : HostPolls(e) \/ HostSettles(e) \/ HostSubmits(e)
    /\ UNCHANGED <<locals, faults>>

RunnerNext(p) ==
    \/ Plans(p) \/ PlanBlocks(p) \/ PlanDone(p) \/ FinalDone(p)
    \/ Rechecks(p) \/ RecheckBlocks(p) \/ Begins(p) \/ Creates(p) \/ Fills(p)
    \/ Skips(p) \/ Reads(p) \/ Settles(p) \/ Commits(p) \/ Submits(p)
    \/ Verifies(p) \/ Marks(p) \/ Completes(p)

Next ==
    \/ \E p \in Runners : Calls(p) \/ RunnerNext(p) \/ Interrupted(p)
    \/ Host

Spec == Init /\ [][Next]_vars

\* The operator calls again, and a call that runs goes on.
LiveSpec == Spec /\ \A p \in Runners : WF_vars(Calls(p)) /\ WF_vars(RunnerNext(p))

-----------------------------------------------------------------------------
(* Safety.                                                                  *)

\* Whether f's target is durable, for revision r.
Reached(f, r) ==
    IF ByAck(f)
    THEN receipts[f] = r
    ELSE batch[f] # NoRow /\ batch[f].rev = r /\ body[<<EventOf[f], r>>] = batch[f].meta

\* "Order target-owned proactive handoffs before append-only source lineage":
\* a marker names a target that is there, at that very revision, whatever died
\* and whatever the provider did in between.
MarkedIsReached == \A f \in Fact : lineage[f] # NoRev => Reached(f, lineage[f])

\* A completed attempt, and a call that reports APPLIED, left no fact without
\* its marker.
NothingLeftOut ==
    completed \/ (\E p \in Runners : report[p] = "applied") => \A f \in Fact : lineage[f] # NoRev

\* "Reuse a completed handoff without extending the provider ACK": a call acks
\* an item only together with the first receipt of a fact about it. An item
\* that the provider reopened since stays open under any replay.
ReplayAddsNoAck ==
    [][\A e \in Events :
          pc' # pc /\ e \in acked' \ acked =>
              \E f \in Fact : EventOf[f] = e /\ receipts[f] = NoRev /\ receipts'[f] # NoRev]_vars

\* Every fact is handed over once and marked after that.
Target(f) == IF ByAck(f) THEN receipts[f] ELSE IF batch[f] = NoRow THEN NoRev ELSE batch[f].rev

\* _initialize comes before the first target: a fact has reached one only if
\* the lineage database is whole. A file that a dying call left empty or half made
\* stops every later call before it writes anywhere.
NothingBeforeLineage == (\E f \in Fact : Target(f) # NoRev) => file = "ready"

Ledger == INSTANCE HandoffLedger
            WITH Facts <- Fact,
                 target <- [f \in Fact |-> Target(f)],
                 marked <- {f \in Fact : lineage[f] # NoRev}
LedgerSpec == Ledger!LedgerSpec

-----------------------------------------------------------------------------
(* What of ReplayFinishes is safety: a call cannot go on for ever, and where   *)
(* the host is quiet nothing but another call can stop it.                   *)

Stages(p) ==
    CASE pc[p] = "plan" -> 6
      [] pc[p] = "recheck" -> 5
      [] pc[p] = "create" -> 4
      [] pc[p] = "fill" -> 3
      [] pc[p] = "final" -> 1
      [] pc[p] = "idle" -> 0
      [] OTHER -> 2

\* The facts still to do, and of the one in hand the steps up to its marker.
StepsLeft(p) ==
    5 * (N + 1 - at[p])
      - CASE pc[p] \in {"settle", "submit"} -> 1
          [] pc[p] = "commit" -> 2
          [] pc[p] = "verify" -> 3
          [] pc[p] = "mark" -> 4
          [] OTHER -> 0

Nearer(p) ==
    Stages(p)' < Stages(p) \/ (Stages(p)' = Stages(p) /\ StepsLeft(p)' < StepsLeft(p))

\* A call is at each of its steps nearer to its return, and nobody else, dead or
\* alive, host or call, sends it back to a fact it has passed.
CallsComeToAnEnd ==
    [][\A p \in Runners : pc[p] # "idle" =>
          Nearer(p) \/ (~RunnerNext(p) /\ UNCHANGED <<pc[p], at[p]>>)]_vars

\* Once the lineage database is there, and while the host is quiet, no call
\* reports a block or raises, except the one that is late with the schema, or with
\* a receipt, that another call has committed meanwhile: what dead calls left
\* behind is in nobody's way.
QuietCallsGoThrough ==
    [][file = "ready" /\ moves' = 0 =>
          \A p \in Runners :
             report'[p] # report[p] /\ report'[p] \in {"block", "raised"} =>
                pc[p] = "create" \/ (pc[p] = "commit" /\ receipts[at[p]] # NoRev)]_vars

-----------------------------------------------------------------------------
(* Liveness, under LiveSpec.                                                *)

AllMarked == \A f \in Fact : lineage[f] # NoRev

\* Once the lineage database is there, calling again gets every fact through,
\* wherever the earlier calls died, if the host stays quiet.
ReplayFinishes == file = "ready" ~> AllMarked \/ moves > 0
=============================================================================
