---------------------------- MODULE FeedCutover -----------------------------
(***************************************************************************)
(* The command retire_legacy_feed_backlog: it prints what Feed would still    *)
(* offer, and, given that back, acks exactly those revisions with a durable    *)
(* batch receipt before it retires the old Wake database. The command is a     *)
(* process of its own: several may run, each may die between any two steps     *)
(* and be run again, and the host polls and acks meanwhile.                 *)
(*                                                                          *)
(* A step is one read of the provider's database or one transaction.          *)
(***************************************************************************)
EXTENDS Naturals

CONSTANTS
    Events,
    Revs,       \* content hashes
    NoRev,
    NoBatch,
    Runners,
    MaxFaults,  \* bound: commands that die, or find a store busy
    MaxHost     \* bound: steps of the host

ASSUME CutoverBounds == MaxFaults \in Nat /\ MaxHost \in Nat

\* A backlog: events with their revisions. Two have the same digest and count
\* only if they are the same.
Batch == UNION {[es -> Revs] : es \in SUBSET Events}

ASSUME CutoverSentinels == NoRev \notin Revs /\ NoBatch \notin Batch

VARIABLES
    row,       \* provider table items: the content hash of each, or NoRev
    acked,     \* provider table acked_items
    admitted,  \* the events that score above the admission floor now
    receipt,   \* legacy_backlog_supersession_receipts: the batch under the one id
    wake,      \* the old Wake database: "none", "sound" or "broken"
    token,     \* the batch whose digest and count the operator holds, or NoBatch
    pc,        \* where each command is
    backlog,   \* the batch it works on, or NoBatch
    said,      \* how each command's last run ended
    faults, moves

provider == <<row, acked, admitted, receipt>>
locals == <<token, pc, backlog, said>>
vars == <<provider, wake, locals, faults, moves>>

TypeOK ==
    /\ row \in [Events -> Revs \cup {NoRev}]
    /\ acked \in SUBSET Events
    /\ admitted \in SUBSET Events
    /\ receipt \in Batch \cup {NoBatch}
    /\ wake \in {"none", "sound", "broken"}
    /\ token \in [Runners -> Batch \cup {NoBatch}]
    /\ pc \in [Runners -> {"idle", "receipt", "look", "commit", "retire"}]
    /\ backlog \in [Runners -> Batch \cup {NoBatch}]
    /\ said \in [Runners -> {"nothing", "plan", "unsound", "block", "raised", "empty", "applied"}]
    /\ faults \in 0..MaxFaults
    /\ moves \in 0..MaxHost
    /\ \A p \in Runners : pc[p] # "idle" => backlog[p] \in Batch /\ token[p] \in Batch

Init ==
    /\ row \in [Events -> Revs \cup {NoRev}]
    /\ acked \in SUBSET {e \in Events : row[e] # NoRev}
    /\ admitted \in SUBSET Events
    /\ receipt = NoBatch
    /\ wake \in {"none", "sound", "broken"}
    /\ token = [p \in Runners |-> NoBatch]
    /\ pc = [p \in Runners |-> "idle"]
    /\ backlog = [p \in Runners |-> NoBatch]
    /\ said = [p \in Runners |-> "nothing"]
    /\ faults = 0 /\ moves = 0

-----------------------------------------------------------------------------
\* plan_content_backlog: what Feed has not acked and would admit.
Backlog == [e \in {e \in admitted : row[e] # NoRev /\ e \notin acked} |-> row[e]]

\* _backlog_rows_are_acked
AllAcked(b) == \A e \in DOMAIN b : e \in acked /\ row[e] = b[e]

\* inventory_workspace compares quick_check's row, a sqlite3.Row, with a tuple.
\* The two are never equal: it raises for every database there is.
InventoryRaises == wake # "none"

Goes(p, where) == pc' = [pc EXCEPT ![p] = where]

Ends(p, how) ==
    /\ Goes(p, "idle")
    /\ backlog' = [backlog EXCEPT ![p] = NoBatch]
    /\ said' = [said EXCEPT ![p] = how]
    /\ UNCHANGED token

\* Either mode starts with the inventory.
Unreadable(p) ==
    /\ pc[p] = "idle"
    /\ InventoryRaises
    /\ Ends(p, "unsound")
    /\ UNCHANGED <<provider, wake, faults, moves>>

\* --plan
Plans(p) ==
    /\ pc[p] = "idle"
    /\ ~InventoryRaises
    /\ token' = [token EXCEPT ![p] = Backlog]
    /\ said' = [said EXCEPT ![p] = "plan"]
    /\ UNCHANGED <<provider, wake, pc, backlog, faults, moves>>

\* --apply, with what an earlier --plan printed.
Applies(p) ==
    /\ pc[p] = "idle"
    /\ ~InventoryRaises
    /\ token[p] # NoBatch
    /\ Goes(p, "receipt")
    /\ backlog' = [backlog EXCEPT ![p] = Backlog]
    /\ said' = [said EXCEPT ![p] = "nothing"]
    /\ UNCHANGED <<provider, wake, token, faults, moves>>

\* Mutant: a completed batch is not looked for.
ReadsNoReceipt(p) ==
    /\ pc[p] = "receipt"
    /\ IF backlog[p] = token[p]
       THEN Goes(p, "look") /\ UNCHANGED <<backlog, token, said>>
       ELSE Ends(p, "block")
    /\ UNCHANGED <<provider, wake, faults, moves>>

\* A batch that is complete must be the operator's and still stand, and takes
\* the place of the backlog; else the backlog must be the operator's.
ReadsReceipt(p) ==
    /\ pc[p] = "receipt"
    /\ IF receipt # NoBatch
       THEN IF receipt = token[p] /\ AllAcked(receipt)
            THEN /\ Goes(p, "look")
                 /\ backlog' = [backlog EXCEPT ![p] = receipt]
                 /\ UNCHANGED <<token, said>>
            ELSE Ends(p, "raised")
       ELSE IF backlog[p] = token[p]
            THEN Goes(p, "look") /\ UNCHANGED <<backlog, token, said>>
            ELSE Ends(p, "block")
    /\ UNCHANGED <<provider, wake, faults, moves>>

-----------------------------------------------------------------------------
(* supersede_content_backlog                                                *)

\* Mutant: a resumed batch is acked again.
LooksAndAcks(p) ==
    /\ pc[p] = "look"
    /\ IF DOMAIN backlog[p] = {}
       THEN Ends(p, "empty") /\ UNCHANGED acked
       ELSE IF receipt = NoBatch
       THEN Goes(p, "commit") /\ UNCHANGED <<acked, backlog, token, said>>
       ELSE IF receipt = backlog[p]
       THEN /\ acked' = acked \cup {e \in DOMAIN receipt : row[e] # NoRev}
            /\ Goes(p, "retire") /\ UNCHANGED <<backlog, token, said>>
       ELSE Ends(p, "raised") /\ UNCHANGED acked
    /\ UNCHANGED <<row, admitted, receipt, wake, faults, moves>>

\* An empty batch is refused; a complete one is resumed if it is this batch and
\* every ack of it still stands.
Looks(p) ==
    /\ pc[p] = "look"
    /\ CASE DOMAIN backlog[p] = {} -> Ends(p, "empty")
         [] DOMAIN backlog[p] # {} /\ receipt = NoBatch ->
              Goes(p, "commit") /\ UNCHANGED <<backlog, token, said>>
         [] DOMAIN backlog[p] # {} /\ receipt = backlog[p] /\ AllAcked(receipt) ->
              Goes(p, "retire") /\ UNCHANGED <<backlog, token, said>>
         [] OTHER -> Ends(p, "raised")
    /\ UNCHANGED <<provider, wake, faults, moves>>

\* Mutant: the revisions are not looked at again under the lock.
CommitsUnchecked(p) ==
    /\ pc[p] = "commit"
    /\ IF receipt = NoBatch
       THEN /\ acked' = acked \cup {e \in DOMAIN backlog[p] : row[e] # NoRev}
            /\ receipt' = backlog[p]
            /\ Goes(p, "retire")
            /\ UNCHANGED <<backlog, token, said>>
       ELSE Ends(p, "raised") /\ UNCHANGED <<acked, receipt>>
    /\ UNCHANGED <<row, admitted, wake, faults, moves>>

\* BEGIN IMMEDIATE: all revisions, all acks and the receipt, or nothing. The
\* batch id is unique, so a second command's insert fails and rolls back.
Commits(p) ==
    /\ pc[p] = "commit"
    /\ IF receipt = NoBatch /\ \A e \in DOMAIN backlog[p] : row[e] = backlog[p][e]
       THEN /\ acked' = acked \cup DOMAIN backlog[p]
            /\ receipt' = backlog[p]
            /\ Goes(p, "retire")
            /\ UNCHANGED <<backlog, token, said>>
       ELSE Ends(p, "raised") /\ UNCHANGED <<acked, receipt>>
    /\ UNCHANGED <<row, admitted, wake, faults, moves>>

\* retire: there is no Wake database here, so its inventory is empty, which is
\* READY at once; the count that is printed then changes nothing.
Retires(p) ==
    /\ pc[p] = "retire"
    /\ Ends(p, "applied")
    /\ UNCHANGED <<provider, wake, faults, moves>>

\* It dies, or raises on a log that is not checkpointed or a busy database.
Interrupted(p) ==
    /\ pc[p] # "idle"
    /\ faults < MaxFaults
    /\ faults' = faults + 1
    /\ Ends(p, "nothing")
    /\ UNCHANGED <<provider, wake, moves>>

-----------------------------------------------------------------------------
\* A poll brings new content, which drops the ack, or a new item; or the source
\* of the item is removed.
HostPolls(e) ==
    /\ \E r \in Revs \cup {NoRev} : r # row[e] /\ row' = [row EXCEPT ![e] = r]
    /\ acked' = acked \ {e}
    /\ UNCHANGED <<admitted, receipt>>

HostSettles(e) ==
    /\ row[e] # NoRev
    /\ acked' = acked \cup {e}
    /\ UNCHANGED <<row, admitted, receipt>>

\* Scores depend on the time and on what else there is.
Rescores(e) ==
    /\ admitted' = IF e \in admitted THEN admitted \ {e} ELSE admitted \cup {e}
    /\ UNCHANGED <<row, acked, receipt>>

Host ==
    /\ moves < MaxHost
    /\ moves' = moves + 1
    /\ \E e \in Events : HostPolls(e) \/ HostSettles(e) \/ Rescores(e)
    /\ UNCHANGED <<wake, locals, faults>>

RunnerNext(p) ==
    ReadsReceipt(p) \/ Looks(p) \/ Commits(p) \/ Retires(p)

Next ==
    \/ \E p \in Runners :
          Unreadable(p) \/ Plans(p) \/ Applies(p) \/ RunnerNext(p) \/ Interrupted(p)
    \/ Host

Spec == Init /\ [][Next]_vars

\* The operator applies again with what he holds, and a command that runs goes on.
LiveSpec == Spec /\ \A p \in Runners : WF_vars(Applies(p)) /\ WF_vars(RunnerNext(p))

-----------------------------------------------------------------------------
(* Safety.                                                                  *)

\* "Atomically ACK one frozen pre-cutover backlog": the batch that is committed
\* is the one an operator was shown, at the revisions the provider has at that
\* very moment, all of it is acked, and it is the only one ever.
CutoverIsExact ==
    [][receipt' # receipt =>
          /\ receipt = NoBatch
          /\ \E p \in Runners : pc[p] = "commit" /\ receipt' = token[p]
          /\ \A e \in DOMAIN receipt' : row[e] = receipt'[e] /\ e \in acked']_vars

\* "Resume only the same completed batch": a command acks an item only in the
\* step that commits the batch; any replay leaves what reopened since open.
CutoverAcksOnce ==
    [][\A e \in Events :
          pc' # pc /\ e \in acked' \ acked =>
              receipt = NoBatch /\ receipt' # NoBatch /\ e \in DOMAIN receipt']_vars

\* Old facts are retired only by a command whose own batch, the operator's, is
\* the one that is committed.
RetiresAfterReceipt ==
    \A p \in Runners : pc[p] = "retire" => receipt = backlog[p] /\ receipt = token[p]

-----------------------------------------------------------------------------
(* What of ReplayCompletes is safety.                                       *)

\* "Resume only the same completed batch", and resume it always: where the batch
\* is committed, all of it is acked and the operator has its values, no step of
\* his command is refused, whatever the backlog is by now, except the commit of
\* one that had looked before another command committed the same.
ReplayIsNotRefused ==
    [][receipt # NoBatch /\ AllAcked(receipt) =>
          \A p \in Runners :
             token[p] = receipt /\ said'[p] # said[p] =>
                \/ said'[p] \in {"nothing", "plan", "applied"}
                \/ said'[p] = "unsound" /\ InventoryRaises
                \/ said'[p] = "raised" /\ pc[p] = "commit"]_vars

-----------------------------------------------------------------------------
(* Liveness, and what the program says of itself and does not keep.          *)

\* Where the batch is committed, none of it reopens and the operator keeps his
\* values, running the command again succeeds, wherever earlier runs died, and
\* although the backlog it would plan now is another.
ReplayCompletes ==
    \A p \in Runners :
        <>[](receipt # NoBatch /\ token[p] = receipt /\ AllAcked(receipt))
            => []<>(said[p] = "applied")

\* "Feed Wake SQLite quick_check failed": said only of a database that is broken.
HealthyIsRead == \A p \in Runners : said[p] = "unsound" => wake = "broken"
=============================================================================
