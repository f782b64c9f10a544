---------------------------- MODULE FeedMigration ----------------------------
(***************************************************************************)
(* migrate_v2_data: the data files of Feed v2 are copied from the first place *)
(* that has any into v3's plugin data, one file after the other, and a        *)
(* receipt is written last. A run works under the workspace's lock, in a       *)
(* staging directory; it may die anywhere, which frees the lock and leaves    *)
(* the rest, or be interrupted, and then it rolls back. Between runs a host    *)
(* may write the files of either version, and backups come and go.           *)
(*                                                                          *)
(* A file is its content; the receipt's digests are the contents they stand   *)
(* for.                                                                      *)
(***************************************************************************)
EXTENDS Naturals, FiniteSets

CONSTANTS
    N,         \* _DATA_FILES are the files 1..N
    S,         \* places to migrate from, 1..S: the primary, then backups, newest first
    Contents,
    Runners,   \* overlapping runs of the command
    MaxFaults, \* bound: deaths and exceptions
    MaxMoves,  \* bound: what hosts and users change between runs
    Missing, NoReceipt, NoDir, NoOne

File == 1..N
Place == 1..S
ReceiptFile == N + 1
Files == [File -> Contents \cup {Missing}]
Receipt == [source : Place, files : Files]

ASSUME MigrationBounds ==
    /\ N \in Nat /\ S \in Nat
    /\ MaxFaults \in Nat /\ MaxMoves \in Nat
ASSUME MigrationSentinels ==
    Missing \notin Contents /\ NoReceipt \notin Receipt /\ NoDir \notin Files
    /\ NoOne \notin Runners

VARIABLES
    sources,   \* what each place holds
    target,    \* plugin-data/feed-<marketplace>: the data files
    receipt,   \* and the receipt
    folder,    \* whether that directory exists
    staging,   \* each run's staging directory, also that of a run that died
    lock,      \* who holds .instance.lock
    pc, at,    \* where each run is, and at which file it publishes
    source,    \* the place it selected
    created,   \* created_target
    copied,    \* the entries of status "copied"
    files,     \* the contents its receipt will record
    published, \* what it has put, or is putting, into the target
    outcome,   \* how it is going to end
    said,      \* how the last run to end did
    found,     \* history: the target and receipt when the lock was taken
    faults, moves

disk == <<sources, target, receipt, folder, staging, lock>>
locals == <<pc, at, source, created, copied, files, published, outcome>>
vars == <<disk, locals, said, found, faults, moves>>

Empty == [f \in File |-> Missing]

TypeOK ==
    /\ sources \in [Place -> Files]
    /\ target \in Files
    /\ receipt \in Receipt \cup {NoReceipt}
    /\ folder \in BOOLEAN
    /\ staging \in [Runners -> Files \cup {NoDir}]
    /\ lock \in Runners \cup {NoOne}
    /\ pc \in [Runners -> {"idle", "select", "check", "stage", "validate", "publish", "undo",
                           "clean"}]
    /\ at \in [Runners -> 1..N + 2]
    /\ source \in [Runners -> Place \cup {0}]
    /\ created \in [Runners -> BOOLEAN]
    /\ copied \in [Runners -> SUBSET File]
    /\ files \in [Runners -> Files]
    /\ published \in [Runners -> SUBSET (1..N + 1)]
    /\ outcome \in [Runners -> {"none", "raised", "torn", "done"}]
    /\ said \in {"nothing", "raised", "torn", "unclean", "done"}
    /\ found \in [files : Files, receipt : Receipt \cup {NoReceipt}]
    /\ faults \in 0..MaxFaults
    /\ moves \in 0..MaxMoves
    /\ \A p \in Runners :
          /\ pc[p] # "idle" <=> lock = p
          /\ pc[p] \in {"check", "stage", "validate", "publish"} => source[p] \in Place
          /\ pc[p] \in {"validate", "publish"} => staging[p] # NoDir
          /\ pc[p] \in {"undo", "clean"} => outcome[p] # "none"

Init ==
    /\ sources \in [Place -> Files]
    /\ target \in Files
    /\ receipt = NoReceipt
    /\ folder \in BOOLEAN
    /\ target # Empty => folder
    /\ staging = [p \in Runners |-> NoDir]
    /\ lock = NoOne
    /\ pc = [p \in Runners |-> "idle"]
    /\ at = [p \in Runners |-> 1]
    /\ source = [p \in Runners |-> 0]
    /\ created = [p \in Runners |-> FALSE]
    /\ copied = [p \in Runners |-> {}]
    /\ files = [p \in Runners |-> Empty]
    /\ published = [p \in Runners |-> {}]
    /\ outcome = [p \in Runners |-> "none"]
    /\ said = "nothing"
    /\ found = [files |-> target, receipt |-> NoReceipt]
    /\ faults = 0 /\ moves = 0

-----------------------------------------------------------------------------
Goes(p, where) == pc' = [pc EXCEPT ![p] = where]

\* The run is over, its locals are gone and the lock is free. A command that
\* raises says "raised" if nothing else went wrong after that, "torn" if the
\* rollback raised too, and "unclean" if only the finally clauses did, after a
\* rollback or after a complete publication.
Ends(p, how) ==
    /\ lock' = NoOne
    /\ Goes(p, "idle")
    /\ at' = [at EXCEPT ![p] = 1]
    /\ source' = [source EXCEPT ![p] = 0]
    /\ created' = [created EXCEPT ![p] = FALSE]
    /\ copied' = [copied EXCEPT ![p] = {}]
    /\ files' = [files EXCEPT ![p] = Empty]
    /\ published' = [published EXCEPT ![p] = {}]
    /\ outcome' = [outcome EXCEPT ![p] = "none"]
    /\ said' = how

\* The try block is left for its finally clause.
Leaves(p, where, how) ==
    /\ Goes(p, where)
    /\ outcome' = [outcome EXCEPT ![p] = how]

Mine(p, where) == pc[p] = where

-----------------------------------------------------------------------------
\* WorkspaceInstanceLock.acquire does not wait: while another run, or a host,
\* holds the lock, the command raises and nothing has changed.
Acquires(p) ==
    /\ Mine(p, "idle")
    /\ lock = NoOne
    /\ lock' = p
    /\ Goes(p, "select")
    /\ found' = [files |-> target, receipt |-> receipt]
    /\ UNCHANGED <<sources, target, receipt, folder, staging, at, source, created, copied, files,
                   published, outcome, said, faults, moves>>

HasData(s) == \E f \in File : sources[s][f] # Missing
First(s) == HasData(s) /\ \A earlier \in 1..s - 1 : ~HasData(earlier)

\* _remove_stale_staging removes all staging directories there are.
Swept == [q \in Runners |-> NoDir]

\* _select_source takes the first place with any file; then what dead runs left
\* is swept.
Selects(p) ==
    /\ Mine(p, "select")
    /\ \/ \E s \in Place :
             /\ First(s)
             /\ source' = [source EXCEPT ![p] = s]
             /\ staging' = Swept
             /\ Goes(p, "check")
             /\ UNCHANGED <<lock, at, created, copied, files, published, outcome, said>>
       \/ /\ \A s \in Place : ~HasData(s)
          /\ Ends(p, "raised")
          /\ UNCHANGED staging
    /\ UNCHANGED <<sources, target, receipt, folder, found, faults, moves>>

\* What _validate_receipt_file compares.
ReceiptHolds == receipt.files = target

\* _has_valid_receipt: a receipt of another place, or one the target does not
\* agree with, raises; a valid one ends the run. Without one it begins.
Checks(p) ==
    /\ Mine(p, "check")
    /\ IF receipt = NoReceipt
       THEN /\ Goes(p, "stage")
            /\ created' = [created EXCEPT ![p] = ~folder]
            /\ staging' = [staging EXCEPT ![p] = Empty]
            /\ UNCHANGED <<lock, at, source, copied, files, published, outcome, said>>
       ELSE /\ Ends(p, IF receipt.source = source[p] /\ ReceiptHolds THEN "done" ELSE "raised")
            /\ UNCHANGED staging
    /\ UNCHANGED <<sources, target, receipt, folder, found, faults, moves>>

Stages(p) ==
    /\ Mine(p, "stage")
    /\ staging' = [staging EXCEPT ![p] = sources[source[p]]]
    /\ Goes(p, "validate")
    /\ UNCHANGED <<sources, target, receipt, folder, lock, at, source, created, copied, files,
                   published, outcome, said, found, faults, moves>>

\* A file that is in both must be the same in both.
Conflict(p) ==
    \E f \in File : staging[p][f] # Missing /\ target[f] \notin {Missing, staging[p][f]}

\* Mutant: what is in the target already is published over.
ValidatesNothing(p) ==
    /\ Mine(p, "validate")
    /\ folder' = TRUE
    /\ copied' = [copied EXCEPT ![p] = {f \in File : staging[p][f] # Missing}]
    /\ files' = [files EXCEPT ![p] = [f \in File |->
                    IF staging[p][f] = Missing THEN target[f] ELSE staging[p][f]]]
    /\ Goes(p, "publish")
    /\ UNCHANGED <<sources, target, receipt, staging, lock, at, source, created, published,
                   outcome, said, found, faults, moves>>

\* Mutant: any file in the target is in the way.
ValidatesFresh(p) ==
    /\ Mine(p, "validate")
    /\ folder' = TRUE
    /\ IF \E f \in File : staging[p][f] # Missing /\ target[f] # Missing
       THEN /\ Leaves(p, "clean", "raised")
            /\ UNCHANGED <<copied, files>>
       ELSE /\ copied' = [copied EXCEPT ![p] = {f \in File : staging[p][f] # Missing}]
            /\ files' = [files EXCEPT ![p] = [f \in File |->
                            IF staging[p][f] = Missing THEN target[f] ELSE staging[p][f]]]
            /\ Goes(p, "publish")
            /\ UNCHANGED outcome
    /\ UNCHANGED <<sources, target, receipt, staging, lock, at, source, created, published, said,
                   found, faults, moves>>

\* The target is created, and _validate_targets gives each entry its status:
\* "copied" if the target lacks the file, "verified" if it has the same, and
\* without a source file "target_only" or "source_missing".
Validates(p) ==
    /\ Mine(p, "validate")
    /\ folder' = TRUE
    /\ IF Conflict(p)
       THEN /\ Leaves(p, "clean", "raised")
            /\ UNCHANGED <<copied, files>>
       ELSE /\ copied' = [copied EXCEPT ![p] =
                            {f \in File : staging[p][f] # Missing /\ target[f] = Missing}]
            /\ files' = [files EXCEPT ![p] = [f \in File |->
                            IF staging[p][f] = Missing THEN target[f] ELSE staging[p][f]]]
            /\ Goes(p, "publish")
            /\ UNCHANGED outcome
    /\ UNCHANGED <<sources, target, receipt, staging, lock, at, source, created, published, said,
                   found, faults, moves>>

-----------------------------------------------------------------------------
(* _publish                                                                 *)

\* What the loop is about to put into the target.
Due(p) == (copied[p] \cup {ReceiptFile}) \cap {at[p]}

\* Mutant: the receipt is written before the last file.
PublishesReceiptEarly(p) ==
    /\ Mine(p, "publish") /\ at[p] \in File
    /\ target' = [target EXCEPT ![at[p]] = IF at[p] \in copied[p] THEN staging[p][at[p]] ELSE @]
    /\ receipt' = IF at[p] = 1 THEN [source |-> source[p], files |-> files[p]] ELSE receipt
    /\ published' = [published EXCEPT ![p] = @ \cup Due(p)]
    /\ at' = [at EXCEPT ![p] = @ + 1]
    /\ UNCHANGED <<sources, folder, staging, lock, pc, source, created, copied, files, outcome,
                   said, found, faults, moves>>

\* Mutant: what is published is not noted for the rollback.
PublishesUnnoted(p) ==
    /\ Mine(p, "publish") /\ at[p] \in File
    /\ target' = [target EXCEPT ![at[p]] = IF at[p] \in copied[p] THEN staging[p][at[p]] ELSE @]
    /\ at' = [at EXCEPT ![p] = @ + 1]
    /\ UNCHANGED <<sources, receipt, folder, staging, lock, pc, source, created, copied, files,
                   published, outcome, said, found, faults, moves>>

\* The loop over the entries: what is "copied" replaces what is not there, and
\* is noted before that.
Publishes(p) ==
    /\ Mine(p, "publish") /\ at[p] \in File
    /\ target' = [target EXCEPT ![at[p]] = IF at[p] \in copied[p] THEN staging[p][at[p]] ELSE @]
    /\ published' = [published EXCEPT ![p] = @ \cup Due(p)]
    /\ at' = [at EXCEPT ![p] = @ + 1]
    /\ UNCHANGED <<sources, receipt, folder, staging, lock, pc, source, created, copied, files,
                   outcome, said, found, faults, moves>>

WritesReceipt(p) ==
    /\ Mine(p, "publish") /\ at[p] = ReceiptFile
    /\ receipt' = [source |-> source[p], files |-> files[p]]
    /\ published' = [published EXCEPT ![p] = @ \cup Due(p)]
    /\ at' = [at EXCEPT ![p] = @ + 1]
    /\ UNCHANGED <<sources, target, folder, staging, lock, pc, source, created, copied, files,
                   outcome, said, found, faults, moves>>

Published(p) ==
    /\ Mine(p, "publish") /\ at[p] = N + 2
    /\ Leaves(p, "clean", "done")
    /\ UNCHANGED <<disk, at, source, created, copied, files, published, said, found, faults, moves>>

Unlinks(p, i) ==
    /\ published' = [published EXCEPT ![p] = @ \ {i}]
    /\ receipt' = IF i = ReceiptFile THEN NoReceipt ELSE receipt
    /\ target' = [f \in File |-> IF f = i THEN Missing ELSE target[f]]
    /\ UNCHANGED <<sources, folder, staging, lock, pc, at, source, created, copied, files, outcome,
                   said, found, faults, moves>>

\* Mutant: the rollback goes in the order of the publication.
RollsForward(p) ==
    /\ Mine(p, "undo")
    /\ \E i \in published[p] : (\A j \in published[p] : i <= j) /\ Unlinks(p, i)

\* The rollback, in reverse: the receipt is the first to go.
RollsBack(p) ==
    /\ Mine(p, "undo")
    /\ \E i \in published[p] : (\A j \in published[p] : j <= i) /\ Unlinks(p, i)

RolledBack(p) ==
    /\ Mine(p, "undo") /\ published[p] = {}
    /\ Goes(p, "clean")
    /\ UNCHANGED <<disk, at, source, created, copied, files, published, outcome, said, found,
                   faults, moves>>

\* The finally clauses: staging is removed, and the target if this run made it
\* and nothing is in it; the lock is released.
StagingGoes(p) == staging' = [staging EXCEPT ![p] = NoDir]
FolderGoes(p) == folder' = (folder /\ ~(created[p] /\ target = Empty /\ receipt = NoReceipt))

Cleans(p) ==
    /\ Mine(p, "clean")
    /\ StagingGoes(p) /\ FolderGoes(p)
    /\ Ends(p, outcome[p])
    /\ UNCHANGED <<sources, target, receipt, found, faults, moves>>

-----------------------------------------------------------------------------
(* Around the run.                                                          *)

\* An exception, from outside (the user's interrupt) or from the file system, at
\* any point, in the rollback and in the finally clauses too. What the present
\* step does first it may have done already: some of the old staging directories
\* are swept, or a staging directory is made that no finally clause removes; the
\* target is created; a file that is being replaced is in `published`. In the
\* finally clauses nothing may be removed yet, or staging alone, or all of it.
Raises(p) ==
    /\ pc[p] # "idle"
    /\ faults < MaxFaults
    /\ faults' = faults + 1
    /\ \/ /\ Mine(p, "select")
          /\ \E gone \in SUBSET Runners :
                staging' = [q \in Runners |-> IF q \in gone THEN NoDir ELSE staging[q]]
          /\ Ends(p, "raised")
          /\ UNCHANGED folder
       \/ /\ Mine(p, "check")
          /\ \/ UNCHANGED staging
             \/ receipt = NoReceipt /\ staging' = [staging EXCEPT ![p] = Empty]
          /\ Ends(p, "raised")
          /\ UNCHANGED folder
       \/ /\ Mine(p, "stage") \/ Mine(p, "validate")
          /\ UNCHANGED folder \/ (Mine(p, "validate") /\ folder' = TRUE)
          /\ Leaves(p, "clean", "raised")
          /\ UNCHANGED <<staging, lock, at, source, created, copied, files, published, said>>
       \/ /\ Mine(p, "publish")
          /\ Leaves(p, "undo", "raised")
          /\ \E tried \in SUBSET Due(p) :
                published' = [published EXCEPT ![p] = @ \cup tried]
          /\ UNCHANGED <<folder, staging, lock, at, source, created, copied, files, said>>
       \/ /\ Mine(p, "undo")
          /\ Leaves(p, "clean", IF published[p] = {} THEN outcome[p] ELSE "torn")
          /\ UNCHANGED <<folder, staging, lock, at, source, created, copied, files, published,
                         said>>
       \/ /\ Mine(p, "clean")
          /\ \/ UNCHANGED <<staging, folder>>
             \/ StagingGoes(p) /\ (UNCHANGED folder \/ FolderGoes(p))
          /\ Ends(p, IF outcome[p] = "torn" THEN "torn" ELSE "unclean")
    /\ UNCHANGED <<sources, target, receipt, found, moves>>

\* The process dies: the system frees its lock, all else stays.
Dies(p) ==
    /\ pc[p] # "idle"
    /\ faults < MaxFaults
    /\ faults' = faults + 1
    /\ Ends(p, "nothing")
    /\ UNCHANGED <<sources, target, receipt, folder, staging, found, moves>>

\* A host holds the lock while it runs, so all it does is one step here: v3
\* writes its data, v2 writes its own, or somebody adds or drops a backup.
Outside ==
    /\ lock = NoOne
    /\ moves < MaxMoves
    /\ moves' = moves + 1
    /\ \/ /\ \E f \in File, c \in Contents : target' = [target EXCEPT ![f] = c]
          /\ folder' = TRUE
          /\ UNCHANGED sources
       \/ /\ \E s \in Place, f \in File, c \in Contents \cup {Missing} :
                sources' = [sources EXCEPT ![s][f] = c]
          /\ UNCHANGED <<target, folder>>
    /\ UNCHANGED <<receipt, staging, lock, locals, said, found, faults>>

RunnerNext(p) ==
    \/ Selects(p) \/ Checks(p) \/ Stages(p) \/ Validates(p)
    \/ Publishes(p) \/ WritesReceipt(p) \/ Published(p) \/ RollsBack(p)
    \/ RolledBack(p) \/ Cleans(p)

Next ==
    \/ \E p \in Runners : Acquires(p) \/ RunnerNext(p) \/ Raises(p) \/ Dies(p)
    \/ Outside

Spec == Init /\ [][Next]_vars

\* The operator runs the command again, and a run goes on.
LiveSpec == Spec /\ \A p \in Runners : WF_vars(Acquires(p)) /\ WF_vars(RunnerNext(p))

-----------------------------------------------------------------------------
(* Safety.                                                                  *)

\* "发布前拒绝覆盖不同内容": no file that was in the target when a run began is
\* overwritten or deleted by it, whatever it rolls back.
KeepsWhatWasThere ==
    lock # NoOne => \A f \in File : found.files[f] # Missing => target[f] = found.files[f]

\* "产生可核对的 migration receipt": only a host's writes can make a receipt false,
\* and no step of a run does, not in the middle of a rollback and not by dying
\* there. A run that succeeds, also one that finds a receipt, leaves a true one.
ReceiptIsTrue ==
    [][moves' = moves =>
          /\ receipt' # NoReceipt /\ (receipt = NoReceipt \/ ReceiptHolds) => ReceiptHolds'
          /\ pc' # pc /\ lock' = NoOne /\ said' = "done" => receipt' # NoReceipt /\ ReceiptHolds'
      ]_vars

\* When the receipt appears, everything its source has is in the target, and no
\* earlier place had anything.
ReceiptIsComplete ==
    [][receipt = NoReceipt /\ receipt' # NoReceipt =>
          LET s == receipt'.source
          IN  First(s) /\ \A f \in File : sources[s][f] # Missing => target'[f] = sources[s][f]]_vars

\* "失败时只回滚本事务新增文件": a run that raises leaves the target as it found it,
\* the directory included, if its rollback and its finally clauses get through.
\* If only the finally clauses raise it is still all or nothing: either what was
\* found, or everything the run publishes under a receipt that is true. Only a
\* rollback that raises may leave anything between.
FailureRestores ==
    [][\A p \in Runners :
          pc[p] # "idle" /\ pc'[p] = "idle" =>
              LET restored == target' = found.files /\ receipt' = found.receipt
              IN  /\ said' = "raised" => restored /\ (created[p] => ~folder')
                  /\ said' = "unclean" => restored \/ (receipt' # NoReceipt /\ ReceiptHolds')
      ]_vars

-----------------------------------------------------------------------------
(* What of progress is safety.                                              *)

\* Something to migrate and nothing in its way.
Migratable ==
    \E s \in Place :
        /\ First(s)
        /\ \A f \in File : sources[s][f] # Missing => target[f] \in {Missing, sources[s][f]}

\* What runs publish, take back or leave when they die is never in the way of the
\* next: without a receipt it gets through, unless an exception of its own, or
\* what others put there, stops it.
NoRunIsInTheWay ==
    [][Migratable /\ moves' = moves =>
          /\ Migratable'
          /\ receipt = NoReceipt /\ faults' = faults =>
                \A p \in Runners :
                    pc[p] \in {"select", "check", "stage", "validate", "publish"} =>
                        pc'[p] # "idle" /\ outcome'[p] \in {"none", "done"}]_vars

\* How much a run still has to do: the stages to come, and in the present one
\* the files to publish or to take back.
StagesLeft(p) ==
    CASE pc[p] = "select" -> 7
      [] pc[p] = "check" -> 6
      [] pc[p] = "stage" -> 5
      [] pc[p] = "validate" -> 4
      [] pc[p] = "publish" -> 3
      [] pc[p] = "undo" -> 2
      [] pc[p] = "clean" -> 1
      [] OTHER -> 0

FilesLeft(p) ==
    CASE pc[p] = "publish" -> (N + 2) - at[p]
      [] pc[p] = "undo" -> Cardinality(published[p])
      [] OTHER -> 0

\* While a run holds the lock every step there is, an exception and a death too,
\* brings it nearer to letting it go: it neither waits nor repeats anything.
HolderComesToAnEnd ==
    [][\A p \in Runners : lock = p =>
          \/ StagesLeft(p)' < StagesLeft(p)
          \/ StagesLeft(p)' = StagesLeft(p) /\ FilesLeft(p)' < FilesLeft(p)]_vars

-----------------------------------------------------------------------------
(* Liveness, under LiveSpec.                                                *)

\* _validate_targets "收束崩溃留下的同内容文件": wherever runs died, running the command
\* again gets to a receipt, unless somebody else changes the files.
RerunFinishes ==
    \A n \in 0..MaxMoves : Migratable /\ moves = n ~> receipt # NoReceipt \/ moves # n
=============================================================================
