------------------------ MODULE FeedMigration_proofs -------------------------
(***************************************************************************)
(* What FeedMigration keeps for any number of files, places and runs and any  *)
(* number of deaths and exceptions. All of it follows from what a run knows   *)
(* of the disk while it holds the lock (RunInv): where it is determines what  *)
(* target and receipt are, compared with what they were when it took the lock. *)
(***************************************************************************)
EXTENDS FeedMigration, FiniteSetTheorems, TLAPS

Untouched == target = found.files /\ receipt = found.receipt

\* What validation has found out, and what it has put into the entries.
Planned(p) ==
    \A f \in File :
        /\ f \in copied[p] <=> staging[p][f] # Missing /\ found.files[f] = Missing
        /\ files[p][f] = IF staging[p][f] = Missing THEN found.files[f] ELSE staging[p][f]
        /\ staging[p][f] = Missing \/ found.files[f] \in {Missing, staging[p][f]}

\* The copied files before at[p] are in the target, and the receipt after them.
PublishedSoFar(p) ==
    /\ \A f \in File :
          /\ target[f] = IF f \in copied[p] /\ f < at[p] THEN staging[p][f] ELSE found.files[f]
          /\ f \in copied[p] /\ f < at[p] => f \in published[p]
          /\ f \in published[p] => f \in copied[p]
    /\ receipt = IF at[p] = N + 2 THEN [source |-> source[p], files |-> files[p]] ELSE NoReceipt
    /\ at[p] = N + 2 => N + 1 \in published[p] /\ ReceiptHolds

\* What is left to undo is new, is noted, and no receipt outlives a file of it.
UndoneSoFar(p) ==
    /\ outcome[p] = "raised"
    /\ \A f \in File :
          /\ target[f] # found.files[f] => f \in published[p]
          /\ f \in published[p] => found.files[f] = Missing
    /\ receipt # NoReceipt => N + 1 \in published[p] /\ ReceiptHolds

Result(p) ==
    /\ outcome[p] \in {"raised", "torn", "done"}
    /\ outcome[p] = "raised" => Untouched
    /\ outcome[p] = "done" => receipt # NoReceipt /\ ReceiptHolds
    /\ \A f \in File : found.files[f] # Missing => target[f] = found.files[f]

RunInv(p) ==
    /\ pc[p] \in {"idle", "select", "check"} => ~created[p]
    /\ created[p] => found.files = Empty
    /\ pc[p] \in {"idle", "select", "check", "stage", "validate"} => at[p] = 1 /\ published[p] = {}
    /\ pc[p] \in {"select", "check", "stage", "validate"} => Untouched
    /\ pc[p] \in {"stage", "validate", "publish", "undo"} => found.receipt = NoReceipt
    /\ created[p] => found.receipt = NoReceipt
    /\ pc[p] \in {"check", "stage", "validate", "publish"} => First(source[p])
    /\ pc[p] \in {"validate", "publish"} => staging[p] = sources[source[p]]
    /\ pc[p] \in {"publish", "undo"} => folder
    /\ pc[p] = "publish" => Planned(p) /\ PublishedSoFar(p)
    /\ pc[p] = "undo" => UndoneSoFar(p)
    /\ pc[p] = "clean" => Result(p)

\* What is in the target is in the directory.
FolderHolds == target # Empty \/ receipt # NoReceipt => folder

IInv == TypeOK /\ FolderHolds /\ \A p \in Runners : RunInv(p)


-----------------------------------------------------------------------------
(* Types.                                                                   *)

DiskTypes ==
    /\ sources \in [Place -> Files]
    /\ target \in Files
    /\ receipt \in Receipt \cup {NoReceipt}
    /\ folder \in BOOLEAN
    /\ staging \in [Runners -> Files \cup {NoDir}]
    /\ lock \in Runners \cup {NoOne}
    /\ said \in {"nothing", "raised", "torn", "unclean", "done"}
    /\ found \in [files : Files, receipt : Receipt \cup {NoReceipt}]
    /\ faults \in 0..MaxFaults
    /\ moves \in 0..MaxMoves

PC == {"idle", "select", "check", "stage", "validate", "publish", "undo", "clean"}

RunTypes ==
    /\ pc \in [Runners -> PC]
    /\ at \in [Runners -> 1..N + 2]
    /\ source \in [Runners -> Place \cup {0}]
    /\ created \in [Runners -> BOOLEAN]
    /\ copied \in [Runners -> SUBSET File]
    /\ files \in [Runners -> Files]
    /\ published \in [Runners -> SUBSET (1..N + 1)]
    /\ outcome \in [Runners -> {"none", "raised", "torn", "done"}]

Coupling ==
    \A p \in Runners :
        /\ pc[p] # "idle" <=> lock = p
        /\ pc[p] \in {"check", "stage", "validate", "publish"} => source[p] \in Place
        /\ pc[p] \in {"validate", "publish"} => staging[p] # NoDir
        /\ pc[p] \in {"undo", "clean"} => outcome[p] # "none"

LEMMA Types == TypeOK <=> DiskTypes /\ RunTypes /\ Coupling
  BY DEF TypeOK, DiskTypes, RunTypes, Coupling, PC

LEMMA Ranges == 1 \in 1..N + 2 /\ File \subseteq 1..N + 1 /\ ReceiptFile \in 1..N + 1 /\ 0 \notin Place
  BY MigrationBounds DEF File, ReceiptFile, Place

LEMMA EmptyIsFiles == Empty \in Files
  BY DEF Empty, Files

\* A run that ends frees the lock and is as it was before it began.
LEMMA EndsTypes ==
    ASSUME DiskTypes, RunTypes, Coupling, NEW p \in Runners, lock = p,
           NEW how, Ends(p, how)
    PROVE  RunTypes' /\ \A q \in Runners : pc'[q] = "idle" /\ lock' # q
  <1>1. RunTypes'
    BY Ranges, EmptyIsFiles, MigrationSentinels DEF RunTypes, Ends, Goes, PC
  <1>2. \A q \in Runners : pc'[q] = "idle" /\ lock' # q
    BY MigrationSentinels DEF Ends, Goes, RunTypes, Coupling
  <1>3. QED
    BY <1>1, <1>2

LEMMA InitTypes == Init => TypeOK
  <1>1. Init => DiskTypes
    BY MigrationBounds DEF Init, DiskTypes
  <1>2. Init => RunTypes
    BY Ranges, EmptyIsFiles DEF Init, RunTypes, PC
  <1>3. Init => Coupling
    BY MigrationSentinels DEF Init, Coupling
  <1>4. QED
    BY <1>1, <1>2, <1>3, Types

\* Every step keeps the types.
LEMMA StepTypes == TypeOK /\ [Next]_vars => TypeOK'
  <1> SUFFICES ASSUME DiskTypes, RunTypes, Coupling, [Next]_vars
               PROVE  DiskTypes' /\ RunTypes' /\ Coupling'
    BY DEF TypeOK, DiskTypes, RunTypes, Coupling, PC
  <1> USE MigrationSentinels
  <1>1. ASSUME NEW p \in Runners, Acquires(p)
        PROVE  DiskTypes' /\ RunTypes' /\ Coupling'
    <2>1. DiskTypes'
      BY <1>1 DEF Acquires, DiskTypes
    <2>2. RunTypes'
      BY <1>1 DEF Acquires, Goes, Mine, RunTypes, PC
    <2>3. Coupling'
      BY <1>1 DEF Acquires, Goes, Mine, RunTypes, Coupling
    <2>4. QED
      BY <2>1, <2>2, <2>3
  <1>2. ASSUME NEW p \in Runners, Selects(p)
        PROVE  DiskTypes' /\ RunTypes' /\ Coupling'
    <2>0. lock = p
      BY <1>2 DEF Selects, Mine, Coupling
    <2>1. CASE Ends(p, "raised") /\ UNCHANGED staging
      <3>1. DiskTypes'
        BY <1>2, <2>1 DEF Selects, Ends, DiskTypes
      <3>2. QED
        BY <2>0, <2>1, <3>1, EndsTypes DEF Coupling
    <2>2. ASSUME NEW s \in Place, source' = [source EXCEPT ![p] = s], staging' = Swept,
                 Goes(p, "check"),
                 UNCHANGED <<lock, at, created, copied, files, published, outcome, said>>
          PROVE  DiskTypes' /\ RunTypes' /\ Coupling'
      <3>1. DiskTypes'
        BY <1>2, <2>2 DEF Selects, Swept, DiskTypes
      <3>2. RunTypes'
        BY <2>2 DEF Goes, RunTypes, PC
      <3>3. Coupling'
        BY <2>0, <2>2 DEF Goes, RunTypes, Coupling
      <3>4. QED
        BY <3>1, <3>2, <3>3
    <2>3. QED
      BY <1>2, <2>1, <2>2 DEF Selects
  <1>3. ASSUME NEW p \in Runners, Checks(p)
        PROVE  DiskTypes' /\ RunTypes' /\ Coupling'
    <2>0. lock = p
      BY <1>3 DEF Checks, Mine, Coupling
    <2>1. CASE receipt = NoReceipt
      <3>1. DiskTypes'
        BY <1>3, <2>1, EmptyIsFiles DEF Checks, DiskTypes
      <3>2. RunTypes'
        BY <1>3, <2>1 DEF Checks, Goes, RunTypes, PC
      <3>3. Coupling'
        BY <1>3, <2>0, <2>1 DEF Checks, Mine, Goes, RunTypes, Coupling
      <3>4. QED
        BY <3>1, <3>2, <3>3
    <2>2. CASE receipt # NoReceipt
      <3> DEFINE how == IF receipt.source = source[p] /\ ReceiptHolds THEN "done" ELSE "raised"
      <3>1. Ends(p, how) /\ UNCHANGED staging
        BY <1>3, <2>2 DEF Checks
      <3>2. DiskTypes'
        BY <1>3, <3>1 DEF Checks, Ends, DiskTypes
      <3>3. QED
        BY <2>0, <3>1, <3>2, EndsTypes DEF Coupling
    <2>3. QED
      BY <2>1, <2>2
  <1>4. ASSUME NEW p \in Runners, Stages(p)
        PROVE  DiskTypes' /\ RunTypes' /\ Coupling'
    <2>1. DiskTypes'
      BY <1>4 DEF Stages, Mine, DiskTypes, Coupling
    <2>2. RunTypes'
      BY <1>4 DEF Stages, Goes, RunTypes, PC
    <2>3. Coupling'
      <3>1. sources[source[p]] \in Files
        BY <1>4 DEF Stages, Mine, Coupling, DiskTypes
      <3>2. QED
        BY <1>4, <3>1 DEF Stages, Mine, Goes, RunTypes, DiskTypes, Coupling
    <2>4. QED
      BY <2>1, <2>2, <2>3
  <1>5. ASSUME NEW p \in Runners, Validates(p)
        PROVE  DiskTypes' /\ RunTypes' /\ Coupling'
    <2>1. DiskTypes'
      BY <1>5 DEF Validates, DiskTypes
    <2>2. staging[p] \in Files /\ target \in Files
      BY <1>5 DEF Validates, Mine, DiskTypes, Coupling
    <2>3. RunTypes'
      <3>1. [f \in File |-> IF staging[p][f] = Missing THEN target[f] ELSE staging[p][f]] \in Files
        BY <2>2 DEF Files
      <3>2. {f \in File : staging[p][f] # Missing /\ target[f] = Missing} \in SUBSET File
        OBVIOUS
      <3>3. CASE Conflict(p)
        BY <1>5, <3>3 DEF Validates, Leaves, Goes, RunTypes, PC
      <3>4. CASE ~Conflict(p)
        BY <1>5, <3>1, <3>2, <3>4 DEF Validates, Goes, RunTypes, PC
      <3>5. QED
        BY <3>3, <3>4
    <2>4. Coupling'
      BY <1>5 DEF Validates, Mine, Leaves, Goes, RunTypes, Coupling
    <2>5. QED
      BY <2>1, <2>3, <2>4
  <1>6. ASSUME NEW p \in Runners, Publishes(p)
        PROVE  DiskTypes' /\ RunTypes' /\ Coupling'
    <2>1. staging[p] \in Files
      BY <1>6 DEF Publishes, Mine, DiskTypes, Coupling
    <2>2. DiskTypes'
      BY <1>6, <2>1 DEF Publishes, DiskTypes, Files
    <2>3. Due(p) \in SUBSET (1..N + 1) /\ at[p] + 1 \in 1..N + 2
      BY <1>6, Ranges, MigrationBounds DEF Publishes, Due, RunTypes, File
    <2>4. RunTypes'
      BY <1>6, <2>3 DEF Publishes, RunTypes
    <2>5. Coupling'
      BY <1>6 DEF Publishes, Coupling
    <2>6. QED
      BY <2>2, <2>4, <2>5
  <1>7. ASSUME NEW p \in Runners, WritesReceipt(p)
        PROVE  DiskTypes' /\ RunTypes' /\ Coupling'
    <2>1. [source |-> source[p], files |-> files[p]] \in Receipt
      BY <1>7 DEF WritesReceipt, Mine, Receipt, RunTypes, Coupling
    <2>2. DiskTypes'
      BY <1>7, <2>1 DEF WritesReceipt, DiskTypes
    <2>3. Due(p) \in SUBSET (1..N + 1) /\ at[p] + 1 \in 1..N + 2
      BY <1>7, Ranges, MigrationBounds DEF WritesReceipt, Due, RunTypes, ReceiptFile
    <2>4. RunTypes'
      BY <1>7, <2>3 DEF WritesReceipt, RunTypes
    <2>5. Coupling'
      BY <1>7 DEF WritesReceipt, Coupling
    <2>6. QED
      BY <2>2, <2>4, <2>5
  <1>8. ASSUME NEW p \in Runners, Published(p)
        PROVE  DiskTypes' /\ RunTypes' /\ Coupling'
    <2>1. DiskTypes'
      BY <1>8 DEF Published, disk, DiskTypes
    <2>2. RunTypes'
      BY <1>8 DEF Published, Leaves, Goes, disk, RunTypes, PC
    <2>3. Coupling'
      BY <1>8 DEF Published, Mine, Leaves, Goes, disk, RunTypes, Coupling
    <2>4. QED
      BY <2>1, <2>2, <2>3
  <1>9. ASSUME NEW p \in Runners, RollsBack(p)
        PROVE  DiskTypes' /\ RunTypes' /\ Coupling'
    <2>1. PICK i \in published[p] : Unlinks(p, i)
      BY <1>9 DEF RollsBack
    <2>2. DiskTypes'
      <3>1. target' \in Files
        BY <2>1 DEF Unlinks, DiskTypes, Files
      <3>2. QED
        BY <2>1, <3>1 DEF Unlinks, DiskTypes
    <2>3. RunTypes'
      BY <2>1 DEF Unlinks, RunTypes
    <2>4. Coupling'
      BY <2>1 DEF Unlinks, Coupling
    <2>5. QED
      BY <2>2, <2>3, <2>4
  <1>10. ASSUME NEW p \in Runners, Cleans(p)
         PROVE  DiskTypes' /\ RunTypes' /\ Coupling'
    <2>0. lock = p
      BY <1>10 DEF Cleans, Mine, Coupling
    <2>1. Ends(p, outcome[p])
      BY <1>10 DEF Cleans
    <2>2. DiskTypes'
      <3>1. said' \in {"raised", "torn", "done"} /\ lock' = NoOne
        BY <1>10, <2>1 DEF Cleans, Mine, Ends, RunTypes, Coupling
      <3>2. QED
        BY <1>10, <3>1 DEF Cleans, StagingGoes, FolderGoes, DiskTypes
    <2>3. QED
      BY <2>0, <2>1, <2>2, EndsTypes DEF Coupling
  <1>11. ASSUME NEW p \in Runners, Raises(p)
         PROVE  DiskTypes' /\ RunTypes' /\ Coupling'
    <2>0. lock = p
      BY <1>11 DEF Raises, Coupling
    <2>1. faults' \in 0..MaxFaults /\ UNCHANGED <<sources, target, receipt, found, moves>>
      BY <1>11, MigrationBounds DEF Raises, DiskTypes
    <2>2. CASE pc[p] \in {"select", "check"}
      <3>1. Ends(p, "raised") /\ UNCHANGED folder
        BY <1>11, <2>2 DEF Raises, Mine
      <3>2. staging' \in [Runners -> Files \cup {NoDir}]
        BY <1>11, <2>2, EmptyIsFiles DEF Raises, Mine, DiskTypes
      <3>3. DiskTypes'
        BY <2>1, <3>1, <3>2 DEF Ends, DiskTypes
      <3>4. QED
        BY <2>0, <3>1, <3>3, EndsTypes DEF Coupling
    <2>3. CASE pc[p] \in {"stage", "validate"}
      <3>1. /\ Leaves(p, "clean", "raised") /\ folder' \in {folder, TRUE}
            /\ UNCHANGED <<staging, lock, at, source, created, copied, files, published, said>>
        BY <1>11, <2>3 DEF Raises, Mine
      <3>2. DiskTypes'
        BY <2>1, <3>1 DEF DiskTypes
      <3>3. RunTypes'
        BY <3>1 DEF Leaves, Goes, RunTypes, PC
      <3>4. Coupling'
        BY <2>0, <3>1 DEF Leaves, Goes, RunTypes, Coupling
      <3>5. QED
        BY <3>2, <3>3, <3>4
    <2>4. CASE pc[p] = "publish"
      <3>1. PICK tried \in SUBSET Due(p) : published' = [published EXCEPT ![p] = @ \cup tried]
        BY <1>11, <2>4 DEF Raises, Mine
      <3>2. /\ Leaves(p, "undo", "raised")
            /\ UNCHANGED <<folder, staging, lock, at, source, created, copied, files, said>>
        BY <1>11, <2>4 DEF Raises, Mine
      <3>3. DiskTypes'
        BY <2>1, <3>2 DEF DiskTypes
      <3>4. tried \in SUBSET (1..N + 1)
        BY Ranges DEF Due, RunTypes
      <3>5. RunTypes'
        BY <3>1, <3>2, <3>4 DEF Leaves, Goes, RunTypes, PC
      <3>6. Coupling'
        BY <2>0, <3>2 DEF Leaves, Goes, RunTypes, Coupling
      <3>7. QED
        BY <3>3, <3>5, <3>6
    <2>5. CASE pc[p] = "undo"
      <3> DEFINE how == IF published[p] = {} THEN outcome[p] ELSE "torn"
      <3>1. /\ Leaves(p, "clean", how)
            /\ UNCHANGED <<folder, staging, lock, at, source, created, copied, files, published,
                           said>>
        BY <1>11, <2>5 DEF Raises, Mine
      <3>2. how \in {"raised", "torn", "done"}
        BY <2>5 DEF RunTypes, Coupling
      <3> HIDE DEF how
      <3>3. DiskTypes'
        BY <2>1, <3>1 DEF DiskTypes
      <3>4. RunTypes'
        BY <3>1, <3>2 DEF Leaves, Goes, RunTypes, PC
      <3>5. Coupling'
        BY <2>0, <3>1, <3>2 DEF Leaves, Goes, RunTypes, Coupling
      <3>6. QED
        BY <3>3, <3>4, <3>5
    <2>6. CASE pc[p] = "clean"
      <3> DEFINE how == IF outcome[p] = "torn" THEN "torn" ELSE "unclean"
      <3>1. Ends(p, how)
        BY <1>11, <2>6 DEF Raises, Mine
      <3>2. staging' \in [Runners -> Files \cup {NoDir}] /\ folder' \in BOOLEAN
        BY <1>11, <2>6 DEF Raises, Mine, StagingGoes, FolderGoes, DiskTypes
      <3>3. DiskTypes'
        BY <2>1, <3>1, <3>2 DEF Ends, DiskTypes
      <3>4. QED
        BY <2>0, <3>1, <3>3, EndsTypes DEF Coupling
    <2>7. QED
      BY <1>11, <2>2, <2>3, <2>4, <2>5, <2>6 DEF Raises, RunTypes, PC
  <1>12. ASSUME NEW p \in Runners, Dies(p)
         PROVE  DiskTypes' /\ RunTypes' /\ Coupling'
    <2>0. lock = p
      BY <1>12 DEF Dies, Coupling
    <2>1. Ends(p, "nothing")
      BY <1>12 DEF Dies
    <2>2. DiskTypes'
      BY <1>12, <2>1, MigrationBounds DEF Dies, Ends, DiskTypes
    <2>3. QED
      BY <2>0, <2>1, <2>2, EndsTypes DEF Coupling
  <1>13. CASE Outside
    <2>1. target' \in Files /\ sources' \in [Place -> Files]
      BY <1>13 DEF Outside, DiskTypes, Files
    <2>2. /\ folder' \in BOOLEAN /\ moves' \in 0..MaxMoves
          /\ UNCHANGED <<receipt, staging, lock, said, found, faults>>
      <3>1. moves' \in 0..MaxMoves
        BY <1>13, MigrationBounds DEF Outside, DiskTypes
      <3>2. folder' \in BOOLEAN
        BY <1>13 DEF Outside, DiskTypes
      <3>3. QED
        BY <1>13, <3>1, <3>2 DEF Outside
    <2>3. DiskTypes'
      BY <2>1, <2>2 DEF DiskTypes
    <2>4. RunTypes' /\ Coupling'
      BY <1>13 DEF Outside, locals, RunTypes, Coupling
    <2>5. QED
      BY <2>3, <2>4
  <1>14. ASSUME NEW p \in Runners, RolledBack(p)
         PROVE  DiskTypes' /\ RunTypes' /\ Coupling'
    <2>1. DiskTypes'
      BY <1>14 DEF RolledBack, disk, DiskTypes
    <2>2. RunTypes'
      BY <1>14 DEF RolledBack, Goes, disk, RunTypes, PC
    <2>3. Coupling'
      BY <1>14 DEF RolledBack, Mine, Goes, disk, RunTypes, Coupling
    <2>4. QED
      BY <2>1, <2>2, <2>3
  <1>15. CASE UNCHANGED vars
    BY <1>15 DEF vars, disk, locals, DiskTypes, RunTypes, Coupling
  <1>16. QED
    BY <1>1, <1>2, <1>3, <1>4, <1>5, <1>6, <1>7, <1>8, <1>9, <1>10, <1>11, <1>12, <1>13, <1>14,
       <1>15
    DEF Next, RunnerNext

\* The types of the disk and of the runs.
THEOREM TypeCorrect == Spec => []TypeOK
  BY InitTypes, StepTypes, PTL DEF Spec


-----------------------------------------------------------------------------
(* The invariant.                                                           *)

\* While p holds the lock nobody else is anywhere.
LEMMA OthersIdle ==
    ASSUME Coupling, NEW p \in Runners, NEW q \in Runners, lock \in {p, NoOne}, q # p
    PROVE  pc[q] = "idle"
  BY MigrationSentinels DEF Coupling

LEMMA RestingKeeps ==
    ASSUME NEW q \in Runners, RunInv(q), pc[q] = "idle", pc'[q] = "idle", at'[q] = at[q],
           published'[q] = published[q], created'[q] = created[q]
    PROVE  RunInv(q)'
  BY DEF RunInv

LEMMA EndsRun ==
    ASSUME RunTypes, NEW p \in Runners, NEW how, Ends(p, how)
    PROVE  RunInv(p)'
  BY DEF RunInv, Ends, Goes, RunTypes

\* What a step of p does not touch.
SparesOthers(p) ==
    \A q \in Runners \ {p} :
        /\ pc'[q] = pc[q] /\ at'[q] = at[q]
        /\ published'[q] = published[q] /\ created'[q] = created[q]

LEMMA OwnStepSuffices ==
    ASSUME Coupling, NEW p \in Runners, lock \in {p, NoOne}, \A q \in Runners : RunInv(q),
           SparesOthers(p), RunInv(p)'
    PROVE  \A q \in Runners : RunInv(q)'
  <1> SUFFICES ASSUME NEW q \in Runners, q # p PROVE RunInv(q)'
    OBVIOUS
  <1>1. pc[q] = "idle"
    BY OthersIdle
  <1>2. pc'[q] = "idle" /\ at'[q] = at[q] /\ published'[q] = published[q] /\ created'[q] = created[q]
    BY <1>1 DEF SparesOthers
  <1>3. QED
    BY <1>1, <1>2, RestingKeeps

LEMMA InitInv == Init => IInv
  BY InitTypes DEF Init, IInv, FolderHolds, RunInv

\* Reading steps, before anything is published.
LEMMA EarlySteps ==
    ASSUME IInv, NEW p \in Runners,
           Acquires(p) \/ Selects(p) \/ Checks(p) \/ Stages(p)
    PROVE  FolderHolds' /\ RunInv(p)' /\ SparesOthers(p)
  <1> USE DEF SparesOthers
  <1>0. DiskTypes /\ RunTypes /\ Coupling /\ FolderHolds /\ RunInv(p)
    BY Types DEF IInv
  <1>1. CASE Acquires(p)
    <2>1. FolderHolds' /\ SparesOthers(p)
      BY <1>0, <1>1 DEF Acquires, Goes, FolderHolds, RunTypes
    <2>2. RunInv(p)'
      BY <1>0, <1>1 DEF Acquires, Mine, Goes, RunInv, Untouched, RunTypes
    <2>3. QED
      BY <2>1, <2>2
  <1>2. CASE Selects(p)
    <2>1. FolderHolds'
      BY <1>0, <1>2 DEF Selects, FolderHolds
    <2>2. CASE Ends(p, "raised")
      BY <1>0, <2>1, <2>2, EndsRun DEF Ends, Goes, RunTypes
    <2>3. ASSUME NEW s \in Place, First(s), source' = [source EXCEPT ![p] = s], Goes(p, "check"),
                 UNCHANGED <<lock, at, created, copied, files, published, outcome, said>>
          PROVE  RunInv(p)' /\ SparesOthers(p)
      <3>1. source'[p] = s /\ pc'[p] = "check"
        BY <1>0, <2>3 DEF Goes, RunTypes
      <3>2. First(source[p])'
        BY <1>2, <2>3, <3>1 DEF Selects, First, HasData
      <3>3. Untouched'
        BY <1>0, <1>2 DEF Selects, Mine, RunInv, Untouched
      <3>4. RunInv(p)'
        BY <1>0, <1>2, <2>3, <3>1, <3>2, <3>3 DEF Selects, Mine, RunInv
      <3>5. QED
        BY <1>0, <2>3, <3>4 DEF Goes, RunTypes
    <2>4. QED
      BY <1>2, <2>1, <2>2, <2>3 DEF Selects
  <1>3. CASE Checks(p)
    <2>1. FolderHolds'
      BY <1>0, <1>3 DEF Checks, FolderHolds
    <2>2. CASE receipt = NoReceipt
      <3>1. pc'[p] = "stage" /\ created'[p] = ~folder /\ source'[p] = source[p]
        BY <1>0, <1>3, <2>2 DEF Checks, Goes, RunTypes
      <3>2. ~folder => target = Empty
        BY <1>0 DEF FolderHolds
      <3>3. First(source[p])'
        BY <1>0, <1>3, <3>1 DEF Checks, Mine, RunInv, First, HasData
      <3>4. Untouched' /\ found'.receipt = NoReceipt /\ (created'[p] => found'.files = Empty)
        BY <1>0, <1>3, <2>2, <3>1, <3>2 DEF Checks, Mine, RunInv, Untouched
      <3>5. RunInv(p)'
        BY <1>0, <1>3, <2>2, <3>1, <3>3, <3>4 DEF Checks, Mine, RunInv
      <3>6. QED
        BY <1>0, <1>3, <2>1, <2>2, <3>5 DEF Checks, Goes, RunTypes
    <2>3. CASE receipt # NoReceipt
      <3> DEFINE how == IF receipt.source = source[p] /\ ReceiptHolds THEN "done" ELSE "raised"
      <3>1. Ends(p, how)
        BY <1>3, <2>3 DEF Checks
      <3>2. QED
        BY <1>0, <2>1, <3>1, EndsRun DEF Ends, Goes, RunTypes
    <2>4. QED
      BY <2>2, <2>3
  <1>4. CASE Stages(p)
    <2>1. FolderHolds' /\ SparesOthers(p)
      BY <1>0, <1>4 DEF Stages, Goes, FolderHolds, RunTypes
    <2>2. pc'[p] = "validate" /\ staging'[p] = sources'[source'[p]]
      BY <1>0, <1>4 DEF Stages, Goes, RunTypes, DiskTypes
    <2>3. First(source[p])' /\ Untouched'
      BY <1>0, <1>4 DEF Stages, Mine, RunInv, Untouched, First, HasData
    <2>4. RunInv(p)'
      BY <1>0, <1>4, <2>2, <2>3 DEF Stages, Mine, RunInv
    <2>5. QED
      BY <2>1, <2>4
  <1>5. QED
    BY <1>1, <1>2, <1>3, <1>4

\* Validation finds the statuses; what it plans contradicts nothing that is there.
LEMMA ValidatesStep ==
    ASSUME IInv, NEW p \in Runners, Validates(p)
    PROVE  FolderHolds' /\ RunInv(p)' /\ SparesOthers(p)
  <1>0. DiskTypes /\ RunTypes /\ Coupling /\ FolderHolds /\ RunInv(p)
    BY Types DEF IInv
  <1>1. FolderHolds' /\ SparesOthers(p)
    BY <1>0 DEF Validates, Goes, Leaves, FolderHolds, SparesOthers, RunTypes
  <1>2. /\ pc[p] = "validate" /\ at[p] = 1 /\ published[p] = {}
        /\ Untouched /\ found.receipt = NoReceipt /\ First(source[p])
        /\ staging[p] = sources[source[p]]
    BY <1>0 DEF Validates, Mine, RunInv
  <1>3. CASE Conflict(p)
    <2>1. pc'[p] = "clean" /\ outcome'[p] = "raised"
      BY <1>0, <1>3 DEF Validates, Leaves, Goes, RunTypes
    <2>2. Result(p)'
      BY <1>2, <2>1 DEF Validates, Result, Untouched
    <2>3. QED
      BY <1>0, <1>1, <1>2, <2>1, <2>2 DEF Validates, RunInv
  <1>4. CASE ~Conflict(p)
    <2>1. /\ pc'[p] = "publish"
          /\ copied'[p] = {f \in File : staging[p][f] # Missing /\ target[f] = Missing}
          /\ files'[p] = [f \in File |->
                             IF staging[p][f] = Missing THEN target[f] ELSE staging[p][f]]
      BY <1>0, <1>4 DEF Validates, Goes, RunTypes
    <2>2. \A f \in File : staging[p][f] = Missing \/ target[f] \in {Missing, staging[p][f]}
      BY <1>4 DEF Conflict
    <2>3. Planned(p)'
      BY <1>2, <2>1, <2>2 DEF Validates, Planned, Untouched
    <2>4. PublishedSoFar(p)'
      <3>1. 1 # N + 2 /\ \A f \in File : ~(f < 1)
        BY MigrationBounds DEF File
      <3>2. at'[p] = 1 /\ published'[p] = {} /\ receipt' = NoReceipt /\ target' = found'.files
        BY <1>2 DEF Validates, Untouched
      <3>3. QED
        BY <3>1, <3>2 DEF PublishedSoFar
    <2>5. First(source[p])' /\ staging'[p] = sources'[source'[p]]
      BY <1>2 DEF Validates, First, HasData
    <2>6. QED
      BY <1>0, <1>1, <1>2, <2>1, <2>3, <2>4, <2>5 DEF Validates, RunInv
  <1>5. QED
    BY <1>3, <1>4


\* Each file that is due is put where there was none, and noted.
LEMMA PublishesStep ==
    ASSUME IInv, NEW p \in Runners, Publishes(p)
    PROVE  FolderHolds' /\ RunInv(p)' /\ SparesOthers(p)
  <1>0. DiskTypes /\ RunTypes /\ Coupling /\ FolderHolds /\ RunInv(p)
    BY Types DEF IInv
  <1>1. /\ pc[p] = "publish" /\ pc'[p] = "publish" /\ at[p] \in File /\ at'[p] = at[p] + 1
        /\ folder /\ folder'
        /\ Planned(p) /\ PublishedSoFar(p) /\ First(source[p]) /\ staging[p] = sources[source[p]]
        /\ (created[p] => found.files = Empty) /\ found.receipt = NoReceipt
    BY <1>0 DEF Publishes, Mine, RunInv, RunTypes
  <1>2. FolderHolds' /\ SparesOthers(p)
    BY <1>0, <1>1 DEF Publishes, FolderHolds, SparesOthers, RunTypes
  <1>3. at[p] # N + 2 /\ at'[p] # N + 2 /\ at[p] # N + 1
    BY <1>1, MigrationBounds DEF File
  <1>4. Planned(p)' /\ First(source[p])'
    BY <1>1 DEF Publishes, Planned, First, HasData
  <1>5. PublishedSoFar(p)'
    <2>1. receipt' = NoReceipt
      BY <1>1, <1>3 DEF Publishes, PublishedSoFar
    <2>2. published'[p] = published[p] \cup Due(p)
      BY <1>0 DEF Publishes, RunTypes
    <2>3. ASSUME NEW f \in File
          PROVE  /\ target'[f] = IF f \in copied[p] /\ f < at'[p]
                                 THEN staging[p][f] ELSE found.files[f]
                 /\ f \in copied[p] /\ f < at'[p] => f \in published'[p]
                 /\ f \in published'[p] => f \in copied[p]
      <3>1. f \in Due(p) <=> f \in copied[p] /\ f = at[p]
        BY <1>1, MigrationBounds DEF Due, File, ReceiptFile
      <3>2. f < at'[p] <=> f < at[p] \/ f = at[p]
        BY <1>1 DEF File
      <3>3. f = at[p] => ~(f < at[p])
        BY <1>1 DEF File
      <3>4. target'[f] = IF f = at[p] /\ f \in copied[p] THEN staging[p][f] ELSE target[f]
        BY <1>0, <1>1 DEF Publishes, DiskTypes, Files
      <3>5. QED
        BY <1>1, <2>2, <3>1, <3>2, <3>3, <3>4 DEF PublishedSoFar
    <2>4. QED
      BY <1>3, <2>1, <2>3 DEF Publishes, PublishedSoFar
  <1>6. QED
    BY <1>0, <1>1, <1>2, <1>4, <1>5 DEF Publishes, RunInv

\* When the loop is through, the target is what the entries say.
LEMMA TargetIsRecorded ==
    ASSUME IInv, NEW p \in Runners, pc[p] = "publish", at[p] = N + 1
    PROVE  files[p] = target
  <1>0. DiskTypes /\ RunTypes /\ RunInv(p)
    BY Types DEF IInv
  <1>1. Planned(p) /\ PublishedSoFar(p)
    BY <1>0 DEF RunInv
  <1>2. ASSUME NEW f \in File
        PROVE  files[p][f] = target[f]
    <2>1. f < at[p]
      BY MigrationBounds DEF File
    <2>2. QED
      BY <1>1, <2>1 DEF Planned, PublishedSoFar
  <1>3. files[p] \in Files /\ target \in Files
    BY <1>0 DEF RunTypes, DiskTypes
  <1>4. QED
    BY <1>2, <1>3 DEF Files

LEMMA WritesReceiptStep ==
    ASSUME IInv, NEW p \in Runners, WritesReceipt(p)
    PROVE  FolderHolds' /\ RunInv(p)' /\ SparesOthers(p) /\ ReceiptHolds'
  <1>0. DiskTypes /\ RunTypes /\ Coupling /\ FolderHolds /\ RunInv(p)
    BY Types DEF IInv
  <1>1. /\ pc[p] = "publish" /\ pc'[p] = "publish" /\ at[p] = N + 1 /\ at'[p] = N + 2
        /\ folder /\ folder'
        /\ Planned(p) /\ PublishedSoFar(p) /\ First(source[p]) /\ staging[p] = sources[source[p]]
        /\ (created[p] => found.files = Empty) /\ found.receipt = NoReceipt
    BY <1>0, MigrationBounds DEF WritesReceipt, Mine, RunInv, RunTypes, ReceiptFile
  <1>2. FolderHolds' /\ SparesOthers(p)
    BY <1>0, <1>1 DEF WritesReceipt, FolderHolds, SparesOthers, RunTypes
  <1>3. receipt' = [source |-> source[p], files |-> files[p]] /\ target' = target
    BY DEF WritesReceipt
  <1>4. ReceiptHolds'
    BY <1>1, <1>3, TargetIsRecorded DEF ReceiptHolds
  <1>5. Planned(p)' /\ First(source[p])'
    BY <1>1 DEF WritesReceipt, Planned, First, HasData
  <1>6. published'[p] = published[p] \cup {N + 1}
    BY <1>0, <1>1 DEF WritesReceipt, Due, ReceiptFile, RunTypes
  <1>7. PublishedSoFar(p)'
    <2>1. ASSUME NEW f \in File
          PROVE  f < at[p] /\ f < at'[p] /\ f # N + 1
      BY <1>1, MigrationBounds DEF File
    <2>2. QED
      BY <1>1, <1>3, <1>4, <1>6, <2>1 DEF WritesReceipt, PublishedSoFar
  <1>8. QED
    BY <1>0, <1>1, <1>2, <1>4, <1>5, <1>7 DEF WritesReceipt, RunInv

\* What was found is still there while p publishes or undoes.
LEMMA FoundIsThere ==
    ASSUME IInv, NEW p \in Runners, pc[p] \in {"publish", "undo"}
    PROVE  \A f \in File : found.files[f] # Missing => target[f] = found.files[f]
  <1>0. RunInv(p)
    BY DEF IInv
  <1>1. CASE pc[p] = "publish"
    BY <1>0, <1>1 DEF RunInv, Planned, PublishedSoFar
  <1>2. CASE pc[p] = "undo"
    BY <1>0, <1>2 DEF RunInv, UndoneSoFar
  <1>3. QED
    BY <1>1, <1>2

LEMMA PublishedStep ==
    ASSUME IInv, NEW p \in Runners, Published(p)
    PROVE  FolderHolds' /\ RunInv(p)' /\ SparesOthers(p)
  <1>0. DiskTypes /\ RunTypes /\ Coupling /\ FolderHolds /\ RunInv(p)
    BY Types DEF IInv
  <1>1. pc[p] = "publish" /\ pc'[p] = "clean" /\ at[p] = N + 2 /\ outcome'[p] = "done"
    BY <1>0 DEF Published, Mine, Leaves, Goes, RunTypes
  <1>2. FolderHolds' /\ SparesOthers(p)
    BY <1>0 DEF Published, Leaves, Goes, disk, FolderHolds, SparesOthers, RunTypes
  <1>3. receipt # NoReceipt /\ ReceiptHolds
    <2>1. PublishedSoFar(p)
      BY <1>0, <1>1 DEF RunInv
    <2>2. receipt = [source |-> source[p], files |-> files[p]] /\ ReceiptHolds
      BY <1>1, <2>1 DEF PublishedSoFar
    <2>3. receipt \in Receipt
      BY <1>0, <1>1, <2>2 DEF RunTypes, Coupling, Receipt
    <2>4. QED
      BY <2>2, <2>3, MigrationSentinels
  <1>4. Result(p)'
    BY <1>1, <1>3, FoundIsThere DEF Published, disk, Result, ReceiptHolds
  <1>5. QED
    BY <1>0, <1>1, <1>2, <1>4 DEF Published, disk, RunInv

\* The receipt is the first to go, so what is unlinked after that is in none.
LEMMA RollsBackStep ==
    ASSUME IInv, NEW p \in Runners, RollsBack(p)
    PROVE  FolderHolds' /\ RunInv(p)' /\ SparesOthers(p) /\ receipt' = NoReceipt
  <1>0. DiskTypes /\ RunTypes /\ Coupling /\ FolderHolds /\ RunInv(p)
    BY Types DEF IInv
  <1>1. pc[p] = "undo" /\ folder /\ UndoneSoFar(p)
    BY <1>0 DEF RollsBack, Mine, RunInv
  <1>2. PICK i \in published[p] : (\A j \in published[p] : j <= i) /\ Unlinks(p, i)
    BY DEF RollsBack
  <1>3. FolderHolds' /\ SparesOthers(p)
    BY <1>0, <1>1, <1>2 DEF Unlinks, FolderHolds, SparesOthers, RunTypes
  <1>4. receipt' = NoReceipt
    <2>1. i \in 1..N + 1
      BY <1>0, <1>2 DEF RunTypes
    <2>2. N + 1 \in published[p] => i = N + 1
      BY <1>2, <2>1, MigrationBounds
    <2>3. QED
      BY <1>1, <1>2, <2>2 DEF Unlinks, UndoneSoFar, ReceiptFile
  <1>5. published'[p] = published[p] \ {i}
    BY <1>0, <1>2 DEF Unlinks, RunTypes
  <1>6. UndoneSoFar(p)'
    <2>1. ASSUME NEW f \in File
          PROVE  /\ target'[f] # found.files[f] => f \in published'[p]
                 /\ f \in published'[p] => found.files[f] = Missing
      <3>1. target'[f] = IF f = i THEN Missing ELSE target[f]
        BY <1>2 DEF Unlinks
      <3>2. QED
        BY <1>1, <1>2, <1>5, <3>1 DEF UndoneSoFar
    <2>2. QED
      BY <1>1, <1>2, <1>4, <2>1 DEF Unlinks, UndoneSoFar
  <1>7. QED
    BY <1>0, <1>1, <1>2, <1>3, <1>4, <1>6 DEF Unlinks, RunInv


\* With nothing left to undo the disk is as it was found.
LEMMA AllUndone ==
    ASSUME IInv, NEW p \in Runners, pc[p] = "undo", published[p] = {}
    PROVE  outcome[p] = "raised" /\ Result(p)
  <1>0. DiskTypes /\ RunInv(p)
    BY Types DEF IInv
  <1>1. UndoneSoFar(p) /\ found.receipt = NoReceipt
    BY <1>0 DEF RunInv
  <1>2. \A f \in File : target[f] = found.files[f]
    BY <1>1 DEF UndoneSoFar
  <1>3. target = found.files
    BY <1>0, <1>2 DEF DiskTypes, Files
  <1>4. receipt = NoReceipt
    BY <1>1 DEF UndoneSoFar
  <1>5. QED
    BY <1>1, <1>2, <1>3, <1>4 DEF Result, Untouched, UndoneSoFar

LEMMA RolledBackStep ==
    ASSUME IInv, NEW p \in Runners, RolledBack(p)
    PROVE  FolderHolds' /\ RunInv(p)' /\ SparesOthers(p)
  <1>0. RunTypes /\ FolderHolds /\ RunInv(p) /\ Result(p)
    BY Types, AllUndone DEF IInv, RolledBack, Mine
  <1>1. pc[p] = "undo" /\ pc'[p] = "clean"
    BY <1>0 DEF RolledBack, Mine, Goes, RunTypes
  <1>2. FolderHolds' /\ SparesOthers(p)
    BY <1>0 DEF RolledBack, Goes, disk, FolderHolds, SparesOthers, RunTypes
  <1>3. Result(p)'
    BY <1>0 DEF RolledBack, disk, Result, Untouched, ReceiptHolds
  <1>4. QED
    BY <1>0, <1>1, <1>2, <1>3 DEF RolledBack, disk, RunInv

\* The run's end, in order or by death.
LEMMA EndingSteps ==
    ASSUME IInv, NEW p \in Runners, Cleans(p) \/ Dies(p)
    PROVE  FolderHolds' /\ RunInv(p)' /\ SparesOthers(p)
  <1>0. DiskTypes /\ RunTypes /\ Coupling /\ FolderHolds
    BY Types DEF IInv
  <1>1. CASE Cleans(p)
    <2>1. Ends(p, outcome[p]) /\ target' = target /\ receipt' = receipt
          /\ folder' = (folder /\ ~(created[p] /\ target = Empty /\ receipt = NoReceipt))
      BY <1>1 DEF Cleans, FolderGoes
    <2>2. FolderHolds'
      BY <1>0, <2>1 DEF FolderHolds
    <2>3. QED
      BY <1>0, <2>1, <2>2, EndsRun DEF Ends, Goes, SparesOthers, RunTypes
  <1>2. CASE Dies(p)
    <2>1. Ends(p, "nothing") /\ target' = target /\ receipt' = receipt /\ folder' = folder
      BY <1>2 DEF Dies
    <2>2. FolderHolds'
      BY <1>0, <2>1 DEF FolderHolds
    <2>3. QED
      BY <1>0, <2>1, <2>2, EndsRun DEF Ends, Goes, SparesOthers, RunTypes
  <1>3. QED
    BY <1>1, <1>2

LEMMA RaisesStep ==
    ASSUME IInv, NEW p \in Runners, Raises(p)
    PROVE  FolderHolds' /\ RunInv(p)' /\ SparesOthers(p)
  <1>0. DiskTypes /\ RunTypes /\ Coupling /\ FolderHolds /\ RunInv(p)
    BY Types DEF IInv
  <1>1. UNCHANGED <<sources, target, receipt, found>>
    BY DEF Raises
  <1>2. FolderHolds'
    <2>1. \/ folder' \in {folder, TRUE}
          \/ folder' = (folder /\ ~(created[p] /\ target = Empty /\ receipt = NoReceipt))
      BY DEF Raises, FolderGoes
    <2>2. QED
      BY <1>0, <1>1, <2>1 DEF FolderHolds
  <1>3. CASE pc[p] \in {"select", "check", "clean"}
    <2>1. PICK how : Ends(p, how)
      BY <1>3 DEF Raises, Mine
    <2>2. QED
      BY <1>0, <1>2, <2>1, EndsRun DEF Ends, Goes, SparesOthers, RunTypes
  <1>4. CASE pc[p] \in {"stage", "validate"}
    <2>1. /\ Leaves(p, "clean", "raised")
          /\ UNCHANGED <<staging, lock, at, source, created, copied, files, published, said>>
      BY <1>4 DEF Raises, Mine
    <2>2. pc'[p] = "clean" /\ outcome'[p] = "raised"
      BY <1>0, <2>1 DEF Leaves, Goes, RunTypes
    <2>3. Result(p)'
      BY <1>0, <1>1, <1>4, <2>2 DEF RunInv, Result, Untouched
    <2>4. RunInv(p)'
      BY <1>0, <1>1, <1>4, <2>1, <2>2, <2>3 DEF RunInv
    <2>5. QED
      BY <1>0, <1>2, <2>1, <2>4 DEF Leaves, Goes, SparesOthers, RunTypes
  <1>5. CASE pc[p] = "publish"
    <2>1. /\ Leaves(p, "undo", "raised")
          /\ UNCHANGED <<folder, staging, lock, at, source, created, copied, files, said>>
      BY <1>5 DEF Raises, Mine
    <2>2. PICK tried \in SUBSET Due(p) : published' = [published EXCEPT ![p] = @ \cup tried]
      BY <1>5 DEF Raises, Mine
    <2>3. pc'[p] = "undo" /\ outcome'[p] = "raised" /\ published'[p] = published[p] \cup tried
      BY <1>0, <2>1, <2>2 DEF Leaves, Goes, RunTypes
    <2>4. Planned(p) /\ PublishedSoFar(p) /\ folder
      BY <1>0, <1>5 DEF RunInv
    <2>5. ASSUME NEW f \in File
          PROVE  /\ target[f] # found.files[f] => f \in published'[p]
                 /\ f \in published'[p] => found.files[f] = Missing
      <3>1. f \in tried => f \in copied[p]
        BY MigrationBounds DEF Due, File, ReceiptFile
      <3>2. QED
        BY <2>3, <2>4, <3>1 DEF Planned, PublishedSoFar
    <2>6. receipt # NoReceipt => N + 1 \in published'[p] /\ ReceiptHolds
      BY <2>3, <2>4 DEF PublishedSoFar
    <2>7. UndoneSoFar(p)'
      BY <1>1, <2>3, <2>5, <2>6 DEF UndoneSoFar, ReceiptHolds
    <2>8. RunInv(p)'
      BY <1>0, <1>1, <1>5, <2>1, <2>3, <2>4, <2>7 DEF RunInv
    <2>9. SparesOthers(p)
      BY <1>0, <2>1, <2>2 DEF Leaves, Goes, SparesOthers, RunTypes
    <2>10. QED
      BY <1>2, <2>8, <2>9
  <1>6. CASE pc[p] = "undo"
    <2> DEFINE how == IF published[p] = {} THEN outcome[p] ELSE "torn"
    <2>1. /\ Leaves(p, "clean", how)
          /\ UNCHANGED <<folder, staging, lock, at, source, created, copied, files, published,
                         said>>
      BY <1>6 DEF Raises, Mine
    <2>2. pc'[p] = "clean" /\ outcome'[p] = how
      BY <1>0, <2>1 DEF Leaves, Goes, RunTypes
    <2>3. Result(p)'
      <3>1. CASE published[p] = {}
        <4>1. outcome'[p] = "raised" /\ Untouched
          BY <1>6, <2>2, <3>1, AllUndone DEF Result
        <4>2. QED
          BY <1>1, <1>6, <4>1, FoundIsThere DEF Result, Untouched
      <3>2. CASE published[p] # {}
        BY <1>1, <1>6, <2>2, <3>2, FoundIsThere DEF Result
      <3>3. QED
        BY <3>1, <3>2
    <2> HIDE DEF how
    <2>4. RunInv(p)'
      BY <1>0, <1>1, <1>6, <2>1, <2>2, <2>3 DEF RunInv
    <2>5. QED
      BY <1>0, <1>2, <2>1, <2>4 DEF Leaves, Goes, SparesOthers, RunTypes
  <1>7. QED
    BY <1>0, <1>3, <1>4, <1>5, <1>6 DEF Raises, RunTypes, PC

\* Every step keeps the invariant.
LEMMA StepInv == IInv /\ [Next]_vars => IInv'
  <1> SUFFICES ASSUME IInv, [Next]_vars PROVE IInv'
    OBVIOUS
  <1>0. TypeOK' /\ DiskTypes /\ RunTypes /\ Coupling /\ FolderHolds /\ \A q \in Runners : RunInv(q)
    BY StepTypes, Types DEF IInv
  <1>1. ASSUME NEW p \in Runners, Acquires(p) \/ RunnerNext(p) \/ Raises(p) \/ Dies(p)
        PROVE  IInv'
    <2>1. lock \in {p, NoOne}
      BY <1>0, <1>1 DEF RunnerNext, Acquires, Selects, Checks, Stages, Validates, Publishes,
                        WritesReceipt, Published, RollsBack, RolledBack, Cleans, Raises, Dies,
                        Mine, Coupling
    <2>2. FolderHolds' /\ RunInv(p)' /\ SparesOthers(p)
      BY <1>1, EarlySteps, ValidatesStep, PublishesStep, WritesReceiptStep, PublishedStep,
         RollsBackStep, RolledBackStep, EndingSteps, RaisesStep DEF RunnerNext
    <2>3. \A q \in Runners : RunInv(q)'
      BY <1>0, <2>1, <2>2, OwnStepSuffices
    <2>4. QED
      BY <1>0, <2>2, <2>3 DEF IInv
  <1>2. CASE Outside
    <2>1. FolderHolds'
      BY <1>0, <1>2 DEF Outside, FolderHolds
    <2>2. ASSUME NEW q \in Runners
          PROVE  RunInv(q)'
      <3>1. pc[q] = "idle"
        BY <1>0, <1>2, MigrationSentinels DEF Outside, Coupling
      <3>2. QED
        BY <1>0, <1>2, <3>1, RestingKeeps DEF Outside, locals
    <2>3. QED
      BY <1>0, <2>1, <2>2 DEF IInv
  <1>3. CASE UNCHANGED vars
    <2>1. FolderHolds'
      BY <1>0, <1>3 DEF vars, disk, FolderHolds
    <2>2. \A q \in Runners : RunInv(q)'
      BY <1>0, <1>3 DEF vars, disk, locals, RunInv, Untouched, Planned, PublishedSoFar, UndoneSoFar,
                        Result, First, HasData, ReceiptHolds
    <2>3. QED
      BY <1>0, <2>1, <2>2 DEF IInv
  <1>4. QED
    BY <1>1, <1>2, <1>3 DEF Next

LEMMA Invariance == Spec => []IInv
  BY InitInv, StepInv, PTL DEF Spec

-----------------------------------------------------------------------------
(* What follows.                                                            *)

\* No run overwrites or deletes a file that was in the target before it.
THEOREM ForeignFilesStay == Spec => []KeepsWhatWasThere
  <1>1. ASSUME IInv PROVE KeepsWhatWasThere
    <2>1. SUFFICES ASSUME lock # NoOne, NEW f \in File, found.files[f] # Missing
                   PROVE  target[f] = found.files[f]
      BY DEF KeepsWhatWasThere
    <2>2. DiskTypes /\ RunTypes /\ Coupling
      BY <1>1, Types DEF IInv
    <2>3. PICK p \in Runners : lock = p
      BY <2>1, <2>2 DEF DiskTypes
    <2>4. pc[p] # "idle" /\ RunInv(p)
      BY <1>1, <2>2, <2>3 DEF Coupling, IInv
    <2>5. CASE pc[p] \in {"publish", "undo"}
      BY <1>1, <2>1, <2>5, FoundIsThere
    <2>6. CASE pc[p] = "clean"
      BY <2>1, <2>4, <2>6 DEF RunInv, Result
    <2>7. CASE pc[p] \in {"select", "check", "stage", "validate"}
      BY <2>4, <2>7 DEF RunInv, Untouched
    <2>8. QED
      BY <2>2, <2>4, <2>5, <2>6, <2>7 DEF RunTypes, PC
  <1>2. QED
    BY <1>1, Invariance, PTL


\* Most steps change neither the target nor the receipt.
LEMMA QuietSteps ==
    ASSUME IInv, NEW p \in Runners,
           \/ Acquires(p) \/ Selects(p) \/ Checks(p) \/ Stages(p) \/ Validates(p)
           \/ Published(p) \/ RolledBack(p) \/ Cleans(p) \/ Raises(p) \/ Dies(p)
    PROVE  target' = target /\ receipt' = receipt
  BY DEF Acquires, Selects, Checks, Stages, Validates, Published, RolledBack, Cleans, Raises, Dies,
         disk

\* A run that says "done" ends there, and leaves a receipt that holds.
LEMMA DoneIsTrue ==
    ASSUME IInv, NEW p \in Runners, Acquires(p) \/ RunnerNext(p) \/ Raises(p) \/ Dies(p),
           lock' = NoOne, said' = "done"
    PROVE  receipt' # NoReceipt /\ ReceiptHolds'
  <1>0. DiskTypes /\ RunTypes /\ Coupling /\ RunInv(p)
    BY Types DEF IInv
  <1>1. ~Acquires(p)
    BY MigrationSentinels DEF Acquires
  <1>2. lock = p /\ lock # NoOne
    BY <1>0, <1>1, MigrationSentinels
    DEF RunnerNext, Selects, Checks, Stages, Validates, Publishes, WritesReceipt, Published,
        RollsBack, RolledBack, Cleans, Raises, Dies, Mine, Coupling
  <1>3. ~Selects(p) /\ ~Dies(p)
    BY <1>2 DEF Selects, Dies, Ends
  <1>4. ~Stages(p) /\ ~Validates(p) /\ ~Publishes(p) /\ ~WritesReceipt(p) /\ ~Published(p)
        /\ ~RollsBack(p) /\ ~RolledBack(p)
    BY <1>2 DEF Stages, Validates, Publishes, WritesReceipt, Published, RollsBack, Unlinks,
                RolledBack, disk
  <1>5. ~Raises(p)
    BY <1>2 DEF Raises, Ends
  <1>6. CASE Checks(p)
    BY <1>2, <1>6 DEF Checks, Ends, ReceiptHolds
  <1>7. CASE Cleans(p)
    <2>1. outcome[p] = "done" /\ Result(p)
      BY <1>0, <1>7 DEF Cleans, Mine, Ends, RunInv
    <2>2. QED
      BY <1>7, <2>1 DEF Cleans, Result, ReceiptHolds
  <1>8. QED
    BY <1>1, <1>3, <1>4, <1>5, <1>6, <1>7 DEF RunnerNext

\* No step of a run makes a receipt false, and none succeeds without a true one.
THEOREM ReceiptsAreTrue == Spec => ReceiptIsTrue
  <1> DEFINE Kept == receipt' # NoReceipt /\ (receipt = NoReceipt \/ ReceiptHolds) => ReceiptHolds'
             Told == pc' # pc /\ lock' = NoOne /\ said' = "done"
                        => receipt' # NoReceipt /\ ReceiptHolds'
  <1>1. ASSUME IInv, [Next]_vars
        PROVE  [moves' = moves => Kept /\ Told]_vars
    <2>0. DiskTypes /\ RunTypes /\ \A q \in Runners : RunInv(q)
      BY <1>1, Types DEF IInv
    <2>1. ASSUME NEW p \in Runners, Acquires(p) \/ RunnerNext(p) \/ Raises(p) \/ Dies(p)
          PROVE  Kept /\ Told
      <3>1. ASSUME \/ Acquires(p) \/ Selects(p) \/ Checks(p) \/ Stages(p) \/ Validates(p)
                   \/ Published(p) \/ RolledBack(p) \/ Cleans(p) \/ Raises(p) \/ Dies(p)
            PROVE  Kept
        BY <1>1, <3>1, QuietSteps DEF ReceiptHolds
      <3>2. ASSUME Publishes(p) PROVE Kept
        <4>1. at[p] # N + 2 /\ PublishedSoFar(p)
          BY <2>0, <3>2, MigrationBounds DEF Publishes, Mine, File, RunInv
        <4>2. receipt' = NoReceipt
          BY <3>2, <4>1 DEF Publishes, PublishedSoFar
        <4>3. QED
          BY <4>2
      <3>3. ASSUME WritesReceipt(p) PROVE Kept
        BY <1>1, <3>3, WritesReceiptStep
      <3>4. ASSUME RollsBack(p) PROVE Kept
        BY <1>1, <3>4, RollsBackStep
      <3>5. Kept
        BY <2>1, <3>1, <3>2, <3>3, <3>4 DEF RunnerNext
      <3>6. Told
        BY <1>1, <2>1, DoneIsTrue
      <3>7. QED
        BY <3>5, <3>6
    <2>2. CASE Outside
      BY <2>0, <2>2 DEF Outside, DiskTypes
    <2>3. QED
      BY <1>1, <2>1, <2>2 DEF Next
  <1>2. QED
    BY <1>1, Invariance, PTL DEF Spec, ReceiptIsTrue

\* Only WritesReceipt brings a receipt about, and then all its source has is there.
THEOREM ReceiptsAreComplete == Spec => ReceiptIsComplete
  <1> DEFINE Whole ==
               LET s == receipt'.source
               IN  First(s) /\ \A f \in File : sources[s][f] # Missing => target'[f] = sources[s][f]
  <1>1. ASSUME IInv, [Next]_vars, receipt = NoReceipt, receipt' # NoReceipt
        PROVE  Whole
    <2>0. DiskTypes /\ RunTypes /\ \A q \in Runners : RunInv(q)
      BY <1>1, Types DEF IInv
    <2>1. PICK p \in Runners : Acquires(p) \/ RunnerNext(p) \/ Raises(p) \/ Dies(p)
      BY <1>1 DEF Next, Outside, vars, disk
    <2>2. WritesReceipt(p)
      BY <1>1, <2>1, QuietSteps, RollsBackStep DEF RunnerNext, Publishes
    <2>3. /\ pc[p] = "publish" /\ at[p] = N + 1 /\ target' = target
          /\ receipt' = [source |-> source[p], files |-> files[p]]
      BY <2>2 DEF WritesReceipt, Mine, ReceiptFile
    <2>4. First(source[p]) /\ staging[p] = sources[source[p]] /\ Planned(p)
      BY <2>0, <2>3 DEF RunInv
    <2>5. files[p] = target
      BY <1>1, <2>3, TargetIsRecorded
    <2>6. QED
      BY <2>3, <2>4, <2>5 DEF Planned
  <1>2. QED
    BY <1>1, Invariance, PTL DEF Spec, ReceiptIsComplete

\* A run that raised has restored what it found, the directory included, and one
\* whose finally clauses raised has at least done all or nothing.
THEOREM FailuresRestore == Spec => FailureRestores
  <1> DEFINE Restored == target' = found.files /\ receipt' = found.receipt
             Over(p) == pc[p] # "idle" /\ pc'[p] = "idle"
             Told(p) ==
                /\ said' = "raised" => Restored /\ (created[p] => ~folder')
                /\ said' = "unclean" => Restored \/ (receipt' # NoReceipt /\ ReceiptHolds')
  <1>1. ASSUME IInv, [Next]_vars, NEW p \in Runners, Over(p)
        PROVE  Told(p)
    <2>0. DiskTypes /\ RunTypes /\ Coupling /\ RunInv(p)
      BY <1>1, Types DEF IInv
    <2>1. lock = p /\ lock # NoOne
      BY <1>1, <2>0, MigrationSentinels DEF Coupling
    <2>2. PICK q \in Runners : Acquires(q) \/ RunnerNext(q) \/ Raises(q) \/ Dies(q)
      BY <1>1, <2>1 DEF Next, Outside, vars, locals
    <2>3. q = p
      BY <2>0, <2>1, <2>2, MigrationSentinels
      DEF RunnerNext, Acquires, Selects, Checks, Stages, Validates, Publishes, WritesReceipt,
          Published, RollsBack, RolledBack, Cleans, Raises, Dies, Mine, Coupling
    <2>4. CASE Cleans(p)
      <3>1. said' = outcome[p] /\ Result(p)
        BY <2>0, <2>4 DEF Cleans, Mine, Ends, RunInv
      <3>2. CASE outcome[p] = "raised"
        <4>1. Untouched /\ (created[p] => found.files = Empty /\ found.receipt = NoReceipt)
          BY <2>0, <3>1, <3>2 DEF Result, RunInv
        <4>2. QED
          BY <2>4, <3>1, <3>2, <4>1 DEF Cleans, FolderGoes, Untouched
      <3>3. QED
        BY <3>1, <3>2 DEF Result
    <2>5. CASE pc[p] \in {"select", "check"}
      <3>1. Untouched /\ ~created[p]
        BY <2>0, <2>5 DEF RunInv
      <3>2. Selects(p) \/ Checks(p) \/ Raises(p) \/ Dies(p)
        BY <2>1, <2>2, <2>3, <2>5 DEF RunnerNext, Acquires, Stages, Validates, Publishes,
                                      WritesReceipt, Published, RollsBack, RolledBack, Cleans, Mine
      <3>3. target' = target /\ receipt' = receipt
        BY <1>1, <3>2, QuietSteps
      <3>4. QED
        BY <3>1, <3>3 DEF Untouched
    <2>6. CASE Raises(p) /\ pc[p] = "clean"
      <3>1. said' \in {"torn", "unclean"} /\ (said' = "unclean" => outcome[p] # "torn")
        BY <2>6 DEF Raises, Mine, Ends
      <3>2. Result(p) /\ target' = target /\ receipt' = receipt
        BY <2>0, <2>6 DEF RunInv, Raises
      <3>3. said' = "unclean" => Restored \/ (receipt' # NoReceipt /\ ReceiptHolds')
        BY <3>1, <3>2 DEF Result, Untouched, ReceiptHolds
      <3>4. QED
        BY <3>1, <3>3
    <2>7. CASE pc[p] \notin {"select", "check"} /\ ~Cleans(p) /\ ~(Raises(p) /\ pc[p] = "clean")
      <3>1. ~Acquires(p) /\ ~Selects(p) /\ ~Checks(p)
        BY <1>1, <2>7 DEF Acquires, Selects, Checks, Mine
      <3>2. Dies(p) => Told(p)
        BY DEF Dies, Ends
      <3>3. ~Raises(p)
        BY <1>1, <2>0, <2>7 DEF Raises, Mine, Leaves, Goes, RunTypes, PC
      <3>4. ~Stages(p) /\ ~Validates(p) /\ ~Publishes(p) /\ ~WritesReceipt(p) /\ ~Published(p)
            /\ ~RollsBack(p) /\ ~RolledBack(p)
        BY <1>1, <2>0 DEF Stages, Validates, Publishes, WritesReceipt, Published, RollsBack, Unlinks,
                          RolledBack, Leaves, Goes, RunTypes
      <3>5. QED
        BY <2>2, <2>3, <2>7, <3>1, <3>2, <3>3, <3>4 DEF RunnerNext
    <2>8. QED
      BY <2>4, <2>5, <2>6, <2>7
  <1>2. ASSUME IInv, [Next]_vars
        PROVE  [\A p \in Runners : Over(p) => Told(p)]_vars
    BY <1>1, <1>2
  <1>3. QED
    BY <1>2, Invariance, PTL DEF Spec, FailureRestores

-----------------------------------------------------------------------------
(* Progress, as far as it is safety.                                        *)

LEMMA OnlyTheHolder ==
    ASSUME IInv, NEW p \in Runners, pc[p] # "idle", Next
    PROVE  RunnerNext(p) \/ Raises(p) \/ Dies(p)
  <1>0. DiskTypes /\ RunTypes /\ Coupling
    BY Types DEF IInv
  <1>1. lock = p /\ lock # NoOne
    BY <1>0, MigrationSentinels DEF Coupling
  <1>2. PICK q \in Runners : Acquires(q) \/ RunnerNext(q) \/ Raises(q) \/ Dies(q)
    BY <1>1 DEF Next, Outside
  <1>3. ~Acquires(q)
    BY <1>1 DEF Acquires
  <1>4. q = p
    BY <1>0, <1>1, <1>2, <1>3
    DEF RunnerNext, Selects, Checks, Stages, Validates, Publishes, WritesReceipt, Published,
        RollsBack, RolledBack, Cleans, Raises, Dies, Mine, Coupling
  <1> QED BY <1>2, <1>3, <1>4

\* Where an exception takes a run.
LEMMA ExceptionsLead ==
    ASSUME RunTypes, NEW p \in Runners, Raises(p)
    PROVE  \E where \in {"idle", "undo", "clean"}, how \in {"none", "raised", "torn", "done"} :
              /\ pc' = [pc EXCEPT ![p] = where] /\ outcome' = [outcome EXCEPT ![p] = how]
              /\ where = "idle" => how = "none"
              /\ pc[p] # "idle"
              /\ where = "clean" => pc[p] \in {"stage", "validate", "undo"}
              /\ where = "undo" => pc[p] = "publish"
  <1>0. pc[p] \in PC \ {"idle"}
    BY DEF Raises, RunTypes
  <1>1. CASE pc[p] \in {"select", "check", "clean"}
    <2>1. PICK how : Ends(p, how)
      BY <1>1 DEF Raises, Mine
    <2> QED BY <1>0, <1>1, <2>1 DEF Ends, Goes
  <1>2. CASE pc[p] \in {"stage", "validate"}
    <2>1. Leaves(p, "clean", "raised")
      BY <1>2 DEF Raises, Mine
    <2> QED BY <1>0, <1>2, <2>1 DEF Leaves, Goes
  <1>3. CASE pc[p] = "publish"
    <2>1. Leaves(p, "undo", "raised")
      BY <1>3 DEF Raises, Mine
    <2> QED BY <1>0, <1>3, <2>1 DEF Leaves, Goes
  <1>4. CASE pc[p] = "undo"
    <2> DEFINE how == IF published[p] = {} THEN outcome[p] ELSE "torn"
    <2>1. Leaves(p, "clean", how)
      BY <1>4 DEF Raises, Mine
    <2>2. how \in {"none", "raised", "torn", "done"}
      BY DEF RunTypes
    <2> HIDE DEF how
    <2> QED BY <1>0, <1>4, <2>1, <2>2 DEF Leaves, Goes
  <1> QED BY <1>0, <1>1, <1>2, <1>3, <1>4 DEF PC

\* Every step under the lock brings its holder nearer to letting it go:
\* HolderComesToAnEnd, of migrate_v2_data from the lock to its finally clauses,
\* for any number of files.
THEOREM HoldersComeToAnEnd == Spec => HolderComesToAnEnd
  <1> DEFINE Nearer(p) == \/ StagesLeft(p)' < StagesLeft(p)
                          \/ StagesLeft(p)' = StagesLeft(p) /\ FilesLeft(p)' < FilesLeft(p)
  <1>1. ASSUME IInv, Next, NEW p \in Runners, lock = p PROVE Nearer(p)
    <2>0. RunTypes /\ Coupling /\ pc[p] # "idle" /\ pc[p] \in PC
      BY <1>1, Types DEF IInv, Coupling, RunTypes
    <2>1. RunnerNext(p) \/ Raises(p) \/ Dies(p)
      BY <1>1, <2>0, OnlyTheHolder
    <2> USE DEF RunTypes, Goes
    <2>2. CASE Selects(p) \/ Checks(p) \/ Stages(p) \/ Validates(p)
      BY <2>0, <2>2 DEF Selects, Checks, Stages, Validates, Ends, Leaves, Mine, StagesLeft
    <2>3. CASE Publishes(p) \/ WritesReceipt(p)
      <3>1. pc' = pc /\ pc[p] = "publish" /\ at'[p] = at[p] + 1 /\ at[p] \in 1..N + 1
        BY <2>0, <2>3, MigrationBounds DEF Publishes, WritesReceipt, Mine, File, ReceiptFile
      <3> QED BY <3>1, MigrationBounds DEF StagesLeft, FilesLeft
    <2>4. CASE Published(p) \/ RolledBack(p) \/ Cleans(p)
      BY <2>0, <2>4 DEF Published, RolledBack, Cleans, Ends, Leaves, Mine, StagesLeft
    <2>5. CASE RollsBack(p)
      <3>1. PICK i \in published[p] : published'[p] = published[p] \ {i}
        BY <2>0, <2>5 DEF RollsBack, Unlinks
      <3>2. pc' = pc /\ pc[p] = "undo"
        BY <2>5 DEF RollsBack, Unlinks, Mine
      <3>3. IsFiniteSet(published[p]) /\ Cardinality(published[p]) \in Nat
        <4>1. IsFiniteSet(1..N + 1) /\ published[p] \subseteq 1..N + 1
          BY <2>0, MigrationBounds, FS_Interval
        <4> QED BY <4>1, FS_Subset, FS_CardinalityType
      <3>4. Cardinality(published'[p]) = Cardinality(published[p]) - 1
        BY <3>1, <3>3, FS_RemoveElement
      <3> QED BY <3>2, <3>3, <3>4 DEF StagesLeft, FilesLeft
    <2>6. CASE Raises(p)
      BY <2>0, <2>6, ExceptionsLead DEF PC, StagesLeft
    <2>7. CASE Dies(p)
      BY <2>0, <2>7 DEF Dies, Ends, PC, StagesLeft
    <2> QED BY <2>1, <2>2, <2>3, <2>4, <2>5, <2>6, <2>7 DEF RunnerNext
  <1>2. IInv /\ [Next]_vars => [\A p \in Runners : lock = p => Nearer(p)]_vars
    BY <1>1
  <1> QED BY <1>2, Invariance, PTL DEF Spec, HolderComesToAnEnd

\* Nothing is decided while a run goes on without an exception.
Undecided == \A p \in Runners : pc[p] \notin {"undo", "clean"} => outcome[p] = "none"

LEMMA UndecidedStep == TypeOK /\ Undecided /\ [Next]_vars => Undecided'
  <1> SUFFICES ASSUME TypeOK, Undecided, [Next]_vars PROVE Undecided'
    OBVIOUS
  <1>0. RunTypes
    BY Types
  <1> USE <1>0 DEF Undecided, Goes, RunTypes, locals, disk
  <1>1. ASSUME NEW p \in Runners, Acquires(p) \/ Selects(p) \/ Checks(p) \/ Stages(p)
        PROVE  Undecided'
    BY <1>1 DEF Acquires, Selects, Checks, Stages, Ends, Mine
  <1>2. ASSUME NEW p \in Runners, Validates(p) \/ Published(p) PROVE Undecided'
    BY <1>2 DEF Validates, Published, Leaves, Mine
  <1>3. ASSUME NEW p \in Runners, Publishes(p) \/ WritesReceipt(p) \/ RollsBack(p) PROVE Undecided'
    BY <1>3 DEF Publishes, WritesReceipt, RollsBack, Unlinks
  <1>4. ASSUME NEW p \in Runners, RolledBack(p) \/ Cleans(p) \/ Dies(p) PROVE Undecided'
    BY <1>4 DEF RolledBack, Cleans, Dies, Ends
  <1>5. ASSUME NEW p \in Runners, Raises(p) PROVE Undecided'
    BY <1>5, ExceptionsLead
  <1>6. CASE Outside \/ UNCHANGED vars
    BY <1>6 DEF Outside, vars
  <1> QED BY <1>1, <1>2, <1>3, <1>4, <1>5, <1>6 DEF Next, RunnerNext

\* The first place is one place.
LEMMA FirstIsOne ==
    ASSUME NEW r \in Place, NEW s \in Place, First(r), First(s)
    PROVE  r = s
  <1>1. ~(r < s) /\ ~(s < r)
    BY MigrationBounds DEF First, Place
  <1> QED BY <1>1, MigrationBounds DEF Place

\* A run leaves nothing that stops the next, and without a receipt gets through,
\* as long as nobody else writes: NoRunIsInTheWay, of _validate_targets and of the
\* rollback, whose safety is what RerunFinishes rests on.
THEOREM RunsAreNotInTheWay == Spec => NoRunIsInTheWay
  <1> DEFINE Stays == Migratable /\ moves' = moves => Migratable'
             Passes(p) ==
                 Migratable /\ moves' = moves /\ receipt = NoReceipt /\ faults' = faults =>
                     (pc[p] \in {"select", "check", "stage", "validate", "publish"} =>
                         pc'[p] # "idle" /\ outcome'[p] \in {"none", "done"})
  <1>1. ASSUME IInv, Next PROVE Stays
    <2> SUFFICES ASSUME moves' = moves,
                        NEW s \in Place, First(s),
                        \A f \in File : sources[s][f] # Missing =>
                                          target[f] \in {Missing, sources[s][f]}
                 PROVE  Migratable'
      BY DEF Migratable
    <2>0. DiskTypes /\ RunTypes /\ Coupling /\ \A q \in Runners : RunInv(q)
      BY <1>1, Types DEF IInv
    <2>1. PICK p \in Runners : Acquires(p) \/ RunnerNext(p) \/ Raises(p) \/ Dies(p)
      BY <1>1, <2>0 DEF Next, Outside, DiskTypes
    <2>2. sources' = sources
      BY <2>1 DEF RunnerNext, Acquires, Selects, Checks, Stages, Validates, Publishes, WritesReceipt,
                  Published, RollsBack, Unlinks, RolledBack, Cleans, Raises, Dies, disk
    <2>3. \A f \in File : target'[f] \in {target[f], Missing, sources[s][f]}
      <3>1. CASE Publishes(p)
        <4>1. First(source[p]) /\ staging[p] = sources[source[p]] /\ source[p] \in Place
          BY <2>0, <3>1 DEF Publishes, Mine, RunInv, Coupling
        <4>2. staging[p] = sources[s]
          BY <4>1, FirstIsOne
        <4> QED BY <2>0, <3>1, <4>2 DEF Publishes, DiskTypes, Files
      <3>2. CASE RollsBack(p)
        BY <3>2 DEF RollsBack, Unlinks
      <3>3. CASE WritesReceipt(p)
        BY <3>3 DEF WritesReceipt
      <3> QED BY <1>1, <2>1, <3>1, <3>2, <3>3, QuietSteps DEF RunnerNext
    <2>4. First(s)'
      BY <2>2 DEF First, HasData
    <2> QED BY <2>2, <2>3, <2>4 DEF Migratable
  <1>2. ASSUME IInv, Undecided, Next, NEW p \in Runners PROVE Passes(p)
    <2> SUFFICES ASSUME moves' = moves, receipt = NoReceipt, faults' = faults,
                        NEW s \in Place, First(s),
                        \A f \in File : sources[s][f] # Missing =>
                                          target[f] \in {Missing, sources[s][f]},
                        pc[p] \in {"select", "check", "stage", "validate", "publish"}
                 PROVE  pc'[p] # "idle" /\ outcome'[p] \in {"none", "done"}
      BY DEF Migratable
    <2>0. DiskTypes /\ RunTypes /\ Coupling /\ RunInv(p)
      BY <1>2, Types DEF IInv
    <2>1. RunnerNext(p)
      <3>1. RunnerNext(p) \/ Raises(p) \/ Dies(p)
        BY <1>2, OnlyTheHolder
      <3>2. faults' # faults + 1
        BY <2>0 DEF DiskTypes
      <3>3. (Raises(p) \/ Dies(p)) => faults' = faults + 1
        BY DEF Raises, Dies
      <3> QED BY <3>1, <3>2, <3>3
    <2>2. outcome[p] = "none"
      BY <1>2 DEF Undecided
    <2> USE <2>0, <2>2 DEF RunTypes, Goes, Mine
    <2>3. CASE Selects(p)
      BY <2>3 DEF Selects, First
    <2>4. CASE Checks(p) \/ Stages(p)
      BY <2>4 DEF Checks, Stages
    <2>5. CASE Validates(p)
      <3>1. staging[p] = sources[s]
        <4>1. First(source[p]) /\ staging[p] = sources[source[p]] /\ source[p] \in Place
          BY <2>5 DEF Validates, RunInv, Coupling
        <4> QED BY <4>1, FirstIsOne
      <3>2. ~Conflict(p)
        BY <3>1 DEF Conflict
      <3> QED BY <2>5, <3>2 DEF Validates
    <2>6. CASE Publishes(p) \/ WritesReceipt(p)
      BY <2>6 DEF Publishes, WritesReceipt
    <2>7. CASE Published(p)
      BY <2>7 DEF Published, Leaves
    <2>8. ~RollsBack(p) /\ ~RolledBack(p) /\ ~Cleans(p)
      BY DEF RollsBack, RolledBack, Cleans
    <2> QED BY <2>1, <2>3, <2>4, <2>5, <2>6, <2>7, <2>8 DEF RunnerNext
  <1>3. IInv /\ Undecided /\ [Next]_vars => [Stays /\ \A p \in Runners : Passes(p)]_vars
    BY <1>1, <1>2
  <1>4. [Stays /\ \A p \in Runners : Passes(p)]_vars
            => [Migratable /\ moves' = moves =>
                  /\ Migratable'
                  /\ receipt = NoReceipt /\ faults' = faults =>
                        \A p \in Runners :
                            pc[p] \in {"select", "check", "stage", "validate", "publish"} =>
                                pc'[p] # "idle" /\ outcome'[p] \in {"none", "done"}]_vars
    OBVIOUS
  <1>5. Init => Undecided
    BY DEF Init, Undecided
  <1> QED BY <1>3, <1>4, <1>5, UndecidedStep, TypeCorrect, Invariance, PTL
          DEF Spec, NoRunIsInTheWay
=============================================================================
