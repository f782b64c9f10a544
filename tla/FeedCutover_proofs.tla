------------------------- MODULE FeedCutover_proofs -------------------------
(***************************************************************************)
(* Theorems about FeedCutover: its types, that the batch that is committed is *)
(* the operator's and exact, that only its commit acks anything, and that the *)
(* retirement follows that commit.                                          *)
(***************************************************************************)
EXTENDS FeedCutover, TLAPS

ProviderTypes ==
    /\ row \in [Events -> Revs \cup {NoRev}]
    /\ acked \in SUBSET Events
    /\ admitted \in SUBSET Events
    /\ receipt \in Batch \cup {NoBatch}
    /\ wake \in {"none", "sound", "broken"}
    /\ faults \in 0..MaxFaults
    /\ moves \in 0..MaxHost

PC == {"idle", "receipt", "look", "commit", "retire"}
Said == {"nothing", "plan", "unsound", "block", "raised", "empty", "applied"}

CommandTypes ==
    /\ token \in [Runners -> Batch \cup {NoBatch}]
    /\ pc \in [Runners -> PC]
    /\ backlog \in [Runners -> Batch \cup {NoBatch}]
    /\ said \in [Runners -> Said]

InHand == \A p \in Runners : pc[p] # "idle" => backlog[p] \in Batch /\ token[p] \in Batch

LEMMA Types == TypeOK <=> ProviderTypes /\ CommandTypes /\ InHand
  BY DEF TypeOK, ProviderTypes, CommandTypes, InHand, PC, Said

LEMMA BacklogIsBatch ==
    ASSUME ProviderTypes
    PROVE  Backlog \in Batch
  <1> DEFINE es == {e \in admitted : row[e] # NoRev /\ e \notin acked}
  <1>1. es \in SUBSET Events
    BY DEF ProviderTypes
  <1>2. \A e \in es : row[e] \in Revs
    BY DEF ProviderTypes
  <1>3. Backlog \in [es -> Revs]
    BY <1>2 DEF Backlog
  <1>4. QED
    BY <1>1, <1>3 DEF Batch

LEMMA BatchIsOfEvents == \A b \in Batch : DOMAIN b \subseteq Events
  BY DEF Batch

\* A command that ends gives its batch up and keeps the operator's values.
LEMMA EndsTypes ==
    ASSUME CommandTypes, InHand, NEW p \in Runners, NEW how \in Said, Ends(p, how)
    PROVE  CommandTypes' /\ InHand'
  <1>1. CommandTypes'
    BY DEF CommandTypes, Ends, Goes, PC
  <1>2. InHand'
    BY DEF CommandTypes, InHand, Ends, Goes
  <1>3. QED
    BY <1>1, <1>2

\* A command that goes on keeps its batch.
LEMMA GoesTypes ==
    ASSUME CommandTypes, InHand, NEW p \in Runners, NEW where \in PC, Goes(p, where),
           pc[p] # "idle", UNCHANGED <<backlog, token, said>>
    PROVE  CommandTypes' /\ InHand'
  <1>1. CommandTypes'
    BY DEF CommandTypes, Goes
  <1>2. InHand'
    BY DEF CommandTypes, InHand, Goes
  <1>3. QED
    BY <1>1, <1>2

LEMMA StartTypes ==
    ASSUME TypeOK, NEW p \in Runners, Unreadable(p) \/ Plans(p) \/ Applies(p)
    PROVE  TypeOK'
  <1>t. ProviderTypes /\ CommandTypes /\ InHand
    BY Types
  <1>s. ProviderTypes'
    BY <1>t DEF ProviderTypes, Unreadable, Plans, Applies, provider
  <1>b. Backlog \in Batch
    BY <1>t, BacklogIsBatch
  <1>1. CASE Unreadable(p)
    BY <1>t, <1>s, <1>1, EndsTypes, Types
    DEF Unreadable, Said, TypeOK, ProviderTypes, CommandTypes, InHand, PC
  <1>2. CASE Plans(p)
    <2>1. CommandTypes'
      BY <1>t, <1>b, <1>2 DEF Plans, CommandTypes, Said
    <2>2. InHand'
      BY <1>t, <1>2 DEF Plans, CommandTypes, InHand
    <2>3. QED
      BY <1>s, <2>1, <2>2 DEF TypeOK, ProviderTypes, CommandTypes, InHand, PC, Said
  <1>3. CASE Applies(p)
    <2>1. CommandTypes'
      BY <1>t, <1>b, <1>3 DEF Applies, Goes, CommandTypes, Said, PC
    <2>2. InHand'
      BY <1>t, <1>b, <1>3 DEF Applies, Goes, CommandTypes, InHand
    <2>3. QED
      BY <1>s, <2>1, <2>2 DEF TypeOK, ProviderTypes, CommandTypes, InHand, PC, Said
  <1>4. QED
    BY <1>1, <1>2, <1>3

LEMMA RunTypes ==
    ASSUME TypeOK, NEW p \in Runners, RunnerNext(p) \/ Interrupted(p)
    PROVE  ProviderTypes' /\ CommandTypes' /\ InHand'
  <1>t. ProviderTypes /\ CommandTypes /\ InHand /\ {"look", "commit", "retire"} \subseteq PC
    BY Types DEF PC
  <1>e. ASSUME NEW how \in Said, Ends(p, how) PROVE CommandTypes' /\ InHand'
    BY <1>t, <1>e, EndsTypes
  <1>g. ASSUME NEW where \in {"look", "commit", "retire"}, Goes(p, where),
               pc[p] # "idle", UNCHANGED <<backlog, token, said>>
        PROVE  CommandTypes' /\ InHand'
    BY <1>t, <1>g, GoesTypes
  <1>1. CASE ReadsReceipt(p)
    <2>1. ProviderTypes'
      BY <1>t, <1>1 DEF ReadsReceipt, ProviderTypes, provider
    <2>2. CASE Ends(p, "raised") \/ Ends(p, "block")
      BY <1>e, <2>1, <2>2 DEF Said
    <2>3. CASE Goes(p, "look") /\ UNCHANGED <<backlog, token, said>>
      BY <1>1, <1>g, <2>1, <2>3 DEF ReadsReceipt
    <2>4. CASE /\ receipt # NoBatch /\ Goes(p, "look") /\ UNCHANGED <<token, said>>
               /\ backlog' = [backlog EXCEPT ![p] = receipt]
      <3>1. receipt \in Batch
        BY <1>t, <2>4 DEF ProviderTypes
      <3>2. CommandTypes'
        BY <1>t, <2>4, <3>1 DEF CommandTypes, Goes
      <3>3. InHand'
        BY <1>t, <1>1, <2>4, <3>1 DEF ReadsReceipt, CommandTypes, InHand, Goes
      <3>4. QED
        BY <2>1, <3>2, <3>3
    <2>5. QED
      BY <1>1, <2>2, <2>3, <2>4 DEF ReadsReceipt
  <1>2. CASE Looks(p)
    <2>1. ProviderTypes'
      BY <1>t, <1>2 DEF Looks, ProviderTypes, provider
    <2>2. CASE Ends(p, "raised") \/ Ends(p, "empty")
      BY <1>e, <2>1, <2>2 DEF Said
    <2>3. CASE (Goes(p, "commit") \/ Goes(p, "retire")) /\ UNCHANGED <<backlog, token, said>>
      BY <1>2, <1>g, <2>1, <2>3 DEF Looks
    <2>4. QED
      BY <1>2, <2>2, <2>3 DEF Looks
  <1>3. CASE Commits(p)
    <2>0. backlog[p] \in Batch /\ DOMAIN backlog[p] \subseteq Events
      BY <1>t, <1>3, BatchIsOfEvents DEF Commits, InHand
    <2>1. ProviderTypes'
      BY <1>t, <1>3, <2>0 DEF Commits, ProviderTypes
    <2>2. CASE Ends(p, "raised")
      BY <1>e, <2>1, <2>2 DEF Said
    <2>3. CASE Goes(p, "retire") /\ UNCHANGED <<backlog, token, said>>
      BY <1>3, <1>g, <2>1, <2>3 DEF Commits
    <2>4. QED
      BY <1>3, <2>2, <2>3 DEF Commits
  <1>4. CASE Retires(p)
    BY <1>t, <1>4, <1>e DEF Retires, ProviderTypes, provider, Said
  <1>5. CASE Interrupted(p)
    <2>1. ProviderTypes'
      BY <1>t, <1>5, CutoverBounds DEF Interrupted, ProviderTypes, provider
    <2>2. QED
      BY <1>5, <1>e, <2>1 DEF Interrupted, Said
  <1>6. QED
    BY <1>1, <1>2, <1>3, <1>4, <1>5 DEF RunnerNext

LEMMA HostTypes ==
    ASSUME TypeOK, Host
    PROVE  ProviderTypes' /\ CommandTypes' /\ InHand'
  <1>t. ProviderTypes /\ CommandTypes /\ InHand
    BY Types
  <1>1. PICK e \in Events : HostPolls(e) \/ HostSettles(e) \/ Rescores(e)
    BY DEF Host
  <1>2. row' \in [Events -> Revs \cup {NoRev}] /\ acked' \in SUBSET Events
        /\ admitted' \in SUBSET Events
    BY <1>t, <1>1 DEF HostPolls, HostSettles, Rescores, ProviderTypes
  <1>3. UNCHANGED receipt
    BY <1>1 DEF HostPolls, HostSettles, Rescores
  <1>4. moves' \in 0..MaxHost
    BY <1>t, CutoverBounds DEF Host, ProviderTypes
  <1>5. ProviderTypes'
    BY <1>t, <1>2, <1>3, <1>4 DEF Host, ProviderTypes
  <1>6. CommandTypes' /\ InHand'
    BY <1>t DEF Host, locals, CommandTypes, InHand
  <1>7. QED
    BY <1>5, <1>6

LEMMA TypesHold == TypeOK /\ [Next]_vars => TypeOK'
  <1>1. ASSUME ProviderTypes', CommandTypes', InHand' PROVE TypeOK'
    BY <1>1 DEF TypeOK, ProviderTypes, CommandTypes, InHand, PC, Said
  <1>2. TypeOK /\ Next => TypeOK'
    BY <1>1, StartTypes, RunTypes, HostTypes DEF Next
  <1>3. TypeOK /\ UNCHANGED vars => TypeOK'
    BY DEF TypeOK, vars, provider, locals
  <1>4. QED
    BY <1>2, <1>3

LEMMA InitTypes == Init => TypeOK
  <1>1. SUFFICES ASSUME Init PROVE TypeOK
    OBVIOUS
  <1>2. ProviderTypes
    BY <1>1, CutoverBounds DEF Init, ProviderTypes
  <1>3. CommandTypes /\ InHand
    BY <1>1 DEF Init, CommandTypes, InHand, PC, Said
  <1>4. QED
    BY <1>2, <1>3, Types

\* The state keeps its types: a command that runs has a batch in hand and has
\* been given the operator's values.
THEOREM TypeCorrect == Spec => []TypeOK
  BY InitTypes, TypesHold, PTL DEF Spec

-----------------------------------------------------------------------------
(* The inductive invariant: past the comparison a command works on the         *)
(* operator's batch, and past its commit that batch is the one in the database.*)
OwnBatch(p) == pc[p] \in {"look", "commit", "retire"} => backlog[p] = token[p]
OwnReceipt(p) == pc[p] = "retire" => receipt = backlog[p]

IInv == TypeOK /\ \A p \in Runners : OwnBatch(p) /\ OwnReceipt(p)

\* A committed batch stays.
LEMMA ReceiptStays ==
    ASSUME Next, receipt # NoBatch
    PROVE  UNCHANGED receipt
  <1>1. ASSUME NEW p \in Runners,
               Unreadable(p) \/ Plans(p) \/ Applies(p) \/ RunnerNext(p) \/ Interrupted(p)
        PROVE  UNCHANGED receipt
    BY <1>1 DEF Unreadable, Plans, Applies, RunnerNext, ReadsReceipt, Looks, Commits, Retires,
       Interrupted, provider
  <1>2. ASSUME Host PROVE UNCHANGED receipt
    BY <1>2 DEF Host, HostPolls, HostSettles, Rescores
  <1>3. QED
    BY <1>1, <1>2 DEF Next

LEMMA StillOwn ==
    ASSUME IInv, Next, NEW q \in Runners, UNCHANGED <<pc[q], backlog[q], token[q]>>
    PROVE  OwnBatch(q)' /\ OwnReceipt(q)'
  <1>1. OwnBatch(q)'
    BY DEF IInv, OwnBatch
  <1>2. OwnReceipt(q)'
    <2>1. SUFFICES ASSUME pc[q] = "retire" PROVE receipt' = backlog'[q]
      BY DEF OwnReceipt
    <2>2. receipt = backlog[q] /\ backlog[q] \in Batch
      BY <2>1 DEF IInv, TypeOK, OwnReceipt
    <2>3. receipt # NoBatch
      BY <2>2, CutoverSentinels
    <2>4. QED
      BY <2>2, <2>3, ReceiptStays
  <1>3. QED
    BY <1>1, <1>2

LEMMA StepOwn ==
    ASSUME IInv, NEW p \in Runners,
           Unreadable(p) \/ Plans(p) \/ Applies(p) \/ RunnerNext(p) \/ Interrupted(p)
    PROVE  OwnBatch(p)' /\ OwnReceipt(p)'
  <1>t. TypeOK /\ OwnBatch(p) /\ OwnReceipt(p)
    BY DEF IInv
  <1>e. ASSUME NEW how, Ends(p, how) PROVE OwnBatch(p)' /\ OwnReceipt(p)'
    BY <1>t, <1>e DEF Ends, Goes, TypeOK, OwnBatch, OwnReceipt
  <1>1. CASE Unreadable(p) \/ Retires(p) \/ Interrupted(p)
    BY <1>1, <1>e DEF Unreadable, Retires, Interrupted
  <1>2. CASE Plans(p)
    BY <1>t, <1>2 DEF Plans, TypeOK, OwnBatch, OwnReceipt
  <1>3. CASE Applies(p)
    BY <1>t, <1>3 DEF Applies, Goes, TypeOK, OwnBatch, OwnReceipt
  <1>4. CASE ReadsReceipt(p)
    <2>1. CASE Ends(p, "raised") \/ Ends(p, "block")
      BY <1>e, <2>1
    <2>2. CASE Goes(p, "look") /\ backlog[p] = token[p] /\ UNCHANGED <<backlog, token>>
      BY <1>t, <2>2 DEF Goes, TypeOK, OwnBatch, OwnReceipt
    <2>3. CASE /\ Goes(p, "look") /\ receipt = token[p] /\ UNCHANGED token
               /\ backlog' = [backlog EXCEPT ![p] = receipt]
      BY <1>t, <2>3 DEF Goes, TypeOK, OwnBatch, OwnReceipt
    <2>4. QED
      BY <1>4, <2>1, <2>2, <2>3 DEF ReadsReceipt
  <1>5. CASE Looks(p)
    <2>1. CASE Ends(p, "raised") \/ Ends(p, "empty")
      BY <1>e, <2>1
    <2>2. CASE Goes(p, "commit") /\ UNCHANGED <<backlog, token>>
      BY <1>t, <1>5, <2>2 DEF Looks, Goes, TypeOK, OwnBatch, OwnReceipt
    <2>3. CASE Goes(p, "retire") /\ receipt = backlog[p] /\ UNCHANGED <<backlog, token, receipt>>
      BY <1>t, <1>5, <2>3 DEF Looks, Goes, TypeOK, OwnBatch, OwnReceipt
    <2>4. QED
      BY <1>5, <2>1, <2>2, <2>3 DEF Looks, provider
  <1>6. CASE Commits(p)
    <2>1. CASE Ends(p, "raised")
      BY <1>e, <2>1
    <2>2. CASE Goes(p, "retire") /\ receipt' = backlog[p] /\ UNCHANGED <<backlog, token>>
      BY <1>t, <1>6, <2>2 DEF Commits, Goes, TypeOK, OwnBatch, OwnReceipt
    <2>3. QED
      BY <1>6, <2>1, <2>2 DEF Commits
  <1>7. QED
    BY <1>1, <1>2, <1>3, <1>4, <1>5, <1>6 DEF RunnerNext

LEMMA OnlyOne ==
    ASSUME TypeOK, NEW p \in Runners, NEW q \in Runners, q # p,
           Unreadable(p) \/ Plans(p) \/ Applies(p) \/ RunnerNext(p) \/ Interrupted(p)
    PROVE  UNCHANGED <<pc[q], backlog[q], token[q]>>
  BY DEF TypeOK, Unreadable, Plans, Applies, RunnerNext, ReadsReceipt, Looks, Commits, Retires,
     Interrupted, Ends, Goes

LEMMA InvHolds == IInv /\ [Next]_vars => IInv'
  <1>1. ASSUME IInv, Next, NEW q \in Runners PROVE OwnBatch(q)' /\ OwnReceipt(q)'
    <2>1. CASE Host
      BY <1>1, <2>1, StillOwn DEF Host, locals
    <2>2. ASSUME NEW p \in Runners,
                 Unreadable(p) \/ Plans(p) \/ Applies(p) \/ RunnerNext(p) \/ Interrupted(p)
          PROVE  OwnBatch(q)' /\ OwnReceipt(q)'
      <3>1. CASE q = p
        BY <1>1, <2>2, <3>1, StepOwn
      <3>2. CASE q # p
        BY <1>1, <2>2, <3>2, OnlyOne, StillOwn DEF IInv
      <3>3. QED
        BY <3>1, <3>2
    <2>3. QED
      BY <1>1, <2>1, <2>2 DEF Next
  <1>2. IInv /\ Next => IInv'
    BY <1>1, TypesHold DEF IInv
  <1>3. IInv /\ UNCHANGED vars => IInv'
    BY TypesHold DEF IInv, vars, provider, locals, OwnBatch, OwnReceipt
  <1>4. QED
    BY <1>2, <1>3

LEMMA AlwaysInv == Spec => []IInv
  <1>1. Init => IInv
    BY InitTypes DEF Init, IInv, OwnBatch, OwnReceipt
  <1>2. QED
    BY <1>1, InvHolds, PTL DEF Spec

\* The old facts are retired only by a command whose batch, the operator's, is
\* committed.
THEOREM RetirementIsLast == Spec => []RetiresAfterReceipt
  <1>1. IInv => RetiresAfterReceipt
    BY DEF IInv, OwnBatch, OwnReceipt, RetiresAfterReceipt
  <1>2. QED
    BY <1>1, AlwaysInv, PTL

-----------------------------------------------------------------------------
\* Only a commit touches the receipt, and only a commit of a command acks.
LEMMA OnlyCommits ==
    ASSUME TypeOK, Next
    PROVE  \/ \E p \in Runners : Commits(p) /\ receipt' # receipt
           \/ /\ UNCHANGED receipt
              /\ pc' = pc \/ UNCHANGED acked
  <1>1. CASE Host
    BY <1>1 DEF Host, locals, HostPolls, HostSettles, Rescores
  <1>2. ASSUME NEW p \in Runners,
               Unreadable(p) \/ Plans(p) \/ Applies(p) \/ ReadsReceipt(p) \/ Looks(p)
               \/ Retires(p) \/ Interrupted(p)
        PROVE  UNCHANGED <<receipt, acked>>
    BY <1>2 DEF Unreadable, Plans, Applies, ReadsReceipt, Looks, Retires, Interrupted, provider
  <1>3. ASSUME NEW p \in Runners, Commits(p), receipt' = receipt PROVE UNCHANGED acked
    <2>1. CASE receipt = NoBatch /\ \A e \in DOMAIN backlog[p] : row[e] = backlog[p][e]
      <3>1. pc[p] # "idle" /\ receipt' = backlog[p]
        BY <1>3, <2>1 DEF Commits
      <3>2. backlog[p] \in Batch
        BY <3>1 DEF TypeOK
      <3>3. QED
        BY <1>3, <2>1, <3>1, <3>2, CutoverSentinels
    <2>2. CASE ~(receipt = NoBatch /\ \A e \in DOMAIN backlog[p] : row[e] = backlog[p][e])
      BY <1>3, <2>2 DEF Commits
    <2>3. QED
      BY <2>1, <2>2
  <1>4. QED
    BY <1>1, <1>2, <1>3 DEF Next, RunnerNext

LEMMA CommitStep ==
    ASSUME IInv, NEW p \in Runners, Commits(p), receipt' # receipt
    PROVE  /\ receipt = NoBatch /\ pc[p] = "commit"
           /\ receipt' = token[p] /\ receipt' \in Batch
           /\ acked' = acked \cup DOMAIN receipt'
           /\ \A e \in DOMAIN receipt' : row[e] = receipt'[e]
  <1>1. /\ receipt = NoBatch /\ pc[p] = "commit" /\ receipt' = backlog[p]
        /\ acked' = acked \cup DOMAIN backlog[p]
        /\ \A e \in DOMAIN backlog[p] : row[e] = backlog[p][e]
    BY DEF Commits
  <1>2. backlog[p] = token[p] /\ backlog[p] \in Batch
    BY <1>1 DEF IInv, OwnBatch, TypeOK
  <1>3. QED
    BY <1>1, <1>2

\* The batch that is committed is the one an operator was shown, at the
\* provider's present revisions, all acked, and the only one ever.
THEOREM CutoversAreExact == Spec => CutoverIsExact
  <1>1. IInv /\ [Next]_vars =>
          [receipt' # receipt =>
             /\ receipt = NoBatch
             /\ \E p \in Runners : pc[p] = "commit" /\ receipt' = token[p]
             /\ \A e \in DOMAIN receipt' : row[e] = receipt'[e] /\ e \in acked']_vars
    <2>1. SUFFICES ASSUME IInv, Next, receipt' # receipt
                   PROVE  /\ receipt = NoBatch
                          /\ \E p \in Runners : pc[p] = "commit" /\ receipt' = token[p]
                          /\ \A e \in DOMAIN receipt' : row[e] = receipt'[e] /\ e \in acked'
      OBVIOUS
    <2>2. PICK p \in Runners : Commits(p)
      BY <2>1, OnlyCommits DEF IInv
    <2>3. QED
      BY <2>1, <2>2, CommitStep
  <1>2. QED
    BY <1>1, AlwaysInv, PTL DEF Spec, CutoverIsExact

\* A command acks an item only in the step that commits the batch.
THEOREM CutoversAckOnce == Spec => CutoverAcksOnce
  <1>1. IInv /\ [Next]_vars =>
          [\A e \in Events :
             pc' # pc /\ e \in acked' \ acked =>
                 receipt = NoBatch /\ receipt' # NoBatch /\ e \in DOMAIN receipt']_vars
    <2>1. SUFFICES ASSUME IInv, Next, NEW e \in Events, pc' # pc, e \in acked' \ acked
                   PROVE  receipt = NoBatch /\ receipt' # NoBatch /\ e \in DOMAIN receipt'
      OBVIOUS
    <2>2. acked' # acked
      BY <2>1
    <2>3. PICK p \in Runners : Commits(p) /\ receipt' # receipt
      BY <2>1, <2>2, OnlyCommits DEF IInv
    <2>4. QED
      BY <2>1, <2>3, CommitStep, CutoverSentinels
  <1>2. QED
    BY <1>1, AlwaysInv, PTL DEF Spec, CutoverAcksOnce
-----------------------------------------------------------------------------
(* What of ReplayCompletes is safety.                                       *)

\* No empty batch is ever committed.
NotEmpty ==
    /\ receipt # NoBatch => DOMAIN receipt # {}
    /\ \A p \in Runners : pc[p] = "commit" => DOMAIN backlog[p] # {}

LEMMA NotEmptyStep == IInv /\ NotEmpty /\ [Next]_vars => NotEmpty'
  <1>1. SUFFICES ASSUME IInv, NotEmpty, [Next]_vars PROVE NotEmpty'
    OBVIOUS
  <1>t. TypeOK
    BY <1>1 DEF IInv
  <1>2. ASSUME receipt' # NoBatch PROVE DOMAIN receipt' # {}
    <2>1. CASE receipt' = receipt
      BY <1>1, <1>2, <2>1 DEF NotEmpty
    <2>2. CASE receipt' # receipt
      <3>1. PICK p \in Runners : Commits(p)
        BY <1>1, <1>t, <2>2, OnlyCommits DEF vars, provider
      <3>2. pc[p] = "commit" /\ receipt' = backlog[p]
        BY <2>2, <3>1 DEF Commits
      <3>3. QED
        BY <1>1, <3>2 DEF NotEmpty
    <2>3. QED
      BY <2>1, <2>2
  <1>3. ASSUME NEW q \in Runners, pc'[q] = "commit" PROVE DOMAIN backlog'[q] # {}
    <2>1. CASE pc[q] = "commit" /\ backlog'[q] = backlog[q]
      BY <1>1, <2>1 DEF NotEmpty
    <2>2. CASE Looks(q)
      BY <1>t, <1>3, <2>2 DEF TypeOK, Looks, Goes, Ends
    <2>3. ASSUME NEW p \in Runners, q # p,
                 Unreadable(p) \/ Plans(p) \/ Applies(p) \/ RunnerNext(p) \/ Interrupted(p)
          PROVE  pc[q] = "commit" /\ backlog'[q] = backlog[q]
      BY <1>t, <1>3, <2>3, OnlyOne
    <2>4. ~Unreadable(q) /\ ~Plans(q) /\ ~Applies(q) /\ ~Interrupted(q)
      BY <1>t, <1>3 DEF TypeOK, Unreadable, Plans, Applies, Interrupted, Goes, Ends
    <2>5. ~ReadsReceipt(q) /\ ~Commits(q) /\ ~Retires(q)
      BY <1>t, <1>3 DEF TypeOK, ReadsReceipt, Commits, Retires, Goes, Ends
    <2>6. CASE Host \/ UNCHANGED vars
      BY <1>3, <2>1, <2>6 DEF Host, locals, vars
    <2>7. QED
      BY <1>1, <2>1, <2>2, <2>3, <2>4, <2>5, <2>6 DEF Next, RunnerNext
  <1>4. QED
    BY <1>2, <1>3 DEF NotEmpty

\* What a command with the operator's values says at each of its steps.
LEMMA SaysNoRefusal ==
    ASSUME IInv, NotEmpty, receipt # NoBatch, AllAcked(receipt),
           NEW p \in Runners, token[p] = receipt,
           Unreadable(p) \/ Plans(p) \/ Applies(p) \/ RunnerNext(p) \/ Interrupted(p)
    PROVE  \/ said'[p] \in {said[p], "nothing", "plan", "applied"}
           \/ said'[p] = "unsound" /\ InventoryRaises
           \/ said'[p] = "raised" /\ pc[p] = "commit"
  <1>t. TypeOK /\ OwnBatch(p)
    BY DEF IInv
  <1>1. CASE Unreadable(p) \/ Plans(p) \/ Applies(p) \/ Retires(p) \/ Interrupted(p)
    BY <1>t, <1>1 DEF TypeOK, Unreadable, Plans, Applies, Retires, Interrupted, Ends
  <1>2. CASE ReadsReceipt(p)
    BY <1>2 DEF ReadsReceipt
  <1>3. CASE Looks(p)
    <2>1. backlog[p] = receipt /\ DOMAIN backlog[p] # {}
      BY <1>t, <1>3 DEF Looks, OwnBatch, NotEmpty
    <2>2. QED
      BY <1>3, <2>1 DEF Looks
  <1>4. CASE Commits(p)
    BY <1>t, <1>4 DEF TypeOK, Commits, Ends
  <1>5. QED
    BY <1>1, <1>2, <1>3, <1>4 DEF RunnerNext

LEMMA OthersSayNothing ==
    ASSUME TypeOK, NEW p \in Runners, NEW q \in Runners, q # p,
           Unreadable(p) \/ Plans(p) \/ Applies(p) \/ RunnerNext(p) \/ Interrupted(p)
    PROVE  said'[q] = said[q]
  BY DEF TypeOK, Unreadable, Plans, Applies, RunnerNext, ReadsReceipt, Looks, Commits, Retires,
     Interrupted, Ends

\* A completed batch is always resumed by the operator who has its values:
\* ReplayIsNotRefused, of the looks of retire_legacy_feed_backlog and of
\* supersede_content_backlog before they write.
THEOREM ReplaysAreNotRefused == Spec => ReplayIsNotRefused
  <1>1. ASSUME IInv, NotEmpty, Next, receipt # NoBatch, AllAcked(receipt),
               NEW q \in Runners, token[q] = receipt, said'[q] # said[q]
        PROVE  \/ said'[q] \in {"nothing", "plan", "applied"}
               \/ said'[q] = "unsound" /\ InventoryRaises
               \/ said'[q] = "raised" /\ pc[q] = "commit"
    <2>1. PICK p \in Runners :
             Unreadable(p) \/ Plans(p) \/ Applies(p) \/ RunnerNext(p) \/ Interrupted(p)
      BY <1>1 DEF Next, Host, locals
    <2>2. p = q
      BY <1>1, <2>1, OthersSayNothing DEF IInv
    <2>3. QED
      BY <1>1, <2>1, <2>2, SaysNoRefusal
  <1>2. IInv /\ NotEmpty /\ [Next]_vars =>
          [receipt # NoBatch /\ AllAcked(receipt) =>
             \A p \in Runners :
                token[p] = receipt /\ said'[p] # said[p] =>
                   \/ said'[p] \in {"nothing", "plan", "applied"}
                   \/ said'[p] = "unsound" /\ InventoryRaises
                   \/ said'[p] = "raised" /\ pc[p] = "commit"]_vars
    BY <1>1
  <1>3. Init => NotEmpty
    BY DEF Init, NotEmpty
  <1>4. QED
    BY <1>2, <1>3, NotEmptyStep, AlwaysInv, PTL DEF Spec, ReplayIsNotRefused
=============================================================================
