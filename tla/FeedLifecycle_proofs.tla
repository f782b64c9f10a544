------------------------ MODULE FeedLifecycle_proofs ------------------------
(***************************************************************************)
(* Machine-checked proofs about FeedLifecycle, for every number of timers and *)
(* of overlapping calls of start() and close(); and about what such a task does *)
(* beside its stores: FeedScriptRun, a script's run within a round, for any    *)
(* output and any slices, and FeedRanking, for any rows.                     *)
(***************************************************************************)
EXTENDS FeedLifecycle, FeedScriptRun, FeedRanking, FiniteSetTheorems, SequenceTheorems,
        WellFoundedInduction, TLAPS

(***************************************************************************)
(* The inductive invariant, in parts.                                       *)
(***************************************************************************)

\* A task owns self._handle from _arm until its finally clause runs.
Owns(t) == tpc[t] \in {"waiting", "body", "script", "finally"}
OwnersAreHeld == \A t \in Timers : Owns(t) => handle = t /\ task = t

\* Only the task that waits for it has an armed timer.
ArmedIsAwaited == \A t \in Timers : timer[t] = "scheduled" => tpc[t] = "waiting"

\* What close() knows of the runtime while it works, and when it has returned.
Closing(c) == cpc[c] \in {"cancelling", "waiting", "cleaning"}
ClosersKnow ==
    \A c \in Closers :
        /\ Closing(c) => closed /\ held[c] \in Timers /\ \A t \in Timers : Owns(t) => t = held[c]
        /\ cpc[c] = "cleaning" => tpc[held[c]] = "done"
        /\ cpc[c] = "returned" => closed /\ ~logging /\ \A t \in Timers : ~Owns(t)

LifecycleInv ==
    /\ TypeOK
    /\ OwnersAreHeld
    /\ ArmedIsAwaited
    /\ ClosersKnow

-----------------------------------------------------------------------------
LEMMA InitLifecycle == Init => LifecycleInv
  <1> SUFFICES ASSUME Init PROVE LifecycleInv
    OBVIOUS
  <1>1. TypeOK
    BY DEF Init, TypeOK
  <1>2. OwnersAreHeld /\ ArmedIsAwaited
    BY DEF Init, OwnersAreHeld, Owns, ArmedIsAwaited
  <1>3. ClosersKnow
    BY DEF Init, ClosersKnow, Closing
  <1>4. QED
    BY <1>1, <1>2, <1>3 DEF LifecycleInv

\* _arm by start() (mine is None) or by a task at its end.
LEMMA ArmKeeps ==
    ASSUME LifecycleInv, NEW mine \in Timers \cup {None}, Arm(mine),
           mine # None => tpc[mine] = "read",
           UNCHANGED <<closed, logging, cpc, held>>, spc' \in [Starters ->
                {"idle", "reading", "returned", "raised"}]
    PROVE  LifecycleInv'
  <1> DEFINE left == IF mine = None THEN tpc ELSE [tpc EXCEPT ![mine] = "done"]
  <1>t. TypeOK
    BY DEF LifecycleInv
  <1>1. \A t \in Timers : left[t] = tpc[t] \/ (tpc[t] = "read" /\ left[t] = "done")
    BY <1>t, NoneIsNoTimer DEF TypeOK
  <1>2. left \in [Timers -> {"none", "waiting", "body", "script", "finally", "cleanup",
                             "read", "done", "failed"}]
    BY <1>t DEF TypeOK
  <1>3. CASE MayArm
    <2>1. PICK t \in Timers :
                /\ Reusable(t) /\ handle' = t /\ task' = t
                /\ timer' = [timer EXCEPT ![t] = "scheduled"]
                /\ tpc' = [left EXCEPT ![t] = "waiting"]
                /\ ending' = [ending EXCEPT ![t] = "normal"]
      BY <1>3 DEF Arm
    <2> HIDE DEF left
    <2>2. TypeOK'
      BY <1>t, <1>2, <2>1, NoneIsNoTimer DEF TypeOK
    <2>3. ~closed /\ \A u \in Timers : ~Owns(u)
      BY <1>3, NoneIsNoTimer DEF MayArm, LifecycleInv, OwnersAreHeld
    <2>4. \A u \in Timers : u # t => ~Owns(u)'
      BY <1>1, <1>2, <2>1, <2>3 DEF Owns
    <2>5. OwnersAreHeld'
      BY <2>1, <2>4 DEF OwnersAreHeld
    <2>6. ArmedIsAwaited'
      BY <1>t, <1>1, <1>2, <2>1 DEF LifecycleInv, ArmedIsAwaited, TypeOK
    <2>7. ClosersKnow'
      BY <2>3 DEF LifecycleInv, ClosersKnow, Closing
    <2>8. QED
      BY <2>2, <2>5, <2>6, <2>7 DEF LifecycleInv
  <1>4. CASE ~MayArm
    <2>1. tpc' = left /\ UNCHANGED <<handle, task, timer, ending>>
      BY <1>4 DEF Arm
    <2> HIDE DEF left
    <2>2. TypeOK'
      BY <1>t, <1>2, <2>1 DEF TypeOK
    <2>3. \A u \in Timers : Owns(u)' => Owns(u)
      BY <1>1, <2>1 DEF Owns
    <2>4. OwnersAreHeld'
      BY <2>1, <2>3 DEF LifecycleInv, OwnersAreHeld
    <2>5. ArmedIsAwaited'
      BY <1>1, <2>1 DEF LifecycleInv, ArmedIsAwaited
    <2>6. ClosersKnow'
      BY <1>1, <2>1, <2>3 DEF LifecycleInv, ClosersKnow, Closing
    <2>7. QED
      BY <2>2, <2>4, <2>5, <2>6 DEF LifecycleInv
  <1>5. QED
    BY <1>3, <1>4

\* A step of a task that touches no timer but its own and takes no ownership.
LEMMA TaskKeeps ==
    ASSUME LifecycleInv, TypeOK', NEW t \in Timers,
           UNCHANGED <<closed, logging, cpc, held>>,
           \A u \in Timers \ {t} : tpc'[u] = tpc[u] /\ timer'[u] = timer[u],
           Owns(t)' => Owns(t),
           timer'[t] = "scheduled" => timer[t] = "scheduled" /\ tpc'[t] = tpc[t],
           tpc[t] # "done",
           (UNCHANGED <<handle, task>>) \/ (Owns(t) /\ ~Owns(t)')
    PROVE  LifecycleInv'
  <1>1. \A u \in Timers : Owns(u)' => Owns(u)
    BY DEF Owns
  <1>2. OwnersAreHeld'
    BY <1>1 DEF LifecycleInv, OwnersAreHeld
  <1>3. ArmedIsAwaited'
    BY DEF LifecycleInv, ArmedIsAwaited
  <1>4. ClosersKnow'
    BY <1>1 DEF LifecycleInv, ClosersKnow, Closing
  <1>5. QED
    BY <1>2, <1>3, <1>4 DEF LifecycleInv

LEMMA LifecycleStep == LifecycleInv /\ [Next]_vars => LifecycleInv'
  <1> SUFFICES ASSUME LifecycleInv, [Next]_vars PROVE LifecycleInv'
    OBVIOUS
  <1>t. TypeOK
    BY DEF LifecycleInv
  <1>1. ASSUME NEW s \in Starters, StartCall(s) PROVE LifecycleInv'
    <2>1. TypeOK'
      BY <1>t, <1>1 DEF StartCall, TypeOK
    <2>2. closed => ~logging' \/ logging
      BY <1>1 DEF StartCall
    <2>3. QED
      BY <1>1, <2>1, <2>2 DEF StartCall, LifecycleInv, OwnersAreHeld, Owns, ArmedIsAwaited,
         ClosersKnow, Closing
  <1>2. ASSUME NEW s \in Starters, StartArms(s) PROVE LifecycleInv'
    BY <1>t, <1>2, ArmKeeps, NoneIsNoTimer DEF StartArms, TypeOK
  <1>3. ASSUME NEW s \in Starters, StartRaises(s) PROVE LifecycleInv'
    BY <1>t, <1>3 DEF StartRaises, TypeOK, LifecycleInv, OwnersAreHeld, Owns, ArmedIsAwaited,
       ClosersKnow, Closing
  <1>4. ASSUME NEW t \in Timers, TimerFires(t) PROVE LifecycleInv'
    BY <1>t, <1>4 DEF TimerFires, TypeOK, LifecycleInv, OwnersAreHeld, Owns, ArmedIsAwaited,
       ClosersKnow, Closing
  <1>5. ASSUME NEW t \in Timers, TaskWakes(t) PROVE LifecycleInv'
    <2>1. TypeOK'
      BY <1>t, <1>5 DEF TaskWakes, TypeOK
    <2>2. QED
      BY <1>t, <1>5, <2>1, TaskKeeps DEF TaskWakes, TypeOK, Owns
  <1>6. ASSUME NEW t \in Timers,
               ScriptStarts(t) \/ ScriptEnds(t) \/ BodyEnds(t) \/ BodyRaises(t)
        PROVE  LifecycleInv'
    <2>1. TypeOK'
      BY <1>t, <1>6 DEF ScriptStarts, ScriptEnds, BodyEnds, BodyRaises, TypeOK
    <2>2. timer[t] # "scheduled"
      BY <1>6 DEF ScriptStarts, ScriptEnds, BodyEnds, BodyRaises, LifecycleInv, ArmedIsAwaited
    <2>3. QED
      BY <1>t, <1>6, <2>1, <2>2, TaskKeeps
      DEF ScriptStarts, ScriptEnds, BodyEnds, BodyRaises, TypeOK, Owns
  <1>7. ASSUME NEW t \in Timers, Finally(t) PROVE LifecycleInv'
    <2>1. TypeOK'
      BY <1>t, <1>7 DEF Finally, TypeOK
    <2>2. timer[t] # "scheduled"
      BY <1>7 DEF Finally, LifecycleInv, ArmedIsAwaited
    <2>3. QED
      BY <1>t, <1>7, <2>1, <2>2, TaskKeeps DEF Finally, TypeOK, Owns
  <1>8. ASSUME NEW t \in Timers, TaskCleans(t) PROVE LifecycleInv'
    <2>1. tpc'[t] \in {"failed", "done", "read"} /\ tpc' = [tpc EXCEPT ![t] = tpc'[t]]
      BY <1>t, <1>8 DEF TaskCleans, TypeOK
    <2>2. TypeOK'
      BY <1>t, <1>8, <2>1 DEF TaskCleans, TypeOK
    <2>3. QED
      BY <1>t, <1>8, <2>1, <2>2, TaskKeeps DEF TaskCleans, TypeOK, Owns
  <1>9. ASSUME NEW t \in Timers, Rearms(t) PROVE LifecycleInv'
    BY <1>t, <1>9, ArmKeeps DEF Rearms, TypeOK
  <1>10. ASSUME NEW t \in Timers, RearmRaises(t) PROVE LifecycleInv'
    <2>1. TypeOK'
      <3>1. tpc' \in [Timers -> {"none", "waiting", "body", "script", "finally", "cleanup",
                                "read", "done", "failed"}]
        BY <1>t, <1>10 DEF RearmRaises, TypeOK
      <3>2. UNCHANGED <<closed, handle, task, logging, timer, ending, spc, cpc, held>>
        BY <1>10 DEF RearmRaises
      <3>3. QED
        BY <1>t, <3>1, <3>2 DEF TypeOK
    <2>2. timer[t] # "scheduled"
      BY <1>10 DEF RearmRaises, LifecycleInv, ArmedIsAwaited
    <2>3. QED
      BY <1>t, <1>10, <2>1, <2>2, TaskKeeps DEF RearmRaises, TypeOK, Owns
  <1>11. ASSUME NEW c \in Closers, CloseCall(c) PROVE LifecycleInv'
    <2>1. TypeOK'
      <3>1. cpc' \in [Closers -> {"idle", "cancelling", "waiting", "cleaning", "returned",
                                 "raised", "skipped"}]
        BY <1>t, <1>11 DEF CloseCall, TypeOK
      <3>2. handle' \in Timers \cup {None} /\ task' \in Timers \cup {None}
            /\ (handle' = None <=> task' = None) /\ logging' \in BOOLEAN /\ closed' \in BOOLEAN
        BY <1>t, <1>11 DEF CloseCall, Release, TypeOK
      <3>3. held' \in [Closers -> Timers \cup {None}]
        BY <1>t, <1>11 DEF CloseCall, TypeOK
      <3>4. UNCHANGED <<timer, tpc, ending, spc>>
        BY <1>11 DEF CloseCall
      <3>5. QED
        BY <1>t, <3>1, <3>2, <3>3, <3>4 DEF TypeOK
    <2>2. UNCHANGED <<timer, tpc>> /\ closed'
      BY <1>11 DEF CloseCall
    <2>3. OwnersAreHeld' /\ ArmedIsAwaited'
      BY <1>11, <2>2, NoneIsNoTimer DEF CloseCall, Release, LifecycleInv, OwnersAreHeld, Owns,
         ArmedIsAwaited
    <2>4. ASSUME NEW d \in Closers \ {c}
          PROVE  cpc'[d] = cpc[d] /\ held'[d] = held[d]
      BY <1>t, <1>11 DEF CloseCall, TypeOK
    <2>5. logging' => logging
      BY <1>11 DEF CloseCall, Release
    <2>6. CASE closed
      BY <1>t, <1>11, <2>2, <2>4, <2>5, <2>6, <2>1, <2>3
      DEF CloseCall, LifecycleInv, ClosersKnow, Closing, Owns, TypeOK
    <2>7. CASE ~closed /\ handle = None
      BY <1>t, <1>11, <2>2, <2>4, <2>5, <2>7, <2>1, <2>3, NoneIsNoTimer
      DEF CloseCall, Release, LifecycleInv, ClosersKnow, Closing, Owns, OwnersAreHeld, TypeOK
    <2>8. CASE ~closed /\ handle # None
      BY <1>t, <1>11, <2>2, <2>4, <2>5, <2>8, <2>1, <2>3, NoneIsNoTimer
      DEF CloseCall, LifecycleInv, ClosersKnow, Closing, Owns, OwnersAreHeld, TypeOK
    <2>9. QED
      BY <2>6, <2>7, <2>8
  <1>12. ASSUME NEW c \in Closers, CloseCancels(c) PROVE LifecycleInv'
    <2>1. held[c] \in Timers
      BY <1>12 DEF CloseCancels, LifecycleInv, ClosersKnow, Closing
    <2>2. TypeOK'
      BY <1>t, <1>12, <2>1 DEF CloseCancels, TypeOK
    <2>3. QED
      BY <1>t, <1>12, <2>1, <2>2 DEF CloseCancels, TypeOK, LifecycleInv, OwnersAreHeld, Owns,
         ArmedIsAwaited, ClosersKnow, Closing
  <1>13. ASSUME NEW c \in Closers, CloseAwaits(c) PROVE LifecycleInv'
    <2>1. TypeOK'
      BY <1>t, <1>13 DEF CloseAwaits, TypeOK
    <2>2. QED
      BY <1>t, <1>13, <2>1 DEF CloseAwaits, TypeOK, LifecycleInv, OwnersAreHeld, Owns,
         ArmedIsAwaited, ClosersKnow, Closing
  <1>14. ASSUME NEW c \in Closers, CloseReleases(c) PROVE LifecycleInv'
    <2>1. /\ held[c] \in Timers /\ tpc[held[c]] = "done" /\ closed
          /\ \A t \in Timers : ~Owns(t)
      BY <1>14 DEF CloseReleases, LifecycleInv, ClosersKnow, Closing, Owns
    <2>2. TypeOK'
      BY <1>t, <1>14, <2>1 DEF CloseReleases, Release, TypeOK
    <2>3. OwnersAreHeld' /\ ArmedIsAwaited'
      BY <1>t, <1>14, <2>1 DEF CloseReleases, LifecycleInv, OwnersAreHeld, Owns, ArmedIsAwaited,
         TypeOK
    <2>4. ClosersKnow'
      BY <1>t, <1>14, <2>1 DEF CloseReleases, Release, LifecycleInv, ClosersKnow, Closing, Owns,
         TypeOK
    <2>5. QED
      BY <2>2, <2>3, <2>4 DEF LifecycleInv
  <1>15. CASE UNCHANGED vars
    BY <1>15 DEF vars, LifecycleInv, TypeOK, OwnersAreHeld, Owns, ArmedIsAwaited, ClosersKnow,
       Closing
  <1>16. QED
    BY <1>1, <1>2, <1>3, <1>4, <1>5, <1>6, <1>7, <1>8, <1>9, <1>10, <1>11, <1>12, <1>13, <1>14,
       <1>15 DEF Next, TaskNext

LEMMA Invariants == Spec => []LifecycleInv
  BY InitLifecycle, LifecycleStep, PTL DEF Spec

-----------------------------------------------------------------------------
(* What follows.                                                            *)

\* Every field of the runtime keeps its type, and the handle goes with the task.
THEOREM TypeCorrect == Spec => []TypeOK
  <1>1. LifecycleInv => TypeOK
    BY DEF LifecycleInv
  <1>2. QED
    BY <1>1, Invariants, PTL

\* A task that polls, or is going to, is the one close() would cancel.
THEOREM ActiveTasksAreHeld == Spec => []ActiveTaskIsHeld
  <1>1. LifecycleInv => ActiveTaskIsHeld
    BY DEF LifecycleInv, OwnersAreHeld, Owns, ActiveTaskIsHeld, Active
  <1>2. QED
    BY <1>1, Invariants, PTL

\* There is one timer and one round at a time.
THEOREM OneOwner == Spec => []OnePollOwner
  <1>1. ASSUME NEW S \in SUBSET Timers, NEW h, \A t \in S : t = h
        PROVE  Cardinality(S) <= 1
    <2>1. S \subseteq {h}
      BY <1>1
    <2>2. IsFiniteSet({h}) /\ Cardinality({h}) = 1
      BY FS_Singleton
    <2>3. Cardinality(S) <= Cardinality({h})
      BY <2>1, <2>2, FS_Subset
    <2>4. QED
      BY <2>2, <2>3
  <1>2. ASSUME LifecycleInv PROVE OnePollOwner
    <2>1. Cardinality(Active) <= 1
      BY <1>1, <1>2 DEF LifecycleInv, OwnersAreHeld, Owns, Active
    <2>2. \A t \in {t \in Timers : timer[t] = "scheduled"} : t = handle
      BY <1>2 DEF LifecycleInv, OwnersAreHeld, Owns, ArmedIsAwaited
    <2>3. QED
      BY <1>1, <2>1, <2>2 DEF OnePollOwner
  <1>3. QED
    BY <1>2, Invariants, PTL

\* After close() nothing polls, nothing is armed, and the log is released.
THEOREM ClosedStaysQuiet == Spec => []ClosedIsQuiet
  <1>1. LifecycleInv => ClosedIsQuiet
    BY DEF LifecycleInv, ClosersKnow, ArmedIsAwaited, Owns, ClosedIsQuiet, Active
  <1>2. QED
    BY <1>1, Invariants, PTL

\* A closed runtime starts no round, no script and no timer.
THEOREM ClosedNeverStarts == Spec => ClosedStartsNothing
  <1>1. ASSUME TypeOK, [Next]_vars, closed, NEW t \in Timers
        PROVE  /\ tpc[t] = "waiting" => tpc'[t] \notin {"body", "script"}
               /\ tpc[t] = "body" => tpc'[t] # "script"
               /\ tpc'[t] = "waiting" => tpc[t] = "waiting"
    <2>1. CASE UNCHANGED tpc
      BY <1>1, <2>1
    <2>2. ASSUME NEW u \in Timers,
                 TaskWakes(u) \/ ScriptStarts(u) \/ ScriptEnds(u) \/ BodyEnds(u) \/ BodyRaises(u)
                    \/ Finally(u) \/ TaskCleans(u) \/ Rearms(u) \/ RearmRaises(u)
          PROVE  /\ tpc[t] = "waiting" => tpc'[t] \notin {"body", "script"}
                 /\ tpc[t] = "body" => tpc'[t] # "script"
                 /\ tpc'[t] = "waiting" => tpc[t] = "waiting"
      <3>1. CASE TaskWakes(u)
        BY <1>1, <3>1 DEF TypeOK, TaskWakes
      <3>2. CASE ScriptStarts(u) \/ ScriptEnds(u)
        BY <1>1, <3>2 DEF TypeOK, ScriptStarts, ScriptEnds
      <3>3. CASE BodyEnds(u) \/ BodyRaises(u) \/ Finally(u)
        <4>1. \/ tpc' = [tpc EXCEPT ![u] = "finally"]
              \/ tpc' = [tpc EXCEPT ![u] = "cleanup"]
          BY <3>3 DEF BodyEnds, BodyRaises, Finally
        <4>2. QED
          BY <1>1, <4>1 DEF TypeOK
      <3>4. CASE TaskCleans(u)
        <4>1. tpc' = [tpc EXCEPT ![u] = tpc'[u]] /\ tpc[u] = "cleanup"
              /\ tpc'[u] \in {"failed", "done", "read"}
          BY <1>1, <3>4 DEF TypeOK, TaskCleans
        <4>2. QED
          BY <1>1, <4>1 DEF TypeOK
      <3>5. CASE Rearms(u) \/ RearmRaises(u)
        <4>1. u # None /\ ~MayArm
          BY <1>1, NoneIsNoTimer DEF MayArm
        <4>2. \/ tpc' = [tpc EXCEPT ![u] = "done"]
              \/ tpc' = [tpc EXCEPT ![u] = "failed"]
          BY <3>5, <4>1 DEF Rearms, RearmRaises, Arm
        <4>3. QED
          BY <1>1, <4>2 DEF TypeOK
      <3>6. QED
        BY <2>2, <3>1, <3>2, <3>3, <3>4, <3>5
    <2>3. ASSUME NEW s \in Starters, StartArms(s) PROVE UNCHANGED tpc
      BY <1>1, <2>3 DEF StartArms, Arm, MayArm
    <2>4. QED
      BY <1>1, <2>1, <2>2, <2>3 DEF Next, TaskNext, StartCall, StartRaises, TimerFires, CloseCall,
         CloseCancels, CloseAwaits, CloseReleases, vars
  <1>2. TypeOK /\ [Next]_vars =>
          [closed => \A t \in Timers :
              /\ tpc[t] = "waiting" => tpc'[t] \notin {"body", "script"}
              /\ tpc[t] = "body" => tpc'[t] # "script"
              /\ tpc'[t] = "waiting" => tpc[t] = "waiting"]_vars
    BY <1>1
  <1>3. QED
    BY <1>2, TypeCorrect, PTL DEF Spec, ClosedStartsNothing

-----------------------------------------------------------------------------
(* Who waits is woken, and the rounds are those of a loop.                    *)

WakeInv ==
    /\ \A t \in Timers : timer[t] = "cancelled" => closed
    /\ \A t \in Timers : tpc[t] = "waiting" => timer[t] \in {"scheduled", "fired", "cancelled"}
    /\ handle # None => Owns(handle)
    /\ \A c \in Closers : Closing(c) => tpc[held[c]] # "none"
    /\ \A c \in Closers : cpc[c] = "waiting" => timer[held[c]] # "scheduled"

\* _arm takes no timer that a close() still holds.
LEMMA ArmWakes ==
    ASSUME LifecycleInv, WakeInv, NEW mine \in Timers \cup {None}, Arm(mine),
           mine # None => tpc[mine] = "read", UNCHANGED <<closed, cpc, held>>
    PROVE  WakeInv'
  <1> DEFINE left == IF mine = None THEN tpc ELSE [tpc EXCEPT ![mine] = "done"]
  <1>t. TypeOK
    BY DEF LifecycleInv
  <1>1. \A t \in Timers : left[t] = tpc[t] \/ (tpc[t] = "read" /\ left[t] = "done")
    BY <1>t, NoneIsNoTimer DEF TypeOK
  <1>2. DOMAIN left = Timers
    BY <1>t DEF TypeOK
  <1>3. \A c \in Closers : Closing(c) => held[c] \in Timers
    BY DEF LifecycleInv, ClosersKnow
  <1>4. CASE MayArm
    <2>1. PICK t \in Timers :
                /\ Reusable(t) /\ handle' = t
                /\ timer' = [timer EXCEPT ![t] = "scheduled"]
                /\ tpc' = [left EXCEPT ![t] = "waiting"]
      BY <1>4 DEF Arm
    <2> HIDE DEF left
    <2>2. /\ tpc'[t] = "waiting" /\ timer'[t] = "scheduled"
          /\ \A u \in Timers \ {t} : timer'[u] = timer[u] /\ tpc'[u] = left[u]
      BY <1>t, <1>2, <2>1 DEF TypeOK
    <2>3. \A c \in Closers : held[c] # t
      BY <2>1 DEF Reusable
    <2> QED BY <1>1, <1>3, <2>1, <2>2, <2>3 DEF WakeInv, Owns, Closing
  <1>5. CASE ~MayArm
    <2>1. tpc' = left /\ UNCHANGED <<handle, timer>>
      BY <1>5 DEF Arm
    <2> HIDE DEF left
    <2>2. handle # None => handle \in Timers
      BY <1>t DEF TypeOK
    <2> QED BY <1>1, <1>3, <2>1, <2>2 DEF WakeInv, Owns, Closing
  <1> QED BY <1>4, <1>5

LEMMA WakeStep == LifecycleInv /\ WakeInv /\ [Next]_vars => WakeInv'
  <1> SUFFICES ASSUME LifecycleInv, WakeInv, [Next]_vars PROVE WakeInv'
    OBVIOUS
  <1>t. TypeOK /\ (\A c \in Closers : Closing(c) => held[c] \in Timers)
        /\ (handle # None => handle \in Timers)
    BY DEF LifecycleInv, ClosersKnow, TypeOK
  <1>1. ASSUME NEW s \in Starters, StartCall(s) \/ StartRaises(s) PROVE WakeInv'
    BY <1>1 DEF StartCall, StartRaises, WakeInv, Owns, Closing
  <1>2. ASSUME NEW s \in Starters, StartArms(s) PROVE WakeInv'
    BY <1>2, ArmWakes, NoneIsNoTimer DEF StartArms
  <1>3. ASSUME NEW t \in Timers, TimerFires(t) PROVE WakeInv'
    <2>1. /\ timer[t] = "scheduled" /\ timer'[t] = "fired"
          /\ \A u \in Timers \ {t} : timer'[u] = timer[u]
      BY <1>t, <1>3 DEF TimerFires, TypeOK
    <2> QED BY <1>t, <1>3, <2>1 DEF TimerFires, WakeInv, Owns, Closing
  <1>4. ASSUME NEW t \in Timers,
               TaskWakes(t) \/ ScriptStarts(t) \/ ScriptEnds(t) \/ BodyEnds(t) \/ BodyRaises(t)
        PROVE  WakeInv'
    <2>1. /\ Owns(t) /\ tpc'[t] \in {"body", "script", "finally"}
          /\ \A u \in Timers \ {t} : tpc'[u] = tpc[u]
          /\ UNCHANGED <<closed, handle, timer, cpc, held>>
      BY <1>t, <1>4 DEF TaskWakes, ScriptStarts, ScriptEnds, BodyEnds, BodyRaises, TypeOK, Owns
    <2> QED BY <1>t, <2>1 DEF WakeInv, Owns, Closing
  <1>5. ASSUME NEW t \in Timers, Finally(t) \/ TaskCleans(t) \/ RearmRaises(t) PROVE WakeInv'
    <2>1. tpc[t] \in {"finally", "cleanup", "read"}
      BY <1>5 DEF Finally, TaskCleans, RearmRaises
    <2>2. /\ tpc'[t] \in {"cleanup", "failed", "done", "read"}
          /\ \A u \in Timers \ {t} : tpc'[u] = tpc[u] /\ timer'[u] = timer[u]
          /\ timer'[t] \in {timer[t], "cleaned"}
          /\ UNCHANGED <<closed, cpc, held>>
          /\ handle' = IF tpc[t] = "finally" THEN None ELSE handle
      <3>1. CASE Finally(t)
        BY <1>t, <3>1 DEF Finally, TypeOK
      <3>2. CASE TaskCleans(t)
        BY <1>t, <3>2 DEF TaskCleans, TypeOK
      <3>3. CASE RearmRaises(t)
        <4>1. tpc' = [tpc EXCEPT ![t] = "failed"] /\ tpc[t] = "read"
              /\ UNCHANGED <<closed, handle, timer, cpc, held>>
          BY <3>3 DEF RearmRaises
        <4> QED BY <1>t, <4>1 DEF TypeOK
      <3> QED BY <1>5, <3>1, <3>2, <3>3
    <2>3. \A u \in Timers : Owns(u) /\ u # t => Owns(u)'
      BY <2>2 DEF Owns
    <2>4. tpc[t] # "finally" => ~Owns(t)
      BY <2>1 DEF Owns
    <2>5. handle' # None => Owns(handle)'
      BY <1>t, <2>2, <2>3, <2>4 DEF WakeInv
    <2> QED BY <1>t, <2>2, <2>5 DEF WakeInv, Closing
  <1>6. ASSUME NEW t \in Timers, Rearms(t) PROVE WakeInv'
    BY <1>6, ArmWakes DEF Rearms
  <1>7. ASSUME NEW c \in Closers, CloseCall(c) PROVE WakeInv'
    <2>1. /\ UNCHANGED <<timer, tpc>> /\ closed' /\ handle' \in {handle, None}
          /\ \A d \in Closers \ {c} : cpc'[d] = cpc[d] /\ held'[d] = held[d]
      BY <1>t, <1>7 DEF CloseCall, Release, TypeOK
    <2>2. cpc'[c] \in {"skipped", "returned", "cancelling"}
          /\ (cpc'[c] = "cancelling" => handle # None /\ held'[c] = handle)
      <3>1. CASE cpc' = [cpc EXCEPT ![c] = "skipped"] \/ cpc' = [cpc EXCEPT ![c] = "returned"]
        BY <1>t, <3>1 DEF TypeOK
      <3>2. CASE cpc' = [cpc EXCEPT ![c] = "cancelling"] /\ handle # None
                 /\ held' = [held EXCEPT ![c] = handle]
        BY <1>t, <3>2 DEF TypeOK
      <3> QED BY <1>7, <3>1, <3>2 DEF CloseCall
    <2> QED BY <1>t, <2>1, <2>2 DEF WakeInv, Owns, Closing
  <1>8. ASSUME NEW c \in Closers, CloseCancels(c) PROVE WakeInv'
    <2>1. /\ held[c] \in Timers /\ closed /\ cpc[c] = "cancelling"
          /\ timer' = [timer EXCEPT ![held[c]] = IF @ = "scheduled" THEN "cancelled" ELSE @]
          /\ cpc' = [cpc EXCEPT ![c] = "waiting"]
          /\ UNCHANGED <<closed, handle, tpc, held>>
      BY <1>t, <1>8 DEF CloseCancels, LifecycleInv, ClosersKnow, Closing
    <2>2. /\ \A t \in Timers \ {held[c]} : timer'[t] = timer[t]
          /\ timer'[held[c]] = IF timer[held[c]] = "scheduled" THEN "cancelled" ELSE timer[held[c]]
          /\ cpc'[c] = "waiting" /\ \A d \in Closers \ {c} : cpc'[d] = cpc[d]
      BY <1>t, <2>1 DEF TypeOK
    <2> QED BY <1>t, <2>1, <2>2 DEF WakeInv, Owns, Closing
  <1>9. ASSUME NEW c \in Closers, CloseAwaits(c) PROVE WakeInv'
    <2>1. /\ UNCHANGED <<closed, handle, timer, tpc, held>> /\ cpc[c] = "waiting"
          /\ cpc'[c] \in {"raised", "cleaning"} /\ \A d \in Closers \ {c} : cpc'[d] = cpc[d]
      BY <1>t, <1>9 DEF CloseAwaits, TypeOK
    <2> QED BY <1>t, <2>1 DEF WakeInv, Owns, Closing
  <1>10. ASSUME NEW c \in Closers, CloseReleases(c) PROVE WakeInv'
    <2>1. /\ held[c] \in Timers /\ tpc[held[c]] = "done"
          /\ timer' = [timer EXCEPT ![held[c]] = "cleaned"]
          /\ cpc' = [cpc EXCEPT ![c] = "returned"]
          /\ UNCHANGED <<closed, tpc, held>> /\ handle' = None
      BY <1>t, <1>10 DEF CloseReleases, Release, LifecycleInv, ClosersKnow, Closing
    <2>2. /\ \A t \in Timers : timer'[t] \in {timer[t], "cleaned"}
          /\ \A t \in Timers \ {held[c]} : timer'[t] = timer[t]
          /\ cpc'[c] = "returned" /\ \A d \in Closers \ {c} : cpc'[d] = cpc[d]
      BY <1>t, <2>1 DEF TypeOK
    <2> QED BY <1>t, <2>1, <2>2 DEF WakeInv, Owns, Closing
  <1>11. CASE UNCHANGED vars
    BY <1>11 DEF vars, WakeInv, Owns, Closing
  <1> QED BY <1>1, <1>2, <1>3, <1>4, <1>5, <1>6, <1>7, <1>8, <1>9, <1>10, <1>11
          DEF Next, TaskNext

LEMMA WakeInvariants == Spec => []WakeInv
  <1>1. Init => WakeInv
    BY DEF Init, WakeInv, Closing
  <1> QED BY <1>1, WakeStep, Invariants, PTL DEF Spec

\* What close() awaits has a way to end: no timer is armed and forgotten.
THEOREM AwaitedAreWoken == Spec => []AwaitedIsWoken
  <1>1. LifecycleInv /\ WakeInv => AwaitedIsWoken
    BY DEF LifecycleInv, ClosersKnow, WakeInv, Closing, AwaitedIsWoken
  <1> QED BY <1>1, Invariants, WakeInvariants, PTL

Armed == {t \in Timers : tpc[t] = "waiting"}
Polling == {t \in Timers : tpc[t] \in {"body", "script"}}
Returned == \E c \in Closers : cpc[c] = "returned"

\* What can be said of the loop's steps in terms of these.
LEMMA LoopSteps ==
    ASSUME UNCHANGED closed
    PROVE  /\ (UNCHANGED <<Returned, Armed, Polling>>) => UNCHANGED Loop!loopVars
           /\ \A t \in Timers :
                ~closed /\ Armed = {} /\ Polling = {} /\ Armed' = {t} /\ Polling' = {}
                    => Loop!LoopNext
           /\ \A t \in Timers :
                ~closed /\ Armed = {t} /\ Armed' = {} /\ Polling' = {t} => Loop!LoopNext
           /\ \A t \in Timers :
                closed /\ Armed = {t} /\ Armed' = {} /\ (UNCHANGED <<Returned, Polling>>)
                    => Loop!LoopNext
           /\ \A t \in Timers :
                Polling = {t} /\ Polling' = {} /\ (UNCHANGED <<Returned, Armed>>)
                    => Loop!LoopNext
           /\ closed /\ Armed = {} /\ Polling = {} /\ Returned' /\ (UNCHANGED <<Armed, Polling>>)
                => [Loop!LoopNext]_(Loop!loopVars)
  BY DEF Loop!loopVars, Loop!LoopNext, Loop!Arm, Loop!Begin, Loop!GiveUp, Loop!End, Loop!Close,
         Loop!Still, Armed, Polling, Returned

\* _arm begins no wait beside another, or beside a round.
LEMMA ArmLoops ==
    ASSUME LifecycleInv, NEW mine \in Timers \cup {None}, Arm(mine),
           mine # None => tpc[mine] = "read", UNCHANGED <<closed, cpc>>
    PROVE  [Loop!LoopNext]_(Loop!loopVars)
  <1> DEFINE left == IF mine = None THEN tpc ELSE [tpc EXCEPT ![mine] = "done"]
  <1>t. TypeOK /\ \A u \in Timers : Owns(u) => handle = u
    BY DEF LifecycleInv, OwnersAreHeld
  <1>1. \A t \in Timers : left[t] = tpc[t] \/ (tpc[t] = "read" /\ left[t] = "done")
    BY <1>t, NoneIsNoTimer DEF TypeOK
  <1>2. DOMAIN left = Timers
    BY <1>t DEF TypeOK
  <1>3. UNCHANGED Returned
    BY DEF Returned
  <1>4. CASE MayArm
    <2>1. PICK t \in Timers : tpc' = [left EXCEPT ![t] = "waiting"]
      BY <1>4 DEF Arm
    <2> HIDE DEF left
    <2>2. tpc'[t] = "waiting" /\ \A u \in Timers \ {t} : tpc'[u] = left[u]
      BY <1>2, <2>1
    <2>3. ~closed /\ \A u \in Timers : ~Owns(u)
      BY <1>t, <1>4, NoneIsNoTimer DEF MayArm
    <2>4. Armed = {} /\ Polling = {} /\ Armed' = {t} /\ Polling' = {}
      BY <1>1, <2>2, <2>3 DEF Armed, Polling, Owns
    <2> QED BY <2>3, <2>4, LoopSteps
  <1>5. CASE ~MayArm
    <2>1. tpc' = left
      BY <1>5 DEF Arm
    <2> HIDE DEF left
    <2>2. UNCHANGED <<Armed, Polling>>
      BY <1>1, <2>1 DEF Armed, Polling
    <2> QED BY <1>3, <2>2, LoopSteps
  <1> QED BY <1>4, <1>5

\* A task's step is one of the loop, or none.
LEMMA TaskLoops ==
    ASSUME LifecycleInv, WakeInv, NEW t \in Timers,
           TaskNext(t) \/ ScriptStarts(t) \/ BodyRaises(t) \/ RearmRaises(t)
    PROVE  [Loop!LoopNext]_(Loop!loopVars)
  <1>t. TypeOK /\ \A u \in Timers : Owns(u) => handle = u
    BY DEF LifecycleInv, OwnersAreHeld
  <1>1. Owns(t) => Armed \subseteq {t} /\ Polling \subseteq {t}
    BY <1>t DEF Armed, Polling, Owns
  <1>2. CASE TaskWakes(t)
    <2>1. /\ tpc[t] = "waiting" /\ UNCHANGED <<closed, cpc>>
          /\ \A u \in Timers \ {t} : tpc'[u] = tpc[u]
          /\ tpc'[t] = IF closed THEN "finally" ELSE "body"
      BY <1>t, <1>2 DEF TaskWakes, TypeOK, WakeInv
    <2>2. /\ Armed = {t} /\ Polling = {} /\ Armed' = {}
          /\ Polling' = IF closed THEN {} ELSE {t}
      BY <1>1, <2>1 DEF Armed, Polling, Owns
    <2>3. UNCHANGED Returned
      BY <2>1 DEF Returned
    <2> QED BY <2>1, <2>2, <2>3, LoopSteps
  <1>3. CASE BodyEnds(t) \/ BodyRaises(t)
    <2>1. /\ tpc[t] \in {"body", "script"} /\ UNCHANGED <<closed, cpc>>
          /\ \A u \in Timers \ {t} : tpc'[u] = tpc[u]
          /\ tpc'[t] = "finally"
      BY <1>t, <1>3 DEF BodyEnds, BodyRaises, TypeOK
    <2>2. Polling = {t} /\ Polling' = {} /\ Armed' = Armed
      BY <1>1, <2>1 DEF Armed, Polling, Owns
    <2>3. UNCHANGED Returned
      BY <2>1 DEF Returned
    <2> QED BY <2>1, <2>2, <2>3, LoopSteps
  <1>4. CASE ScriptStarts(t) \/ ScriptEnds(t)
    <2>1. /\ tpc[t] \in {"body", "script"} /\ tpc'[t] \in {"body", "script"}
          /\ UNCHANGED <<closed, cpc>>
          /\ \A u \in Timers \ {t} : tpc'[u] = tpc[u]
      BY <1>t, <1>4 DEF ScriptStarts, ScriptEnds, TypeOK
    <2>2. UNCHANGED <<Returned, Armed, Polling>>
      BY <2>1 DEF Armed, Polling, Returned
    <2> QED BY <2>1, <2>2, LoopSteps
  <1>5. CASE Finally(t) \/ TaskCleans(t) \/ RearmRaises(t)
    <2>1. /\ tpc[t] \in {"finally", "cleanup", "read"}
          /\ tpc'[t] \in {"cleanup", "failed", "done", "read"}
          /\ UNCHANGED <<closed, cpc>>
          /\ \A u \in Timers \ {t} : tpc'[u] = tpc[u]
      <3>1. CASE Finally(t)
        BY <1>t, <3>1 DEF Finally, TypeOK
      <3>2. CASE TaskCleans(t)
        BY <1>t, <3>2 DEF TaskCleans, TypeOK
      <3>3. CASE RearmRaises(t)
        <4>1. tpc' = [tpc EXCEPT ![t] = "failed"] /\ tpc[t] = "read" /\ UNCHANGED <<closed, cpc>>
          BY <3>3 DEF RearmRaises
        <4> QED BY <1>t, <4>1 DEF TypeOK
      <3> QED BY <1>5, <3>1, <3>2, <3>3
    <2>2. UNCHANGED <<Returned, Armed, Polling>>
      BY <2>1 DEF Armed, Polling, Returned
    <2> QED BY <2>1, <2>2, LoopSteps
  <1>6. CASE Rearms(t)
    BY <1>6, ArmLoops DEF Rearms
  <1> QED BY <1>2, <1>3, <1>4, <1>5, <1>6 DEF TaskNext

\* close() has nothing left to wait for when it returns.
LEMMA CloseLoops ==
    ASSUME LifecycleInv, NEW c \in Closers,
           CloseCall(c) \/ CloseCancels(c) \/ CloseAwaits(c) \/ CloseReleases(c)
    PROVE  [Loop!LoopNext]_(Loop!loopVars)
  <1>t. TypeOK /\ \A u \in Timers : Owns(u) => handle = u
    BY DEF LifecycleInv, OwnersAreHeld
  <1>1. UNCHANGED tpc /\ UNCHANGED <<Armed, Polling>>
    BY DEF CloseCall, CloseCancels, CloseAwaits, CloseReleases, Armed, Polling
  <1>2. (\A t \in Timers : ~Owns(t)) => Armed = {} /\ Polling = {}
    BY DEF Owns, Armed, Polling
  <1>3. CASE CloseCall(c)
    <2>1. closed' /\ cpc[c] = "idle" /\ \A d \in Closers \ {c} : cpc'[d] = cpc[d]
      BY <1>t, <1>3 DEF CloseCall, TypeOK
    <2>2. CASE closed
      <3>1. cpc' = [cpc EXCEPT ![c] = "skipped"]
        BY <1>3, <2>2 DEF CloseCall
      <3>2. UNCHANGED Returned
        BY <1>t, <2>1, <3>1 DEF TypeOK, Returned
      <3> QED BY <1>1, <2>1, <2>2, <3>2, LoopSteps DEF TypeOK
    <2>3. CASE ~closed
      <3>1. ~Returned
        BY <2>3 DEF LifecycleInv, ClosersKnow, Returned
      <3>2. Returned' => Armed = {} /\ Polling = {}
        <4>1. CASE handle = None
          BY <1>t, <1>2, <4>1, NoneIsNoTimer
        <4>2. CASE handle # None
          <5>1. cpc' = [cpc EXCEPT ![c] = "cancelling"]
            BY <1>3, <2>3, <4>2 DEF CloseCall
          <5>2. ~Returned'
            BY <1>t, <2>1, <3>1, <5>1 DEF TypeOK, Returned
          <5> QED BY <5>2
        <4> QED BY <4>1, <4>2
      <3> QED BY <1>1, <2>1, <2>3, <3>1, <3>2
              DEF Loop!LoopNext, Loop!Close, Loop!Still, Armed, Polling, Returned
    <2> QED BY <2>2, <2>3
  <1>4. CASE CloseCancels(c) \/ CloseAwaits(c)
    <2>1. /\ UNCHANGED closed /\ cpc[c] # "returned" /\ cpc'[c] # "returned"
          /\ \A d \in Closers \ {c} : cpc'[d] = cpc[d]
      BY <1>t, <1>4 DEF CloseCancels, CloseAwaits, TypeOK
    <2>2. UNCHANGED Returned
      BY <2>1 DEF Returned
    <2> QED BY <1>1, <2>1, <2>2, LoopSteps
  <1>5. CASE CloseReleases(c)
    <2>1. closed /\ UNCHANGED closed /\ cpc'[c] = "returned"
      BY <1>t, <1>5 DEF CloseReleases, LifecycleInv, ClosersKnow, Closing, TypeOK
    <2>2. \A t \in Timers : ~Owns(t)
      BY <1>5 DEF CloseReleases, LifecycleInv, ClosersKnow, Closing, Owns
    <2>3. Returned'
      BY <2>1 DEF Returned
    <2> QED BY <1>1, <1>2, <2>1, <2>2, <2>3, LoopSteps
  <1> QED BY <1>3, <1>4, <1>5

\* start(), close() and the poll tasks, whatever they do at once, are a loop of
\* rounds one after another.
THEOREM ImplementsLoop == Spec => LoopSpec
  <1>1. Init => Loop!LoopInit
    BY DEF Init, Loop!LoopInit, Loop!Still
  <1>2. LifecycleInv /\ WakeInv /\ [Next]_vars => [Loop!LoopNext]_(Loop!loopVars)
    <2> SUFFICES ASSUME LifecycleInv, WakeInv, [Next]_vars
                 PROVE  [Loop!LoopNext]_(Loop!loopVars)
      OBVIOUS
    <2>1. CASE UNCHANGED <<closed, cpc, tpc>>
      <3>1. UNCHANGED <<Returned, Armed, Polling>>
        BY <2>1 DEF Returned, Armed, Polling
      <3> QED BY <2>1, <3>1, LoopSteps
    <2>2. ASSUME NEW s \in Starters, StartArms(s) PROVE [Loop!LoopNext]_(Loop!loopVars)
      BY <2>2, ArmLoops, NoneIsNoTimer DEF StartArms
    <2>3. ASSUME NEW t \in Timers,
                 TaskNext(t) \/ ScriptStarts(t) \/ BodyRaises(t) \/ RearmRaises(t)
          PROVE  [Loop!LoopNext]_(Loop!loopVars)
      BY <2>3, TaskLoops
    <2>4. ASSUME NEW c \in Closers,
                 CloseCall(c) \/ CloseCancels(c) \/ CloseAwaits(c) \/ CloseReleases(c)
          PROVE  [Loop!LoopNext]_(Loop!loopVars)
      BY <2>4, CloseLoops
    <2> QED BY <2>1, <2>2, <2>3, <2>4 DEF Next, StartCall, StartRaises, TimerFires, vars
  <1> QED BY <1>1, <1>2, Invariants, WakeInvariants, PTL DEF Spec, LoopSpec, Loop!LoopSpec

-----------------------------------------------------------------------------
(* A script's run: as long as nothing was omitted, the runner has what was      *)
(* printed, from the first line on.                                         *)

ScriptTypes ==
    /\ printed \in Seq(Lines)
    /\ read \in 0..Len(printed)
    /\ omitted \in BOOLEAN /\ raised \in BOOLEAN /\ saved \in BOOLEAN
    /\ pc \in {"idle", "wait", "clean", "ended"}
    /\ script \in {"none", "running", "exited", "timeout", "lost"}
    /\ exit \in {0, 1, NoExit}

ScriptInv ==
    /\ ScriptTypes
    /\ ~omitted => output = SubSeq(printed, 1, read)
    /\ script \in {"none", "running"} => exit = NoExit
    /\ pc = "idle" => script = "none"
    /\ pc # "ended" => outcome = NoOutcome /\ ~saved
    /\ pc \in {"idle", "wait"} => ~raised
    /\ pc = "clean" /\ ~raised =>
          /\ script \in {"exited", "timeout", "lost"}
          /\ read = Len(printed) /\ result = Answer
    /\ outcome.status \in Successes => script # "running"
    /\ SuccessIsTheScripts

\* A sequence with as many elements as places has none twice.
LEMMA NoneTwice ==
    ASSUME NEW S, NEW s \in Seq(S), ~(Cardinality(ToSet(s)) < Len(s)),
           NEW i \in DOMAIN s, NEW j \in DOMAIN s, i < j
    PROVE  s[i] # s[j]
  <1>1. /\ DOMAIN s = 1..Len(s) /\ Len(s) \in Nat
        /\ s \in [1..Len(s) -> ToSet(s)]
    BY DEF ToSet
  <1>2. s \in Surjection(1..Len(s), ToSet(s))
    BY <1>1 DEF Surjection, ToSet
  <1>3. IsFiniteSet(1..Len(s)) /\ Cardinality(1..Len(s)) = Len(s)
    <2>1. /\ IsFiniteSet(1..Len(s))
          /\ Cardinality(1..Len(s)) = IF 1 > Len(s) THEN 0 ELSE Len(s) - 1 + 1
      BY <1>1, FS_Interval
    <2> QED BY <1>1, <2>1
  <1>4. /\ IsFiniteSet(ToSet(s)) /\ Cardinality(ToSet(s)) <= Len(s)
        /\ Cardinality(ToSet(s)) = Len(s) => s \in Injection(1..Len(s), ToSet(s))
    BY <1>2, <1>3, FS_Surjection
  <1>5. Cardinality(ToSet(s)) \in Nat
    BY <1>4, FS_CardinalityType
  <1>6. s \in Injection(1..Len(s), ToSet(s))
    BY <1>1, <1>4, <1>5
  <1> QED BY <1>1, <1>6 DEF Injection, IsInjective

\* A success is what the last line says of itself.
LEMMA ParsedIsSaid ==
    ASSUME NEW lines \in Seq(Lines), Parsed(lines).status \in Successes
    PROVE  /\ lines # <<>> /\ Said(Last(lines), Parsed(lines).status)
           /\ Parsed(lines).events = ToSet(Last(lines).events)
  <1> DEFINE r == Last(lines)
  <1>1. ~(lines = <<>> \/ r \notin Results)
    BY DEF Parsed, Failed, Outcome, Successes
  <1>2. ~(Breaches(r) \/ Contradicts(r)) /\ r.status \in Successes
    BY <1>1 DEF Parsed, Failed, Outcome, Successes
  <1>3. Parsed(lines) = Outcome(r.status, ToSet(r.events))
    BY <1>1, <1>2 DEF Parsed
  <1>4. r \in Results /\ r.events \in Seq(Ids \cup {Bad})
    BY <1>1, ScriptLines DEF Result
  <1>5. \A i, j \in DOMAIN r.events : i < j => r.events[i] # r.events[j]
    BY <1>2, <1>4, NoneTwice DEF Breaches
  <1>6. \A i \in DOMAIN r.events : r.events[i] # Bad
    BY <1>2 DEF Breaches, ToSet
  <1>7. Len(r.events) \in IF r.status = "ok" THEN 1..MaxEvents ELSE {0}
    <2>1. Len(r.events) \in Nat /\ Len(r.events) <= MaxEvents
      BY <1>2, <1>4, ScriptBounds DEF Breaches
    <2>2. r.events = <<>> <=> Len(r.events) = 0
      BY <1>4
    <2> QED BY <1>2, <2>1, <2>2, ScriptBounds DEF Contradicts, Successes
  <1> HIDE DEF r
  <1>8. Said(r, r.status)
    BY <1>2, <1>4, <1>5, <1>6, <1>7 DEF Said, Breaches
  <1> QED BY <1>1, <1>3, <1>8 DEF Outcome, r

\* An outcome that is no success has no events.
LEMMA FailuresAreEmpty ==
    /\ \A lines : Parsed(lines).status \notin Successes => Parsed(lines).events = {}
    /\ OutcomeOf.status \notin Successes => OutcomeOf.events = {}
  <1>1. ASSUME NEW lines, Parsed(lines).status \notin Successes
        PROVE  Parsed(lines).events = {}
    BY <1>1 DEF Parsed, Failed, Outcome
  <1> QED BY <1>1 DEF OutcomeOf, Failed, Outcome

\* What the runner makes of a run whose process is over.
LEMMA OutcomesAreSaid ==
    ASSUME ScriptInv, pc = "clean", ~raised, OutcomeOf.status \in Successes
    PROVE  /\ script \in {"exited", "lost"} /\ printed # <<>>
           /\ Said(Last(printed), OutcomeOf.status)
           /\ OutcomeOf.events = ToSet(Last(printed).events)
  <1>1. /\ script \in {"exited", "timeout", "lost"} /\ read = Len(printed)
        /\ result = Answer /\ printed \in Seq(Lines)
    BY DEF ScriptInv, ScriptTypes
  <1>2. ~omitted /\ OutcomeOf = Parsed(output) /\ result.finish # "timeout"
    BY DEF OutcomeOf, Failed, Outcome, Successes, ScriptInv, ScriptTypes
  <1>3. output = printed
    BY <1>1, <1>2 DEF ScriptInv
  <1>4. script # "timeout"
    BY <1>1, <1>2 DEF Answer
  <1> QED BY <1>1, <1>2, <1>3, <1>4, ParsedIsSaid

LEMMA ScriptBegins == ScriptInit => ScriptInv
  <1> SUFFICES ASSUME ScriptInit PROVE ScriptInv
    OBVIOUS
  <1>1. outcome.status \notin Successes /\ outcome.events = {}
    BY DEF ScriptInit, NoOutcome, Failed, Outcome, Successes
  <1>2. printed \in Seq(Lines) /\ Len(printed) = 0 /\ SubSeq(printed, 1, 0) = <<>>
    BY SubSeqEmpty DEF ScriptInit
  <1>3. ScriptTypes
    <2>1. read \in 0..Len(printed)
      BY <1>2 DEF ScriptInit
    <2> QED BY <1>2, <2>1 DEF ScriptInit, ScriptTypes
  <1> QED BY <1>1, <1>2, <1>3 DEF ScriptInit, ScriptInv, SuccessIsTheScripts

\* The runner has what the slices brought.
LEMMA WaitsKeeps == ScriptInv /\ Waits => ScriptInv'
  <1> SUFFICES ASSUME ScriptInv, Waits PROVE ScriptInv'
    OBVIOUS
  <1> DEFINE rest == SubSeq(printed, read + 1, Len(printed))
  <1>1. PICK slice \in Slices(rest) :
          output' = output \o slice[1] /\ omitted' = (omitted \/ slice[2])
    BY DEF Waits, CountsOmitted
  <1>2. slice[2] \in BOOLEAN /\ (~slice[2] => slice[1] = rest)
    <2>1. CASE slice = <<rest, FALSE>>
      BY <2>1
    <2>2. CASE \E lines : slice = <<lines, TRUE>>
      BY <2>2
    <2> HIDE DEF rest
    <2> QED BY <1>1, <2>1, <2>2 DEF Slices
  <1>3. printed \in Seq(Lines) /\ read \in 0..Len(printed) /\ Len(printed) \in Nat
    BY DEF ScriptInv, ScriptTypes
  <1>4. /\ read' = Len(printed) /\ printed' = printed /\ result' = Answer
        /\ UNCHANGED <<script, exit, raised, outcome, saved>> /\ pc = "wait"
        /\ pc' = IF GoesOn(Answer) THEN "wait" ELSE "clean"
    BY DEF Waits, process
  <1>5. ASSUME ~omitted' PROVE output' = SubSeq(printed', 1, read')
    <2>1. output = SubSeq(printed, 1, read) /\ output' = output \o rest
      BY <1>1, <1>2, <1>5 DEF ScriptInv, ScriptTypes
    <2>2. SubSeq(printed, 1, read) \o rest = printed
      <3>1. SubSeq(printed, 1, read) \o rest = SubSeq(printed, 1, Len(printed))
        <4>1. /\ 1 \in 1..(Len(printed) + 1) /\ read \in (1 - 1)..Len(printed)
              /\ Len(printed) \in read..Len(printed)
          BY <1>3
        <4> QED BY <1>3, <4>1, ConcatAdjacentSubSeq
      <3> QED BY <1>3, <3>1, SubSeqFull
    <2>3. SubSeq(printed, 1, Len(printed)) = printed
      BY <1>3, SubSeqFull
    <2> QED BY <1>4, <2>1, <2>2, <2>3
  <1>6. ScriptTypes'
    BY <1>1, <1>2, <1>3, <1>4 DEF ScriptInv, ScriptTypes
  <1>7. pc' = "clean" => script' \in {"exited", "timeout", "lost"} /\ result' = Answer'
    BY <1>4 DEF ScriptInv, ScriptTypes, GoesOn, Answer, NoExit
  <1>8. SuccessIsTheScripts'
    BY <1>4 DEF ScriptInv, SuccessIsTheScripts, NoOutcome, Failed, Outcome, Successes
  <1> QED BY <1>4, <1>5, <1>6, <1>7, <1>8 DEF ScriptInv

\* What the host's process does, and how the run begins and breaks off.
LEMMA ScriptKeeps == ScriptInv /\ (Script \/ Begins \/ Interrupted \/ Saves) => ScriptInv'
  <1> SUFFICES ASSUME ScriptInv, Script \/ Begins \/ Interrupted \/ Saves PROVE ScriptInv'
    OBVIOUS
  <1>1. CASE Script
    <2>1. /\ UNCHANGED <<read, output, omitted, result, pc, raised, outcome, saved>>
          /\ Prints \/ Exits \/ Stops
          /\ script = "running" /\ exit' \in {0, 1, NoExit}
          /\ script' \in {"running", "exited", "timeout", "lost"}
          /\ script' = "running" => exit' = exit
      BY <1>1 DEF Script, Prints, Exits, Stops, Running, RunnerStays, answers, ScriptInv,
              ScriptTypes
    <2>2. /\ printed' \in Seq(Lines) /\ Len(printed) <= Len(printed')
          /\ read \in 0..Len(printed')
          /\ SubSeq(printed', 1, read) = SubSeq(printed, 1, read)
      <3>1. printed \in Seq(Lines) /\ read \in 0..Len(printed) /\ Len(printed) \in Nat
        BY DEF ScriptInv, ScriptTypes
      <3>2. CASE Prints
        <4>1. PICK line \in Lines : printed' = Append(printed, line)
          BY <3>2 DEF Prints
        <4>2. printed' \in Seq(Lines) /\ Len(printed') = Len(printed) + 1
          BY <3>1, <4>1
        <4>3. SubSeq(printed', 1, read) = SubSeq(printed, 1, read)
          BY <3>1, <4>1
        <4> QED BY <3>1, <4>2, <4>3
      <3>3. CASE Exits \/ Stops
        BY <3>1, <3>3 DEF Exits, Stops
      <3> QED BY <2>1, <3>2, <3>3
    <2>3. ScriptTypes'
      BY <2>1, <2>2 DEF ScriptInv, ScriptTypes
    <2>4. ~(pc = "clean" /\ ~raised) /\ outcome.status \notin Successes
      BY <2>1 DEF ScriptInv
    <2>5. SuccessIsTheScripts'
      BY <2>1, <2>4 DEF ScriptInv, SuccessIsTheScripts
    <2> QED BY <2>1, <2>2, <2>3, <2>4, <2>5 DEF ScriptInv
  <1>2. CASE Begins
    <2>1. /\ UNCHANGED <<exit, printed, read, output, omitted, raised, saved>>
          /\ pc = "idle" /\ pc' \in {"wait", "ended"} /\ ~saved /\ ~raised
          /\ \/ script' = "running" /\ pc' = "wait" /\ outcome' = outcome
             \/ script' = script /\ pc' = "ended" /\ outcome' = Failed("unavailable")
          /\ outcome = NoOutcome
      BY <1>2 DEF Begins, answers, ScriptInv
    <2>2. outcome'.status \notin Successes /\ outcome'.events = {}
      BY <2>1 DEF NoOutcome, Failed, Outcome, Successes
    <2>3. exit' = NoExit /\ script = "none"
      BY <2>1 DEF ScriptInv
    <2> QED BY <2>1, <2>2, <2>3 DEF ScriptInv, ScriptTypes, SuccessIsTheScripts
  <1>3. CASE Interrupted
    BY <1>3 DEF Interrupted, process, answers, ScriptInv, ScriptTypes, NoOutcome, Failed, Outcome,
                Successes, SuccessIsTheScripts
  <1>4. CASE Saves
    BY <1>4 DEF Saves, process, answers, ScriptInv, ScriptTypes, Successes, SuccessIsTheScripts,
                Answer
  <1> QED BY <1>1, <1>2, <1>3, <1>4

LEMMA CleansKeeps == ScriptInv /\ (Cleans \/ CleanFails) => ScriptInv'
  <1> SUFFICES ASSUME ScriptInv, Cleans \/ CleanFails PROVE ScriptInv'
    OBVIOUS
  <1>1. CASE CleanFails
    BY <1>1 DEF CleanFails, process, answers, ScriptInv, ScriptTypes, Failed, Outcome, Successes,
                SuccessIsTheScripts
  <1>2. CASE Cleans
    <2>1. /\ pc = "clean" /\ pc' = "ended" /\ ~saved
          /\ UNCHANGED <<exit, printed, read, output, omitted, result, raised, saved>>
          /\ script' = IF script = "running" THEN "lost" ELSE script
          /\ outcome' = IF raised THEN Failed("raised") ELSE OutcomeOf
      BY <1>2 DEF Cleans, Ends, Running, answers, ScriptInv
    <2>2. ScriptTypes'
      BY <2>1 DEF ScriptInv, ScriptTypes
    <2>3. CASE outcome'.status \in Successes
      <3>1. ~raised /\ outcome' = OutcomeOf
        BY <2>1, <2>3 DEF Failed, Outcome, Successes
      <3>2. /\ script \in {"exited", "lost"} /\ printed # <<>>
            /\ Said(Last(printed), outcome'.status)
            /\ outcome'.events = ToSet(Last(printed).events)
        BY <2>1, <2>3, <3>1, OutcomesAreSaid
      <3>3. SuccessIsTheScripts'
        BY <2>1, <2>3, <3>1, <3>2 DEF SuccessIsTheScripts, Said
      <3> QED BY <2>1, <2>2, <3>2, <3>3 DEF ScriptInv
    <2>4. CASE outcome'.status \notin Successes
      <3>1. outcome'.events = {}
        BY <2>1, <2>4, FailuresAreEmpty DEF Failed, Outcome
      <3>2. SuccessIsTheScripts'
        BY <2>1, <2>4, <3>1 DEF SuccessIsTheScripts
      <3> QED BY <2>1, <2>2, <2>4, <3>2 DEF ScriptInv
    <2> QED BY <2>3, <2>4
  <1> QED BY <1>1, <1>2

LEMMA ScriptInvHolds == ScriptSpec => []ScriptInv
  <1>1. ScriptInit => ScriptInv
    BY ScriptBegins
  <1>2. ScriptInv /\ [ScriptNext]_scriptVars => ScriptInv'
    <2> SUFFICES ASSUME ScriptInv, [ScriptNext]_scriptVars PROVE ScriptInv'
      OBVIOUS
    <2>1. CASE UNCHANGED scriptVars
      BY <2>1 DEF scriptVars, process, answers, ScriptInv, ScriptTypes, SuccessIsTheScripts,
                  Answer, Said
    <2> QED BY <2>1, WaitsKeeps, ScriptKeeps, CleansKeeps DEF ScriptNext, Runner
  <1> QED BY <1>1, <1>2, PTL DEF ScriptSpec

\* A run succeeds, and a script is saved, only on what the script printed as its
\* last word, in full, whatever slices the process service made of it:
\* SuccessIsTheScripts, of ScriptRunner.run, _outcome and parse_output.
THEOREM SuccessesAreTheScripts == ScriptSpec => []SuccessIsTheScripts
  <1>1. ScriptInv => SuccessIsTheScripts
    BY DEF ScriptInv
  <1> QED BY <1>1, ScriptInvHolds, PTL

\* A run that has returned has left no process behind, or it has raised:
\* NothingRunsOn, of the finally clause of ScriptRunner.run.
THEOREM RunsLeaveNothing == ScriptSpec => []NothingRunsOn
  <1> DEFINE Alone == NothingRunsOn /\ (script = "none" => ~behind)
  <1>1. ScriptInit => Alone
    BY DEF ScriptInit, NothingRunsOn
  <1>2. ScriptInv /\ Alone /\ [ScriptNext]_scriptVars => Alone'
    <2> SUFFICES ASSUME ScriptInv, Alone, [ScriptNext]_scriptVars PROVE Alone'
      OBVIOUS
    <2> USE DEF NothingRunsOn, Running
    <2>1. CASE Script
      BY <2>1 DEF Script, Prints, Exits, Stops, RunnerStays
    <2>2. CASE Begins
      BY <2>2 DEF Begins, ScriptInv
    <2>3. CASE Waits \/ Interrupted \/ Saves
      BY <2>3 DEF Waits, Interrupted, Saves, process
    <2>4. CASE Cleans
      BY <2>4 DEF Cleans, Ends
    <2>5. CASE CleanFails
      BY <2>5 DEF CleanFails, process, Failed, Outcome
    <2>6. CASE UNCHANGED scriptVars
      BY <2>6 DEF scriptVars, process
    <2> QED BY <2>1, <2>2, <2>3, <2>4, <2>5, <2>6 DEF ScriptNext, Runner
  <1> QED BY <1>1, <1>2, ScriptInvHolds, PTL DEF ScriptSpec

(***************************************************************************)
(* FeedRanking. Its scores are folds, walks and sorts of any number of rows.   *)
(* What holds of all of them is shown from a least row for which it does not   *)
(* hold: there is none.                                                      *)
(***************************************************************************)
\* A set of naturals has a least element.
LEMMA LeastOf ==
    ASSUME NEW T, T \subseteq Nat, T # {}
    PROVE  Min(T) \in T /\ \A y \in T : Min(T) <= y
  <1> DEFINE R == StrictSubsetOrdering(Nat)
             U == {0..n : n \in T}
  <1>1. \A n \in Nat : 0..n \in FiniteSubsetsOf(Nat)
    BY FS_Interval DEF FiniteSubsetsOf
  <1>2. U \subseteq FiniteSubsetsOf(Nat) /\ U # {}
    BY <1>1
  <1>3. IsWellFoundedOn(R, FiniteSubsetsOf(Nat))
    BY FS_StrictSubsetOrderingWellFounded
  <1>4. PICK u \in U : \A w \in U : ~(<<w, u>> \in R)
    <2> HIDE DEF R, U
    <2> QED BY <1>2, <1>3, WFMin
  <1>5. PICK x \in T : u = 0..x
    BY <1>4
  <1>6. \A y \in T : x <= y
    <2> SUFFICES ASSUME NEW y \in T, ~(x <= y) PROVE FALSE
      OBVIOUS
    <2>1. 0..y \in U /\ x \in Nat /\ y \in Nat
      OBVIOUS
    <2>2. 0..y \subseteq 0..x /\ 0..y # 0..x
      BY <2>1
    <2>3. 0..y \subseteq Nat /\ 0..x \subseteq Nat
      OBVIOUS
    <2> QED BY <1>4, <1>5, <2>1, <2>2, <2>3 DEF StrictSubsetOrdering
  <1> QED BY <1>6 DEF Min

\* And a greatest, if it is bounded.
LEMMA GreatestOf ==
    ASSUME NEW T, T \subseteq Nat, T # {}, NEW b \in Nat, \A y \in T : y <= b
    PROVE  Max(T) \in T /\ \A y \in T : y <= Max(T)
  <1> DEFINE bounds == {n \in Nat : \A y \in T : y <= n}
             m == Min(bounds)
  <1>1. m \in bounds /\ \A n \in bounds : m <= n
    BY LeastOf
  <1> HIDE DEF m
  <1>2. m \in T
    <2> SUFFICES ASSUME m \notin T PROVE FALSE
      OBVIOUS
    <2>1. m \in Nat /\ \A y \in T : y \in Nat /\ y < m
      BY <1>1
    <2>2. m # 0
      <3>1. PICK y \in T : TRUE
        OBVIOUS
      <3> QED BY <2>1, <3>1
    <2>3. m - 1 \in Nat /\ \A y \in T : y <= m - 1
      BY <2>1, <2>2
    <2> QED BY <1>1, <2>1, <2>3
  <1> QED BY <1>1, <1>2 DEF Max

\* The greatest is the one that no other exceeds.
LEMMA GreatestIs ==
    ASSUME NEW T, T \subseteq Nat, NEW m \in T, \A y \in T : y <= m
    PROVE  Max(T) = m
  <1>1. m \in Nat /\ T # {}
    OBVIOUS
  <1>2. Max(T) \in T /\ \A y \in T : y <= Max(T)
    BY <1>1, GreatestOf
  <1>3. Max(T) \in Nat /\ Max(T) <= m /\ m <= Max(T)
    BY <1>1, <1>2
  <1> QED BY <1>1, <1>3

\* How many come before.
RankIn(S, before) == [x \in S |-> Cardinality({y \in S : <<y, x>> \in before})]

\* In an ordered finite set no two have as many before them.
LEMMA RanksDiffer ==
    ASSUME NEW S, IsFiniteSet(S), NEW before,
           \A x, y \in S : x # y => <<x, y>> \in before \/ <<y, x>> \in before,
           \A x, y, z \in S : <<x, y>> \in before /\ <<y, z>> \in before => <<x, z>> \in before,
           \A x \in S : <<x, x>> \notin before
    PROVE  /\ \A x \in S : RankIn(S, before)[x] \in Nat /\ RankIn(S, before)[x] < Cardinality(S)
           /\ \A x, y \in S : <<x, y>> \in before => RankIn(S, before)[x] < RankIn(S, before)[y]
           /\ \A x, y \in S : x # y => RankIn(S, before)[x] # RankIn(S, before)[y]
  <1> DEFINE rank == RankIn(S, before)
  <1>1. Cardinality(S) \in Nat
    BY FS_CardinalityType
  <1> DEFINE below == [x \in S |-> {y \in S : <<y, x>> \in before}]
  <1>2. \A x \in S : below[x] \in SUBSET S /\ below[x] # S /\ rank[x] = Cardinality(below[x])
    BY DEF RankIn
  <1>3. \A x, y \in S : <<x, y>> \in before =>
            below[x] \in SUBSET below[y] /\ below[x] # below[y]
    OBVIOUS
  <1> HIDE DEF below, rank
  <1>4. \A x \in S : IsFiniteSet(below[x]) /\ Cardinality(below[x]) \in Nat
    BY <1>2, FS_Subset, FS_CardinalityType
  <1>5. ASSUME NEW x \in S PROVE rank[x] \in Nat /\ rank[x] < Cardinality(S)
    <2>1. Cardinality(below[x]) <= Cardinality(S) /\ Cardinality(below[x]) # Cardinality(S)
      BY <1>2, FS_Subset
    <2> QED BY <1>1, <1>2, <1>4, <2>1
  <1>6. ASSUME NEW x \in S, NEW y \in S, <<x, y>> \in before PROVE rank[x] < rank[y]
    <2>1. Cardinality(below[x]) <= Cardinality(below[y])
          /\ Cardinality(below[x]) # Cardinality(below[y])
      BY <1>3, <1>4, <1>6, FS_Subset
    <2> QED BY <1>2, <1>4, <2>1
  <1>7. ASSUME NEW x \in S, NEW y \in S, x # y PROVE rank[x] # rank[y]
    <2>1. rank[x] < rank[y] \/ rank[y] < rank[x]
      BY <1>6, <1>7
    <2>2. rank[x] \in Nat /\ rank[y] \in Nat
      BY <1>5
    <2> QED BY <2>1, <2>2
  <1> QED BY <1>5, <1>6, <1>7 DEF rank

\* An ordered set can be put into its order.
LEMMA SortedIsSorted ==
    ASSUME NEW S, IsFiniteSet(S), NEW before,
           \A x, y \in S : x # y => <<x, y>> \in before \/ <<y, x>> \in before,
           \A x, y, z \in S : <<x, y>> \in before /\ <<y, z>> \in before => <<x, z>> \in before,
           \A x \in S : <<x, x>> \notin before
    PROVE  /\ Sorted(S, before) \in Bijection(1..Cardinality(S), S)
           /\ \A i, j \in 1..Cardinality(S) :
                  i < j => <<Sorted(S, before)[i], Sorted(S, before)[j]>> \in before
  <1> DEFINE n == Cardinality(S)
             rank == RankIn(S, before)
             place == [x \in S |-> rank[x] + 1]
             IsOrder(s) == \A i, j \in 1..n : i < j => <<s[i], s[j]>> \in before
  <1>1. n \in Nat /\ IsFiniteSet(1..n) /\ Cardinality(1..n) = n
    BY FS_CardinalityType, FS_Interval
  <1>2. /\ \A x \in S : rank[x] \in Nat /\ rank[x] < n
        /\ \A x, y \in S : <<x, y>> \in before => rank[x] < rank[y]
        /\ \A x, y \in S : x # y => rank[x] # rank[y]
    BY RanksDiffer
  <1> HIDE DEF rank
  <1>3. place \in Injection(S, 1..n)
    BY <1>1, <1>2 DEF Injection, IsInjective
  <1>4. place \in Surjection(S, 1..n)
    BY <1>1, <1>3, FS_Injection
  <1>5. \A k \in 1..n : \E x \in S : place[x] = k
    BY <1>4 DEF Surjection
  <1> DEFINE s == [k \in 1..n |-> CHOOSE x \in S : place[x] = k]
  <1>6. \A k \in 1..n : s[k] \in S /\ place[s[k]] = k
    BY <1>5
  <1>7. s \in [1..n -> S]
    BY <1>6
  <1> HIDE DEF s
  <1>8. IsOrder(s)
    <2> SUFFICES ASSUME NEW i \in 1..n, NEW j \in 1..n, i < j
                 PROVE  <<s[i], s[j]>> \in before
      OBVIOUS
    <2>1. s[i] \in S /\ s[j] \in S /\ rank[s[i]] + 1 = i /\ rank[s[j]] + 1 = j
      BY <1>6
    <2>2. rank[s[i]] < rank[s[j]]
      BY <1>2, <2>1
    <2>3. s[i] # s[j] /\ <<s[j], s[i]>> \notin before
      BY <1>2, <2>1, <2>2
    <2> QED BY <2>1, <2>3
  <1> DEFINE t == Sorted(S, before)
  <1>9. t \in [1..n -> S] /\ IsOrder(t)
    BY <1>7, <1>8 DEF Sorted
  <1> HIDE DEF t
  <1>10. ASSUME NEW i \in 1..n, NEW j \in 1..n, t[i] = t[j] PROVE i = j
    <2>1. t[i] \in S /\ <<t[i], t[i]>> \notin before
      BY <1>9
    <2>2. ~(i < j) /\ ~(j < i)
      BY <1>9, <1>10, <2>1
    <2>3. i \in Nat /\ j \in Nat
      BY <1>1
    <2> QED BY <2>2, <2>3
  <1>11. t \in Injection(1..n, S)
    BY <1>9, <1>10 DEF Injection, IsInjective
  <1>12. t \in Surjection(1..n, S)
    BY <1>1, <1>11, FS_Injection
  <1> QED BY <1>9, <1>11, <1>12 DEF Bijection, t

\* The numbers of two masks that both have are those of the tokens both sets have.
LEMMA MasksShare ==
    ASSUME NEW sets, IsFiniteSet(sets), \A c \in sets : c \subseteq Nat /\ IsFiniteSet(c),
           NEW A, NEW B \in sets
    PROVE  Cardinality(Mask(A, Bits(sets)) \cap Mask(B, Bits(sets))) = Cardinality(A \cap B)
  <1> DEFINE tokens == UNION sets
             less == {p \in Nat \X Nat : p[1] < p[2]}
             bit == Bits(sets)
  <1>1. tokens \subseteq Nat /\ IsFiniteSet(tokens) /\ B \subseteq tokens
    BY FS_UNION
  <1>2. DOMAIN bit = tokens /\ \A t \in tokens : bit[t] = RankIn(tokens, less)[t]
    <2>1. \A t \in tokens : {u \in tokens : u < t} = {u \in tokens : <<u, t>> \in less}
      BY <1>1
    <2> QED BY <2>1 DEF Bits, RankIn
  <1>3. \A t, u \in tokens : t # u => bit[t] # bit[u]
    <2>1. /\ \A x, y \in tokens : x # y => <<x, y>> \in less \/ <<y, x>> \in less
          /\ \A x, y, z \in tokens : <<x, y>> \in less /\ <<y, z>> \in less => <<x, z>> \in less
          /\ \A x \in tokens : <<x, x>> \notin less
      BY <1>1
    <2> HIDE DEF tokens, less, bit
    <2>2. \A t, u \in tokens : t # u => RankIn(tokens, less)[t] # RankIn(tokens, less)[u]
      BY <1>1, <2>1, RanksDiffer
    <2> QED BY <1>2, <2>2
  <1> HIDE DEF tokens, bit
  <1> DEFINE both == Mask(A, bit) \cap Mask(B, bit)
             number == [t \in A \cap B |-> bit[t]]
  <1>4. \A t \in A \cap B : bit[t] \in both
    BY <1>1, <1>2 DEF Mask
  <1>5. \A k \in both : \E t \in A \cap B : bit[t] = k
    BY <1>1, <1>2, <1>3 DEF Mask
  <1> HIDE DEF both
  <1>6. number \in Bijection(A \cap B, both)
    <2>1. number \in Injection(A \cap B, both)
      BY <1>1, <1>3, <1>4 DEF Injection, IsInjective
    <2>2. number \in Surjection(A \cap B, both)
      BY <1>4, <1>5 DEF Surjection
    <2> QED BY <2>1, <2>2 DEF Bijection
  <1>7. ExistsBijection(A \cap B, both)
    BY <1>6 DEF ExistsBijection
  <1>8. IsFiniteSet(A \cap B)
    BY FS_Intersection
  <1> QED BY <1>7, <1>8, FS_Bijection DEF both, bit

\* The sizes of two sets, and of what they share and make up together.
LEMMA SizesOf ==
    ASSUME NEW A, NEW B, IsFiniteSet(A), IsFiniteSet(B), A # {}, B # {}
    PROVE  /\ Cardinality(A) \in Nat \ {0} /\ Cardinality(B) \in Nat \ {0}
           /\ Cardinality(A \cap B) \in Nat /\ Cardinality(A \cup B) \in Nat \ {0}
           /\ Cardinality(A \cap B) <= Cardinality(A) /\ Cardinality(A \cap B) <= Cardinality(B)
           /\ Cardinality(A) <= Cardinality(A \cup B)
           /\ Cardinality(B) <= Cardinality(A \cup B)
           /\ Cardinality(A) + Cardinality(B) - Cardinality(A \cap B) = Cardinality(A \cup B)
  <1>1. /\ Cardinality(A) \in Nat \ {0} /\ Cardinality(B) \in Nat \ {0}
    BY FS_EmptySet, FS_CardinalityType
  <1>2. /\ IsFiniteSet(A \cap B) /\ Cardinality(A \cap B) <= Cardinality(A)
        /\ Cardinality(A \cap B) <= Cardinality(B)
    BY FS_Intersection
  <1>3. /\ IsFiniteSet(A \cup B)
        /\ Cardinality(A \cup B) = Cardinality(A) + Cardinality(B) - Cardinality(A \cap B)
    BY FS_Union
  <1>4. Cardinality(A \cap B) \in Nat
    BY <1>2, FS_CardinalityType
  <1> QED BY <1>1, <1>2, <1>3, <1>4

\* A share of a unit is at most a unit, and falls as the whole grows.
LEMMA QuotientGrows ==
    ASSUME NEW u \in Nat, NEW s \in Nat, NEW m \in Nat \ {0}, NEW n \in Nat \ {0}, s <= m, m <= n
    PROVE  /\ (u * s) \div m \in Nat /\ (u * s) \div n \in Nat
           /\ (u * s) \div n <= (u * s) \div m /\ (u * s) \div m <= u
  <1> DEFINE x == u * s
  <1>1. x \in Nat /\ x <= u * m
    OBVIOUS
  <1> HIDE DEF x
  <1>2. (x \div m) \in Nat /\ (x \div n) \in Nat /\ (x \div n) <= (x \div m)
    BY <1>1
  <1>3. (x \div m) <= u
    BY <1>1
  <1> QED BY <1>2, <1>3 DEF x

\* An overlap is a share of one unit, and containment is the larger of the two.
LEMMA OverlapBounds ==
    ASSUME NEW A, NEW B, IsFiniteSet(A), IsFiniteSet(B)
    PROVE  /\ Jaccard(A, B) \in Nat /\ Jaccard(A, B) <= Unit
           /\ Contained(A, B) \in Nat /\ Contained(A, B) <= Unit
           /\ Jaccard(A, B) <= Contained(A, B)
  <1>1. CASE A = {} \/ B = {}
    BY <1>1, UnitDivides DEF Jaccard, Contained
  <1>2. CASE A # {} /\ B # {}
    <2> DEFINE shared == Cardinality(A \cap B)
               all == Cardinality(A \cup B)
               least == Min({Cardinality(A), Cardinality(B)})
    <2>1. /\ Cardinality(A) \in Nat \ {0} /\ Cardinality(B) \in Nat \ {0} /\ shared \in Nat
          /\ all \in Nat \ {0} /\ shared <= Cardinality(A) /\ shared <= Cardinality(B)
          /\ Cardinality(A) <= all /\ Cardinality(B) <= all
      BY <1>2, SizesOf
    <2>2. least \in {Cardinality(A), Cardinality(B)}
      <3>1. {Cardinality(A), Cardinality(B)} \subseteq Nat
        BY <2>1
      <3> QED BY <3>1, LeastOf
    <2>3. Jaccard(A, B) = (Unit * shared) \div all /\ Contained(A, B) = (Unit * shared) \div least
      BY <1>2 DEF Jaccard, Contained
    <2> HIDE DEF shared, all, least
    <2>4. least \in Nat \ {0} /\ shared <= least /\ least <= all /\ Unit \in Nat \ {0}
      BY <2>1, <2>2, UnitDivides
    <2>5. /\ (Unit * shared) \div least \in Nat /\ (Unit * shared) \div all \in Nat
          /\ (Unit * shared) \div all <= (Unit * shared) \div least
          /\ (Unit * shared) \div least <= Unit
      BY <2>1, <2>4, QuotientGrows
    <2> QED BY <2>3, <2>4, <2>5
  <1> QED BY <1>1, <1>2

\* The largest of some values, 0 if there are none.
MostOf(v, s) == Max({0} \cup {v[k] : k \in s})

\* It is one of them, and grows with each one that is looked at.
LEMMA MostIs ==
    ASSUME NEW D, NEW v, \A k \in D : v[k] \in Nat /\ v[k] <= Unit, NEW s \in SUBSET D
    PROVE  /\ MostOf(v, s) \in Nat /\ MostOf(v, s) <= Unit
           /\ MostOf(v, s) \in {0} \cup {v[k] : k \in s}
           /\ \A k \in s : v[k] <= MostOf(v, s)
           /\ s = {} => MostOf(v, s) = 0
           /\ \A x \in s : MostOf(v, s) = Larger(MostOf(v, s \ {x}), v[x])
  <1> DEFINE values(r) == {0} \cup {v[k] : k \in r}
  <1>1. /\ Unit \in Nat
        /\ \A r \in SUBSET D : /\ values(r) \subseteq Nat /\ values(r) # {}
                               /\ \A y \in values(r) : y <= Unit
    BY UnitDivides
  <1>2. \A r \in SUBSET D : /\ MostOf(v, r) \in values(r)
                            /\ \A y \in values(r) : y <= MostOf(v, r)
    <2> TAKE r \in SUBSET D
    <2> HIDE DEF values
    <2>1. Max(values(r)) \in values(r) /\ \A y \in values(r) : y <= Max(values(r))
      BY <1>1, GreatestOf
    <2> QED BY <2>1 DEF MostOf, values
  <1>3. /\ MostOf(v, s) \in Nat /\ MostOf(v, s) <= Unit /\ MostOf(v, s) \in values(s)
        /\ \A k \in s : v[k] <= MostOf(v, s)
        /\ s = {} => MostOf(v, s) = 0
    BY <1>1, <1>2
  <1>4. ASSUME NEW x \in s PROVE MostOf(v, s) = Larger(MostOf(v, s \ {x}), v[x])
    <2> DEFINE r == s \ {x}
               m == Larger(MostOf(v, r), v[x])
    <2>1. /\ MostOf(v, r) \in values(r) /\ MostOf(v, r) \in Nat /\ v[x] \in Nat
          /\ \A y \in values(r) : y <= MostOf(v, r)
      BY <1>1, <1>2
    <2>2. m \in values(s)
      BY <2>1 DEF Larger
    <2>3. \A y \in values(s) : y \in values(r) \/ y = v[x]
      OBVIOUS
    <2>4. values(r) \subseteq Nat
      BY <1>1
    <2> HIDE DEF values, r
    <2>5. \A y \in values(s) : y <= m
      BY <2>1, <2>3, <2>4 DEF Larger
    <2>6. values(s) \subseteq Nat
      BY <1>1
    <2>7. Max(values(s)) = m
      BY <2>2, <2>5, <2>6, GreatestIs
    <2> QED BY <2>7 DEF MostOf, values, r
  <1> QED BY <1>3, <1>4

\* With one more it is the larger of that one and the largest so far.
LEMMA MostGrows ==
    ASSUME NEW D, NEW v, \A k \in D : v[k] \in Nat /\ v[k] <= Unit, NEW s \in SUBSET D,
           NEW x \in s
    PROVE  MostOf(v, s) = Larger(MostOf(v, s \ {x}), v[x])
  BY MostIs

\* _novelty_score: the fold over the masks of the contexts finds what the largest of
\* the overlaps of the sets gives, whatever order it takes them in.
LEMMA NoveltyIsPlain ==
    ASSUME NEW tokens, IsFiniteSet(tokens),
           NEW contexts \in Seq({c \in SUBSET Nat : IsFiniteSet(c)})
    PROVE  Novelty(tokens, contexts) = PlainNovelty(tokens, contexts)
  <1>1. Unit \in Nat \ {0} /\ Percent \in Nat /\ 5 * Percent <= Unit /\ 5 * Percent \in Nat
    BY UnitDivides DEF Percent
  <1>2. CASE tokens = {}
    BY <1>2 DEF Novelty, PlainNovelty
  <1>3. CASE contexts = <<>>
    <2>1. {0} \cup {Jaccard(tokens, c) : c \in ToSet(contexts)} = {0}
      BY <1>3 DEF ToSet
    <2>2. Max({0}) = 0
      BY GreatestIs
    <2>3. AtLeast(5 * Percent, Unit - 0) = Unit
      BY <1>1 DEF AtLeast
    <2>4. PlainNovelty(tokens, contexts) = Unit
      BY <2>1, <2>2, <2>3 DEF PlainNovelty
    <2> QED BY <1>3, <2>4 DEF Novelty
  <1>4. CASE tokens # {} /\ contexts # <<>>
    <2> DEFINE D == DOMAIN contexts
               bit == Bits(ToSet(contexts))
               mask == Mask(tokens, bit)
               part(c) == MaskedJaccard(mask, Cardinality(tokens), Mask(c, bit), Cardinality(c))
               v == [k \in D |-> Jaccard(tokens, contexts[k])]
               next(f, s) ==
                   IF s = {} THEN 0
                   ELSE LET x == CHOOSE e \in s : TRUE
                        IN  IF contexts[x] = {} THEN f[s \ {x}]
                            ELSE Larger(f[s \ {x}], part(contexts[x]))
               worst == CHOOSE f : f = [s \in SUBSET D |-> next(f, s)]
    <2>1. Novelty(tokens, contexts) = AtLeast(5 * Percent, Unit - worst[D])
      BY <1>4, Zenon DEF Novelty, FoldSeq, FoldFunction, FoldFunctionOnSet, MapThenFoldSet
    <2>2. /\ D = 1..Len(contexts) /\ Len(contexts) \in Nat /\ IsFiniteSet(D)
          /\ \A k \in D : contexts[k] \subseteq Nat /\ IsFiniteSet(contexts[k])
      BY FS_Interval
    <2>3. IsFiniteSet(ToSet(contexts))
      <3>1. contexts \in Surjection(D, ToSet(contexts))
        BY DEF Surjection, ToSet
      <3> QED BY <2>2, <3>1, FS_Surjection
    <2>4. \A k \in D : /\ v[k] \in Nat /\ v[k] <= Unit
                       /\ contexts[k] = {} => v[k] = 0
                       /\ contexts[k] # {} => v[k] = part(contexts[k])
      <3> TAKE k \in D
      <3> DEFINE c == contexts[k]
      <3>1. v[k] = Jaccard(tokens, c) /\ IsFiniteSet(c) /\ c \in ToSet(contexts)
        BY <2>2 DEF ToSet
      <3>2. Jaccard(tokens, c) \in Nat /\ Jaccard(tokens, c) <= Unit
        BY <3>1, OverlapBounds
      <3>3. c = {} => Jaccard(tokens, c) = 0
        BY DEF Jaccard
      <3>4. ASSUME c # {} PROVE Jaccard(tokens, c) = part(c)
        <4>1. Cardinality(mask \cap Mask(c, bit)) = Cardinality(tokens \cap c)
          <5>1. \A s \in ToSet(contexts) : s \subseteq Nat /\ IsFiniteSet(s)
            BY <2>2 DEF ToSet
          <5> QED BY <2>3, <3>1, <5>1, MasksShare
        <4>2. Cardinality(tokens) + Cardinality(c) - Cardinality(tokens \cap c) =
                  Cardinality(tokens \cup c)
          BY <1>4, <3>1, <3>4, SizesOf
        <4> QED BY <1>4, <3>4, <4>1, <4>2 DEF Jaccard, MaskedJaccard
      <3> QED BY <3>1, <3>2, <3>3, <3>4
    <2> HIDE DEF v, bit, mask, part
    <2>5. \A s \in SUBSET D :
             /\ MostOf(v, s) \in Nat /\ (s = {} => MostOf(v, s) = 0)
             /\ \A x \in s : MostOf(v, s) = Larger(MostOf(v, s \ {x}), v[x])
      <3> TAKE s \in SUBSET D
      <3>1. \A k \in D : v[k] \in Nat /\ v[k] <= Unit
        BY <2>4
      <3> HIDE DEF D, next, worst
      <3>2. MostOf(v, s) \in Nat
        BY <3>1, MostIs
      <3>3. s = {} => MostOf(v, s) = 0
        BY <3>1, MostIs
      <3>4. ASSUME NEW x \in s PROVE MostOf(v, s) = Larger(MostOf(v, s \ {x}), v[x])
        BY <3>1, MostGrows
      <3> QED BY <3>2, <3>3, <3>4
    <2>6. \A s \in SUBSET D : \A x \in s : contexts[x] = {} => MostOf(v, s) = MostOf(v, s \ {x})
      <3> TAKE s \in SUBSET D
      <3> TAKE x \in s
      <3>1. s \ {x} \in SUBSET D /\ x \in D
        OBVIOUS
      <3>2. MostOf(v, s) = Larger(MostOf(v, s \ {x}), v[x]) /\ MostOf(v, s \ {x}) \in Nat
        BY <2>5, <3>1
      <3> QED BY <2>4, <3>1, <3>2 DEF Larger
    <2> DEFINE most == [s \in SUBSET D |-> MostOf(v, s)]
    <2>7. most = [s \in SUBSET D |-> next(most, s)]
      <3>1. ASSUME NEW s \in SUBSET D PROVE MostOf(v, s) = next(most, s)
        <4>1. CASE s = {}
          BY <2>5, <4>1
        <4>2. CASE s # {}
          <5> DEFINE x == CHOOSE e \in s : TRUE
          <5>1. x \in s
            BY <4>2
          <5> HIDE DEF x
          <5>2. most[s \ {x}] = MostOf(v, s \ {x}) /\ x \in D
            BY <5>1
          <5>3. MostOf(v, s) = IF contexts[x] = {} THEN most[s \ {x}]
                             ELSE Larger(most[s \ {x}], part(contexts[x]))
            BY <2>4, <2>5, <2>6, <5>1, <5>2
          <5> QED BY <4>2, <5>3 DEF x
        <4> QED BY <4>1, <4>2
      <3> QED BY <3>1
    <2>8. worst = [s \in SUBSET D |-> next(worst, s)]
      BY <2>7
    <2> HIDE DEF worst, most
    <2>9. worst[D] = MostOf(v, D)
      <3> DEFINE Wrong == {s \in SUBSET D : worst[s] # MostOf(v, s)}
      <3>1. ASSUME Wrong # {} PROVE FALSE
        <4>1. Wrong \subseteq FiniteSubsetsOf(D)
          BY <2>2, FS_FiniteSubsetsOfFinite
        <4>2. PICK s \in Wrong : \A r \in Wrong : ~(<<r, s>> \in StrictSubsetOrdering(D))
          <5> HIDE DEF Wrong
          <5> QED BY <3>1, <4>1, WFMin, FS_StrictSubsetOrderingWellFounded
        <4>3. worst[s] = next(worst, s) /\ s \in SUBSET D
          BY <2>8
        <4>4. s # {}
          BY <2>5, <4>3
        <4> DEFINE x == CHOOSE e \in s : TRUE
        <4>5. x \in s
          BY <4>4
        <4>6. worst[s] = IF contexts[x] = {} THEN worst[s \ {x}]
                         ELSE Larger(worst[s \ {x}], part(contexts[x]))
          BY <4>3, <4>4
        <4> HIDE DEF x, next
        <4>7. s \ {x} \notin Wrong
          <5>1. <<s \ {x}, s>> \in StrictSubsetOrdering(D)
            BY <4>3, <4>5 DEF StrictSubsetOrdering
          <5> QED BY <4>2, <5>1
        <4>8. worst[s \ {x}] = MostOf(v, s \ {x}) /\ x \in D
          BY <4>3, <4>5, <4>7
        <4>9. worst[s] = MostOf(v, s)
          BY <2>4, <2>5, <2>6, <4>3, <4>5, <4>6, <4>8
        <4> QED BY <4>9
      <3> QED BY <3>1
    <2>10. {v[k] : k \in D} = {Jaccard(tokens, c) : c \in ToSet(contexts)}
      BY DEF v, ToSet
    <2> QED BY <1>4, <2>1, <2>9, <2>10 DEF PlainNovelty, MostOf
  <1> QED BY <1>2, <1>3, <1>4

\* _max_newer_overlap: the walk finds the largest overlap, or, if it ends early, one
\* that is as good.
LEMMA WalkFinds ==
    ASSUME NEW v \in Seq(Nat), \A k \in DOMAIN v : v[k] <= Unit
    PROVE  /\ WalkedMax(v) \in Nat
           /\ \/ WalkedMax(v) = MostOf(v, DOMAIN v)
              \/ Pinned(WalkedMax(v)) /\ Pinned(MostOf(v, DOMAIN v))
  <1> DEFINE n == Len(v)
             next(f, k) == IF k = 0 THEN 0
                           ELSE IF Pinned(f[k - 1]) THEN f[k - 1] ELSE Larger(f[k - 1], v[k])
             best == CHOOSE f : f = [k \in 0..n |-> next(f, k)]
             early(k) == {j \in 1..k : \A l \in 1..j - 1 : ~Pinned(v[l])}
  <1>1. WalkedMax(v) = best[n]
    BY DEF WalkedMax
  <1>2. n \in Nat /\ DOMAIN v = 1..n /\ Unit \in Nat /\ \A k \in 1..n : v[k] \in Nat /\ v[k] <= Unit
    BY UnitDivides
  <1>3. \A x, y \in Nat : Pinned(x) /\ x <= y => Pinned(y)
    BY UnitDivides DEF Pinned, Percent
  <1>4. ~Pinned(0)
    BY UnitDivides DEF Pinned, Percent
  <1>5. \A s \in SUBSET (1..n) : /\ MostOf(v, s) \in Nat
                                 /\ MostOf(v, s) \in {0} \cup {v[k] : k \in s}
                                 /\ \A k \in s : v[k] <= MostOf(v, s)
    BY <1>2, MostIs
  <1>6. \A k \in 0..n : early(k) \in SUBSET (1..n)
    BY <1>2
  <1>7. ASSUME NEW k \in 0..n PROVE Pinned(MostOf(v, early(k))) <=> \E l \in 1..k : Pinned(v[l])
    <2>1. ASSUME Pinned(MostOf(v, early(k))) PROVE \E l \in 1..k : Pinned(v[l])
      BY <1>4, <1>5, <1>6, <2>1
    <2>2. ASSUME \E l \in 1..k : Pinned(v[l]) PROVE Pinned(MostOf(v, early(k)))
      <3> DEFINE pins == {l \in 1..k : Pinned(v[l])}
                 first == Min(pins)
      <3>1. first \in pins /\ \A l \in pins : first <= l
        <4>1. PICK l \in 1..k : Pinned(v[l])
          BY <2>2
        <4>2. pins # {}
          BY <4>1
        <4>3. pins \subseteq Nat
          BY <1>2
        <4> HIDE DEF pins
        <4> QED BY <4>2, <4>3, LeastOf
      <3> HIDE DEF first
      <3>2. first \in early(k)
        BY <1>2, <3>1
      <3>3. v[first] <= MostOf(v, early(k)) /\ MostOf(v, early(k)) \in Nat /\ v[first] \in Nat
        BY <1>2, <1>5, <1>6, <3>2
      <3> QED BY <1>3, <3>1, <3>3
    <2> QED BY <2>1, <2>2
  <1> DEFINE most == [k \in 0..n |-> MostOf(v, early(k))]
  <1>8. ASSUME NEW k \in 0..n PROVE MostOf(v, early(k)) = next(most, k)
    <2>1. CASE k = 0
      <3>1. early(k) = {}
        BY <2>1
      <3>2. MostOf(v, {}) = 0
        BY <1>5
      <3> QED BY <2>1, <3>1, <3>2
    <2>2. CASE k # 0
      <3>1. k - 1 \in 0..n /\ k \in 1..n /\ most[k - 1] = MostOf(v, early(k - 1))
        BY <1>2, <2>2
      <3>2. CASE \E l \in 1..k - 1 : Pinned(v[l])
        <4>1. early(k) = early(k - 1)
          BY <1>2, <3>1, <3>2
        <4>2. Pinned(MostOf(v, early(k - 1)))
          BY <1>7, <3>1, <3>2
        <4> QED BY <2>2, <3>1, <4>1, <4>2
      <3>3. CASE ~\E l \in 1..k - 1 : Pinned(v[l])
        <4>1. early(k) = early(k - 1) \cup {k} /\ k \notin early(k - 1) /\ k \in early(k)
          BY <1>2, <3>1, <3>3
        <4>2. early(k) \ {k} = early(k - 1)
          BY <4>1
        <4>3. ~Pinned(MostOf(v, early(k - 1)))
          BY <1>7, <3>1, <3>3
        <4>4. MostOf(v, early(k)) = Larger(MostOf(v, early(k) \ {k}), v[k])
          <5> DEFINE D == 1..n
          <5>1. \A j \in D : v[j] \in Nat /\ v[j] <= Unit
            BY <1>2
          <5>2. early(k) \in SUBSET D
            BY <1>6
          <5> HIDE DEF D, early
          <5>3. \A x \in early(k) : MostOf(v, early(k)) = Larger(MostOf(v, early(k) \ {x}), v[x])
            BY <5>1, <5>2, MostIs
          <5> QED BY <4>1, <5>3
        <4> HIDE DEF early
        <4> QED BY <2>2, <3>1, <4>2, <4>3, <4>4
      <3> QED BY <3>2, <3>3
    <2> QED BY <2>1, <2>2
  <1>9. best = [k \in 0..n |-> next(best, k)]
    <2>1. most = [k \in 0..n |-> next(most, k)]
      BY <1>8
    <2> HIDE DEF most
    <2> QED BY <2>1
  <1> HIDE DEF best, early
  <1>10. best[n] = MostOf(v, early(n))
    <2> DEFINE wrong == {k \in 0..n : best[k] # MostOf(v, early(k))}
    <2>1. ASSUME wrong # {} PROVE FALSE
      <3>1. PICK k \in wrong : \A j \in wrong : k <= j
        <4>1. wrong \subseteq Nat
          OBVIOUS
        <4> HIDE DEF wrong
        <4> QED BY <2>1, <4>1, LeastOf
      <3>2. k \in 0..n /\ best[k] = next(best, k) /\ MostOf(v, early(k)) = next(most, k)
        BY <1>8, <1>9
      <3>3. k # 0
        BY <3>2
      <3>4. k - 1 \in 0..n /\ k - 1 \notin wrong
        BY <1>2, <3>1, <3>2, <3>3
      <3>5. best[k - 1] = most[k - 1]
        BY <3>4
      <3> QED BY <3>2, <3>3, <3>5
    <2> QED BY <1>2, <2>1
  <1>11. n \in 0..n /\ early(n) \in SUBSET (1..n)
    BY <1>2, <1>6
  <1>12. CASE \E l \in 1..n : Pinned(v[l])
    <2>1. PICK l \in 1..n : Pinned(v[l])
      BY <1>12
    <2>2. v[l] \in Nat /\ v[l] <= MostOf(v, 1..n) /\ MostOf(v, 1..n) \in Nat
      BY <1>2, <1>5
    <2>3. Pinned(MostOf(v, 1..n))
      BY <1>3, <2>1, <2>2
    <2> QED BY <1>1, <1>2, <1>5, <1>7, <1>10, <1>11, <1>12, <2>3
  <1>13. CASE ~\E l \in 1..n : Pinned(v[l])
    <2>1. early(n) = 1..n
      BY <1>2, <1>13 DEF early
    <2> QED BY <1>1, <1>2, <1>5, <1>10, <1>11, <2>1
  <1> QED BY <1>12, <1>13

\* _frontier_score: the score is that of the largest overlap all the same.
LEMMA ScoresAgree ==
    ASSUME NEW x \in Nat, NEW most \in Nat, most <= Unit, x = most \/ (Pinned(x) /\ Pinned(most))
    PROVE  Score(x) = IF most < 13 * Percent THEN Unit
                      ELSE Max({8 * Percent, Unit - Min({Unit, 3 * most})})
  <1>1. Percent \in Nat \ {0} /\ Unit = 100 * Percent
    BY UnitDivides DEF Percent
  <1>2. ASSUME most >= 13 * Percent
        PROVE  Max({8 * Percent, Unit - Min({Unit, 3 * most})}) =
                   IF 3 * most > 92 * Percent THEN 8 * Percent ELSE Unit - 3 * most
    <2>1. Min({Unit, 3 * most}) = IF 3 * most < Unit THEN 3 * most ELSE Unit
      <3>1. /\ Min({Unit, 3 * most}) \in {Unit, 3 * most}
            /\ \A y \in {Unit, 3 * most} : Min({Unit, 3 * most}) <= y
        BY <1>1, LeastOf
      <3> QED BY <1>1, <3>1
    <2>2. CASE 3 * most > 92 * Percent
      <3> DEFINE rest == Unit - Min({Unit, 3 * most})
      <3>1. rest \in Nat /\ rest <= 8 * Percent
        BY <1>1, <2>1, <2>2
      <3> HIDE DEF rest
      <3> DEFINE both == {8 * Percent, rest}
      <3>2. both \subseteq Nat /\ 8 * Percent \in both /\ \A y \in both : y <= 8 * Percent
        BY <1>1, <3>1
      <3> HIDE DEF both
      <3>3. Max(both) = 8 * Percent
        BY <3>2, GreatestIs
      <3> QED BY <2>2, <3>3 DEF both, rest
    <2>3. CASE ~(3 * most > 92 * Percent)
      <3> DEFINE rest == Unit - Min({Unit, 3 * most})
      <3>1. rest = Unit - 3 * most /\ rest \in Nat /\ rest >= 8 * Percent
        BY <1>1, <2>1, <2>3
      <3> HIDE DEF rest
      <3> DEFINE both == {8 * Percent, rest}
      <3>2. both \subseteq Nat /\ rest \in both /\ \A y \in both : y <= rest
        BY <1>1, <3>1
      <3> HIDE DEF both
      <3>3. Max(both) = rest
        BY <3>2, GreatestIs
      <3>4. Max({8 * Percent, Unit - Min({Unit, 3 * most})}) = Unit - 3 * most
        BY <3>1, <3>3 DEF both, rest
      <3> QED BY <2>3, <3>4
    <2> QED BY <2>2, <2>3
  <1>3. CASE x = most
    BY <1>1, <1>2, <1>3 DEF Score
  <1>4. CASE Pinned(x) /\ Pinned(most)
    BY <1>1, <1>2, <1>4 DEF Score, Pinned
  <1> QED BY <1>3, <1>4

\* The rows, whatever has been loaded.
RowTypes == rows \in Seq([feed : Feeds, time : Times, tokens : TokenSets])

\* What a row is.
LEMMA RowFacts ==
    ASSUME RowTypes
    PROVE  /\ DOMAIN rows = 1..Len(rows) /\ Len(rows) \in Nat
           /\ \A j \in DOMAIN rows : /\ rows[j].time \in Nat
                                     /\ rows[j].tokens \subseteq Nat /\ IsFiniteSet(rows[j].tokens)
  <1> DEFINE Row == [feed : Feeds, time : Times, tokens : TokenSets]
  <1>1. \A r \in Row : r.time \in Nat /\ r.tokens \subseteq Nat /\ IsFiniteSet(r.tokens)
    BY RankingBounds
  <1>2. rows \in Seq(Row)
    BY DEF RowTypes
  <1> HIDE DEF Row
  <1>3. DOMAIN rows = 1..Len(rows) /\ Len(rows) \in Nat /\ \A j \in DOMAIN rows : rows[j] \in Row
    BY <1>2
  <1> QED BY <1>1, <1>3

\* The rows walked are all that are newer and not empty, and no others.
LEMMA NewerIsWalked ==
    ASSUME RowTypes, NEW i \in DOMAIN rows
    PROVE  LET newer == {j \in OfSource(i) : rows[j].time > rows[i].time /\ rows[j].tokens # {}}
           IN  /\ Newer(i) \in Seq(newer)
               /\ \A j \in newer : \E k \in DOMAIN Newer(i) : Newer(i)[k] = j
  <1> DEFINE S == {j \in OfSource(i) : rows[j].time > rows[i].time /\ rows[j].tokens # {}}
             before == {p \in (DOMAIN rows) \X (DOMAIN rows) : Before(p[1], p[2])}
  <1>1. /\ DOMAIN rows = 1..Len(rows) /\ Len(rows) \in Nat
        /\ \A j \in DOMAIN rows : rows[j].time \in Nat
    BY RowFacts
  <1>2. S \in SUBSET DOMAIN rows /\ IsFiniteSet(S)
    <2>1. S \in SUBSET (1..Len(rows)) /\ IsFiniteSet(1..Len(rows))
      BY <1>1, FS_Interval DEF OfSource
    <2> QED BY <1>1, <2>1, FS_Subset
  <1>3. \A x, y \in DOMAIN rows : x # y => <<x, y>> \in before \/ <<y, x>> \in before
    BY <1>1 DEF Before
  <1>4. \A x, y, z \in DOMAIN rows :
            <<x, y>> \in before /\ <<y, z>> \in before => <<x, z>> \in before
    BY <1>1 DEF Before
  <1>5. \A x \in DOMAIN rows : <<x, x>> \notin before
    BY <1>1 DEF Before
  <1>6. Newer(i) = Sorted(S, before)
    BY DEF Newer
  <1>7. Cardinality(S) \in Nat
    BY <1>2, FS_CardinalityType
  <1> HIDE DEF S, before
  <1>8. Sorted(S, before) \in Bijection(1..Cardinality(S), S)
    <2>1. /\ \A x, y \in S : x # y => <<x, y>> \in before \/ <<y, x>> \in before
          /\ \A x, y, z \in S : <<x, y>> \in before /\ <<y, z>> \in before => <<x, z>> \in before
          /\ \A x \in S : <<x, x>> \notin before
      BY <1>2, <1>3, <1>4, <1>5
    <2> QED BY <1>2, <2>1, SortedIsSorted
  <1>9. /\ Newer(i) \in [1..Cardinality(S) -> S]
        /\ \A j \in S : \E k \in 1..Cardinality(S) : Newer(i)[k] = j
    BY <1>6, <1>8 DEF Bijection, Injection, Surjection
  <1>10. Newer(i) \in Seq(S) /\ DOMAIN Newer(i) = 1..Cardinality(S)
    BY <1>7, <1>9
  <1> QED BY <1>9, <1>10 DEF S

\* The overlap of two masks is the containment of their rows' tokens.
LEMMA OverlapIsContainment ==
    ASSUME RowTypes, NEW i \in DOMAIN rows, NEW j \in OfSource(i),
           rows[i].tokens # {}, rows[j].tokens # {}
    PROVE  MaskedOverlap(i, j) = Contained(rows[i].tokens, rows[j].tokens)
  <1> DEFINE sets == {rows[k].tokens : k \in OfSource(i)}
  <1>1. DOMAIN rows = 1..Len(rows) /\ Len(rows) \in Nat /\ OfSource(i) \subseteq DOMAIN rows
    BY DEF RowTypes, OfSource
  <1>2. \A c \in sets : c \subseteq Nat /\ IsFiniteSet(c)
    BY <1>1, RowFacts
  <1>3. IsFiniteSet(sets)
    <2> DEFINE f == [k \in OfSource(i) |-> rows[k].tokens]
    <2>1. IsFiniteSet(OfSource(i))
      <3>1. IsFiniteSet(1..Len(rows)) /\ OfSource(i) \subseteq 1..Len(rows)
        BY <1>1, FS_Interval
      <3> QED BY <3>1, FS_Subset
    <2>2. f \in Surjection(OfSource(i), sets)
      BY DEF Surjection
    <2> QED BY <2>1, <2>2, FS_Surjection
  <1>4. rows[j].tokens \in sets
    OBVIOUS
  <1>5. MaskedOverlap(i, j) =
            (Unit * Cardinality(Mask(rows[i].tokens, Bits(sets))
                                \cap Mask(rows[j].tokens, Bits(sets))))
            \div Min({Cardinality(rows[i].tokens), Cardinality(rows[j].tokens)})
    BY DEF MaskedOverlap
  <1> HIDE DEF sets
  <1>6. Cardinality(Mask(rows[i].tokens, Bits(sets)) \cap Mask(rows[j].tokens, Bits(sets))) =
            Cardinality(rows[i].tokens \cap rows[j].tokens)
    BY <1>2, <1>3, <1>4, MasksShare
  <1> QED BY <1>5, <1>6 DEF Contained

\* _frontier_scores: a row's score is what the largest overlap of the sets gives.
LEMMA FrontierIsPlain ==
    ASSUME RowTypes, NEW i \in DOMAIN rows
    PROVE  Frontier(i) = PlainFrontier(i)
  <1> DEFINE A == rows[i].tokens
             S == {j \in OfSource(i) : rows[j].time > rows[i].time /\ rows[j].tokens # {}}
             all == {j \in OfSource(i) : rows[j].time > rows[i].time}
             sets == {rows[j].tokens : j \in all}
             overlaps == {0} \cup {Jaccard(A, B) : B \in sets} \cup {Contained(A, B) : B \in sets}
             most == Max(overlaps)
             newer == Newer(i)
             v == [k \in DOMAIN newer |-> MaskedOverlap(i, newer[k])]
  <1>1. Unit \in Nat \ {0} /\ Percent \in Nat /\ Unit = 100 * Percent
    BY UnitDivides DEF Percent
  <1>2. PlainFrontier(i) = IF most < 13 * Percent THEN Unit
                           ELSE Max({8 * Percent, Unit - Min({Unit, 3 * most})})
    <2>1. all = {k \in DOMAIN rows : rows[k].feed = rows[i].feed /\ rows[k].time > rows[i].time}
      BY DEF OfSource
    <2> HIDE DEF all
    <2> QED BY <2>1 DEF PlainFrontier
  <1>3. \A j \in DOMAIN rows : rows[j].tokens \subseteq Nat /\ IsFiniteSet(rows[j].tokens)
    BY RowFacts
  <1>4. IsFiniteSet(A) /\ \A B \in sets : IsFiniteSet(B)
    BY <1>3 DEF OfSource
  <1>5. \A B \in sets : /\ Jaccard(A, B) \in Nat /\ Jaccard(A, B) <= Contained(A, B)
                        /\ Contained(A, B) \in Nat /\ Contained(A, B) <= Unit
    <2> TAKE B \in sets
    <2> HIDE DEF A, sets
    <2> QED BY <1>4, OverlapBounds
  <1>6. CASE A = {}
    <2>1. \A B \in sets : Jaccard(A, B) = 0 /\ Contained(A, B) = 0
      BY <1>6 DEF Jaccard, Contained
    <2>2. overlaps = {0}
      BY <2>1
    <2>3. most = 0
      <3> HIDE DEF overlaps
      <3>1. overlaps \subseteq Nat /\ 0 \in overlaps /\ \A y \in overlaps : y <= 0
        BY <2>2
      <3> QED BY <3>1, GreatestIs
    <2>4. MaxNewerOverlap(i) = 0
      BY <1>6 DEF MaxNewerOverlap
    <2> HIDE DEF most
    <2> QED BY <1>1, <1>2, <2>3, <2>4 DEF Frontier, Score
  <1>7. CASE A # {}
    <2>1. newer \in Seq(S) /\ \A j \in S : \E k \in DOMAIN newer : newer[k] = j
      BY NewerIsWalked
    <2>2. \A k \in DOMAIN newer : newer[k] \in S
      BY <2>1
    <2>3. \A k \in DOMAIN v : /\ v[k] = Contained(A, rows[newer[k]].tokens)
                              /\ rows[newer[k]].tokens \in sets
      <3> TAKE k \in DOMAIN v
      <3>1. newer[k] \in OfSource(i) /\ newer[k] \in all /\ rows[newer[k]].tokens # {}
        BY <2>2
      <3> QED BY <1>7, <3>1, OverlapIsContainment
    <2>4. MaxNewerOverlap(i) = WalkedMax(v)
      BY <1>7 DEF MaxNewerOverlap
    <2>5. v \in Seq(Nat) /\ \A k \in DOMAIN v : v[k] \in Nat /\ v[k] <= Unit
      <3>1. \A k \in DOMAIN v : v[k] \in Nat /\ v[k] <= Unit
        BY <1>5, <2>3
      <3>2. DOMAIN v = 1..Len(newer) /\ Len(newer) \in Nat
        BY <2>1
      <3> HIDE DEF newer
      <3> QED BY <3>1, <3>2
    <2> DEFINE top == MostOf(v, DOMAIN v)
    <2>6. top \in Nat /\ top <= Unit /\ top \in {0} \cup {v[k] : k \in DOMAIN v}
          /\ \A k \in DOMAIN v : v[k] <= top
      <3> DEFINE D == DOMAIN v
      <3>1. \A k \in D : v[k] \in Nat /\ v[k] <= Unit
        BY <2>5
      <3>2. D \in SUBSET D
        OBVIOUS
      <3> HIDE DEF D, v
      <3> QED BY <3>1, <3>2, MostIs DEF D
    <2>7. top \in overlaps
      BY <2>3, <2>6
    <2>8. \A B \in sets : Contained(A, B) <= top
      <3> TAKE B \in sets
      <3>1. PICK j \in all : B = rows[j].tokens
        OBVIOUS
      <3>2. CASE B = {}
        BY <2>6, <3>2 DEF Contained
      <3>3. CASE B # {}
        <4>1. j \in S
          BY <3>1, <3>3
        <4>2. PICK k \in DOMAIN newer : newer[k] = j
          BY <2>1, <4>1
        <4>3. k \in DOMAIN v /\ v[k] = Contained(A, B)
          BY <2>3, <3>1, <4>2
        <4> QED BY <2>6, <4>3
      <3> QED BY <3>2, <3>3
    <2> HIDE DEF top, sets, A
    <2>9. \A y \in overlaps : y <= top
      BY <1>5, <2>6, <2>8
    <2>10. overlaps \subseteq Nat
      BY <1>5
    <2> HIDE DEF overlaps
    <2>11. most = top
      BY <2>7, <2>9, <2>10, GreatestIs
    <2> HIDE DEF most, v
    <2>12. WalkedMax(v) \in Nat /\ (WalkedMax(v) = most \/ (Pinned(WalkedMax(v)) /\ Pinned(most)))
      <3>1. /\ WalkedMax(v) \in Nat
            /\ \/ WalkedMax(v) = MostOf(v, DOMAIN v)
               \/ Pinned(WalkedMax(v)) /\ Pinned(MostOf(v, DOMAIN v))
        BY <2>5, WalkFinds
      <3> QED BY <2>11, <3>1 DEF top
    <2>13. most \in Nat /\ most <= Unit
      BY <2>6, <2>11
    <2>14. Score(WalkedMax(v)) = IF most < 13 * Percent THEN Unit
                                 ELSE Max({8 * Percent, Unit - Min({Unit, 3 * most})})
      BY <2>12, <2>13, ScoresAgree
    <2> QED BY <1>2, <2>4, <2>14 DEF Frontier
  <1> QED BY <1>6, <1>7

\* A row as the refinement leaves it.
Scoring == [feed : Feeds, score : Scores, coarse : Coarse, time : Nat]

\* What is loaded and scored keeps its form; no refinement is longer than its bound.
RankTypes ==
    /\ RowTypes
    /\ refined \in Seq(Scoring)
    /\ Len(refined) <= MaxRefined

\* Rows, and the refined ones, have the types that _rank_rows gives them.
THEOREM RankTypesHold == RankSpec => []RankTypes
  <1> DEFINE Row == [feed : Feeds, time : Times, tokens : TokenSets]
  <1>1. RankInit => RankTypes
    BY RankingBounds DEF RankInit, RankTypes, RowTypes
  <1>2. RankTypes /\ [RankNext]_rankVars => RankTypes'
    <2> SUFFICES ASSUME RankTypes, [RankNext]_rankVars PROVE RankTypes'
      OBVIOUS
    <2>1. rows \in Seq(Row) /\ refined \in Seq(Scoring) /\ Len(refined) <= MaxRefined
      BY DEF RankTypes, RowTypes
    <2>2. CASE Loads
      <3>1. PICK f \in Feeds, t \in Times, A \in TokenSets :
                rows' = Append(rows, [feed |-> f, time |-> t, tokens |-> A])
        BY <2>2 DEF Loads
      <3>2. [feed |-> f, time |-> t, tokens |-> A] \in Row
        OBVIOUS
      <3> HIDE DEF Row
      <3>3. rows' \in Seq(Row)
        BY <2>1, <3>1, <3>2
      <3> QED BY <2>1, <2>2, <3>3 DEF Loads, RankTypes, RowTypes, Row
    <2>3. CASE Scored
      <3>1. PICK f \in Feeds, s \in Scores, c \in Coarse :
                refined' = Append(refined, [feed |-> f, score |-> s, coarse |-> c,
                                            time |-> Len(refined)])
        BY <2>3 DEF Scored
      <3>2. Len(refined) \in Nat /\ Len(refined) < MaxRefined /\ MaxRefined \in Nat
        BY <2>1, <2>3, RankingBounds DEF Scored
      <3>3. [feed |-> f, score |-> s, coarse |-> c, time |-> Len(refined)] \in Scoring
        BY <3>2 DEF Scoring
      <3>4. refined' \in Seq(Scoring) /\ Len(refined') = Len(refined) + 1
        BY <2>1, <3>1, <3>3
      <3>5. Len(refined') <= MaxRefined
        BY <3>2, <3>4
      <3> QED BY <2>1, <2>3, <3>4, <3>5 DEF Scored, RankTypes, RowTypes
    <2>4. CASE UNCHANGED rankVars
      BY <2>1, <2>4 DEF RankTypes, RowTypes, rankVars
    <2> QED BY <2>2, <2>3, <2>4 DEF RankNext
  <1> QED BY <1>1, <1>2, PTL DEF RankSpec

\* The masks, the walk in blocks and the early exit of _rank_rows change no score,
\* however many rows there are and whatever they consist of.
THEOREM ShortcutsKeepScores == RankSpec => []ShortcutsChangeNoScore
  <1>1. RankTypes => ShortcutsChangeNoScore
    <2> SUFFICES ASSUME RankTypes, NEW i \in DOMAIN rows
                 PROVE  LET contexts == [j \in DOMAIN rows |-> rows[j].tokens]
                        IN  /\ Frontier(i) = PlainFrontier(i)
                            /\ Novelty(rows[i].tokens, RemoveAt(contexts, i)) =
                                   PlainNovelty(rows[i].tokens, RemoveAt(contexts, i))
      BY DEF ShortcutsChangeNoScore
    <2> DEFINE contexts == [j \in DOMAIN rows |-> rows[j].tokens]
               Context == {c \in SUBSET Nat : IsFiniteSet(c)}
    <2>1. RowTypes
      BY DEF RankTypes
    <2>2. DOMAIN rows = 1..Len(rows) /\ Len(rows) \in Nat
      BY <2>1, RowFacts
    <2>3. \A j \in DOMAIN rows : rows[j].tokens \in Context
      BY <2>1, RowFacts
    <2>4. Frontier(i) = PlainFrontier(i)
      BY <2>1, FrontierIsPlain
    <2>5. contexts \in Seq(Context) /\ Len(contexts) = Len(rows)
      <3> HIDE DEF Context
      <3> QED BY <2>2, <2>3
    <2>6. IsFiniteSet(rows[i].tokens)
      BY <2>3
    <2> HIDE DEF contexts, Context
    <2>7. RemoveAt(contexts, i) \in Seq(Context)
      <3>1. i \in 1..Len(contexts) /\ Len(contexts) \in Nat
        BY <2>2, <2>5
      <3>2. /\ SubSeq(contexts, 1, i - 1) \in Seq(Context)
            /\ SubSeq(contexts, i + 1, Len(contexts)) \in Seq(Context)
        BY <2>5, <3>1
      <3>3. SubSeq(contexts, 1, i - 1) \o SubSeq(contexts, i + 1, Len(contexts)) \in Seq(Context)
        BY <3>2
      <3> QED BY <3>3 DEF RemoveAt
    <2>8. Novelty(rows[i].tokens, RemoveAt(contexts, i)) =
              PlainNovelty(rows[i].tokens, RemoveAt(contexts, i))
      BY <2>6, <2>7, NoveltyIsPlain DEF Context
    <2> QED BY <2>4, <2>8 DEF contexts
  <1> QED BY <1>1, RankTypesHold, PTL

\* The numbers from 1 to n are n.
LEMMA SegmentSize ==
    ASSUME NEW n \in Nat
    PROVE  IsFiniteSet(1..n) /\ Cardinality(1..n) = n
  BY FS_Interval

\* A multiplier never grows with the position, and none is 0.
LEMMA MultipliersFall ==
    ASSUME NEW p \in 0..MaxRefined, NEW q \in p..MaxRefined
    PROVE  /\ Multiplier(p) \in Nat \ {0} /\ Multiplier(q) \in Nat \ {0}
           /\ Multiplier(q) <= Multiplier(p)
  <1>1. MaxRefined \in Nat
    BY RankingBounds
  <1> DEFINE sets(n) == SUBSET (1..n)
  <1>2. ASSUME NEW n \in Nat
        PROVE  IsFiniteSet(sets(n)) /\ Cardinality(sets(n)) = 2 ^ n /\ 2 ^ n \in Nat \ {0}
    <2>1. IsFiniteSet(1..n) /\ Cardinality(1..n) = n
      BY SegmentSize
    <2>2. IsFiniteSet(sets(n)) /\ Cardinality(sets(n)) = 2 ^ n
      BY <2>1, FS_SUBSET
    <2>3. {} \in sets(n)
      OBVIOUS
    <2> HIDE DEF sets
    <2>4. Cardinality(sets(n)) \in Nat /\ Cardinality(sets(n)) # 0
      BY <2>2, <2>3, FS_CardinalityType, FS_EmptySet
    <2> QED BY <2>2, <2>4
  <1>3. MaxRefined - p \in Nat /\ MaxRefined - q \in Nat /\ MaxRefined - q <= MaxRefined - p
    BY <1>1
  <1>4. 2 ^ (MaxRefined - q) <= 2 ^ (MaxRefined - p)
    <2>1. sets(MaxRefined - q) \subseteq sets(MaxRefined - p)
      BY <1>3
    <2> HIDE DEF sets
    <2>2. Cardinality(sets(MaxRefined - q)) <= Cardinality(sets(MaxRefined - p))
      BY <1>2, <1>3, <2>1, FS_Subset
    <2> QED BY <1>2, <1>3, <2>2
  <1> DEFINE a == 2 ^ (MaxRefined - p)
             b == 2 ^ (MaxRefined - q)
             c == 2 ^ MaxRefined
  <1>5. a \in Nat \ {0} /\ b \in Nat \ {0} /\ c \in Nat \ {0} /\ b <= a
    BY <1>1, <1>2, <1>3, <1>4
  <1>6. Multiplier(p) = 95 * a + 5 * c /\ Multiplier(q) = 95 * b + 5 * c
    BY DEF Multiplier
  <1> HIDE DEF a, b, c
  <1> QED BY <1>5, <1>6

\* Which of two rows is put first.
GoesFirst(list, score, i, j) ==
    LET key(k) == <<score[k], list[k].coarse, list[k].time>>
    IN  Above(key(i), key(j)) \/ (key(i) = key(j) /\ i < j)

\* What such rows are sorted by.
LEMMA ScoringFacts ==
    ASSUME NEW list \in Seq(Scoring)
    PROVE  /\ DOMAIN list = 1..Len(list) /\ Len(list) \in Nat
           /\ \A k \in DOMAIN list : /\ list[k] \in Scoring /\ list[k].score \in Nat
                                     /\ list[k].coarse \in Nat /\ list[k].time \in Nat
  <1>1. \A r \in Scoring : r.score \in Nat /\ r.coarse \in Nat /\ r.time \in Nat
    BY RankingBounds DEF Scoring
  <1> QED BY <1>1

\* A list can be put in the order of any scores, and all of it is.
LEMMA RankedIsOrdered ==
    ASSUME NEW list \in Seq(Scoring), NEW score \in [DOMAIN list -> Nat]
    PROVE  /\ Ranked(list, score) \in Bijection(DOMAIN list, DOMAIN list)
           /\ \A i, j \in DOMAIN list :
                  i < j => GoesFirst(list, score, Ranked(list, score)[i], Ranked(list, score)[j])
  <1> DEFINE S == DOMAIN list
             before == {p \in S \X S : GoesFirst(list, score, p[1], p[2])}
  <1>1. S = 1..Len(list) /\ Len(list) \in Nat
        /\ \A k \in S : score[k] \in Nat /\ list[k].coarse \in Nat /\ list[k].time \in Nat
    BY ScoringFacts
  <1>2. IsFiniteSet(S) /\ Cardinality(S) = Len(list)
    BY <1>1, SegmentSize
  <1>3. Ranked(list, score) = Sorted(S, before)
    BY DEF Ranked, GoesFirst
  <1>4. \A x, y \in S : x # y => <<x, y>> \in before \/ <<y, x>> \in before
    <2> TAKE x, y \in S
    <2>1. x # y => GoesFirst(list, score, x, y) \/ GoesFirst(list, score, y, x)
      BY <1>1 DEF GoesFirst, Above
    <2> QED BY <2>1
  <1>5. \A x, y, z \in S : <<x, y>> \in before /\ <<y, z>> \in before => <<x, z>> \in before
    <2> TAKE x, y, z \in S
    <2>1. GoesFirst(list, score, x, y) /\ GoesFirst(list, score, y, z) =>
              GoesFirst(list, score, x, z)
      BY <1>1 DEF GoesFirst, Above
    <2> QED BY <2>1
  <1>6. \A x \in S : <<x, x>> \notin before
    <2> TAKE x \in S
    <2>1. ~GoesFirst(list, score, x, x)
      BY <1>1 DEF GoesFirst, Above
    <2> QED BY <2>1
  <1> HIDE DEF S, before
  <1>7. /\ Sorted(S, before) \in Bijection(1..Cardinality(S), S)
        /\ \A i, j \in 1..Cardinality(S) :
               i < j => <<Sorted(S, before)[i], Sorted(S, before)[j]>> \in before
    BY <1>2, <1>4, <1>5, <1>6, SortedIsSorted
  <1> QED BY <1>1, <1>2, <1>3, <1>7 DEF before, S

\* The refined order is one of rows, as long, and by score before all else.
LEMMA InOrderIsOrdered ==
    ASSUME refined \in Seq(Scoring)
    PROVE  /\ InOrder \in Seq(Scoring) /\ Len(InOrder) = Len(refined)
           /\ \A i, j \in DOMAIN InOrder :
                  i < j => ~Above(<<InOrder[j].score, InOrder[j].coarse, InOrder[j].time>>,
                                  <<InOrder[i].score, InOrder[i].coarse, InOrder[i].time>>)
  <1> DEFINE score == [i \in DOMAIN refined |-> refined[i].score]
             order == Ranked(refined, score)
             D == DOMAIN refined
  <1>1. D = 1..Len(refined) /\ Len(refined) \in Nat
        /\ \A k \in D : /\ refined[k] \in Scoring /\ refined[k].score \in Nat
                        /\ refined[k].coarse \in Nat /\ refined[k].time \in Nat
    BY ScoringFacts
  <1>2. score \in [D -> Nat]
    BY <1>1
  <1>3. InOrder = [k \in DOMAIN order |-> refined[order[k]]]
    BY DEF InOrder
  <1>4. order \in [D -> D] /\ \A i, j \in D : i < j => GoesFirst(refined, score, order[i], order[j])
    <2> HIDE DEF score
    <2> QED BY <1>2, RankedIsOrdered DEF Bijection, Injection
  <1>5. \A k \in D : score[k] = refined[k].score
    OBVIOUS
  <1> HIDE DEF order, score
  <1>6. InOrder = [k \in D |-> refined[order[k]]]
    BY <1>3, <1>4
  <1>7. InOrder \in Seq(Scoring) /\ Len(InOrder) = Len(refined)
    BY <1>1, <1>4, <1>6
  <1>8. ASSUME NEW i \in D, NEW j \in D, i < j
        PROVE  ~Above(<<InOrder[j].score, InOrder[j].coarse, InOrder[j].time>>,
                      <<InOrder[i].score, InOrder[i].coarse, InOrder[i].time>>)
    <2>1. order[i] \in D /\ order[j] \in D /\ GoesFirst(refined, score, order[i], order[j])
      BY <1>4, <1>8
    <2>2. InOrder[i] = refined[order[i]] /\ InOrder[j] = refined[order[j]]
      BY <1>6
    <2> DEFINE r == refined[order[i]]
               q == refined[order[j]]
    <2>3. /\ r.score \in Nat /\ r.coarse \in Nat /\ r.time \in Nat
          /\ q.score \in Nat /\ q.coarse \in Nat /\ q.time \in Nat
      BY <1>1, <2>1
    <2>4. \/ Above(<<r.score, r.coarse, r.time>>, <<q.score, q.coarse, q.time>>)
          \/ <<r.score, r.coarse, r.time>> = <<q.score, q.coarse, q.time>>
      BY <1>5, <2>1 DEF GoesFirst
    <2> HIDE DEF r, q
    <2>5. ~Above(<<q.score, q.coarse, q.time>>, <<r.score, r.coarse, r.time>>)
      BY <2>3, <2>4 DEF Above
    <2> QED BY <2>2, <2>5 DEF r, q
  <1> QED BY <1>6, <1>7, <1>8

\* _diversify_rank_rows: a row is overtaken only by one with fewer rows of its own
\* source before it, however many rows have been refined.
THEOREM RepetitionAloneCosts == RankSpec => []OnlyRepetitionCosts
  <1>1. RankTypes => OnlyRepetitionCosts
    <2> DEFINE list == InOrder
               order == Diversified
               place == [k \in DOMAIN list |-> CHOOSE n \in DOMAIN order : order[n] = k]
               earlier(i) == {k \in 1..i - 1 : list[k].feed = list[i].feed}
               score == [i \in DOMAIN list |-> list[i].score * Multiplier(Position(list, i))]
    <2> SUFFICES ASSUME RankTypes, NEW i \in DOMAIN list, NEW j \in DOMAIN list,
                        i < j, place[j] < place[i]
                 PROVE  Cardinality(earlier(j)) < Cardinality(earlier(i))
      BY DEF OnlyRepetitionCosts
    <2>1. refined \in Seq(Scoring) /\ Len(refined) \in Nat /\ Len(refined) <= MaxRefined
      BY DEF RankTypes
    <2>2. /\ list \in Seq(Scoring) /\ Len(list) = Len(refined)
          /\ ~Above(<<list[j].score, list[j].coarse, list[j].time>>,
                    <<list[i].score, list[i].coarse, list[i].time>>)
      BY <2>1, InOrderIsOrdered
    <2>3. DOMAIN list = 1..Len(list) /\ Len(list) \in Nat /\ Len(list) <= MaxRefined
          /\ \A k \in DOMAIN list : /\ list[k].score \in Nat /\ list[k].coarse \in Nat
                                    /\ list[k].time \in Nat
      BY <2>1, <2>2, ScoringFacts
    <2>4. MaxRefined \in Nat
      BY RankingBounds
    <2>5. order = Ranked(list, score)
      BY DEF Diversified
    <2> HIDE DEF list
    <2>6. ASSUME NEW k \in DOMAIN list
          PROVE  /\ Position(list, k) \in 0..MaxRefined
                 /\ earlier(k) = {l \in DOMAIN list : l < k /\ list[l].feed = list[k].feed}
      <3>1. {l \in DOMAIN list : l < k /\ list[l].feed = list[k].feed} \subseteq 1..Len(list)
        BY <2>3
      <3>2. IsFiniteSet(1..Len(list)) /\ Cardinality(1..Len(list)) = Len(list)
        BY <2>3, SegmentSize
      <3>3. Position(list, k) \in Nat /\ Position(list, k) <= Len(list)
        BY <3>1, <3>2, FS_Subset, FS_CardinalityType DEF Position
      <3>4. earlier(k) = {l \in DOMAIN list : l < k /\ list[l].feed = list[k].feed}
        BY <2>3
      <3> QED BY <2>3, <2>4, <3>3, <3>4
    <2>7. \A k \in DOMAIN list : Cardinality(earlier(k)) = Position(list, k)
      BY <2>6 DEF Position
    <2>8. \A k \in DOMAIN list : Multiplier(Position(list, k)) \in Nat \ {0}
      <3> TAKE k \in DOMAIN list
      <3>1. /\ Position(list, k) \in 0..MaxRefined
            /\ Position(list, k) \in Position(list, k)..MaxRefined
        BY <2>4, <2>6
      <3> QED BY <3>1, MultipliersFall
    <2>9. score \in [DOMAIN list -> Nat]
      BY <2>3, <2>8
    <2>10. /\ order \in Bijection(DOMAIN list, DOMAIN list)
           /\ \A m, n \in DOMAIN list : m < n => GoesFirst(list, score, order[m], order[n])
      <3> HIDE DEF score, order
      <3> QED BY <2>2, <2>5, <2>9, RankedIsOrdered
    <2> HIDE DEF order
    <2>11. \A k \in DOMAIN list : place[k] \in DOMAIN list /\ order[place[k]] = k
      BY <2>10 DEF Bijection, Injection, Surjection
    <2> HIDE DEF place
    <2>12. GoesFirst(list, score, j, i)
      BY <2>10, <2>11
    <2> SUFFICES ASSUME Position(list, i) <= Position(list, j) PROVE FALSE
      BY <2>4, <2>6, <2>7
    <2> DEFINE a == Multiplier(Position(list, i))
               b == Multiplier(Position(list, j))
               x == list[i].score
               y == list[j].score
    <2>13. a \in Nat \ {0} /\ b \in Nat \ {0} /\ b <= a
      <3>1. /\ Position(list, i) \in 0..MaxRefined
            /\ Position(list, j) \in Position(list, i)..MaxRefined
        BY <2>4, <2>6
      <3> QED BY <3>1, MultipliersFall
    <2>14. score[i] = x * a /\ score[j] = y * b /\ x \in Nat /\ y \in Nat /\ y <= x
      BY <2>2, <2>3 DEF Above
    <2>15. y = x \/ y * b < x * a
      <3> HIDE DEF a, b, x, y
      <3>1. y * b <= y * a
        BY <2>13, <2>14
      <3>2. y # x => y * a < x * a
        BY <2>13, <2>14
      <3> QED BY <2>13, <2>14, <3>1, <3>2
    <2>16. y * b <= x * a
      <3> HIDE DEF a, b, x, y
      <3> QED BY <2>13, <2>14
    <2> HIDE DEF a, b
    <2> DEFINE sa == x * a
               sb == y * b
    <2>17. /\ sa \in Nat /\ sb \in Nat /\ score[i] = sa /\ score[j] = sb
           /\ sb <= sa /\ (y = x \/ sb < sa)
      BY <2>13, <2>14, <2>15, <2>16
    <2> HIDE DEF score, sa, sb
    <2> QED BY <2>2, <2>3, <2>12, <2>17 DEF GoesFirst, Above
  <1>2. RankSpec => []RankTypes
    BY RankTypesHold
  <1> QED BY <1>1, <1>2, PTL
===============================================================================
