---------------------------- MODULE FeedLifecycle ---------------------------
(***************************************************************************)
(* The private life cycle of FeedContentRuntime (content_source.py): start(), *)
(* close(), the one-shot timer, and the poll task that re-arms itself.        *)
(*                                                                          *)
(* All of it runs on one event loop, so a step here is what runs between two  *)
(* awaits. start() and close() may be called more than once and overlap:      *)
(* plugin.py calls close() from RUNTIME_STOPPING and again when the effect is *)
(* torn down. What a round does with the database is FeedDelivery's matter;   *)
(* here it is a body that may run scripts, end or raise.                     *)
(***************************************************************************)
EXTENDS Naturals, FiniteSets

CONSTANTS
    Timers,   \* timer handles; the poll task of a timer goes by the same name
    Starters, \* calls of start()
    Closers,  \* calls of close()
    None

ASSUME NoneIsNoTimer == None \notin Timers

VARIABLES
    closed,   \* self._closed
    handle,   \* self._handle
    task,     \* self._task
    logging,  \* self._log_handler is open
    timer,    \* the timer service: what became of each handle
    tpc,      \* where each poll task is
    ending,   \* how the task's try block ended: "normal", "return" or "raise"
    spc,      \* where each start() call is
    cpc,      \* where each close() call is
    held      \* the handle (and task) a close() call took

vars == <<closed, handle, task, logging, timer, tpc, ending, spc, cpc, held>>

TypeOK ==
    /\ closed \in BOOLEAN
    /\ handle \in Timers \cup {None}
    /\ task \in Timers \cup {None}
    /\ handle = None <=> task = None
    /\ logging \in BOOLEAN
    /\ timer \in [Timers -> {"free", "scheduled", "fired", "cancelled", "cleaned"}]
    /\ tpc \in [Timers -> {"none", "waiting", "body", "script", "finally", "cleanup",
                           "read", "done", "failed"}]
    /\ ending \in [Timers -> {"normal", "return", "raise"}]
    /\ spc \in [Starters -> {"idle", "reading", "returned", "raised"}]
    /\ cpc \in [Closers -> {"idle", "cancelling", "waiting", "cleaning", "returned", "raised",
                            "skipped"}]
    /\ held \in [Closers -> Timers \cup {None}]

Init ==
    /\ closed = FALSE
    /\ handle = None /\ task = None
    /\ logging = FALSE
    /\ timer = [t \in Timers |-> "free"]
    /\ tpc = [t \in Timers |-> "none"]
    /\ ending = [t \in Timers |-> "normal"]
    /\ spc = [s \in Starters |-> "idle"]
    /\ cpc = [c \in Closers |-> "idle"]
    /\ held = [c \in Closers |-> None]

-----------------------------------------------------------------------------
\* A handle nobody holds any more may stand for the next one.
Reusable(t) ==
    /\ timer[t] \in {"free", "cleaned"}
    /\ tpc[t] \in {"none", "done", "failed"}
    /\ \A c \in Closers : held[c] # t

\* Mutant: _arm does not look whether a timer is armed already.
OpenToArm == ~closed

\* Mutant: _arm does not look whether the runtime has closed.
UnarmedToArm == handle = None

MayArm == ~closed /\ handle = None

\* self._arm: nothing if closed or armed, else schedule and create the task.
\* `mine` is the task that calls it, done after the call, or None for start().
Arm(mine) ==
    LET left == IF mine = None THEN tpc ELSE [tpc EXCEPT ![mine] = "done"]
    IN  IF MayArm
        THEN \E t \in Timers :
                /\ Reusable(t)
                /\ handle' = t
                /\ task' = t
                /\ timer' = [timer EXCEPT ![t] = "scheduled"]
                /\ tpc' = [left EXCEPT ![t] = "waiting"]
                /\ ending' = [ending EXCEPT ![t] = "normal"]
        ELSE /\ tpc' = left
             /\ UNCHANGED <<handle, task, timer, ending>>

-----------------------------------------------------------------------------
(* start()                                                                  *)

StartCall(s) ==
    /\ spc[s] = "idle"
    /\ spc' = [spc EXCEPT ![s] = IF closed THEN "raised"
                                 ELSE IF handle # None THEN "returned" ELSE "reading"]
    /\ logging' = (logging \/ (~closed /\ handle = None))
    /\ UNCHANGED <<closed, handle, task, timer, tpc, ending, cpc, held>>

\* The durable deadline is read in a thread; the read may raise.
StartArms(s) ==
    /\ spc[s] = "reading"
    /\ Arm(None)
    /\ spc' = [spc EXCEPT ![s] = "returned"]
    /\ UNCHANGED <<closed, logging, cpc, held>>

StartRaises(s) ==
    /\ spc[s] = "reading"
    /\ spc' = [spc EXCEPT ![s] = "raised"]
    /\ UNCHANGED <<closed, handle, task, logging, timer, tpc, ending, cpc, held>>

-----------------------------------------------------------------------------
(* The poll task, _wait_poll_rearm.                                         *)

TimerFires(t) ==
    /\ timer[t] = "scheduled"
    /\ timer' = [timer EXCEPT ![t] = "fired"]
    /\ UNCHANGED <<closed, handle, task, logging, tpc, ending, spc, cpc, held>>

\* handle.result(): a cancelled timer, or a closed runtime, ends the task.
TaskWakes(t) ==
    /\ tpc[t] = "waiting"
    /\ timer[t] \in {"fired", "cancelled"}
    /\ IF timer[t] = "cancelled" \/ closed
       THEN /\ tpc' = [tpc EXCEPT ![t] = "finally"]
            /\ ending' = [ending EXCEPT ![t] = "return"]
       ELSE /\ tpc' = [tpc EXCEPT ![t] = "body"]
            /\ UNCHANGED ending
    /\ UNCHANGED <<closed, handle, task, logging, timer, spc, cpc, held>>

\* Mutant: _poll_scripts goes on with the next script whatever close() did.
ScriptStartsAnyway(t) ==
    /\ tpc[t] = "body"
    /\ tpc' = [tpc EXCEPT ![t] = "script"]
    /\ UNCHANGED <<closed, handle, task, logging, timer, ending, spc, cpc, held>>

\* _poll_scripts starts no script once the runtime is closed.
ScriptStarts(t) ==
    /\ tpc[t] = "body"
    /\ ~closed
    /\ tpc' = [tpc EXCEPT ![t] = "script"]
    /\ UNCHANGED <<closed, handle, task, logging, timer, ending, spc, cpc, held>>

ScriptEnds(t) ==
    /\ tpc[t] = "script"
    /\ tpc' = [tpc EXCEPT ![t] = "body"]
    /\ UNCHANGED <<closed, handle, task, logging, timer, ending, spc, cpc, held>>

BodyEnds(t) ==
    /\ tpc[t] = "body"
    /\ tpc' = [tpc EXCEPT ![t] = "finally"]
    /\ UNCHANGED <<closed, handle, task, logging, timer, ending, spc, cpc, held>>

\* Anything the round awaits may raise.
BodyRaises(t) ==
    /\ tpc[t] \in {"body", "script"}
    /\ tpc' = [tpc EXCEPT ![t] = "finally"]
    /\ ending' = [ending EXCEPT ![t] = "raise"]
    /\ UNCHANGED <<closed, handle, task, logging, timer, spc, cpc, held>>

\* Mutant: the used timer stays where _arm looks for one.
FinallyKeepsHandle(t) ==
    /\ tpc[t] = "finally"
    /\ tpc' = [tpc EXCEPT ![t] = "cleanup"]
    /\ UNCHANGED <<closed, handle, task, logging, timer, ending, spc, cpc, held>>

\* finally: the runtime forgets the handle and the task, then awaits cleanup.
Finally(t) ==
    /\ tpc[t] = "finally"
    /\ handle' = None
    /\ task' = None
    /\ tpc' = [tpc EXCEPT ![t] = "cleanup"]
    /\ UNCHANGED <<closed, logging, timer, ending, spc, cpc, held>>

\* handle.cleanup() is over: a return or an exception leaves here, a normal
\* end goes on to read the deadline unless the runtime closed meanwhile.
TaskCleans(t) ==
    /\ tpc[t] = "cleanup"
    /\ timer' = [timer EXCEPT ![t] = "cleaned"]
    /\ tpc' = [tpc EXCEPT ![t] =
                  CASE ending[t] = "raise" -> "failed"
                    [] ending[t] = "return" \/ closed -> "done"
                    [] OTHER -> "read"]
    /\ UNCHANGED <<closed, handle, task, logging, ending, spc, cpc, held>>

Rearms(t) ==
    /\ tpc[t] = "read"
    /\ Arm(t)
    /\ UNCHANGED <<closed, logging, spc, cpc, held>>

RearmRaises(t) ==
    /\ tpc[t] = "read"
    /\ tpc' = [tpc EXCEPT ![t] = "failed"]
    /\ UNCHANGED <<closed, handle, task, logging, timer, ending, spc, cpc, held>>

-----------------------------------------------------------------------------
(* close()                                                                  *)

\* The last three assignments of close().
Release == handle' = None /\ task' = None /\ logging' = FALSE

CloseCall(c) ==
    /\ cpc[c] = "idle"
    /\ closed' = TRUE
    /\ \/ /\ closed
          /\ cpc' = [cpc EXCEPT ![c] = "skipped"]
          /\ UNCHANGED <<handle, task, logging, held>>
       \/ /\ ~closed /\ handle = None
          /\ cpc' = [cpc EXCEPT ![c] = "returned"]
          /\ Release
          /\ UNCHANGED held
       \/ /\ ~closed /\ handle # None
          /\ cpc' = [cpc EXCEPT ![c] = "cancelling"]
          /\ held' = [held EXCEPT ![c] = handle]
          /\ UNCHANGED <<handle, task, logging>>
    /\ UNCHANGED <<timer, tpc, ending, spc>>

\* Mutant: the timer is cleaned up before the task has seen it cancelled.
CloseDropsTimer(c) ==
    /\ cpc[c] = "cancelling"
    /\ timer' = [timer EXCEPT ![held[c]] = IF @ = "scheduled" THEN "cleaned" ELSE @]
    /\ cpc' = [cpc EXCEPT ![c] = "waiting"]
    /\ UNCHANGED <<closed, handle, task, logging, tpc, ending, spc, held>>

CloseCancels(c) ==
    /\ cpc[c] = "cancelling"
    /\ timer' = [timer EXCEPT ![held[c]] = IF @ = "scheduled" THEN "cancelled" ELSE @]
    /\ cpc' = [cpc EXCEPT ![c] = "waiting"]
    /\ UNCHANGED <<closed, handle, task, logging, tpc, ending, spc, held>>

\* await task: its exception is close()'s exception, and nothing after it runs.
CloseAwaits(c) ==
    /\ cpc[c] = "waiting"
    /\ tpc[held[c]] \in {"done", "failed"}
    /\ cpc' = [cpc EXCEPT ![c] = IF tpc[held[c]] = "failed" THEN "raised" ELSE "cleaning"]
    /\ UNCHANGED <<closed, handle, task, logging, timer, tpc, ending, spc, held>>

CloseReleases(c) ==
    /\ cpc[c] = "cleaning"
    /\ timer' = [timer EXCEPT ![held[c]] = "cleaned"]
    /\ Release
    /\ cpc' = [cpc EXCEPT ![c] = "returned"]
    /\ UNCHANGED <<closed, tpc, ending, spc, held>>

-----------------------------------------------------------------------------
TaskNext(t) ==
    TaskWakes(t) \/ ScriptEnds(t) \/ BodyEnds(t) \/ Finally(t) \/ TaskCleans(t) \/ Rearms(t)

Next ==
    \/ \E s \in Starters : StartCall(s) \/ StartArms(s) \/ StartRaises(s)
    \/ \E t \in Timers : TimerFires(t) \/ ScriptStarts(t) \/ TaskNext(t)
                         \/ BodyRaises(t) \/ RearmRaises(t)
    \/ \E c \in Closers : CloseCall(c) \/ CloseCancels(c) \/ CloseAwaits(c) \/ CloseReleases(c)

Spec == Init /\ [][Next]_vars

\* The event loop runs what can run, timers fire, and scripts end (they have a
\* time limit). A round may run scripts, but not for ever: it gets to its end
\* if that is possible again and again. Nobody has to call start() or close(),
\* and nothing has to raise.
Fairness ==
    /\ \A t \in Timers : WF_vars(TaskNext(t)) /\ SF_vars(BodyEnds(t)) /\ WF_vars(TimerFires(t))
    /\ \A s \in Starters : WF_vars(StartArms(s))
    /\ \A c \in Closers : WF_vars(CloseCancels(c) \/ CloseAwaits(c) \/ CloseReleases(c))

LiveSpec == Spec /\ Fairness

-----------------------------------------------------------------------------
(* Safety.                                                                  *)

\* Tasks that poll or are going to.
Active == {t \in Timers : tpc[t] \in {"waiting", "body", "script"}}

\* README "拥有唯一轮询 Timer。每次只注册一个 one-shot deadline": whatever start()
\* calls overlap a round's end, there is one timer and one round at a time.
OnePollOwner ==
    /\ Cardinality(Active) <= 1
    /\ Cardinality({t \in Timers : timer[t] = "scheduled"}) <= 1

\* close() can only stop what the runtime still holds: no task that polls or
\* is going to has slipped out of self._handle and self._task.
ActiveTaskIsHeld == \A t \in Active : handle = t /\ task = t

\* Once the call of close() that did the closing has returned, nothing polls,
\* no timer is armed and the diagnostics file is released, for good.
ClosedIsQuiet ==
    (\E c \in Closers : cpc[c] = "returned") =>
        Active = {} /\ (\A t \in Timers : timer[t] # "scheduled") /\ ~logging

\* A script or a round never starts in a closed runtime, even if its timer had
\* fired or its round had begun before.
ClosedStartsNothing ==
    [][closed => \A t \in Timers :
          /\ tpc[t] = "waiting" => tpc'[t] \notin {"body", "script"}
          /\ tpc[t] = "body" => tpc'[t] # "script"
          /\ tpc'[t] = "waiting" => tpc[t] = "waiting"]_vars

\* A task that close() awaits does not sleep for ever: it has left its wait, or
\* its timer has fired, or been cancelled before it could.
AwaitedIsWoken ==
    \A c \in Closers :
        /\ cpc[c] = "waiting" => tpc[held[c]] # "none"
        /\ cpc[c] = "waiting" /\ tpc[held[c]] = "waiting" =>
               timer[held[c]] \in {"fired", "cancelled"}

-----------------------------------------------------------------------------
(* Refinement: Spec implements PollLoop. A round is armed while its task waits  *)
(* and polls while the task runs it or a script of it; the loop is closed when   *)
(* the call of close() that closed it has returned.                           *)

Loop == INSTANCE PollLoop WITH
    Rounds <- Timers,
    phase <- IF ~closed THEN "open"
             ELSE IF \E c \in Closers : cpc[c] = "returned" THEN "closed" ELSE "closing",
    armed <- {t \in Timers : tpc[t] = "waiting"},
    polling <- {t \in Timers : tpc[t] \in {"body", "script"}}

\* One round at a time, whatever start(), close() and the end of a round do at
\* once, the next armed only after it, and none once the runtime closes. README
\* "每次只注册一个 one-shot deadline", the next after the round.
LoopSpec == Loop!LoopSpec

-----------------------------------------------------------------------------
(* Liveness, under LiveSpec.                                                *)

\* close() never waits for ever: the timer it cancelled wakes the task, and
\* the task it waits for ends.
CloseEnds == \A c \in Closers : cpc[c] = "cancelling" ~> cpc[c] \in {"returned", "raised"}

\* A round that ended normally is followed by another, with a timer of its own
\* that the runtime holds, unless it closed or the deadline could not be read.
RoundRearms ==
    \A t \in Timers :
        tpc[t] = "cleanup" /\ ending[t] = "normal"
        ~> closed \/ tpc[t] = "failed" \/ handle \notin {None, t}
=============================================================================
