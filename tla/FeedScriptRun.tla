----------------------------- MODULE FeedScriptRun -----------------------------
(***************************************************************************)
(* One run of a source's script: ScriptRunner.run on the host's process       *)
(* service, parse_output of feed_runtime/events.py, and what the round and     *)
(* the tool feed_script make of it. The script prints, exits, hangs or leaves    *)
(* children behind; the service answers in slices, cuts long output and ends     *)
(* what runs too long; any call may raise or be cancelled.                    *)
(***************************************************************************)
EXTENDS Naturals, Sequences, FiniteSets, SequencesExt

CONSTANTS
    Ids,      \* ids of events
    Bad,      \* an event that _event refuses
    Results,  \* the lines of output that are a JSON object
    Log,      \* any other line
    Cut,      \* what is left of a line from whose middle something was omitted
    MaxEvents,
    MaxLines  \* bound: lines a script prints

Statuses == {"ok", "empty", "blocked", "login_required", "stale", "error"}
Successes == {"ok", "empty"}
Lines == Results \cup {Log}

\* odd: a field that is unknown or has the wrong type.
Result == [status : Statuses \cup {"other"}, events : Seq(Ids \cup {Bad}), odd : BOOLEAN]

ASSUME ScriptLines ==
    /\ Results \subseteq Result /\ Log \notin Results /\ Bad \notin Ids
    /\ Cut \in [Lines -> SUBSET Lines]
ASSUME ScriptBounds == MaxEvents \in Nat /\ MaxLines \in Nat

NoExit == 2
NoResult == [exit |-> NoExit, finish |-> "natural"]

VARIABLES
    script,  \* the process: "none", "running", "exited", "timeout" or "lost"
    exit,    \* its exit code, of 0 and 1, or NoExit
    behind,  \* whether a child of it runs on
    printed, \* what it has printed
    read,    \* how many lines of that the service has handed over
    output,  \* what of them the runner got
    omitted, \* whether the service left something out
    result,  \* its last answer
    pc, for, \* where the run is, and what it is for
    raised,  \* whether it is unwinding an exception
    outcome, \* how it ended, or NoOutcome
    saved    \* whether the script became the source's new version

process == <<script, exit, behind, printed>>
answers == <<read, output, omitted, result>>
scriptVars == <<process, answers, pc, for, raised, outcome, saved>>

Outcome(status, events) == [status |-> status, events |-> events]
Failed(status) == Outcome(status, {})
NoOutcome == Failed("none")

ScriptInit ==
    /\ script = "none" /\ exit = NoExit /\ behind = FALSE /\ printed = <<>>
    /\ read = 0 /\ output = <<>> /\ omitted = FALSE /\ result = NoResult
    /\ pc = "idle" /\ for \in {"round", "test", "save"}
    /\ raised = FALSE /\ outcome = NoOutcome /\ saved = FALSE

-----------------------------------------------------------------------------
(* parse_output: the last line is the result.                               *)

\* The issues of envelope and events.
Breaches(r) ==
    \/ r.odd \/ r.status \notin Statuses
    \/ Len(r.events) > MaxEvents \/ Bad \in ToSet(r.events)
    \/ Cardinality(ToSet(r.events)) < Len(r.events)

\* "No news" and "could not look" are told apart.
Contradicts(r) ==
    \/ r.status = "ok" /\ r.events = <<>>
    \/ r.status = "empty" /\ r.events # <<>>

Parsed(lines) ==
    IF lines = <<>> \/ Last(lines) \notin Results THEN Failed("invalid")
    ELSE LET r == Last(lines)
         IN  CASE Breaches(r) \/ Contradicts(r) -> Failed("invalid")
               [] ~(Breaches(r) \/ Contradicts(r)) /\ r.status \in Successes ->
                      Outcome(r.status, ToSet(r.events))
               [] OTHER -> Failed(r.status)

\* _outcome: a result that is not whole is none; what the script says of itself
\* comes before its exit code.
OutcomeOf ==
    CASE result.finish = "timeout" -> Failed("timeout")
      [] result.finish # "timeout" /\ result.exit = NoExit -> Failed("error")
      [] result.finish # "timeout" /\ result.exit # NoExit ->
             LET parsed == Parsed(output)
             IN  CASE omitted -> Failed("invalid")
                   [] ~omitted /\ result.exit # 0 /\ parsed.status = "invalid" -> Failed("error")
                   [] OTHER -> parsed

-----------------------------------------------------------------------------
(* The script and the process service (external).                           *)

Running == script = "running"

Prints ==
    /\ Running /\ Len(printed) < MaxLines
    /\ \E line \in Lines : printed' = Append(printed, line)
    /\ UNCHANGED <<script, exit, behind>>

Exits ==
    /\ Running
    /\ script' = "exited"
    /\ exit' \in {0, 1}
    /\ behind' \in BOOLEAN
    /\ UNCHANGED printed

\* hard_timeout_s, or the service loses it.
Stops ==
    /\ Running
    /\ script' \in {"timeout", "lost"}
    /\ exit' \in {1, NoExit}
    /\ UNCHANGED <<behind, printed>>

RunnerStays == UNCHANGED <<answers, pc, for, raised, outcome, saved>>

-----------------------------------------------------------------------------
(* ScriptRunner.run                                                         *)

\* The round borrows the runner, which is there only while the process service is.
Begins ==
    /\ pc = "idle"
    /\ \/ /\ pc' = "wait" /\ script' = "running"
          /\ UNCHANGED outcome
       \/ /\ for = "round" /\ pc' = "ended" /\ outcome' = Failed("unavailable")
          /\ UNCHANGED script
    /\ UNCHANGED <<exit, behind, printed, answers, for, raised, saved>>

\* What a slice of output shows: all of it, or one line cut or left out.
Slices(lines) ==
    {<<lines, FALSE>>}
        \cup {<<RemoveAt(lines, i), TRUE>> : i \in DOMAIN lines}
        \cup UNION {{<<ReplaceAt(lines, i, l), TRUE>> : l \in Cut[lines[i]]} : i \in DOMAIN lines}

Answer == [exit |-> exit, finish |-> IF script \in {"timeout", "lost"} THEN script ELSE "natural"]

\* Mutant: a process without an exit code is waited for, however it finished.
GoesOnAnyhow(r) == r.exit = NoExit

GoesOn(r) == r.exit = NoExit /\ r.finish = "natural"

\* Mutant: only the last slice has to be whole.
CountsLast(cut) == cut

CountsOmitted(cut) == omitted \/ cut

\* exec_command, and write_stdin after it, answer after a while with what came
\* in the meantime.
Waits ==
    /\ pc = "wait"
    /\ \E slice \in Slices(SubSeq(printed, read + 1, Len(printed))) :
          /\ output' = output \o slice[1]
          /\ omitted' = CountsOmitted(slice[2])
    /\ read' = Len(printed)
    /\ result' = Answer
    /\ pc' = IF GoesOn(Answer) THEN "wait" ELSE "clean"
    /\ UNCHANGED <<process, for, raised, outcome, saved>>

\* A call raises, or the run is cancelled.
Interrupted ==
    /\ pc = "wait"
    /\ pc' = "clean" /\ raised' = TRUE
    /\ UNCHANGED <<process, answers, for, outcome, saved>>

Ends ==
    /\ pc' = "ended"
    /\ outcome' = IF raised THEN Failed("raised") ELSE OutcomeOf
    /\ UNCHANGED <<exit, printed, answers, for, raised, saved>>

\* terminate_owner ends the script and what it left behind.
Cleans ==
    /\ pc = "clean"
    /\ behind' = FALSE
    /\ script' = IF Running THEN "lost" ELSE script
    /\ Ends

\* It could not, which raises; or it is itself cancelled.
CleanFails ==
    /\ pc = "clean"
    /\ pc' = "ended" /\ outcome' = Failed("raised")
    /\ UNCHANGED <<process, answers, for, raised, saved>>

\* _save of the tool: only what came through the trial run as "ok" is saved.
Saves ==
    /\ pc = "ended" /\ for = "save" /\ ~saved
    /\ outcome.status = "ok"
    /\ saved' = TRUE
    /\ UNCHANGED <<process, answers, pc, for, raised, outcome>>

-----------------------------------------------------------------------------
Runner == Begins \/ Waits \/ Cleans \/ CleanFails \/ Saves
Script == (Prints \/ Exits \/ Stops) /\ RunnerStays

ScriptNext == Runner \/ Interrupted \/ Script

ScriptSpec == ScriptInit /\ [][ScriptNext]_scriptVars

\* The service answers in bounded time, and lets nothing run for ever.
ScriptFairness ==
    WF_scriptVars(Waits) /\ WF_scriptVars(Cleans) /\ WF_scriptVars((Exits \/ Stops) /\ RunnerStays)

-----------------------------------------------------------------------------
\* The script's own words.
Said(r, status) ==
    /\ r \in Results /\ r.status = status /\ ~r.odd
    /\ \A i \in DOMAIN r.events : r.events[i] # Bad
    /\ \A i, j \in DOMAIN r.events : i < j => r.events[i] # r.events[j]
    /\ Len(r.events) \in IF status = "ok" THEN 1..MaxEvents ELSE {0}

\* A run is a success, and a script is saved, only if the process ended in time
\* and the last of all it ever printed says so, event by event; whatever else
\* happened brings no events. "超时与截断都意味着结果不完整，不能当成一次有效抓取".
SuccessIsTheScripts ==
    IF outcome.status \in Successes
    THEN /\ script \in {"exited", "lost"} /\ ~raised /\ printed # <<>>
         /\ Said(Last(printed), outcome.status)
         /\ outcome.events = ToSet(Last(printed).events)
    ELSE outcome.events = {} /\ ~saved

\* When a run has returned, nothing of it runs on, neither the script nor a child
\* that it left. Else it has raised.
NothingRunsOn == pc = "ended" /\ outcome.status # "raised" => ~Running /\ ~behind

\* A run ends, whatever the script does, and so.
RunEnds == pc = "wait" ~> pc = "ended" /\ NothingRunsOn
===============================================================================
