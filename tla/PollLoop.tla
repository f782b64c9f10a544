------------------------------ MODULE PollLoop ------------------------------
(***************************************************************************)
(* What a content runtime promises of its rounds, with no task, timer service *)
(* or call in sight: a round is armed only while none is armed or polls, and   *)
(* begins or is given up, the latter only once the runtime is closing; it       *)
(* counts as closed only when nothing is armed or polls, and then nothing ever  *)
(* is again. FeedLifecycle implements this module; FeedDelivery takes it for     *)
(* granted when it has one round at a time.                                  *)
(***************************************************************************)
CONSTANT Rounds

VARIABLES
    phase,  \* "open", "closing" or "closed"
    armed,  \* the rounds that wait for their deadline
    polling \* the rounds that have begun and not ended

loopVars == <<phase, armed, polling>>

Still == armed = {} /\ polling = {}

LoopInit == phase = "open" /\ Still

Arm(r) ==
    /\ phase = "open" /\ Still
    /\ armed' = {r}
    /\ UNCHANGED <<phase, polling>>

Begin(r) ==
    /\ phase = "open" /\ armed = {r}
    /\ armed' = {} /\ polling' = {r}
    /\ UNCHANGED phase

GiveUp(r) ==
    /\ phase # "open" /\ armed = {r}
    /\ armed' = {}
    /\ UNCHANGED <<phase, polling>>

End(r) ==
    /\ polling = {r}
    /\ polling' = {}
    /\ UNCHANGED <<phase, armed>>

\* Where there is nothing to wait for, closing and being closed is one step.
Close ==
    /\ \/ phase = "open" /\ phase' = "closing"
       \/ phase # "closed" /\ Still /\ phase' = "closed"
    /\ UNCHANGED <<armed, polling>>

LoopNext == Close \/ \E r \in Rounds : Arm(r) \/ Begin(r) \/ GiveUp(r) \/ End(r)

LoopSpec == LoopInit /\ [][LoopNext]_loopVars
=============================================================================
