------------------------------ MODULE CommandRun ------------------------------
(***************************************************************************)
(* What running commands amounts to for the worker's loop, and all that    *)
(* IcmpService knows of it: a command runs, its whole output is the reply  *)
(* or, if memory was short in that run, less of it, nothing is written     *)
(* that no reply was meant to contain, and the worker receives again after *)
(* the command has exited or, if the reply could not be sent, at once.     *)
(***************************************************************************)
EXTENDS Naturals

VARIABLES
    phase,     \* what the worker does: the states of IcmpService
    exited,    \* the command of this run has exited, or nobody waits for it
    wrote,     \* how much this run's command and its offspring have written
    starved,   \* an allocation has failed while output was collected
    answer,    \* how much of it the reply contains
    abandoned  \* commands nobody waited for

vars == <<phase, exited, wrote, starved, answer, abandoned>>

Init ==
    /\ phase = "receiving" /\ exited = TRUE
    /\ wrote = 0 /\ starved = FALSE /\ answer = 0 /\ abandoned = 0

Begin ==
    /\ phase = "receiving"
    /\ phase' = "running" /\ exited' = FALSE /\ wrote' = 0 /\ starved' = FALSE
    /\ UNCHANGED <<answer, abandoned>>

Write ==
    /\ phase = "running"
    /\ wrote' = wrote + 1
    /\ UNCHANGED <<phase, exited, starved, answer, abandoned>>

Starve ==
    /\ phase = "running" /\ wrote > 0
    /\ starved' = TRUE
    /\ UNCHANGED <<phase, exited, wrote, answer, abandoned>>

\* The command may exit before its output has been read, or stay behind.
Exit ==
    /\ phase \in {"running", "replying", "reaping"}
    /\ exited' = TRUE
    /\ UNCHANGED <<phase, wrote, starved, answer, abandoned>>

CommandEnds ==
    /\ phase = "running"
    /\ phase' = "replying"
    /\ answer' \in 0..wrote /\ (answer' < wrote <=> starved)
    /\ UNCHANGED <<exited, wrote, starved, abandoned>>

SendReply ==
    /\ phase = "replying"
    /\ phase' = "reaping"
    /\ UNCHANGED <<exited, wrote, starved, answer, abandoned>>

FailReply ==
    /\ phase = "replying"
    /\ phase' = "receiving" /\ answer' = 0 /\ exited' = TRUE
    /\ abandoned' = abandoned + 1
    /\ UNCHANGED <<wrote, starved>>

Reap ==
    /\ phase = "reaping" /\ exited
    /\ phase' = "receiving" /\ answer' = 0
    /\ UNCHANGED <<exited, wrote, starved, abandoned>>

\* A signal or an assertion ends the worker; it waits for nothing any more.
WorkerExit ==
    /\ phase # "down"
    /\ phase' = "down" /\ answer' = 0 /\ exited' = TRUE
    /\ UNCHANGED <<wrote, starved, abandoned>>

Next == \/ Begin \/ Write \/ Starve \/ Exit \/ CommandEnds
        \/ SendReply \/ FailReply \/ Reap \/ WorkerExit

Spec == Init /\ [][Next]_vars
=============================================================================
