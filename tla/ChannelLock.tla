----------------------------- MODULE ChannelLock -----------------------------
(***************************************************************************)
(* What the icmpd workers of all starts promise about the channels: a      *)
(* channel is held by one worker at a time, is never handed over while it  *)
(* is held, and a worker that has lost its channel never holds one again.  *)
(* A caller of icmpc may therefore take whoever serves its channel for one *)
(* worker that is up or down, as IcmpService does.                         *)
(***************************************************************************)
CONSTANTS Workers, Channels

VARIABLES
    holders,   \* the workers that serve each channel
    retired    \* workers that will not serve any more

vars == <<holders, retired>>

Init ==
    /\ holders = [n \in Channels |-> {}]
    /\ retired = {}

Acquire(n, w) ==
    /\ holders[n] = {}
    /\ w \notin retired
    /\ \A m \in Channels : w \notin holders[m]
    /\ holders' = [holders EXCEPT ![n] = {w}]
    /\ UNCHANGED retired

Release(n, w) ==
    /\ w \in holders[n]
    /\ holders' = [holders EXCEPT ![n] = {}]
    /\ retired' = retired \union {w}

\* A worker may also end before it has come to serve.
Retire(w) ==
    /\ \A n \in Channels : w \notin holders[n]
    /\ retired' = retired \union {w}
    /\ UNCHANGED holders

Next == \E w \in Workers : Retire(w) \/ \E n \in Channels : Acquire(n, w) \/ Release(n, w)

Spec == Init /\ [][Next]_vars
=============================================================================
