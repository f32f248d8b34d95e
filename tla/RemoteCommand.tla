--------------------------- MODULE RemoteCommand ---------------------------
(***************************************************************************)
(* What the protocol promises the people who call icmpc, and no more:      *)
(* a permitted command runs at least once before its caller sees output,   *)
(* possibly again at any time after it was asked for; the caller sees the  *)
(* outcome of its own request; a request does not run while it is not      *)
(* permitted, and a caller whose request never ran waits until it gives    *)
(* up.  Which requests are permitted changes when icmpd is restarted.      *)
(***************************************************************************)
CONSTANTS
    Callers,
    Commands,     \* requests that run something
    Echo,         \* the request that runs nothing
    NoRequest,
    NoCaller

VARIABLES
    permitted,    \* the requests the configuration lets through
    asked,        \* what each caller asked for
    status,       \* how far each caller is
    outcome,      \* whose outcome each caller was shown
    ran           \* callers whose command has run

vars == <<permitted, asked, status, outcome, ran>>

Requests == Commands \union {Echo}

Init ==
    /\ permitted \in SUBSET Requests
    /\ Echo \in permitted
    /\ asked = [c \in Callers |-> NoRequest]
    /\ status = [c \in Callers |-> "idle"]
    /\ outcome = [c \in Callers |-> NoCaller]
    /\ ran = {}

Reconfigure ==
    /\ permitted' \in SUBSET Requests
    /\ Echo \in permitted'
    /\ UNCHANGED <<asked, status, outcome, ran>>

Ask(c) ==
    /\ status[c] = "idle"
    /\ \E r \in Requests : asked' = [asked EXCEPT ![c] = r]
    /\ status' = [status EXCEPT ![c] = "waiting"]
    /\ UNCHANGED <<permitted, outcome, ran>>

Unavailable(c) ==
    /\ status[c] = "idle"
    /\ status' = [status EXCEPT ![c] = "failed"]
    /\ UNCHANGED <<permitted, asked, outcome, ran>>

Run(c) ==
    /\ asked[c] \in permitted \ {Echo}
    /\ ran' = ran \union {c}
    /\ UNCHANGED <<permitted, asked, status, outcome>>

Answer(c) ==
    /\ status[c] = "waiting"
    /\ asked[c] = Echo \/ c \in ran
    /\ status' = [status EXCEPT ![c] = "printed"]
    /\ outcome' = [outcome EXCEPT ![c] = c]
    /\ UNCHANGED <<permitted, asked, ran>>

GiveUp(c) ==
    /\ status[c] = "waiting"
    /\ status' = [status EXCEPT ![c] = "killed"]
    /\ UNCHANGED <<permitted, asked, outcome, ran>>

Next ==
    \/ Reconfigure
    \/ \E c \in Callers :
          Ask(c) \/ Unavailable(c) \/ Run(c) \/ Answer(c) \/ GiveUp(c)

Spec == Init /\ [][Next]_vars
=============================================================================
