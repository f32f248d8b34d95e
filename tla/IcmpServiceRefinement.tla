----------------------- MODULE IcmpServiceRefinement -----------------------
(***************************************************************************)
(* The refinement mapping from the sockets and processes of IcmpService to *)
(* the promise of RemoteCommand.                                           *)
(***************************************************************************)
EXTENDS IcmpService

Promise == INSTANCE RemoteCommand WITH
    Callers   <- Clients,
    NoCaller  <- NoClient,
    permitted <- Permitted,
    asked     <- request,
    status    <- client,
    outcome   <- [c \in Clients |-> shown[c].of],
    ran       <- executed

\* Resends, crashes, restarts, dropped and failed replies and swallowed
\* errors of the real protocol add nothing a caller may not see: every
\* behaviour of the worker, the sockets and the clients is one the promise
\* allows.
KeepsPromise == Promise!Spec
=============================================================================
