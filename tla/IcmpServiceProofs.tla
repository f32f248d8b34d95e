------------------------- MODULE IcmpServiceProofs -------------------------
(***************************************************************************)
(* Proofs about IcmpService for every set of clients, every set of         *)
(* commands, every configuration and every bound.                          *)
(***************************************************************************)
EXTENDS IcmpServiceRefinement, TLAPS

\* The order of the two checks does not show: check_command() grants exactly
\* what the configuration, read as a whole, grants.
THEOREM CheckCommandCorrect ==
    ASSUME NEW p \in Policy, NEW cmd \in Commands, NEW requestor
    PROVE  CheckCommand(p, cmd, requestor) = "granted" <=> Grants(p, cmd, requestor)
<1>2. LimitingSetting(p) \in Setting(Entries)
  BY DEF Policy, LimitingSetting
<1>3. p.acl[cmd] \in Setting(Containers)
  BY DEF Policy
<1>4. CheckLimitedCommands(p, cmd) = "granted" <=>
        /\ p.local # Unknown
        /\ Allows(LimitingSetting(p),
                  \E e \in LimitingSetting(p).items : <<e, cmd>> \in PrefixOf)
  BY <1>2 DEF CheckLimitedCommands, Verdict, Allows, Setting
<1>5. CheckCommandAcl(p, cmd, requestor) = "granted" <=>
        Allows(p.acl[cmd], requestor \in p.acl[cmd].items)
  BY <1>3 DEF CheckCommandAcl, Verdict, Allows, Setting
<1> QED
  BY <1>4, <1>5 DEF CheckCommand, Grants

\* The worker's Check() and the set of permitted requests agree.
LEMMA CheckPermitted ==
    ASSUME policy \in Policies, NEW r \in Requests
    PROVE  Check(r) = "granted" <=> r \in Permitted
<1>1. policy \in Policy
  BY ServiceAssumption
<1>2. CASE r = Echo
  BY <1>2 DEF Check, Permitted
<1>3. CASE r # Echo
  <2>1. r \in Commands
    BY <1>3 DEF Requests
  <2> QED
    BY <1>1, <1>3, <2>1, CheckCommandCorrect DEF Check, Permitted
<1> QED
  BY <1>2, <1>3

-----------------------------------------------------------------------------
(* The inductive invariant. *)

\* A client has asked exactly when its request is on the socket.
AskedInv ==
    \A c \in Clients :
        /\ client[c] \in {"idle", "failed"} => request[c] = NoRequest
        /\ client[c] \in {"waiting", "printed", "killed"} => request[c] \in Requests

\* Only what was asked is transmitted, and a request whose command was
\* started can only be at the worker again because it was transmitted again.
TransmitInv ==
    \A c \in Clients :
        /\ c \in sent => request[c] \in Requests
        /\ copies[c] > 0 => c \in sent
        /\ c \in executed => c \in sent
        /\ copies[c] > 1 => c \in resent
        /\ c \in executed /\ copies[c] > 0 => c \in resent

\* While the worker works on a request, the socket is associated with it.
ServingInv ==
    worker \in {"running", "replying"} =>
        /\ serving \in Served
        /\ peer = serving
        /\ request[serving] \in Commands => serving \in executed

\* Every reply on its way is the one its receiver waits for.
ReplyInv ==
    \A c \in Clients :
        /\ \A m \in replies[c] :
              /\ m = [cc |-> CommandCode(request[c]), of |-> c]
              /\ request[c] \in Requests
              /\ request[c] \in Commands => c \in executed
        /\ client[c] = "printed" =>
              /\ shown[c] = [cc |-> CommandCode(request[c]), of |-> c]
              /\ request[c] \in Commands => c \in executed

\* ic_errno tells of a client that this worker denied; whoever was misled by
\* it failed, and so is another client.
ErrnoInv ==
    /\ worker = "down" => errno = "BASE"
    /\ errno = "COMMAND_DENIED" =>
         \E d \in denied : request[d] \in Requests /\ Check(request[d]) = "denied"
    /\ MaskNeedsOtherDenial

IInv ==
    /\ TypeOK
    /\ AskedInv
    /\ TransmitInv
    /\ ServingInv
    /\ ReplyInv
    /\ ErrnoInv
    /\ repeated \subseteq resent

-----------------------------------------------------------------------------
\* Every variable keeps its type in every step.
LEMMA TypeStep == TypeOK /\ ServingInv /\ [Next]_vars => TypeOK'
<1> SUFFICES ASSUME TypeOK, ServingInv, [Next]_vars PROVE TypeOK'
  OBVIOUS
<1> USE ServiceAssumption
<1>1. ASSUME NEW c \in Clients, ClientNext(c) PROVE TypeOK'
  <2>1. ASSUME NEW r \in Requests, Submit(c, r) PROVE TypeOK'
    BY <2>1 DEF TypeOK, Submit, ClientStates, networkVars, workerVars, historyVars
  <2>2. CASE NoTransport(c)
    BY <2>2 DEF TypeOK, NoTransport, ClientStates, networkVars, workerVars, historyVars
  <2>3. ASSUME NEW m \in replies[c], ReceiveReply(c, m) PROVE TypeOK'
    BY <2>3 DEF TypeOK, ReceiveReply, ClientStates, workerVars, historyVars
  <2>4. CASE KillClient(c)
    BY <2>4 DEF TypeOK, KillClient, ClientStates, workerVars, historyVars
  <2> QED
    BY <1>1, <2>1, <2>2, <2>3, <2>4 DEF ClientNext
<1>2. ASSUME NEW c \in Clients, NetworkNext(c) PROVE TypeOK'
  <2>1. CASE Transmit(c)
    BY <2>1 DEF TypeOK, Transmit, clientVars, workerVars, historyVars
  <2>2. CASE Discard(c)
    BY <2>2 DEF TypeOK, Discard, clientVars, workerVars, historyVars
  <2> QED
    BY <1>2, <2>1, <2>2 DEF NetworkNext
<1>3. ASSUME NEW c \in Clients, Serve(c) PROVE TypeOK'
  <2>1. CASE ServeEcho(c)
    BY <1>3, <2>1 DEF TypeOK, ServeEcho, Dequeue, WorkerStates, clientVars, historyVars
  <2>2. CASE ServeCommand(c)
    BY <1>3, <2>2 DEF TypeOK, ServeCommand, Dequeue, WorkerStates, clientVars
  <2>3. CASE RefuseCommand(c)
    BY <1>3, <2>3 DEF TypeOK, RefuseCommand, Dequeue, WorkerStates, ErrnoAfter, Errnos, clientVars
  <2> QED
    BY <1>3, <2>1, <2>2, <2>3 DEF Serve
<1>4. CASE CommandEnds
  BY <1>4 DEF TypeOK, CommandEnds, WorkerStates, clientVars, networkVars, historyVars
<1>5. CASE SendReply
  BY <1>5 DEF TypeOK, ServingInv, Served, SendReply, AfterReply, WorkerStates, Reply, CommandCode, clientVars, historyVars
<1>6. CASE DropReply \/ FailReply
  BY <1>6 DEF TypeOK, DropReply, FailReply, AfterReply, WorkerStates, clientVars, networkVars, historyVars
<1>7. CASE Reenter
  BY <1>7 DEF TypeOK, Reenter, WorkerStates, clientVars, networkVars, historyVars
<1>8. CASE WorkerExit
  BY <1>8 DEF TypeOK, ServingInv, Served, WorkerExit, WorkerStates, Errnos, clientVars, historyVars
<1>9. CASE WorkerStart
  BY <1>9 DEF TypeOK, WorkerStart, WorkerStates, clientVars, networkVars, historyVars
<1>10. CASE Reap
  BY <1>10 DEF TypeOK, Reap, WorkerStates, clientVars, networkVars, historyVars
<1>11. CASE UNCHANGED vars
  BY <1>11 DEF TypeOK, vars, clientVars, networkVars, workerVars, historyVars
<1> QED
  BY <1>1, <1>2, <1>3, <1>4, <1>5, <1>6, <1>7, <1>8, <1>9, <1>10, <1>11
     DEF Next, WorkerNext, ProcessNext

\* A request, once made, is never changed.  Only a new worker reads the
\* configuration, so the verdicts and the place of a request in Served stay
\* as long as a worker lives.
LEMMA Stable ==
    ASSUME TypeOK, AskedInv, [Next]_vars
    PROVE  /\ \A c \in Clients : request[c] \in Requests => request'[c] = request[c]
           /\ ~WorkerStart => /\ policy' = policy
                             /\ \A r : Check(r)' = Check(r)
                             /\ Permitted' = Permitted
                             /\ Served \subseteq Served'
<1> USE ServiceAssumption
<1>1. ~WorkerStart => policy' = policy
  BY DEF Next, ClientNext, NetworkNext, WorkerNext, ProcessNext, Serve, Submit,
         NoTransport, ReceiveReply, KillClient, Transmit, Discard, ServeEcho,
         ServeCommand, RefuseCommand, CommandEnds, SendReply, DropReply, FailReply,
         AfterReply, Reap, Reenter, WorkerExit, vars
<1>2. ASSUME NEW c \in Clients, request[c] \in Requests PROVE request'[c] = request[c]
  <2>1. NoRequest \notin Requests
    BY DEF Requests
  <2>2. client[c] # "idle"
    BY <1>2, <2>1 DEF AskedInv
  <2>3. ASSUME NEW d \in Clients, NEW r \in Requests, Submit(d, r)
        PROVE  request'[c] = request[c]
    BY <2>2, <2>3 DEF Submit, TypeOK
  <2>4. CASE request' = request
    BY <2>4
  <2> QED
    BY <2>3, <2>4
       DEF Next, ClientNext, NetworkNext, WorkerNext, ProcessNext, Serve,
           NoTransport, ReceiveReply, KillClient, Transmit, Discard, ServeEcho,
           ServeCommand, RefuseCommand, CommandEnds, SendReply, DropReply, FailReply,
           AfterReply, Reap, Reenter, WorkerExit, WorkerStart, vars, clientVars
<1>3. ~WorkerStart => (\A r : Check(r)' = Check(r)) /\ Permitted' = Permitted
  BY <1>1 DEF Check, Permitted
<1>4. Permitted \subseteq Requests
  BY DEF Permitted
<1>5. ~WorkerStart => Served \subseteq Served'
  BY <1>2, <1>3, <1>4 DEF Served
<1> QED
  BY <1>1, <1>2, <1>3, <1>5

\* AskedInv is kept; a reply is never rejected for its command code.
LEMMA AskedStep ==
    ASSUME TypeOK, AskedInv, ReplyInv, [Next]_vars PROVE AskedInv'
<1> USE ServiceAssumption DEF AskedInv
<1>1. ASSUME NEW c \in Clients, ClientNext(c) PROVE AskedInv'
  <2>1. ASSUME NEW r \in Requests, Submit(c, r) PROVE AskedInv'
    BY <2>1 DEF Submit, TypeOK
  <2>2. CASE NoTransport(c)
    BY <2>2 DEF NoTransport, TypeOK
  <2>3. ASSUME NEW m \in replies[c], ReceiveReply(c, m) PROVE AskedInv'
    <3>1. m = [cc |-> CommandCode(request[c]), of |-> c]
      BY <1>1, <2>3 DEF ReplyInv
    <3>2. m.cc = CommandCode(request[c])
      BY <3>1
    <3> QED
      BY <2>3, <3>2 DEF ReceiveReply, TypeOK
  <2>4. CASE KillClient(c)
    BY <2>4 DEF KillClient, TypeOK
  <2> QED
    BY <1>1, <2>1, <2>2, <2>3, <2>4 DEF ClientNext
<1> QED
  BY <1>1
     DEF Next, NetworkNext, WorkerNext, ProcessNext, Serve, Transmit, Discard,
         ServeEcho, ServeCommand, RefuseCommand, CommandEnds, SendReply, DropReply,
         FailReply, AfterReply, Reap, Reenter, WorkerExit, WorkerStart, vars, clientVars

\* The link between executions and transmissions is kept.
LEMMA TransmitStep ==
    ASSUME TypeOK, AskedInv, TransmitInv, repeated \subseteq resent, [Next]_vars
    PROVE  TransmitInv' /\ (repeated \subseteq resent)'
<1> USE ServiceAssumption DEF TransmitInv
<1>1. \A c \in Clients : request[c] \in Requests => request'[c] = request[c]
  BY Stable
<1>2. ASSUME NEW c \in Clients, ClientNext(c)
      PROVE  TransmitInv' /\ (repeated \subseteq resent)'
  BY <1>1, <1>2
     DEF ClientNext, Submit, NoTransport, ReceiveReply, KillClient,
         networkVars, historyVars
<1>3. ASSUME NEW c \in Clients, Transmit(c)
      PROVE  TransmitInv' /\ (repeated \subseteq resent)'
  <2>1. request[c] \in Requests
    BY <1>3 DEF Transmit, AskedInv
  <2> QED
    BY <1>1, <1>3, <2>1 DEF Transmit, TypeOK, historyVars
<1>4. ASSUME NEW c \in Clients, Discard(c)
      PROVE  TransmitInv' /\ (repeated \subseteq resent)'
  BY <1>1, <1>4 DEF Discard, TypeOK, historyVars
<1>5. ASSUME NEW c \in Clients, Serve(c)
      PROVE  TransmitInv' /\ (repeated \subseteq resent)'
  <2>1. CASE ServeEcho(c)
    BY <1>1, <1>5, <2>1 DEF ServeEcho, Dequeue, TypeOK, historyVars
  <2>2. CASE ServeCommand(c)
    BY <1>1, <1>5, <2>2 DEF ServeCommand, Dequeue, TypeOK
  <2>3. CASE RefuseCommand(c)
    BY <1>1, <1>5, <2>3 DEF RefuseCommand, Dequeue, TypeOK
  <2> QED
    BY <1>5, <2>1, <2>2, <2>3 DEF Serve
<1>6. CASE WorkerExit
  BY <1>1, <1>6 DEF WorkerExit, historyVars
<1>7. CASE \/ CommandEnds \/ SendReply \/ DropReply \/ FailReply \/ Reap \/ Reenter
           \/ WorkerStart
           \/ UNCHANGED vars
  BY <1>1, <1>7
     DEF CommandEnds, SendReply, DropReply, FailReply, AfterReply, Reap, Reenter,
         WorkerStart, vars, networkVars, historyVars
<1> QED
  BY <1>2, <1>3, <1>4, <1>5, <1>6, <1>7
     DEF Next, NetworkNext, WorkerNext, ProcessNext

\* The worker starts work only on a request it may serve, and stays
\* associated with it until it is done.
LEMMA ServingStep ==
    ASSUME TypeOK, AskedInv, ServingInv, [Next]_vars
    PROVE  ServingInv'
<1> USE ServiceAssumption
<1>1. /\ \A c \in Clients : request[c] \in Requests => request'[c] = request[c]
      /\ ~WorkerStart => Served \subseteq Served' /\ Permitted' = Permitted
  BY Stable
<1>2. \A c \in Served : c \in Clients /\ request[c] \in Permitted /\ request[c] \in Requests
  BY DEF Served, Permitted
<1>3. \A c \in Clients : request[c] \in Permitted => c \in Served
  BY DEF Served
<1>4. Commands \subseteq Requests /\ Echo \in Requests /\ Echo \in Permitted
  BY DEF Requests, Permitted
<1>5. CASE WorkerStart
  BY <1>5 DEF WorkerStart, ServingInv
<1>6. ASSUME ~WorkerStart, NEW c \in Clients, Serve(c) PROVE ServingInv'
  <2>1. CASE ServeEcho(c)
    BY <1>1, <1>3, <1>4, <1>6, <2>1
       DEF ServingInv, ServeEcho, Dequeue, clientVars, historyVars
  <2>2. CASE ServeCommand(c)
    <3>1. c \in Served
      BY <1>3, <1>4, <1>6, <2>2, CheckPermitted DEF ServeCommand, TypeOK
    <3> QED
      BY <1>1, <1>6, <2>2, <3>1 DEF ServingInv, ServeCommand, Dequeue, clientVars
  <2>3. CASE RefuseCommand(c)
    BY <1>1, <2>3 DEF ServingInv, RefuseCommand
  <2> QED
    BY <1>6, <2>1, <2>2, <2>3 DEF Serve
<1>7. CASE ~WorkerStart /\ CommandEnds
  BY <1>1, <1>7 DEF ServingInv, CommandEnds, clientVars, historyVars
<1>8. CASE SendReply \/ DropReply \/ FailReply \/ Reap \/ Reenter \/ WorkerExit
  BY <1>8 DEF ServingInv, SendReply, DropReply, FailReply, AfterReply, Reap, Reenter, WorkerExit
<1>9. ASSUME ~WorkerStart, NEW c \in Clients, ClientNext(c) PROVE ServingInv'
  BY <1>1, <1>2, <1>9 DEF ServingInv, ClientNext, Submit, NoTransport, ReceiveReply, KillClient,
                    workerVars, historyVars
<1>10. CASE ~WorkerStart /\ (UNCHANGED vars \/ \E c \in Clients : NetworkNext(c))
  BY <1>1, <1>2, <1>10 DEF ServingInv, NetworkNext, Transmit, Discard, vars,
                    clientVars, workerVars, historyVars
<1> QED
  BY <1>5, <1>6, <1>7, <1>8, <1>9, <1>10 DEF Next, WorkerNext, ProcessNext

\* A reply in flight, and a reply printed, is the receiver's own.
LEMMA ReplyStep ==
    ASSUME TypeOK, AskedInv, ServingInv, ReplyInv, [Next]_vars
    PROVE  ReplyInv'
<1> USE ServiceAssumption
<1>1. \A c \in Clients : request[c] \in Requests => request'[c] = request[c]
  BY Stable
<1>2. /\ \A c \in Served : c \in Clients /\ request[c] \in Requests
      /\ NoRequest \notin Requests
  BY DEF Served, Permitted, Requests
<1> DEFINE Own(c) ==
      /\ \A m \in replies[c] :
            /\ m = [cc |-> CommandCode(request[c]), of |-> c]
            /\ request[c] \in Requests
            /\ request[c] \in Commands => c \in executed
      /\ client[c] = "printed" =>
            /\ shown[c] = [cc |-> CommandCode(request[c]), of |-> c]
            /\ request[c] \in Commands => c \in executed
<1>3. \A c \in Clients : Own(c)
  BY DEF ReplyInv
<1>4. \A r : CommandCode(r)' = CommandCode(r)
  BY DEF CommandCode
\* Nothing new in flight and nothing new printed.
<1>5. ASSUME NEW c \in Clients, replies'[c] \subseteq replies[c],
             client'[c] = "printed" => client[c] = "printed" /\ shown'[c] = shown[c],
             executed \subseteq executed'
      PROVE  Own(c)'
  <2>1. CASE request[c] \in Requests
    <3>1. request'[c] = request[c]
      BY <1>1, <2>1
    <3> QED
      BY <1>1, <1>3, <1>5, <3>1 DEF CommandCode
  <2>2. CASE request[c] \notin Requests
    <3>1. client[c] # "printed"
      BY <2>2 DEF AskedInv
    <3>2. replies'[c] = {}
      BY <1>3, <1>5, <2>2
    <3> QED
      BY <1>5, <3>1, <3>2
  <2> QED
    BY <2>1, <2>2
<1>6. ASSUME NEW c \in Clients, NEW d \in Clients, ClientNext(d) PROVE Own(c)'
  <2>1. ASSUME NEW m \in replies[c], ReceiveReply(c, m) PROVE Own(c)'
    <3>1. /\ m = [cc |-> CommandCode(request[c]), of |-> c]
          /\ request[c] \in Commands => c \in executed
      BY <1>3, <2>1
    <3>2. m.cc = CommandCode(request[c])
      BY <3>1
    <3>3. /\ replies'[c] = {} /\ shown'[c] = m
          /\ request' = request /\ executed' = executed
      BY <2>1, <3>2 DEF ReceiveReply, TypeOK, historyVars
    <3> QED
      BY <3>1, <3>3 DEF CommandCode
  <2>2. ASSUME c # d \/ Submit(d, request'[d]) \/ NoTransport(d) \/ KillClient(d)
        PROVE  Own(c)'
    <3>1. /\ replies'[c] \subseteq replies[c]
          /\ client'[c] = "printed" => client[c] = "printed" /\ shown'[c] = shown[c]
          /\ executed \subseteq executed'
      BY <1>6, <2>2
         DEF ClientNext, Submit, NoTransport, ReceiveReply, KillClient, TypeOK,
             networkVars, historyVars
    <3> QED
      BY <1>5, <3>1
  <2>3. ASSUME NEW r \in Requests, Submit(d, r) PROVE Submit(d, request'[d])
    BY <2>3 DEF Submit, TypeOK
  <2> QED
    BY <1>6, <2>1, <2>2, <2>3 DEF ClientNext
<1>7. ASSUME NEW c \in Clients, SendReply PROVE Own(c)'
  <2>1. CASE c = peer /\ client[c] = "waiting"
    <3>1. /\ c = serving /\ request[c] \in Requests
          /\ request[c] \in Commands => c \in executed
      BY <1>2, <1>7, <2>1 DEF SendReply, ServingInv
    <3>2. /\ replies'[c] = replies[c] \union {[cc |-> CommandCode(request[c]), of |-> c]}
          /\ request' = request /\ executed' = executed /\ client' = client
      BY <1>7, <2>1, <3>1 DEF SendReply, TypeOK, clientVars, historyVars
    <3> QED
      BY <1>1, <1>3, <2>1, <3>1, <3>2 DEF CommandCode
  <2>2. CASE ~(c = peer /\ client[c] = "waiting")
    <3>1. /\ replies'[c] = replies[c]
          /\ client' = client /\ shown' = shown /\ executed' = executed
      BY <1>7, <2>2 DEF SendReply, TypeOK, clientVars, historyVars
    <3> QED
      BY <1>5, <3>1
  <2> QED
    BY <2>1, <2>2
<1>8. ASSUME NEW c \in Clients,
             \/ \E d \in Clients : NetworkNext(d) \/ Serve(d)
             \/ CommandEnds \/ DropReply \/ FailReply \/ Reap \/ Reenter
             \/ WorkerExit \/ WorkerStart \/ UNCHANGED vars
      PROVE  Own(c)'
  <2>1. /\ replies' = replies /\ client' = client /\ shown' = shown
        /\ executed \subseteq executed'
    BY <1>8
       DEF NetworkNext, Transmit, Discard, Serve, ServeEcho, ServeCommand,
           RefuseCommand, CommandEnds, DropReply, FailReply, AfterReply, Reap, Reenter, WorkerExit,
           WorkerStart, vars, clientVars, networkVars, historyVars
  <2> QED
    BY <1>5, <2>1
<1>9. \A c \in Clients : Own(c)'
  BY <1>6, <1>7, <1>8 DEF Next, WorkerNext, ProcessNext
<1> QED
  BY <1>9 DEF ReplyInv

\* A worker's ic_errno goes back to a denial of its own, and every client it
\* misled to the denial of another one.
LEMMA ErrnoStep ==
    ASSUME TypeOK, AskedInv, ErrnoInv, [Next]_vars
    PROVE  ErrnoInv'
<1> USE ServiceAssumption DEF ErrnoInv, MaskNeedsOtherDenial
<1>1. /\ \A c \in Clients : request[c] \in Requests => request'[c] = request[c]
      /\ ~WorkerStart => \A r : Check(r)' = Check(r)
  BY Stable
<1>2. ASSUME denied' = denied, masked' = masked, ~WorkerStart,
             \/ errno' = errno /\ (worker' = "down" => worker = "down")
             \/ errno' = "BASE"
      PROVE  ErrnoInv'
  BY <1>1, <1>2 DEF TypeOK, Check
<1>3. CASE WorkerStart
  BY <1>3 DEF WorkerStart, historyVars
<1>4. ASSUME ~WorkerStart, NEW c \in Clients, RefuseCommand(c) PROVE ErrnoInv'
  <2>1. request' = request /\ request[c] \in Requests /\ worker' # "down"
    BY <1>4 DEF RefuseCommand, clientVars, Requests
  <2>2. Check(request[c]) = "denied" =>
          denied' = denied \union {c} /\ masked' = masked
    BY <1>4 DEF RefuseCommand
  <2>3. Check(request[c]) # "denied" =>
          /\ denied' = denied /\ errno' = errno
          /\ masked' = masked \/ (/\ masked' = masked \union {c}
                                  /\ errno = "COMMAND_DENIED"
                                  /\ Check(request[c]) = "failed")
    BY <1>4 DEF RefuseCommand, ErrnoAfter
  <2> QED
    BY <1>1, <1>4, <2>1, <2>2, <2>3 DEF TypeOK, Check
<1>5. CASE /\ ~WorkerStart
           /\ \/ \E c \in Clients : \/ ClientNext(c) \/ NetworkNext(c)
                                     \/ ServeEcho(c) \/ ServeCommand(c)
              \/ CommandEnds \/ SendReply \/ DropReply \/ FailReply \/ Reap \/ Reenter
              \/ WorkerExit \/ UNCHANGED vars
  <2>1. /\ denied' = denied /\ masked' = masked
        /\ \/ errno' = errno /\ (worker' = "down" => worker = "down")
           \/ errno' = "BASE"
    BY <1>5
       DEF ClientNext, Submit, NoTransport, ReceiveReply, KillClient,
           NetworkNext, Transmit, Discard, ServeEcho, ServeCommand,
           CommandEnds, SendReply, DropReply, FailReply, AfterReply, Reap, Reenter,
           WorkerExit, vars, workerVars, historyVars
  <2> QED
    BY <1>2, <1>5, <2>1
<1> QED
  BY <1>3, <1>4, <1>5 DEF Next, WorkerNext, ProcessNext, Serve

-----------------------------------------------------------------------------
LEMMA InitInv == Init => IInv
<1> SUFFICES ASSUME Init PROVE IInv
  OBVIOUS
<1> USE ServiceAssumption
<1>1. TypeOK
  BY DEF Init, TypeOK, ClientStates, WorkerStates, Errnos
<1> QED
  BY <1>1 DEF Init, IInv, AskedInv, TransmitInv, ServingInv, ReplyInv, ErrnoInv,
             MaskNeedsOtherDenial

LEMMA StepInv == IInv /\ [Next]_vars => IInv'
  BY TypeStep, AskedStep, TransmitStep, ServingStep, ReplyStep, ErrnoStep DEF IInv

\* The inductive invariant holds in every reachable state.
THEOREM Invariance == Spec => []IInv
<1>1. Init => IInv
  BY InitInv
<1>2. IInv /\ [Next]_vars => IInv'
  BY StepInv
<1> QED
  BY <1>1, <1>2, PTL DEF Spec

\* Every variable stays within its type.
THEOREM TypeCorrect == Spec => []TypeOK
<1>1. IInv => TypeOK
  BY DEF IInv
<1> QED
  BY Invariance, <1>1, PTL

\* A client prints only the outcome of its own request, whatever is resent,
\* dropped or restarted, and rejects no reply.
THEOREM OwnResultCorrect == Spec => []OwnResult
<1>1. IInv => OwnResult
  BY DEF IInv, AskedInv, ReplyInv, OwnResult
<1> QED
  BY Invariance, <1>1, PTL

\* A command runs only under a configuration that grants it, whatever the
\* configurations before and after, and output is printed only after it.
THEOREM RunsOnlyGrantedCorrect == Spec => []RunsOnlyGranted
<1>1. IInv => RunsOnlyGranted
  BY DEF IInv, ServingInv, ReplyInv, RunsOnlyGranted
<1> QED
  BY Invariance, <1>1, PTL

\* A command is started again only if its request was transmitted again.
THEOREM RepeatNeedsResendCorrect == Spec => []RepeatNeedsResend
<1>1. IInv => RepeatNeedsResend
  BY DEF IInv, RepeatNeedsResend
<1> QED
  BY Invariance, <1>1, PTL

\* A failed check is taken for a denial only after another client's denial.
THEOREM MaskNeedsOtherDenialCorrect == Spec => []MaskNeedsOtherDenial
<1>1. IInv => MaskNeedsOtherDenial
  BY DEF IInv, ErrnoInv
<1> QED
  BY Invariance, <1>1, PTL

-----------------------------------------------------------------------------
(* Refinement. *)

LEMMA PromiseInit == Init => Promise!Init
<1> SUFFICES ASSUME Init PROVE Promise!Init
  OBVIOUS
<1>1. Permitted \in SUBSET Promise!Requests /\ Echo \in Permitted
  BY DEF Permitted, Requests, Promise!Requests
<1>2. [c \in Clients |-> shown[c].of] = [c \in Clients |-> NoClient]
  BY DEF Init, NoReply
<1> QED
  BY <1>1, <1>2 DEF Init, Promise!Init

\* Every step of the sockets and the processes is a step of the promise, or
\* changes nothing a caller can see.
LEMMA PromiseStep ==
    ASSUME IInv, [Next]_vars
    PROVE  [Promise!Next]_(Promise!vars)
<1> USE ServiceAssumption
<1>1. /\ ~WorkerStart => Permitted' = Permitted
      /\ Requests = Promise!Requests
  BY Stable DEF IInv, Requests, Promise!Requests
<1> DEFINE outcome == [c \in Clients |-> shown[c].of]
<1>2. ASSUME ~WorkerStart, request' = request, client' = client, shown' = shown, executed' = executed
      PROVE  [Promise!Next]_(Promise!vars)
  <2>1. outcome' = outcome
    BY <1>2
  <2> QED
    BY <1>1, <1>2, <2>1 DEF Promise!vars
<1>3. ASSUME ~WorkerStart, NEW c \in Clients, ClientNext(c) PROVE [Promise!Next]_(Promise!vars)
  <2>1. ASSUME NEW r \in Requests, Submit(c, r) PROVE Promise!Ask(c)
    <3>1. outcome' = outcome
      BY <2>1 DEF Submit
    <3> QED
      BY <1>1, <1>3, <2>1, <3>1 DEF Submit, historyVars, Promise!Ask
  <2>2. CASE NoTransport(c)
    <3>1. outcome' = outcome
      BY <2>2 DEF NoTransport
    <3>2. Promise!Unavailable(c)
      BY <1>1, <1>3, <2>2, <3>1 DEF NoTransport, historyVars, Promise!Unavailable
    <3> QED
      BY <3>2 DEF Promise!Next
  <2>3. ASSUME NEW m \in replies[c], ReceiveReply(c, m) PROVE Promise!Answer(c)
    <3>1. /\ m = [cc |-> CommandCode(request[c]), of |-> c]
          /\ request[c] \in Requests
          /\ request[c] \in Commands => c \in executed
      BY <2>3 DEF IInv, ReplyInv
    <3>2. m.cc = CommandCode(request[c]) /\ m.of = c
      BY <3>1
    <3>3. /\ client[c] = "waiting"
          /\ client' = [client EXCEPT ![c] = "printed"]
          /\ shown' = [shown EXCEPT ![c] = m]
          /\ request' = request /\ executed' = executed
      BY <2>3, <3>2 DEF ReceiveReply, historyVars
    <3>4. outcome' = [outcome EXCEPT ![c] = c]
      BY <3>2, <3>3 DEF IInv, TypeOK
    <3>5. request[c] = Echo \/ c \in executed
      BY <3>1 DEF Requests
    <3> QED
      BY <1>1, <1>3, <3>3, <3>4, <3>5 DEF Promise!Answer
  <2>4. CASE KillClient(c)
    <3>1. outcome' = outcome
      BY <2>4 DEF KillClient
    <3>2. Promise!GiveUp(c)
      BY <1>1, <1>3, <2>4, <3>1 DEF KillClient, historyVars, Promise!GiveUp
    <3> QED
      BY <3>2 DEF Promise!Next
  <2> QED
    BY <1>3, <2>1, <2>2, <2>3, <2>4 DEF ClientNext, Promise!Next
<1>4. ASSUME ~WorkerStart, NEW c \in Clients, ServeCommand(c) PROVE [Promise!Next]_(Promise!vars)
  <2>1. request[c] \in Permitted \ {Echo}
    BY <1>4, CheckPermitted DEF ServeCommand, Requests, IInv, TypeOK
  <2>2. outcome' = outcome
    BY <1>4 DEF ServeCommand, clientVars
  <2>3. Promise!Run(c)
    BY <1>1, <1>4, <2>1, <2>2 DEF ServeCommand, clientVars, Promise!Run
  <2> QED
    BY <2>3 DEF Promise!Next
<1>5. CASE /\ ~WorkerStart
           /\ \/ \E c \in Clients : NetworkNext(c) \/ ServeEcho(c) \/ RefuseCommand(c)
              \/ CommandEnds \/ SendReply \/ DropReply \/ FailReply \/ Reap \/ Reenter
              \/ WorkerExit \/ UNCHANGED vars
  BY <1>2, <1>5
     DEF NetworkNext, Transmit, Discard, ServeEcho, RefuseCommand, CommandEnds,
         SendReply, DropReply, FailReply, AfterReply, Reap, Reenter, WorkerExit,
         vars, clientVars, historyVars
<1>6. CASE WorkerStart
  <2>1. /\ request' = request /\ client' = client /\ executed' = executed
        /\ outcome' = outcome
    BY <1>6 DEF WorkerStart, clientVars, historyVars
  <2>2. Permitted' \in SUBSET Requests /\ Echo \in Permitted'
    BY DEF Permitted, Requests
  <2>3. Promise!Reconfigure
    BY <1>1, <2>1, <2>2 DEF Promise!Reconfigure
  <2> QED
    BY <2>3 DEF Promise!Next
<1> QED
  BY <1>3, <1>4, <1>5, <1>6 DEF Next, WorkerNext, ProcessNext, Serve

\* The protocol implements its promise: sockets, resends, crashes, restarts
\* and swallowed errors add nothing a caller may not see.
THEOREM KeepsPromiseCorrect == Spec => KeepsPromise
<1>1. Init => Promise!Init
  BY PromiseInit
<1>2. IInv /\ [Next]_vars => [Promise!Next]_(Promise!vars)
  BY PromiseStep
<1> QED
  BY Invariance, <1>1, <1>2, PTL DEF Spec, KeepsPromise, Promise!Spec
=============================================================================
