---------------------------- MODULE DaemonProofs ----------------------------
(***************************************************************************)
(* Proofs about Daemon and the transports of its processes for every       *)
(* number of starts, every configuration and any number of clients.        *)
(***************************************************************************)
EXTENDS Daemon, SequenceTheorems, TLAPS

Processes == Workers \union Clients
Names     == Listed \union Requestors \union {Local}
Steps     == {"none", "check", "make", "endpoint", "open", "failed", "gone"}
ProcType  == [at : Steps, name : Names, master : BOOLEAN, path : 0..2, depth : 0..2]

\* The parent's memory is that of one start: nothing is remembered before it
\* knows its list, and the record never overtakes the list.
ParentInv ==
    /\ parent \in {"off", "naming", "forking", "paused"}
    /\ start \in 0..MaxStarts
    /\ parent # "off" => start \in 1..MaxStarts /\ conf \in Configs
    /\ conf \in Configs \union {NoConf}
    /\ host \in HostNames
    /\ Len(list) \in 0..MaxMonitored
    /\ \A i \in 1..Len(list) : list[i] \in Listed
    /\ pids \in Seq(Workers \union {NoWorker})
    /\ Len(pids) <= Len(list)
    /\ parent \in {"off", "naming"} => pids = <<>>

\* What a process has made or found by the time it is where it is.
PathInv(p) ==
    /\ proc[p].at \in {"check", "make"} => proc[p].path \in 1..2
    /\ proc[p].at = "make" => proc[p].depth \in 1..2
    /\ proc[p].at \in {"check", "make"} /\ proc[p].path = 2 =>
          Transport!Path(proc[p].name, 1) \in dirs
    /\ proc[p].at = "make" /\ proc[p].depth = 2 => <<"container">> \in dirs
    /\ proc[p].at \in {"endpoint", "open"} =>
          \A i \in 1..2 : Transport!Path(proc[p].name, i) \in dirs

\* Workers are masters of listed channels, clients are slaves.
SideInv(p) ==
    Transport!Alive(p) =>
        /\ p \in Workers => proc[p].master /\ proc[p].name \in Listed
        /\ p \in Clients => ~proc[p].master

\* The socket bound to a channel is that of the one worker that is open on it.
BoundInv ==
    \A n \in Listed, w \in Workers :
        bound[n] = w <=> Transport!Open(w) /\ proc[w].name = n

TransportInv ==
    /\ proc \in [Processes -> ProcType]
    /\ bound \in [Listed -> Workers \union {NoWorker}]
    /\ \A p \in Processes : PathInv(p) /\ SideInv(p)
    /\ BoundInv

IInv == ParentInv /\ TransportInv /\ RecordMatchesList

Living == {"check", "make", "endpoint", "open"}

\* A step of one process on its way: it concerns no other, starts nobody, and
\* gives up only for a channel that is taken.
Busy(p) ==
    /\ p \in Workers
    /\ \E v \in Workers \ {p} : Transport!Open(v) /\ proc[v].name = proc[p].name

Proceeds(p) ==
    /\ \A q \in Processes \ {p} : proc'[q] = proc[q]
    /\ proc'[p].at # "none"
    /\ Transport!Alive(p)' => Transport!Alive(p) /\ proc'[p].name = proc[p].name
    /\ proc'[p].at = "failed" => Busy(p)

-----------------------------------------------------------------------------
\* The directories on the way to a channel's.
LEMMA Prefixes ==
    ASSUME NEW a, NEW b
    PROVE  /\ Len(<<a, b>>) = 2
           /\ SubSeq(<<a, b>>, 1, 1) = <<a>>
           /\ SubSeq(<<a, b>>, 1, 2) = <<a, b>>
<1> DEFINE S == {a, b}
<1>1. <<a>> \in Seq(S) /\ <<a, b>> \in Seq(S) /\ Len(<<a>>) = 1 /\ Len(<<a, b>>) = 2
  OBVIOUS
<1>2. /\ SubSeq(<<a, b>>, 1, 1) \in Seq(S)
      /\ Len(SubSeq(<<a, b>>, 1, 1)) = 1
      /\ SubSeq(<<a, b>>, 1, 1)[1] = a
  BY SubSeqProperties
<1>3. SubSeq(<<a, b>>, 1, 1) = <<a>>
  <2>1. \A i \in 1..Len(SubSeq(<<a, b>>, 1, 1)) : SubSeq(<<a, b>>, 1, 1)[i] = <<a>>[i]
    BY <1>2
  <2> HIDE DEF S
  <2> QED
    BY <1>1, <1>2, <2>1, SeqEqual, ZenonT(30)
<1>4. SubSeq(<<a, b>>, 1, 2) = <<a, b>>
  BY <1>1, SubSeqFull
<1> QED
  BY <1>1, <1>3, <1>4

\* A monitor list that is not absent stands in a configuration, and the names
\* in it are channels.
LEMMA MonitorListed ==
    ASSUME NEW c \in Configs, NEW n, MonitorSetting(c, n).kind # "absent"
    PROVE  LET names == MonitorSetting(c, n).names
           IN  /\ Len(names) \in 0..MaxMonitored
               /\ \A i \in 1..Len(names) : names[i] \in Listed
<1>1. PICK m \in DOMAIN c.monitor : MonitorSetting(c, n) = c.monitor[m]
  BY DEF MonitorSetting, MonitorOf, Absent
<1>2. c.monitor[m] \in Settings
  BY DEF Settings
<1>3. /\ Len(c.monitor[m].names) \in 0..MaxMonitored
      /\ DOMAIN c.monitor[m].names = 1..Len(c.monitor[m].names)
  BY DaemonAssumption
<1>4. \A i \in DOMAIN c.monitor[m].names : c.monitor[m].names[i] \in Listed
  BY <1>2 DEF Listed
<1> QED
  BY <1>1, <1>3, <1>4

LEMMA InitInv == Init => IInv
<1> SUFFICES ASSUME Init PROVE IInv
  OBVIOUS
<1>1. ParentInv
  BY DaemonAssumption DEF Init, ParentInv
<1>2. TransportInv
  BY ProcessAssumption
     DEF Init, TransportInv, PathInv, SideInv, BoundInv, Processes, ProcType, Names,
         Steps, Transport!Init, Transport!None, Transport!Open, Transport!Alive,
         Transport!SettingUp
<1>3. RecordMatchesList
  BY DEF Init, RecordMatchesList
<1> QED
  BY <1>1, <1>2, <1>3 DEF IInv

-----------------------------------------------------------------------------
(* The transports. *)

\* A step of one process that only adds directories leaves the others alone.
LEMMA OneMoves ==
    ASSUME TransportInv, NEW p \in Processes,
           proc' \in [Processes -> ProcType],
           \A q \in Processes \ {p} : proc'[q] = proc[q],
           dirs \subseteq dirs',
           bound' \in [Listed -> Workers \union {NoWorker}],
           PathInv(p)', SideInv(p)', BoundInv'
    PROVE  TransportInv'
<1>1. ASSUME NEW q \in Processes \ {p} PROVE PathInv(q)' /\ SideInv(q)'
  <2>1. PathInv(q) /\ SideInv(q) /\ proc'[q] = proc[q]
    BY DEF TransportInv
  <2> QED
    BY <2>1 DEF PathInv, SideInv, Transport!Path, Transport!Alive, Transport!Open,
                Transport!SettingUp
<1> QED
  BY <1>1 DEF TransportInv

\* A process that neither gains nor loses its end of a channel leaves the
\* channels with whom they were.
LEMMA SameHolders ==
    ASSUME TransportInv, NEW p \in Processes,
           \A q \in Processes \ {p} : proc'[q] = proc[q],
           bound' = bound,
           p \in Workers => proc[p].at # "open" /\ proc'[p].at # "open"
    PROVE  BoundInv'
BY DEF TransportInv, BoundInv, Transport!Open, Processes

LEMMA CreateKeeps ==
    ASSUME TransportInv, NEW p \in Processes, NEW name \in Names, NEW master \in BOOLEAN,
           p \in Workers => master /\ name \in Listed,
           p \in Clients => ~master,
           Transport!Create(p, name, master)
    PROVE  TransportInv'
<1> USE DEF Transport!Create, ProcType, Steps
<1>1. /\ proc' \in [Processes -> ProcType]
      /\ \A q \in Processes \ {p} : proc'[q] = proc[q]
      /\ proc'[p] = [at |-> "check", name |-> name, master |-> master, path |-> 1, depth |-> 0]
      /\ proc[p].at = "none"
  BY DEF TransportInv
<1>2. PathInv(p)' /\ SideInv(p)'
  BY <1>1 DEF PathInv, SideInv
<1>3. BoundInv'
  BY <1>1, SameHolders
<1> QED
  BY <1>1, <1>2, <1>3, OneMoves DEF TransportInv

\* What a process finds or makes does not depend on who else made it.
LEMMA CheckKeeps ==
    ASSUME TransportInv, NEW p \in Processes, Transport!CheckDirectory(p)
    PROVE  TransportInv' /\ Proceeds(p)
<1> USE DEF Transport!CheckDirectory, Transport!FinishesPath, Transport!Goes,
            Transport!Makes, Transport!Checks, ProcType, Steps
<1>1. /\ proc' \in [Processes -> ProcType]
      /\ \A q \in Processes \ {p} : proc'[q] = proc[q]
      /\ proc[p] \in ProcType /\ PathInv(p) /\ SideInv(p)
      /\ proc[p].at = "check"
      /\ proc'[p].at \in {"check", "make", "endpoint"}
      /\ proc'[p].name = proc[p].name /\ proc'[p].master = proc[p].master
  BY DEF TransportInv, PathInv
<1>2. PathInv(p)'
  BY <1>1 DEF PathInv, Transport!Path
<1>3. SideInv(p)'
  BY <1>1 DEF SideInv, Transport!Alive, Transport!Open, Transport!SettingUp
<1>4. BoundInv'
  BY <1>1, SameHolders
<1>5. TransportInv'
  BY <1>1, <1>2, <1>3, <1>4, OneMoves DEF TransportInv
<1> QED
  BY <1>1, <1>5 DEF Proceeds, Transport!Alive, Transport!Open, Transport!SettingUp

\* mkdir() always finds the parent directory.
LEMMA MakeSucceeds ==
    ASSUME TransportInv, NEW p \in Processes, Transport!MakeDirectory(p)
    PROVE  /\ proc[p].at = "make" /\ proc[p].depth \in 1..2
           /\ dirs \subseteq dirs' /\ bound' = bound
           /\ proc[p].depth = 1 => <<"container">> \in dirs' /\ Transport!Makes(p, 2)
           /\ proc[p].depth = 2 => /\ Transport!Path(proc[p].name, proc[p].path) \in dirs'
                                  /\ Transport!FinishesPath(p)
<1>1. proc[p].at = "make" /\ PathInv(p)
  BY DEF TransportInv, Transport!MakeDirectory
<1>2. proc[p].depth \in 1..2 /\ proc[p].path \in 1..2
  BY <1>1 DEF PathInv
<1> DEFINE path == Transport!Path(proc[p].name, proc[p].path)
<1>3. /\ Len(path) = 2
      /\ SubSeq(path, 1, 1) = <<"container">>
      /\ SubSeq(path, 1, 2) = path
  BY Prefixes DEF Transport!Path
<1>4. proc[p].depth = 2 => <<"container">> \in dirs
  BY <1>1 DEF PathInv
<1>5. LET d == proc[p].depth
      IN  IF d > 1 /\ SubSeq(path, 1, d - 1) \notin dirs
          THEN Transport!Goes(p, "failed") /\ dirs' = dirs
          ELSE /\ dirs' = dirs \union {SubSeq(path, 1, d)}
               /\ IF d < Len(path) THEN Transport!Makes(p, d + 1) ELSE Transport!FinishesPath(p)
  BY DEF Transport!MakeDirectory
<1>6. bound' = bound
  BY DEF Transport!MakeDirectory
<1> HIDE DEF path
<1>7. ASSUME proc[p].depth = 1
      PROVE  dirs' = dirs \union {<<"container">>} /\ Transport!Makes(p, 2)
  <2>1. ~(1 > 1) /\ 1 < 2 /\ 1 + 1 = 2
    OBVIOUS
  <2> QED
    BY <1>3, <1>5, <1>7, <2>1
<1>8. ASSUME proc[p].depth = 2
      PROVE  dirs' = dirs \union {path} /\ Transport!FinishesPath(p)
  <2>1. 2 > 1 /\ ~(2 < 2) /\ 2 - 1 = 1
    OBVIOUS
  <2> QED
    BY <1>3, <1>4, <1>5, <1>8, <2>1
<1>9. dirs \subseteq dirs'
  BY <1>2, <1>7, <1>8
<1> QED
  BY <1>1, <1>2, <1>6, <1>7, <1>8, <1>9 DEF path

LEMMA MakeKeeps ==
    ASSUME TransportInv, NEW p \in Processes, Transport!MakeDirectory(p)
    PROVE  TransportInv' /\ Proceeds(p)
<1> USE DEF ProcType, Steps
<1>1. /\ proc \in [Processes -> ProcType] /\ PathInv(p) /\ SideInv(p)
      /\ bound \in [Listed -> Workers \union {NoWorker}]
  BY DEF TransportInv
<1>2. /\ proc[p].at = "make" /\ proc[p].depth \in 1..2
      /\ dirs \subseteq dirs' /\ bound' = bound
      /\ proc[p].depth = 1 => <<"container">> \in dirs' /\ Transport!Makes(p, 2)
      /\ proc[p].depth = 2 => /\ Transport!Path(proc[p].name, proc[p].path) \in dirs'
                             /\ Transport!FinishesPath(p)
  BY MakeSucceeds
<1>3. /\ proc' \in [Processes -> ProcType]
      /\ \A q \in Processes \ {p} : proc'[q] = proc[q]
      /\ proc'[p].at \in {"check", "make", "endpoint"}
      /\ proc'[p].name = proc[p].name /\ proc'[p].master = proc[p].master
      /\ PathInv(p)'
  <2> USE DEF PathInv, Transport!Path
  <2>1. CASE proc[p].depth = 1
    BY <1>1, <1>2, <2>1 DEF Transport!Makes
  <2>2. CASE proc[p].depth = 2
    BY <1>1, <1>2, <2>2 DEF Transport!FinishesPath, Transport!Goes, Transport!Checks
  <2> QED
    BY <1>2, <2>1, <2>2
<1>4. SideInv(p)'
  BY <1>1, <1>2, <1>3 DEF SideInv, Transport!Alive, Transport!Open, Transport!SettingUp
<1>5. BoundInv'
  BY <1>2, <1>3, SameHolders
<1>6. TransportInv'
  BY <1>1, <1>2, <1>3, <1>4, <1>5, OneMoves
<1> QED
  BY <1>2, <1>3, <1>6 DEF Proceeds, Transport!Alive, Transport!Open, Transport!SettingUp

\* What going somewhere does to the processes.
LEMMA GoesThere ==
    ASSUME proc \in [Processes -> ProcType], NEW p \in Processes, NEW where \in Steps,
           Transport!Goes(p, where)
    PROVE  /\ proc' \in [Processes -> ProcType]
           /\ \A q \in Processes \ {p} : proc'[q] = proc[q]
           /\ proc'[p].at = where
           /\ proc'[p].name = proc[p].name /\ proc'[p].master = proc[p].master
<1> DEFINE r1 == [proc[p] EXCEPT !.at = where]
           r2 == [r1 EXCEPT !.path = 0]
           r3 == [r2 EXCEPT !.depth = 0]
<1>1. /\ r1 \in ProcType /\ r1.at = where
      /\ r1.name = proc[p].name /\ r1.master = proc[p].master
  BY DEF ProcType
<1>2. /\ r2 \in ProcType /\ r2.at = r1.at /\ r2.name = r1.name /\ r2.master = r1.master
  <2> HIDE DEF r1
  <2> QED
    BY <1>1 DEF ProcType
<1>3. /\ r3 \in ProcType /\ r3.at = r2.at /\ r3.name = r2.name /\ r3.master = r2.master
  <2> HIDE DEF r2
  <2> QED
    BY <1>2 DEF ProcType
<1>4. proc' = [proc EXCEPT ![p] = r3]
  BY DEF Transport!Goes
<1> HIDE DEF r3
<1> QED
  BY <1>1, <1>2, <1>3, <1>4

LEMMA EndsThere ==
    ASSUME proc \in [Processes -> ProcType], NEW p \in Processes, Transport!Ends(p)
    PROVE  /\ proc' \in [Processes -> ProcType]
           /\ \A q \in Processes \ {p} : proc'[q] = proc[q]
           /\ proc'[p].at = "gone"
<1> DEFINE r == [Transport!None EXCEPT !.at = "gone"]
<1>1. Transport!None \in ProcType
  BY DEF Transport!None, ProcType, Steps, Names
<1>2. r \in ProcType /\ r.at = "gone"
  BY <1>1 DEF ProcType, Steps
<1>3. proc' = [proc EXCEPT ![p] = r]
  BY DEF Transport!Ends
<1> HIDE DEF r
<1> QED
  BY <1>2, <1>3

\* A worker binds its channel: nobody else has it.
LEMMA BindKeeps ==
    ASSUME TransportInv, NEW p \in Processes, Transport!Bind(p)
    PROVE  TransportInv' /\ Proceeds(p) /\ p \in Workers /\ proc[p].name \in Listed
<1>0. /\ proc \in [Processes -> ProcType] /\ PathInv(p) /\ SideInv(p)
      /\ bound \in [Listed -> Workers \union {NoWorker}]
  BY DEF TransportInv
<1>1. /\ proc' \in [Processes -> ProcType]
      /\ \A q \in Processes \ {p} : proc'[q] = proc[q]
      /\ proc[p].at = "endpoint" /\ proc'[p].at = "open" /\ proc[p].master
      /\ proc'[p].name = proc[p].name /\ proc'[p].master = proc[p].master
      /\ dirs' = dirs
      /\ bound' = [bound EXCEPT ![proc[p].name] = p] /\ bound[proc[p].name] = NoWorker
  BY <1>0, GoesThere DEF Steps, Transport!Bind
<1>2. p \in Workers /\ proc[p].name \in Listed
  BY <1>0, <1>1 DEF SideInv, Transport!Alive, Transport!SettingUp, Processes
<1>3. PathInv(p)' /\ SideInv(p)'
  BY <1>0, <1>1, <1>2 DEF PathInv, SideInv, Transport!Path, Transport!Alive,
                          Transport!Open, Transport!SettingUp
<1>4. bound' \in [Listed -> Workers \union {NoWorker}]
  BY <1>0, <1>1, <1>2
<1>5. ASSUME NEW n \in Listed, NEW w \in Workers
      PROVE  bound'[n] = w <=> Transport!Open(w)' /\ proc'[w].name = n
  <2>1. bound[n] = w <=> Transport!Open(w) /\ proc[w].name = n
    BY DEF TransportInv, BoundInv
  <2>2. bound'[n] = IF n = proc[p].name THEN p ELSE bound[n]
    BY <1>0, <1>1
  <2>3. CASE w = p
    BY <1>1, <2>1, <2>2, <2>3 DEF Transport!Open
  <2>4. CASE w # p
    BY <1>1, <2>1, <2>2, <2>4, ProcessAssumption DEF Transport!Open, Processes
  <2> QED
    BY <2>3, <2>4
<1>6. TransportInv'
  BY <1>1, <1>2, <1>3, <1>4, <1>5, OneMoves DEF BoundInv
<1> QED
  BY <1>1, <1>2, <1>6 DEF Proceeds, Transport!Alive, Transport!Open, Transport!SettingUp

\* A worker that finds its channel busy gives up: another one is open on it.
LEMMA BindFailsKeeps ==
    ASSUME TransportInv, NEW p \in Processes, Transport!BindFails(p)
    PROVE  TransportInv' /\ Proceeds(p) /\ p \in Workers
<1>0. /\ proc \in [Processes -> ProcType] /\ PathInv(p) /\ SideInv(p)
      /\ bound \in [Listed -> Workers \union {NoWorker}]
  BY DEF TransportInv
<1>1. /\ proc' \in [Processes -> ProcType]
      /\ \A q \in Processes \ {p} : proc'[q] = proc[q]
      /\ proc[p].at = "endpoint" /\ proc'[p].at = "failed" /\ proc[p].master
      /\ dirs' = dirs /\ bound' = bound /\ bound[proc[p].name] # NoWorker
  BY <1>0, GoesThere DEF Steps, Transport!BindFails
<1>2. p \in Workers /\ proc[p].name \in Listed
  BY <1>0, <1>1 DEF SideInv, Transport!Alive, Transport!SettingUp, Processes
<1>3. PathInv(p)' /\ SideInv(p)'
  BY <1>0, <1>1 DEF PathInv, SideInv, Transport!Alive, Transport!Open, Transport!SettingUp
<1>4. BoundInv'
  BY <1>1, SameHolders
<1>5. TransportInv'
  BY <1>0, <1>1, <1>3, <1>4, OneMoves
<1>6. bound[proc[p].name] \in Workers
  BY <1>0, <1>1, <1>2
<1>7. /\ Transport!Open(bound[proc[p].name])
      /\ proc[bound[proc[p].name]].name = proc[p].name
  BY <1>2, <1>6 DEF TransportInv, BoundInv
<1>8. Busy(p)
  BY <1>1, <1>2, <1>6, <1>7 DEF Transport!Open, Busy
<1> QED
  BY <1>1, <1>2, <1>5, <1>8 DEF Proceeds, Transport!Alive, Transport!Open, Transport!SettingUp

LEMMA ConnectKeeps ==
    ASSUME TransportInv, NEW p \in Processes, Transport!Connect(p)
    PROVE  TransportInv' /\ Proceeds(p) /\ p \in Clients
<1>0. /\ proc \in [Processes -> ProcType] /\ PathInv(p) /\ SideInv(p)
      /\ bound \in [Listed -> Workers \union {NoWorker}]
  BY DEF TransportInv
<1>1. /\ proc' \in [Processes -> ProcType]
      /\ \A q \in Processes \ {p} : proc'[q] = proc[q]
      /\ proc[p].at = "endpoint" /\ proc'[p].at = "open" /\ ~proc[p].master
      /\ proc'[p].name = proc[p].name /\ proc'[p].master = proc[p].master
      /\ dirs' = dirs /\ bound' = bound
  BY <1>0, GoesThere DEF Steps, Transport!Connect
<1>2. p \notin Workers /\ p \in Clients
  BY <1>0, <1>1 DEF SideInv, Transport!Alive, Transport!SettingUp, Processes
<1>3. PathInv(p)' /\ SideInv(p)'
  BY <1>0, <1>1, <1>2 DEF PathInv, SideInv, Transport!Path, Transport!Alive,
                          Transport!Open, Transport!SettingUp
<1>4. BoundInv'
  BY <1>1, <1>2, SameHolders
<1>5. TransportInv'
  BY <1>0, <1>1, <1>2, <1>3, <1>4, OneMoves
<1> QED
  BY <1>1, <1>2, <1>5 DEF Proceeds, Transport!Alive, Transport!Open, Transport!SettingUp

LEMMA DestroyKeeps ==
    ASSUME TransportInv, NEW p \in Processes, Transport!Destroy(p)
    PROVE  TransportInv' /\ Proceeds(p) /\ p \in Clients
<1>0. /\ proc \in [Processes -> ProcType] /\ PathInv(p) /\ SideInv(p)
      /\ bound \in [Listed -> Workers \union {NoWorker}]
  BY DEF TransportInv
<1>1. /\ proc' \in [Processes -> ProcType]
      /\ \A q \in Processes \ {p} : proc'[q] = proc[q]
      /\ proc[p].at = "open" /\ proc'[p].at = "gone" /\ ~proc[p].master
      /\ dirs' = dirs /\ bound' = bound
  BY <1>0, EndsThere DEF Transport!Destroy, Transport!Open
<1>2. p \notin Workers /\ p \in Clients
  BY <1>0, <1>1 DEF SideInv, Transport!Alive, Transport!Open, Processes
<1>3. PathInv(p)' /\ SideInv(p)'
  BY <1>1 DEF PathInv, SideInv, Transport!Alive, Transport!Open, Transport!SettingUp
<1>4. BoundInv'
  BY <1>1, <1>2, SameHolders
<1>5. TransportInv'
  BY <1>0, <1>1, <1>2, <1>3, <1>4, OneMoves
<1> QED
  BY <1>1, <1>2, <1>5 DEF Proceeds, Transport!Alive, Transport!Open, Transport!SettingUp

\* The channel of a process that ends is free at once.
LEMMA DiesKeeps ==
    ASSUME TransportInv, NEW p \in Processes, Transport!Dies(p)
    PROVE  TransportInv' /\ Proceeds(p)
<1>0. /\ proc \in [Processes -> ProcType]
      /\ bound \in [Listed -> Workers \union {NoWorker}]
  BY DEF TransportInv
<1>1. /\ proc' \in [Processes -> ProcType]
      /\ \A q \in Processes \ {p} : proc'[q] = proc[q]
      /\ proc'[p].at = "gone" /\ dirs' = dirs
      /\ bound' = [n \in Listed |-> IF bound[n] = p THEN NoWorker ELSE bound[n]]
  BY <1>0, EndsThere DEF Transport!Dies
<1>2. PathInv(p)' /\ SideInv(p)'
  BY <1>1 DEF PathInv, SideInv, Transport!Alive, Transport!Open, Transport!SettingUp
<1>3. bound' \in [Listed -> Workers \union {NoWorker}]
  BY <1>0, <1>1
<1>4. ASSUME NEW n \in Listed, NEW w \in Workers
      PROVE  bound'[n] = w <=> Transport!Open(w)' /\ proc'[w].name = n
  <2>1. bound[n] = w <=> Transport!Open(w) /\ proc[w].name = n
    BY DEF TransportInv, BoundInv
  <2>2. bound'[n] = (IF bound[n] = p THEN NoWorker ELSE bound[n]) /\ w # NoWorker
    BY <1>1, ProcessAssumption
  <2>3. CASE w = p
    BY <1>1, <2>2, <2>3 DEF Transport!Open
  <2>4. CASE w # p
    BY <1>1, <2>1, <2>2, <2>4 DEF Transport!Open, Processes
  <2> QED
    BY <2>3, <2>4
<1>5. TransportInv'
  BY <1>1, <1>2, <1>3, <1>4, OneMoves DEF BoundInv
<1> QED
  BY <1>1, <1>5 DEF Proceeds, Transport!Alive, Transport!Open, Transport!SettingUp

\* Every step of a process keeps the transports in order.
LEMMA ProcessKeeps ==
    ASSUME TransportInv, NEW p \in Processes, ProcessNext(p) \/ ProcessEnds(p)
    PROVE  TransportInv' /\ Proceeds(p) /\ UNCHANGED <<parent, contextVars, pids>>
<1>1. UNCHANGED <<parent, contextVars, pids>>
  BY DEF ProcessNext, ProcessEnds, Alone
<1>2. CASE Transport!CheckDirectory(p)
  BY <1>1, <1>2, CheckKeeps
<1>3. CASE Transport!MakeDirectory(p)
  BY <1>1, <1>3, MakeKeeps
<1>4. CASE Transport!Bind(p)
  BY <1>1, <1>4, BindKeeps
<1>5. CASE Transport!BindFails(p)
  BY <1>1, <1>5, BindFailsKeeps
<1>6. CASE Transport!Connect(p)
  BY <1>1, <1>6, ConnectKeeps
<1>7. CASE Transport!Destroy(p)
  BY <1>1, <1>7, DestroyKeeps
<1>8. CASE Transport!Dies(p)
  BY <1>1, <1>8, DiesKeeps
<1> QED
  BY <1>2, <1>3, <1>4, <1>5, <1>6, <1>7, <1>8 DEF ProcessNext, ProcessEnds, Alone

-----------------------------------------------------------------------------
(* The parent. *)

\* The processes recorded so far are workers of this start.
LEMMA RecordedWorkers ==
    ASSUME ParentInv, parent \in {"forking", "paused"}
    PROVE  \A i \in 1..(Len(pids)) : Pid(i) \in Workers /\ i \in 1..Len(list)
BY DaemonAssumption DEF ParentInv, Pid, Workers

\* What a process does on its own account leaves the parent's record right.
LEMMA RecordKept ==
    ASSUME ParentInv, RecordMatchesList, NEW p \in Processes,
           UNCHANGED <<parent, contextVars, pids>>,
           \A q \in Processes \ {p} : proc'[q] = proc[q],
           p \in Workers =>
               /\ proc'[p].at # "none"
               /\ Transport!Alive(p)' => Transport!Alive(p) /\ proc'[p].name = proc[p].name
    PROVE  ParentInv' /\ RecordMatchesList'
<1>1. ParentInv'
  BY DEF ParentInv, contextVars
<1>2. ASSUME NEW w \in Workers, NEW n, proc[w].at # "none",
             Transport!Alive(w) => proc[w].name = n
      PROVE  proc'[w].at # "none" /\ (proc'[w].at \in Living => proc'[w].name = n)
  <2> USE DEF Transport!Alive, Transport!Open, Transport!SettingUp, Living
  <2>1. CASE w = p
    BY <1>2, <2>1
  <2>2. CASE w # p
    BY <1>2, <2>2 DEF Processes
  <2> QED
    BY <2>1, <2>2
<1>3. ASSUME parent \in {"forking", "paused"}, NEW i \in 1..Len(pids), list[i] # local
      PROVE  /\ pids[i] = Pid(i) /\ proc'[Pid(i)].at # "none"
             /\ proc'[Pid(i)].at \in Living => proc'[Pid(i)].name = list[i]
  <2>1. Pid(i) \in Workers
    BY <1>3, RecordedWorkers
  <2>2. /\ pids[i] = Pid(i) /\ proc[Pid(i)].at # "none"
        /\ Transport!Alive(Pid(i)) => proc[Pid(i)].name = list[i]
    BY <1>3 DEF RecordMatchesList
  <2> QED
    BY <1>2, <2>1, <2>2
<1>4. ASSUME parent' \in {"forking", "paused"}, NEW i \in 1..Len(pids)
      PROVE  IF list[i] = local THEN pids[i] = NoWorker
             ELSE /\ pids[i] = Pid(i) /\ proc'[Pid(i)].at # "none"
                  /\ proc'[Pid(i)].at \in Living => proc'[Pid(i)].name = list[i]
  BY <1>3, <1>4 DEF RecordMatchesList
<1>5. RecordMatchesList'
  BY <1>4 DEF RecordMatchesList, contextVars, Pid, Living, Transport!Alive, Transport!Open,
              Transport!SettingUp
<1> QED
  BY <1>1, <1>5

\* The parent's steps that leave the transports alone.
LEMMA QuietParentKeeps ==
    ASSUME IInv,
           \/ Start \/ InitContext \/ InitContextFails \/ ForkFails \/ Pause \/ ParentExits
           \/ \E i \in 1..MaxMonitored : SkipLocal(i)
    PROVE  IInv' /\ UNCHANGED transportVars
<1>1. UNCHANGED transportVars
  BY DEF Start, InitContext, InitContextFails, ForkFails, Pause, ParentExits, SkipLocal
<1>2. TransportInv'
  BY <1>1 DEF IInv, TransportInv, transportVars, PathInv, SideInv, BoundInv,
              Transport!Alive, Transport!Open, Transport!SettingUp, Transport!Path
<1> USE DEF IInv
<1>3. CASE Start
  <2>1. ParentInv'
    BY <1>3, DaemonAssumption DEF Start, ParentInv
  <2>2. RecordMatchesList'
    BY <1>3 DEF Start, RecordMatchesList
  <2> QED
    BY <1>1, <1>2, <2>1, <2>2
<1>4. CASE InitContext
  <2> DEFINE setting == MonitorSetting(conf, local')
  <2>1. /\ parent = "naming" /\ setting.kind \in {"list", "wildcard"}
        /\ list' = setting.names /\ parent' = "forking"
        /\ UNCHANGED <<start, conf, host, pids, transportVars>>
    BY <1>4 DEF InitContext
  <2>2. conf \in Configs /\ pids = <<>>
    BY <2>1 DEF ParentInv
  <2>3. Len(list') \in 0..MaxMonitored /\ \A i \in 1..Len(list') : list'[i] \in Listed
    BY <2>1, <2>2, MonitorListed
  <2>4. ParentInv'
    BY <2>1, <2>2, <2>3 DEF ParentInv
  <2>5. RecordMatchesList'
    BY <2>1, <2>2 DEF RecordMatchesList
  <2> QED
    BY <1>1, <1>2, <2>4, <2>5
<1>5. CASE InitContextFails \/ ForkFails \/ ParentExits
  <2>1. /\ parent' = "off" /\ conf' = NoConf /\ list' = <<>> /\ pids' = <<>>
        /\ UNCHANGED <<start, host>>
    BY <1>5 DEF InitContextFails, ForkFails, ParentExits, Forgets
  <2>2. ParentInv'
    BY <2>1, DaemonAssumption DEF ParentInv
  <2>3. RecordMatchesList'
    BY <2>1 DEF RecordMatchesList
  <2> QED
    BY <1>1, <1>2, <2>2, <2>3
<1>6. CASE Pause
  <2>1. ParentInv'
    BY <1>6 DEF Pause, ParentInv, contextVars
  <2>2. RecordMatchesList'
    BY <1>6 DEF Pause, RecordMatchesList, contextVars, transportVars, Pid,
                Transport!Alive, Transport!Open, Transport!SettingUp
  <2> QED
    BY <1>1, <1>2, <2>1, <2>2
<1>7. ASSUME NEW i \in 1..MaxMonitored, SkipLocal(i)
      PROVE  ParentInv' /\ RecordMatchesList'
  <2>1. /\ parent = "forking" /\ i = Len(pids) + 1 /\ i <= Len(list) /\ list[i] = local
        /\ pids' = Append(pids, NoWorker)
        /\ UNCHANGED <<parent, start, conf, host, local, list, proc, dirs, bound>>
    BY <1>7 DEF SkipLocal, Due, contextVars, transportVars
  <2>2. /\ pids' \in Seq(Workers \union {NoWorker}) /\ Len(pids') = i
        /\ pids'[i] = NoWorker /\ \A j \in 1..Len(pids) : pids'[j] = pids[j]
    BY <2>1 DEF ParentInv
  <2>3. ParentInv'
    BY <2>1, <2>2 DEF ParentInv
  <2>4. RecordMatchesList'
    <3>1. ASSUME NEW j \in 1..Len(pids') PROVE j = i \/ j \in 1..Len(pids)
      BY <2>1, <2>2 DEF ParentInv
    <3> QED
      BY <2>1, <2>2, <3>1 DEF RecordMatchesList, Pid, Transport!Alive, Transport!Open,
                              Transport!SettingUp
  <2> QED
    BY <2>3, <2>4
<1> QED
  BY <1>1, <1>2, <1>3, <1>4, <1>5, <1>6, <1>7

\* The parent records the worker it has just forked.
LEMMA CreateWorkerKeeps ==
    ASSUME IInv, NEW i \in 1..MaxMonitored, CreateWorker(i)
    PROVE  IInv' /\ Pid(i) \in Workers /\ Transport!Create(Pid(i), list[i], TRUE)
<1> USE DEF IInv
<1>1. /\ parent = "forking" /\ i = Len(pids) + 1 /\ i <= Len(list) /\ list[i] # local
      /\ Transport!Create(Pid(i), list[i], TRUE)
      /\ pids' = Append(pids, Pid(i))
      /\ UNCHANGED <<parent, start, conf, host, local, list>>
  BY DEF CreateWorker, Due, contextVars
<1>2. Pid(i) \in Workers /\ list[i] \in Listed
  BY <1>1, DaemonAssumption DEF ParentInv, Pid, Workers
<1>3. TransportInv'
  BY <1>1, <1>2, CreateKeeps, ProcessAssumption DEF Processes, Names
<1>4. /\ proc'[Pid(i)].at = "check" /\ proc'[Pid(i)].name = list[i]
      /\ \A q \in Processes \ {Pid(i)} : proc'[q] = proc[q]
  BY <1>1, <1>2 DEF Transport!Create, TransportInv, Processes
<1>5. /\ pids' \in Seq(Workers \union {NoWorker}) /\ Len(pids') = i
      /\ pids'[i] = Pid(i) /\ \A j \in 1..Len(pids) : pids'[j] = pids[j]
  BY <1>1, <1>2 DEF ParentInv
<1>6. ParentInv'
  BY <1>1, <1>5 DEF ParentInv
<1>7. ASSUME NEW j \in 1..Len(pids)
      PROVE  Pid(j) \in Workers /\ Pid(j) # Pid(i) /\ proc'[Pid(j)] = proc[Pid(j)]
  <2>1. Pid(j) \in Workers
    BY <1>1, RecordedWorkers
  <2>2. Pid(j) # Pid(i)
    BY <1>1 DEF Pid, ParentInv
  <2> QED
    BY <1>4, <2>1, <2>2 DEF Processes
<1>8. RecordMatchesList'
  <2>1. ASSUME NEW j \in 1..Len(pids') PROVE j = i \/ j \in 1..Len(pids)
    BY <1>1, <1>5 DEF ParentInv
  <2>2. ASSUME NEW j \in 1..Len(pids), list[j] # local
        PROVE  /\ pids'[j] = Pid(j) /\ proc'[Pid(j)].at # "none"
               /\ proc'[Pid(j)].at \in Living => proc'[Pid(j)].name = list[j]
    BY <1>1, <1>5, <1>7, <2>2 DEF RecordMatchesList, Living, Transport!Alive,
       Transport!Open, Transport!SettingUp
  <2>3. ASSUME NEW j \in 1..Len(pids')
        PROVE  IF list[j] = local THEN pids'[j] = NoWorker
               ELSE /\ pids'[j] = Pid(j) /\ proc'[Pid(j)].at # "none"
                    /\ proc'[Pid(j)].at \in Living => proc'[Pid(j)].name = list[j]
    BY <1>1, <1>4, <1>5, <2>1, <2>2 DEF RecordMatchesList
  <2> QED
    BY <1>1, <2>3 DEF RecordMatchesList, Pid, Living, Transport!Alive, Transport!Open,
                      Transport!SettingUp
<1> QED
  BY <1>1, <1>2, <1>3, <1>6, <1>8

\* A client that is called concerns nobody else.
LEMMA CallClientKeeps ==
    ASSUME IInv, NEW c \in Clients, NEW name \in Requestors, CallClient(c, name)
    PROVE  IInv' /\ Transport!Create(c, name, FALSE)
<1> USE DEF IInv
<1>1. /\ Transport!Create(c, name, FALSE) /\ UNCHANGED <<parent, contextVars, pids>>
      /\ c \in Processes /\ c \notin Workers /\ name \in Names
  BY ProcessAssumption DEF CallClient, Processes, Names
<1>2. TransportInv'
  BY <1>1, CreateKeeps
<1>3. \A q \in Processes \ {c} : proc'[q] = proc[q]
  BY <1>1 DEF Transport!Create, TransportInv
<1>4. ParentInv' /\ RecordMatchesList'
  BY <1>1, <1>3, RecordKept
<1> QED
  BY <1>1, <1>2, <1>4

LEMMA ProcessStepKeeps ==
    ASSUME IInv, NEW p \in Processes, ProcessNext(p) \/ ProcessEnds(p)
    PROVE  IInv'
BY ProcessKeeps, RecordKept DEF IInv, Proceeds

LEMMA NextKeeps == IInv /\ [Next]_vars => IInv'
<1> SUFFICES ASSUME IInv, [Next]_vars PROVE IInv'
  OBVIOUS
<1>1. CASE UNCHANGED vars
  BY <1>1 DEF vars, contextVars, transportVars, IInv, ParentInv, TransportInv, PathInv, SideInv,
              BoundInv, RecordMatchesList, Pid, Transport!Alive, Transport!Open,
              Transport!SettingUp, Transport!Path
<1>2. CASE \/ Start \/ InitContext \/ InitContextFails \/ ForkFails \/ Pause \/ ParentExits
           \/ \E i \in 1..MaxMonitored : SkipLocal(i)
  BY <1>2, QuietParentKeeps
<1>3. CASE \E i \in 1..MaxMonitored : CreateWorker(i)
  BY <1>3, CreateWorkerKeeps
<1>4. CASE \E c \in Clients, name \in Requestors : CallClient(c, name)
  BY <1>4, CallClientKeeps
<1>5. CASE \E p \in Workers \union Clients : ProcessNext(p) \/ ProcessEnds(p)
  BY <1>5, ProcessStepKeeps DEF Processes
<1> QED
  BY <1>1, <1>2, <1>3, <1>4, <1>5 DEF Next, ParentNext

LEMMA Invariance == Spec => []IInv
BY InitInv, NextKeeps, PTL DEF Spec

-----------------------------------------------------------------------------
\* Parent, record, processes and channels stay within their types
\* (subcmd_start.c:543-632, transport.c, nanomsg.c:247).
THEOREM TypeCorrect == Spec => []TypeOK
<1>1. IInv => TypeOK
  BY DEF IInv, ParentInv, TransportInv, TypeOK, Processes, ProcType, Steps, Names
<1> QED
  BY <1>1, Invariance, PTL

\* While it forks, the parent's record tells which process serves which entry
\* of its list, and only its own name has none (subcmd_start.c:609-632).
THEOREM RecordMatchesListCorrect == Spec => []RecordMatchesList
BY Invariance, PTL DEF IInv

\* Whoever has an end of a channel finds the directory of the local channel
\* there as well as its own (transport.c:86).
THEOREM LocalChannelExistsCorrect == Spec => []LocalChannelExists
<1>1. IInv => LocalChannelExists
  BY DEF IInv, TransportInv, PathInv, LocalChannelExists, Processes, Transport!Open
<1> QED
  BY <1>1, Invariance, PTL

\* Nobody fails because another process makes the same directories: whoever
\* gives up by itself is a worker that finds its channel held by another one
\* (transport.c:92-107, util.c:78).
THEOREM FailsOnlyForBusyChannelCorrect == Spec => FailsOnlyForBusyChannel
<1> DEFINE Excused ==
             \A p \in Workers \union Clients :
                proc'[p].at = "failed" /\ proc[p].at # "failed" => Busy(p)
<1>1. ASSUME IInv, [Next]_vars PROVE Excused
  <2>1. CASE UNCHANGED proc
    BY <2>1
  <2>2. CASE \E p \in Processes : proc'[p].at = "check" /\ \A q \in Processes \ {p} : proc'[q] = proc[q]
    BY <2>2 DEF Processes
  <2>3. CASE \E p \in Workers \union Clients : ProcessNext(p) \/ ProcessEnds(p)
    BY <1>1, <2>3, ProcessKeeps DEF IInv, Proceeds, Processes
  <2>4. ASSUME NEW p \in Processes, NEW name, NEW master, Transport!Create(p, name, master)
        PROVE  proc'[p].at = "check" /\ \A q \in Processes \ {p} : proc'[q] = proc[q]
    BY <1>1, <2>4 DEF Transport!Create, IInv, TransportInv
  <2>5. CASE \E i \in 1..MaxMonitored : CreateWorker(i)
    BY <1>1, <2>2, <2>4, <2>5, CreateWorkerKeeps DEF Processes
  <2>6. CASE \E c \in Clients, name \in Requestors : CallClient(c, name)
    BY <1>1, <2>2, <2>4, <2>6, CallClientKeeps DEF Processes
  <2>7. CASE \/ Start \/ InitContext \/ InitContextFails \/ ForkFails \/ Pause \/ ParentExits
             \/ \E i \in 1..MaxMonitored : SkipLocal(i)
    BY <1>1, <2>1, <2>7, QuietParentKeeps DEF transportVars
  <2> QED
    BY <1>1, <2>1, <2>3, <2>5, <2>6, <2>7 DEF Next, ParentNext, vars, transportVars
<1>2. Excused => \A p \in Workers \union Clients :
         proc'[p].at = "failed" /\ proc[p].at # "failed" =>
            /\ p \in Workers
            /\ \E v \in Workers \ {p} : Transport!Open(v) /\ proc[v].name = proc[p].name
  BY DEF Busy
<1>3. IInv /\ [Next]_vars =>
        [\A p \in Workers \union Clients :
         proc'[p].at = "failed" /\ proc[p].at # "failed" =>
            /\ p \in Workers
            /\ \E v \in Workers \ {p} : Transport!Open(v) /\ proc[v].name = proc[p].name]_vars
  BY <1>1, <1>2
<1> QED
  BY <1>3, Invariance, PTL DEF Spec, FailsOnlyForBusyChannel

-----------------------------------------------------------------------------
(* Channels are held in turn. *)

Held    == [n \in Listed |-> {w \in Workers : Transport!Open(w) /\ proc[w].name = n}]
Retired == {w \in Workers : proc[w].at \in Gone}

\* Nothing changes for the channels unless a worker is open or ends.
LEMMA HeldKept ==
    ASSUME TransportInv, NEW p \in Processes,
           \A q \in Processes \ {p} : proc'[q] = proc[q],
           p \in Workers => proc[p].at \notin {"open", "failed", "gone"}
                          /\ proc'[p].at \notin {"open", "failed", "gone"}
    PROVE  Held' = Held /\ Retired' = Retired
<1>1. ASSUME NEW w \in Workers
      PROVE  /\ proc'[w].at = "open" <=> proc[w].at = "open"
             /\ proc[w].at = "open" => proc'[w].name = proc[w].name
             /\ proc'[w].at \in Gone <=> proc[w].at \in Gone
  BY DEF Processes, Gone
<1> QED
  BY <1>1 DEF Held, Retired, Transport!Open

LEMMA BindAcquires ==
    ASSUME TransportInv, NEW p \in Processes, Transport!Bind(p)
    PROVE  p \in Workers /\ \E n \in Listed : Lock!Acquire(n, p)
<1>1. p \in Workers /\ proc[p].name \in Listed
  BY BindKeeps
<1>2. /\ proc' \in [Processes -> ProcType]
      /\ \A q \in Processes \ {p} : proc'[q] = proc[q]
      /\ proc[p].at = "endpoint" /\ proc'[p].at = "open" /\ proc'[p].name = proc[p].name
      /\ bound[proc[p].name] = NoWorker
  BY GoesThere DEF Transport!Bind, TransportInv, Steps
<1>3. \A w \in Workers : ~(Transport!Open(w) /\ proc[w].name = proc[p].name)
  BY <1>1, <1>2, ProcessAssumption DEF TransportInv, BoundInv
<1>4. Held[proc[p].name] = {}
  BY <1>1, <1>3 DEF Held
<1>5. p \notin Retired /\ \A m \in Listed : p \notin Held[m]
  BY <1>2 DEF Retired, Held, Gone, Transport!Open
<1>6. ASSUME NEW w \in Workers, NEW n \in Listed
      PROVE  proc'[w].at = "open" /\ proc'[w].name = n <=>
                IF n = proc[p].name THEN w = p ELSE w \in Held[n]
  <2>1. CASE w = p
    BY <1>2, <1>5, <2>1
  <2>2. CASE w # p
    BY <1>2, <1>3, <2>2 DEF Held, Processes, Transport!Open
  <2> QED
    BY <2>1, <2>2
<1>7. Held' = [n \in Listed |-> {w \in Workers : proc'[w].at = "open" /\ proc'[w].name = n}]
  BY DEF Held, Transport!Open
<1>8. ASSUME NEW n \in Listed
      PROVE  Held'[n] = [Held EXCEPT ![proc[p].name] = {p}][n]
  <2>1. CASE n = proc[p].name
    <3>1. Held'[n] = {p}
      BY <1>1, <1>6, <1>7, <2>1
    <3> QED
      BY <1>1, <2>1, <3>1 DEF Held
  <2>2. CASE n # proc[p].name
    <3>1. Held'[n] = {w \in Workers : w \in Held[n]}
      BY <1>6, <1>7, <2>2
    <3> QED
      BY <2>2, <3>1 DEF Held
  <2> QED
    BY <2>1, <2>2
<1>9. Held' = [Held EXCEPT ![proc[p].name] = {p}]
  BY <1>7, <1>8 DEF Held
<1>10. Retired' = Retired
  BY <1>2 DEF Retired, Gone, Processes
<1>11. PICK n \in Listed : n = proc[p].name
  BY <1>1
<1>12. Lock!Acquire(n, p)
  BY <1>1, <1>4, <1>5, <1>9, <1>10, <1>11 DEF Lock!Acquire, Held, Retired
<1> QED
  BY <1>1, <1>12

\* A worker that ends gives its channel back for good.
LEMMA EndReleases ==
    ASSUME TransportInv, NEW p \in Workers,
           \A q \in Processes \ {p} : proc'[q] = proc[q],
           proc'[p].at \in Gone
    PROVE  Lock!Retire(p) \/ \E n \in Listed : Lock!Release(n, p)
<1>1. Retired' = Retired \union {p}
  BY DEF Retired, Processes
<1>2. Held' = [n \in Listed |-> {w \in Workers : proc'[w].at = "open" /\ proc'[w].name = n}]
  BY DEF Held, Transport!Open
<1>3. ASSUME NEW n \in Listed PROVE Held'[n] = Held[n] \ {p}
  <2>1. Held'[n] = {w \in Workers : proc'[w].at = "open" /\ proc'[w].name = n}
    BY <1>2
  <2>2. ASSUME NEW w \in Workers
        PROVE  proc'[w].at = "open" /\ proc'[w].name = n <=> w \in Held[n] /\ w # p
    BY DEF Held, Transport!Open, Processes, Gone
  <2> QED
    BY <2>1, <2>2 DEF Held
<1>4. CASE \A n \in Listed : p \notin Held[n]
  <2>1. Held' = Held
    BY <1>2, <1>3, <1>4 DEF Held
  <2> QED
    BY <1>1, <1>4, <2>1 DEF Lock!Retire, Held, Retired
<1>5. ASSUME NEW n \in Listed, p \in Held[n]
      PROVE  Lock!Release(n, p)
  <2>1. bound[n] = p
    BY <1>5 DEF Held, TransportInv, BoundInv
  <2>2. Held[n] = {p}
    BY <1>5, <2>1 DEF Held, TransportInv, BoundInv
  <2>3. ASSUME NEW m \in Listed, m # n PROVE p \notin Held[m]
    BY <1>5, <2>3 DEF Held
  <2>4. Held' = [Held EXCEPT ![n] = {}]
    <3>1. ASSUME NEW m \in Listed PROVE Held'[m] = [Held EXCEPT ![n] = {}][m]
      <4>1. CASE m = n
        BY <1>3, <2>2, <4>1 DEF Held
      <4>2. CASE m # n
        BY <1>3, <2>3, <4>2 DEF Held
      <4> QED
        BY <4>1, <4>2
    <3> QED
      BY <1>2, <3>1 DEF Held
  <2> QED
    BY <1>1, <1>5, <2>4 DEF Lock!Release, Held, Retired
<1> QED
  BY <1>4, <1>5

\* However often icmpd is started and stopped, and whatever its monitor list
\* repeats, a channel has one worker at a time, keeps it until that worker
\* ends, and never gets it back (nanomsg.c:247, subcmd_start.c:551-587).
THEOREM ServesInTurnCorrect == Spec => ServesInTurn
<1>1. Init => Lock!Init
  BY DEF Init, Lock!Init, Transport!Init, Transport!None, Transport!Open, Gone
<1> DEFINE Stays == Held' = Held /\ Retired' = Retired
<1>2. ASSUME NEW w \in Workers, NEW n \in Listed,
             Lock!Acquire(n, w) \/ Lock!Release(n, w) \/ Lock!Retire(w)
      PROVE  Lock!Next
  BY <1>2 DEF Lock!Next
<1>3. ASSUME NEW w \in Workers, Lock!Retire(w) PROVE Lock!Next
  BY <1>3 DEF Lock!Next
<1>4. ASSUME TransportInv, NEW p \in Processes, ProcessNext(p) \/ ProcessEnds(p)
      PROVE  Stays \/ Lock!Next
  <2>1. \A q \in Processes \ {p} : proc'[q] = proc[q]
    BY <1>4, ProcessKeeps DEF Proceeds
  <2>2. CASE Transport!CheckDirectory(p)
    <3>1. /\ proc[p].at = "check"
          /\ proc'[p].at \in {"check", "make", "endpoint"}
      BY <1>4, <2>2 DEF TransportInv, ProcType, Transport!CheckDirectory,
         Transport!FinishesPath, Transport!Checks, Transport!Makes, Transport!Goes
    <3> QED
      BY <1>4, <2>1, <3>1, HeldKept
  <2>3. CASE Transport!MakeDirectory(p)
    <3>1. /\ proc[p].at = "make" /\ proc[p].depth \in 1..2
          /\ proc[p].depth = 1 => Transport!Makes(p, 2)
          /\ proc[p].depth = 2 => Transport!FinishesPath(p)
      BY <1>4, <2>3, MakeSucceeds
    <3>2. proc \in [Processes -> ProcType]
      BY <1>4 DEF TransportInv
    <3>3. CASE Transport!Makes(p, 2)
      <4>1. proc'[p].at = "make"
        BY <3>2, <3>3 DEF Transport!Makes, ProcType
      <4> QED
        BY <1>4, <2>1, <3>1, <4>1, HeldKept
    <3>4. CASE Transport!FinishesPath(p)
      <4>1. proc'[p].at \in {"check", "endpoint"}
        BY <3>2, <3>4 DEF Transport!FinishesPath, Transport!Checks, Transport!Goes, ProcType
      <4> QED
        BY <1>4, <2>1, <3>1, <4>1, HeldKept
    <3> QED
      BY <3>1, <3>3, <3>4
  <2>4. CASE Transport!Bind(p)
    BY <1>2, <1>4, <2>4, BindAcquires
  <2>5. CASE Transport!BindFails(p)
    <3>1. p \in Workers
      BY <1>4, <2>5, BindFailsKeeps
    <3>2. proc'[p].at \in Gone /\ proc[p].at = "endpoint"
      BY <1>4, <2>5, GoesThere DEF TransportInv, Transport!BindFails, Steps, Gone
    <3> QED
      BY <1>2, <1>3, <1>4, <2>1, <3>1, <3>2, EndReleases
  <2>6. CASE Transport!Connect(p)
    BY <1>4, <2>1, <2>6, ConnectKeeps, ProcessAssumption, HeldKept
  <2>7. CASE Transport!Destroy(p)
    BY <1>4, <2>1, <2>7, DestroyKeeps, ProcessAssumption, HeldKept
  <2>8. CASE Transport!Dies(p)
    <3>1. CASE p \in Workers
      <4>1. proc'[p].at \in Gone
        BY <1>4, <2>8, EndsThere DEF TransportInv, Transport!Dies, Gone
      <4> QED
        BY <1>2, <1>3, <1>4, <2>1, <3>1, <4>1, EndReleases
    <3>2. CASE p \notin Workers
      BY <1>4, <2>1, <3>2, HeldKept
    <3> QED
      BY <3>1, <3>2
  <2> QED
    BY <1>4, <2>2, <2>3, <2>4, <2>5, <2>6, <2>7, <2>8 DEF ProcessNext, ProcessEnds, Alone
<1>5. ASSUME TransportInv, NEW p \in Processes, NEW name, NEW master,
             Transport!Create(p, name, master)
      PROVE  Stays
  <2>1. /\ proc[p].at = "none" /\ proc'[p].at = "check"
        /\ \A q \in Processes \ {p} : proc'[q] = proc[q]
    BY <1>5 DEF TransportInv, Transport!Create
  <2> QED
    BY <1>5, <2>1, HeldKept
<1>6. ASSUME UNCHANGED proc PROVE Stays
  BY <1>6 DEF Held, Retired, Transport!Open
<1>7. ASSUME IInv, [Next]_vars PROVE Stays \/ Lock!Next
  <2> HIDE DEF Stays
  <2>1. CASE \E p \in Workers \union Clients : ProcessNext(p) \/ ProcessEnds(p)
    BY <1>4, <1>7, <2>1 DEF IInv, Processes
  <2>2. CASE \E i \in 1..MaxMonitored : CreateWorker(i)
    BY <1>5, <1>7, <2>2, CreateWorkerKeeps DEF IInv, Processes
  <2>3. CASE \E c \in Clients, name \in Requestors : CallClient(c, name)
    BY <1>5, <1>7, <2>3, CallClientKeeps DEF IInv, Processes
  <2>4. CASE \/ Start \/ InitContext \/ InitContextFails \/ ForkFails \/ Pause \/ ParentExits
             \/ \E i \in 1..MaxMonitored : SkipLocal(i)
    BY <1>6, <1>7, <2>4, QuietParentKeeps DEF transportVars
  <2> QED
    BY <1>6, <1>7, <2>1, <2>2, <2>3, <2>4 DEF Next, ParentNext, vars, transportVars
<1>8. ASSUME Stays PROVE UNCHANGED Lock!vars
  BY <1>8 DEF Lock!vars, Held, Retired
<1>9. IInv /\ [Next]_vars => [Lock!Next]_(Lock!vars)
  BY <1>7, <1>8
<1> QED
  BY <1>1, <1>9, Invariance, PTL DEF Spec, ServesInTurn, Lock!Spec
=============================================================================
