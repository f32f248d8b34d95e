------------------------------ MODULE MCDaemon ------------------------------
(* A small instance of Daemon for TLC. *)
EXTENDS Daemon, TLC

HostEssential == EssentialName
Builder       == <<"builder">>
Dom1          == <<"dom1">>
Dom2          == <<"dom2">>

MCRequestors == {Local, Dom1}

MCHostNames == {HostEssential}

List(s) == [kind |-> "list", names |-> s]
Star(s) == [kind |-> "wildcard", names |-> s]

\* Named after the host or by the file; the own name among the channels, one
\* channel twice, the fallback of the essential container, two starts with
\* different channels, and the settings that monitor nothing or crash.
MCConfigs ==
    { [name |-> EssentialName, monitor |-> HostKey :> List(<<Dom1>>)],
      [name |-> Builder, monitor |-> Builder :> List(<<Builder, Dom2>>)],
      [name |-> NoName, monitor |-> <<"ine", "r-", "essential">> :> List(<<Dom1, Dom1>>)],
      [name |-> Dom1, monitor |-> Dom1 :> Star(<<Dom2>>)],
      [name |-> Dom2, monitor |-> Dom2 :> Star(<<>>)] }
=============================================================================
