--------------------------- MODULE CommandPolicy ---------------------------
(***************************************************************************)
(* The access decision an icmpd worker takes before it runs a command      *)
(* (src/icmpd/subcmd_start.c, check_limited_commands, check_command_acl,   *)
(* check_command).  The configuration file is read once by the parent,     *)
(* before it forks the workers, and never changes afterwards, so a         *)
(* decision is a function of the configuration, the command and the name   *)
(* of the worker's transport.  Only the error number outlives a decision.  *)
(***************************************************************************)

CONSTANTS
    Commands,     \* program names: the first word of a command line
    Entries,      \* elements a `commands' setting may list
    PrefixOf,     \* pairs <<entry, command>> such that entry is a prefix
    Containers    \* names an `acl' setting may list

ASSUME PrefixAssumption == PrefixOf \subseteq Entries \X Commands

Essential == "container-essential"   \* the only name with a fallback
Ordinary  == "ordinary"              \* any other local container name
Unknown   == "unknown"               \* ic_container_name() returned NULL

LocalNames == {Essential, Ordinary, Unknown}

(***************************************************************************)
(* What ic_conf_file_query() yields for a key: NULL, "*", the empty string *)
(* or a colon-separated list with at least one element.                    *)
(***************************************************************************)
Setting(Names) ==
    {[kind |-> k, items |-> {}] : k \in {"absent", "wildcard", "empty"}}
      \union {[kind |-> "list", items |-> S] : S \in (SUBSET Names) \ {{}}}

Policy ==
    [local : LocalNames,
     own   : Setting(Entries),                  \* .<local name>.commands
     host  : Setting(Entries),                  \* .host.commands
     acl   : [Commands -> Setting(Containers)]] \* .commands.<cmd>.acl

(***************************************************************************)
(* "granted" is a return value of 0, "denied" is -1 with ic_errno set to   *)
(* IC_ERRNO_COMMAND_DENIED, "failed" is -1 with ic_errno left alone.       *)
(***************************************************************************)
Verdicts == {"granted", "denied", "failed"}

Verdict(setting, listed) ==
    CASE setting.kind \in {"absent", "wildcard"} -> "granted"
      [] setting.kind = "empty"                  -> "failed"
      [] setting.kind = "list"                   -> IF listed THEN "granted"
                                                              ELSE "denied"

LimitingSetting(policy) ==
    IF policy.own.kind = "absent" /\ policy.local = Essential
    THEN policy.host
    ELSE policy.own

CheckLimitedCommands(policy, cmd) ==
    LET setting == LimitingSetting(policy)
    IN  IF policy.local = Unknown
        THEN "failed"
        ELSE Verdict(setting, \E e \in setting.items : <<e, cmd>> \in PrefixOf)

CheckCommandAcl(policy, cmd, requestor) ==
    LET setting == policy.acl[cmd]
    IN  Verdict(setting, requestor \in setting.items)

\* Fault: the access list is never consulted.
SkipAcl(policy, cmd, requestor) == CheckLimitedCommands(policy, cmd)

CheckCommand(policy, cmd, requestor) ==
    LET limited == CheckLimitedCommands(policy, cmd)
    IN  IF limited # "granted"
        THEN limited
        ELSE CheckCommandAcl(policy, cmd, requestor)

(***************************************************************************)
(* ic_errno is process-wide and nothing ever resets it.                    *)
(***************************************************************************)
Errnos == {"BASE", "COMMAND_DENIED"}

\* Fault: every failed check reports a denial.
DenyAlways(errno, verdict) ==
    IF verdict = "granted" THEN errno ELSE "COMMAND_DENIED"

ErrnoAfter(errno, verdict) ==
    IF verdict = "denied" THEN "COMMAND_DENIED" ELSE errno

(***************************************************************************)
(* The meaning of a configuration, said without the order of the checks: a *)
(* setting allows what it does not restrict and what it lists, and an      *)
(* unreadable (empty) setting allows nothing.                              *)
(***************************************************************************)
Allows(setting, listed) ==
    \/ setting.kind \in {"absent", "wildcard"}
    \/ setting.kind = "list" /\ listed

Grants(policy, cmd, requestor) ==
    /\ policy.local # Unknown
    /\ Allows(LimitingSetting(policy),
              \E e \in LimitingSetting(policy).items : <<e, cmd>> \in PrefixOf)
    /\ Allows(policy.acl[cmd], requestor \in policy.acl[cmd].items)
=============================================================================
