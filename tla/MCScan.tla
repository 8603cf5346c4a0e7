-------------------------------- MODULE MCScan --------------------------------
(***************************************************************************)
(* Three probes, one of them with two variants and one that is optional,   *)
(* the whole of M4, and both profiles.                                     *)
(***************************************************************************)
EXTENDS ScanWorkflow

MCProbes == {"os-release", "timezone", "firewall"}
MCVariants ==
  [p \in MCProbes |-> CASE p = "os-release" -> <<"os-release">>
                       [] p = "timezone" -> <<"timezone", "timezone-file">>
                       [] p = "firewall" -> <<"firewalld">>]
MCRequired == {"os-release", "timezone"}

MCSettings ==
  {[deep |-> TRUE, retained |-> TRUE, useSudo |-> "auto", password |-> TRUE,
    root |-> FALSE, largeConfig |-> FALSE],
   [deep |-> FALSE, retained |-> FALSE, useSudo |-> "always", password |-> FALSE,
    root |-> TRUE, largeConfig |-> TRUE]}

MCFailed == Result("failed", "none", "empty")
MCMissing == Result("command_missing", "none", "empty")
MCCut == Result("timeout", "part", "empty")
MCGarbled == Result("success", "garbled", "empty")

\* What can go wrong at each command, where it makes a difference to the code: find
\* and stat end with 1 when something is missing or denied; the parsers of units,
\* links and paths reject nothing.
MCAnswers(c) ==
  CASE c = "process-links" -> {MCCut, Result("failed", "part", "empty")}
    [] c = "systemd-units" -> {MCCut, MCMissing}
    [] c = "docker-ps" -> {MCGarbled, MCMissing}
    [] c \in {"timezone", "ss", "compose-ls", "docker-compose-ls"} -> {MCFailed, MCGarbled}
    [] c = "read-config" -> {MCMissing, MCGarbled}
    [] c = "find" -> {MCCut, Result("success", "over", "empty"),
                      Result("failed", "none", "not_found"),
                      Result("failed", "none", "unsupported")}
    [] c = "stat" -> {MCCut, Result("failed", "none", "unsupported")}
    [] c = "stat-batch" -> {MCCut, Result("failed", "part", "mixed"), MCMissing}
    [] c \in {"find-stat", "stat-basic", "stat-basic-batch"} ->
         {Result("permission_denied", "part", "empty")}
    [] OTHER -> {MCFailed}
=============================================================================
