------------------------------ MODULE MCSession ------------------------------
(***************************************************************************)
(* Two processes that connect to one host, one of which runs a command.    *)
(* The file may hold the key of another host, which nobody connects to.    *)
(***************************************************************************)
EXTENDS SshSession, TLC

MCProcesses == {"scan", "other"}
MCHostOf == [scan |-> "h1", other |-> "h1"]
MCPolicies == [scan |-> {"strict", "acceptNew"}, other |-> {"acceptNew"}]
MCProcessOf == [c1 |-> "scan"]
Symmetry == Permutations(Keys)
=============================================================================
