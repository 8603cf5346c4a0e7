----------------------------- MODULE MCScheduler -----------------------------
(***************************************************************************)
(* Two runs on one scheduler, as the system scan and the service discovery *)
(* of one scan.  a2 and b1 share a cache key across the runs; only the     *)
(* first run carries the signal.  Functions of tasks are written as        *)
(* records, whose fields are the task ids.                                 *)
(***************************************************************************)
EXTENDS CollectionScheduler

MCRuns == {"scan", "discovery"}
MCTasks == {"a1", "a2", "b1", "b2"}
MCRunOf == [a1 |-> "scan", a2 |-> "scan",
            b1 |-> "discovery", b2 |-> "discovery"]
MCDeps == [a1 |-> {}, a2 |-> {"a1"}, b1 |-> {}, b2 |-> {}]
MCPosition == [a1 |-> 1, a2 |-> 2, b1 |-> 1, b2 |-> 2]
MCPriority == [a1 |-> 1, a2 |-> 0, b1 |-> 2, b2 |-> 0]
MCKeys == {"key"}
MCCacheKey == [a1 |-> NoKey, a2 |-> "key", b1 |-> "key", b2 |-> NoKey]
MCSignalled == {"scan"}
=============================================================================
