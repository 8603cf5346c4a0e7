---------------------------- MODULE TaskContract ----------------------------
(***************************************************************************)
(* What run() of the collection scheduler promises of a batch, whatever    *)
(* its permits, queues and cache do: a task runs only after its            *)
(* dependencies succeeded, gets one result and keeps it, is skipped only   *)
(* because of a dependency, and is cancelled only by its signal.  One turn *)
(* of the program may move several tasks.                                  *)
(***************************************************************************)
CONSTANTS Tasks, Deps, RunOf, Signalled

VARIABLES state, aborted

Settled == {"success", "failed", "skipped", "cancelled"}
Unsuccessful == Settled \ {"success"}

Init ==
  /\ state = [t \in Tasks |-> "pending"]
  /\ aborted = FALSE

Start(t) ==
  /\ state[t] = "pending" /\ state'[t] = "running"
  /\ ~(aborted /\ RunOf[t] \in Signalled)
  /\ \A d \in Deps[t] : state[d] = "success"

Finish(t) ==
  /\ state[t] = "running"
  /\ \/ state'[t] \in {"success", "failed"}
     \/ state'[t] = "cancelled" /\ aborted /\ RunOf[t] \in Signalled

Skip(t) ==
  /\ state[t] = "pending" /\ state'[t] = "skipped"
  /\ \E d \in Deps[t] : state'[d] \in Unsuccessful

Cancel(t) ==
  /\ state[t] = "pending" /\ state'[t] = "cancelled"
  /\ aborted /\ RunOf[t] \in Signalled

Turn ==
  /\ state' \in [Tasks -> Settled \cup {"pending", "running"}]
  /\ \A t \in Tasks :
       state'[t] = state[t] \/ Start(t) \/ Finish(t) \/ Skip(t) \/ Cancel(t)
  /\ aborted' = aborted

Abort == aborted' = TRUE /\ UNCHANGED state

Next == Turn \/ Abort

Spec == Init /\ [][Next]_<<state, aborted>>
=============================================================================
