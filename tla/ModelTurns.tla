------------------------------- MODULE ModelTurns -------------------------------
(***************************************************************************)
(* One task given to a model: CodexBatchDiscoveryAdapter.discover and       *)
(* .reconcile, composeWiki, CodexPostReportAgentAdapter.investigate.  The   *)
(* model is called until an answer is valid; an answer that is not is sent  *)
(* back with what is wrong with it, a call that fails for a passing reason  *)
(* is made again, and a budget of calls and an abort signal end it all.     *)
(***************************************************************************)
EXTENDS Naturals

CONSTANTS
  MaxRetries,    \* maxRetries: transport retries of a turn, and repairs of a task
  MaxInquiries   \* investigate's own maxRetries

ASSUME RetriesAssumption == MaxRetries \in Nat /\ MaxInquiries \in Nat

VARIABLE
  agent  \* the task: `calls` is callCount, `begun` the requests the model was sent, and
         \* `before` callCount when the signal aborted

Kinds == {"discover", "reconcile", "compose", "investigate"}

\* runTurn retries, wikiTurn and run do not.
TransportRetries(kind) == IF kind \in {"discover", "reconcile"} THEN MaxRetries ELSE 0
Repairs(kind) == IF kind = "investigate" THEN MaxInquiries ELSE MaxRetries

\* A task that begins, with at most `max` calls.
Task(kind, max) ==
  [kind |-> kind, max |-> max, phase |-> "ready", calls |-> 0, begun |-> 0, repairs |-> 0,
   transport |-> 0, aborted |-> FALSE, before |-> 0]

NoTask == [Task("compose", 0) EXCEPT !.phase = "none"]

Phases == {"none", "ready", "waiting", "completed", "degraded", "thrown"}
Over == {"completed", "degraded", "thrown"}

\* What the task comes to when it fails: investigate throws, the others answer.
Failed(task) ==
  [task EXCEPT !.phase = IF task.kind = "investigate" THEN "thrown" ELSE "degraded"]

\* Mutation: one call too many.
ExhaustedLate(task) == task.kind # "investigate" /\ task.calls > task.max

\* onCall of discover and composeWiki; investigate has no budget.
Exhausted(task) == task.kind # "investigate" /\ task.calls >= task.max

\* The catch of runTurn goes on with its loop.
Retried(task, transient) ==
  /\ transient
  /\ ~task.aborted
  /\ task.transport < TransportRetries(task.kind)

\* Mutation: a request that is rejected because of the abort signal is not a failure.
RejectedUnheard(task, transient) ==
  IF task.aborted THEN task
  ELSE IF Retried(task, transient) THEN [task EXCEPT !.phase = "ready", !.transport = @ + 1]
  ELSE Failed(task)

\* The request is rejected, for a reason that isTransientError recognises or not.
Rejected(task, transient) ==
  IF Retried(task, transient) THEN [task EXCEPT !.phase = "ready", !.transport = @ + 1]
  ELSE Failed(task)

\* investigate counts a call when its answer is there, the others when it begins.
Begins(task) == [task EXCEPT !.calls = IF task.kind = "investigate" THEN @ ELSE @ + 1]
Arrives(task) == [task EXCEPT !.calls = IF task.kind = "investigate" THEN @ + 1 ELSE @]

\* onCall and the request.  That the budget is used up is not a passing reason.  A signal
\* that has aborted rejects the request before it is sent.
Call ==
  /\ agent.phase = "ready"
  /\ IF Exhausted(agent) THEN agent' = Failed(agent)
     ELSE IF agent.aborted THEN \E b \in BOOLEAN : agent' = Rejected(Begins(agent), b)
     ELSE agent' = [Begins(agent) EXCEPT !.phase = "waiting", !.begun = @ + 1]

Reject(transient) ==
  /\ agent.phase = "waiting"
  /\ agent' = Rejected(agent, transient)

\* An answer that is not valid is sent back, until repairs are used up.
Repaired(task) ==
  IF task.repairs = Repairs(task.kind) THEN Failed(task)
  ELSE [task EXCEPT !.phase = "ready", !.repairs = @ + 1, !.transport = 0]

\* An answer arrives, perhaps just before the signal that would have stopped it.
Answer(valid) ==
  /\ agent.phase = "waiting"
  /\ agent' = IF valid THEN [Arrives(agent) EXCEPT !.phase = "completed"]
              ELSE Repaired(Arrives(agent))

\* The time limit passes, or the user interrupts.
Abort ==
  /\ agent.phase \in {"ready", "waiting"}
  /\ ~agent.aborted
  /\ agent' = [agent EXCEPT !.aborted = TRUE, !.before = agent.calls]

-----------------------------------------------------------------------------
\* The budget of a task holds across repairs and retries of the transport, every request
\* that was sent is counted, and once the signal has aborted at most one more call is
\* counted: the one for the repair of an answer that came at the same time.
CallsBounded ==
  /\ agent.kind # "investigate" => agent.calls <= agent.max /\ agent.begun <= agent.calls
  /\ agent.kind = "investigate" => agent.begun <= 1 + MaxInquiries
  /\ agent.aborted => agent.calls <= agent.before + 1
=============================================================================
