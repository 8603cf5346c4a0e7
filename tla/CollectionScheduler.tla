------------------------- MODULE CollectionScheduler -------------------------
(***************************************************************************)
(* The scheduler of packages/collection-runtime: run() dispatches a batch  *)
(* of tasks in dependency and priority order, executeTask() takes a permit *)
(* shared by every batch, shares executions by cache key and releases the  *)
(* permit, observeResult() adapts the number of permits.                   *)
(*                                                                         *)
(* The program is single threaded: an action is the code that runs from    *)
(* one await to the next.  Several batches ("runs") share one scheduler,   *)
(* as the system scan and the service discovery of one scan do.            *)
(***************************************************************************)
EXTENDS Integers, Sequences, FiniteSets

CONSTANTS
  Runs,        \* calls of run() on one scheduler
  Tasks,       \* the tasks of every run
  RunOf,       \* the run a task is handed to
  Deps,        \* the dependencies of a task
  Position,    \* insertion order of a task in its batch
  Priority,    \* PRIORITY_ORDER: 0 critical, 1 normal, 2 enrichment
  Keys,        \* the cache keys in use
  CacheKey,    \* the cache key of a task, or NoKey
  NoKey,
  NoTask,
  Signalled,   \* the runs whose options carry the abort signal
  MaximumConcurrency,
  MinimumConcurrency,
  PressureFailureThreshold,
  RecoverySuccessThreshold

\* What the constructor accepts.
ASSUME ConcurrencyAssumption ==
  /\ MaximumConcurrency \in Nat \ {0}
  /\ MinimumConcurrency \in 1..MaximumConcurrency
  /\ PressureFailureThreshold \in Nat \ {0}
  /\ RecoverySuccessThreshold \in Nat \ {0}

\* What a batch is: a finite list of tasks with distinct ids.
ASSUME BatchAssumption ==
  /\ IsFiniteSet(Tasks)
  /\ RunOf \in [Tasks -> Runs]
  /\ Position \in [Tasks -> Nat]
  /\ \A t, u \in Tasks : RunOf[t] = RunOf[u] /\ Position[t] = Position[u] => t = u
  /\ Priority \in [Tasks -> 0..2]
  /\ CacheKey \in [Tasks -> Keys \cup {NoKey}]
  /\ NoKey \notin Keys
  /\ NoTask \notin Tasks
  /\ Signalled \subseteq Runs

\* What validateTasks accepts: dependencies inside the batch, without a cycle.
Acyclic ==
  \E rank \in [Tasks -> 1..Cardinality(Tasks)] :
    \A t \in Tasks : \A d \in Deps[t] : rank[d] < rank[t]

ASSUME DependencyAssumption ==
  /\ Deps \in [Tasks -> SUBSET Tasks]
  /\ \A t \in Tasks : \A d \in Deps[t] : RunOf[d] = RunOf[t]
  /\ Acyclic

VARIABLES
  runState,    \* where each call of run() is
  phase,       \* where each task is
  result,      \* status a task's executeTask (or the loop) gave it
  execution,   \* the promise of task.execute() owned by the task
  source,      \* the task whose execution this task awaits
  cache,       \* cacheKey -> the task that owns the cached promise
  permits,     \* activeExecutions
  waiters,     \* permitWaiters
  control,     \* currentConcurrency and the counters that adapt it
  aborted      \* the abort signal

vars == <<runState, phase, result, execution, source, cache, permits, waiters,
          control, aborted>>

-----------------------------------------------------------------------------
RunStates == {"idle", "running", "finished", "failed"}

\* remaining: in the loop's set; waiting: queued for a permit; granted: permit
\* given, continuation not run yet; executing: awaits the execution it owns;
\* joined: awaits the execution of another task; returned: executeTask has
\* resolved; completed: the loop has recorded the result.
Phases == {"remaining", "waiting", "granted", "executing", "joined",
           "returned", "completed"}
ActivePhases == {"waiting", "granted", "executing", "joined", "returned"}

Statuses == {"success", "failed", "skipped", "cancelled"}

\* How task.execute() ends.  The two "timeout" outcomes are those
\* isRemotePressureValue and isRemotePressureError recognise.
Fulfilled == {"value", "timeoutValue"}
Rejected == {"error", "timeoutError"}
Pressure == {"timeoutValue", "timeoutError"}
Outcomes == Fulfilled \cup Rejected

TasksOf(r) == {t \in Tasks : RunOf[t] = r}
InPhase(p) == {t \in Tasks : phase[t] = p}
IsAborted(r) == aborted /\ r \in Signalled
Least(a, b) == IF a < b THEN a ELSE b
Spare(limit, taken) == IF taken < limit THEN limit - taken ELSE 0
Elements(s) == {s[i] : i \in DOMAIN s}
Front(s, k) == {s[i] : i \in 1..k}
Rest(s, k) == SubSeq(s, k + 1, Len(s))

Init ==
  /\ runState = [r \in Runs |-> "idle"]
  /\ phase = [t \in Tasks |-> "remaining"]
  /\ result = [t \in Tasks |-> "none"]
  /\ execution = [t \in Tasks |-> "none"]
  /\ source = [t \in Tasks |-> NoTask]
  /\ cache = [k \in Keys |-> NoTask]
  /\ permits = 0
  /\ waiters = <<>>
  /\ control = [current |-> MaximumConcurrency, pressured |-> 0, stable |-> 0,
                reductions |-> 0, recoveries |-> 0]
  /\ aborted = FALSE

-----------------------------------------------------------------------------
(* Permits. *)

\* Mutation: a permit given back always goes to the next waiter.
WokenAlways(queue, taken, limit) == Least(1, Len(queue))

\* wakePermitWaiters: how many waiters the loop wakes.
Woken(queue, taken, limit) == Least(Spare(limit, taken), Len(queue))

\* The continuation of t gives its permit back and moves t to phase p.
Release(t, p) ==
  LET k == Woken(waiters, permits - 1, control.current)
      woken == Front(waiters, k)
  IN /\ permits' = permits - 1 + k
     /\ waiters' = Rest(waiters, k)
     /\ phase' = [u \in Tasks |-> IF u = t THEN p
                                  ELSE IF u \in woken THEN "granted"
                                  ELSE phase[u]]

-----------------------------------------------------------------------------
(* The loop of run(). *)

\* Tasks the pass over `remaining` skips: one of their dependencies has
\* completed without success, or is skipped earlier in the same pass.
SkipPass(rest, ph, res) ==
  LET skips[t \in Tasks] ==
        /\ t \in rest
        /\ \E d \in Deps[t] :
             \/ ph[d] = "completed" /\ res[d] # "success"
             \/ Position[d] < Position[t] /\ skips[d]
  IN {t \in rest : skips[t]}

\* The order of the ready list: priority, then insertion order.
Before(t, u) ==
  \/ Priority[t] < Priority[u]
  \/ Priority[t] = Priority[u] /\ Position[t] < Position[u]

\* The first n tasks of the ready list, in its order.
Dispatched(ready, n) ==
  {line \in [1..n -> ready] :
     /\ \A i, j \in 1..n : i < j => Before(line[i], line[j])
     /\ \A u \in ready \ Elements(line) : \A i \in 1..n : Before(line[i], u)}

\* One iteration of run r, up to its await: the skip pass, the cancellation of
\* what remains, the start of ready tasks while fewer than the limit are
\* active.  executeTask asks for its permit synchronously, without looking at
\* the waiters.
Iterate(r, ph, res, taken, queue, limit) ==
  LET rest == {t \in TasksOf(r) : ph[t] = "remaining"}
      skipped == SkipPass(rest, ph, res)
      cancelled == IF IsAborted(r) THEN rest \ skipped ELSE {}
      ready == {t \in rest \ (skipped \cup cancelled) :
                  \A d \in Deps[t] : ph[d] = "completed" /\ res[d] = "success"}
      active == {t \in TasksOf(r) : ph[t] \in ActivePhases}
      n == Least(Spare(limit, Cardinality(active)), Cardinality(ready))
  IN \E line \in Dispatched(ready, n) :
       LET k == Least(Spare(limit, taken), n)
           started == Elements(line)
           granted == Front(line, k)
           left == rest \ (skipped \cup cancelled \cup started)
       IN /\ phase' = [t \in Tasks |->
                         IF t \in skipped \cup cancelled THEN "completed"
                         ELSE IF t \in granted THEN "granted"
                         ELSE IF t \in started THEN "waiting"
                         ELSE ph[t]]
          /\ result' = [t \in Tasks |-> IF t \in skipped THEN "skipped"
                                        ELSE IF t \in cancelled THEN "cancelled"
                                        ELSE res[t]]
          /\ permits' = taken + k
          /\ waiters' = queue \o Rest(line, k)
          /\ runState' = [runState EXCEPT ![r] =
               IF active \cup started # {} THEN "running"
               ELSE IF left # {} THEN "failed"    \* "cannot make progress"
               ELSE "finished"]

\* run() is called: its first iteration.
Call(r) ==
  /\ runState[r] = "idle"
  /\ Iterate(r, phase, result, permits, waiters, control.current)
  /\ UNCHANGED <<execution, source, cache, control, aborted>>

-----------------------------------------------------------------------------
(* executeTask, after the permit. *)

\* Mutation: the early return forgets the permit.
BeginCancelledLeaks(t) ==
  /\ phase[t] = "granted"
  /\ IsAborted(RunOf[t])
  /\ phase' = [phase EXCEPT ![t] = "returned"]
  /\ result' = [result EXCEPT ![t] = "cancelled"]
  /\ UNCHANGED <<runState, execution, source, cache, permits, waiters, control,
                 aborted>>

\* The signal was aborted while the task waited for its permit.
BeginCancelled(t) ==
  /\ phase[t] = "granted"
  /\ IsAborted(RunOf[t])
  /\ Release(t, "returned")
  /\ result' = [result EXCEPT ![t] = "cancelled"]
  /\ UNCHANGED <<runState, execution, source, cache, control, aborted>>

\* The key has a cached promise: give the permit back and share it.
BeginJoined(t) ==
  /\ phase[t] = "granted"
  /\ ~IsAborted(RunOf[t])
  /\ CacheKey[t] \in Keys
  /\ cache[CacheKey[t]] # NoTask
  /\ source' = [source EXCEPT ![t] = cache[CacheKey[t]]]
  /\ Release(t, "joined")
  /\ UNCHANGED <<runState, result, execution, cache, control, aborted>>

\* Mutation: the signal is not looked at again after the wait for a permit.
BeginOwnerUnchecked(t) ==
  /\ phase[t] = "granted"
  /\ CacheKey[t] \in Keys => cache[CacheKey[t]] = NoTask
  /\ phase' = [phase EXCEPT ![t] = "executing"]
  /\ execution' = [execution EXCEPT ![t] = "pending"]
  /\ source' = [source EXCEPT ![t] = t]
  /\ cache' = [k \in Keys |-> IF k = CacheKey[t] THEN t ELSE cache[k]]
  /\ UNCHANGED <<runState, result, permits, waiters, control, aborted>>

\* Start task.execute() and publish its promise under the key.
BeginOwner(t) ==
  /\ phase[t] = "granted"
  /\ ~IsAborted(RunOf[t])
  /\ CacheKey[t] \in Keys => cache[CacheKey[t]] = NoTask
  /\ phase' = [phase EXCEPT ![t] = "executing"]
  /\ execution' = [execution EXCEPT ![t] = "pending"]
  /\ source' = [source EXCEPT ![t] = t]
  /\ cache' = [k \in Keys |-> IF k = CacheKey[t] THEN t ELSE cache[k]]
  /\ UNCHANGED <<runState, result, permits, waiters, control, aborted>>

\* task.execute() settles: the remote command, outside the scheduler.
Settle(t, o) ==
  /\ execution[t] = "pending"
  /\ execution' = [execution EXCEPT ![t] = o]
  /\ UNCHANGED <<runState, phase, result, source, cache, permits, waiters,
                 control, aborted>>

\* Mutation: the signal is looked at before the value.
StatusOfSignalFirst(t) ==
  IF IsAborted(RunOf[t]) THEN "cancelled"
  ELSE IF execution[source[t]] \in Fulfilled THEN "success" ELSE "failed"

\* The status executeTask makes of the execution it awaited.
StatusOf(t) ==
  IF execution[source[t]] \in Fulfilled THEN "success"
  ELSE IF IsAborted(RunOf[t]) THEN "cancelled" ELSE "failed"

\* The owner's continuation: a rejected promise leaves the cache, the permit
\* is released in the finally block.
ReturnOwner(t) ==
  /\ phase[t] = "executing"
  /\ execution[t] \in Outcomes
  /\ result' = [result EXCEPT ![t] = StatusOf(t)]
  /\ cache' = [k \in Keys |-> IF k = CacheKey[t] /\ execution[t] \in Rejected
                              THEN NoTask ELSE cache[k]]
  /\ Release(t, "returned")
  /\ UNCHANGED <<runState, execution, source, control, aborted>>

\* A sharer's continuation.  It awaited the promise after the owner, so it runs
\* after the owner's.
ReturnJoined(t) ==
  /\ phase[t] = "joined"
  /\ phase[source[t]] \in {"returned", "completed"}
  /\ phase' = [phase EXCEPT ![t] = "returned"]
  /\ result' = [result EXCEPT ![t] = StatusOf(t)]
  /\ UNCHANGED <<runState, execution, source, cache, permits, waiters, control,
                 aborted>>

-----------------------------------------------------------------------------
(* The loop takes a settled task. *)

Counted(t) == result[t] \in {"success", "failed"} /\ source[t] = t
Pressured(t) == execution[t] \in Pressure

\* A timeout or a refused channel: enough in a row reduce the limit.
AfterPressure(c) ==
  IF /\ c.current > MinimumConcurrency
     /\ c.pressured + 1 >= PressureFailureThreshold
  THEN [c EXCEPT !.current = MinimumConcurrency, !.pressured = 0, !.stable = 0,
                 !.reductions = @ + 1]
  ELSE [c EXCEPT !.pressured = @ + 1, !.stable = 0]

\* Any other result ends the series; enough successes restore the limit.
AfterCalm(c, success) ==
  IF ~success \/ c.current >= MaximumConcurrency
  THEN [c EXCEPT !.pressured = 0, !.stable = 0]
  ELSE IF c.stable + 1 < RecoverySuccessThreshold
  THEN [c EXCEPT !.pressured = 0, !.stable = @ + 1]
  ELSE [c EXCEPT !.current = MaximumConcurrency, !.pressured = 0, !.stable = 0,
                 !.recoveries = @ + 1]

\* observeResult: the counters after the result of t.
Observed(t) ==
  IF ~Counted(t) THEN control
  ELSE IF Pressured(t) THEN AfterPressure(control)
  ELSE AfterCalm(control, result[t] = "success")

\* Mutation: a recovery wakes nobody.
RecoveryIgnored(t) == FALSE

\* A recovery wakes waiters.
Recovered(t) == Observed(t).recoveries > control.recoveries

\* Promise.race answers with t: record it, adapt the limit (a recovery wakes
\* waiters of any run), and run the next iteration.
Take(r, t) ==
  /\ runState[r] = "running"
  /\ RunOf[t] = r
  /\ phase[t] = "returned"
  /\ control' = Observed(t)
  /\ LET k == IF Recovered(t)
              THEN Woken(waiters, permits, control'.current) ELSE 0
         woken == Front(waiters, k)
         ph == [u \in Tasks |-> IF u = t THEN "completed"
                                ELSE IF u \in woken THEN "granted" ELSE phase[u]]
     IN Iterate(r, ph, result, permits + k, Rest(waiters, k),
                control'.current)
  /\ UNCHANGED <<execution, source, cache, aborted>>

\* The caller aborts the signal it handed to some run.
Abort ==
  /\ ~aborted
  /\ Signalled # {}
  /\ aborted' = TRUE
  /\ UNCHANGED <<runState, phase, result, execution, source, cache, permits,
                 waiters, control>>

\* Every run is over: the program goes on without the scheduler.
Terminated ==
  /\ \A r \in Runs : runState[r] \in {"finished", "failed"}
  /\ UNCHANGED vars

Next ==
  \/ \E r \in Runs : Call(r)
  \/ \E t \in Tasks : BeginCancelled(t)
  \/ \E t \in Tasks : BeginJoined(t)
  \/ \E t \in Tasks : BeginOwner(t)
  \/ \E t \in Tasks, o \in Outcomes : Settle(t, o)
  \/ \E t \in Tasks : ReturnOwner(t)
  \/ \E t \in Tasks : ReturnJoined(t)
  \/ \E r \in Runs, t \in Tasks : Take(r, t)
  \/ Abort
  \/ Terminated

\* Promise continuations always run, and a remote command settles: executeRaw
\* forces a result at its deadline.  Nobody has to call run or abort.  That the
\* event loop never stands still while something is ready is all that is asked.
Advance(t) ==
  \/ BeginCancelled(t) \/ BeginJoined(t) \/ BeginOwner(t)
  \/ \E o \in Outcomes : Settle(t, o)
  \/ ReturnOwner(t) \/ ReturnJoined(t)
  \/ Take(RunOf[t], t)

Fairness == WF_vars(\E t \in Tasks : Advance(t))

Spec == Init /\ [][Next]_vars
FairSpec == Spec /\ Fairness

-----------------------------------------------------------------------------
(* Properties. *)

TypeOK ==
  /\ runState \in [Runs -> RunStates]
  /\ phase \in [Tasks -> Phases]
  /\ result \in [Tasks -> Statuses \cup {"none"}]
  /\ execution \in [Tasks -> Outcomes \cup {"none", "pending"}]
  /\ source \in [Tasks -> Tasks \cup {NoTask}]
  /\ cache \in [Keys -> Tasks \cup {NoTask}]
  /\ permits \in Int
  /\ waiters \in Seq(Tasks)
  /\ control \in [current : MinimumConcurrency..MaximumConcurrency,
                  pressured : Nat, stable : Nat, reductions : Nat,
                  recoveries : Nat]
  /\ aborted \in BOOLEAN

\* activeExecutions counts exactly the tasks that hold a permit, across every
\* run, and never exceeds the configured maximum: no path through executeTask
\* leaks a permit or gives one back twice.
Holders == InPhase("granted") \cup InPhase("executing")
PermitLedger ==
  /\ permits = Cardinality(Holders)
  /\ permits <= MaximumConcurrency

\* Nobody waits while the limit leaves a permit free: a release, a reduction
\* and a recovery, whatever their order, lose no wake-up.
NoLostWakeup == waiters # <<>> => permits >= control.current

\* permitWaiters holds each task that waits for a permit exactly once.
QueueExact ==
  /\ Elements(waiters) = InPhase("waiting")
  /\ \A i, j \in DOMAIN waiters : waiters[i] = waiters[j] => i = j

\* At most one live or fulfilled execution per cache key, across the runs: the
\* owner's unconditional cache.delete never removes a promise of another task.
Live(t) == execution[t] \in Fulfilled \cup {"pending"}
SingleFlight ==
  \A t, u \in Tasks :
    Live(t) /\ Live(u) /\ CacheKey[t] = CacheKey[u] /\ CacheKey[t] \in Keys => t = u

\* A task that shares an execution succeeds exactly when the owner does, even
\* when the owner belongs to another run and was cancelled there.
SharersAgree ==
  \A t \in Tasks :
    source[t] # NoTask /\ result[t] # "none" =>
      (result[t] = "success" <=> result[source[t]] = "success")

\* A permit is granted, by acquirePermit or by a wake-up, only within the limit
\* in force: after a reduction the permits in excess drain before any is granted.
Granted(t) == phase[t] \in {"remaining", "waiting"} /\ phase'[t] = "granted"
GrantInLimit == (\E t \in Tasks : Granted(t)) => permits' <= control'.current
GrantsWithinLimit == [][GrantInLimit]_vars

\* Every run that was called ends: no run waits for a permit, a shared
\* execution or another run for ever, aborted or not.
RunsEnd == \A r \in Runs : runState[r] = "running" ~> runState[r] = "finished"

-----------------------------------------------------------------------------
(* The contract of a batch: see TaskContract. *)

TaskState == [t \in Tasks |->
  CASE phase[t] \in {"remaining", "waiting", "granted"} -> "pending"
    [] phase[t] \in {"executing", "joined"} -> "running"
    [] OTHER -> result[t]]

Contract == INSTANCE TaskContract WITH state <- TaskState

\* The scheduler implements the contract.
ContractSpec == Contract!Spec
=============================================================================
