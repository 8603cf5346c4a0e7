------------------------------ MODULE ProbeRound ------------------------------
(***************************************************************************)
(* The probe round: the governor compiles the requests of a decision into  *)
(* a plan, the plan becomes tasks of a scheduler of its own, disk tasks    *)
(* share permits inside those of the scheduler, and the values of the      *)
(* tasks become one result for each request.                               *)
(*                                                                         *)
(* A request that is refused whatever the others are (kind, evidence,      *)
(* timeout, forbidden path, search term) takes no part in anything and is  *)
(* left out.                                                               *)
(***************************************************************************)
EXTENDS Integers, Sequences, SequencesExt, FiniteSets, FiniteSetsExt

CONSTANTS
  Paths,         \* paths of the host, as sequences of names
  Mounts,        \* those at which another file system begins
  Links,         \* those that are symbolic links
  Pruned,        \* those of directories such as .git, vendor and cache
  Matching,      \* those whose name has the term that all searches are for
  KnownOf,       \* what the candidates of a service own: paths, process ids
  Roots,         \* other roots a search may have: /opt, /srv, ..., data mounts
  Decisions,     \* sequences of probe requests that passed validation
  MaxDepth,      \* limits of the policy
  MaxRequests,
  MaxTotalBytes,
  BatchSize,     \* chunks of requests asked for by one command
  Concurrency,   \* tasks of the scheduler at a time
  DiskPermits    \* capacity of the PermitPool

ASSUME RoundAssumption ==
  /\ MaxDepth \in 1..8
  /\ {MaxRequests, MaxTotalBytes} \subseteq Nat
  /\ {BatchSize, Concurrency, DiskPermits} \subseteq Nat \ {0}
  /\ \A p \in Paths : p \in Seq(Range(p))
  /\ {Mounts, Links, Pruned, Matching, Roots} \subseteq SUBSET Paths

VARIABLES
  pc,       \* "compile", "schedule", "running", "done", "thrown"
  decision, \* the requests of the decision
  left,     \* positions in it that the governor has yet to consider
  plan,     \* requests, bytes and audit of the plan
  tasks,    \* the tasks, in the order of their definition
  line,     \* waiters of the PermitPool
  expired   \* the signal: the deadline of the round, or the user's

vars == <<pc, decision, left, plan, tasks, line, expired>>

-----------------------------------------------------------------------------
(* Requests.  id, kind, service, object (a path, or a process id), depth,    *)
(* bytes, and most, how many entries of the output the result keeps: depth  *)
(* matters to listings and searches only, most to logs as well.            *)

HasDepth(r) == r.kind \in {"listing", "search"}
OnDisk(r) == r.kind \in {"listing", "search", "log", "stat"}

\* approvedRoots and knownPaths.
RootsOf(r) ==
  (KnownOf[r.service] \cap Paths) \cup (IF r.kind = "search" THEN Roots ELSE {})

\* rejectionReason: too deep, or not traced to a candidate of its service.
Refused(r) ==
  \/ HasDepth(r) /\ r.depth > MaxDepth
  \/ r.kind = "process" /\ r.object \notin KnownOf[r.service]
  \/ OnDisk(r) /\ \A root \in RootsOf(r) : ~IsPrefix(root, r.object)

\* What the schema of a request asks for.
Kinds == {"listing", "search", "log", "stat", "process"}
WellFormed(r) ==
  /\ r.kind \in Kinds
  /\ {r.depth, r.bytes, r.most} \subseteq Nat
  /\ OnDisk(r) => r.object \in Paths

ASSUME RequestAssumption ==
  \A d \in Decisions : d \in Seq(Range(d)) /\ \A r \in Range(d) : WellFormed(r)

Init ==
  /\ pc = "compile"
  /\ decision \in Decisions
  /\ left = {i \in DOMAIN decision : ~Refused(decision[i])}
  /\ plan = [requests |-> << >>, bytes |-> 0, audit |-> << >>]
  /\ tasks = << >>
  /\ line = << >>
  /\ expired = FALSE

\* compareForCoverage: by the depth of the path; requests without one come last.
Before(r, s) == OnDisk(r) /\ (OnDisk(s) => Len(r.object) < Len(s.object))

\* The next of the requests left to consider.  sort() is stable.
Foremost(i) ==
  \A j \in left \ {i} :
    \/ Before(decision[i], decision[j])
    \/ ~Before(decision[j], decision[i]) /\ i < j

\* semanticKey of the governor: only a search has its depth in it.
GovernorKey(r) ==
  <<r.kind, r.service, r.object, IF r.kind = "search" THEN r.depth ELSE 0>>

\* Mutation: the depth of the ancestor is not looked at.
CoversAnyDepth(a, r) ==
  \/ GovernorKey(a) = GovernorKey(r)
  \/ /\ a.kind = r.kind /\ a.service = r.service
     /\ IsPrefix(a.object, r.object)
     /\ HasDepth(r) \/ r.kind = "log"

\* covers: the same key, or an ancestor that goes deep enough.  The ancestor of
\* a log is taken to cover it at any distance.
Covers(a, r) ==
  \/ GovernorKey(a) = GovernorKey(r)
  \/ /\ a.kind = r.kind /\ a.service = r.service
     /\ IsPrefix(a.object, r.object)
     /\ \/ HasDepth(r) /\ a.depth >= Len(r.object) - Len(a.object) + r.depth
        \/ r.kind = "log"

Audited(p, r, status, canonical) ==
  [p EXCEPT !.audit = Append(@, [request |-> r, status |-> status,
                                 canonical |-> canonical])]

Accepted(p, r) ==
  [Audited(p, r, "accepted", r) EXCEPT !.requests = Append(@, r), !.bytes = @ + r.bytes]

OverBudget(p, r) ==
  Len(p.requests) >= MaxRequests \/ p.bytes + r.bytes > MaxTotalBytes

\* find(): the first request of the plan that covers another.
Coverers(p, r) == {i \in DOMAIN p.requests : Covers(p.requests[i], r)}
Canonical(p, r) ==
  p.requests[CHOOSE i \in Coverers(p, r) : \A j \in Coverers(p, r) : i <= j]

\* Mutation: what is merged away is charged.
ConsideredCharging(p, r) ==
  IF Coverers(p, r) # {}
  THEN [Audited(p, r, "deduplicated", Canonical(p, r)) EXCEPT !.bytes = @ + r.bytes]
  ELSE IF OverBudget(p, r) THEN Audited(p, r, "rejected", r)
  ELSE Accepted(p, r)

\* One turn of the loop of compileGovernedProbePlan.
Considered(p, r) ==
  IF Coverers(p, r) # {} THEN Audited(p, r, "deduplicated", Canonical(p, r))
  ELSE IF OverBudget(p, r) THEN Audited(p, r, "rejected", r)
  ELSE Accepted(p, r)

\* The loop, one turn at a time: nothing else runs meanwhile.
Compile ==
  /\ pc = "compile"
  /\ \/ /\ left = {}
        /\ pc' = "schedule"
        /\ UNCHANGED <<plan, left>>
     \/ \E i \in left :
          /\ Foremost(i)
          /\ plan' = Considered(plan, decision[i])
          /\ left' = left \ {i}
          /\ pc' = pc
  /\ UNCHANGED <<decision, tasks, line, expired>>

-----------------------------------------------------------------------------
(* Tasks. *)

Task(requests, disk) ==
  [requests |-> requests, disk |-> disk, phase |-> "remaining", outcome |-> "none",
   owner |-> 0]

\* The members of a finite set of positions, in order.
InOrder(P) ==
  CHOOSE f \in [1..Cardinality(P) -> P] :
    \A i, j \in 1..Cardinality(P) : i < j => f[i] < f[j]

\* filter(): the members of s at the positions P.
Filtered(s, P) == LET at == InOrder(P) IN [k \in DOMAIN at |-> s[at[k]]]

Stats == {i \in DOMAIN plan.requests : plan.requests[i].kind = "stat"}

\* chunks().
Batches ==
  LET stats == Filtered(plan.requests, Stats)
      n == Len(stats)
  IN [b \in 1..((n + BatchSize - 1) \div BatchSize) |->
        Task(SubSeq(stats, (b - 1) * BatchSize + 1, Min({b * BatchSize, n})), TRUE)]

\* Mutation: a request that is in a batch has a task of its own as well.
SinglesAll ==
  [i \in DOMAIN plan.requests |-> Task(<<plan.requests[i]>>, OnDisk(plan.requests[i]))]

\* The requests whose id is in no batch.
Singles ==
  LET batched == {plan.requests[i].id : i \in Stats}
      single == Filtered(plan.requests,
                         {i \in DOMAIN plan.requests : plan.requests[i].id \notin batched})
  IN [i \in DOMAIN single |-> Task(<<single[i]>>, OnDisk(single[i]))]

Ids(requests) == [i \in DOMAIN requests |-> requests[i].id]
TaskId(t) == <<t.requests[1].kind = "stat", Ids(t.requests)>>

\* semanticKey of the execution, by which the scheduler shares executions: the
\* service is not part of it.
CacheKey(t) ==
  [i \in DOMAIN t.requests |->
     LET r == t.requests[i]
     IN <<r.kind, r.object, IF r.kind = "search" THEN r.depth ELSE 0>>]

-----------------------------------------------------------------------------
(* The scheduler, for the one run it has: see CollectionScheduler.  Its limit *)
(* is taken to stay the same.  st is a pair of tasks and line.             *)

Busy(st) == {i \in DOMAIN st.tasks : st.tasks[i].phase \in {"queued", "executing", "joined"}}
Holding(st) == {i \in DOMAIN st.tasks : st.tasks[i].phase = "executing" /\ st.tasks[i].disk}

\* The execution in the cache under the key of task i, pending or fulfilled.
Cached(st, i) ==
  {j \in DOMAIN st.tasks :
     /\ st.tasks[j].owner = j
     /\ CacheKey(st.tasks[j]) = CacheKey(st.tasks[i])
     /\ st.tasks[j].phase \in {"queued", "executing"} \/ st.tasks[j].outcome = "value"}

\* PermitPool.acquire: a permit of the disk, or a place in the line for one.
Acquired(st, i) ==
  IF Cardinality(Holding(st)) >= DiskPermits
  THEN [st EXCEPT !.tasks[i].phase = "queued", !.line = Append(@, i)]
  ELSE [st EXCEPT !.tasks[i].phase = "executing"]

\* Task i begins: it joins, or executes as soon as it has a permit of the disk.
Begun(st, i) ==
  IF Cached(st, i) # {}
  THEN LET j == CHOOSE j \in Cached(st, i) : TRUE
       IN [st EXCEPT !.tasks[i].owner = j,
                     !.tasks[i].outcome = st.tasks[j].outcome,
                     !.tasks[i].phase = IF st.tasks[j].phase = "done" THEN "done" ELSE "joined"]
  ELSE LET own == [st EXCEPT !.tasks[i].owner = i]
       IN IF st.tasks[i].disk THEN Acquired(own, i)
          ELSE [own EXCEPT !.tasks[i].phase = "executing"]

Dispatched(st, i) ==
  IF Cardinality(Busy(st)) >= Concurrency THEN st ELSE Begun(st, i)

\* A task on the disk is of less priority than one that is not.
Turn(st, i, disk) ==
  IF st.tasks[i].phase = "remaining" /\ st.tasks[i].disk = disk THEN Dispatched(st, i) ELSE st

\* The loop of run() until it waits: cancel all that remains, or dispatch by
\* priority and order.  The set of one value, here and below, has TLC evaluate it
\* once.
Pass(st) ==
  LET n == Len(st.tasks)
      after[k \in 0..2 * n] ==
        IF k = 0 THEN st
        ELSE CHOOSE now \in {IF k <= n THEN Turn(s, k, FALSE) ELSE Turn(s, k - n, TRUE) :
                               s \in {after[k - 1]}} : TRUE
  IN IF expired
     THEN [st EXCEPT !.tasks = [i \in DOMAIN @ |->
             IF @[i].phase = "remaining"
             THEN [@[i] EXCEPT !.phase = "done", !.outcome = "cancelled"] ELSE @[i]]]
     ELSE after[2 * n]

Continue(st) ==
  \E now \in {Pass(s) : s \in {st}} :
    /\ tasks' = now.tasks
    /\ line' = now.line
    /\ pc' = IF \A i \in DOMAIN now.tasks : now.tasks[i].phase = "done"
             THEN "done" ELSE "running"

\* buildTaskDefinitions, validateTasks and the first pass.
Schedule ==
  /\ pc = "schedule"
  /\ \E ts \in {Batches \o Singles} :
       IF \E i, j \in DOMAIN ts : i # j /\ TaskId(ts[i]) = TaskId(ts[j])
       THEN pc' = "thrown" /\ UNCHANGED <<tasks, line>>
       ELSE Continue([tasks |-> ts, line |-> << >>])
  /\ UNCHANGED <<decision, left, plan, expired>>

\* Mutation: the waiters of the disk are not woken.
HandedNone(st, i) == st

\* The release of the PermitPool: the permit goes to the next in line.
Handed(st, i) ==
  IF st.tasks[i].disk /\ st.line # << >>
  THEN [st EXCEPT !.tasks[Head(st.line)].phase = "executing", !.line = Tail(@)]
  ELSE st

\* Task i and those that joined it have their outcome.
Settled(st, i, outcome) ==
  [st EXCEPT !.tasks = [j \in DOMAIN @ |->
     IF @[j].phase \in {"executing", "joined"} /\ @[j].owner = i
     THEN [@[j] EXCEPT !.phase = "done", !.outcome = outcome] ELSE @[j]]]

\* The commands of task i are over, or cancelled by the signal: it has a value
\* in either case.  Its execution may also throw.
Settle(i, outcome) ==
  /\ pc = "running"
  /\ i \in DOMAIN tasks /\ tasks[i].phase = "executing"
  /\ Continue(Handed(Settled([tasks |-> tasks, line |-> line], i, outcome), i))
  /\ UNCHANGED <<decision, left, plan, expired>>

Expire ==
  /\ pc = "running" /\ ~expired
  /\ expired' = TRUE
  /\ UNCHANGED <<pc, decision, left, plan, tasks, line>>

Terminated == pc \in {"done", "thrown"} /\ UNCHANGED vars

Next ==
  \/ Compile
  \/ Schedule
  \/ \E i \in 1..MaxRequests, outcome \in {"value", "error"} : Settle(i, outcome)
  \/ Expire
  \/ Terminated

\* Commands end, by their timeout if not before.
Fairness ==
  /\ WF_vars(Compile)
  /\ WF_vars(Schedule)
  /\ WF_vars(\E i \in 1..MaxRequests, outcome \in {"value", "error"} : Settle(i, outcome))

Spec == Init /\ [][Next]_vars /\ Fairness

\* executeGovernedProbeBatch: the requests that the result of task t is about.  A
\* value has the records of the task that made it.
Reported(t) ==
  IF t.outcome = "none" THEN << >>
  ELSE IF t.outcome = "value" THEN tasks[t.owner].requests ELSE t.requests

\* The results with an id: their task, and their place among its requests.
ResultsOf(id) ==
  UNION {{i} \X {k \in DOMAIN Reported(tasks[i]) : Reported(tasks[i])[k].id = id} :
           i \in DOMAIN tasks}

-----------------------------------------------------------------------------
(* Properties. *)

Within(p, least, most) ==
  {q \in Paths : IsPrefix(p, q) /\ Len(q) - Len(p) \in least..most}

\* The walk of find -xdev from p: it names another file system and a link, and
\* enters neither, nor a link it begins at.
Walked(p, least, most) ==
  {q \in Within(p, least, most) :
     \A m \in Paths :
       IsPrefix(p, m) /\ IsPrefix(m, q) =>
         /\ m \in Mounts => m = p \/ m = q
         /\ m \in Links => m = q}

\* What directory.scan, not the search, leaves out: pruned directories, the one
\* it begins at not excepted, and all below them.
Scanned(p, most) ==
  {q \in Walked(p, 0, most) :
     \A m \in Pruned : ~(IsPrefix(p, m) /\ IsPrefix(m, q))}

\* What the command of a request finds, if it comes to its end.
Found(r) ==
  CASE r.kind = "listing" -> Scanned(r.object, r.depth)
    [] r.kind = "search" -> Walked(r.object, 1, r.depth) \cap Matching
    [] r.kind = "log" -> Scanned(r.object, 1)
    [] OTHER -> {r.object}

\* The output is cut by maxMatches, which is 100 for a log, or by maxBytes.
Cut(r) == (HasDepth(r) \/ r.kind = "log") /\ Cardinality(Found(r)) > r.most

\* What a request brings to light for certain, as there is no telling which
\* entries are kept of an output that is cut.
Seen(r) == IF Cut(r) THEN {} ELSE Found(r)

\* A scan from p does not get to r.object, or not beyond it, where one that
\* begins there would.
Barred(p, r) ==
  \E m \in Paths :
    /\ IsPrefix(p, m) /\ IsPrefix(m, r.object)
    /\ \/ m \in Mounts /\ m # p
       \/ m \in Links /\ m # r.object
       \/ m \in Pruned /\ m # r.object /\ r.kind # "search"

Merged == {a \in Range(plan.audit) : a.status = "deduplicated"}
Lost(a) == ~(Seen(a.request) \subseteq Seen(a.canonical))

\* A request is merged away only into one that brings to light all it would.
\* covers() looks at kinds, services, paths and depths; what it does not look at
\* makes four exceptions: the same path listed less deep, logs below the path, an
\* output that is cut, and another file system, a link or a pruned directory on
\* the way from the one path to the other.
MergedCovered ==
  \A a \in Merged :
    Lost(a) =>
      \/ GovernorKey(a.request) = GovernorKey(a.canonical)
         /\ a.canonical.depth < a.request.depth
      \/ a.request.kind = "log" /\ a.canonical.object # a.request.object
      \/ Cut(a.canonical)
      \/ Barred(a.canonical.object, a.request)

\* The bytes that the requests of a plan may read.
TotalBytes(requests) ==
  LET sum[k \in 0..Len(requests)] ==
        IF k = 0 THEN 0 ELSE sum[k - 1] + requests[k].bytes
  IN sum[Len(requests)]

\* A request is rejected for the budget only if it does not fit beside those
\* that are read: what was merged away is not charged.
BudgetHonest ==
  \A a \in Range(plan.audit) :
    a.status = "rejected" =>
      \/ Len(plan.requests) = MaxRequests
      \/ TotalBytes(plan.requests) + a.request.bytes > MaxTotalBytes

\* There are as many results with an id as requests.
Answered ==
  \A id \in Range(Ids(plan.requests)) :
    Cardinality(ResultsOf(id)) = Cardinality({i \in DOMAIN plan.requests : plan.requests[i].id = id})

Distinct == \A i, j \in DOMAIN plan.requests :
  i # j => plan.requests[i].id # plan.requests[j].id
Sharing == \E i, j \in DOMAIN tasks : i # j /\ CacheKey(tasks[i]) = CacheKey(tasks[j])

\* Each request of the plan has its result, whatever fails or is cut off by the
\* deadline, unless two requests have one id, or two tasks share an execution.
\* The round throws only for the former.
RequestsAnswered ==
  /\ pc = "done" /\ Distinct /\ ~Sharing => Answered
  /\ pc = "thrown" => ~Distinct

\* Each request of the plan has its result.
EachRequestAnswered == pc = "done" /\ Distinct => Answered

\* The round ends: tasks that wait for the disk while they hold a permit of the
\* scheduler do not wait for one another.
RoundEnds == <>(pc \in {"done", "thrown"})
=============================================================================
