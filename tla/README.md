# OpSense: TLA+ models, checks and proofs

OpSense inspects one Linux server over SSH, builds a deployment inventory, asks
an AI provider to classify it, probes the server again where the decision asks
for it, and writes reports. This directory holds TLA+ modules for the parts of
`src/` in which order, failure and shared state decide whether the result is
right, the TLC configurations that check them, and TLAPS proofs about them.

`PROJECT.json` lists the components, runs, mutants, source lines, findings,
hazards and theorems in machine-readable form.

## The system

| Component (source) | State it keeps | Operations | What is hard |
| --- | --- | --- | --- |
| Collection scheduler (`packages/collection-runtime/src/scheduler.ts`) | permits in use, waiters, cache of promises, limit and its counters | `run`, `executeTask`, `observeResult`, abort | several `run()` calls interleave at each `await` and share permits, cache and limit |
| Run directory (`packages/workspace`, `pipeline-run.ts`, `apps/cli/src/workflows`) | about fourteen files with checkpoints and hashes | inspect, scan, discover, resume; append and atomic replace | a session may die between any two writes; a later session decides from what it finds |
| SSH (`packages/ssh`) | one connection, its channels, `known_hosts`, an audit list | connect, verify the host key, `executeRaw`, `execute` | stream events, timer and abort race; closing after connecting |
| Collectors (`packages/collectors`) | none between calls, one executor | system, service, directory collection, probes, parsers | one failed command of several, which must leave a trace; bisection of a failed batch; nested permits |
| Scan workflow (`scan-workflow.ts`) | the chain of audit appends, the connection, `meta.json` | connect, permissions, collect, normalize, redact, write | the audit is written behind the back of the commands; an abort or a lost connection between any two steps |
| Normalization, correlation (`packages/core`, `packages/correlation`) | a forest of parents in each | records to services, records to a graph, components | which records belong together; an order of edges that must not matter |
| Discovery (`packages/discovery`) | none | candidates, batch input, validation, probe governor, inventories | nothing may be dropped; budgets |
| AI providers (`packages/ai-provider`, `ai-codex`) | one thread, counters of a task | discover, reconcile, compose, post-report turns | retries and repairs under a call budget, degraded results |
| Agent runtime (`packages/agent-runtime`, `agent-workflow.ts`) | revision chains in three JSONL files | one turn: load, investigate, append | two agents, or a crash, between load and append |
| Wiki, report, redaction, evaluation | none | projection, rendering, redaction, scoring | pure functions; three report files are written in place |
| Schema, CLI commands, exit codes, logger | none | validation, parsing of options | wiring |

The CLI runs one workflow per process. `inspect` is scan, discovery, probe,
finalization in this order; `resume` decides from `run.json` and the hashes of
the files where to go on; `discover` (the `analyze` command) repeats the discovery; `agent` appends
revisions to a finished run. A process is single threaded: whatever runs between
two `await`s is atomic, and everything else interleaves.

## Modules

### CollectionScheduler, TaskContract

An action of `CollectionScheduler` is the code between two `await`s.

| Action | Code |
| --- | --- |
| `Call(r)` | entry of `run()` and the first pass of its loop (`Iterate`: skip, cancel, sort, dispatch; each dispatched task takes a permit or queues) |
| `BeginCancelled`, `BeginJoined`, `BeginOwner` | `executeTask` after `acquirePermit`: aborted, cached promise found, own execution published |
| `Settle(t, o)` | `task.execute()` settles: value, value with a timeout in it, error, timeout error |
| `ReturnOwner`, `ReturnJoined` | the rest of `executeTask`: result, cache eviction after a failure, permit |
| `Take(r, t)` | `Promise.race` hands a result to the loop: `observeResult`, then the next pass |
| `Abort` | the signal fires |

`permits`, `waiters`, `cache` and `control` are the fields of the class and are
shared by all runs; `runState`, `phase`, `result`, `execution` and `source` stand
for the local variables and promises of the runs. Durations, the two callbacks
and `onConcurrencyChanged` are left out, and so is `clearCache()`, which nothing calls.

`TaskContract` is what a batch is promised, without permits, queues and cache: a
task starts only after its dependencies succeeded and never after the signal,
gets one final result, is skipped only because of a dependency and cancelled only
by the signal. `CollectionScheduler` implements it under the mapping `TaskState`
(property `ContractSpec`).

### PipelineRun

One run directory and the sessions that work on it one after another. `disk` is
the content of the files, `mem` what the session holds, `pending` the writes of
the current `Promise.all`; `pc` is the place in the workflow. Every step names
the workflow function it is taken from. Content is abstract: an artifact is
named by the session that made it, and a hash is the content it is taken from.

`resume` has steps of its own where it repeats part of a workflow: `ResumeReconcile` and
`ResumeReconciled` ask the model again for a probe stage that is complete,
`Rerender` and `ResumeReported` write the reports from the files. `inspect` has
`Reconciled` and `ReportedRun`; `Merged`, `Staged`, `Metered` and `FinishedAs` are the
writes that the workflows share.

`Crash` may happen wherever a session is; the writes not done are lost, and a
file that is appended to or written in place may be cut. `Tamper` edits the
reports between sessions. `writeJsonAtomic` replaces a file by `rename`, so such
a file is old or new, never cut.

Assumptions of the abstraction: a degraded decision is a function of the
candidates (all degraded decisions are equal); redacting a redacted report
changes nothing; what the probe governor accepts from a decision on unchanged
evidence is deterministic; the candidate set never changes after the scan.

### RevisionStore

The `agent` command: `Begin`, two `Read`s in any order (`Promise.all`), `Check`
(`assertRevisionChain` on both chains), `Answer` or `Fail` of the model, then one
append after another (`AppendRevision` of the inventory, of the wiki,
`AppendTurn`). Processes are not locked against each other. `Replace` is a
`discover` and `resume` pair that writes another inventory under the chains;
`Crash` may cut an append anywhere: nothing of it is there, half a line (`Torn`), or the whole
line but for its newline, which a reader takes for good. `open` has the files that end without a
newline; what is appended to one makes a single line of the two that cannot be parsed (`Appended`),
and the append after that starts a line of its own. A revision's id stands for the hash of its
content: file, inventory, sequence number and changes. Whether a proposal is valid
against services and evidence is a choice.

### BatchIsolation

One batch of objects (systemd units, containers, paths) asked for by one command.
Two pieces of code do this: the collectors (`service-discovery.ts`) and the
governed probes (`governed-probes.ts`), told apart by `mode`. Both are recursive
functions that await one command after the other; the calls not yet made are the
list `todo`, a step is `Command`: the status, what is found in the output, and the
batches that follow (`FollowUp`). The host is three choices: how it answers for
each object, how much output fits, and whether output that is cut can be read up to
the cut (lines of `systemctl show`) or not at all (JSON of `docker inspect`).
`Vanish` changes an object between two commands, `Expire` aborts the signal. The limit of output
is one number of objects for batches of every size; the governed probes add up the `maxBytes`
of the requests of a batch (governed-probes.ts:240), so their limit falls with its size, and a single
object may exceed it, which here no object does.

### ProbeRound

One round of governed probes. `Compile` is `compileGovernedProbePlan`: the requests are
refused, sorted by the depth of their path, and taken one after another into the plan
(`Considered`: covered by an earlier one, over the budget, or accepted), one turn of the loop at
a step: `left` has the requests still to come, and `Foremost` says which is next in the stable sort. `Schedule` is
`buildTaskDefinitions` with the first pass of the scheduler: `Batches` of one kind and
`Singles`. `Settle` ends a task, hands its disk permit to the next in line (`Handed`,
`PermitPool`) and settles the tasks that joined it; `Expire` is the deadline of the round.
`Reported` and `ResultsOf` are what `executeGovernedProbeBatch` makes of the values. A path is a sequence
of names. Five kinds of requests stand for ten: a listing and a search (with depth), a log, a
stat (asked for in batches) and a process (no path); the commands inside a task are those of
`BatchIsolation`, and the limit of the scheduler is fixed. Requests that are refused whatever
the others are (kind, evidence, timeout, search term) are left out.

`Found` is what the command of a request finds, if it comes to its end: `find -xdev` names
`Mounts` and enters none but that it begins at, follows no `Links`, and `directory.scan` leaves out
`Pruned` directories (`Walked`, `Scanned`). `Cut` says that the result keeps fewer entries than
that, because of `maxMatches` (100 for a log) or `maxBytes`; both are one number of entries, `most`.
All searches look for one term. A command that fails or times out finds nothing, and loses what was
merged into it.

### SshConnect, RemoteCommand, SshSession

`SshConnect` is `connectSsh` with `HostKeyPolicy` and `KnownHostsStore`: the code
between two awaits, or one event of the client, is an action. `Find`, `Configure`,
`Verify`, `Ready`, `RememberRead` and `RememberWrite` are its path; `Lost` ('error',
'close', `readyTimeout`), `AbortConnect` and `RememberFailed` may come in between.
Processes share `pins`, the known-hosts file, which is read and replaced as a whole
without a lock; a file that cannot be read or parsed is a choice of `Find`. `Rekey` gives a host another key.

`RemoteCommand` is `executeRaw`: `Execute`, the callback of `exec` (`Opened`,
`OpenFailed`), `Data`, `Exit`, `ChannelError`, `ChannelClosed`, the timer
(`Timeout`) and the signal (`Cancelled`). `Finish` is `finish()`, which only the first
of them passes. `SshSession` composes both: a command is started on a connection
that was handed out, one abort event reaches the connection and every running
command of its process, and a connection may be closed under running commands.

Assumptions: after `client.end()` no event of the handshake arrives; ssh2 emits
'close' for a channel after 'error', and nothing that was asked of the server is sure
to be answered. Output that arrives after the result goes into buffers that nobody
reads and is left out. `Exits` is what `classifyExit` makes of exit code and stderr.

### DiscoveryRound

What happens to the content, from the records of a scanned host to the inventory. The
module composes, by EXTENDS, one module for each package on the way:

- `HostPaths`: paths as `normalization.ts` and `path-seeds.ts` read them
  (`PathContains`, `IsBroadRoot`, the four `LooksLike...`, `Seeds`). A path is a sequence of
  names.
- `Normalization`: `Tidied`, the links between records and the groups of the union-find
  (`ServiceGroups`), and of each group what `buildServices` says: paths, owners of artifacts,
  status, conflicts, unknowns, sockets, the id (`Services`).
- `Correlation`: `Nodes` and `Edges` of the graph; `connectedComponents` is modelled as
  written, one union after another in a forest of parents (`RootOf`, `Compressed`, `United`).
- `CandidateSelection`: `Selection` makes candidates and filtered groups of the components,
  with the signals that protect a candidate; `DiscoveryInput` is what a model is sent of it.
- `DiscoveryDecision`: `Valid` is the schema and `validateBatchDiscoveryDecision`, `Degraded`
  the decision without a model, `LocalInventory` and `FinalInventory` the results.
- `ModelTurns`: one task given to a model, with its budget (`Exhausted`), its repairs
  (`Repaired`), its transport retries (`Retried`), a request that is rejected, an answer, and the
  signal that aborts (`Abort`). One variable, `agent`, serves discover, reconcile, compose
  and investigate in turn; they differ in three operators.

| Action | Code |
| --- | --- |
| `Normalize`, `BuildGraph`, `Unite(e)`, `Select` | `normalizeAndMergeServices`, `buildResourceGraph`, one edge of `connectedComponents` (in any order; the code sorts by hash), candidates and local inventory |
| `Discover` | `runDiscoveryWorkflow`, with codex or noop |
| `Turns`, `Deciding`, `Interrupt` | one request or its rejection; an answer and its validation; the time limit or the user |
| `Discovered`, `Reconcile`, `SkipReconcile`, `Reconciled` | the artifact taken and its calls counted; the second question of the probe stage, or none |
| `Finalize`, `Composed`, `Investigate` | `runFinalizeWorkflow` and its narrative, `runAgentWorkflow` |

Names, commands, summaries, hashes and texts of errors are left out: ids stand in the order
of names (`ServiceId`), a unit has one command, told apart by the paths in it (`Conflicts`), and of
two mounts at one target any may be the one (`MountsOf`; the code takes the first recorded). A service of an answer
is a draft of candidates; `Answers` are the decisions that put every candidate somewhere,
those spoiled in one of seventeen ways, and text that is not a decision.

Things of the code that look odd and are kept: two groups may get one service id when
their names are equal after normalization; the root directory contains only itself for
`pathContains`; the branch of correlation for an explicit container id is never reached;
a reconciled artifact replaces that of the discovery also when it is degraded; an
investigation has no budget of calls and is not counted; an answer that arrives together
with the signal is used, and if it is invalid one more call is counted, and not sent.

### ScanWorkflow, Collectors

`ScanWorkflow` is `runScanWorkflow` with one step for every await: `Connect`, `Authorize`
(`detectPermissions` and the password), the commands of the collectors (`Execute(c)`),
`Collected` (`Promise.all` of the two collectors, then the paths), `JoinAudit`, `Publish`
(normalizing, redacting, the files), `Catch`. Besides them run `AppendRecord`, the chain on
which `executorAudit` puts its records without waiting, `Abort` and `Lose`.

`Collectors` says which commands there are, which may be executed given the results so far
(`Executable`: probes with their variants, the service collectors with their alternatives, path
scans with their fallbacks), and what is made of them: `Unknowns` of the snapshot and
`Troubled`, the evidence whose status is not success. A result is a status, how much of the
output is there (whole, cut, over a limit, garbled, none), and what find and stat say on
stderr; `Printed` says how much a successful one may lack. `Gaps` in `ScanWorkflow` is the reference: what nobody learned, said without
looking at how the collectors record it.

Left out or merged: `docker.info`, `process.passwd` and systemd files; details of units and
inspections of containers are one command each (`BatchIsolation` has their halves); the
commands within one collector that do not depend on one another are in one order each; the
callback `onStage`; an abort after the audit was joined interrupts nothing, in the code as
here. A retained executor goes on auditing after the scan, and nobody looks at its errors.
Collectors turn failures into results and do not throw. `meta.json` may say completed when
both the write of the inventory and the one in the catch block fail.

### Proof modules

`CollectionSchedulerProofs`, `PipelineRunProofs`, `RevisionStoreProofs`, `SshSessionProofs`,
`ScanWorkflowProofs`, `DiscoveryRoundProofs`, `BatchIsolationProofs` and `ProbeRoundProofs`
extend the module they are named for and hold the theorems; see Proofs.

## Runs

| Run | What it shows |
| --- | --- |
| `scheduler` | Two overlapping `run()` calls, four tasks, two priorities, a dependency, a cache key shared across the runs, a signal on one of them, a limit that shrinks and recovers: the permit ledger, no lost wake-up, grants only within the limit, sharers that agree, the refinement of `TaskContract`, and that every `run()` ends |
| `pipeline` | up to four sessions (`inspect` or `scan`, then `discover` and `resume` in any order), one crash between any two writes, edited reports |
| `revisions` | three turns of two agents, one crash that cuts an append anywhere, one replaced inventory |
| `batches` | all 3^5 hosts, every limit of output, both kinds of output, both versions, one object that changes, a signal at any time |
| `session` | two processes, one host whose key may change once, every pinned file, both policies, one signal, one command with two chunks of output |
| `probe_round` | every decision of three requests out of fifteen, of four about one path, and of two about a tree with another file system, a link, a pruned directory and limits of output; the deadline and failing tasks at any time |
| `discovery` | nine hosts, each with something that is hard to correlate or to decide about, every order of the edges, every answer of `Answers`, failing requests, time limit and interrupts: each object in one place, nothing exposed filtered silently, evidence and services not mixed up, components as the paths of the graph, the budget, and the end of every task |
| `scan` | three probes, all of the service collectors, the path stage; two faults of any kind anywhere: audit complete, no gap without a trace, nothing handed out after an abort, and the end |
| `recoverable`, `forked_agents`, `repeated_batch`, `shared_probe` | the four findings below |

Bounds, and why they are enough for what the run asks:

- `scheduler`: a limit of two lets a reduction (to one) and a recovery
  happen; two tasks more than permits make a queue; two runs are what a scan has.
  The proofs below do not depend on these bounds. Counters of pressure are not
  capped: they end with the tasks.
- `pipeline`: a budget of two calls is the smallest that a discovery can use up, or
  share with a reconciliation or a composition. Four sessions are one to make the run,
  one that is killed, one `discover`, one `resume`. One crash: after it every later session
  starts from files, and what a second crash adds is again a subset of the writes.
- `revisions`: three turns are two that overlap and one that meets the result.
- `batches`: five objects halve unevenly (3+2, 2+1) and on three levels.
- `session`: two writers make every race on the file; two chunks against a limit of
  one byte give output that fits, that is cut, and that arrives after the cut.
- `probe_round`: two requests merge or not, the third meets the budget, and a fourth the
  limit on their number; one disk permit under two permits of the scheduler makes both
  queues. Mount, link and pruned directory have one path each below and a request above, at and
  below them, so that each exception of `MergedCovered` is needed for some pair.
- `discovery`: each host has up to four objects of a kind, since what is hard is how two
  objects relate: nested main processes, a name that is the end of another, contradicting
  units, equal processes that nothing owns, a shared file. Four calls let a task use up its
  budget by repairs (two) and retries (two), and leave calls for a second task.
- `scan`: one pending record is enough for a record to be behind; two faults are one
  that makes a fallback necessary and one in the fallback. Two settings are the two
  profiles with the two ways to sudo.
- `MaxPending`, `MaxFaults`, `MaxEvidence` (how much evidence a model is sent), `MaxRetries`,
  `MaxInquiries`, `MaxAiCalls`, `MaxProbeRequests`, `MaxSessions`, `MaxCrashes`, `MaxTurns`, `MaxActive`, `MaxInventories`, `Vanishes`,
  `MaxRekeys`, `MaxReceived` and `Enough` (in `BatchIsolation`) are the bounds; each is a
  CONSTANT or a definition and stands in the guard of an action.

`CHECK_DEADLOCK FALSE` is set for `batches`, `repeated_batch`, `session` and `discovery`,
which end when the batch is done, when every process has closed its connection, and when
an inquiry is over. The other modules have a step for the end (`Terminated`, `Ended`).

Runs that end in a violation check what a document promises and the code does not
keep. `PROJECT.json` quotes the line; in short:

- `recoverable`: a crash between the evidence append and the snapshot of the probe stage
  leaves a run that resume refuses for ever (probe-workflow.ts:214).
- `forked_agents`: two agents that overlap append one sequence number twice, and every
  later agent is refused (agent-workflow.ts:98).
- `repeated_batch`: a governed batch of which nothing is recognised is asked for again
  unchanged, up to the deadline (governed-probes.ts:229).
- `shared_probe`: two services ask for one path; both requests are accepted, their tasks
  share one execution, and the second request has no result (governed-probes.ts:181).

Other differences between documents and code have no run of their own; each is
visible as an exception that a property or a definition has to make:

- README.md:29 calls the budget of AI calls a hard limit; a run that crashes and resumes
  spends it again (discovery-workflow.ts:88). `SpendingBounded` states what does hold.
- 技术方案v3.0.md:378 says that two objects are not merged because their names are similar;
  `findCgroupUnit` (correlation/src/index.ts:413) matches a unit whose name is the end of
  another's (`CgroupUnits`; host `Suffix` of `discovery`).
- 架构设计v3.0.md:511 wants gaps in the collection to make a session partial; it is partial
  when the snapshot has unknowns (scan-workflow.ts:319). A failed listing of units, a scan
  that timed out with output, a cut answer of stat for large data, unresolved paths hidden by
  an ENOENT, and a program that is missing when configuration is read leave evidence
  with a status and no unknown (`GapsFlagged` therefore speaks of both).

- 技术方案v3.0.md:160 says that a `cacheKey` is executed once in a run; a failed
  execution leaves the cache and a later task executes the key again (`SingleFlight`
  speaks of executions in flight or fulfilled).
- 技术方案v3.0.md:135 and :806 say that a finished stage is persisted at once and not
  repeated; the checkpoint of the composition is written after the reports
  (`ComposedOnce`).
- 架构设计v3.0.md:468 says that a later run reuses stages by the hash of their input; a
  composition is not compared with a discovery made after it
  (`ReportsCurrentDecision`, `Stale`).
- README.md:87 says that resume continues from the last valid checkpoint; after a
  `discover` that died between its files it refuses (`RefusedOnlyEarly`, `DiscoveryTorn`).
- README.md:90 says that the agent works on a stable inventory and appends revisions;
  after `discover` and `resume` the chains belong to a former inventory and the agent
  refuses (`RefusedOnlyDamaged`, `Foreign`).
- 技术方案v3.0.md:700 says that the changes of a decision are one atomic revision; they
  are two appends to two files, and a crash leaves the first (`TurnsComplete` speaks of
  recorded turns only).
- 技术方案v3.0.md:159 says that a failed task does not cancel tasks that do not depend on it;
  a dependent listed before its own skipped dependency makes `run()` throw, which loses
  all results (scheduler.ts:187). No caller passes dependencies today; `RunsEnd` is
  checked for a batch listed in order.
- 技术方案v3.0.md:292 and :293 say that merging considers file systems and whether the depth of
  the ancestor covers the child. `covers()` compares neither mounts, nor what a scan prunes, nor
  `maxMatches` and `maxBytes`: a listing below a mount point is merged into one above it, whose
  `find -xdev` stops there. A listing is merged into a shallower one of the same path, and a
  request for logs into one of any ancestor, whose scan has depth 1. These are the exceptions of
  `MergedCovered`; leave one out, and `probe_round` shows a request that is lost.
- README.md:120 says that a resume without SSH never passes a missing probe off as done. After a
  probe stage, a crash and a `discover` whose new decision asks for a probe again, `resume` takes the old plan
  and batch for valid (resume-workflow.ts:177), does not compare them with the discovery (:193, :341),
  and completes (`EarlierProbe` of `ProbesNotSkipped`).
- An append cut just before its newline is read as a whole line (json.ts:77), a revision is
  built on it, and the append of that revision destroys both (`ParentsPresent` speaks of a line
  at the place of the parent, which may be unreadable).
- 架构设计v3.0.md:72 protects containers and what listens; a process whose
  container was not collected gets no edge (correlation/src/index.ts:421) and so no signal
  (candidate-selector.ts:124), and is filtered as `runtime_internal` (`Serves` of `ProtectedKept` speaks
  of collected containers; process 23 of the Docker host of `discovery` is one of the others).
- Two processes that connect at once lose known-hosts entries of each other
  (`PinsLostOnlyByRace` says that nothing else does).

## Fairness

- `CollectionScheduler`: `WF(Advance(t))` for each task. Promise continuations run, and a
  task settles because `executeRaw` forces a result at its deadline (which is
  `AlwaysAnswered` of `session`). Nobody has to call `run` or to abort.
- `BatchIsolation`: `WF(Command)`, a command returns or times out; and the deadline of the
  governed probes (`boundedSignal`, 120 s) passes, if the batch has not ended. A scan has
  no deadline, so `Expire` is not fair for the collectors.
- `SshSession`: `WF(ConnectStep(p))`, for each process, is its own continuations and, as
  long as the promise is pending, an answer of the server or `readyTimeout`; `WF(Expire(c))`
  is the timer of a command. No fairness is asked of the server.
- `ProbeRound`: `WF` of the two synchronous steps and of `Settle`, since commands end by
  their timeout if not before. The deadline need not pass.
- `ScanWorkflow`: `WF` of `AppendRecord` (a write ends), of `Proceed` (the continuations of
  the workflow) and of the commands, which end by their timeout. Neither `Abort` nor `Lose`
  has to happen.
- `DiscoveryRound`: `WF(Turns \/ Deciding)`, a request ends, at the latest when
  `timeoutSignal` (120 s) rejects it; `WF` of the local steps between tasks. No model has
  to answer validly, and nobody has to interrupt or to inquire.
- The other modules state no liveness and no fairness: a session may stop anywhere.

## Proofs

`CollectionSchedulerProofs` proves, for every set of runs and tasks, every cache key,
every limit and every threshold (the assumptions `ConcurrencyAssumption`,
`BatchAssumption` and `DependencyAssumption` of `CollectionScheduler`, which are what the
constructor and `validateTasks` accept):

| Theorem | Property |
| --- | --- |
| `TypeCorrect` | `TypeOK` |
| `PermitsExact` | `PermitLedger`: `permits` is the number of tasks that hold one, at most the maximum |
| `WakeupsKept` | `NoLostWakeup` |
| `QueueCorrect` | `QueueExact` |
| `OneFlightPerKey` | `SingleFlight` |
| `GrantsBounded` | `GrantsWithinLimit`: a step that grants a permit leaves no more in use than its own limit |

`QueueExact` and `SingleFlight` follow from the invariants that the run checks and have no
run of their own. The inductive invariant is `IInv == TypeOK /\ PermitInv /\ CacheInv`. None of the
properties is inductive alone: a release may count down only if the releasing task was
counted (`Consistent`: `permits`, the queue and the phases describe one another),
the wake-up after a release grants as many permits as the queue's front is long, which
needs a queue without repetition, and `NoLostWakeup` is kept by a failed task because
a reduction only lowers the limit, by a recovery because that wakes. `CacheInv` says that
a pending execution belongs to a task that executes, and that the cache points to
every live or fulfilled execution; from it follows `SingleFlight`, and that the
unconditional `cache.delete` of an owner removes its own entry.

The lemmas on sequences (`PrefixCount`, `SuffixFacts`, `JoinFacts`, `ConcatFacts`) say what
the front and the rest of a queue without repetition are; `WakeKeeps` and `StartKeeps` that
waking and dispatching keep `Consistent`; `IterateKeeps`, `ReleaseKeeps`, `TakeKeeps` and
`ObservedFacts` do one piece of code each; `NextInv` has one step per action, and `GrantStep`
goes over the actions again for the permits they grant.

The same module proves

| Theorem | Property |
| --- | --- |
| `SharersCorrect` | `SharersAgree` |
| `Implementation` | `ContractSpec`: `Spec` implies `TaskContract!Spec` under `TaskState` |
| `DependenciesFirst` | a task under way has dependencies that all succeeded, and a task that is over has a result |

`SharersCorrect` follows from `IInv` and `ShareInv`: what a task
joined belongs to the task that started that execution, which executes or is over; and whoever
has a result of it has it after the execution settled, successful just when the execution
was. So a task that joins while the owner fails cannot report success, nor the reverse.

For the contract, `RInv` is `IInv` with `OrderInv`, which is `DependenciesFirst`. A step of
the code moves many tasks at once (a pass of the loop skips, cancels and dispatches; a release
wakes waiters), which is a `Turn` of the contract, so the lemmas say of each task what
happened to it and why: `Started`, `Skipped`, `Cancelled`, `Moved`, `Woke`. `SkipCause` says
that a skipped task has a dependency that failed, or was skipped in the same pass. `SkipPass`
is a recursive function; that it has a value at all is shown by the least set closed under its
equation.

`PipelineRunProofs`, for every budget and any number of sessions and crashes (`RunAssumption`),
and every content of the files (`ContentAssumption`: the sets of contents, from
`Snapshots` to `Runs`, do not contain `None`, and `Torn` is no report):

| Theorem | Property |
| --- | --- |
| `Spending` | `SpendingBounded`: one budget for each discovery, and for each session that died |
| `Coherence` | `ReportsCoherent` |
| `Completion` | `FinishedIsComplete` |
| `Resumption` | `RefusedOnlyEarly` |
| `ProbesKept` | `ProbesNotSkipped` |
| `Currency` | `ReportsCurrentDecision` |
| `Composition` | `ComposedOnce`, an action property |

No counter spans the sessions, so the invariant is an account of three records: what
metrics.json holds (`OnFile`), what it will hold when the writes under way are done (`Saved`), and what the
session knows (`Known`). `MoneyInv`: what was spent is known but for one budget per crash;
what is known is at most one budget above the file, and within the budgets of the
discoveries. `PlaceInv` is why a stage keeps that: at `reconcile` and `compose` the calls in memory and
the limit together fit into one budget, although the limit is taken from the discovery's
calls in one place and from metrics.json in the other; the two agree there because in `inspect`
the discovery is the first to call. `StepKeeps` does a step between two awaits in general
(`Arrives` is what it takes to the next place), `QuietKeeps` the steps that make no call, and
each workflow function then shows `Arrives` or `Quiet` of its own step.

The other six rest on one invariant of the files, `Safe`. A crash leaves some of the writes
under way and not others, so what the files say (`Sound`) has to hold of every subset of
them (`Partials`), not of the files as they are: a run with a checkpoint for the inventory
has something to go on from (`Resumable`), checkpoints name what belongs together
(`Paired`), a reconciliation or composition answers its own discovery (`Asked`), and a composition
with a checkpoint is valid, coherent with inventory and snapshot (`Coherent`) and reports the
decision in force (`Decisive`). For `ProbesKept` it has the probe stage as well: whose
discovery it answers, whether it has the requests, and what of it reached the snapshot. `Placed` joins the memory of the session to the files as
they will be when its writes are done, place by place: which artifacts it holds, that no composition has
a checkpoint where one is about to be made (`Fresh`), that a decision under way is later
than everything on disk (`Earlier`). `AnswerInv` is what the last session left, `WritingInv`
that a composition is never written under its own checkpoint. `StepSafe` does a step in general: if every mix of
old and new files is sound and the memory fits the last of them, the step keeps `Safe`;
each workflow function then has one lemma, and a crash picks one of the mixes.
`Coherence`, `Currency` and `ProbesKept` look at files between sessions, where there is
one mix; `Completion` and `Resumption` are `AnswerInv`; `Composition` follows from `Safe` before
the step.

`RevisionStoreProofs`, for any number of agents, turns, inventories and crashes
(`StoreAssumption`):

| Theorem | Property |
| --- | --- |
| `Parents` | `ParentsPresent`: a revision is the first of its chain or follows the line at the place of its number, which is its parent or was destroyed later |
| `Turns` | `TurnsComplete`: a recorded turn has all revisions of its proposal, or the file was cut |
| `Refusal` | `RefusedOnlyDamaged`: a refusal has a cause that is in the files |

Places in a file stay what they are (`Kept`): processes only append, and an append changes at most
one line, the last one of a file that ends without a newline (`OpenInv`), which it makes `Torn`. So
what an agent has read stays the beginning of the file but for lines destroyed since, and parents
are found by place, not by content. `AgentOK`
says at each place what the agent read, that its revision follows the last line it read, and
that an accepted chain is of one inventory; `TurnInv` that a turn has one process and one
proposal; `DoneInv` that the appends before its place are in the files. For `Refusal`, let no file be
cut, forked or foreign, and take the first line of a file that is out of place. Its parent stands
before it (`ParentsPresent`) at the place of its number; were that not the line just before, the
line after the parent would have the same number as this one. The first such line is a
minimum of a set of numbers (`FirstOf`), and what an agent has read is the beginning of the file.

`SshSessionProofs`, for every set of processes, hosts, keys and commands and every limit of
output (`ConnectAssumption`, `CommandAssumption`):

| Theorem | Property |
| --- | --- |
| `Verification` | `ConnectedVerified`: whoever was given a connection trusts the key it was made with, or asked not to check |
| `Closing` | `NothingLeftOpen`: no connection and no channel outlives its failure |
| `Honesty` | `ResultHonest`: a result says cut, timed out or cancelled if it was |
| `Remembering` | `PinsLostOnlyByRace` |

The inductive invariant is `Inv == ConnInv /\ CmdInv`: one predicate (`ConnOK`, `CmdOK`) for each record,
which says at every place of the program what is known there, and that `pins` is a
document of keys. A key is trusted at `remember` only because `Verify` resolved it from the
document read before, and the result of a command is what it had kept when it finished,
so both predicates name the earlier steps. `OneConn` and `OneCmd` say that a step that changes one record
keeps the rest; each step is then a lemma about one record.

`ScanWorkflowProofs`, for every set of probes, every answer of a command and every number of
pending records and faults:

| Theorem | Property |
| --- | --- |
| `AuditKept` | `AuditComplete` |
| `AbortKept` | `NothingAfterAbort` |
| `NoSilentGap` | `GapsFlagged` |

`JoinedInv`: after the join the chain is empty and without loss, which stays so as no
command is executed any more. `CutInv`: a cancelled result means an aborted signal and
a stage that still looks at it. `OutcomeInv`: an outcome ends the workflow. `NoSilentGap` needs what a command may answer
(`ResultInv`), and of that one assumption, `AnswerAssumption`: a command whose result has the
status success printed the whole, or what `Printed` lists for it. That is the code:
a result is a success only if the exit code is 0 and no other status was forced
(connection.ts:98), as it is when output is cut (connection.ts:166). For each of the four kinds of gap it then says which unknown or which
evidence tells of it.

`DiscoveryRoundProofs`, for every budget and every number of repairs, retries and inquiries
(`BudgetAssumption`, `RetriesAssumption`), every host of which finitely much was recorded
(`HostAssumption`), and whatever a model answers:

| Theorem | Property |
| --- | --- |
| `Spending` | `SpendingKept`: the calls of all tasks stay in the budget, and each of them keeps `CallsBounded` |
| `Evidence` | `EvidenceOwned` |
| `Protection` | `ProtectedKept` |
| `Connection` | `ComponentsConnected` |
| `Placement` | `EachObjectPlaced` |
| `Separation` | `ServicesSeparate` |

For `Spending`, `TaskOK` is `Counted` (calls in the budget, requests among the calls), `Inquired` (an inquiry
makes one request more than it repairs) and `Stopped` (after the signal no call is
counted as long as the task waits or is about to ask, and then at most one); with it goes that what was spent and the budget of the
running task together stay in `MaxAiCalls`.

`Evidence` rests on `ArtifactInv`: the decision in force is valid for what the model was told,
or retains every candidate (`Sound`). It is kept by every action that puts a decision in
force, because only an answer that passed `Valid` gets there. `Protection` adds `GraphInv` and
`SelectedInv`: a filtered group has no signal (`Quiet`), since a group with one is a
candidate, and components are closed under strong edges (`ComponentsClosed`), so that what an object
serves (`ServingEdges`) would have been in the group with it (`GroupsUnused`, `UnusedInv`); `Placed` follows a candidate through the decision into the inventory or into a
question (`Shown`).

`Connection` is about an algorithm. What `Above` computes is the least set that is closed
under the parents (`ReachedIsLeast`, from which `AboveIsLeast` and `GroupIsLeast`), so that two sets
of links with one closure have one partition (`GroupsAgree`). A forest is a map of parents in
which every node has exactly one root (`Forest`); putting a node below its own root, which `find()`
does, or below the root of another, which a union does, keeps that (`Rerooted`).
`ForestInv`: the trees are the groups of the strong edges that are no longer to do (`Grown`).
When none is left they are those of all strong edges, in whatever order they came.

`Placement` goes over the packages: the nodes of the graph are the objects of the host
(`BuiltInv`), the components divide them, the selection divides the components into
candidates, filtered groups and the rest (`DividedInv`), and the inventory has each
candidate in one service, in one filtered entry or among the open ones (`SettledInv`). The last
needs that a valid decision names no candidate twice (`ValidOnce`, `Orderly`) and that
the degraded decision names each once.

`Separation` compares two ways to say which processes belong together: the code walks down from each
entry and unites what it meets, the property walks up to the nearest entry. `Climbs` are the
stages of the way up, `NearestEntry` says that it ends at the one entry from which the process can be
reached, and `TreesClimbed` that the trees of both ways are the same. Processes below no
entry are in no service of one (`StandaloneApart`).

`BatchIsolationProofs`, for batches of every size, every host and any number of objects that change
(`BatchAssumption`):

| Theorem | Property |
| --- | --- |
| `Accounting` | `EachObjectOnce` |
| `Isolation` | `Isolated` |
| `Logarithmic` | `FewRetries` |

`BatchInv`: the batches still to do are nonempty, repeat nothing and share nothing, and
their objects are just those without an outcome. `FailedInv`: before the signal an object
fails only if it is not present, because an object is given up only in a batch of one, and the
output of one present object always fits. `Logarithmic` is by a potential: while
at most one object breaks its batch, with `d` halvings to go, the commands made, the batches to
do and twice `d` stay within `1 + 2 * Depth`, and the batch that breaks has at most `2^d` objects
(`Payable`); a command on a batch that does not break pays for itself, one on the batch that
breaks makes two of it and uses up a halving.

`ProbeRoundProofs`, for every set of paths, every decision of well-formed requests, every
budget, size of a batch, scheduler and permit pool (`RoundAssumption`; `RequestAssumption`,
which is the schema of a request):

| Theorem | Property |
| --- | --- |
| `Coverage` | `MergedCovered` |
| `Budget` | `BudgetHonest` |
| `Reply` | `RequestsAnswered` |

`PlanInv`: every entry of the audit is justified by the plan (`Justified`), at the turn of the loop that
makes it and ever after, because the requests and bytes of a plan only grow. `CoverageKept` goes over
the kinds of requests; `DeepEnough` is its arithmetic on paths, and `WalkedFromAbove` says that a
walk from above gets wherever one from below does, unless something on the way between their
beginnings stops it: a mount, link or pruned directory further down stops both
(`PrefixComparable`). That the bytes of the plan are the sum
over its requests is `TotalOfAppended`.

`Reply` has two halves. The tasks divide the plan: `Filtered` lists the positions it is given, each
once (`FilteredFacts`), chunks cover a sequence and do not overlap (`ChunkOf`, `ChunkApart`), and so
every id is that of a request of a task (`Handled`) and, if ids differ, of one place in one task only
(`HandledOnce`), which is also why `validateTasks` has nothing to throw for. And the scheduler loses no
task: `TaskInv` says that tasks and line are among the `States` of the definitions. There each task has the
requests it was defined with, an outcome once it is done, and a value only of an
execution with its key (`Healthy`); those in line for the disk wait, each at one place (`InLine`), so that a
permit is never handed to a task that is already under way. `BegunKept`, `TurnKept`, `PassKept`, `SettledKept` and
`HandedKept` do one piece of code each. Without shared keys the execution is the task's own,
and a value has its requests (`DoneReports`). TLC checked `TaskInv` on `probe_round` first.

Induction. The prover cannot instantiate a theorem with an operator parameter, so the
library's induction is out of reach. Well-foundedness of the naturals is stated over sets, and
gives that a nonempty set of naturals has a first element (`FirstOf`, `LeastOf`): a minimal
counterexample then does what induction would. `Upwards` is that for an interval.
`Iteration` and `StagesExist` show with it that a function of steps has a value that satisfies its
equation, and `ReachedIsLeast` that what such steps collect is the least closed set. What the models compute with
recursive functions (`Power`, `Missing`, `TotalBytes`, `SkipPass`, `Pass`, `Above`) can be
proved about in this way; folds and `SelectSeq` of the library are operators over recursive
`LET`s, for which no such fact is at hand, and the modules with a theorem do without
them wherever a proof has to look inside.

Only model-checked: liveness (`RunsEnd`, `Ends`, `AlwaysAnswered`, `RoundEnds`, `TurnsEnd`, `ScanEnds`;
the prover has neither ENABLED nor fairness). Every invariant and every action property of a
passing run is a theorem.

## Not modelled

- Parsers of remote output (`collectors`), rendering of commands (`ssh`), redaction, wiki and
  report text, evaluation, schemas, configuration, the command line: text processing or
  declarations without state that outlives a call. Where a verdict of theirs decides
  something, it is a choice (`Result` of `Collectors`, the proposal of `RevisionStore`).
- Prompts, token usage and the parsing of a model's text; an answer is a decision or not.
- The content of probe results: `ProbeRound` has what is asked and answered, `DiscoveryRound`
  only whether something was found.
- Two sessions at once on one run directory (resume-workflow.ts:68): nothing locks it, and
  `PipelineRun` takes sessions one after another.
- `mapWithConcurrency` (scheduler.ts:319-336), a plain worker pool over an index; it hands no
  signal on to the work.

## Plan

Done: the scheduler and its contract, the run directory, revisions, batches, probes, SSH, the
scan, the discovery, and proofs about all of them. What would come next, in this order:

1. Sessions side by side in `PipelineRun`: two `resume` of one directory.
2. The rest of the probe governor: search terms of requests; the checks of a
   proposal after the report (`validatePostReportProposal`).
3. The bisection of `BatchIsolation` inside a task of `ProbeRound` and of `Collectors`.
4. Proofs: `BatchIsolation` and `ProbeRound` as refinements of a specification that gives each
   request its answer in one step, to prove about their composition.
5. Redaction as an operator on tokens: redacting twice is redacting once, which
   `PipelineRun` assumes.
