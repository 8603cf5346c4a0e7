----------------------------- MODULE DiscoveryRound -----------------------------
(***************************************************************************)
(* From the records of a scanned host to its inventory: the records are     *)
(* normalized and correlated, candidates are selected, a model is asked     *)
(* what they are, once more after probes, and the inventory is built from   *)
(* its decision; then it is asked for a text, and later for an inquiry.     *)
(*                                                                         *)
(* What a model answers is anything of the shape of a decision; how probes  *)
(* are run is the module ProbeRound, here they have found something or not. *)
(***************************************************************************)
EXTENDS DiscoveryDecision, ModelTurns

CONSTANTS
  Hosts,            \* what the collectors may have found
  MaxAiCalls,       \* budget of calls of a run
  MaxProbeRequests  \* budget of probe requests of a decision

ASSUME BudgetAssumption == MaxAiCalls \in Nat /\ MaxProbeRequests \in Nat

\* What the collectors find is finite.
ASSUME HostAssumption ==
  \A h \in Hosts :
    /\ IsFiniteSet(Tidied(h).processes)
    /\ IsFiniteSet(ServiceNodes(Tidied(h)))
    /\ IsFiniteSet(IdsOf(Nodes(Tidied(h), Seeds(Tidied(h)))))

VARIABLES
  phase,      \* what the run does next
  host,       \* the records
  services,   \* snapshot.services
  graph,      \* nodes, edges; and of connectedComponents the edges to come and `parents`
  selection,  \* candidates and filtered groups
  artifact,   \* the decision, and whether it is a model's
  inventory,
  spent       \* metrics.ai.calls

local == <<host, services, graph, selection>>
vars == <<phase, host, services, graph, selection, artifact, inventory, spent, agent>>

Input == DiscoveryInput(selection, MaxProbeRequests)
NoForest == [todo |-> {}, parents |-> <<>>]

-----------------------------------------------------------------------------
(* normalizing, correlating and selecting *)

Normalize ==
  /\ phase = "normalizing"
  /\ phase' = "normalized"
  /\ host' = Tidied(host)
  /\ services' = Services(Tidied(host))
  /\ UNCHANGED <<graph, selection, artifact, inventory, spent, agent>>

\* buildResourceGraph up to the loop of connectedComponents.
BuildGraph ==
  /\ phase = "normalized"
  /\ phase' = "correlating"
  /\ \E nodes \in {Nodes(host, Seeds(host))} :
       \E edges \in {Edges(host, Seeds(host))} :
         graph' = [nodes |-> nodes, edges |-> edges, todo |-> Strong(edges),
                   parents |-> [n \in IdsOf(nodes) |-> n]]
  /\ UNCHANGED <<host, services, selection, artifact, inventory, spent, agent>>

\* One union; the edges are sorted by their hash.
Unite(e) ==
  /\ phase = "correlating"
  /\ e \in graph.todo
  /\ graph' = [graph EXCEPT !.todo = @ \ {e}, !.parents = United(@, e.from, e.to)]
  /\ UNCHANGED <<phase, host, services, selection, artifact, inventory, spent, agent>>

\* The candidates, and the inventory before a model is asked.
Select ==
  /\ phase = "correlating"
  /\ graph.todo = {}
  /\ phase' = "selected"
  /\ \E chosen \in {Selection(Components(graph.parents), graph.nodes, graph.edges, host,
                              services)} :
       /\ selection' = chosen
       /\ inventory' = LocalInventory(chosen)
  /\ graph' = NoForest @@ graph
  /\ UNCHANGED <<host, services, artifact, spent, agent>>

-----------------------------------------------------------------------------
(* discovering, probing and reconciling *)

\* The provider is codex, or noop which answers at once.
Begin(kind, max, next) ==
  /\ phase' = next
  /\ agent' \in {Task(kind, max), [Task(kind, max) EXCEPT !.phase = "degraded"]}
  /\ UNCHANGED <<host, services, graph, selection, artifact, inventory, spent>>

Discover ==
  /\ phase = "selected"
  /\ Begin("discover", MaxAiCalls, "discovering")

\* A draft of a service out of a set of candidates.
Draft(name, candidates) ==
  [id |-> name, candidates |-> SetToSeq(IdsOf(candidates)),
   objects |-> UNION {c.objects : c \in candidates}, ev |-> UNION {c.ev : c \in candidates},
   confidence |-> "inferred",
   role |-> IF name = "app" THEN "primary_application" ELSE "needs_review",
   unknown |-> IF name = "app" THEN {} ELSE {"purpose"}]

Probe(name, input) ==
  [kind |-> CHOOSE k \in ProbeKinds : TRUE, service |-> name, ev |-> Lowest(1, input.evidence)]

\* The answer in which every candidate has the outcome it is assigned.
Assigned(input, outcome) ==
  LET chosen(o) == {c \in input.candidates : outcome[c] = o}
      drafts == SelectSeq(<<"app", "other">>, LAMBDA name : chosen(name) # {})
  IN [services |-> [k \in DOMAIN drafts |-> Draft(drafts[k], chosen(drafts[k]))],
      filtered |-> SetToSeq(IdsOf(chosen("filtered"))),
      retained |-> SetToSeq(IdsOf(chosen("retained"))),
      hash |-> input.hash, probes |-> {}, questions |-> {}]

\* One of the things that may be wrong with an answer whose services are not empty.
Spoiled(a, input) ==
  LET first == a.services[1]
      with(draft) == [a EXCEPT !.services[1] = draft]
      others == input.candidates \ {c \in input.candidates : c.id \in Elements(first.candidates)}
  IN {[a EXCEPT !.services = Tail(@)],
      [a EXCEPT !.retained = @ \o first.candidates],
      [a EXCEPT !.filtered = Append(@, {})],
      [a EXCEPT !.services = Append(@, first)],
      with([first EXCEPT !.candidates = @ \o @]),
      with([first EXCEPT !.candidates = <<>>]),
      with([first EXCEPT !.objects = {}]),
      with([first EXCEPT !.objects = @ \cup {<<"host", 0>>} \cup UNION {c.objects : c \in others}]),
      with([first EXCEPT !.ev = @ \cup UNION {c.ev : c \in others}]),
      with([first EXCEPT !.ev = @ \cup UNION {c.ev : c \in selection.candidates}]),
      with([first EXCEPT !.confidence = "confirmed"]),
      [a EXCEPT !.hash = "stale"],
      [a EXCEPT !.probes = {Probe("gone", input)}],
      [a EXCEPT !.probes = {[Probe(first.id, input) EXCEPT !.kind = "shell"]}],
      [a EXCEPT !.probes = {[Probe(first.id, input) EXCEPT !.ev = {0}]}],
      [a EXCEPT !.probes = {[Probe(first.id, input) EXCEPT !.ev = {}]}],
      [a EXCEPT !.probes = {Probe(first.id, input),
                            [Probe(first.id, input) EXCEPT !.ev = input.evidence]}]}

\* What a model may answer.
Answers(input) ==
  LET proper == {Assigned(input, o) :
                   o \in [input.candidates -> {"app", "other", "filtered", "retained"}]}
      whole == {a \in proper : Len(a.services) = 1 /\ a.filtered \o a.retained = <<>>}
      both == {a \in proper : Len(a.services) = 2 /\ a.filtered \o a.retained = <<>>}
  IN proper \cup {Unreadable}
       \cup {[a EXCEPT !.probes = {Probe(a.services[1].id, input)}] : a \in whole}
       \cup {[a EXCEPT !.questions = {<<{}, "open">>}] : a \in whole}
       \cup UNION {Spoiled(a, input) : a \in whole \cup both}

\* An answer to discover or reconcile, and its validation.
Decide(answer) ==
  \E valid \in {Valid(answer, Input, phase = "discovering")} :
    /\ Answer(valid)
    /\ artifact' = IF valid THEN Completed(answer) ELSE artifact

Deciding ==
  /\ phase \in {"discovering", "reconciling"}
  /\ agent.phase = "waiting"
  /\ \E answer \in Answers(Input) : Decide(answer)
  /\ UNCHANGED <<phase, local, inventory, spent>>

\* The other answers, and the calls that fail.
Turns ==
  /\ phase \in {"discovering", "reconciling", "composing", "investigating"}
  /\ \/ Call
     \/ \E b \in BOOLEAN : Reject(b)
     \/ phase \in {"composing", "investigating"} /\ \E b \in BOOLEAN : Answer(b)
  /\ UNCHANGED <<phase, local, artifact, inventory, spent>>

Interrupt ==
  /\ phase \in {"discovering", "reconciling", "composing", "investigating"}
  /\ Abort
  /\ UNCHANGED <<phase, local, artifact, inventory, spent>>

\* The artifact that discover or reconcile returns, counted in the metrics.
Taken(next) ==
  /\ agent.phase \in Over
  /\ phase' = next
  /\ spent' = spent + agent.calls
  /\ artifact' = IF agent.phase = "completed" THEN artifact ELSE Degraded(Input, agent.kind)
  /\ agent' = NoTask
  /\ UNCHANGED <<local, inventory>>

Discovered == phase = "discovering" /\ Taken("probing")
Reconciled == phase = "reconciling" /\ Taken("finalizing")

\* The model is asked again if probes found something and calls are left.
Reconcile ==
  /\ phase = "probing"
  /\ artifact.decision.probes # {}
  /\ MaxAiCalls > spent
  /\ phase' = "reconciling"
  /\ agent' = Task("reconcile", MaxAiCalls - spent)
  /\ UNCHANGED <<local, artifact, inventory, spent>>

SkipReconcile ==
  /\ phase = "probing"
  /\ phase' = "finalizing"
  /\ UNCHANGED <<local, artifact, inventory, spent, agent>>

-----------------------------------------------------------------------------
(* finalizing and composing *)

CallsLeft == IF spent > MaxAiCalls THEN 0 ELSE MaxAiCalls - spent

Finalize ==
  /\ phase = "finalizing"
  /\ phase' = "composing"
  /\ \E built \in {FinalInventory(selection, artifact)} : inventory' = built
  /\ agent' \in {Task("compose", CallsLeft), [Task("compose", CallsLeft) EXCEPT !.phase = "degraded"]}
  /\ UNCHANGED <<local, artifact, spent>>

\* The text, or the outline without it.
Composed ==
  /\ phase = "composing"
  /\ agent.phase \in Over
  /\ phase' = "reported"
  /\ spent' = spent + agent.calls
  /\ agent' = NoTask
  /\ UNCHANGED <<local, artifact, inventory>>

Investigate ==
  /\ phase = "reported"
  /\ phase' = "investigating"
  /\ agent' = Task("investigate", 0)
  /\ UNCHANGED <<local, artifact, inventory, spent>>

-----------------------------------------------------------------------------
Init ==
  /\ phase = "normalizing"
  /\ host \in Hosts
  /\ services = {}
  /\ graph = [nodes |-> {}, edges |-> {}] @@ NoForest
  /\ selection = [candidates |-> {}, groups |-> {}]
  /\ artifact = [status |-> "none"]
  /\ inventory = [status |-> "none"]
  /\ spent = 0
  /\ agent = NoTask

Next ==
  \/ Normalize
  \/ BuildGraph
  \/ \E e \in graph.todo : Unite(e)
  \/ Select
  \/ Discover
  \/ Deciding
  \/ Turns
  \/ Interrupt
  \/ Discovered
  \/ Reconcile
  \/ SkipReconcile
  \/ Reconciled
  \/ Finalize
  \/ Composed
  \/ Investigate

\* Calls end, at the latest when their time limit aborts them; what is between them is
\* local work.  Inquiries and interrupts are the user's.
Spec ==
  /\ Init /\ [][Next]_vars
  /\ WF_vars(Turns \/ Deciding)
  /\ WF_vars(Discovered \/ Reconcile \/ SkipReconcile \/ Reconciled \/ Finalize \/ Composed)

-----------------------------------------------------------------------------
DeploymentObjects ==
  {i \in IdsOf(Nodes(host, {})) : IsDeploymentResource(i)}

Chosen == phase \notin {"normalizing", "normalized", "correlating"}

\* selectDeploymentCandidates, the completion gate and buildFinalDeploymentInventory lose
\* nothing and count nothing twice: every unit, process, socket, container and project is
\* in one candidate or one filtered group, every candidate has one outcome in the
\* inventory, and services have ids of their own.
EachObjectPlaced ==
  Chosen =>
    /\ \A o \in DeploymentObjects :
         Cardinality({c \in selection.candidates : o \in c.objects})
           + Cardinality({g \in selection.groups : o \in g.objects}) = 1
    /\ \A c \in selection.candidates :
         Cardinality({s \in inventory.services : c.id \in s.candidates})
           + (IF c.id \in inventory.filtered THEN 1 ELSE 0) = 1
    /\ Cardinality(IdsOf(inventory.services)) = Cardinality(inventory.services)

\* The records say that a process has a socket, or runs in a container that was
\* collected: its main process, or one in its cgroup.
Serves(r, records) ==
  \/ \E s \in records.sockets : r.pid \in s.pids
  \/ \E c \in records.containers : c.pid = r.pid \/ c \in CgroupContainers(r, records)

\* An object is neither such a process nor a unit that runs one.
Unused(o, records) ==
  \A r \in {q \in records.processes : Serves(q, records)} :
    /\ o # ProcessNode(r.pid)
    /\ \A u \in records.units : u.main = r.pid \/ u \in CgroupUnits(r, records) =>
         o # UnitNode(u)

\* What has a reason to be looked at is looked at: no socket, container or project is
\* in a filtered group, no process with a socket or in a collected container, no unit
\* that runs one, that failed, or whose evidence contradicts itself; and a port that can
\* be reached from outside is in the inventory or, if the model filtered its candidate,
\* in an unresolved question.  A process in a container that was not collected has no
\* such protection.
ProtectedKept ==
  Chosen =>
    /\ \A g \in selection.groups : \A o \in g.objects :
         /\ o[1] \in {"unit", "process"}
         /\ Unused(o, host)
         /\ \A u \in host.units : UnitNode(u) = o => u.active # "failed"
         /\ \A s \in services : s.conflict # {} => o \notin Owned(s)
    /\ \A c \in selection.candidates : \A p \in c.ports :
         p.exposed => p \in inventory.ports \/ <<c.id, "exposed">> \in inventory.questions

\* A service of the inventory has no evidence but that of its candidates, whatever the
\* model said it relied on.
EvidenceOwned ==
  Chosen =>
    \A s \in inventory.services :
      s.ev \subseteq UNION {c.ev : c \in {d \in selection.candidates : d.id \in s.candidates}}

\* The entry that a process runs below: itself, or the first one above it.
EntryOf(pid) ==
  LET pids == {r.pid : r \in host.processes}
      above[k \in 0..Cardinality(host.processes)] ==
        [p \in pids |->
           IF p \in Anchors(host) THEN {p}
           ELSE UNION {above[k - 1][r.ppid] :
                       r \in {q \in host.processes : k > 0 /\ q.pid = p /\ q.ppid \in pids}}]
  IN above[Cardinality(host.processes)][pid]

\* buildServiceGraph: a process belongs to the entry that is nearest above it, so that what
\* one service starts is not joined to the services of what started it.
ServicesSeparate ==
  phase = "normalized" =>
    LET up == UNION {{<<ProcessNode(r.pid), ProcessNode(e)>> : e \in EntryOf(r.pid)} :
                     r \in host.processes}
        nodes == ServiceNodes(host)
    IN {g \in ServiceGroups(host) : HasEntity(g)}
         = {g \in Partition(nodes, DirectLinks(host) \cup up) : HasEntity(g)}

\* connectedComponents: whatever the order of the edges, two objects are in one component
\* if and only if strong edges connect them.
ComponentsConnected ==
  phase = "correlating" /\ graph.todo = {} =>
    Components(graph.parents)
      = Partition(IdsOf(graph.nodes), {<<e.from, e.to>> : e \in Strong(graph.edges)})

\* discover, reconcile and composeWiki share the budget of calls of a run.
SpendingKept ==
  CallsBounded /\ (phase # "investigating" => spent + agent.calls <= MaxAiCalls)

\* Repairs, retries and time limits all come to an end: once a model is asked there will
\* be a report, and an inquiry is answered or fails.
TurnsEnd ==
  /\ phase = "discovering" ~> phase = "reported"
  /\ phase = "investigating" ~> agent.phase \in Over
=============================================================================
