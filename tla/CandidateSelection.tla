--------------------------- MODULE CandidateSelection ---------------------------
(***************************************************************************)
(* selectDeploymentCandidates and buildBatchDiscoveryInput: the components *)
(* of the graph that may be somebody's deployment become candidates, the    *)
(* others are put into groups of filtered objects; what a model is told     *)
(* of the candidates is cut to a fixed size.                               *)
(***************************************************************************)
EXTENDS Correlation

CONSTANTS
  StorageNames, \* names that make a mount point one of data, logs or backups
  MaxEvidence   \* evidence ids of a candidate that a model is told (12 in the code)

IsDeploymentResource(id) ==
  id[1] \in {"unit", "process", "socket", "container", "project"}

\* expandComponent: the mounts of the paths of a component belong to it as well.
Expanded(component, edges) ==
  component \cup UNION {{e.from, e.to} : e \in {f \in edges :
    f.kind = "path_on_mount" /\ {f.from, f.to} \cap component # {}}}

CustomPath(p) ==
  /\ p # None
  /\ Under(p, {<<"app">>, <<"apps">>, <<"data">>, <<"home">>, <<"opt">>, <<"srv">>,
               <<"usr", "local">>})

CustomUnit(u) ==
  /\ u.fragment # None
  /\ Under(u.fragment, {<<"etc", "systemd", "system">>,
                        <<"usr", "local", "lib", "systemd", "system">>})

\* The units, containers and projects of a service.
Owned(service) ==
  {n \in service.nodes : n[1] \in {"unit", "container"}}
    \cup {<<"project", n[2]>> : n \in {m \in service.nodes : m[1] = "compose"}}

\* protectionSignals
ProtectionSignals(ids, host, services) ==
  LET units == {u \in host.units : UnitNode(u) \in ids}
      signal(name, cond) == IF cond THEN {name} ELSE {}
      kind(k) == \E i \in ids : i[1] = k
  IN UNION {
       signal("docker_deployment", kind("container")),
       signal("compose_deployment", kind("project")),
       signal("exposed_socket", \E s \in host.sockets : <<"socket", s.id>> \in ids /\ s.exposed),
       signal("listening_process", kind("socket")),
       signal("failed_unit", \E u \in units : u.active = "failed"),
       signal("custom_systemd_unit", \E u \in units : CustomUnit(u)),
       signal("custom_service_path",
              \/ \E i \in ids : i[1] = "path" /\ CustomPath(i[2])
              \/ \E r \in host.processes : ProcessNode(r.pid) \in ids
                                           /\ (CustomPath(r.exe) \/ CustomPath(r.cwd))),
       signal("service_storage", \E m \in host.mounts : <<"mount", m.id>> \in ids
                                                        /\ HasName(m.target, StorageNames)),
       signal("evidence_conflict", \E s \in services : s.conflict # {}
                                                       /\ Owned(s) \cap ids # {})}

\* portsForNodes
Ports(ids, host) ==
  {[addr |-> s.addr, exposed |-> s.exposed, host |-> s.port, inside |-> None,
    proto |-> s.proto] : s \in {t \in host.sockets : <<"socket", t.id>> \in ids}}
    \cup UNION {{[addr |-> m.addr, exposed |-> m.addr # "loopback", host |-> m.host,
                  inside |-> m.inside, proto |-> m.proto] :
                   m \in {n \in c.ports : n.host # 0 /\ n.inside # 0}} :
                c \in {d \in host.containers : ContainerNode(d) \in ids}}

\* deploymentHints
Hints(ids) == {i[1] : i \in ids} \cap {"unit", "process", "container", "project"}

\* candidateFromNodes.  The candidate is named by its objects.
Candidate(ids, nodes, host, services) ==
  [id |-> {i \in ids : IsDeploymentResource(i)},
   objects |-> {i \in ids : IsDeploymentResource(i)},
   paths |-> {i \in ids : i[1] = "path"},
   ev |-> UNION {n.ev : n \in {m \in nodes : m.id \in ids}},
   ports |-> Ports(ids, host),
   hints |-> Hints(ids),
   signals |-> ProtectionSignals(ids, host, services),
   unknown |-> {"role", "purpose"}]

FilteredCategory(id, host) ==
  IF id[1] = "unit"
  THEN IF \E u \in host.units : UnitNode(u) = id /\ u.active # "active"
       THEN "inactive_unit" ELSE "routine_system_service"
  ELSE LET r == CHOOSE q \in host.processes : ProcessNode(q.pid) = id
       IN CASE r.command \in KernelCommands -> "kernel_helper"
            [] r.command \notin KernelCommands /\ r.ppid = 1 -> "boot_helper"
            [] OTHER -> "runtime_internal"

\* filteredGroup
FilteredGroup(category, objects) == [category |-> category, objects |-> objects]

\* selectDeploymentCandidates: the candidates, and the filtered objects of the other
\* components by category.
Selection(components, nodes, edges, host, services) ==
  LET deployed == {c \in components : \E i \in c : IsDeploymentResource(i)}
      all == {[base |-> c,
               candidate |-> Candidate(Expanded(c, edges), nodes, host, services)] : c \in deployed}
      dropped == UNION {{i \in a.base : IsDeploymentResource(i)} :
                        a \in {b \in all : b.candidate.signals = {}}}
  IN [candidates |-> {a.candidate : a \in {b \in all : b.candidate.signals # {}}},
      groups |-> {FilteredGroup(k, {i \in dropped : FilteredCategory(i, host) = k}) :
                    k \in {FilteredCategory(i, host) : i \in dropped}}]

-----------------------------------------------------------------------------
(* buildBatchDiscoveryInput *)

\* slice(0, n) of a sorted list
Lowest(n, ids) == {i \in ids : Cardinality({j \in ids : j <= i}) <= n}

\* compactCandidate, without the lists that are only shown to the model.
Compact(candidate) ==
  [id |-> candidate.id,
   objects |-> candidate.objects,
   ev |-> Lowest(MaxEvidence, candidate.ev),
   total |-> Cardinality(candidate.ev)]

DiscoveryInput(selection, maxRequests) ==
  LET candidates == {Compact(c) : c \in selection.candidates}
  IN [candidates |-> candidates,
      evidence |-> UNION {c.ev : c \in candidates},
      hash |-> "submitted",
      maxRequests |-> maxRequests]
=============================================================================
