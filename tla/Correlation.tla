------------------------------ MODULE Correlation ------------------------------
(***************************************************************************)
(* buildResourceGraph: the objects of a host as nodes, how one of them     *)
(* points to another as edges, and the union-find over the strong edges.   *)
(***************************************************************************)
EXTENDS Normalization

PathNode(p) == <<"path", p>>

\* buildNodes and pathNodesForSnapshot: a path of a seed or of an artifact is one
\* node, with the evidence of both.
Nodes(host, seeds) ==
  LET node(kind, r) == [id |-> <<kind, r.id>>, kind |-> kind, ev |-> r.ev]
      paths == {s.path : s \in seeds} \cup {a.path : a \in host.artifacts}
      pathEv(p) == UNION ({s.ev : s \in {t \in seeds : t.path = p}}
                            \cup {a.ev : a \in {b \in host.artifacts : b.path = p}})
  IN {node("unit", u) : u \in host.units}
       \cup {[id |-> ProcessNode(r.pid), kind |-> "process", ev |-> r.ev] : r \in host.processes}
       \cup {node("socket", s) : s \in host.sockets}
       \cup {node("container", c) : c \in host.containers}
       \cup {node("project", j) : j \in host.projects}
       \cup {node("mount", m) : m \in host.mounts}
       \cup {[id |-> PathNode(p), kind |-> "path", ev |-> pathEv(p)] : p \in paths}
       \cup {[id |-> <<"host", 0>>, kind |-> "host", ev |-> {}]}

\* findCgroupUnit: the first unit whose name is somewhere in the cgroup path, which
\* may be the end of the name of another.
CgroupUnits(r, host) ==
  LET matching == {u \in host.units : \E name \in Range(r.slices) : IsSuffix(u.name, name)}
  IN IF matching = {} THEN {} ELSE {FirstOf(matching)}

\* findProcessContainer: by the cgroup path.  The id that the collectors give with
\* the process has a prefix which the ids it is compared with do not have.
CgroupContainers(r, host) ==
  LET matching == {c \in host.containers : r.box # None /\ IsPrefix(c.hex, r.box)}
  IN IF matching = {} THEN {} ELSE {FirstOf(matching)}

\* longestContainingMount
MountsOf(path, host) ==
  LET containing == {m \in host.mounts : PathContains(m.target, path)}
      longest == {m \in containing : \A n \in containing : Len(n.target) <= Len(m.target)}
  IN IF longest = {} THEN {} ELSE {CHOOSE m \in longest : TRUE}

Edge(kind, from, to) == [kind |-> kind, from |-> from, to |-> to]

ProcessEdges(host) ==
  UNION {
    {Edge("unit_main_process", UnitNode(u), ProcessNode(u.main)) : u \in host.units},
    {Edge("process_parent", ProcessNode(r.ppid), ProcessNode(r.pid)) : r \in host.processes},
    {Edge("process_container", ProcessNode(c.pid), ContainerNode(c)) : c \in host.containers},
    UNION {{Edge("process_cgroup_unit", ProcessNode(r.pid), UnitNode(u)) :
              u \in CgroupUnits(r, host)} : r \in host.processes},
    UNION {{Edge("process_container", ProcessNode(r.pid), ContainerNode(c)) :
              c \in CgroupContainers(r, host)} : r \in host.processes}}

\* Sockets by their processes, by the containers found for them, and by the ports that
\* containers publish.
SocketEdges(host) ==
  UNION {
    UNION {{Edge("process_socket", ProcessNode(p), <<"socket", s.id>>) : p \in s.pids} :
           s \in host.sockets},
    UNION {{Edge("container_publishes_port", ContainerNode(c), <<"socket", s.id>>) :
              c \in {d \in host.containers : d.hex \in s.boxes}} : s \in host.sockets},
    UNION {{Edge("container_publishes_port", ContainerNode(c), <<"socket", s.id>>) :
              s \in {t \in host.sockets : \E m \in c.ports : m.host = t.port
                                                       /\ m.proto = t.proto}} :
           c \in host.containers}}

ComposeEdges(host) ==
  UNION {UNION {{Edge("container_compose_service", ContainerNode(c), <<"project", j.id>>) :
                   c \in {d \in host.containers : d.hex \in s.boxes}} : s \in j.services} :
         j \in host.projects}

\* addPathReferenceEdges, the mounts of containers, and path_on_mount.
PathEdges(host, seeds) ==
  LET kindOf == [systemd |-> "unit_references_path", process |-> "process_references_path",
                 docker |-> "container_mounts_path"]
  IN UNION {
       UNION {{Edge(kindOf[m.type], m.object, PathNode(s.path)) :
                 m \in {n \in s.sources : n.type # "compose"}} : s \in seeds},
       UNION {{Edge("container_mounts_path", ContainerNode(c), PathNode(m.source)) :
                 m \in {n \in c.mounts : Absolute(n.source) # None}} : c \in host.containers},
       UNION {{Edge("path_on_mount", PathNode(s.path), <<"mount", m.id>>) :
                 m \in MountsOf(s.path, host)} : s \in seeds}}

\* buildEdges: edges to objects that were not collected are dropped.
Edges(host, seeds) ==
  LET known == {n.id : n \in Nodes(host, seeds)}
  IN {e \in ProcessEdges(host) \cup SocketEdges(host) \cup ComposeEdges(host)
              \cup PathEdges(host, seeds) : e.from \in known /\ e.to \in known}

\* Mutation: a process does not belong to the container it runs in.
StrongOutside(edges) ==
  {e \in edges : e.kind \notin {"path_on_mount", "process_parent", "process_container"}}

\* STRONG_EDGE_KINDS
Strong(edges) == {e \in edges : e.kind \notin {"path_on_mount", "process_parent"}}

-----------------------------------------------------------------------------
(* connectedComponents: a forest in which every node knows its parent. *)

Above(parents, node) ==
  Reached({node}, {<<n, parents[n]>> : n \in DOMAIN parents}, Cardinality(DOMAIN parents))

\* find: the root, and the forest with the path to it compressed.
RootOf(parents, node) == CHOOSE r \in Above(parents, node) : parents[r] = r
Compressed(parents, node) ==
  [n \in DOMAIN parents |->
     IF n \in Above(parents, node) THEN RootOf(parents, node) ELSE parents[n]]

\* Mutation: the second node is moved, not its root.
UnitedLeaf(parents, left, right) == [parents EXCEPT ![right] = RootOf(parents, left)]

\* union
United(parents, left, right) ==
  [Compressed(Compressed(parents, left), right) EXCEPT
     ![RootOf(parents, right)] = RootOf(parents, left)]

\* The groups of nodes with the same root.
Components(parents) ==
  LET root == [n \in DOMAIN parents |-> RootOf(parents, n)]
  IN {{n \in DOMAIN parents : root[n] = r} : r \in Range(root)}
=============================================================================
