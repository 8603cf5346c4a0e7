----------------------------- MODULE Normalization -----------------------------
(***************************************************************************)
(* normalizeAndMergeServices: the records of the collectors are tidied, the *)
(* ones that belong together are merged into services, and each service    *)
(* gets its paths, artifacts, sockets and an account of what contradicts.  *)
(*                                                                         *)
(* A host is a record of sets: units, processes, containers, projects,     *)
(* sockets, artifacts, mounts.  A record has an `id` whose order is that of *)
(* the sorted list, and the evidence `ev` it was read from.  A name of a    *)
(* unit is a sequence of parts, so that one can be the end of another.      *)
(***************************************************************************)
EXTENDS HostPaths, FiniteSets, FiniteSetsExt

CONSTANT KernelCommands \* commands in brackets

\* normalizeSystemdUnits and the others of its kind.
Tidied(raw) ==
  [raw EXCEPT
     !.units = {[u EXCEPT !.fragment = Tidy(@), !.cwd = Tidy(@),
                          !.env = {Tidy(p) : p \in @}] : u \in @},
     !.processes = {[r EXCEPT !.exe = Tidy(@), !.cwd = Tidy(@)] : r \in @},
     !.containers = {[c EXCEPT !.mounts =
                        {[m EXCEPT !.source = Tidy(@), !.target = Tidy(@)] : m \in @}] : c \in @},
     !.projects = {[j EXCEPT !.cwd = Tidy(@), !.files = {Tidy(p) : p \in @}] : j \in @},
     !.artifacts = {[a EXCEPT !.path = Tidy(@)] : a \in @}]

\* find() on a list that is sorted by id.
FirstOf(records) == CHOOSE r \in records : \A s \in records : r.id <= s.id

-----------------------------------------------------------------------------
(* buildServiceGraph *)

\* unitNode, processNode, containerNode, composeNode
UnitNode(u) == <<"unit", u.id>>
ProcessNode(pid) == <<"process", pid>>
ContainerNode(c) == <<"container", c.id>>
ComposeNode(j, s) == <<"compose", j.id, s.name>>

ServiceNodes(host) ==
  {UnitNode(u) : u \in host.units} \cup {ProcessNode(r.pid) : r \in host.processes}
    \cup {ContainerNode(c) : c \in host.containers}
    \cup UNION {{ComposeNode(j, s) : s \in j.services} : j \in host.projects}

\* idsMatch: a short id stands for the long one.
IdsMatch(a, b) == IsPrefix(a, b) \/ IsPrefix(b, a)

\* findContainer
ContainersNamed(hex, host) ==
  LET matching == {c \in host.containers : hex # None /\ IdsMatch(hex, c.hex)}
  IN IF matching = {} THEN {} ELSE {FirstOf(matching)}

\* extractSystemdUnit: the first service in the cgroup path.
UnitsNamed(r, host) ==
  {u \in host.units : r.slices # <<>> /\ u.name = r.slices[1]}

DirectLinks(host) ==
  {<<UnitNode(u), ProcessNode(u.main)>> : u \in {v \in host.units : v.main > 0}}
    \cup {<<ContainerNode(c), ProcessNode(c.pid)>> : c \in {d \in host.containers : d.pid > 0}}
    \cup UNION {
      UNION {{<<ProcessNode(r.pid), UnitNode(u)>> : u \in UnitsNamed(r, host)} :
             r \in host.processes},
      UNION {{<<ProcessNode(r.pid), ContainerNode(c)>> : c \in ContainersNamed(r.box, host)} :
             r \in host.processes},
      UNION {UNION {UNION {{<<ComposeNode(j, s), ContainerNode(c)>> :
                              c \in ContainersNamed(hex, host)} : hex \in s.boxes} :
                    s \in j.services} : j \in host.projects}}

\* The entries of services: main processes of units and first processes of
\* containers.
Anchors(host) ==
  ({u.main : u \in host.units} \cup {c.pid : c \in host.containers}) \ {0}

\* What can be reached from one of `start` in n steps along the pairs.
Beyond(found, pairs) == found \cup {pair[2] : pair \in {q \in pairs : q[1] \in found}}
Reached(start, pairs, n) ==
  LET found[k \in 0..n] == IF k = 0 THEN start ELSE Beyond(found[k - 1], pairs)
  IN found[n]

\* Mutation: the walk down the process tree goes on below other entries.
DescendantsAcross(anchor, host) ==
  LET below == {<<r.ppid, r.pid>> : r \in host.processes}
  IN IF \A r \in host.processes : r.pid # anchor THEN {}
     ELSE Reached({anchor}, below, Cardinality(host.processes)) \ {anchor}

\* The processes below an entry, down to other entries.
Descendants(anchor, host) ==
  LET below == {<<r.ppid, r.pid>> : r \in {q \in host.processes : q.pid \notin Anchors(host)}}
  IN IF \A r \in host.processes : r.pid # anchor THEN {}
     ELSE Reached({anchor}, below, Cardinality(host.processes)) \ {anchor}

TreeLinks(host) ==
  UNION {{<<ProcessNode(a), ProcessNode(p)>> : p \in Descendants(a, host)} : a \in Anchors(host)}

\* UnionFind: the group of a node under the links whose ends both exist.
GroupOf(node, nodes, links) ==
  LET known == {l \in links : Range(l) \subseteq nodes}
  IN Reached({node}, known \cup {<<l[2], l[1]>> : l \in known}, Cardinality(nodes))

Partition(nodes, links) == {GroupOf(n, nodes, links) : n \in nodes}

UnitsIn(g, host) == {u \in host.units : UnitNode(u) \in g}
ProcessesIn(g, host) == {r \in host.processes : ProcessNode(r.pid) \in g}
ContainersIn(g, host) == {c \in host.containers : ContainerNode(c) \in g}
ComposedIn(g, host) ==
  UNION {{<<j, s>> : s \in {t \in j.services : ComposeNode(j, t) \in g}} : j \in host.projects}

HasEntity(g) == \E n \in g : n[1] # "process"

Signature(r) ==
  <<IF r.exe = None THEN <<r.command>> ELSE r.exe, r.cwd, r.command, r.args>>

\* Processes that nothing owns are merged when they run the same thing.
StandaloneLinks(host, groups) ==
  LET alone == {r \in host.processes :
                  /\ r.box = None /\ r.slices = <<>>
                  /\ \A g \in groups : ProcessNode(r.pid) \in g => ~HasEntity(g)}
  IN {<<ProcessNode(pair[1].pid), ProcessNode(pair[2].pid)>> :
        pair \in {both \in alone \X alone : Signature(both[1]) = Signature(both[2])}}

IsKernelThread(r) == r.exe = None /\ r.cwd = None /\ r.command \in KernelCommands

\* The groups of nodes; groups of kernel threads are dropped.
ServiceGroups(host) ==
  LET nodes == ServiceNodes(host)
      links == DirectLinks(host) \cup TreeLinks(host)
      all == Partition(nodes, links \cup StandaloneLinks(host, Partition(nodes, links)))
  IN {g \in all : HasEntity(g) \/ \E r \in ProcessesIn(g, host) : ~IsKernelThread(r)}

-----------------------------------------------------------------------------
(* buildServices *)

\* collectServicePaths: where a path of a group goes, and the directories below
\* which artifacts belong to it.
ServicePaths(g, host) ==
  LET units == UnitsIn(g, host)
      processes == ProcessesIn(g, host)
      mounts == {m \in UNION {c.mounts : c \in ContainersIn(g, host)} :
                   Absolute(m.source) # None}
      projects == {pair[1] : pair \in ComposedIn(g, host)}
      usable(ps) == {Absolute(p) : p \in ps} \ {None}
      commands == usable(UNION UNION {u.exec : u \in units})
      either(looks(_), m) == looks(m.source) \/ looks(m.target)
      env == {m \in mounts : either(LooksLikeEnvironment, m)}
      config == {m \in mounts \ env : either(LooksLikeConfig, m)}
      log == {m \in mounts \ (env \cup config) : either(LooksLikeLog, m)}
      data == {m \in mounts \ (env \cup config \cup log) : either(LooksLikeData, m)}
      other == mounts \ (env \cup config \cup log \cup data)
      sources(ms) == usable({m.source : m \in ms})
      deploy == {p \in usable({u.cwd : u \in units} \cup {r.cwd : r \in processes})
                       \cup {Parent(p) : p \in usable({r.exe : r \in processes})}
                       \cup {Parent(p) : p \in {c \in commands : ~LooksLikeConfig(c)}}
                       \cup sources(other) : ~IsBroadRoot(p)}
      arguments == UNION {r.args : r \in processes}
      configFiles == usable({u.fragment : u \in units} \cup {a \in arguments : LooksLikeConfig(a)}
                              \cup UNION {j.files : j \in projects})
                       \cup {c \in commands : LooksLikeConfig(c)} \cup sources(config)
      envFiles == usable(UNION {u.env : u \in units}) \cup sources(env)
  IN [deploy |-> deploy \cup {p \in usable({j.cwd : j \in projects}) : ~IsBroadRoot(p)},
      config |-> configFiles,
      env |-> envFiles,
      log |-> Outermost(sources(log)),
      data |-> Outermost(sources(data)),
      roots |-> deploy \cup sources(log) \cup sources(data)
                  \cup {p \in {Parent(f) : f \in configFiles \cup envFiles} : ~IsBroadRoot(p)}]

\* The length of the root of a group that matches an artifact best; 0 if none does.
BestRoot(paths, artifact) ==
  Max({0} \cup {1 + Len(r) : r \in {q \in paths.roots : PathContains(q, artifact.path)}})

\* An artifact goes to the one group with the most specific root, or to none.
Owners(artifact, groups, paths) ==
  LET best == Max({0} \cup {BestRoot(paths[g], artifact) : g \in groups})
      owners == {g \in groups : BestRoot(paths[g], artifact) = best}
  IN IF best > 0 /\ Cardinality(owners) = 1 THEN owners ELSE {}

\* attachArtifact: the collection an artifact is added to, if any.
Collection(a) ==
  CASE a.type = "directory" /\ LooksLikeLog(a.path) -> "log"
    [] a.type = "directory" /\ ~LooksLikeLog(a.path) /\ LooksLikeData(a.path) -> "data"
    [] OTHER -> CASE a.kind \in {"config", "compose"} -> "config"
                  [] a.kind = "environment" -> "env"
                  [] a.kind = "log" -> "log"
                  [] a.kind = "data" /\ a.type = "directory" -> "data"
                  [] OTHER -> "none"

WithArtifacts(own, attached) ==
  LET of(kind) == {a.path : a \in {b \in attached : Collection(b) = kind}}
  IN [own EXCEPT !.config = @ \cup of("config"), !.env = @ \cup of("env"),
                 !.log = Outermost(@ \cup of("log")), !.data = Outermost(@ \cup of("data"))]

\* systemdStatus, containerStatus and serviceStatusSources
UnitStatus(u) ==
  CASE u.active = "failed" -> "failed"
    [] u.active # "failed" /\ (u.active = "active" \/ u.sub = "running") -> "running"
    [] u.active \in {"inactive", "deactivating"} /\ u.sub # "running" -> "stopped"
    [] OTHER -> "unknown"

ContainerStatus(c) ==
  CASE c.state \in {"running", "restarting", "paused"} -> "running"
    [] c.state = "dead" -> "failed"
    [] c.state \in {"exited", "created", "removing"} -> "stopped"
    [] OTHER -> "unknown"

StatusSources(g, host) ==
  {UnitStatus(u) : u \in UnitsIn(g, host)} \cup {ContainerStatus(c) : c \in ContainersIn(g, host)}
    \cup (IF ProcessesIn(g, host) = {} THEN {} ELSE {"running"})

ServiceStatus(g, host) ==
  LET found == {s \in {"failed", "running", "stopped"} : s \in StatusSources(g, host)}
  IN CASE "failed" \in found -> "failed"
       [] "failed" \notin found /\ "running" \in found -> "running"
       [] found = {"stopped"} -> "stopped"
       [] OTHER -> "unknown"

\* enabledAtBoot: what the units of a group say.
Enabled(units) ==
  LET on == {"enabled", "enabled-runtime"}
      said == {u.enabled : u \in units} \cap (on \cup {"disabled", "masked"})
  IN {(state \in on) : state \in said}

\* serviceConflictFields and the two that buildServices adds.  A unit has one
\* command, told apart by the paths in it.
Conflicts(g, host) ==
  LET composed == Cardinality(ComposedIn(g, host))
      containers == Cardinality(ContainersIn(g, host))
      units == UnitsIn(g, host)
      identity == \/ composed > 1
                  \/ composed = 0 /\ containers > 1
                  \/ composed = 0 /\ containers = 0 /\ Cardinality(units) > 1
      field(name, cond) == IF cond THEN {name} ELSE {}
  IN field("identity", identity)
       \cup field("status", Cardinality(StatusSources(g, host) \ {"unknown"}) > 1)
       \cup field("startCommand", Cardinality({u.exec : u \in units} \ {{}}) > 1)
       \cup field("enabledAtBoot", Cardinality(Enabled(units)) > 1)

Unknowns(g, host, paths) ==
  LET units == UnitsIn(g, host)
      field(name, cond) == IF cond THEN {name} ELSE {}
  IN {"purpose"} \cup field("status", ServiceStatus(g, host) = "unknown")
       \cup field("deployDirectories", paths.deploy = {})
       \cup field("enabledAtBoot", units # {} /\ Enabled(units) = {})

\* socketBelongsToGroup
SocketsIn(g, host) ==
  {s \in host.sockets :
     \/ s.pids \cap {r.pid : r \in ProcessesIn(g, host)} # {}
     \/ \E hex \in s.boxes : \E c \in ContainersIn(g, host) : IdsMatch(hex, c.hex)}

\* isObservableServiceGroup
IsObservable(g, host, paths, sockets) ==
  \/ HasEntity(g)
  \/ /\ {r.pid : r \in ProcessesIn(g, host)} # {1}
     /\ sockets # {} \/ paths.deploy \cup paths.config \cup paths.env \cup paths.log
                          \cup paths.data # {}

\* stableServiceId: the first compose service, container or unit names the group; a
\* group of processes is named by what they run, each as often as it runs.  Ids of
\* containers are in the order of their names.
ServiceId(g, host) ==
  LET composed == {ComposeNode(pair[1], pair[2]) : pair \in ComposedIn(g, host)}
      containers == ContainersIn(g, host)
      units == UnitsIn(g, host)
      processes == ProcessesIn(g, host)
  IN CASE composed # {} ->
            CHOOSE n \in composed : \A m \in composed :
              n[2] < m[2] \/ (n[2] = m[2] /\ n[3] <= m[3])
       [] composed = {} /\ containers # {} -> ContainerNode(FirstOf(containers))
       [] composed = {} /\ containers = {} /\ units # {} -> UnitNode(FirstOf(units))
       [] OTHER -> <<"processes", {<<Signature(r),
                      Cardinality({q \in processes : Signature(q) = Signature(r)})>> :
                        r \in processes}>>

\* A ServiceRecord.
Service(g, host, paths, attached) ==
  LET own == WithArtifacts(paths, attached)
      sockets == SocketsIn(g, host)
      conflict == Conflicts(g, host)
  IN [id |-> ServiceId(g, host),
      nodes |-> g,
      paths |-> own,
      sockets |-> {s.id : s \in sockets},
      conflict |-> conflict,
      unknown |-> Unknowns(g, host, own),
      status |-> ServiceStatus(g, host),
      confidence |-> IF conflict # {} THEN "conflict"
                     ELSE IF HasEntity(g) THEN "confirmed" ELSE "inferred",
      ev |-> UNION ({r.ev : r \in UnitsIn(g, host) \cup ContainersIn(g, host)}
                      \cup {r.ev : r \in ProcessesIn(g, host)}
                      \cup {s.ev : s \in sockets}
                      \cup {pair[1].ev : pair \in ComposedIn(g, host)}
                      \cup {a.ev : a \in {b \in attached : Collection(b) # "none"}})]

\* normalizeAndMergeServices: the services of a tidied host.
Services(host) ==
  LET groups == ServiceGroups(host)
      paths == [g \in groups |-> ServicePaths(g, host)]
      attached(g) == {a \in host.artifacts : g \in Owners(a, groups, paths)}
  IN {Service(g, host, paths[g], attached(g)) :
        g \in {h \in groups :
                 IsObservable(h, host, WithArtifacts(paths[h], attached(h)),
                              SocketsIn(h, host))}}
=============================================================================
