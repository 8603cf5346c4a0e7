------------------------------- MODULE HostPaths -------------------------------
(***************************************************************************)
(* Paths of the inspected host as the normalizer and the path seeds read   *)
(* them.  An absolute path is the sequence of its names; a path that is    *)
(* not absolute begins with the name Relative.                             *)
(***************************************************************************)
EXTENDS Naturals, Sequences, SequencesExt

CONSTANTS
  None,        \* a field that is undefined
  Relative,    \* first name of a path that does not begin with '/'
  ConfigNames, \* names that look like a configuration file
  EnvNames,    \* names that look like an environment file
  LogNames,    \* names that look like a log
  DataNames    \* names that look like data

Root == <<>>
LastName(p) == IF p = Root THEN Relative ELSE Last(p)
HasName(p, names) == Range(p) \cap names # {}

Resolve(p) ==
  FoldLeft(LAMBDA up, name : CASE name = "." -> up
                               [] name = ".." -> IF up = <<>> THEN up ELSE Front(up)
                               [] OTHER -> Append(up, name), <<>>, p)

\* normalizeAbsolutePath: None for what is not absolute.
Absolute(p) ==
  CASE p = None -> None
    [] p # None /\ p # Root /\ p[1] = Relative -> None
    [] OTHER -> Resolve(p)

\* normalizeAbsolutePath(value) ?? value
Tidy(p) == IF Absolute(p) = None THEN p ELSE Absolute(p)

\* pathContains compares with `${root}/`: the root directory contains itself only.
PathContains(root, p) == root = p \/ (root # Root /\ IsPrefix(root, p))

Under(p, roots) == \E r \in roots : IsPrefix(r, p)

IsBroadRoot(p) ==
  \/ p \in {Root, <<"etc">>, <<"home">>, <<"opt">>, <<"root">>, <<"srv">>, <<"usr">>,
            <<"var">>}
  \/ Under(p, {<<"bin">>, <<"lib">>, <<"lib64">>, <<"sbin">>, <<"run">>, <<"tmp">>,
               <<"usr", "bin">>, <<"usr", "lib">>, <<"usr", "lib64">>, <<"usr", "sbin">>,
               <<"usr", "share">>, <<"var", "run">>, <<"var", "lib", "docker", "overlay">>,
               <<"var", "lib", "docker", "overlay2">>})

LooksLikeConfig(p) == LastName(p) \in ConfigNames
LooksLikeEnvironment(p) == LastName(p) \in EnvNames
LooksLikeLog(p) == HasName(p, LogNames)
LooksLikeData(p) == HasName(p, DataNames)

\* What addPathLocation leaves of the paths that were added one after another.
Outermost(ps) == {p \in ps : \A q \in ps \ {p} : ~PathContains(q, p)}

Parent(p) == IF p = Root THEN Root ELSE Front(p)

-----------------------------------------------------------------------------
(* Path seeds (path-seeds.ts). *)

ExcludedRoots ==
  {<<"proc">>, <<"sys">>, <<"dev">>, <<"run">>, <<"tmp">>,
   <<"var", "lib", "docker", "overlay">>, <<"var", "lib", "docker", "overlay2">>,
   <<"var", "lib", "containers", "storage", "overlay">>}

\* normalizePathSeed
SeedPath(p) ==
  LET path == Absolute(p)
  IN IF path = None \/ path = Root THEN None
     ELSE IF Under(path, ExcludedRoots) THEN None ELSE path

\* The places in which a path is mentioned: the path, the kind of the source, and
\* the object.  An argument of a process counts if it looks like configuration.
Mentions(raw) ==
  UNION {
    UNION {{[path |-> p, type |-> "systemd", object |-> <<"unit", u.id>>, ev |-> u.ev] :
              p \in {u.cwd, u.fragment} \cup u.env \cup UNION u.exec} : u \in raw.units},
    UNION {{[path |-> p, type |-> "process", object |-> <<"process", r.pid>>, ev |-> r.ev] :
              p \in {r.exe, r.cwd} \cup {a \in r.args : LooksLikeConfig(a)
                                                     \/ LooksLikeEnvironment(a)}} :
           r \in raw.processes},
    UNION {{[path |-> m.source, type |-> "docker", object |-> <<"container", c.id>>,
             ev |-> c.ev] : m \in c.mounts} : c \in raw.containers},
    UNION {{[path |-> p, type |-> "compose", object |-> <<"project", j.id>>, ev |-> j.ev] :
              p \in {j.cwd} \cup j.files} : j \in raw.projects}}

\* buildPathSeeds: one seed for each path, with everything that mentions it.
Seeds(raw) ==
  LET usable == {m \in Mentions(raw) : SeedPath(m.path) # None}
      sources(p) == {m \in usable : SeedPath(m.path) = p}
  IN {[path |-> p,
       sources |-> {[type |-> m.type, object |-> m.object] : m \in sources(p)},
       ev |-> UNION {m.ev : m \in sources(p)}] : p \in {SeedPath(m.path) : m \in usable}}
=============================================================================
