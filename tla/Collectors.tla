----------------------------- MODULE Collectors -----------------------------
(***************************************************************************)
(* What the collectors of packages/collectors make of the results of their  *)
(* commands: which command comes next, which unknowns the snapshot gets and *)
(* which status each piece of evidence has.  A collector looks at results  *)
(* only after the commands of a batch have all ended, so all of this is a  *)
(* function of the results it has `got`.                                   *)
(*                                                                         *)
(* M3 is system.ts with probe.ts, M4 service-discovery.ts, the paths are   *)
(* path-metadata.ts and, in the deep profile, directory-discovery.ts.  What *)
(* a collector asks for is an item; the batches of unit details and of     *)
(* containers are one command here, BatchIsolation has their halving.      *)
(***************************************************************************)
EXTENDS Integers, Sequences, FiniteSets, Functions

CONSTANTS
  Probes,   \* the probes of M3, a set of names; "os-release" comes first
  Variants, \* the commands of a probe, in the order they are tried
  Required  \* the probes whose failure is an unknown

ASSUME ProbeAssumption ==
  /\ "os-release" \in Probes
  /\ DOMAIN Variants = Probes
  /\ \A p \in Probes : Variants[p] # << >>
  /\ Required \subseteq Probes

-----------------------------------------------------------------------------
(* Results of commands. *)

\* output: whole, a part of it, more entries than maxFilesPerDirectory ("over"),
\* nothing, or what the parser rejects; stderr: which known text it holds, where
\* "mixed" is about a missing file and about something else.
Result(status, output, stderr) ==
  [status |-> status, output |-> output, stderr |-> stderr]

Whole == Result("success", "whole", "empty")

Succeeded(got, c) == c \in DOMAIN got /\ got[c].status = "success"
Parsed(got, c) == Succeeded(got, c) /\ got[c].output = "whole"
Missing(got, c) == c \in DOMAIN got /\ got[c].status = "command_missing"

\* Of a sequence of commands, the first that has not run.
FirstLeft(got, commands) ==
  LET left == {i \in DOMAIN commands : commands[i] \notin DOMAIN got}
  IN {commands[i] : i \in {k \in left : \A j \in left : k <= j}}

\* toCollectionStatus.
CollectionStatus(r) == IF r.status = "cancelled" THEN "failed" ELSE r.status

\* The status of the evidence of a command whose parser marks its errors.
EvidenceStatus(r) ==
  IF r.status = "success" /\ r.output = "garbled" THEN "failed" ELSE CollectionStatus(r)

-----------------------------------------------------------------------------
(* M3: probes with variants. *)

HasValue(got, p) == \E i \in DOMAIN Variants[p] : Parsed(got, Variants[p][i])

\* Mutation: the first variant is tried until it has a value.
NextVariantAgain(got, p) == IF HasValue(got, p) THEN {} ELSE {Variants[p][1]}

\* runProbe: the variant to come, if any.
NextVariant(got, p) ==
  IF HasValue(got, p) THEN {} ELSE FirstLeft(got, Variants[p])

\* collectM3Snapshot: the distribution is known before the other probes run.
NextM3(got) ==
  LET release == NextVariant(got, "os-release")
  IN IF release # {} THEN release ELSE UNION {NextVariant(got, p) : p \in Probes}

\* probeFailureSummary.
UnknownProbes(got) == {p \in Required : ~HasValue(got, p)}

-----------------------------------------------------------------------------
(* M4: processes, units, sockets and containers. *)

\* docker.info and the two lists that add names only are left out.  The commands
\* of a batch end in any order, which nothing depends on; one order is taken.
BaseCommands == <<"systemd-units", "process-list", "process-links", "ss", "docker-ps">>

DockerMissing(got) == Missing(got, "docker-ps")
DockerListed(got) == Parsed(got, "docker-ps") \/ Parsed(got, "docker-ps-basic")

\* What the collector asks for after the base commands, in this order.
AfterBase == <<"systemd-show", "netstat", "docker-ps-basic", "docker-inspect",
               "compose-ls", "docker-compose-ls">>

Wanted(got, c) ==
  CASE c = "systemd-show" -> Parsed(got, "systemd-units")
    [] c = "netstat" -> ~Parsed(got, "ss")
    [] c = "docker-ps-basic" -> ~DockerMissing(got) /\ ~Parsed(got, "docker-ps")
    [] c \in {"docker-inspect", "compose-ls"} -> DockerListed(got)
    [] c = "docker-compose-ls" -> DockerListed(got) /\ ~Succeeded(got, "compose-ls")

NextM4(got) ==
  IF FirstLeft(got, BaseCommands) # {} THEN FirstLeft(got, BaseCommands)
  ELSE FirstLeft(got, SelectSeq(AfterBase, LAMBDA c : Wanted(got, c)))

\* Mutation: whatever has printed something is good enough.
PartialFindAny(r) == IF r.output = "part" THEN [r EXCEPT !.status = "success"] ELSE r

\* normalizePartialFindResult: find ends with 1 when processes vanish or may not
\* be read; what it printed is taken as the links of the others.
PartialFind(r) ==
  IF r.status \in {"failed", "permission_denied"} /\ r.output = "part"
  THEN [r EXCEPT !.status = "success"] ELSE r

UnknownServices(got) ==
  {item \in {"process-list"} : ~Parsed(got, "process-list")}
  \cup {item \in {"process-links"} :
          LET links == PartialFind(got["process-links"])
          IN \/ links.status # "success"
             \/ Parsed(got, "process-list") /\ links.output = "none"}
  \cup {item \in {"systemd-show", "docker-inspect"} :
          item \in DOMAIN got /\ ~Parsed(got, item)}
  \cup {item \in {"sockets"} : ~Parsed(got, "ss") /\ ~Parsed(got, "netstat")}
  \cup {item \in {"docker"} : ~DockerMissing(got) /\ ~DockerListed(got)}

-----------------------------------------------------------------------------
(* The paths. *)

HasEntries(r) == r.output \in {"whole", "part", "over"}

\* shouldTryStatFallback and shouldTryBasicFallback.
Unsupported(got, c) ==
  \/ Missing(got, c)
  \/ c \in DOMAIN got /\ got[c].status = "failed" /\ got[c].stderr = "unsupported"

NotFound(r) == r.stderr \in {"not_found", "mixed"}

\* normalizedDirectoryStatus.
DirectoryStatus(r) == IF NotFound(r) THEN "not_found" ELSE CollectionStatus(r)

\* A command, and the one that takes its place.
Fallbacks == [metadata  |-> <<"stat-batch", "stat-basic-batch">>,
              directory |-> <<"find", "find-stat">>,
              data      |-> <<"stat", "stat-basic">>,
              config    |-> <<"read-config">>]

\* The result that is used: that of the last command that ran.
Selected(got, item) ==
  LET commands == Fallbacks[item]
  IN IF Len(commands) = 2 /\ commands[2] \in DOMAIN got
     THEN got[commands[2]] ELSE got[commands[1]]

\* A fallback is tried for directories only when there are no entries; the batch
\* of the standard profile does not look at its entries first.
FallsBack(got, item) ==
  LET first == Fallbacks[item][1]
  IN /\ Len(Fallbacks[item]) = 2
     /\ Unsupported(got, first)
     /\ item # "metadata" => ~HasEntries(got[first])

SeedItems(deep) == IF deep THEN {"directory", "data"} ELSE {"metadata"}

SeedCommands(got, deep) ==
  UNION {IF Fallbacks[item][1] \notin DOMAIN got THEN {Fallbacks[item][1]}
         ELSE IF FallsBack(got, item) THEN {Fallbacks[item][2]} \ DOMAIN got
         ELSE {} : item \in SeedItems(deep)}

\* collectM5Snapshot, collectPathMetadataSnapshot: configuration files are read
\* after all seeds were scanned, unless they are too large.
NextPaths(got, deep, largeConfig) ==
  IF SeedCommands(got, deep) # {} THEN SeedCommands(got, deep)
  ELSE IF deep /\ ~largeConfig /\ HasEntries(Selected(got, "directory"))
       THEN {"read-config"} \ DOMAIN got ELSE {}

Limited(r) == r.output = "over" \/ r.status = "truncated"

UnknownPath(got, item) ==
  LET r == Selected(got, item)
  IN CASE item = "metadata" -> r.output # "whole" /\ ~NotFound(r)
       [] item = "directory" ->
            IF HasEntries(r)
            THEN Limited(r) \/ r.status \in {"permission_denied", "failed"}
            ELSE DirectoryStatus(r) # "not_found"
       [] item = "data" -> ~HasEntries(r) /\ DirectoryStatus(r) # "not_found"
       [] item = "config" -> r.status \notin {"success", "command_missing"}

\* The items of the paths that were asked for.
PathItems(got) == {item \in DOMAIN Fallbacks : Fallbacks[item][1] \in DOMAIN got}

\* The status of the evidence of the result that is used.
PathStatus(got, item) ==
  LET r == Selected(got, item)
  IN CASE item = "metadata" ->
            IF r.status = "truncated" \/ r.output = "part" THEN "truncated"
            ELSE CollectionStatus(r)
       [] item = "directory" ->
            IF HasEntries(r) /\ Limited(r) THEN "truncated" ELSE DirectoryStatus(r)
       [] item = "data" ->
            IF HasEntries(r) THEN CollectionStatus(r) ELSE DirectoryStatus(r)
       [] item = "config" -> EvidenceStatus(r)

-----------------------------------------------------------------------------
(* All of it. *)

\* The unknowns of the snapshot.
Unknowns(got) ==
  UnknownProbes(got) \cup UnknownServices(got)
    \cup {item \in PathItems(got) : UnknownPath(got, item)}

\* The item a command of M4 is for.
ItemOf(c) ==
  CASE c \in {"ss", "netstat"} -> "sockets"
    [] c \in {"docker-ps", "docker-ps-basic"} -> "docker"
    [] c \in {"compose-ls", "docker-compose-ls"} -> "compose"
    [] OTHER -> c

ServiceCommands == Range(BaseCommands) \cup Range(AfterBase)

\* The items some evidence of which has a status other than success.  The parse
\* error of a list of projects is noted at docker.compose-ls.
Troubled(got) ==
  {p \in Probes : \E i \in DOMAIN Variants[p] :
     Variants[p][i] \in DOMAIN got /\ EvidenceStatus(got[Variants[p][i]]) # "success"}
  \cup {ItemOf(c) : c \in {d \in ServiceCommands \cap DOMAIN got :
          EvidenceStatus(IF d = "process-links" THEN PartialFind(got[d]) ELSE got[d])
            # "success"}}
  \cup {item \in PathItems(got) : PathStatus(got, item) # "success"}

=============================================================================
