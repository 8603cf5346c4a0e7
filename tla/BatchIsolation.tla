---------------------------- MODULE BatchIsolation ----------------------------
(***************************************************************************)
(* One batch of objects of one kind (systemd units, containers, paths) that *)
(* is asked for by a single remote command, and what is done when the      *)
(* command fails or its output lacks objects.  There are two versions of   *)
(* it: the collectors of service-discovery.ts, and the governed probes of  *)
(* governed-probes.ts.  Both are recursive functions that await one command *)
(* after the other; their calls to come are the list `todo`.               *)
(***************************************************************************)
EXTENDS Integers, Sequences, FiniteSets, Functions

CONSTANTS
  N,       \* number of objects; an object is its position in the batch
  Modes,   \* the versions: "collector", "governed"
  Vanishes \* bound: objects that change while the batch runs

ASSUME BatchAssumption ==
  /\ N \in Nat \ {0}
  /\ Modes \subseteq {"collector", "governed"}
  /\ Vanishes \in Nat

VARIABLES
  mode,     \* the version that runs
  remote,   \* how the host answers for each object
  fits,     \* objects whose output fits into maxOutputBytes: as many in each batch,
            \* though the governed limit is the sum over the requests of the batch
  prefix,   \* whether output that is cut can be read up to the cut
  todo,     \* the batches still to be asked for
  outcome,  \* what is known of each object
  commands, \* history: number of commands, counted up to Enough
  expired,  \* the signal is aborted: the deadline, or the user
  vanished

vars == <<mode, remote, fits, prefix, todo, outcome, commands, expired,
          vanished>>

Objects == 1..N

\* present: its block is in the output; absent: the command succeeds without
\* it, or with another name for it; breaking: the command fails.
Remotes == {"present", "absent", "breaking"}

Enough == 2 * N

Init ==
  /\ mode \in Modes
  /\ remote \in [Objects -> Remotes]
  /\ fits \in Objects
  /\ prefix \in BOOLEAN
  /\ todo = <<[i \in Objects |-> i]>>
  /\ outcome = [o \in Objects |-> "none"]
  /\ commands = 0
  /\ expired = FALSE
  /\ vanished = 0

-----------------------------------------------------------------------------
(* One command. *)

\* The status of a command for a batch.
Status(batch) ==
  CASE expired -> "cancelled"
    [] ~expired /\ \E o \in Range(batch) : remote[o] = "breaking" -> "failed"
    [] OTHER -> IF Len(batch) > fits THEN "truncated" ELSE "success"

\* The collectors take success only, the governed probes truncated output too.
Successful(status) ==
  \/ status = "success"
  \/ mode = "governed" /\ status = "truncated"

\* The objects of a batch found in its output: JSON that is cut has none.
Found(batch) ==
  LET readable == IF Len(batch) <= fits THEN Range(batch)
                  ELSE IF prefix THEN Range(SubSeq(batch, 1, fits)) ELSE {}
  IN {o \in readable : remote[o] = "present"}

\* Mutation: one object is split off, then the rest is asked for.
HalvesUneven(batch) == <<SubSeq(batch, 1, 1), SubSeq(batch, 2, Len(batch))>>

\* Mutation: the object in the middle belongs to both halves.
HalvesOverlapping(batch) ==
  LET middle == (Len(batch) + 1) \div 2
  IN <<SubSeq(batch, 1, middle), SubSeq(batch, middle, Len(batch))>>

\* splitBatch: the first half is the larger one.
Halves(batch) ==
  LET middle == (Len(batch) + 1) \div 2
  IN <<SubSeq(batch, 1, middle), SubSeq(batch, middle + 1, Len(batch))>>

\* The objects of a batch that were not found, in its order.
Missing(batch) ==
  LET upTo[k \in 0..Len(batch)] ==
        IF k = 0 THEN << >>
        ELSE IF batch[k] \in Found(batch) THEN upTo[k - 1]
        ELSE Append(upTo[k - 1], batch[k])
  IN upTo[Len(batch)]

\* Mutation: a batch that failed is given up.
FollowUpNone(batch) ==
  IF ~Successful(Status(batch)) \/ Missing(batch) = << >> THEN << >>
  ELSE IF mode = "collector" /\ Found(batch) = {} THEN Halves(batch)
  ELSE <<Missing(batch)>>

\* Mutation: the collectors too ask again for all that is missing.
FollowUpWhole(batch) ==
  IF ~Successful(Status(batch)) THEN Halves(batch)
  ELSE IF Missing(batch) = << >> THEN << >>
  ELSE <<Missing(batch)>>

\* The batches that follow one of several objects.  Only the collectors split
\* a batch of which nothing was found.
FollowUp(batch) ==
  IF ~Successful(Status(batch)) THEN Halves(batch)
  ELSE IF Missing(batch) = << >> THEN << >>
  ELSE IF mode = "collector" /\ Found(batch) = {} THEN Halves(batch)
  ELSE <<Missing(batch)>>

\* What is known of object o after the command for its batch.
Known(o, batch) ==
  IF Len(batch) > 1
  THEN IF Successful(Status(batch)) /\ o \in Found(batch) THEN "found" ELSE "none"
  ELSE IF /\ Successful(Status(batch))
          /\ mode = "collector" => o \in Found(batch)
       THEN "found" ELSE "failed"

\* The next command, and the calls its result leads to.
Command ==
  /\ todo # << >>
  /\ LET batch == Head(todo)
     IN /\ outcome' = [o \in Objects |->
                         IF o \in Range(batch) THEN Known(o, batch) ELSE outcome[o]]
        /\ todo' = (IF Len(batch) > 1 THEN FollowUp(batch) ELSE << >>) \o Tail(todo)
  /\ commands' = IF commands < Enough THEN commands + 1 ELSE Enough
  /\ UNCHANGED <<mode, remote, fits, prefix, expired, vanished>>

\* The deadline of governed probes, or the abort signal of a scan.
Expire ==
  /\ ~expired
  /\ todo # << >>
  /\ expired' = TRUE
  /\ UNCHANGED <<mode, remote, fits, prefix, todo, outcome, commands, vanished>>

\* A unit is unloaded, a container removed, between two commands.
Vanish(o) ==
  /\ vanished < Vanishes
  /\ todo # << >>
  /\ remote[o] = "present"
  /\ \E r \in {"absent", "breaking"} : remote' = [remote EXCEPT ![o] = r]
  /\ vanished' = vanished + 1
  /\ UNCHANGED <<mode, fits, prefix, todo, outcome, commands, expired>>

Next == Command \/ Expire \/ \E o \in Objects : Vanish(o)

\* A command returns or times out.  Only the governed probes have a deadline of
\* their own (120 s); a scan without a signal is never aborted.
Fairness ==
  /\ WF_vars(Command)
  /\ WF_vars(mode = "governed" /\ Expire)

Spec == Init /\ [][Next]_vars /\ Fairness

-----------------------------------------------------------------------------
(* Properties. *)

\* No object is lost and none is asked for twice over: at any time an object
\* either has its result or is in exactly one of the batches to come, whatever
\* fails, is missing, is cut or changes under way.
EachObjectOnce ==
  \A o \in Objects :
    LET waiting == {i \in DOMAIN todo : o \in Range(todo[i])}
    IN Cardinality(waiting) = (IF outcome[o] = "none" THEN 1 ELSE 0)

\* An object that breaks its batch, is absent or makes the output too long
\* takes no other object with it.
Isolated ==
  todo = << >> /\ ~expired =>
    \A o \in Objects : remote[o] = "present" => outcome[o] = "found"

\* One object that breaks its batch costs two commands for each halving and no
\* more, as long as output fits: the retries are logarithmic.
Power[k \in 0..N] == IF k = 0 THEN 1 ELSE 2 * Power[k - 1]
Depth == CHOOSE d \in 0..N : Power[d] >= N /\ \A e \in 0..d - 1 : Power[e] < N
FewRetries ==
  /\ vanished = 0 /\ ~expired /\ fits = N
  /\ Cardinality({o \in Objects : remote[o] = "breaking"}) <= 1
  /\ \A o \in Objects : remote[o] # "absent"
  => commands <= 1 + 2 * Depth

\* The whole ends.
Ends == <>(todo = << >>)

\* The same bound for both versions: isolating objects takes no more commands.
RetriesBounded == commands <= 2 * N - 1
=============================================================================
