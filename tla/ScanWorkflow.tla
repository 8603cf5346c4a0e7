----------------------------- MODULE ScanWorkflow -----------------------------
(***************************************************************************)
(* runScanWorkflow: one scan of a host, from its connection to the files   *)
(* of its inventory.  The two collectors M3 and M4 run side by side and     *)
(* share the executor; every command they end puts an audit record at the  *)
(* end of a chain of appends that goes on by itself.  The signal may abort *)
(* at any time, the connection may be lost, and a write or append may fail. *)
(*                                                                         *)
(* What the commands find is Collectors; how the connection is made and    *)
(* how a command ends are SshConnect and RemoteCommand; what happens to    *)
(* the run afterwards is PipelineRun.                                      *)
(***************************************************************************)
EXTENDS Collectors

CONSTANTS
  Settings,   \* options and facts of a scan: records of SettingType
  Answers(_), \* the results a command may have that are not whole
  MaxPending, \* bound: audit records that wait for their append
  MaxFaults   \* bound: results that are not whole, failed appends, the abort, the
              \* loss of the connection

SettingType ==
  [deep : BOOLEAN,        \* profile
   retained : BOOLEAN,    \* retainConnection: probes follow
   useSudo : {"never", "auto", "always"},
   password : BOOLEAN,    \* sudoPasswordProvider is there
   root : BOOLEAN,        \* the user is uid 0
   largeConfig : BOOLEAN] \* configuration files exceed maxConfigFileBytes

ASSUME ScanAssumption ==
  /\ Settings \subseteq SettingType
  /\ MaxPending \in Nat \ {0}
  /\ MaxFaults \in Nat

\* What a command that succeeds may have printed, where something less than the
\* whole would go unnoticed: a listing over its limit or without entries, or what
\* the parser rejects.  Output that was cut is not a success.
Printed(c) ==
  {"whole"}
    \cup (IF c \in {"find", "find-stat"} THEN {"over", "none"} ELSE {})
    \cup (IF c \in {"compose-ls", "docker-compose-ls", "read-config"}
          THEN {"garbled"} ELSE {})

Watched ==
  {"systemd-units", "compose-ls", "docker-compose-ls", "stat-batch", "stat-basic-batch",
   "find", "find-stat", "stat", "stat-basic", "read-config"}

ASSUME AnswerAssumption ==
  \A c \in Watched : \A r \in Answers(c) :
    /\ DOMAIN r = {"status", "output", "stderr"}
    /\ r.status = "success" => r.output \in Printed(c)

VARIABLES
  setting,
  stage,      \* where the workflow is
  got,        \* the results of the commands that ended
  audit,      \* the chain: records not appended yet, and whether an append failed
  connection, \* none, open, lost, closed
  aborted,    \* the signal
  meta,       \* the state in meta.json
  outcome,    \* how the call ended
  faults      \* how many faults there were

vars == <<setting, stage, got, audit, connection, aborted, meta, outcome, faults>>

Init ==
  /\ setting \in Settings
  /\ stage = "created"
  /\ got = [c \in {} |-> Whole]
  /\ audit = [pending |-> 0, lost |-> 0]
  /\ connection = "none"
  /\ aborted = FALSE
  /\ meta = "none"
  /\ outcome = "none"
  /\ faults = 0

-----------------------------------------------------------------------------
(* The executor. *)

Permissions == {"uid", "sudo"}

\* The commands a stage may execute now.  A probe does not try its next variant
\* when the signal has aborted; the other commands are cancelled one by one.
Executable ==
  CASE stage = "permissions" -> Permissions \ DOMAIN got
    [] stage = "sudo" -> {"sudo-auth"} \ DOMAIN got
    [] stage = "collecting" -> (IF aborted THEN {} ELSE NextM3(got)) \cup NextM4(got)
    [] stage = "paths" -> NextPaths(got, setting.deep, setting.largeConfig)
    [] OTHER -> {}

Cancelled == Result("cancelled", "none", "empty")
Disconnected == Result("failed", "none", "closed")

\* Nothing but the signal cancels a command.
Broken(c) == {r \in Answers(c) : r.status # "cancelled"}

Results(c) ==
  IF aborted THEN {Cancelled}
  ELSE IF connection # "open" THEN {Disconnected}
  ELSE {Whole} \cup (IF faults < MaxFaults THEN Broken(c) ELSE {})

\* SafeCommandExecutor.execute: a result of any kind is followed by its audit
\* record, which executorAudit puts into the chain without waiting for it.
Execute(c) ==
  /\ audit.pending < MaxPending
  /\ \E r \in Results(c) :
       /\ got' = [d \in DOMAIN got \cup {c} |-> IF d = c THEN r ELSE got[d]]
       /\ faults' = IF r \in {Whole, Cancelled, Disconnected} THEN faults ELSE faults + 1
  /\ audit' = [audit EXCEPT !.pending = @ + 1]
  /\ UNCHANGED <<setting, stage, connection, aborted, meta, outcome>>

\* The chain: a failed append is remembered, and the next one is made all the same.
Appended(ok) ==
  [audit EXCEPT !.pending = @ - 1, !.lost = IF ok THEN @ ELSE @ + 1]

AppendRecord ==
  /\ audit.pending > 0
  /\ \/ audit' = Appended(TRUE) /\ UNCHANGED faults
     \/ faults < MaxFaults /\ audit' = Appended(FALSE) /\ faults' = faults + 1
  /\ UNCHANGED <<setting, stage, got, connection, aborted, meta, outcome>>

-----------------------------------------------------------------------------
(* The workflow. *)

\* writeStage: the stage is on disk before the next one starts, or the write fails.
WriteStage(next) ==
  \/ stage' = next /\ meta' = next
  \/ stage' = "failing" /\ UNCHANGED meta

Fail == stage' = "failing" /\ UNCHANGED meta

\* Mutation: the signal is not looked at.
InterruptedNever == FALSE

\* throwIfAborted.
Interrupted == aborted

\* The workspace is there; connectSsh may fail.
Connect ==
  /\ stage \in {"created", "connecting"}
  /\ IF stage = "created" THEN WriteStage("connecting") /\ UNCHANGED connection
     ELSE \/ Fail /\ UNCHANGED connection
          \/ /\ connection' = "open"
             /\ IF Interrupted THEN Fail
                ELSE \/ stage' = "permissions" /\ meta' = "collecting"
                     \/ Fail
  /\ UNCHANGED <<setting, got, audit, aborted, outcome, faults>>

\* A uid that could not be read is not that of root.
MustAuthenticate ==
  /\ setting.useSudo # "never"
  /\ ~(setting.root /\ Parsed(got, "uid"))
  /\ ~Succeeded(got, "sudo")
  /\ setting.password

\* detectPermissions, and the password for sudo.
Authorize ==
  /\ stage \in {"permissions", "sudo"}
  /\ Executable = {}
  /\ IF stage = "permissions"
     THEN IF Interrupted THEN Fail
          ELSE stage' = (IF MustAuthenticate THEN "sudo" ELSE "collecting") /\ UNCHANGED meta
     ELSE IF Succeeded(got, "sudo-auth") THEN stage' = "collecting" /\ UNCHANGED meta
          ELSE Fail
  /\ UNCHANGED <<setting, got, audit, connection, aborted, outcome, faults>>

\* Promise.all of both collectors, then the stage of the paths.
Collected ==
  /\ stage \in {"collecting", "paths"}
  /\ Executable = {}
  /\ IF Interrupted THEN Fail
     ELSE stage' = (IF stage = "collecting" THEN "paths" ELSE "joining") /\ UNCHANGED meta
  /\ UNCHANGED <<setting, got, audit, connection, aborted, outcome, faults>>

\* Mutation: the chain is not awaited.
AuditDrainedAlways == TRUE

\* await auditWrite.
AuditDrained == audit.pending = 0

JoinAudit ==
  /\ stage = "joining"
  /\ AuditDrained
  /\ IF audit.lost > 0 THEN Fail ELSE WriteStage("normalizing")
  /\ UNCHANGED <<setting, got, audit, connection, aborted, outcome, faults>>

SessionState == IF Unknowns(got) = {} THEN "completed" ELSE "partial"

\* Normalization, redaction, the files of the snapshot, then those of the
\* inventory.  meta.json has its last state before the inventory is written.
Publish ==
  /\ stage \in {"normalizing", "redacting", "inventory"}
  /\ CASE stage = "normalizing" -> WriteStage("redacting") /\ UNCHANGED <<connection, outcome>>
       [] stage = "redacting" ->
            /\ \/ stage' = "inventory" /\ meta' = SessionState
               \/ stage' = "failing" /\ meta' \in {meta, SessionState}
            /\ UNCHANGED <<connection, outcome>>
       [] stage = "inventory" ->
            \/ /\ stage' = "ended"
               /\ outcome' = "ready"
               /\ connection' = IF setting.retained THEN connection ELSE "closed"
               /\ UNCHANGED meta
            \/ Fail /\ UNCHANGED <<connection, outcome>>
  /\ UNCHANGED <<setting, got, audit, aborted, faults>>

\* connection?.close().
Closed == IF connection = "none" THEN "none" ELSE "closed"

\* The catch block.  Its writes may fail, and the chain is not awaited.
Catch ==
  /\ stage = "failing"
  /\ stage' = "ended"
  /\ outcome' = IF aborted THEN "interrupted" ELSE "failed"
  /\ meta' \in {"failed", meta}
  /\ connection' = Closed
  /\ UNCHANGED <<setting, got, audit, aborted, faults>>

Abort ==
  /\ ~aborted
  /\ outcome = "none"
  /\ faults < MaxFaults
  /\ aborted' = TRUE
  /\ faults' = faults + 1
  /\ UNCHANGED <<setting, stage, got, audit, connection, meta, outcome>>

\* The connection is lost, by the host or on the way.
Lose ==
  /\ connection = "open"
  /\ stage # "ended"
  /\ faults < MaxFaults
  /\ connection' = "lost"
  /\ faults' = faults + 1
  /\ UNCHANGED <<setting, stage, got, audit, aborted, meta, outcome>>

Proceed == Connect \/ Authorize \/ Collected \/ JoinAudit \/ Publish \/ Catch

Ended == stage = "ended" /\ audit.pending = 0 /\ UNCHANGED vars

Next == AppendRecord \/ Proceed \/ Abort \/ Lose \/ (\E c \in Executable : Execute(c)) \/ Ended

\* A command ends, by its timeout at the latest; an append ends; the workflow
\* goes on when what it awaits has ended.
Fairness ==
  /\ WF_vars(AppendRecord)
  /\ WF_vars(Proceed)
  /\ WF_vars(\E c \in Executable : Execute(c))

Spec == Init /\ [][Next]_vars /\ Fairness

-----------------------------------------------------------------------------
(* Properties. *)

\* A scan that hands out an inventory has the audit record of every command it
\* executed on disk, although the records are appended behind its back.
AuditComplete == outcome = "ready" => audit = [pending |-> 0, lost |-> 0]

\* The items of which less is known than the host has: no command for them gave
\* an answer that is whole.  A path that does not exist, processes that find may
\* not read and programs that are not installed are no gaps.
NoAnswer(commands) == \A c \in commands : ~Parsed(got, c)
NotInstalled(commands) == \A c \in commands : c \in DOMAIN got => Missing(got, c)
Gaps ==
  {p \in Required : NoAnswer(Range(Variants[p]))}
  \cup {c \in {"process-list"} : NoAnswer({c})}
  \cup {c \in {"process-links"} : got[c].status \notin {"success", "failed", "permission_denied"}}
  \cup {c \in {"systemd-units"} : NoAnswer({c}) /\ ~NotInstalled({c})}
  \cup {c \in {"systemd-show", "docker-inspect"} : c \in DOMAIN got /\ NoAnswer({c})}
  \cup {c \in {"sockets"} : NoAnswer({"ss", "netstat"})}
  \cup {c \in {"docker"} : ~DockerListed(got) /\ ~NotInstalled({"docker-ps"})}
  \cup {c \in {"compose"} : /\ DockerListed(got)
                            /\ NoAnswer({"compose-ls", "docker-compose-ls"})
                            /\ ~NotInstalled({"compose-ls", "docker-compose-ls"})}
  \cup {item \in PathItems(got) :
          LET r == Selected(got, item)
          IN ~(r.status = "success" /\ r.output = "whole") /\ r.stderr # "not_found"}

\* Nothing is lost without a trace: what a scan does not know is an unknown of
\* its snapshot or has evidence with a status other than success, whichever
\* commands fail, are cut, denied or answered in part, and in whichever order.
GapsFlagged == outcome = "ready" => Gaps \subseteq Unknowns(got) \cup Troubled(got)

\* An aborted scan hands out nothing that was cut short: no result of a cancelled
\* command is in a snapshot.  A scan that did not succeed leaves no connection.
NothingAfterAbort ==
  /\ outcome = "ready" => \A c \in DOMAIN got : got[c] # Cancelled
  /\ outcome \in {"failed", "interrupted"} => connection \in {"none", "closed"}

\* Every scan ends, and so do the appends it has left behind.
ScanEnds == <>(outcome # "none" /\ audit.pending = 0)

=============================================================================
