----------------------------- MODULE PipelineRun -----------------------------
(***************************************************************************)
(* One run of the pipeline on disk, and the processes that work on it one  *)
(* after another: inspect (or scan), then any number of resume and discover*)
(* sessions.  A session keeps its artifacts in memory, writes them at the  *)
(* places the workflows write them, and may die between any two writes.    *)
(*                                                                         *)
(* Content is abstract: what a session produces is named by the session,   *)
(* and a hash is the content it is computed from.                          *)
(***************************************************************************)
EXTENDS Integers

CONSTANTS
  MaxAiCalls,   \* budgets.maxAiCalls
  Fast,         \* profile = 'fast': no probe stage
  Commands,     \* commands that may create the run: "inspect", "scan"
  Discoverable, \* the discover command is used on the run
  MaxSessions,  \* bound: sessions on the run
  MaxCrashes,   \* bound: sessions that die
  None,         \* no content, no checkpoint
  Torn          \* a file that is cut, or was edited

ASSUME RunAssumption ==
  /\ MaxAiCalls \in Nat
  /\ Fast \in BOOLEAN
  /\ Commands \subseteq {"inspect", "scan"}
  /\ Discoverable \in BOOLEAN
  /\ MaxSessions \in Nat \ {0}
  /\ MaxCrashes \in Nat
  /\ None \notin Nat

VARIABLES
  disk,      \* the files of the run directory, by name
  pending,   \* the writes of the current Promise.all not done yet
  pc,        \* what the session does next, "idle" between sessions
  kind,      \* the command of the session
  session,   \* number of sessions so far
  mem,       \* what the session holds in memory
  answer,    \* how the last session ended
  spent,     \* AI calls made by all sessions
  discovered,\* history: discoveries that came to an end
  crashes    \* sessions that died

vars == <<disk, pending, pc, kind, session, mem, answer, spent, discovered, crashes>>

-----------------------------------------------------------------------------
(* Files and their content. *)

Files == {"evidence", "snapshot", "graph", "inventory", "discovery", "plan",
          "batch", "reconInput", "reconciliation", "wiki", "composition",
          "reports", "metrics", "run"}

\* The checkpoints resume looks at.
Stages == {"inventory_ready", "discovering", "probing", "reconciling",
           "composing", "reporting"}

NoCheckpoints == [s \in Stages |-> None]

\* The evidence of a run: the scan's, and the probe's when it found any.
Scanned == {"scan"}
Probed == {"scan", "probe"}

\* The decision hidden in a discovery artifact: degraded ones are all the
\* local decision, others are distinct.  asks: it requests a probe that the
\* governor accepts on the evidence of the scan.
Artifact(n, status, calls, asks) ==
  [by |-> n, status |-> status, calls |-> calls, asks |-> asks,
   decision |-> IF status = "completed" THEN n ELSE 0]

\* Before a session holds anything.
Blank == [discovery |-> None, decision |-> None, plan |-> None, batch |-> None,
          input |-> None, inventory |-> None, composition |-> None,
          snapshot |-> None, metrics |-> 0, limit |-> 0, asked |-> 0,
          run |-> [state |-> "created", stages |-> NoCheckpoints]]

\* Mutation: a stage keeps the checkpoint it already has.
CheckpointKeeping(run, stage, source, output) ==
  [run EXCEPT !.stages[stage] =
     IF @ = None THEN [source |-> source, output |-> output] ELSE @]

\* The checkpoint of a stage replaces the one it had.
Checkpoint(run, stage, source, output) ==
  [run EXCEPT !.stages[stage] = [source |-> source, output |-> output]]

Remaining(calls) == IF calls < MaxAiCalls THEN MaxAiCalls - calls ELSE 0

Init ==
  /\ disk = [f \in Files |-> None]
  /\ pending = << >>
  /\ pc = "idle"
  /\ kind = "none"
  /\ session = 0
  /\ mem = Blank
  /\ answer = "none"
  /\ spent = 0
  /\ discovered = 0
  /\ crashes = 0

\* A step of a session: the code between two awaits.  Its writes start
\* together; the next step waits for all of them.
Step(from, to, memory, writes) ==
  /\ pc = from
  /\ pending = << >>
  /\ pc' = to
  /\ mem' = memory
  /\ pending' = writes
  /\ discovered' = discovered + IF from = "discovering" THEN 1 ELSE 0
  /\ UNCHANGED <<disk, kind, session, answer, spent, crashes>>

\* One of the started writes is done.  writeJsonAtomic replaces a file as a
\* whole by rename.
Write(f) ==
  /\ f \in DOMAIN pending
  /\ disk' = [disk EXCEPT ![f] = pending[f]]
  /\ pending' = [g \in DOMAIN pending \ {f} |-> pending[g]]
  /\ UNCHANGED <<pc, kind, session, mem, answer, spent, discovered, crashes>>

-----------------------------------------------------------------------------
(* scan-workflow: collection up to the checkpoint inventory_ready. *)

\* The command that creates the run; run.json and metrics.json exist from now.
Begin ==
  /\ pc = "idle"
  /\ session = 0
  /\ session' = 1
  /\ kind' \in Commands
  /\ pc' = "scan"
  /\ mem' = [Blank EXCEPT !.run.state = "running"]
  /\ pending' = [metrics |-> 0, run |-> mem'.run]
  /\ UNCHANGED <<disk, answer, spent, discovered, crashes>>

\* PipelineRunTracker.finish
FinishedAs(run, state) == [run EXCEPT !.state = state]

\* Collection failed: the session records the failure and ends.
ScanFailed ==
  LET run == FinishedAs(mem.run, "failed")
  IN Step("scan", "stopped", [mem EXCEPT !.run = run], [metrics |-> 0, run |-> run])

\* Collected and redacted: evidence.jsonl is appended, snapshot.json written.
Collected ==
  Step("scan", "model", [mem EXCEPT !.snapshot = Scanned],
       [evidence |-> Scanned, snapshot |-> Scanned])

\* Resource graph, candidates and the unverified inventory.
Modelled ==
  LET inventory == [by |-> session, decision |-> None, snapshot |-> mem.snapshot]
  IN Step("model", "ready", [mem EXCEPT !.inventory = inventory],
          [graph |-> session, inventory |-> inventory])

\* The run can be resumed from here on.
InventoryReady ==
  LET run == [Checkpoint(mem.run, "inventory_ready", None, mem.inventory)
                EXCEPT !.state = "inventory_ready"]
  IN Step("ready", IF kind = "inspect" THEN "discover" ELSE "stopped",
          [mem EXCEPT !.run = run], [metrics |-> 0, run |-> run])

-----------------------------------------------------------------------------
(* AI calls.  The calls of one stage are counted in its artifact, and reach *)
(* metrics.json with it.                                                    *)

\* One call: the first, a repair or a transport retry, below maxCalls.
Ask ==
  /\ pc \in {"discovering", "reconciling", "composing"}
  /\ pending = << >>
  /\ mem.asked < mem.limit
  /\ mem' = [mem EXCEPT !.asked = @ + 1]
  /\ spent' = spent + 1
  /\ UNCHANGED <<disk, pending, pc, kind, session, answer, discovered, crashes>>

\* How a stage may end: without a call it is degraded.
Answers == {"degraded"} \cup (IF mem.asked > 0 THEN {"completed"} ELSE {})

-----------------------------------------------------------------------------
(* discovery-workflow. *)

\* The files are read again.  The limit is the whole budget of the run.
Discover ==
  Step("discover", "discovering",
       [mem EXCEPT !.run = disk["run"], !.metrics = disk["metrics"],
                   !.limit = MaxAiCalls, !.asked = 0], << >>)

AfterDiscovery ==
  CASE kind = "discover" -> "stopped"
    [] kind = "inspect" -> "discovered"
    [] kind = "resume" -> "review"

\* Mutation: the checkpoint is kept in memory only.
DiscoveredLate(status, asks) ==
  LET artifact == Artifact(session, status, mem.asked, asks)
      run == [Checkpoint(mem.run, "discovering", None, artifact.decision)
                EXCEPT !.state = "inventory_ready"]
      metrics == mem.metrics + mem.asked
  IN /\ status \in Answers
     /\ asks => status = "completed"
     /\ Step("discovering", AfterDiscovery,
             [mem EXCEPT !.run = run, !.metrics = metrics,
                         !.discovery = artifact, !.decision = artifact,
                         !.asked = 0],
             [discovery |-> artifact, metrics |-> metrics])

\* The artifact, its metrics and its checkpoint are written together.
Discovered(status, asks) ==
  LET artifact == Artifact(session, status, mem.asked, asks)
      run == [Checkpoint(mem.run, "discovering", None, artifact.decision)
                EXCEPT !.state = "inventory_ready"]
      metrics == mem.metrics + mem.asked
  IN /\ status \in Answers
     /\ asks => status = "completed"
     /\ Step("discovering", AfterDiscovery,
             [mem EXCEPT !.run = run, !.metrics = metrics,
                         !.discovery = artifact, !.decision = artifact,
                         !.asked = 0],
             [discovery |-> artifact, metrics |-> metrics, run |-> run])

-----------------------------------------------------------------------------
(* probe-workflow. *)

Investigates(artifact) == ~Fast /\ artifact.status = "completed"

\* Whether the governor accepts requests of the decision: on the scan's
\* evidence it does when the decision asks; later evidence may cover them.
Accepts(artifact, snapshot) ==
  IF ~artifact.asks THEN {FALSE}
  ELSE IF snapshot = Scanned THEN {TRUE} ELSE BOOLEAN

\* inspect goes on to the probe stage or straight to the report.
Plan ==
  /\ pc = "discovered"
  /\ IF Investigates(mem.discovery)
     THEN \E requests \in Accepts(mem.discovery, mem.snapshot) :
            LET plan == [by |-> session, requests |-> requests]
            IN Step("discovered", "probing", [mem EXCEPT !.plan = plan],
                    [plan |-> plan])
     ELSE Step("discovered", "finalize", mem, << >>)

\* The batch ran; fruitful: it has new evidence.
Probe(fruitful) ==
  LET batch == [by |-> session, fruitful |-> fruitful]
  IN /\ Step("probing", "persist", [mem EXCEPT !.batch = batch], [batch |-> batch])
     /\ fruitful => mem.plan.requests

\* mergeAppendOnlyEvidence: evidence that is there stays as it is.
Merged(existing, found) == existing \cup found

\* persistProbeEvidence: the append and the snapshot are two writes.
PersistEvidence ==
  LET evidence == Merged(mem.snapshot, IF mem.batch.fruitful THEN Probed ELSE {})
  IN Step("persist", "probed", [mem EXCEPT !.snapshot = evidence],
          [evidence |-> evidence, snapshot |-> evidence])

\* applyStageCheckpoint
Staged(run, stage, source, output) ==
  [Checkpoint(run, stage, source, output) EXCEPT !.state = "inventory_ready"]

\* The remainder for reconciliation is taken from the calls of the discovery.
ProbeChecked ==
  LET run == Staged(mem.run, "probing", mem.plan, mem.batch)
      limit == Remaining(mem.discovery.calls)
  IN Step("probed",
          IF mem.batch.fruitful /\ limit > 0 THEN "reconcile" ELSE "finalize",
          [mem EXCEPT !.run = run, !.limit = limit],
          [metrics |-> mem.metrics, run |-> run])

Reconcile ==
  LET input == [by |-> session, decision |-> mem.discovery.decision]
  IN Step("reconcile", "reconciling",
          [mem EXCEPT !.input = input, !.asked = 0], [reconInput |-> input])

\* applyReconciliationMetrics
Metered(metrics, artifact) == metrics + artifact.calls

\* What a session holds after a reconciliation, a degraded one too.
Revising(artifact) ==
  [mem EXCEPT !.run = Staged(@, "reconciling", mem.input, artifact),
              !.metrics = Metered(@, artifact), !.decision = artifact, !.asked = 0]

\* inspect writes the artifact before metrics and checkpoint.
Reconciled(status) ==
  LET artifact == Artifact(session, status, mem.asked, FALSE)
  IN /\ kind = "inspect"
     /\ status \in Answers
     /\ Step("reconciling", "reconciled", Revising(artifact), [reconciliation |-> artifact])

ReconciliationChecked ==
  Step("reconciled", "finalize", mem,
       [metrics |-> mem.metrics, run |-> mem.run])

-----------------------------------------------------------------------------
(* finalize-workflow. *)

\* Mutation: the inventory is built from the discovery, reconciled or not.
FinalizeUnreconciled ==
  LET inventory == [by |-> session, decision |-> mem.discovery.decision,
                    snapshot |-> mem.snapshot]
  IN Step("finalize", "compose", [mem EXCEPT !.inventory = inventory],
          [inventory |-> inventory])

\* The final inventory replaces the unverified one.
Finalize ==
  LET inventory == [by |-> session, decision |-> mem.decision.decision,
                    snapshot |-> mem.snapshot]
  IN Step("finalize", "compose", [mem EXCEPT !.inventory = inventory],
          [inventory |-> inventory])

\* Mutation: the remainder is taken from the decision's own calls.
ComposeOwnCalls ==
  Step("compose", "composing",
       [mem EXCEPT !.limit = Remaining(mem.decision.calls), !.asked = 0], << >>)

Compose ==
  Step("compose", "composing",
       [mem EXCEPT !.limit = Remaining(mem.metrics), !.asked = 0], << >>)

\* The gate before the report found a secret.
RedactionFailed ==
  Step("composing", "stopped", [mem EXCEPT !.asked = 0],
       [metrics |-> mem.metrics + mem.asked,
        run |-> [mem.run EXCEPT !.state = "failed"]])

\* wiki.json holds the projection of the composition.  The checkpoint stays
\* in memory until the reports are written.
Composed(passed) ==
  LET composition == [by |-> session, inventory |-> mem.inventory, passed |-> passed]
  IN Step("composing", "render",
          [mem EXCEPT !.composition = composition,
                      !.metrics = @ + mem.asked, !.asked = 0,
                      !.run = Checkpoint(@, "composing", mem.inventory, composition)],
          [wiki |-> composition, composition |-> composition])

\* Three files, written in place.
Render ==
  Step("render", "rendered", mem,
       [reports |-> [by |-> session, composition |-> mem.composition]])

\* The three files are read again for their hash.
ReportedRun ==
  [Checkpoint(mem.run, "reporting", mem.composition, disk["reports"])
     EXCEPT !.state = IF mem.composition.passed THEN "completed" ELSE "partial"]

Reported ==
  Step("rendered", "finished", [mem EXCEPT !.run = ReportedRun],
       [metrics |-> mem.metrics, run |-> ReportedRun])

-----------------------------------------------------------------------------
(* resume-workflow: what a session finds on disk. *)

Stage(s) == disk["run"].stages[s]
Present(files) == \A f \in files : disk[f] # None

\* assertBaseArtifacts: the files exist, and the evidence store agrees with
\* the snapshot.
Consistent ==
  /\ Present({"run", "metrics", "snapshot", "graph", "inventory", "evidence"})
  /\ disk["evidence"] = disk["snapshot"]

\* Mutation: a composition that did not pass its checks is made again.
ValidCompositionPassed ==
  /\ Stage("composing") # None
  /\ Present({"composition", "wiki"})
  /\ Stage("composing").source = disk["inventory"]
  /\ Stage("composing").output = disk["composition"]
  /\ disk["wiki"] = disk["composition"]
  /\ disk["composition"].passed

ValidComposition ==
  /\ Stage("composing") # None
  /\ Present({"composition", "wiki"})
  /\ Stage("composing").source = disk["inventory"]
  /\ Stage("composing").output = disk["composition"]
  /\ disk["wiki"] = disk["composition"]

\* Mutation: the report files themselves are not hashed.
ValidReportsUnhashed ==
  /\ Stage("reporting") # None
  /\ Stage("reporting").source = disk["composition"]
  /\ disk["reports"] # None

ValidReports ==
  /\ Stage("reporting") # None
  /\ Stage("reporting").source = disk["composition"]
  /\ Stage("reporting").output = disk["reports"]

\* The candidates never change, so their hash always agrees.
ValidDiscovery ==
  /\ Stage("discovering") # None
  /\ disk["discovery"] # None
  /\ Stage("discovering").output = disk["discovery"].decision

ValidProbe ==
  /\ Stage("probing") # None
  /\ Stage("probing").source = disk["plan"]
  /\ Stage("probing").output = disk["batch"]

ValidReconciliation ==
  /\ Stage("reconciling") # None
  /\ Stage("reconciling").source = disk["reconInput"]
  /\ Stage("reconciling").output = disk["reconciliation"]

\* requireCheckpoint: the unverified inventory is still the one checkpointed.
ValidInventory ==
  /\ Stage("inventory_ready") # None
  /\ Stage("inventory_ready").output = disk["inventory"]

\* Every stage of the run is done and still valid.
Complete == Consistent /\ ValidComposition /\ ValidReports

Loaded == [Blank EXCEPT !.run = disk["run"], !.metrics = disk["metrics"],
                        !.snapshot = disk["snapshot"],
                        !.inventory = disk["inventory"]]

\* A session starts on an existing run, and answers at once or goes on.
Open(command) ==
  /\ pc = "idle"
  /\ session \in 1..MaxSessions - 1
  /\ disk["run"] # None
  /\ session' = session + 1
  /\ kind' = command
  /\ UNCHANGED <<disk, pending, spent, discovered, crashes>>

\* resume refuses, or finds nothing to do: nothing is written.
ResumeRefused ==
  /\ Open("none")
  /\ \/ ~Consistent /\ answer' = "inconsistent"
     \/ /\ Consistent /\ ~ValidComposition /\ ~ValidDiscovery /\ ~ValidInventory
        /\ answer' = "refused"
  /\ UNCHANGED <<pc, mem>>

ResumeComplete ==
  /\ Open("none")
  /\ Complete
  /\ answer' = "already_complete"
  /\ UNCHANGED <<pc, mem>>

\* The last valid stage decides where resume continues.
Resume ==
  /\ Open("resume")
  /\ Consistent
  /\ \/ /\ ValidComposition /\ ~ValidReports
        /\ pc' = "rerender"
        /\ mem' = [Loaded EXCEPT !.composition = disk["composition"]]
     \/ /\ ~ValidComposition /\ ValidDiscovery
        /\ pc' = "review"
        /\ mem' = [Loaded EXCEPT !.discovery = disk["discovery"],
                                 !.decision = disk["discovery"]]
     \/ /\ ~ValidComposition /\ ~ValidDiscovery /\ ValidInventory
        /\ pc' = "discover"
        /\ mem' = Loaded
  /\ answer' = "working"

\* markNeedsSsh
NeedsSsh(run) == [run EXCEPT !.state = "partial"]

\* Mutation: resume goes on without the probe it needs.
ReviewProbeless == Step("review", "finalize", mem, << >>)

\* After discovery: reuse a reconciliation, reconcile a probe that is there,
\* or stop when a new probe is needed.  A reconciliation and its calls are
\* not compared with the discovery.
Review ==
  /\ pc = "review"
  /\ CASE ~Investigates(mem.discovery) ->
            Step("review", "finalize", mem, << >>)
       [] Investigates(mem.discovery) /\ ValidReconciliation ->
            Step("review", "finalize",
                 [mem EXCEPT !.decision = disk["reconciliation"]], << >>)
       [] Investigates(mem.discovery) /\ ~ValidReconciliation /\ ValidProbe ->
            Step("review", "reconsider", [mem EXCEPT !.batch = disk["batch"]], << >>)
       [] OTHER ->
            \E requests \in Accepts(mem.discovery, mem.snapshot) :
              IF requests
              THEN Step("review", "needs_ssh", mem, [run |-> NeedsSsh(mem.run)])
              ELSE Step("review", "finalize", mem, << >>)

\* resumeReconciliation, if the probe that is there has found anything and metrics.json
\* leaves calls.
ResumeReconcile ==
  LET input == [by |-> session, decision |-> mem.discovery.decision]
      limit == Remaining(mem.metrics)
  IN /\ pc = "reconsider"
     /\ IF mem.batch.fruitful /\ limit > 0
        THEN Step("reconsider", "reconciling",
                  [mem EXCEPT !.input = input, !.limit = limit, !.asked = 0],
                  [reconInput |-> input])
        ELSE Step("reconsider", "finalize", mem, << >>)

\* The artifact, the metrics and the checkpoint are written together.
ResumeReconciled(status) ==
  LET artifact == Artifact(session, status, mem.asked, FALSE)
      memory == Revising(artifact)
  IN /\ kind = "resume"
     /\ status \in Answers
     /\ Step("reconciling", "finalize", memory,
             [reconciliation |-> artifact, metrics |-> memory.metrics, run |-> memory.run])

\* resumeReportStage: the reports of the composition that is there.
Rerender ==
  Step("rerender", "rerendered", mem,
       [reports |-> [by |-> session, composition |-> mem.composition]])

ResumeReported ==
  Step("rerendered", "finished", [mem EXCEPT !.run = ReportedRun],
       [metrics |-> mem.metrics, run |-> ReportedRun])

\* The discover command reads the files itself.
StartDiscover ==
  /\ Discoverable
  /\ Open("discover")
  /\ Present({"run", "metrics", "snapshot", "graph"})
  /\ pc' = "discover"
  /\ mem' = Blank
  /\ answer' = "working"

\* The session is over.
End ==
  /\ pc \in {"finished", "needs_ssh", "stopped"}
  /\ pending = << >>
  /\ answer' = pc
  /\ pc' = "idle"
  /\ kind' = "none"
  /\ mem' = Blank
  /\ UNCHANGED <<disk, pending, session, spent, discovered, crashes>>

\* Files a dying session may leave half written.
Appended == {"evidence", "reports"}

\* The process dies, is interrupted, or fails to write: the writes not done
\* are lost.  evidence.jsonl and the reports may be cut in the middle.
Crash ==
  /\ pc # "idle"
  /\ crashes < MaxCrashes
  /\ crashes' = crashes + 1
  /\ \E torn \in SUBSET (Appended \cap DOMAIN pending) :
       disk' = [f \in Files |-> IF f \in torn THEN Torn ELSE disk[f]]
  /\ pending' = << >>
  /\ pc' = "idle"
  /\ kind' = "none"
  /\ mem' = Blank
  /\ answer' = "crashed"
  /\ UNCHANGED <<session, spent, discovered>>

\* Between sessions somebody edits or removes a report.
Tamper ==
  /\ pc = "idle"
  /\ disk["reports"] \notin {None, Torn}
  /\ disk' = [disk EXCEPT !["reports"] = Torn]
  /\ UNCHANGED <<pending, pc, kind, session, mem, answer, spent, discovered, crashes>>

\* Nobody has to start another session.
Terminated ==
  /\ pc = "idle"
  /\ session > 0
  /\ UNCHANGED vars

Next ==
  \/ Begin \/ ScanFailed \/ Collected \/ Modelled \/ InventoryReady
  \/ \E f \in Files : Write(f)
  \/ Ask
  \/ Discover
  \/ \E status \in {"completed", "degraded"}, asks \in BOOLEAN : Discovered(status, asks)
  \/ Plan
  \/ \E fruitful \in BOOLEAN : Probe(fruitful)
  \/ PersistEvidence \/ ProbeChecked
  \/ Reconcile
  \/ \E status \in {"completed", "degraded"} : Reconciled(status) \/ ResumeReconciled(status)
  \/ ReconciliationChecked
  \/ Finalize \/ Compose \/ RedactionFailed
  \/ \E passed \in BOOLEAN : Composed(passed)
  \/ Render \/ Reported
  \/ ResumeRefused \/ ResumeComplete \/ Resume \/ Review
  \/ ResumeReconcile \/ Rerender \/ ResumeReported
  \/ StartDiscover
  \/ End \/ Crash \/ Tamper \/ Terminated

Spec == Init /\ [][Next]_vars

-----------------------------------------------------------------------------
(* What the files may hold. *)

Snapshots == {Scanned, Probed}
Artifacts == [by : Nat, status : {"completed", "degraded"}, calls : Nat,
              asks : BOOLEAN, decision : Nat]
Plans == [by : Nat, requests : BOOLEAN]
Batches == [by : Nat, fruitful : BOOLEAN]
Inputs == [by : Nat, decision : Nat]
Inventories == [by : Nat, decision : Nat \cup {None}, snapshot : Snapshots]
Compositions == [by : Nat, inventory : Inventories, passed : BOOLEAN]
Reports == [by : Nat, composition : Compositions]

\* The checkpoint of each stage: the content it was made from, and its own.
InventoryCheckpoints == [source : {None}, output : Inventories]
DiscoveryCheckpoints == [source : {None}, output : Nat]
ProbeCheckpoints == [source : Plans, output : Batches]
ReconciliationCheckpoints == [source : Inputs, output : Artifacts]
CompositionCheckpoints == [source : Inventories, output : Compositions]
ReportCheckpoints == [source : Compositions, output : Reports]

Maybe(S) == S \cup {None}

RunStates == {"created", "running", "inventory_ready", "completed", "partial", "failed"}
Runs ==
  [state : RunStates,
   stages : [inventory_ready : Maybe(InventoryCheckpoints),
             discovering : Maybe(DiscoveryCheckpoints),
             probing : Maybe(ProbeCheckpoints),
             reconciling : Maybe(ReconciliationCheckpoints),
             composing : Maybe(CompositionCheckpoints),
             reporting : Maybe(ReportCheckpoints)]]

\* None and Torn are no content.
ASSUME ContentAssumption ==
  /\ None \notin Snapshots /\ None \notin Artifacts /\ None \notin Inputs
  /\ None \notin Inventories /\ None \notin Compositions /\ None \notin Reports
  /\ None \notin InventoryCheckpoints /\ None \notin DiscoveryCheckpoints
  /\ None \notin ProbeCheckpoints /\ None \notin ReconciliationCheckpoints
  /\ None \notin CompositionCheckpoints /\ None \notin ReportCheckpoints
  /\ None \notin Runs
  /\ Torn \notin Reports

-----------------------------------------------------------------------------
(* Properties. *)

\* Each discovery, and each session that dies, costs the budget of the run at
\* most once, although each stage takes its remainder from a different record:
\* discovery from the budget, reconciliation from the discovery's calls or
\* from metrics.json, composition from metrics.json.  So a run whose only
\* session lives keeps its budget.
SpendingBounded ==
  LET discovering == IF pc = "discovering" THEN 1 ELSE 0
  IN spent <= MaxAiCalls * (discovered + crashes + discovering)

\* When resume would answer already_complete, the reports on disk are those of
\* the composition on disk, made from the inventory on disk, built from the
\* snapshot on disk, whatever died in between.
ReportsCoherent ==
  pc = "idle" /\ disk["run"] # None /\ Complete =>
    /\ disk["reports"] # Torn
    /\ disk["reports"].composition = disk["composition"]
    /\ disk["composition"].inventory = disk["inventory"]
    /\ disk["inventory"].snapshot = disk["snapshot"]

\* A session that ended with reports leaves a run that the next resume finds
\* complete: no history of crashes makes resume repeat a finished run.
FinishedIsComplete == answer = "finished" /\ disk["reports"] # Torn => Complete

\* A discover session died between discovery.json and run.json.
DiscoveryTorn ==
  /\ Stage("discovering") # None
  /\ Stage("discovering").output # disk["discovery"].decision

\* resume refuses only a run that never reached inventory_ready: finalization
\* replaces inventory.json, the checkpointed file, but never before a discovery
\* that stays valid.  The one exception is a repeated discovery that died
\* between its files: it leaves neither a valid discovery nor the inventory.
RefusedOnlyEarly ==
  answer = "refused" => Stage("inventory_ready") = None \/ DiscoveryTorn

\* Made before the discovery that is now in discovery.json.
Stale(f) == disk[f] # None /\ disk[f].by < disk["discovery"].by

\* The probe stage that run.json holds was made for the discovery on disk, with
\* the requests it asks for.
OwnProbe ==
  /\ Stage("probing") # None
  /\ Stage("probing").source.by = disk["discovery"].by
  /\ Stage("probing").source.requests

\* Or for a discovery that a later one replaced.  resume compares neither the
\* probe nor its reconciliation with the discovery, and reuses both.
EarlierProbe ==
  /\ Stage("probing") # None
  /\ Stage("probing").source.by < disk["discovery"].by

\* A run whose decision asks for a probe is not completed without a probe for
\* this decision, unless the decision was made after what is reported, the
\* evidence of a probe is in the snapshot and may cover the requests, or a
\* probe stage of a replaced discovery passes for this one's: the last is all
\* that stands between a run and its probe, and only with two discoveries.
ProbesNotSkipped ==
  pc = "idle" /\ disk["run"] # None /\ Complete /\ ValidDiscovery
  /\ disk["discovery"].asks /\ ~Fast =>
    \/ Stale("composition")
    \/ OwnProbe
    \/ disk["snapshot"] = Probed
    \/ EarlierProbe

\* A run that reached inventory_ready can be loaded by resume.
Recoverable ==
  pc = "idle" /\ disk["run"] # None /\ Stage("inventory_ready") # None => Consistent

\* A composition is made again from the same decision and snapshot only when a
\* crash, or a report that failed, kept its checkpoint off the disk: that
\* checkpoint is written with the one of the reports, after them.
ComposedOnce ==
  [][disk["composition"] # None /\ disk'["composition"] # disk["composition"] =>
       LET old == disk["composition"].inventory
           new == disk'["composition"].inventory
       IN \/ old.decision # new.decision \/ old.snapshot # new.snapshot
          \/ Stage("composing") = None
          \/ Stage("composing").output # disk["composition"]]_vars

\* A finished run reports the decision in discovery.json, or the one that
\* revises it when there is one, unless the discovery was made after what is
\* reported: resume compares neither composition nor reconciliation with it.
Revised ==
  /\ Investigates(disk["discovery"])
  /\ ValidReconciliation
  /\ disk["reconInput"].decision = disk["discovery"].decision
ReportsCurrentDecision ==
  pc = "idle" /\ disk["run"] # None /\ Complete /\ ValidDiscovery
  /\ ~Stale("composition") /\ ~Stale("reconciliation") =>
    disk["inventory"].decision =
      (IF Revised THEN disk["reconciliation"] ELSE disk["discovery"]).decision
=============================================================================
