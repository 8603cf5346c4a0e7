-------------------------- MODULE PipelineRunProofs --------------------------
(***************************************************************************)
(* What the sessions of a run may spend together, and what its files say,   *)
(* for every budget, every content of the files and any number of sessions, *)
(* whichever died between two of its writes.  No session counts for         *)
(* another, resume takes up what fits, and a complete run has the wiki of   *)
(* its inventory and of the decision in force.  The invariant of the files  *)
(* is Safe: every set of the writes under way leaves files that are Sound,  *)
(* and the session has in its memory what they say.                         *)
(***************************************************************************)
EXTENDS PipelineRun, SequenceTheorems, TLAPS

-----------------------------------------------------------------------------
(* Places of a session. *)

Early == {"idle", "scan", "model", "ready", "discover"}
Ended == {"stopped", "finished", "needs_ssh"}
Asking == {"discovering", "reconciling", "composing"}
Probing == {"discovered", "probing", "persist", "probed", "reconcile"}

\* The calls in memory are those in metrics.json, or on their way to it.
Even == Asking \cup Probing
          \cup {"finalize", "compose", "review", "reconsider", "rerender", "rerendered"}

\* metrics.json has yet to be written.
Held == {"reconciled", "render", "rendered"}

\* There has been a discovery.
Decided == (Even \ {"discovering", "rerender", "rerendered"}) \cup {"reconciled"}

Places == Early \cup Ended \cup Even \cup Held

MemFields == {"discovery", "decision", "plan", "batch", "input", "inventory",
              "composition", "snapshot", "metrics", "limit", "asked", "run"}

-----------------------------------------------------------------------------
(* The calls that are known: on disk, when the writes under way are done, and *)
(* to the session.                                                         *)

OnFile == IF disk["metrics"] = None THEN 0 ELSE disk["metrics"]
Saved == IF "metrics" \in DOMAIN pending THEN pending["metrics"] ELSE OnFile
Known == IF pc \in Even \cup Held THEN mem.metrics + mem.asked ELSE Saved

\* The discoveries that may have spent: those that ended, and the one under way.
Discoveries == discovered + (IF pc = "discovering" THEN 1 ELSE 0)

TypeInv ==
  /\ DOMAIN disk = Files /\ disk["metrics"] \in Nat \cup {None}
  /\ "metrics" \in DOMAIN pending => pending["metrics"] \in Nat
  /\ DOMAIN mem = MemFields
  /\ mem.metrics \in Nat /\ mem.limit \in Nat /\ mem.asked \in Nat
  /\ spent \in Nat /\ discovered \in Nat /\ crashes \in Nat /\ session \in Nat
  /\ pc \in Places

\* What is known of the session at its place.
PlaceInv ==
  /\ session = 0 => pc = "idle" /\ disk["metrics"] = None
  /\ pc = "idle" => pending = << >>
  /\ pc \in {"scan", "model", "ready"} => Saved = 0
  /\ pc = "discover" => disk["metrics"] # None \/ "metrics" \in DOMAIN pending
  /\ pc = "discover" /\ kind = "inspect" => Saved = 0
  /\ pc \in {"discover", "discovering"} => kind \in {"discover", "inspect", "resume"}
  /\ pc = "discovering" /\ kind = "inspect" => mem.metrics = 0
  /\ pc \in Probing => mem.metrics = mem.discovery.calls
  /\ pc \in Even => mem.metrics = Saved
  /\ pc \in Asking => "metrics" \notin DOMAIN pending /\ mem.asked <= mem.limit
  /\ pc \notin Asking => mem.asked = 0
  /\ pc \in Asking => mem.limit <= MaxAiCalls
  /\ pc \in {"reconcile", "reconciling", "composing"} =>
       mem.limit = 0 \/ mem.metrics + mem.limit <= MaxAiCalls
  /\ pc \in Decided => discovered >= 1
  /\ disk["discovery"] # None \/ "discovery" \in DOMAIN pending => discovered >= 1

\* What is spent is known, but for the calls of sessions that died; what is
\* known fits into the budgets of the discoveries.
MoneyInv ==
  /\ spent <= Known + MaxAiCalls * crashes
  /\ Known <= OnFile + MaxAiCalls
  /\ Known <= Saved + MaxAiCalls
  /\ Known <= MaxAiCalls * Discoveries
  /\ Saved <= MaxAiCalls * discovered
  /\ OnFile <= MaxAiCalls * discovered

Inv == TypeInv /\ PlaceInv /\ MoneyInv

-----------------------------------------------------------------------------
(* Arithmetic of budgets. *)

LEMMA Budgets ==
  ASSUME NEW n \in Nat
  PROVE  /\ MaxAiCalls \in Nat /\ MaxAiCalls * n \in Nat
         /\ MaxAiCalls * (n + 1) = MaxAiCalls * n + MaxAiCalls
         /\ n >= 1 => MaxAiCalls <= MaxAiCalls * n
<1>1. MaxAiCalls \in Nat
  BY RunAssumption
<1>2. MaxAiCalls * n \in Nat /\ MaxAiCalls * (n + 1) = MaxAiCalls * n + MaxAiCalls
  BY <1>1
<1>3. ASSUME n >= 1 PROVE MaxAiCalls <= MaxAiCalls * n
  <2>1. n - 1 \in Nat /\ n = (n - 1) + 1
    BY <1>3
  <2>2. MaxAiCalls * (n - 1) \in Nat
    BY <1>1, <2>1
  <2>3. MaxAiCalls * ((n - 1) + 1) = MaxAiCalls * (n - 1) + MaxAiCalls
    BY <1>1, <2>1
  <2>4. QED
    BY <1>1, <2>1, <2>2, <2>3
<1>4. QED
  BY <1>1, <1>2, <1>3

LEMMA LargerBudget ==
  ASSUME NEW m \in Nat, NEW n \in Nat, m <= n
  PROVE  MaxAiCalls * m <= MaxAiCalls * n
<1>1. n - m \in Nat /\ n = m + (n - m) /\ MaxAiCalls \in Nat
  BY RunAssumption
<1>2. MaxAiCalls * (m + (n - m)) = MaxAiCalls * m + MaxAiCalls * (n - m)
  BY <1>1
<1>3. MaxAiCalls * (n - m) \in Nat /\ MaxAiCalls * m \in Nat
  BY <1>1
<1>4. QED
  BY <1>1, <1>2, <1>3

LEMMA NothingPending == DOMAIN << >> = {}
<1>1. << >> \in Seq({}) /\ Len(<< >>) = 0
  BY EmptySeq
<1>2. QED
  BY <1>1, LenProperties

-----------------------------------------------------------------------------
(* A step of a session. *)

\* What a step takes over into the place it goes to.
Arrives(to, memory, writes) ==
  /\ to \in Places \ {"idle"}
  /\ DOMAIN memory = MemFields
  /\ memory.metrics \in Nat /\ memory.limit \in Nat /\ memory.asked = 0
  /\ "metrics" \in DOMAIN writes => to \notin Asking /\ writes["metrics"] = Known
  /\ to \in Even \cup Held => memory.metrics = Known
  /\ to \in Even /\ "metrics" \notin DOMAIN writes => Known = OnFile
  /\ to \notin Even \cup Held /\ "metrics" \notin DOMAIN writes => Known = OnFile
  /\ to \in Asking => memory.limit <= MaxAiCalls
  /\ to \in {"scan", "model", "ready"} => Known = 0
  /\ to = "discover" => (disk["metrics"] # None \/ "metrics" \in DOMAIN writes) /\ Known = 0
                        /\ kind \in {"discover", "inspect", "resume"}
  /\ to = "discovering" => kind \in {"discover", "inspect", "resume"}
                           /\ (kind = "inspect" => Known = 0)
  /\ to \in Probing => memory.metrics = memory.discovery.calls
  /\ to \in {"reconcile", "reconciling", "composing"} =>
       memory.limit = 0 \/ memory.metrics + memory.limit <= MaxAiCalls
  /\ to \in Decided \/ "discovery" \in DOMAIN writes => discovered' >= 1

LEMMA StepKeeps ==
  ASSUME Inv, NEW from, NEW to, NEW memory, NEW writes,
         Step(from, to, memory, writes), from # "idle", Arrives(to, memory, writes)
  PROVE  Inv'
<1>1. /\ pc = from /\ pending = << >> /\ pc' = to /\ mem' = memory /\ pending' = writes
      /\ discovered' = discovered + (IF from = "discovering" THEN 1 ELSE 0)
      /\ UNCHANGED <<disk, kind, session, spent, crashes>>
  BY DEF Step
<1>2. TypeInv /\ PlaceInv /\ MoneyInv /\ MaxAiCalls \in Nat
  BY RunAssumption DEF Inv
<1>3. OnFile \in Nat /\ OnFile' = OnFile /\ Known \in Nat
  BY <1>1, <1>2, NothingPending DEF OnFile, TypeInv, Known, Saved
<1>4. /\ DOMAIN memory = MemFields /\ to \in Places \ {"idle"}
      /\ memory.metrics \in Nat /\ memory.limit \in Nat /\ memory.asked = 0
  BY DEF Arrives
<1>5. Known' = Known
  BY <1>1, <1>3, <1>4 DEF Arrives, Known, Saved
<1>6. Saved' = Known \/ Saved' = OnFile
  BY <1>1, <1>3 DEF Arrives, Saved
<1>7. TypeInv'
  BY <1>1, <1>2, <1>3, <1>4 DEF TypeInv, Arrives
<1>8. Discoveries' >= Discoveries /\ discovered' >= discovered /\ Discoveries' \in Nat
      /\ Discoveries \in Nat
      /\ (to # "discovering" \/ from = "discovering" => discovered' >= Discoveries)
  BY <1>1, <1>2 DEF Discoveries, TypeInv
<1>9. PlaceInv'
  BY <1>1, <1>2, <1>3, <1>4 DEF PlaceInv, Arrives, Saved, Even, Asking, Held, Early,
     Probing, TypeInv
<1>10. MoneyInv'
  <2>1. /\ MaxAiCalls * Discoveries <= MaxAiCalls * Discoveries'
        /\ MaxAiCalls * discovered <= MaxAiCalls * discovered'
        /\ discovered' >= Discoveries =>
             MaxAiCalls * Discoveries <= MaxAiCalls * discovered'
    BY <1>2, <1>7, <1>8, LargerBudget DEF TypeInv
  <2>2. /\ MaxAiCalls * discovered \in Nat /\ MaxAiCalls * discovered' \in Nat
        /\ MaxAiCalls * Discoveries \in Nat /\ MaxAiCalls * Discoveries' \in Nat
        /\ MaxAiCalls * crashes \in Nat
    BY <1>2, <1>7, <1>8, Budgets DEF TypeInv
  <2>3. Saved' <= MaxAiCalls * discovered'
    <3>1. CASE "metrics" \in DOMAIN writes
      <4>1. to \notin Asking
        BY <3>1 DEF Arrives
      <4>2. discovered' >= Discoveries
        BY <1>8, <4>1 DEF Asking
      <4>3. Saved' = Known \/ Saved' = OnFile
        BY <1>6
      <4>4. QED
        BY <1>2, <1>3, <2>1, <2>2, <4>2, <4>3 DEF MoneyInv
    <3>2. CASE "metrics" \notin DOMAIN writes
      <4>1. Saved' = OnFile
        BY <1>1, <1>3, <3>2 DEF Saved
      <4>2. QED
        BY <1>2, <1>3, <2>1, <2>2, <4>1 DEF MoneyInv
    <3>3. QED
      BY <3>1, <3>2
  <2>4. Known' <= Saved' + MaxAiCalls /\ Known' <= OnFile' + MaxAiCalls
    BY <1>2, <1>3, <1>5, <1>6 DEF MoneyInv
  <2>5. spent' <= Known' + MaxAiCalls * crashes'
    BY <1>1, <1>2, <1>5 DEF MoneyInv
  <2>6. OnFile' <= MaxAiCalls * discovered' /\ Known' <= MaxAiCalls * Discoveries'
    BY <1>2, <1>3, <1>5, <2>1, <2>2 DEF MoneyInv
  <2>7. QED
    BY <2>3, <2>4, <2>5, <2>6 DEF MoneyInv
<1>11. QED
  BY <1>7, <1>9, <1>10 DEF Inv

\* The calls that are known where a step begins.
LEMMA AtStep ==
  ASSUME Inv, pending = << >>
  PROVE  /\ OnFile \in Nat /\ Saved = OnFile
         /\ pc \in Even => mem.metrics = OnFile
         /\ pc \in (Even \cup Held) \ Asking => Known = mem.metrics
         /\ pc \in Asking => Known = mem.metrics + mem.asked
         /\ pc \notin Even \cup Held => Known = OnFile
         /\ DOMAIN mem = MemFields
         /\ mem.metrics \in Nat /\ mem.limit \in Nat /\ mem.asked \in Nat
         /\ pc \notin Asking => mem.asked = 0
BY NothingPending DEF Inv, TypeInv, PlaceInv, OnFile, Saved, Known, Even

-----------------------------------------------------------------------------
(* Collection. *)

LEMMA ScanKeeps ==
  ASSUME Inv, ScanFailed \/ Collected \/ Modelled \/ InventoryReady
  PROVE  Inv'
<1>1. /\ pending = << >> /\ pc \in {"scan", "model", "ready"}
      /\ DOMAIN mem = MemFields /\ mem.metrics \in Nat /\ mem.limit \in Nat /\ mem.asked = 0
      /\ Known = OnFile /\ OnFile = 0 /\ pc \notin Even \cup Held \cup Asking
  <2>1. pending = << >> /\ pc \in {"scan", "model", "ready"}
    BY DEF ScanFailed, Collected, Modelled, InventoryReady, Step
  <2>2. pc \notin Even \cup Held \cup Asking
    BY <2>1 DEF Even, Held, Asking, Probing
  <2>3. QED
    BY <2>1, <2>2, AtStep DEF Inv, PlaceInv
<1>2. CASE ScanFailed
  <2> DEFINE run == FinishedAs(mem.run, "failed")
             memory == [mem EXCEPT !.run = run]
             writes == [metrics |-> 0, run |-> run]
  <2>1. Step("scan", "stopped", memory, writes)
    BY <1>2 DEF ScanFailed
  <2>2. Arrives("stopped", memory, writes)
    BY <1>1 DEF Arrives, MemFields, Places, Ended, Asking, Even, Held, Probing, Decided
  <2> HIDE DEF memory, writes
  <2>3. QED
    BY <2>1, <2>2, StepKeeps
<1>3. CASE Collected
  <2> DEFINE memory == [mem EXCEPT !.snapshot = Scanned]
             writes == [evidence |-> Scanned, snapshot |-> Scanned]
  <2>1. Step("scan", "model", memory, writes)
    BY <1>3 DEF Collected
  <2>2. Arrives("model", memory, writes)
    BY <1>1 DEF Arrives, MemFields, Places, Early, Asking, Even, Held, Probing, Decided
  <2> HIDE DEF memory, writes
  <2>3. QED
    BY <2>1, <2>2, StepKeeps
<1>4. CASE Modelled
  <2> DEFINE inventory == [by |-> session, decision |-> None, snapshot |-> mem.snapshot]
             memory == [mem EXCEPT !.inventory = inventory]
             writes == [graph |-> session, inventory |-> inventory]
  <2>1. Step("model", "ready", memory, writes)
    BY <1>4 DEF Modelled
  <2>2. Arrives("ready", memory, writes)
    BY <1>1 DEF Arrives, MemFields, Places, Early, Asking, Even, Held, Probing, Decided
  <2> HIDE DEF memory, writes
  <2>3. QED
    BY <2>1, <2>2, StepKeeps
<1>5. CASE InventoryReady
  <2> DEFINE run == [Checkpoint(mem.run, "inventory_ready", None, mem.inventory)
                       EXCEPT !.state = "inventory_ready"]
             memory == [mem EXCEPT !.run = run]
             writes == [metrics |-> 0, run |-> run]
             to == IF kind = "inspect" THEN "discover" ELSE "stopped"
  <2>1. Step("ready", to, memory, writes)
    BY <1>5 DEF InventoryReady
  <2>2. Arrives(to, memory, writes)
    BY <1>1 DEF Arrives, MemFields, Places, Early, Ended, Asking, Even, Held, Probing,
       Decided
  <2> HIDE DEF memory, writes, to
  <2>3. QED
    BY <2>1, <2>2, StepKeeps
<1>6. QED
  BY <1>2, <1>3, <1>4, <1>5

-----------------------------------------------------------------------------
(* Discovery. *)

LEMMA DiscoverKeeps == ASSUME Inv, Discover PROVE Inv'
<1> DEFINE memory == [mem EXCEPT !.run = disk["run"], !.metrics = disk["metrics"],
                                 !.limit = MaxAiCalls, !.asked = 0]
<1>1. Step("discover", "discovering", memory, << >>)
  BY DEF Discover
<1>2. /\ pc = "discover" /\ pending = << >> /\ DOMAIN mem = MemFields
      /\ Known = OnFile /\ Saved = OnFile /\ OnFile \in Nat
      /\ disk["metrics"] = OnFile /\ "metrics" \notin DOMAIN << >>
      /\ "discovery" \notin DOMAIN << >>
      /\ kind \in {"discover", "inspect", "resume"} /\ (kind = "inspect" => OnFile = 0)
  <2>1. pc = "discover" /\ pending = << >>
    BY <1>1 DEF Step
  <2>2. pc \notin Even \cup Held
    BY <2>1 DEF Even, Held, Asking, Probing
  <2>3. DOMAIN << >> = {}
    BY NothingPending
  <2>4. disk["metrics"] = OnFile
    BY <2>1, <2>3 DEF Inv, PlaceInv, OnFile
  <2>5. QED
    BY <2>1, <2>2, <2>3, <2>4, AtStep DEF Inv, PlaceInv
<1>3. Arrives("discovering", memory, << >>)
  BY <1>2, RunAssumption DEF Arrives, MemFields, Places, Asking, Even, Held, Probing,
     Decided
<1> HIDE DEF memory
<1>4. QED
  BY <1>1, <1>3, StepKeeps

LEMMA DiscoveredKeeps ==
  ASSUME Inv, NEW status, NEW asks, Discovered(status, asks) PROVE Inv'
<1> DEFINE artifact == Artifact(session, status, mem.asked, asks)
           run == [Checkpoint(mem.run, "discovering", None, artifact.decision)
                     EXCEPT !.state = "inventory_ready"]
           metrics == mem.metrics + mem.asked
           memory == [mem EXCEPT !.run = run, !.metrics = metrics, !.discovery = artifact,
                                 !.decision = artifact, !.asked = 0]
           writes == [discovery |-> artifact, metrics |-> metrics, run |-> run]
<1>1. Step("discovering", AfterDiscovery, memory, writes)
  BY DEF Discovered
<1>2. /\ pc = "discovering" /\ pending = << >> /\ DOMAIN mem = MemFields
      /\ Known = metrics /\ metrics \in Nat /\ mem.limit \in Nat
      /\ kind \in {"discover", "inspect", "resume"} /\ (kind = "inspect" => mem.metrics = 0)
      /\ mem.asked \in Nat /\ mem.metrics \in Nat
      /\ discovered' >= 1
  <2>1. pc = "discovering" /\ pending = << >> /\ discovered' = discovered + 1
    BY <1>1 DEF Step
  <2>2. pc \in Asking
    BY <2>1 DEF Asking
  <2>3. discovered \in Nat
    BY DEF Inv, TypeInv
  <2>4. QED
    BY <2>1, <2>2, <2>3, AtStep DEF Inv, PlaceInv
<1>3. /\ AfterDiscovery \in {"stopped", "discovered", "review"}
      /\ AfterDiscovery = "discovered" => kind = "inspect"
  BY <1>2 DEF AfterDiscovery
<1>4. /\ DOMAIN memory = MemFields /\ memory.metrics = metrics /\ memory.limit = mem.limit
      /\ memory.asked = 0 /\ memory.discovery.calls = mem.asked
      /\ DOMAIN writes = {"discovery", "metrics", "run"} /\ writes["metrics"] = metrics
  BY <1>2 DEF MemFields, Artifact
<1>5. Arrives(AfterDiscovery, memory, writes)
  <2> HIDE DEF memory, writes
  <2>1. QED
    BY <1>2, <1>3, <1>4 DEF Arrives, Places, Ended, Asking, Even, Held, Probing, Decided
<1> HIDE DEF memory, writes
<1>6. QED
  BY <1>1, <1>5, StepKeeps

-----------------------------------------------------------------------------
(* The stages after a decision. *)

\* A step that makes no call: what it writes to metrics.json is what it holds.
Quiet(from, to, memory, writes) ==
  /\ from \in (Even \cup Held) \ Asking
  /\ to \in (Even \cup Held \cup Ended) \ {"discovering"}
  /\ DOMAIN memory = MemFields
  /\ memory.metrics = mem.metrics /\ memory.limit \in Nat /\ memory.asked = 0
  /\ "discovery" \notin DOMAIN writes
  /\ "metrics" \in DOMAIN writes => to \notin Asking /\ writes["metrics"] = mem.metrics
  /\ to \in Held \/ from \in Even \/ "metrics" \in DOMAIN writes
  /\ to \in Decided => from \in Decided
  /\ to \in Probing => from \in Probing /\ memory.discovery = mem.discovery
  /\ to \in Asking => memory.limit <= MaxAiCalls
  /\ to \in {"reconcile", "reconciling", "composing"} =>
       memory.limit = 0 \/ mem.metrics + memory.limit <= MaxAiCalls

LEMMA QuietKeeps ==
  ASSUME Inv, NEW from, NEW to, NEW memory, NEW writes,
         Step(from, to, memory, writes), Quiet(from, to, memory, writes)
  PROVE  Inv'
<1>1. /\ pc = from /\ pending = << >>
      /\ discovered' = discovered + (IF from = "discovering" THEN 1 ELSE 0)
  BY DEF Step
<1>2. from \in (Even \cup Held) \ Asking /\ from # "discovering" /\ from # "idle"
  BY DEF Quiet, Even, Held, Asking, Probing
<1>3. Known = mem.metrics /\ (from \in Even => Known = OnFile)
  BY <1>1, <1>2, AtStep
<1>4. /\ discovered \in Nat /\ discovered' = discovered
      /\ from \in Decided => discovered >= 1
  BY <1>1, <1>2 DEF Inv, TypeInv, PlaceInv
<1>5. mem.metrics \in Nat /\ (from \in Probing => mem.metrics = mem.discovery.calls)
  BY <1>1 DEF Inv, TypeInv, PlaceInv
<1>6. /\ to \in Places \ {"idle"}
      /\ to \notin {"scan", "model", "ready", "discover", "discovering"}
  BY DEF Quiet, Places, Ended, Even, Held, Asking, Probing
<1>7. to \in Held => to \notin Even \cup Ended
  BY DEF Held, Even, Ended, Asking, Probing
<1>8. Arrives(to, memory, writes)
  BY <1>3, <1>4, <1>5, <1>6, <1>7 DEF Quiet, Arrives
<1>9. QED
  BY <1>2, <1>8, StepKeeps

\* What is in memory where such a step begins.
LEMMA AtQuiet ==
  ASSUME Inv, pc \notin Asking
  PROVE  /\ DOMAIN mem = MemFields /\ mem.metrics \in Nat /\ mem.limit \in Nat
         /\ mem.asked = 0
BY DEF Inv, TypeInv, PlaceInv

LEMMA RemainingFits ==
  ASSUME NEW calls \in Nat
  PROVE  /\ Remaining(calls) \in Nat /\ Remaining(calls) <= MaxAiCalls
         /\ Remaining(calls) = 0 \/ calls + Remaining(calls) <= MaxAiCalls
BY RunAssumption DEF Remaining

LEMMA ProbingKeeps ==
  ASSUME Inv,
         \/ Plan \/ (\E fruitful \in BOOLEAN : Probe(fruitful)) \/ PersistEvidence
         \/ ProbeChecked \/ Reconcile \/ ReconciliationChecked
  PROVE  Inv'
<1>1. pending = << >> /\ pc \in Probing \cup {"reconciled"}
  BY DEF Plan, Probe, PersistEvidence, ProbeChecked, Reconcile, ReconciliationChecked,
     Step, Probing
<1>2. pc \notin Asking
  BY <1>1 DEF Asking, Probing
<1>3. /\ DOMAIN mem = MemFields /\ mem.metrics \in Nat /\ mem.limit \in Nat
      /\ mem.asked = 0
  BY <1>2, AtQuiet
<1>4. DOMAIN << >> = {}
  BY NothingPending
<1>5. CASE Plan
  <2>1. CASE Investigates(mem.discovery)
    <3>1. PICK requests \in Accepts(mem.discovery, mem.snapshot) :
            Step("discovered", "probing",
                 [mem EXCEPT !.plan = [by |-> session, requests |-> requests]],
                 [plan |-> [by |-> session, requests |-> requests]])
      BY <1>5, <2>1 DEF Plan
    <3> DEFINE memory == [mem EXCEPT !.plan = [by |-> session, requests |-> requests]]
               writes == [plan |-> [by |-> session, requests |-> requests]]
    <3>2. Quiet("discovered", "probing", memory, writes)
      BY <1>3 DEF Quiet, MemFields, Even, Held, Ended, Asking, Probing, Decided
    <3> HIDE DEF memory, writes
    <3>3. Step("discovered", "probing", memory, writes)
      BY <3>1 DEF memory, writes
    <3>4. QED
      BY <3>2, <3>3, QuietKeeps
  <2>2. CASE ~Investigates(mem.discovery)
    <3>1. Step("discovered", "finalize", mem, << >>)
      BY <1>5, <2>2 DEF Plan
    <3>2. Quiet("discovered", "finalize", mem, << >>)
      BY <1>3, <1>4 DEF Quiet, Even, Held, Ended, Asking, Probing, Decided
    <3>3. QED
      BY <3>1, <3>2, QuietKeeps
  <2>3. QED
    BY <2>1, <2>2
<1>6. ASSUME NEW fruitful \in BOOLEAN, Probe(fruitful) PROVE Inv'
  <2> DEFINE batch == [by |-> session, fruitful |-> fruitful]
             memory == [mem EXCEPT !.batch = batch]
             writes == [batch |-> batch]
  <2>1. Step("probing", "persist", memory, writes)
    BY <1>6 DEF Probe
  <2>2. Quiet("probing", "persist", memory, writes)
    BY <1>3 DEF Quiet, MemFields, Even, Held, Ended, Asking, Probing, Decided
  <2> HIDE DEF memory, writes
  <2>3. QED
    BY <2>1, <2>2, QuietKeeps
<1>7. CASE PersistEvidence
  <2> DEFINE evidence == Merged(mem.snapshot, IF mem.batch.fruitful THEN Probed ELSE {})
             memory == [mem EXCEPT !.snapshot = evidence]
             writes == [evidence |-> evidence, snapshot |-> evidence]
  <2>1. Step("persist", "probed", memory, writes)
    BY <1>7 DEF PersistEvidence
  <2>2. Quiet("persist", "probed", memory, writes)
    BY <1>3 DEF Quiet, MemFields, Even, Held, Ended, Asking, Probing, Decided
  <2> HIDE DEF memory, writes
  <2>3. QED
    BY <2>1, <2>2, QuietKeeps
<1>8. CASE ProbeChecked
  <2> DEFINE run == Staged(mem.run, "probing", mem.plan, mem.batch)
             limit == Remaining(mem.discovery.calls)
             to == IF mem.batch.fruitful /\ limit > 0 THEN "reconcile" ELSE "finalize"
             memory == [mem EXCEPT !.run = run, !.limit = limit]
             writes == [metrics |-> mem.metrics, run |-> run]
  <2>1. Step("probed", to, memory, writes)
    BY <1>8 DEF ProbeChecked
  <2>2. pc = "probed" /\ pc \in Probing
    BY <2>1 DEF Step, Probing
  <2>3. mem.metrics = mem.discovery.calls
    BY <2>2 DEF Inv, PlaceInv
  <2>4. limit \in Nat /\ (limit = 0 \/ mem.metrics + limit <= MaxAiCalls)
    BY <1>3, <2>3, RemainingFits
  <2>5. /\ DOMAIN memory = MemFields /\ memory.metrics = mem.metrics
        /\ memory.limit = limit /\ memory.asked = 0 /\ memory.discovery = mem.discovery
        /\ DOMAIN writes = {"metrics", "run"} /\ writes["metrics"] = mem.metrics
        /\ to \in {"reconcile", "finalize"}
    BY <1>3 DEF MemFields
  <2> HIDE DEF memory, writes, to, limit
  <2>6. Quiet("probed", to, memory, writes)
    BY <2>4, <2>5 DEF Quiet, Even, Held, Ended, Asking, Probing, Decided
  <2>7. QED
    BY <2>1, <2>6, QuietKeeps
<1>9. CASE Reconcile
  <2> DEFINE input == [by |-> session, decision |-> mem.discovery.decision]
             memory == [mem EXCEPT !.input = input, !.asked = 0]
             writes == [reconInput |-> input]
  <2>1. Step("reconcile", "reconciling", memory, writes)
    BY <1>9 DEF Reconcile
  <2>2. pc = "reconcile"
    BY <2>1 DEF Step
  <2>3. mem.limit = 0 \/ mem.metrics + mem.limit <= MaxAiCalls
    BY <2>2 DEF Inv, PlaceInv
  <2>4. mem.limit <= MaxAiCalls
    BY <1>3, <2>3, RunAssumption
  <2>5. /\ DOMAIN memory = MemFields /\ memory.metrics = mem.metrics
        /\ memory.limit = mem.limit /\ memory.asked = 0
        /\ DOMAIN writes = {"reconInput"}
    BY <1>3 DEF MemFields
  <2> HIDE DEF memory, writes
  <2>6. Quiet("reconcile", "reconciling", memory, writes)
    BY <1>3, <2>3, <2>4, <2>5 DEF Quiet, Even, Held, Ended, Asking, Probing, Decided
  <2>7. QED
    BY <2>1, <2>6, QuietKeeps
<1>10. CASE ReconciliationChecked
  <2> DEFINE writes == [metrics |-> mem.metrics, run |-> mem.run]
  <2>1. Step("reconciled", "finalize", mem, writes)
    BY <1>10 DEF ReconciliationChecked
  <2>2. Quiet("reconciled", "finalize", mem, writes)
    BY <1>3 DEF Quiet, Even, Held, Ended, Asking, Probing, Decided
  <2> HIDE DEF writes
  <2>3. QED
    BY <2>1, <2>2, QuietKeeps
<1>11. QED
  BY <1>5, <1>6, <1>7, <1>8, <1>9, <1>10

LEMMA ReportingKeeps ==
  ASSUME Inv,
         \/ Finalize \/ Compose \/ Render \/ Reported \/ Rerender \/ ResumeReported
  PROVE  Inv'
<1>1. /\ pending = << >>
      /\ pc \in {"finalize", "compose", "render", "rendered", "rerender", "rerendered"}
  BY DEF Finalize, Compose, Render, Reported, Rerender, ResumeReported, Step
<1>2. pc \notin Asking
  BY <1>1 DEF Asking
<1>3. /\ DOMAIN mem = MemFields /\ mem.metrics \in Nat /\ mem.limit \in Nat
      /\ mem.asked = 0
  BY <1>2, AtQuiet
<1>4. DOMAIN << >> = {}
  BY NothingPending
<1>5. CASE Finalize
  <2> DEFINE inventory == [by |-> session, decision |-> mem.decision.decision,
                           snapshot |-> mem.snapshot]
             memory == [mem EXCEPT !.inventory = inventory]
             writes == [inventory |-> inventory]
  <2>1. Step("finalize", "compose", memory, writes)
    BY <1>5 DEF Finalize
  <2>2. Quiet("finalize", "compose", memory, writes)
    BY <1>3 DEF Quiet, MemFields, Even, Held, Ended, Asking, Probing, Decided
  <2> HIDE DEF memory, writes
  <2>3. QED
    BY <2>1, <2>2, QuietKeeps
<1>6. CASE Compose
  <2> DEFINE limit == Remaining(mem.metrics)
             memory == [mem EXCEPT !.limit = limit, !.asked = 0]
  <2>1. Step("compose", "composing", memory, << >>)
    BY <1>6 DEF Compose
  <2>2. /\ limit \in Nat /\ limit <= MaxAiCalls
        /\ limit = 0 \/ mem.metrics + limit <= MaxAiCalls
    BY <1>3, RemainingFits
  <2>3. /\ DOMAIN memory = MemFields /\ memory.metrics = mem.metrics
        /\ memory.limit = limit /\ memory.asked = 0
    BY <1>3 DEF MemFields
  <2> HIDE DEF memory, limit
  <2>4. Quiet("compose", "composing", memory, << >>)
    BY <1>4, <2>2, <2>3 DEF Quiet, Even, Held, Ended, Asking, Probing, Decided
  <2>5. QED
    BY <2>1, <2>4, QuietKeeps
<1>7. CASE Render \/ Rerender
  <2> DEFINE writes == [reports |-> [by |-> session, composition |-> mem.composition]]
  <2>1. \/ Step("render", "rendered", mem, writes)
        \/ Step("rerender", "rerendered", mem, writes)
    BY <1>7 DEF Render, Rerender
  <2>2. /\ Quiet("render", "rendered", mem, writes)
        /\ Quiet("rerender", "rerendered", mem, writes)
    BY <1>3 DEF Quiet, Even, Held, Ended, Asking, Probing, Decided
  <2> HIDE DEF writes
  <2>3. QED
    BY <2>1, <2>2, QuietKeeps
<1>8. CASE Reported \/ ResumeReported
  <2> DEFINE memory == [mem EXCEPT !.run = ReportedRun]
             writes == [metrics |-> mem.metrics, run |-> ReportedRun]
  <2>1. \/ Step("rendered", "finished", memory, writes)
        \/ Step("rerendered", "finished", memory, writes)
    BY <1>8 DEF Reported, ResumeReported
  <2>2. /\ Quiet("rendered", "finished", memory, writes)
        /\ Quiet("rerendered", "finished", memory, writes)
    BY <1>3 DEF Quiet, MemFields, Even, Held, Ended, Asking, Probing, Decided
  <2> HIDE DEF memory, writes
  <2>3. QED
    BY <2>1, <2>2, QuietKeeps
<1>9. QED
  BY <1>5, <1>6, <1>7, <1>8

LEMMA ReviewKeeps ==
  ASSUME Inv, Review \/ ResumeReconcile PROVE Inv'
<1>1. pending = << >> /\ pc \in {"review", "reconsider"}
  BY DEF Review, ResumeReconcile, Step
<1>2. pc \notin Asking
  BY <1>1 DEF Asking
<1>3. /\ DOMAIN mem = MemFields /\ mem.metrics \in Nat /\ mem.limit \in Nat
      /\ mem.asked = 0
  BY <1>2, AtQuiet
<1>4. DOMAIN << >> = {}
  BY NothingPending
<1>5. Quiet("review", "finalize", mem, << >>) /\ Quiet("reconsider", "finalize", mem, << >>)
  BY <1>3, <1>4 DEF Quiet, Even, Held, Ended, Asking, Probing, Decided
<1>6. CASE Review
  <2> DEFINE revised == [mem EXCEPT !.decision = disk["reconciliation"]]
             batched == [mem EXCEPT !.batch = disk["batch"]]
             writes == [run |-> NeedsSsh(mem.run)]
  <2>1. \/ Step("review", "finalize", mem, << >>)
        \/ Step("review", "finalize", revised, << >>)
        \/ Step("review", "reconsider", batched, << >>)
        \/ Step("review", "needs_ssh", mem, writes)
    BY <1>6 DEF Review
  <2>2. Quiet("review", "finalize", revised, << >>)
    BY <1>3, <1>4 DEF Quiet, MemFields, Even, Held, Ended, Asking, Probing, Decided
  <2>3. Quiet("review", "reconsider", batched, << >>)
    BY <1>3, <1>4 DEF Quiet, MemFields, Even, Held, Ended, Asking, Probing, Decided
  <2>4. Quiet("review", "needs_ssh", mem, writes)
    BY <1>3 DEF Quiet, Even, Held, Ended, Asking, Probing, Decided
  <2> HIDE DEF revised, batched, writes
  <2>5. QED
    BY <1>5, <2>1, <2>2, <2>3, <2>4, QuietKeeps
<1>7. CASE ResumeReconcile
  <2> DEFINE input == [by |-> session, decision |-> mem.discovery.decision]
             limit == Remaining(mem.metrics)
             memory == [mem EXCEPT !.input = input, !.limit = limit, !.asked = 0]
             writes == [reconInput |-> input]
  <2>1. \/ Step("reconsider", "reconciling", memory, writes)
        \/ Step("reconsider", "finalize", mem, << >>)
    BY <1>7 DEF ResumeReconcile
  <2>2. /\ limit \in Nat /\ limit <= MaxAiCalls
        /\ limit = 0 \/ mem.metrics + limit <= MaxAiCalls
    BY <1>3, RemainingFits
  <2>3. /\ DOMAIN memory = MemFields /\ memory.metrics = mem.metrics
        /\ memory.limit = limit /\ memory.asked = 0 /\ DOMAIN writes = {"reconInput"}
    BY <1>3 DEF MemFields
  <2> HIDE DEF memory, writes, limit
  <2>4. Quiet("reconsider", "reconciling", memory, writes)
    BY <2>2, <2>3 DEF Quiet, Even, Held, Ended, Asking, Probing, Decided
  <2>5. QED
    BY <1>5, <2>1, <2>4, QuietKeeps
<1>8. QED
  BY <1>6, <1>7

-----------------------------------------------------------------------------
(* What ends the calls of a stage. *)

LEMMA AnswerKeeps ==
  ASSUME Inv,
         \/ RedactionFailed
         \/ \E passed \in BOOLEAN : Composed(passed)
         \/ \E status \in {"completed", "degraded"} :
              Reconciled(status) \/ ResumeReconciled(status)
  PROVE  Inv'
<1>1. pending = << >> /\ pc \in {"reconciling", "composing"} /\ discovered' = discovered
  <2>1. /\ pending = << >> /\ pc \in {"reconciling", "composing"}
        /\ discovered' = discovered + 0
    BY DEF RedactionFailed, Composed, Reconciled, ResumeReconciled, Step
  <2>2. discovered \in Nat
    BY DEF Inv, TypeInv
  <2>3. QED
    BY <2>1, <2>2
<1>2. pc \in Asking /\ pc \in Decided
  BY <1>1 DEF Asking, Decided, Even
<1>3. /\ DOMAIN mem = MemFields /\ mem.metrics \in Nat /\ mem.limit \in Nat
      /\ mem.asked \in Nat /\ Known = mem.metrics + mem.asked /\ discovered' >= 1
  BY <1>1, <1>2, AtStep DEF Inv, PlaceInv
<1>4. CASE RedactionFailed
  <2> DEFINE memory == [mem EXCEPT !.asked = 0]
             writes == [metrics |-> mem.metrics + mem.asked,
                        run |-> [mem.run EXCEPT !.state = "failed"]]
  <2>1. Step("composing", "stopped", memory, writes)
    BY <1>4 DEF RedactionFailed
  <2>2. Arrives("stopped", memory, writes)
    BY <1>3 DEF Arrives, MemFields, Places, Even, Held, Ended, Asking, Probing, Decided
  <2> HIDE DEF memory, writes
  <2>3. QED
    BY <2>1, <2>2, StepKeeps
<1>5. ASSUME NEW passed \in BOOLEAN, Composed(passed) PROVE Inv'
  <2> DEFINE composition == [by |-> session, inventory |-> mem.inventory, passed |-> passed]
             memory == [mem EXCEPT
                          !.composition = composition,
                          !.metrics = @ + mem.asked, !.asked = 0,
                          !.run = Checkpoint(@, "composing", mem.inventory, composition)]
             writes == [wiki |-> composition, composition |-> composition]
  <2>1. Step("composing", "render", memory, writes)
    BY <1>5 DEF Composed
  <2>2. /\ DOMAIN memory = MemFields /\ memory.metrics = mem.metrics + mem.asked
        /\ memory.limit = mem.limit /\ memory.asked = 0
        /\ DOMAIN writes = {"wiki", "composition"}
    BY <1>3 DEF MemFields
  <2> HIDE DEF memory, writes
  <2>3. Arrives("render", memory, writes)
    BY <1>3, <2>2 DEF Arrives, Places, Even, Held, Ended, Asking, Probing, Decided
  <2>4. QED
    BY <2>1, <2>3, StepKeeps
<1>6. ASSUME NEW status, Reconciled(status) \/ ResumeReconciled(status) PROVE Inv'
  <2> DEFINE artifact == Artifact(session, status, mem.asked, FALSE)
             memory == Revising(artifact)
             alone == [reconciliation |-> artifact]
             writes == [reconciliation |-> artifact, metrics |-> memory.metrics,
                        run |-> memory.run]
  <2>1. \/ Step("reconciling", "reconciled", memory, alone)
        \/ Step("reconciling", "finalize", memory, writes)
    BY <1>6 DEF Reconciled, ResumeReconciled
  <2>2. artifact.calls = mem.asked
    BY DEF Artifact
  <2>3. /\ DOMAIN memory = MemFields /\ memory.metrics = mem.metrics + mem.asked
        /\ memory.limit = mem.limit /\ memory.asked = 0
    BY <1>3, <2>2 DEF MemFields, Revising, Metered
  <2>4. /\ DOMAIN alone = {"reconciliation"}
        /\ DOMAIN writes = {"reconciliation", "metrics", "run"}
        /\ writes["metrics"] = memory.metrics
    OBVIOUS
  <2> HIDE DEF memory, alone, writes
  <2>5. Arrives("reconciled", memory, alone)
    BY <1>3, <2>3, <2>4 DEF Arrives, Places, Even, Held, Ended, Asking, Probing, Decided
  <2>6. Arrives("finalize", memory, writes)
    BY <1>3, <2>3, <2>4 DEF Arrives, Places, Even, Held, Ended, Asking, Probing, Decided
  <2>7. QED
    BY <2>1, <2>5, <2>6, StepKeeps
<1>7. QED
  BY <1>4, <1>5, <1>6

-----------------------------------------------------------------------------
(* A call, a write, a crash. *)

LEMMA AskKeeps == ASSUME Inv, Ask PROVE Inv'
<1>1. /\ pc \in Asking /\ pending = << >> /\ mem.asked < mem.limit
      /\ mem' = [mem EXCEPT !.asked = @ + 1] /\ spent' = spent + 1
      /\ UNCHANGED <<disk, pending, pc, kind, session, discovered, crashes>>
  BY DEF Ask, Asking
<1>2. TypeInv /\ PlaceInv /\ MoneyInv /\ MaxAiCalls \in Nat
  BY RunAssumption DEF Inv
<1>3. /\ DOMAIN mem = MemFields /\ mem.metrics \in Nat /\ mem.limit \in Nat
      /\ mem.asked \in Nat /\ mem.limit <= MaxAiCalls
      /\ OnFile \in Nat /\ Saved = OnFile /\ mem.metrics = OnFile
      /\ Known = mem.metrics + mem.asked
  BY <1>1, <1>2, AtStep DEF PlaceInv, Even
<1>4. /\ DOMAIN mem' = MemFields /\ mem'.asked = mem.asked + 1
      /\ \A field \in MemFields \ {"asked"} : mem'[field] = mem[field]
  BY <1>1, <1>3 DEF MemFields
<1>5. OnFile' = OnFile /\ Saved' = Saved /\ Known' = Known + 1
  BY <1>1, <1>3, <1>4 DEF OnFile, Saved, Known, Even, MemFields
<1>6. TypeInv'
  BY <1>1, <1>2, <1>3, <1>4 DEF TypeInv, MemFields
<1>7. PlaceInv'
  BY <1>1, <1>2, <1>3, <1>4, <1>5 DEF PlaceInv, Asking, Probing, MemFields
<1>8. MoneyInv'
  <2>1. /\ Discoveries' = Discoveries /\ discovered' = discovered /\ crashes' = crashes
        /\ discovered \in Nat /\ Discoveries \in Nat /\ crashes \in Nat /\ spent \in Nat
        /\ OnFile' = OnFile /\ spent' = spent + 1
    BY <1>1, <1>2, <1>5 DEF Discoveries, TypeInv
  <2> DEFINE ended == MaxAiCalls * discovered
             begun == MaxAiCalls * Discoveries
             lost == MaxAiCalls * crashes
  <2>2. ended \in Nat /\ begun \in Nat /\ lost \in Nat
    BY <2>1, Budgets
  <2>3. /\ MaxAiCalls * discovered' = ended /\ MaxAiCalls * Discoveries' = begun
        /\ MaxAiCalls * crashes' = lost
    BY <2>1
  <2>4. /\ spent <= Known + lost /\ OnFile <= ended /\ Saved <= ended
    BY <1>2 DEF MoneyInv
  <2>5. Known = OnFile + mem.asked /\ mem.asked + 1 <= MaxAiCalls
    BY <1>1, <1>2, <1>3
  <2>6. Known + 1 <= begun
    <3>1. CASE pc = "discovering"
      <4>1. Discoveries = discovered + 1
        BY <3>1 DEF Discoveries
      <4>2. begun = ended + MaxAiCalls
        BY <2>1, <4>1, Budgets
      <4>3. QED
        BY <1>2, <1>3, <2>2, <2>4, <2>5, <4>2
    <3>2. CASE pc # "discovering"
      <4>1. pc \in {"reconciling", "composing"}
        BY <1>1, <3>2 DEF Asking
      <4>2. Discoveries >= 1
        BY <1>2, <2>1, <4>1 DEF PlaceInv, Decided, Even, Asking, Discoveries
      <4>3. mem.metrics + mem.limit <= MaxAiCalls
        BY <1>1, <1>2, <1>3, <4>1 DEF PlaceInv
      <4>4. MaxAiCalls <= begun
        BY <2>1, <4>2, Budgets
      <4>5. QED
        BY <1>1, <1>2, <1>3, <2>2, <4>3, <4>4
    <3>3. QED
      BY <3>1, <3>2
  <2> HIDE DEF ended, begun, lost
  <2>7. /\ spent' <= Known' + lost /\ Known' <= OnFile' + MaxAiCalls
        /\ Known' <= Saved' + MaxAiCalls /\ Known' <= begun
        /\ Saved' <= ended /\ OnFile' <= ended
    BY <1>2, <1>3, <1>5, <2>1, <2>2, <2>4, <2>5, <2>6
  <2>8. QED
    BY <2>3, <2>7 DEF MoneyInv
<1>9. QED
  BY <1>6, <1>7, <1>8 DEF Inv

LEMMA WriteKeeps == ASSUME Inv, NEW f \in Files, Write(f) PROVE Inv'
<1>1. /\ f \in DOMAIN pending /\ disk' = [disk EXCEPT ![f] = pending[f]]
      /\ pending' = [g \in DOMAIN pending \ {f} |-> pending[g]]
      /\ UNCHANGED <<pc, kind, session, mem, spent, discovered, crashes>>
  BY DEF Write
<1>2. TypeInv /\ PlaceInv /\ MoneyInv
  BY DEF Inv
<1>3. pc # "idle"
  BY <1>1, <1>2, NothingPending DEF PlaceInv
<1>4. /\ DOMAIN disk' = Files
      /\ DOMAIN pending' = DOMAIN pending \ {f}
      /\ \A g \in Files : disk'[g] = IF g = f THEN pending[f] ELSE disk[g]
      /\ \A g \in DOMAIN pending' : pending'[g] = pending[g]
      /\ {"metrics", "discovery"} \subseteq Files
  BY <1>1, <1>2 DEF TypeInv, Files
<1>5. disk'["metrics"] \in Nat \cup {None} /\ disk["metrics"] \in Nat \cup {None}
  BY <1>1, <1>2, <1>4 DEF TypeInv
<1>6. f = "metrics" => disk'["metrics"] # None
  BY <1>1, <1>2, <1>4, RunAssumption DEF TypeInv
<1>7. /\ Saved' = Saved /\ OnFile \in Nat /\ OnFile' \in Nat
      /\ OnFile' = OnFile \/ OnFile' = Saved
  <2>1. CASE f = "metrics"
    BY <1>1, <1>2, <1>4, <1>5, <1>6, <2>1 DEF Saved, OnFile, TypeInv
  <2>2. CASE f # "metrics"
    BY <1>2, <1>4, <1>5, <2>2 DEF Saved, OnFile, TypeInv
  <2>3. QED
    BY <2>1, <2>2
<1>8. Known' = Known
  BY <1>1, <1>7 DEF Known
<1>9. TypeInv'
  BY <1>1, <1>2, <1>4, <1>5 DEF TypeInv
<1>10. PlaceInv'
  BY <1>1, <1>2, <1>3, <1>4, <1>6, <1>7 DEF PlaceInv
<1>11. MoneyInv'
  BY <1>1, <1>2, <1>7, <1>8 DEF MoneyInv, Discoveries
<1>12. QED
  BY <1>9, <1>10, <1>11 DEF Inv

LEMMA CrashKeeps == ASSUME Inv, Crash PROVE Inv'
<1>1. /\ pc # "idle" /\ crashes' = crashes + 1 /\ pending' = << >> /\ pc' = "idle"
      /\ mem' = Blank /\ UNCHANGED <<session, spent, discovered>>
  BY DEF Crash
<1>2. PICK torn \in SUBSET (Appended \cap DOMAIN pending) :
        disk' = [g \in Files |-> IF g \in torn THEN Torn ELSE disk[g]]
  BY DEF Crash
<1>3. /\ DOMAIN disk' = Files /\ disk'["metrics"] = disk["metrics"]
      /\ disk'["discovery"] = disk["discovery"]
  BY <1>2 DEF Appended, Files
<1>4. TypeInv /\ PlaceInv /\ MoneyInv /\ MaxAiCalls \in Nat
  BY RunAssumption DEF Inv
<1>5. DOMAIN mem' = MemFields /\ mem'.metrics = 0 /\ mem'.limit = 0 /\ mem'.asked = 0
  BY <1>1 DEF Blank, MemFields
<1>6. DOMAIN pending' = {} /\ pc' \notin Even \cup Held
  BY <1>1, NothingPending DEF Even, Held, Asking, Probing
<1>7. OnFile \in Nat /\ OnFile' = OnFile /\ Saved' = OnFile /\ Known' = OnFile
  BY <1>3, <1>4, <1>6 DEF OnFile, Saved, Known, TypeInv
<1>8. TypeInv'
  BY <1>1, <1>3, <1>4, <1>5, <1>6 DEF TypeInv, Places, Early
<1>9. PlaceInv'
  BY <1>1, <1>3, <1>4, <1>5, <1>6 DEF PlaceInv, Even, Held, Asking, Probing, Decided
<1>10. MoneyInv'
  <2>1. Known \in Nat /\ discovered \in Nat /\ crashes \in Nat /\ spent \in Nat
    BY <1>4, <1>7 DEF Known, Saved, TypeInv
  <2>2. /\ MaxAiCalls * (crashes + 1) = MaxAiCalls * crashes + MaxAiCalls
        /\ MaxAiCalls * crashes \in Nat /\ MaxAiCalls * discovered \in Nat
    BY <2>1, Budgets
  <2>3. Discoveries' = discovered
    BY <1>1, <2>1 DEF Discoveries
  <2>4. QED
    BY <1>1, <1>4, <1>7, <2>1, <2>2, <2>3 DEF MoneyInv
<1>11. QED
  BY <1>8, <1>9, <1>10 DEF Inv

-----------------------------------------------------------------------------
(* The beginning and the end of a session. *)

\* A session begins with the calls of metrics.json and none of its own.
Opens ==
  /\ disk' = disk /\ spent' = spent /\ discovered' = discovered /\ crashes' = crashes
  /\ session' \in Nat \ {0}
  /\ DOMAIN mem' = MemFields
  /\ mem'.metrics \in Nat /\ mem'.limit = 0 /\ mem'.asked = 0
  /\ pc' \in {"idle", "scan", "discover", "review", "rerender"}
  /\ pc' \in {"idle", "discover", "review", "rerender"} => pending' = << >>
  /\ pc' = "scan" =>
       OnFile = 0 /\ DOMAIN pending' = {"metrics", "run"} /\ pending'["metrics"] = 0
  /\ pc' = "discover" => disk["metrics"] # None /\ kind' \in {"discover", "resume"}
  /\ pc' = "review" => discovered >= 1
  /\ pc' \in {"review", "rerender"} => mem'.metrics = OnFile

LEMMA OpensKeeps ==
  ASSUME Inv, pc \in {"idle"} \cup Ended, pending = << >>, Opens PROVE Inv'
<1>1. TypeInv /\ PlaceInv /\ MoneyInv
  BY DEF Inv
<1>2. pc \notin Even \cup Held /\ pc # "discovering"
  BY DEF Ended, Even, Held, Asking, Probing
<1>3. OnFile \in Nat /\ Saved = OnFile /\ Known = OnFile
  BY <1>2, AtStep
<1>4. OnFile' = OnFile
  BY DEF Opens, OnFile
<1>5. pc' \in Even \cup Held => pc' \in {"review", "rerender"}
  BY DEF Opens, Even, Held, Asking, Probing
<1>6. DOMAIN << >> = {}
  BY NothingPending
<1>7. Saved' = OnFile
  BY <1>3, <1>4, <1>6 DEF Opens, Saved
<1>8. Known' = OnFile
  BY <1>3, <1>4, <1>5, <1>6, <1>7 DEF Opens, Known
<1>9. TypeInv'
  BY <1>1, <1>6 DEF TypeInv, Opens, Places, Early, Even
<1>10. PlaceInv'
  BY <1>1, <1>3, <1>4, <1>5, <1>6, <1>7 DEF PlaceInv, Opens, Asking, Probing, Even,
     Held, Decided
<1>11. MoneyInv'
  <2>1. Discoveries = discovered /\ Discoveries' = discovered
    BY <1>1, <1>2 DEF Discoveries, Opens, TypeInv
  <2>2. QED
    BY <1>1, <1>3, <1>4, <1>7, <1>8, <2>1, RunAssumption DEF MoneyInv, Opens
<1>12. QED
  BY <1>9, <1>10, <1>11 DEF Inv

LEMMA SessionKeeps ==
  ASSUME Inv, Begin \/ ResumeRefused \/ ResumeComplete \/ Resume \/ StartDiscover \/ End
  PROVE  Inv'
<1>1. TypeInv /\ PlaceInv
  BY DEF Inv
<1>2. /\ pending = << >> /\ pc \in {"idle"} \cup Ended
      /\ UNCHANGED <<disk, spent, discovered, crashes>>
  BY <1>1 DEF Begin, ResumeRefused, ResumeComplete, Resume, StartDiscover, End, Open,
     Ended, PlaceInv
<1>3. DOMAIN Blank = MemFields /\ Blank.metrics = 0 /\ Blank.limit = 0 /\ Blank.asked = 0
  BY DEF Blank, MemFields
<1>4. CASE Begin
  <2>1. /\ session' = 1 /\ pc' = "scan" /\ mem' = [Blank EXCEPT !.run.state = "running"]
        /\ pending' = [metrics |-> 0, run |-> mem'.run] /\ session = 0
    BY <1>4 DEF Begin
  <2>2. DOMAIN mem' = MemFields /\ mem'.metrics = 0 /\ mem'.limit = 0 /\ mem'.asked = 0
    BY <2>1, <1>3 DEF MemFields
  <2>3. DOMAIN pending' = {"metrics", "run"} /\ pending'["metrics"] = 0
    BY <2>1
  <2>4. OnFile = 0
    BY <1>1, <2>1 DEF PlaceInv, OnFile
  <2>5. Opens
    BY <1>2, <2>1, <2>2, <2>3, <2>4 DEF Opens
  <2>6. QED
    BY <1>2, <2>5, OpensKeeps
<1>5. CASE ResumeRefused \/ ResumeComplete
  <2>1. /\ pc = "idle" /\ session \in Nat /\ session' = session + 1
        /\ pending' = pending /\ pc' = pc /\ mem' = mem
    BY <1>1, <1>5 DEF ResumeRefused, ResumeComplete, Open, TypeInv
  <2>2. TypeInv'
    BY <1>1, <1>2, <2>1 DEF TypeInv
  <2>3. PlaceInv'
    BY <1>1, <1>2, <2>1 DEF PlaceInv, Saved, OnFile, Asking, Probing, Even, Decided
  <2>4. MoneyInv'
    BY <1>2, <2>1 DEF Inv, MoneyInv, Known, Saved, OnFile, Discoveries
  <2>5. QED
    BY <2>2, <2>3, <2>4 DEF Inv
<1>6. CASE Resume
  <2>1. /\ session \in Nat /\ session' = session + 1 /\ kind' = "resume"
        /\ pending' = << >> /\ disk["metrics"] # None
    BY <1>1, <1>2, <1>6 DEF Resume, Open, TypeInv, Consistent, Present
  <2>2. disk["metrics"] \in Nat /\ OnFile = disk["metrics"]
    BY <1>1, <2>1 DEF TypeInv, OnFile
  <2>3. /\ DOMAIN Loaded = MemFields /\ Loaded.metrics = OnFile /\ Loaded.limit = 0
        /\ Loaded.asked = 0
    BY <1>3, <2>2 DEF Loaded, MemFields
  <2>4. \/ pc' = "rerender" /\ mem' = [Loaded EXCEPT !.composition = disk["composition"]]
        \/ /\ pc' = "review" /\ disk["discovery"] # None
           /\ mem' = [Loaded EXCEPT !.discovery = disk["discovery"],
                                    !.decision = disk["discovery"]]
        \/ pc' = "discover" /\ mem' = Loaded
    BY <1>6 DEF Resume, ValidDiscovery
  <2>5. /\ DOMAIN mem' = MemFields /\ mem'.metrics = OnFile /\ mem'.limit = 0
        /\ mem'.asked = 0
    BY <2>3, <2>4 DEF MemFields
  <2>6. pc' = "review" => discovered >= 1
    BY <1>1, <2>4 DEF PlaceInv
  <2>7. session' \in Nat \ {0}
    BY <2>1
  <2>8. Opens
    BY <1>2, <2>1, <2>2, <2>4, <2>5, <2>6, <2>7 DEF Opens
  <2>9. QED
    BY <1>2, <2>8, OpensKeeps
<1>7. CASE StartDiscover
  <2>1. /\ session \in Nat /\ session' = session + 1 /\ kind' = "discover"
        /\ pending' = << >> /\ disk["metrics"] # None /\ pc' = "discover" /\ mem' = Blank
    BY <1>1, <1>2, <1>7 DEF StartDiscover, Open, TypeInv, Present
  <2>2. session' \in Nat \ {0}
    BY <2>1
  <2>3. Opens
    BY <1>2, <1>3, <2>1, <2>2 DEF Opens
  <2>4. QED
    BY <1>2, <2>3, OpensKeeps
<1>8. CASE End
  <2>1. /\ pc \in Ended /\ session' = session /\ pending' = << >> /\ pc' = "idle"
        /\ mem' = Blank
    BY <1>2, <1>8 DEF End, Ended
  <2>2. session' \in Nat \ {0}
    BY <1>1, <2>1 DEF TypeInv, PlaceInv, Ended
  <2>3. Opens
    BY <1>2, <1>3, <2>1, <2>2 DEF Opens
  <2>4. QED
    BY <1>2, <2>3, OpensKeeps
<1>9. QED
  BY <1>4, <1>5, <1>6, <1>7, <1>8

\* Somebody edits a report, or nothing happens.
LEMMA IdleKeeps == ASSUME Inv, Tamper \/ UNCHANGED vars PROVE Inv'
<1>1. /\ UNCHANGED <<pending, pc, kind, session, mem, spent, discovered, crashes>>
      /\ disk' = disk \/ disk' = [disk EXCEPT !["reports"] = Torn]
  BY DEF Tamper, vars
<1>2. TypeInv /\ PlaceInv /\ MoneyInv
  BY DEF Inv
<1>3. /\ DOMAIN disk' = Files /\ disk'["metrics"] = disk["metrics"]
      /\ disk'["discovery"] = disk["discovery"]
  BY <1>1, <1>2 DEF TypeInv, Files
<1>4. OnFile' = OnFile /\ Saved' = Saved /\ Known' = Known /\ Discoveries' = Discoveries
  BY <1>1, <1>3 DEF OnFile, Saved, Known, Discoveries
<1>5. TypeInv'
  BY <1>1, <1>2, <1>3 DEF TypeInv
<1>6. PlaceInv'
  BY <1>1, <1>2, <1>3, <1>4 DEF PlaceInv
<1>7. MoneyInv'
  BY <1>1, <1>2, <1>4 DEF MoneyInv
<1>8. QED
  BY <1>5, <1>6, <1>7 DEF Inv

-----------------------------------------------------------------------------
(* The run. *)

LEMMA InitInv == Init => Inv
<1> SUFFICES ASSUME Init PROVE Inv
  OBVIOUS
<1>1. /\ disk = [f \in Files |-> None] /\ pending = << >> /\ pc = "idle" /\ session = 0
      /\ mem = Blank /\ spent = 0 /\ discovered = 0 /\ crashes = 0
  BY DEF Init
<1>2. /\ DOMAIN disk = Files /\ disk["metrics"] = None /\ disk["discovery"] = None
      /\ DOMAIN pending = {}
  BY <1>1, NothingPending DEF Files
<1>3. DOMAIN mem = MemFields /\ mem.metrics = 0 /\ mem.limit = 0 /\ mem.asked = 0
  BY <1>1 DEF Blank, MemFields
<1>4. pc \notin Even \cup Held
  BY <1>1 DEF Even, Held, Asking, Probing
<1>5. OnFile = 0 /\ Saved = 0 /\ Known = 0 /\ Discoveries = 0
  BY <1>1, <1>2, <1>4 DEF OnFile, Saved, Known, Discoveries
<1>6. TypeInv
  BY <1>1, <1>2, <1>3 DEF TypeInv, Places, Early
<1>7. PlaceInv
  BY <1>1, <1>2, <1>3, <1>4 DEF PlaceInv, Asking, Probing, Even, Decided
<1>8. MoneyInv
  BY <1>1, <1>5, RunAssumption DEF MoneyInv
<1>9. QED
  BY <1>6, <1>7, <1>8 DEF Inv

LEMMA NextInv == Inv /\ [Next]_vars => Inv'
<1> SUFFICES ASSUME Inv, [Next]_vars PROVE Inv'
  OBVIOUS
<1>1. CASE ScanFailed \/ Collected \/ Modelled \/ InventoryReady
  BY <1>1, ScanKeeps
<1>2. CASE \E f \in Files : Write(f)
  BY <1>2, WriteKeeps
<1>3. CASE Ask
  BY <1>3, AskKeeps
<1>4. CASE Discover
  BY <1>4, DiscoverKeeps
<1>5. CASE \E status \in {"completed", "degraded"}, asks \in BOOLEAN :
             Discovered(status, asks)
  BY <1>5, DiscoveredKeeps
<1>6. CASE \/ Plan \/ (\E fruitful \in BOOLEAN : Probe(fruitful)) \/ PersistEvidence
           \/ ProbeChecked \/ Reconcile \/ ReconciliationChecked
  BY <1>6, ProbingKeeps
<1>7. CASE Finalize \/ Compose \/ Render \/ Reported \/ Rerender \/ ResumeReported
  BY <1>7, ReportingKeeps
<1>8. CASE Review \/ ResumeReconcile
  BY <1>8, ReviewKeeps
<1>9. CASE \/ RedactionFailed
           \/ \E passed \in BOOLEAN : Composed(passed)
           \/ \E status \in {"completed", "degraded"} :
                Reconciled(status) \/ ResumeReconciled(status)
  BY <1>9, AnswerKeeps
<1>10. CASE Begin \/ ResumeRefused \/ ResumeComplete \/ Resume \/ StartDiscover \/ End
  BY <1>10, SessionKeeps
<1>11. CASE Crash
  BY <1>11, CrashKeeps
<1>12. CASE Tamper \/ Terminated \/ UNCHANGED vars
  BY <1>12, IdleKeeps DEF Terminated
<1>13. QED
  BY <1>1, <1>2, <1>3, <1>4, <1>5, <1>6, <1>7, <1>8, <1>9, <1>10, <1>11, <1>12 DEF Next

LEMMA InvBoundsSpending == Inv => SpendingBounded
<1> SUFFICES ASSUME Inv PROVE SpendingBounded
  OBVIOUS
<1>1. /\ discovered \in Nat /\ crashes \in Nat /\ Discoveries \in Nat /\ MaxAiCalls \in Nat
      /\ spent <= Known + MaxAiCalls * crashes /\ Known <= MaxAiCalls * Discoveries
      /\ spent \in Nat
  BY RunAssumption DEF Inv, TypeInv, MoneyInv, Discoveries
<1>2. OnFile \in Nat /\ Known \in Nat
  BY DEF Inv, TypeInv, OnFile, Saved, Known
<1>3. MaxAiCalls * (Discoveries + crashes) = MaxAiCalls * Discoveries + MaxAiCalls * crashes
  BY <1>1
<1>4. MaxAiCalls * Discoveries \in Nat /\ MaxAiCalls * crashes \in Nat
  BY <1>1, Budgets
<1>5. spent <= MaxAiCalls * (Discoveries + crashes)
  BY <1>1, <1>2, <1>3, <1>4
<1>6. Discoveries + crashes = discovered + crashes + (IF pc = "discovering" THEN 1 ELSE 0)
  BY <1>1 DEF Discoveries
<1>7. QED
  BY <1>5, <1>6 DEF SpendingBounded

\* The AI calls of all sessions of a run, repairs and retries included, stay
\* within one budget for each discovery and each session that died, although
\* discovery, reconciliation and composition each take their remainder from
\* another record, and a session that dies leaves its calls in none.
THEOREM Spending == Spec => []SpendingBounded
<1>1. Init => Inv
  BY InitInv
<1>2. Inv /\ [Next]_vars => Inv'
  BY NextInv
<1>3. Inv => SpendingBounded
  BY InvBoundsSpending
<1>4. QED
  BY <1>1, <1>2, <1>3, PTL DEF Spec

-----------------------------------------------------------------------------
(* The files a crash may leave: some of the writes under way are done. *)

Mix(files, writes, done) == [f \in Files |-> IF f \in done THEN writes[f] ELSE files[f]]
Mixes(files, writes) == {Mix(files, writes, done) : done \in SUBSET DOMAIN writes}

Partials == Mixes(disk, pending)

\* The files when all of them are done.
Now == Mix(disk, pending, DOMAIN pending)

Of(d, s) == d["run"].stages[s]
Has(d, s) == d["run"] # None /\ Of(d, s) # None

-----------------------------------------------------------------------------
(* What holds of the files at every moment. *)

\* The files with an author, and the session that wrote them.
Authored == {"discovery", "reconciliation", "reconInput", "composition"}

Typed(d, n) ==
  /\ d["run"] \in Maybe(Runs)
  /\ d["snapshot"] \in Maybe(Snapshots)
  /\ d["discovery"] \in Maybe(Artifacts)
  /\ d["reconciliation"] \in Maybe(Artifacts)
  /\ d["reconInput"] \in Maybe(Inputs)
  /\ d["inventory"] \in Maybe(Inventories)
  /\ d["composition"] \in Maybe(Compositions)
  /\ \A f \in Authored : d[f] # None => d[f].by <= n
  /\ d["discovery"] # None /\ d["discovery"].asks => d["discovery"].status = "completed"

\* A run that reached inventory_ready goes on from its inventory or from its
\* discovery.
Resumable(d) ==
  Has(d, "inventory_ready") =>
    \/ Of(d, "inventory_ready").output = d["inventory"]
    \/ Has(d, "discovering") /\ d["discovery"] # None

\* Checkpoints join what belongs together.
Paired(d) ==
  /\ Has(d, "reporting") =>
       Of(d, "reporting").output.composition = Of(d, "reporting").source
  /\ Has(d, "reconciling") =>
       /\ Has(d, "probing")
       /\ Of(d, "reconciling").source.by = Of(d, "reconciling").output.by
  /\ Has(d, "probing") =>
       /\ d["discovery"] # None
       /\ Of(d, "probing").source.by <= d["discovery"].by
       /\ Of(d, "probing").source.by = d["discovery"].by =>
            Of(d, "probing").source.requests = d["discovery"].asks

\* What is asked after a discovery is about its decision.
Asked(d) ==
  d["reconInput"] # None /\ d["discovery"] # None
  /\ d["reconInput"].by >= d["discovery"].by =>
    d["reconInput"].decision = d["discovery"].decision

\* A composition with a checkpoint is valid, and coherent with what it was made
\* from.
Coherent(d) ==
  /\ d["composition"] # None /\ d["inventory"] # None
  /\ Of(d, "composing").source = d["inventory"]
  /\ Of(d, "composing").output = d["composition"]
  /\ d["wiki"] = d["composition"]
  /\ d["composition"].inventory = d["inventory"]
  /\ d["inventory"].snapshot = d["snapshot"]

\* There is a reconciliation that resume would use.
Reusable(d) ==
  /\ Has(d, "reconciling")
  /\ Of(d, "reconciling").source = d["reconInput"]
  /\ Of(d, "reconciling").output = d["reconciliation"]

\* It revises the discovery.
Amended(d) ==
  /\ Investigates(d["discovery"])
  /\ Reusable(d)
  /\ d["reconInput"].decision = d["discovery"].decision

\* The probe that the discovery needs has been made.
Satisfied(d) == d["discovery"].asks /\ ~Fast => Has(d, "probing") \/ d["snapshot"] = Probed

\* The decision is the one in force.
Current(d, decision) ==
  d["reconciliation"] = None \/ d["reconciliation"].by >= d["discovery"].by =>
    decision = (IF Amended(d) THEN d["reconciliation"] ELSE d["discovery"]).decision

\* A composition made after the discovery reports the decision in force.
Decisive(d) ==
  d["discovery"] # None /\ d["composition"].by >= d["discovery"].by =>
    Satisfied(d) /\ Current(d, d["inventory"].decision)

Sound(d, n) ==
  /\ Typed(d, n)
  /\ Resumable(d) /\ Paired(d) /\ Asked(d)
  /\ Has(d, "composing") => Coherent(d) /\ Decisive(d)

-----------------------------------------------------------------------------
(* What holds of the files, when the writes under way are done, where the   *)
(* session is: p its place, k its command, m its memory, n its number.      *)

Collecting == {"scan", "model", "ready"}
Deciding == {"discover", "discovering"}
Rejudging == {"reconcile", "reconciling", "reconciled", "reconsider"}
Judging == {"discovered", "probing", "persist", "probed", "review"} \cup Rejudging
Composing == {"compose", "composing", "render", "rendered"}
Finalizing == {"finalize"} \cup Composing
Repeating == {"rerender", "rerendered"}

\* run.json in memory is the one on disk.
RunHeld(p, m, d) ==
  /\ p # "idle" => d["run"] # None
  /\ p \in Collecting \cup (Judging \ {"reconciled"}) \cup Repeating
           \cup {"discovering", "finalize", "compose", "composing"} => m.run = d["run"]
  /\ p = "reconciled" =>
       m.run = Staged(d["run"], "reconciling", m.input, m.decision)
  /\ p \in {"render", "rendered"} =>
       m.run = Checkpoint(d["run"], "composing", m.inventory, m.composition)

\* No composition has a checkpoint: a session that goes on to compose found none.
Fresh(p, k, d) ==
  /\ \/ p \in Collecting \cup Judging \cup Finalizing
     \/ p \in Deciding /\ k # "discover"
     => ~Has(d, "composing")
  /\ p \in Collecting => ~Has(d, "inventory_ready")

\* The files that resume asks for are there, and the evidence is the snapshot's.
Grounded(p, k, m, d) ==
  /\ \/ p \in {"model", "ready"} \cup Judging \cup Finalizing \cup Repeating
     \/ p \in Deciding /\ k # "discover"
     => /\ d["evidence"] = d["snapshot"] /\ d["snapshot"] # None
        /\ m.snapshot = d["snapshot"]
  /\ \/ p \in {"ready"} \cup Judging \cup Finalizing \cup Repeating
     \/ p \in Deciding /\ k # "discover"
     => d["graph"] # None /\ d["inventory"] # None

\* A decision under way is later than everything on disk.
Earlier(p, d, n) ==
  p \in Collecting \cup Deciding => \A f \in Authored : d[f] # None => d[f].by < n

DecisionHeld(p, m, d) ==
  /\ p \in Judging \cup Finalizing =>
       /\ m.discovery = d["discovery"] /\ d["discovery"] # None
       /\ Has(d, "discovering") /\ m.decision \in Artifacts
  /\ p \in Judging \ {"reconciled"} => m.decision = m.discovery
  /\ p \in {"probing", "persist", "probed"} \cup Rejudging => Investigates(m.discovery)
  /\ p \in Finalizing => Satisfied(d) /\ Current(d, m.decision.decision)

Investigated(p, k, m, d, n) ==
  /\ p \in {"probing", "persist", "probed"} =>
       /\ m.plan \in Plans
       /\ m.plan.by = m.discovery.by /\ m.plan.requests = m.discovery.asks
  /\ k \in {"inspect", "scan"} /\ p \in {"model", "ready", "discovered"} \cup Deciding =>
       d["snapshot"] = Scanned
  /\ p = "discovered" => m.discovery.by = n
  /\ p \in {"persist", "probed"} => m.batch \in Batches
  /\ p \in Rejudging => Has(d, "probing")
  /\ k \in {"inspect", "scan"} /\ p \in Collecting \cup Deciding
       \cup {"discovered", "probing", "persist", "probed"} => ~Has(d, "reconciling")
  /\ p = "reconsider" => ~Reusable(d)
  /\ p \in {"reconciling", "reconciled"} =>
       /\ m.input = d["reconInput"] /\ m.input \in Inputs /\ m.input.by = n
       /\ m.input.decision = m.discovery.decision
  /\ p = "reconciled" => m.decision = d["reconciliation"] /\ m.decision.by = n

CompositionHeld(p, m, d, n) ==
  /\ p \in {"ready"} \cup Composing =>
       m.inventory = d["inventory"] /\ m.inventory.snapshot = d["snapshot"]
  /\ p \in Composing => m.inventory.decision = m.decision.decision
  /\ p \in {"render", "rendered"} \cup Repeating =>
       /\ m.composition = d["composition"] /\ m.composition = d["wiki"]
       /\ m.composition \in Compositions /\ m.composition.inventory = d["inventory"]
  /\ p \in {"render", "rendered"} => m.composition.by = n
  /\ p \in Repeating => Has(d, "composing")
  /\ p \in {"rendered", "rerendered"} =>
       d["reports"] = [by |-> n, composition |-> m.composition]

Commanded(p, k) ==
  /\ p \in Collecting => k \in {"inspect", "scan"}
  /\ p \in {"discovered", "probing", "persist", "probed", "reconcile", "reconciled"} =>
       k = "inspect"
  /\ p \in {"review", "reconsider"} \cup Repeating => k = "resume"

\* Complete, of files that need not be those on disk.
CompleteIn(d) ==
  /\ \A f \in {"run", "metrics", "snapshot", "graph", "inventory", "evidence",
               "composition", "wiki"} : d[f] # None
  /\ d["evidence"] = d["snapshot"]
  /\ Has(d, "composing") /\ Has(d, "reporting")
  /\ Of(d, "composing").source = d["inventory"]
  /\ Of(d, "composing").output = d["composition"]
  /\ d["wiki"] = d["composition"]
  /\ Of(d, "reporting").source = d["composition"]
  /\ Of(d, "reporting").output = d["reports"]

Placed(p, k, m, d, n) ==
  /\ RunHeld(p, m, d) /\ Fresh(p, k, d) /\ Grounded(p, k, m, d) /\ Earlier(p, d, n)
  /\ DecisionHeld(p, m, d) /\ Investigated(p, k, m, d, n) /\ CompositionHeld(p, m, d, n)
  /\ Commanded(p, k)
  /\ p = "finished" => CompleteIn(d)

\* How the last session ended.
AnswerInv ==
  /\ session = 0 => answer = "none" /\ disk = [f \in Files |-> None]
  /\ answer \in {"finished", "refused"} => pc = "idle"
  /\ answer = "finished" => disk["reports"] = Torn \/ CompleteIn(disk)
  /\ answer = "refused" => disk["run"] # None /\ RefusedOnlyEarly

\* A composition is written where none has a checkpoint.
WritingInv ==
  /\ disk = [f \in Files |-> disk[f]] /\ DOMAIN pending \subseteq Files
  /\ "composition" \in DOMAIN pending =>
       disk["run"] # None /\ Stage("composing") = None /\ "run" \notin DOMAIN pending

Safe ==
  /\ \A d \in Partials : Sound(d, session)
  /\ Placed(pc, kind, mem, Now, session)
  /\ AnswerInv
  /\ WritingInv

-----------------------------------------------------------------------------
(* Content. *)

\* A run in another state.
LEMMA RunStated ==
  ASSUME NEW run \in Runs, NEW state \in RunStates
  PROVE  LET new == [run EXCEPT !.state = state]
         IN new \in Runs /\ new.stages = run.stages /\ new # None
BY ContentAssumption DEF Runs

\* The content of a checkpoint.
Point(stage, source, output) ==
  /\ stage \in Stages
  /\ stage = "inventory_ready" => source = None /\ output \in Inventories
  /\ stage = "discovering" => source = None /\ output \in Nat
  /\ stage = "probing" => source \in Plans /\ output \in Batches
  /\ stage = "reconciling" => source \in Inputs /\ output \in Artifacts
  /\ stage = "composing" => source \in Inventories /\ output \in Compositions
  /\ stage = "reporting" => source \in Compositions /\ output \in Reports

\* A run with a checkpoint more.
LEMMA RunPointed ==
  ASSUME NEW run \in Runs, NEW stage, NEW source, NEW output, Point(stage, source, output)
  PROVE  LET new == Checkpoint(run, stage, source, output)
             point == [source |-> source, output |-> output]
         IN /\ new \in Runs
            /\ \A s \in Stages : new.stages[s] = IF s = stage THEN point ELSE run.stages[s]
            /\ new.stages[stage] # None
<1> DEFINE point == [source |-> source, output |-> output]
           new == Checkpoint(run, stage, source, output)
<1>1. /\ stage = "inventory_ready" => point \in InventoryCheckpoints
      /\ stage = "discovering" => point \in DiscoveryCheckpoints
      /\ stage = "probing" => point \in ProbeCheckpoints
      /\ stage = "reconciling" => point \in ReconciliationCheckpoints
      /\ stage = "composing" => point \in CompositionCheckpoints
      /\ stage = "reporting" => point \in ReportCheckpoints
  BY DEF Point, InventoryCheckpoints, DiscoveryCheckpoints, ProbeCheckpoints,
     ReconciliationCheckpoints, CompositionCheckpoints, ReportCheckpoints
<1>2. point # None /\ stage \in Stages
  BY <1>1, ContentAssumption DEF Point, Stages
<1> HIDE DEF point
<1>3. new = [run EXCEPT !.stages[stage] = point]
  BY DEF Checkpoint, point
<1>4. DOMAIN run = {"state", "stages"} /\ DOMAIN run.stages = Stages
  BY DEF Runs, Stages
<1>5. new.stages = [run.stages EXCEPT ![stage] = point]
  BY <1>3, <1>4
<1>6. \A s \in Stages : new.stages[s] = IF s = stage THEN point ELSE run.stages[s]
  BY <1>4, <1>5
<1>7. new \in Runs
  BY <1>1, <1>2, <1>3, <1>4 DEF Runs, Maybe
<1>8. QED
  BY <1>2, <1>6, <1>7 DEF point

\* And in another state.
LEMMA RunChecked ==
  ASSUME NEW run \in Runs, NEW stage, NEW source, NEW output, Point(stage, source, output),
         NEW state \in RunStates
  PROVE  LET new == [Checkpoint(run, stage, source, output) EXCEPT !.state = state]
             point == [source |-> source, output |-> output]
         IN /\ new \in Runs /\ new # None
            /\ \A s \in Stages : new.stages[s] = IF s = stage THEN point ELSE run.stages[s]
            /\ new.stages[stage] # None
BY RunPointed, RunStated

-----------------------------------------------------------------------------
(* Writes. *)

LEMMA MixFiles ==
  ASSUME NEW files, NEW writes, NEW d \in Mixes(files, writes)
  PROVE  \A f \in Files : d[f] = files[f] \/ (f \in DOMAIN writes /\ d[f] = writes[f])
BY DEF Mixes, Mix

LEMMA MixAll ==
  ASSUME NEW files, NEW writes
  PROVE  \A f \in Files : Mix(files, writes, DOMAIN writes)[f] =
           IF f \in DOMAIN writes THEN writes[f] ELSE files[f]
BY DEF Mix

LEMMA NoWrites ==
  ASSUME Safe, pending = << >>
  PROVE  Now = disk /\ Partials = {disk}
<1>1. DOMAIN pending = {}
  BY NothingPending
<1>2. disk = [f \in Files |-> disk[f]]
  BY DEF Safe, WritingInv
<1>3. \A done \in SUBSET {} : Mix(disk, pending, done) = disk
  BY <1>2 DEF Mix
<1>4. QED
  BY <1>1, <1>3 DEF Now, Partials, Mixes

\* What the files say does not depend on the others.
Telling == {"run", "snapshot", "discovery", "reconciliation", "reconInput", "inventory",
            "composition", "wiki"}

LEMMA SameSound ==
  ASSUME NEW d, NEW e, NEW n, Sound(d, n), \A f \in Telling : e[f] = d[f]
  PROVE  Sound(e, n)
<1>1. /\ e["run"] = d["run"] /\ e["snapshot"] = d["snapshot"]
      /\ e["discovery"] = d["discovery"] /\ e["reconciliation"] = d["reconciliation"]
      /\ e["reconInput"] = d["reconInput"] /\ e["inventory"] = d["inventory"]
      /\ e["composition"] = d["composition"] /\ e["wiki"] = d["wiki"]
  BY DEF Telling
<1>2. \A f \in Authored : e[f] = d[f]
  BY DEF Telling, Authored
<1>3. Typed(e, n)
  BY <1>1, <1>2 DEF Sound, Typed
<1>4. Resumable(e) /\ Paired(e) /\ Asked(e)
  BY <1>1 DEF Sound, Resumable, Paired, Asked, Has, Of
<1>5. ASSUME Has(e, "composing") PROVE Coherent(e) /\ Decisive(e)
  BY <1>1, <1>5 DEF Sound, Coherent, Decisive, Satisfied, Current, Amended, Reusable,
     Has, Of
<1>6. QED
  BY <1>3, <1>4, <1>5 DEF Sound

\* Nor on the state of the run.
LEMMA RunSound ==
  ASSUME NEW d, NEW e, NEW n, Sound(d, n), d["run"] # None,
         \A f \in Telling \ {"run"} : e[f] = d[f],
         \/ e["run"] = d["run"]
         \/ e["run"] \in Runs /\ e["run"].stages = d["run"].stages
  PROVE  Sound(e, n)
<1>1. /\ e["snapshot"] = d["snapshot"]
      /\ e["discovery"] = d["discovery"] /\ e["reconciliation"] = d["reconciliation"]
      /\ e["reconInput"] = d["reconInput"] /\ e["inventory"] = d["inventory"]
      /\ e["composition"] = d["composition"] /\ e["wiki"] = d["wiki"]
  BY DEF Telling
<1>2. \A f \in Authored : e[f] = d[f]
  BY DEF Telling, Authored
<1>3. \A s \in Stages : Of(e, s) = Of(d, s) /\ (Has(e, s) <=> Has(d, s))
  BY ContentAssumption DEF Of, Has
<1>4. Typed(e, n)
  BY <1>1, <1>2 DEF Sound, Typed, Maybe
<1>5. Resumable(e) /\ Paired(e) /\ Asked(e)
  BY <1>1, <1>3 DEF Sound, Resumable, Paired, Asked, Stages
<1>6. ASSUME Has(e, "composing") PROVE Coherent(e) /\ Decisive(e)
  BY <1>1, <1>3, <1>6 DEF Sound, Coherent, Decisive, Satisfied, Current, Amended,
     Reusable, Stages
<1>7. QED
  BY <1>4, <1>5, <1>6 DEF Sound

-----------------------------------------------------------------------------
(* A step of a session. *)

\* What is known where a step begins.
LEMMA Before ==
  ASSUME Inv, Safe, pending = << >>
  PROVE  /\ Sound(disk, session) /\ Placed(pc, kind, mem, disk, session)
         /\ DOMAIN mem = MemFields /\ session \in Nat /\ mem.asked \in Nat
         /\ mem.metrics \in Nat
<1>1. Now = disk /\ Partials = {disk}
  BY NoWrites
<1>2. QED
  BY <1>1 DEF Safe, Inv, TypeInv

LEMMA StepSafe ==
  ASSUME Inv, Safe, NEW from, NEW to, NEW memory, NEW writes,
         Step(from, to, memory, writes),
         from # "idle", to # "idle",
         DOMAIN writes \subseteq Files,
         "composition" \in DOMAIN writes =>
           disk["run"] # None /\ Stage("composing") = None /\ "run" \notin DOMAIN writes,
         \A d \in Mixes(disk, writes) : Sound(d, session),
         Placed(to, kind, memory, Mix(disk, writes, DOMAIN writes), session)
  PROVE  Safe'
<1>1. /\ pc = from /\ pending = << >> /\ pc' = to /\ mem' = memory /\ pending' = writes
      /\ UNCHANGED <<disk, kind, session, answer>>
  BY DEF Step
<1>2. \A d \in Partials' : Sound(d, session')
  BY SMTT(30), <1>1 DEF Partials, Mixes, Mix
<1>3. Placed(pc', kind', mem', Now', session')
  BY <1>1 DEF Now, Mix
<1>4. WritingInv'
  BY <1>1 DEF Safe, WritingInv, Stage
<1>5. AnswerInv'
  <2>1. session # 0
    BY <1>1 DEF Inv, PlaceInv
  <2>2. answer \notin {"finished", "refused"}
    BY <1>1 DEF Safe, AnswerInv
  <2>3. QED
    BY <1>1, <2>1, <2>2 DEF AnswerInv
<1>6. QED
  BY <1>2, <1>3, <1>4, <1>5 DEF Safe

\* A step that writes nothing the files say.
LEMMA SilentSound ==
  ASSUME NEW files, NEW writes, NEW n, Sound(files, n), DOMAIN writes \cap Telling = {}
  PROVE  \A d \in Mixes(files, writes) : Sound(d, n)
<1> SUFFICES ASSUME NEW d \in Mixes(files, writes) PROVE Sound(d, n)
  OBVIOUS
<1>1. \A f \in Telling : f \in Files /\ f \notin DOMAIN writes
  BY DEF Telling, Files
<1>2. \A f \in Telling : d[f] = files[f]
  BY <1>1, MixFiles
<1>3. QED
  BY <1>2, SameSound

\* A step that writes nothing at all.
LEMMA QuietSafe ==
  ASSUME Inv, Safe, NEW from, NEW to, NEW memory, Step(from, to, memory, << >>),
         from # "idle", to # "idle", Placed(to, kind, memory, disk, session)
  PROVE  Safe'
<1>1. pending = << >>
  BY DEF Step
<1>2. Sound(disk, session)
  BY <1>1, Before
<1>3. DOMAIN << >> = {}
  BY NothingPending
<1>4. \A d \in Mixes(disk, << >>) : Sound(d, session)
  BY <1>2, <1>3, SilentSound
<1>5. disk = [f \in Files |-> disk[f]]
  BY DEF Safe, WritingInv
<1>6. Mix(disk, << >>, DOMAIN << >>) = disk
  BY <1>3, <1>5 DEF Mix
<1>7. QED
  BY <1>3, <1>4, <1>6, StepSafe

-----------------------------------------------------------------------------
(* Collection. *)

LEMMA CollectingSafe ==
  ASSUME Inv, Safe, ScanFailed \/ Collected \/ Modelled \/ InventoryReady
  PROVE  Safe'
<1>1. /\ pc \in Collecting /\ pending = << >> /\ Sound(disk, session)
      /\ Placed(pc, kind, mem, disk, session)
      /\ DOMAIN mem = MemFields /\ session \in Nat
  BY Before DEF ScanFailed, Collected, Modelled, InventoryReady, Step, Collecting
<1>2. /\ mem.run = disk["run"] /\ mem.run \in Runs /\ mem.run # None
      /\ ~Has(disk, "composing")
  BY <1>1 DEF Placed, RunHeld, Fresh, Sound, Typed, Collecting, Maybe
<1>3. CASE ScanFailed
  <2> DEFINE run == FinishedAs(mem.run, "failed")
             memory == [mem EXCEPT !.run = run]
             writes == [metrics |-> 0, run |-> run]
             after == Mix(disk, writes, DOMAIN writes)
  <2>1. Step("scan", "stopped", memory, writes)
    BY <1>3 DEF ScanFailed
  <2>2. run \in Runs /\ run.stages = mem.run.stages /\ run # None
    BY <1>2, RunStated DEF FinishedAs, RunStates
  <2>3. DOMAIN writes = {"metrics", "run"} /\ writes["run"] = run
    OBVIOUS
  <2> HIDE DEF memory, writes, run
  <2>4. ASSUME NEW d \in Mixes(disk, writes) PROVE Sound(d, session)
    BY <1>1, <1>2, <2>2, <2>3, MixFiles, RunSound DEF Telling, Files
  <2>5. \A f \in Files : after[f] = IF f \in DOMAIN writes THEN writes[f] ELSE disk[f]
    BY MixAll
  <2> HIDE DEF after
  <2>6. Placed("stopped", kind, memory, after, session)
    BY <2>2, <2>3, <2>5 DEF Placed, RunHeld, Fresh, Grounded, Earlier, DecisionHeld,
       Investigated, CompositionHeld, Commanded, Has, Of, Files, Authored, Collecting,
       Deciding, Judging, Rejudging, Composing, Finalizing, Repeating
  <2>7. QED
    BY <2>1, <2>3, <2>4, <2>6, StepSafe DEF Files, after
<1>4. CASE Collected
  <2> DEFINE memory == [mem EXCEPT !.snapshot = Scanned]
             writes == [evidence |-> Scanned, snapshot |-> Scanned]
             after == Mix(disk, writes, DOMAIN writes)
  <2>1. Step("scan", "model", memory, writes)
    BY <1>4 DEF Collected
  <2>2. /\ DOMAIN writes = {"evidence", "snapshot"} /\ memory.run = mem.run
        /\ writes["snapshot"] = Scanned /\ Scanned \in Snapshots /\ Scanned # None
        /\ writes["evidence"] = Scanned /\ memory.snapshot = Scanned
    BY <1>1, ContentAssumption DEF MemFields, Snapshots
  <2>3. Placed("scan", kind, mem, disk, session)
    BY <1>1, <2>1 DEF Step
  <2> HIDE DEF memory, writes
  <2>4. ASSUME NEW d \in Mixes(disk, writes) PROVE Sound(d, session)
    <3>1. \A f \in Files : d[f] = disk[f] \/ (f \in DOMAIN writes /\ d[f] = writes[f])
      BY MixFiles
    <3>2. Typed(d, session)
      BY <1>1, <2>2, <3>1 DEF Sound, Typed, Files, Authored, Maybe
    <3>3. Resumable(d) /\ Paired(d) /\ Asked(d) /\ ~Has(d, "composing")
      BY <1>1, <1>2, <2>2, <3>1 DEF Sound, Resumable, Paired, Asked, Has, Of, Files
    <3>4. QED
      BY <3>2, <3>3 DEF Sound
  <2>5. \A f \in Files : after[f] = IF f \in DOMAIN writes THEN writes[f] ELSE disk[f]
    BY MixAll
  <2> HIDE DEF after
  <2>6. Placed("model", kind, memory, after, session)
    BY <2>2, <2>3, <2>5 DEF Placed, RunHeld, Fresh, Grounded, Earlier, DecisionHeld,
       Investigated, CompositionHeld, Commanded, Has, Of, Files, Authored, Collecting,
       Deciding, Judging, Rejudging, Composing, Finalizing, Repeating
  <2>7. QED
    BY <2>1, <2>2, <2>4, <2>6, StepSafe DEF Files, after
<1>5. CASE Modelled
  <2> DEFINE inventory == [by |-> session, decision |-> None, snapshot |-> mem.snapshot]
             memory == [mem EXCEPT !.inventory = inventory]
             writes == [graph |-> session, inventory |-> inventory]
             after == Mix(disk, writes, DOMAIN writes)
  <2>1. Step("model", "ready", memory, writes)
    BY <1>5 DEF Modelled
  <2>2. Placed("model", kind, mem, disk, session)
    BY <1>1, <2>1 DEF Step
  <2>3. /\ DOMAIN writes = {"graph", "inventory"} /\ writes["graph"] = session
        /\ writes["inventory"] = inventory /\ memory.inventory = inventory
        /\ memory.run = mem.run /\ memory.snapshot = mem.snapshot
        /\ inventory.snapshot = mem.snapshot
    BY <1>1 DEF MemFields
  <2>4. /\ mem.snapshot = disk["snapshot"] /\ mem.snapshot # None
        /\ disk["evidence"] = disk["snapshot"]
    BY <2>2 DEF Placed, Grounded
  <2>5. inventory \in Inventories /\ inventory # None /\ session # None
    BY <1>1, <2>4, ContentAssumption, RunAssumption DEF Inventories, Sound, Typed, Maybe
  <2> HIDE DEF memory, writes, inventory
  <2>6. ASSUME NEW d \in Mixes(disk, writes) PROVE Sound(d, session)
    <3>1. \A f \in Files : d[f] = disk[f] \/ (f \in DOMAIN writes /\ d[f] = writes[f])
      BY MixFiles
    <3>2. Typed(d, session)
      BY <1>1, <2>3, <2>5, <3>1 DEF Sound, Typed, Files, Authored, Maybe
    <3>3. Resumable(d) /\ Paired(d) /\ Asked(d) /\ ~Has(d, "composing")
      BY <1>1, <1>2, <2>2, <2>3, <3>1 DEF Placed, Fresh, Sound, Resumable, Paired,
         Asked, Has, Of, Files
    <3>4. QED
      BY <3>2, <3>3 DEF Sound
  <2>7. \A f \in Files : after[f] = IF f \in DOMAIN writes THEN writes[f] ELSE disk[f]
    BY MixAll
  <2> HIDE DEF after
  <2>8. Placed("ready", kind, memory, after, session)
    BY <2>2, <2>3, <2>4, <2>5, <2>7 DEF Placed, RunHeld, Fresh, Grounded, Earlier,
       DecisionHeld, Investigated, CompositionHeld, Commanded, Has, Of, Files, Authored,
       Collecting, Deciding, Judging, Rejudging, Composing, Finalizing, Repeating
  <2>9. QED
    BY <2>1, <2>3, <2>6, <2>8, StepSafe DEF Files, after
<1>6. CASE InventoryReady
  <2> DEFINE run == [Checkpoint(mem.run, "inventory_ready", None, mem.inventory)
                       EXCEPT !.state = "inventory_ready"]
             memory == [mem EXCEPT !.run = run]
             writes == [metrics |-> 0, run |-> run]
             to == IF kind = "inspect" THEN "discover" ELSE "stopped"
             after == Mix(disk, writes, DOMAIN writes)
  <2>1. Step("ready", to, memory, writes)
    BY <1>6 DEF InventoryReady
  <2>2. Placed("ready", kind, mem, disk, session)
    BY <1>1, <2>1 DEF Step
  <2>3. mem.inventory = disk["inventory"] /\ mem.inventory \in Inventories
    BY <1>1, <2>2 DEF Placed, CompositionHeld, Grounded, Sound, Typed, Maybe
  <2>4. /\ run \in Runs /\ run # None
        /\ \A s \in Stages : run.stages[s] =
             IF s = "inventory_ready" THEN [source |-> None, output |-> mem.inventory]
             ELSE mem.run.stages[s]
    <3>1. Point("inventory_ready", None, mem.inventory) /\ "inventory_ready" \in RunStates
      BY <2>3 DEF Point, Stages, RunStates
    <3> HIDE DEF run
    <3>2. run = [Checkpoint(mem.run, "inventory_ready", None, mem.inventory)
                       EXCEPT !.state = "inventory_ready"]
      BY DEF run
    <3>3. QED
      BY ONLY <1>2, <2>3, <3>1, <3>2, RunChecked
  <2>5. /\ DOMAIN writes = {"metrics", "run"} /\ writes["run"] = run
        /\ memory.run = run /\ memory.snapshot = mem.snapshot
    BY <1>1 DEF MemFields
  <2> HIDE DEF memory, writes, run
  <2>6. ASSUME NEW d \in Mixes(disk, writes) PROVE Sound(d, session)
    <3>1. \A f \in Files : d[f] = disk[f] \/ (f \in DOMAIN writes /\ d[f] = writes[f])
      BY MixFiles
    <3>2. Typed(d, session)
      BY <1>1, <2>4, <2>5, <3>1 DEF Sound, Typed, Files, Authored, Maybe
    <3>3. Resumable(d) /\ Paired(d) /\ Asked(d) /\ ~Has(d, "composing")
      BY <1>1, <1>2, <2>3, <2>4, <2>5, <3>1 DEF Sound, Resumable, Paired, Asked, Has,
         Of, Files, Stages
    <3>4. QED
      BY <3>2, <3>3 DEF Sound
  <2>7. \A f \in Files : after[f] = IF f \in DOMAIN writes THEN writes[f] ELSE disk[f]
    BY MixAll
  <2> HIDE DEF after
  <2>8. Placed(to, kind, memory, after, session)
    BY <1>2, <2>2, <2>4, <2>5, <2>7 DEF Placed, RunHeld, Fresh, Grounded, Earlier,
       DecisionHeld, Investigated, CompositionHeld, Commanded, Has, Of, Files, Authored,
       Collecting, Deciding, Judging, Rejudging, Composing, Finalizing, Repeating,
       Stages
  <2>9. QED
    BY <2>1, <2>5, <2>6, <2>8, StepSafe DEF Files, after
<1>7. QED
  BY <1>3, <1>4, <1>5, <1>6

-----------------------------------------------------------------------------
(* Discovery. *)

LEMMA DiscoverSafe == ASSUME Inv, Safe, Discover PROVE Safe'
<1> DEFINE memory == [mem EXCEPT !.run = disk["run"], !.metrics = disk["metrics"],
                                 !.limit = MaxAiCalls, !.asked = 0]
<1>1. Step("discover", "discovering", memory, << >>)
  BY DEF Discover
<1>2. /\ pc = "discover" /\ pending = << >> /\ Sound(disk, session)
      /\ Placed("discover", kind, mem, disk, session)
      /\ DOMAIN mem = MemFields
  BY <1>1, Before DEF Step
<1>3. memory.run = disk["run"] /\ memory.snapshot = mem.snapshot
  BY <1>2 DEF MemFields
<1> HIDE DEF memory
<1>4. Placed("discovering", kind, memory, disk, session)
  BY <1>2, <1>3 DEF Placed, RunHeld, Fresh, Grounded, Earlier, DecisionHeld,
     Investigated, CompositionHeld, Commanded, Has, Of, Files, Authored, Collecting,
     Deciding, Judging, Rejudging, Composing, Finalizing, Repeating
<1>5. QED
  BY <1>1, <1>4, QuietSafe

LEMMA DiscoveredSafe ==
  ASSUME Inv, Safe, NEW status \in {"completed", "degraded"}, NEW asks \in BOOLEAN,
         Discovered(status, asks)
  PROVE  Safe'
<1> DEFINE artifact == Artifact(session, status, mem.asked, asks)
           run == [Checkpoint(mem.run, "discovering", None, artifact.decision)
                     EXCEPT !.state = "inventory_ready"]
           metrics == mem.metrics + mem.asked
           memory == [mem EXCEPT !.run = run, !.metrics = metrics, !.discovery = artifact,
                                 !.decision = artifact, !.asked = 0]
           writes == [discovery |-> artifact, metrics |-> metrics, run |-> run]
           after == Mix(disk, writes, DOMAIN writes)
<1>1. Step("discovering", AfterDiscovery, memory, writes) /\ (asks => status = "completed")
  BY DEF Discovered
<1>2. /\ pc = "discovering" /\ pending = << >> /\ Sound(disk, session)
      /\ Placed("discovering", kind, mem, disk, session)
      /\ DOMAIN mem = MemFields /\ session \in Nat /\ mem.asked \in Nat
  BY <1>1, Before DEF Step
<1>3. kind \in {"discover", "inspect", "resume"}
  BY <1>2 DEF Inv, PlaceInv
<1>4. /\ AfterDiscovery \in {"stopped", "discovered", "review"}
      /\ AfterDiscovery = "discovered" => kind = "inspect"
      /\ AfterDiscovery = "review" => kind = "resume"
  BY <1>3 DEF AfterDiscovery
<1>5. /\ artifact \in Artifacts /\ artifact.by = session /\ artifact.decision \in Nat
      /\ (artifact.asks => artifact.status = "completed") /\ artifact # None
  BY <1>1, <1>2, ContentAssumption DEF Artifact, Artifacts
<1>6. mem.run = disk["run"] /\ mem.run \in Runs
  BY <1>2 DEF Placed, RunHeld, Sound, Typed, Maybe
<1>7. Point("discovering", None, artifact.decision) /\ "inventory_ready" \in RunStates
  BY <1>5 DEF Point, Stages, RunStates
<1> HIDE DEF artifact
<1>8. /\ memory.run = run /\ memory.discovery = artifact /\ memory.decision = artifact
      /\ memory.snapshot = mem.snapshot
      /\ DOMAIN writes = {"discovery", "metrics", "run"}
      /\ writes["discovery"] = artifact /\ writes["run"] = run
  BY <1>2 DEF MemFields
<1>9. run = [Checkpoint(mem.run, "discovering", None, artifact.decision)
               EXCEPT !.state = "inventory_ready"]
  OBVIOUS
<1> HIDE DEF memory, writes, run
<1>10. /\ run \in Runs /\ run # None
       /\ \A s \in Stages : run.stages[s] =
            IF s = "discovering" THEN [source |-> None, output |-> artifact.decision]
            ELSE mem.run.stages[s]
       /\ run.stages["discovering"] # None
  BY ONLY <1>5, <1>6, <1>7, <1>9, RunChecked
<1>11. ASSUME NEW d \in Mixes(disk, writes) PROVE Sound(d, session)
  <2>1. \A f \in Files : d[f] = disk[f] \/ (f \in DOMAIN writes /\ d[f] = writes[f])
    BY MixFiles
  <2>2. /\ d["snapshot"] = disk["snapshot"] /\ d["reconciliation"] = disk["reconciliation"]
        /\ d["reconInput"] = disk["reconInput"] /\ d["inventory"] = disk["inventory"]
        /\ d["composition"] = disk["composition"] /\ d["wiki"] = disk["wiki"]
    BY <1>8, <2>1 DEF Files
  <2>3. d["discovery"] \in {disk["discovery"], artifact} /\ d["run"] \in {disk["run"], run}
    BY <1>8, <2>1 DEF Files
  <2>4. disk["run"] # None /\ d["run"] # None
    BY <1>2, <1>10, <2>3 DEF Placed, RunHeld
  <2>5. \A s \in Stages \ {"discovering"} : Of(d, s) = Of(disk, s)
    BY <1>6, <1>10, <2>3 DEF Of
  <2>6. \A s \in Stages \ {"discovering"} : Has(d, s) <=> Has(disk, s)
    BY <2>4, <2>5 DEF Has
  <2>7. Typed(d, session)
    BY <1>2, <1>5, <1>10, <2>2, <2>3 DEF Sound, Typed, Files, Authored, Maybe
  <2>8. Resumable(d)
    <3>1. Has(disk, "discovering") => Has(d, "discovering")
      BY <1>10, <2>3 DEF Has, Of
    <3>2. QED
      BY <1>2, <1>5, <2>2, <2>3, <2>5, <2>6, <3>1 DEF Sound, Resumable, Stages
  <2>9. Paired(d)
    <3>1. ASSUME Has(d, "probing")
          PROVE  /\ d["discovery"] # None
                 /\ Of(d, "probing").source.by <= d["discovery"].by
                 /\ Of(d, "probing").source.by = d["discovery"].by =>
                      Of(d, "probing").source.requests = d["discovery"].asks
      <4>1. /\ disk["discovery"] # None /\ disk["discovery"].by \in Nat
            /\ disk["discovery"].by < session
            /\ Of(d, "probing").source.by <= disk["discovery"].by
            /\ Of(d, "probing").source.by = disk["discovery"].by =>
                 Of(d, "probing").source.requests = disk["discovery"].asks
        BY <1>2, <2>5, <2>6, <3>1 DEF Sound, Typed, Paired, Stages, Maybe, Artifacts,
           Placed, Earlier, Deciding, Authored
      <4>2. Of(d, "probing").source.by \in Nat
        BY <2>7, <3>1 DEF Typed, Has, Of, Runs, Maybe, ProbeCheckpoints, Plans
      <4>3. CASE d["discovery"] = disk["discovery"]
        BY <4>1, <4>3
      <4>4. CASE d["discovery"] = artifact
        BY <1>2, <1>5, <4>1, <4>2, <4>4
      <4>5. QED
        BY <2>3, <4>3, <4>4
    <3>2. QED
      BY <1>2, <2>5, <2>6, <3>1 DEF Sound, Paired, Stages
  <2>10. /\ disk["reconInput"] # None => disk["reconInput"].by < session
         /\ disk["composition"] # None => disk["composition"].by < session
    BY <1>2 DEF Placed, Earlier, Deciding, Authored
  <2>11. /\ disk["reconInput"] # None => disk["reconInput"].by \in Nat
         /\ disk["composition"] # None => disk["composition"].by \in Nat
    BY <1>2 DEF Sound, Typed, Maybe, Inputs, Compositions
  <2>12. Asked(d)
    BY <1>2, <1>5, <2>2, <2>3, <2>10, <2>11 DEF Sound, Asked
  <2>13. ASSUME Has(d, "composing") PROVE Coherent(d) /\ Decisive(d)
    <3>1. Has(disk, "composing") /\ Coherent(disk) /\ Decisive(disk)
      BY <1>2, <2>6, <2>13 DEF Sound, Stages
    <3>2. Coherent(d)
      BY <2>2, <2>5, <3>1 DEF Coherent, Stages
    <3>3. CASE d["discovery"] = disk["discovery"]
      <4>1. /\ Has(d, "probing") <=> Has(disk, "probing")
            /\ Has(d, "reconciling") <=> Has(disk, "reconciling")
            /\ Of(d, "reconciling") = Of(disk, "reconciling")
        BY <2>5, <2>6 DEF Stages
      <4>2. (Reusable(d) <=> Reusable(disk)) /\ (Satisfied(d) <=> Satisfied(disk))
        BY <2>2, <3>3, <4>1 DEF Reusable, Satisfied
      <4>3. Amended(d) <=> Amended(disk)
        BY <2>2, <3>3, <4>2 DEF Amended
      <4>4. QED
        BY <2>2, <3>1, <3>2, <3>3, <4>2, <4>3 DEF Decisive, Current
    <3>4. CASE d["discovery"] = artifact
      <4>1. d["composition"] # None
        BY <3>2 DEF Coherent
      <4>2. d["composition"].by < session /\ d["composition"].by \in Nat
        BY <2>2, <2>10, <2>11, <4>1
      <4>3. QED
        BY <1>2, <1>5, <3>2, <3>4, <4>2 DEF Decisive
    <3>5. QED
      BY <2>3, <3>2, <3>3, <3>4
  <2>14. QED
    BY <2>7, <2>8, <2>9, <2>12, <2>13 DEF Sound
<1>12. \A f \in Files : after[f] = IF f \in DOMAIN writes THEN writes[f] ELSE disk[f]
  BY MixAll
<1> HIDE DEF after
<1>13. Placed(AfterDiscovery, kind, memory, after, session)
  BY <1>2, <1>4, <1>5, <1>6, <1>8, <1>10, <1>12 DEF Placed, RunHeld, Fresh, Grounded,
     Earlier, DecisionHeld, Investigated, CompositionHeld, Commanded, Has, Of, Files,
     Authored, Collecting, Deciding, Judging, Rejudging, Composing, Finalizing,
     Repeating, Stages
<1>14. QED
  BY <1>1, <1>4, <1>8, <1>11, <1>13, StepSafe DEF Files, after

-----------------------------------------------------------------------------
(* Probe. *)

\* A decision that needs no probe, or has one, and that no reconciliation
\* revises, is the one in force.
LEMMA Unrevised ==
  ASSUME NEW d, NEW n, Typed(d, n), d["discovery"] # None,
         NEW m, m.decision = d["discovery"],
         ~Investigates(d["discovery"]) \/ ~Reusable(d),
         ~Investigates(d["discovery"]) \/ Has(d, "probing") \/ d["snapshot"] = Probed
           \/ ~d["discovery"].asks
  PROVE  Satisfied(d) /\ Current(d, m.decision.decision)
<1>1. ~Amended(d)
  BY DEF Amended
<1>2. Satisfied(d)
  BY DEF Satisfied, Investigates, Typed
<1>3. QED
  BY <1>1, <1>2 DEF Current

LEMMA PlanSafe == ASSUME Inv, Safe, Plan PROVE Safe'
<1>1. pc = "discovered" /\ pending = << >>
  BY DEF Plan, Step
<1>2. /\ Sound(disk, session) /\ Placed("discovered", kind, mem, disk, session)
      /\ DOMAIN mem = MemFields /\ session \in Nat
  BY <1>1, Before
<1>3. CASE Investigates(mem.discovery)
  <2>1. PICK requests \in Accepts(mem.discovery, mem.snapshot) :
          Step("discovered", "probing",
               [mem EXCEPT !.plan = [by |-> session, requests |-> requests]],
               [plan |-> [by |-> session, requests |-> requests]])
    BY <1>3 DEF Plan
  <2> DEFINE plan == [by |-> session, requests |-> requests]
             memory == [mem EXCEPT !.plan = plan]
             writes == [plan |-> plan]
             after == Mix(disk, writes, DOMAIN writes)
  <2>2. plan \in Plans /\ plan.by = session
    BY <1>2 DEF Plans, Accepts
  <2>3. /\ memory.run = mem.run /\ memory.snapshot = mem.snapshot /\ memory.plan = plan
        /\ memory.discovery = mem.discovery /\ memory.decision = mem.decision
        /\ DOMAIN writes = {"plan"}
    BY <1>2 DEF MemFields
  <2>4. Step("discovered", "probing", memory, writes)
    BY <2>1
  <2>5. /\ mem.snapshot = Scanned /\ mem.discovery.asks \in BOOLEAN
        /\ mem.discovery.by = session
    BY <1>2 DEF Placed, Grounded, Judging, DecisionHeld, Investigated, Commanded, Sound,
       Typed, Maybe, Artifacts
  <2>6. plan.requests = mem.discovery.asks
    BY <2>5 DEF Accepts
  <2> HIDE DEF memory, writes, plan
  <2>7. \A d \in Mixes(disk, writes) : Sound(d, session)
    BY <1>2, <2>3, SilentSound DEF Telling
  <2>8. \A f \in Files : after[f] = IF f \in DOMAIN writes THEN writes[f] ELSE disk[f]
    BY MixAll
  <2> HIDE DEF after
  <2>9. Placed("probing", kind, memory, after, session)
    BY <1>2, <1>3, <2>2, <2>3, <2>8, <2>5, <2>6 DEF Placed, RunHeld, Fresh, Grounded,
       Earlier, DecisionHeld, Investigated, CompositionHeld, Commanded, Has, Of, Files,
       Authored, Collecting, Deciding, Judging, Rejudging, Composing, Finalizing,
       Repeating
  <2>10. QED
    BY <2>3, <2>4, <2>7, <2>9, StepSafe DEF Files, after
<1>4. CASE ~Investigates(mem.discovery)
  <2>1. Step("discovered", "finalize", mem, << >>)
    BY <1>4 DEF Plan
  <2>2. Satisfied(disk) /\ Current(disk, mem.decision.decision)
    BY <1>2, <1>4, Unrevised DEF Placed, DecisionHeld, Judging, Sound
  <2>3. Placed("finalize", kind, mem, disk, session)
    BY <1>2, <2>2 DEF Placed, RunHeld, Fresh, Grounded, Earlier, DecisionHeld,
       Investigated, CompositionHeld, Commanded, Has, Of, Files, Authored, Collecting,
       Deciding, Judging, Rejudging, Composing, Finalizing, Repeating
  <2>4. QED
    BY <2>1, <2>3, QuietSafe
<1>5. QED
  BY <1>3, <1>4

LEMMA ProbeSafe == ASSUME Inv, Safe, NEW fruitful \in BOOLEAN, Probe(fruitful) PROVE Safe'
<1> DEFINE batch == [by |-> session, fruitful |-> fruitful]
           memory == [mem EXCEPT !.batch = batch]
           writes == [batch |-> batch]
           after == Mix(disk, writes, DOMAIN writes)
<1>1. Step("probing", "persist", memory, writes)
  BY DEF Probe
<1>2. /\ pc = "probing" /\ pending = << >> /\ Sound(disk, session)
      /\ Placed("probing", kind, mem, disk, session)
      /\ DOMAIN mem = MemFields /\ session \in Nat
  BY <1>1, Before DEF Step
<1>3. /\ memory.run = mem.run /\ memory.snapshot = mem.snapshot /\ memory.plan = mem.plan
      /\ memory.discovery = mem.discovery /\ memory.decision = mem.decision
      /\ memory.batch = batch /\ batch \in Batches
      /\ DOMAIN writes = {"batch"}
  BY <1>2 DEF MemFields, Batches
<1> HIDE DEF memory, writes, batch
<1>4. \A d \in Mixes(disk, writes) : Sound(d, session)
  BY <1>2, <1>3, SilentSound DEF Telling
<1>5. \A f \in Files : after[f] = IF f \in DOMAIN writes THEN writes[f] ELSE disk[f]
  BY MixAll
<1> HIDE DEF after
<1>6. Placed("persist", kind, memory, after, session)
  BY <1>2, <1>3, <1>5 DEF Placed, RunHeld, Fresh, Grounded, Earlier, DecisionHeld,
     Investigated, CompositionHeld, Commanded, Has, Of, Files, Authored, Collecting,
     Deciding, Judging, Rejudging, Composing, Finalizing, Repeating
<1>7. QED
  BY <1>1, <1>3, <1>4, <1>6, StepSafe DEF Files, after

LEMMA PersistSafe == ASSUME Inv, Safe, PersistEvidence PROVE Safe'
<1> DEFINE evidence == Merged(mem.snapshot, IF mem.batch.fruitful THEN Probed ELSE {})
           memory == [mem EXCEPT !.snapshot = evidence]
           writes == [evidence |-> evidence, snapshot |-> evidence]
           after == Mix(disk, writes, DOMAIN writes)
<1>1. Step("persist", "probed", memory, writes)
  BY DEF PersistEvidence
<1>2. /\ pc = "persist" /\ pending = << >> /\ Sound(disk, session)
      /\ Placed("persist", kind, mem, disk, session)
      /\ DOMAIN mem = MemFields /\ session \in Nat
  BY <1>1, Before DEF Step
<1>3. mem.snapshot \in Snapshots
  BY <1>2 DEF Placed, Grounded, Judging, Sound, Typed, Maybe
<1>4. evidence \in Snapshots /\ evidence # None
  BY <1>3, ContentAssumption DEF Snapshots, Merged, Scanned, Probed
<1>5. /\ memory.run = mem.run /\ memory.snapshot = evidence /\ memory.plan = mem.plan
      /\ memory.discovery = mem.discovery /\ memory.decision = mem.decision
      /\ memory.batch = mem.batch
      /\ DOMAIN writes = {"evidence", "snapshot"}
      /\ writes["evidence"] = evidence /\ writes["snapshot"] = evidence
  BY <1>2 DEF MemFields
<1> HIDE DEF memory, writes, evidence
<1>6. ASSUME NEW d \in Mixes(disk, writes) PROVE Sound(d, session)
  <2>1. \A f \in Files : d[f] = disk[f] \/ (f \in DOMAIN writes /\ d[f] = writes[f])
    BY MixFiles
  <2>2. Typed(d, session)
    BY <1>2, <1>4, <1>5, <2>1 DEF Sound, Typed, Files, Authored, Maybe
  <2>3. Resumable(d) /\ Paired(d) /\ Asked(d) /\ ~Has(d, "composing")
    BY <1>2, <1>5, <2>1 DEF Placed, Fresh, Judging, Sound, Resumable, Paired, Asked,
       Has, Of, Files
  <2>4. QED
    BY <2>2, <2>3 DEF Sound
<1>7. \A f \in Files : after[f] = IF f \in DOMAIN writes THEN writes[f] ELSE disk[f]
  BY MixAll
<1> HIDE DEF after
<1>8. Placed("probed", kind, memory, after, session)
  BY <1>2, <1>4, <1>5, <1>7 DEF Placed, RunHeld, Fresh, Grounded, Earlier, DecisionHeld,
     Investigated, CompositionHeld, Commanded, Has, Of, Files, Authored, Collecting,
     Deciding, Judging, Rejudging, Composing, Finalizing, Repeating
<1>9. QED
  BY <1>1, <1>5, <1>6, <1>8, StepSafe DEF Files, after

LEMMA ProbeCheckedSafe == ASSUME Inv, Safe, ProbeChecked PROVE Safe'
<1> DEFINE run == Staged(mem.run, "probing", mem.plan, mem.batch)
           limit == Remaining(mem.discovery.calls)
           to == IF mem.batch.fruitful /\ limit > 0 THEN "reconcile" ELSE "finalize"
           memory == [mem EXCEPT !.run = run, !.limit = limit]
           writes == [metrics |-> mem.metrics, run |-> run]
           after == Mix(disk, writes, DOMAIN writes)
<1>1. Step("probed", to, memory, writes)
  BY DEF ProbeChecked
<1>2. /\ pc = "probed" /\ pending = << >> /\ Sound(disk, session)
      /\ Placed("probed", kind, mem, disk, session)
      /\ DOMAIN mem = MemFields /\ session \in Nat
  BY <1>1, Before DEF Step
<1>3. /\ mem.run = disk["run"] /\ mem.run \in Runs /\ mem.run # None
      /\ mem.plan \in Plans /\ mem.batch \in Batches
      /\ Point("probing", mem.plan, mem.batch) /\ "inventory_ready" \in RunStates
  BY <1>2 DEF Placed, RunHeld, Investigated, Judging, Sound, Typed, Maybe, Point,
     Stages, RunStates
<1>4. /\ memory.run = run /\ memory.snapshot = mem.snapshot
      /\ memory.discovery = mem.discovery /\ memory.decision = mem.decision
      /\ DOMAIN writes = {"metrics", "run"} /\ writes["run"] = run
  BY <1>2 DEF MemFields
<1>5. to \in {"reconcile", "finalize"}
  OBVIOUS
<1>6. run = [Checkpoint(mem.run, "probing", mem.plan, mem.batch)
               EXCEPT !.state = "inventory_ready"]
  BY DEF Staged
<1> HIDE DEF memory, writes, run, to, limit
<1>7. /\ run \in Runs /\ run # None
      /\ \A s \in Stages : run.stages[s] =
           IF s = "probing" THEN [source |-> mem.plan, output |-> mem.batch]
           ELSE mem.run.stages[s]
      /\ run.stages["probing"] # None
  BY ONLY <1>3, <1>6, RunChecked
<1>8. ASSUME NEW d \in Mixes(disk, writes) PROVE Sound(d, session)
  <2>1. \A f \in Files : d[f] = disk[f] \/ (f \in DOMAIN writes /\ d[f] = writes[f])
    BY MixFiles
  <2>2. Typed(d, session)
    BY <1>2, <1>4, <1>7, <2>1 DEF Sound, Typed, Files, Authored, Maybe
  <2>3. Resumable(d) /\ Asked(d) /\ ~Has(d, "composing")
    BY <1>2, <1>3, <1>4, <1>7, <2>1 DEF Placed, Fresh, Judging, Sound, Resumable, Asked,
       Has, Of, Files, Stages
  <2>4. /\ \A s \in Stages \ {"probing"} :
             Of(d, s) = Of(disk, s) /\ (Has(d, s) <=> Has(disk, s))
        /\ d["discovery"] = disk["discovery"]
        /\ Has(disk, "probing") => Has(d, "probing")
    BY <1>2, <1>3, <1>4, <1>7, <2>1 DEF Placed, RunHeld, Has, Of, Files, Stages
  <2>5. \/ /\ Of(d, "probing") = Of(disk, "probing")
           /\ Has(d, "probing") <=> Has(disk, "probing")
        \/ Of(d, "probing").source = mem.plan
    BY <1>2, <1>3, <1>4, <1>7, <2>1 DEF Placed, RunHeld, Has, Of, Files, Stages
  <2>6. /\ mem.discovery = disk["discovery"] /\ disk["discovery"] # None
        /\ mem.plan.by = mem.discovery.by /\ mem.plan.requests = mem.discovery.asks
        /\ mem.plan.by \in Nat
    BY <1>2, <1>3 DEF Placed, DecisionHeld, Investigated, Judging, Plans
  <2>7. Paired(d)
    BY <1>2, <2>4, <2>5, <2>6 DEF Sound, Paired, Stages
  <2>8. QED
    BY <2>2, <2>3, <2>7 DEF Sound
<1>9. \A f \in Files : after[f] = IF f \in DOMAIN writes THEN writes[f] ELSE disk[f]
  BY MixAll
<1> HIDE DEF after
<1>10. Satisfied(after) /\ Current(after, memory.decision.decision)
  <2>1. /\ after["discovery"] = disk["discovery"] /\ after["run"] = run
        /\ after["reconInput"] = disk["reconInput"]
        /\ after["reconciliation"] = disk["reconciliation"]
    BY <1>4, <1>9 DEF Files
  <2>2. memory.decision = after["discovery"] /\ Has(after, "probing")
    BY <1>2, <1>4, <1>7, <2>1 DEF Placed, DecisionHeld, Judging, Has, Of
  <2>3. ~Has(after, "reconciling")
    BY <1>2, <1>3, <1>7, <2>1 DEF Placed, Investigated, Commanded, Has, Of, Stages
  <2>4. QED
    BY <2>2, <2>3 DEF Satisfied, Current, Amended, Reusable
<1>11. Placed(to, kind, memory, after, session)
  BY <1>2, <1>3, <1>4, <1>5, <1>7, <1>9, <1>10 DEF Placed, RunHeld, Fresh, Grounded,
     Earlier, DecisionHeld, Investigated, CompositionHeld, Commanded, Has, Of, Files,
     Authored, Collecting, Deciding, Judging, Rejudging, Composing, Finalizing,
     Repeating, Stages
<1>12. QED
  BY <1>1, <1>4, <1>5, <1>8, <1>11, StepSafe DEF Files, after

-----------------------------------------------------------------------------
(* Reconciliation. *)

\* What a session asks is about the decision it holds.
LEMMA AskingSafe ==
  ASSUME Inv, Safe, NEW memory, NEW input, NEW from,
         from \in {"reconcile", "reconsider"},
         Step(from, "reconciling", memory, [reconInput |-> input]),
         input = [by |-> session, decision |-> mem.discovery.decision],
         memory.run = mem.run, memory.snapshot = mem.snapshot, memory.input = input,
         memory.discovery = mem.discovery, memory.decision = mem.decision
  PROVE  Safe'
<1> DEFINE writes == [reconInput |-> input]
           after == Mix(disk, writes, DOMAIN writes)
<1>1. /\ pc = from /\ pending = << >> /\ Sound(disk, session)
      /\ Placed(from, kind, mem, disk, session)
      /\ DOMAIN mem = MemFields /\ session \in Nat
  BY Before DEF Step
<1>2. mem.discovery = disk["discovery"] /\ mem.discovery \in Artifacts
  BY <1>1 DEF Placed, DecisionHeld, Judging, Rejudging, Sound, Typed, Maybe
<1>3. /\ input \in Inputs /\ input # None /\ input.by = session
      /\ input.decision = mem.discovery.decision
  BY <1>1, <1>2, ContentAssumption DEF Inputs, Artifacts
<1>4. DOMAIN writes = {"reconInput"} /\ writes["reconInput"] = input
  OBVIOUS
<1> HIDE DEF writes
<1>5. ASSUME NEW d \in Mixes(disk, writes) PROVE Sound(d, session)
  <2>1. \A f \in Files : d[f] = disk[f] \/ (f \in DOMAIN writes /\ d[f] = writes[f])
    BY MixFiles
  <2>2. Typed(d, session)
    BY <1>1, <1>3, <1>4, <2>1 DEF Sound, Typed, Files, Authored, Maybe
  <2>3. Resumable(d) /\ Paired(d) /\ Asked(d) /\ ~Has(d, "composing")
    BY <1>1, <1>2, <1>3, <1>4, <2>1 DEF Placed, Fresh, Judging, Rejudging, Sound,
       Resumable, Paired, Asked, Has, Of, Files
  <2>4. QED
    BY <2>2, <2>3 DEF Sound
<1>6. \A f \in Files : after[f] = IF f \in DOMAIN writes THEN writes[f] ELSE disk[f]
  BY MixAll
<1> HIDE DEF after
<1>7. Placed("reconciling", kind, memory, after, session)
  BY <1>1, <1>3, <1>4, <1>6 DEF Placed, RunHeld, Fresh, Grounded, Earlier, DecisionHeld,
     Investigated, CompositionHeld, Commanded, Has, Of, Files, Authored, Collecting,
     Deciding, Judging, Rejudging, Composing, Finalizing, Repeating
<1>8. Step(from, "reconciling", memory, writes)
  BY DEF writes
<1>9. QED
  BY <1>4, <1>5, <1>7, <1>8, StepSafe DEF Files, after

LEMMA ReconcileSafe == ASSUME Inv, Safe, Reconcile PROVE Safe'
<1> DEFINE input == [by |-> session, decision |-> mem.discovery.decision]
           memory == [mem EXCEPT !.input = input, !.asked = 0]
<1>1. Step("reconcile", "reconciling", memory, [reconInput |-> input])
  BY DEF Reconcile
<1>2. DOMAIN mem = MemFields
  BY DEF Inv, TypeInv
<1>3. /\ memory.run = mem.run /\ memory.snapshot = mem.snapshot /\ memory.input = input
      /\ memory.discovery = mem.discovery /\ memory.decision = mem.decision
  BY <1>2 DEF MemFields
<1> HIDE DEF memory
<1>4. QED
  BY <1>1, <1>3, AskingSafe

\* What the session holds after a reconciliation.
LEMMA Revision ==
  ASSUME Inv, Safe, pc = "reconciling", pending = << >>,
         NEW status \in {"completed", "degraded"}
  PROVE  LET artifact == Artifact(session, status, mem.asked, FALSE)
             memory == Revising(artifact)
         IN /\ artifact \in Artifacts /\ artifact # None /\ artifact.by = session
            /\ memory.run = Staged(disk["run"], "reconciling", mem.input, artifact)
            /\ memory.run \in Runs /\ memory.run # None
            /\ \A s \in Stages : memory.run.stages[s] =
                 IF s = "reconciling" THEN [source |-> mem.input, output |-> artifact]
                 ELSE disk["run"].stages[s]
            /\ memory.run.stages["reconciling"] # None
            /\ memory.snapshot = mem.snapshot /\ memory.discovery = mem.discovery
            /\ memory.decision = artifact /\ memory.input = mem.input
<1> DEFINE artifact == Artifact(session, status, mem.asked, FALSE)
           memory == Revising(artifact)
<1>1. /\ Sound(disk, session) /\ Placed("reconciling", kind, mem, disk, session)
      /\ DOMAIN mem = MemFields /\ session \in Nat /\ mem.asked \in Nat
  BY Before
<1>2. artifact \in Artifacts /\ artifact # None /\ artifact.by = session
  <2>1. FALSE \in BOOLEAN /\ (IF status = "completed" THEN session ELSE 0) \in Nat
    BY <1>1
  <2>2. artifact \in Artifacts
    BY <1>1, <2>1 DEF Artifact, Artifacts
  <2>3. QED
    BY <2>2, ContentAssumption DEF Artifact
<1>3. /\ mem.run = disk["run"] /\ mem.run \in Runs
      /\ Point("reconciling", mem.input, artifact) /\ "inventory_ready" \in RunStates
  BY <1>1, <1>2 DEF Placed, RunHeld, Investigated, Judging, Rejudging, Sound, Typed,
     Maybe, Point, Stages, RunStates
<1> HIDE DEF artifact
<1>4. /\ memory.run = Staged(mem.run, "reconciling", mem.input, artifact)
      /\ memory.snapshot = mem.snapshot /\ memory.discovery = mem.discovery
      /\ memory.decision = artifact /\ memory.input = mem.input
  BY <1>1 DEF Revising, MemFields
<1> HIDE DEF memory
<1>5. memory.run = [Checkpoint(mem.run, "reconciling", mem.input, artifact)
                      EXCEPT !.state = "inventory_ready"]
  BY <1>4 DEF Staged
<1>6. /\ memory.run \in Runs /\ memory.run # None
      /\ \A s \in Stages : memory.run.stages[s] =
           IF s = "reconciling" THEN [source |-> mem.input, output |-> artifact]
           ELSE mem.run.stages[s]
      /\ memory.run.stages["reconciling"] # None
  BY ONLY <1>2, <1>3, <1>5, RunChecked
<1>7. QED
  BY <1>2, <1>3, <1>4, <1>6 DEF memory, artifact

LEMMA ReconciledSafe ==
  ASSUME Inv, Safe, NEW status \in {"completed", "degraded"}, Reconciled(status)
  PROVE  Safe'
<1> DEFINE artifact == Artifact(session, status, mem.asked, FALSE)
           memory == Revising(artifact)
           writes == [reconciliation |-> artifact]
           after == Mix(disk, writes, DOMAIN writes)
<1>1. Step("reconciling", "reconciled", memory, writes) /\ kind = "inspect"
  BY DEF Reconciled
<1>2. /\ pc = "reconciling" /\ pending = << >> /\ Sound(disk, session)
      /\ Placed("reconciling", kind, mem, disk, session)
      /\ DOMAIN mem = MemFields /\ session \in Nat
  BY <1>1, Before DEF Step
<1>3. /\ artifact \in Artifacts /\ artifact # None /\ artifact.by = session
      /\ memory.run = Staged(disk["run"], "reconciling", mem.input, artifact)
      /\ memory.snapshot = mem.snapshot /\ memory.discovery = mem.discovery
      /\ memory.decision = artifact /\ memory.input = mem.input
  BY <1>2, Revision
<1>4. DOMAIN writes = {"reconciliation"} /\ writes["reconciliation"] = artifact
  OBVIOUS
<1> HIDE DEF memory, writes, artifact
<1>5. ASSUME NEW d \in Mixes(disk, writes) PROVE Sound(d, session)
  <2>1. \A f \in Files : d[f] = disk[f] \/ (f \in DOMAIN writes /\ d[f] = writes[f])
    BY MixFiles
  <2>2. Typed(d, session)
    BY <1>2, <1>3, <1>4, <2>1 DEF Sound, Typed, Files, Authored, Maybe
  <2>3. Resumable(d) /\ Paired(d) /\ Asked(d) /\ ~Has(d, "composing")
    BY <1>2, <1>4, <2>1 DEF Placed, Fresh, Judging, Rejudging, Sound, Resumable, Paired,
       Asked, Has, Of, Files
  <2>4. QED
    BY <2>2, <2>3 DEF Sound
<1>6. \A f \in Files : after[f] = IF f \in DOMAIN writes THEN writes[f] ELSE disk[f]
  BY MixAll
<1> HIDE DEF after
<1>7. Placed("reconciled", kind, memory, after, session)
  BY <1>1, <1>2, <1>3, <1>4, <1>6 DEF Placed, RunHeld, Fresh, Grounded, Earlier,
     DecisionHeld, Investigated, CompositionHeld, Commanded, Has, Of, Files, Authored,
     Collecting, Deciding, Judging, Rejudging, Composing, Finalizing, Repeating
<1>8. QED
  BY <1>1, <1>4, <1>5, <1>7, StepSafe DEF Files, after

\* With its checkpoint, a reconciliation of the discovery is the decision in force.
LEMMA RevisedIsCurrent ==
  ASSUME NEW d, NEW m, NEW artifact,
         d["run"] # None, Has(d, "probing"), Investigates(d["discovery"]),
         Has(d, "reconciling"),
         Of(d, "reconciling") = [source |-> m.input, output |-> artifact],
         m.input = d["reconInput"], artifact = d["reconciliation"],
         m.input.decision = d["discovery"].decision, m.decision = artifact
  PROVE  Satisfied(d) /\ Current(d, m.decision.decision)
BY DEF Satisfied, Current, Amended, Reusable

LEMMA ReconciliationCheckedSafe == ASSUME Inv, Safe, ReconciliationChecked PROVE Safe'
<1> DEFINE writes == [metrics |-> mem.metrics, run |-> mem.run]
           after == Mix(disk, writes, DOMAIN writes)
<1>1. Step("reconciled", "finalize", mem, writes)
  BY DEF ReconciliationChecked
<1>2. /\ pc = "reconciled" /\ pending = << >> /\ Sound(disk, session)
      /\ Placed("reconciled", kind, mem, disk, session)
      /\ DOMAIN mem = MemFields /\ session \in Nat
  BY <1>1, Before DEF Step
<1>3. /\ disk["run"] \in Runs /\ disk["run"] # None /\ Has(disk, "probing")
      /\ mem.input \in Inputs /\ mem.decision \in Artifacts
      /\ mem.input.by = session /\ mem.decision.by = session
      /\ mem.run = Staged(disk["run"], "reconciling", mem.input, mem.decision)
  BY <1>2 DEF Placed, RunHeld, Investigated, DecisionHeld, Judging, Rejudging, Sound,
     Typed, Maybe, Stages, RunStates
<1>4. mem.run = [Checkpoint(disk["run"], "reconciling", mem.input, mem.decision)
                   EXCEPT !.state = "inventory_ready"]
  BY <1>3 DEF Staged
<1>5. /\ mem.run \in Runs /\ mem.run # None
      /\ \A s \in Stages : mem.run.stages[s] =
           IF s = "reconciling" THEN [source |-> mem.input, output |-> mem.decision]
           ELSE disk["run"].stages[s]
      /\ mem.run.stages["reconciling"] # None
  <2> DEFINE run == disk["run"]
             artifact == mem.decision
             input == mem.input
             new == mem.run
  <2>1. /\ run \in Runs /\ Point("reconciling", input, artifact)
        /\ "inventory_ready" \in RunStates
        /\ new = [Checkpoint(run, "reconciling", input, artifact)
                    EXCEPT !.state = "inventory_ready"]
    BY <1>3, <1>4 DEF Point, Stages, RunStates
  <2> HIDE DEF run, artifact, input, new
  <2>2. /\ new \in Runs /\ new # None
        /\ \A s \in Stages : new.stages[s] =
             IF s = "reconciling" THEN [source |-> input, output |-> artifact]
             ELSE run.stages[s]
        /\ new.stages["reconciling"] # None
    BY ONLY <2>1, RunChecked
  <2>3. QED
    BY <2>2 DEF new, run, artifact, input
<1>6. DOMAIN writes = {"metrics", "run"} /\ writes["run"] = mem.run
  OBVIOUS
<1> HIDE DEF writes
<1>7. ASSUME NEW d \in Mixes(disk, writes) PROVE Sound(d, session)
  <2>1. \A f \in Files : d[f] = disk[f] \/ (f \in DOMAIN writes /\ d[f] = writes[f])
    BY MixFiles
  <2>2. Typed(d, session)
    BY <1>2, <1>5, <1>6, <2>1 DEF Sound, Typed, Files, Authored, Maybe
  <2>3. Resumable(d) /\ Paired(d) /\ Asked(d) /\ ~Has(d, "composing")
    BY <1>2, <1>3, <1>5, <1>6, <2>1 DEF Placed, Fresh, Judging, Rejudging, Sound,
       Resumable, Paired, Asked, Has, Of, Files, Stages
  <2>4. QED
    BY <2>2, <2>3 DEF Sound
<1>8. \A f \in Files : after[f] = IF f \in DOMAIN writes THEN writes[f] ELSE disk[f]
  BY MixAll
<1> HIDE DEF after
<1>9. Satisfied(after) /\ Current(after, mem.decision.decision)
  <2>1. /\ after["discovery"] = disk["discovery"] /\ after["run"] = mem.run
        /\ after["reconInput"] = disk["reconInput"]
        /\ after["reconciliation"] = disk["reconciliation"]
    BY <1>6, <1>8 DEF Files
  <2>2. /\ mem.input = after["reconInput"] /\ mem.decision = after["reconciliation"]
        /\ mem.input.decision = after["discovery"].decision
        /\ Investigates(after["discovery"])
    BY <1>2, <2>1 DEF Placed, Investigated, DecisionHeld, Judging, Rejudging
  <2>3. /\ Has(after, "probing") /\ Has(after, "reconciling")
        /\ Of(after, "reconciling") = [source |-> mem.input, output |-> mem.decision]
    BY <1>3, <1>5, <2>1 DEF Has, Of, Stages
  <2>4. QED
    BY <1>5, <2>1, <2>2, <2>3, RevisedIsCurrent
<1>10. Placed("finalize", kind, mem, after, session)
  BY <1>2, <1>3, <1>5, <1>6, <1>8, <1>9 DEF Placed, RunHeld, Fresh, Grounded, Earlier,
     DecisionHeld, Investigated, CompositionHeld, Commanded, Has, Of, Files, Authored,
     Collecting, Deciding, Judging, Rejudging, Composing, Finalizing, Repeating, Stages
<1>11. QED
  BY <1>1, <1>6, <1>7, <1>10, StepSafe DEF Files, after

LEMMA ResumeReconciledSafe ==
  ASSUME Inv, Safe, NEW status \in {"completed", "degraded"}, ResumeReconciled(status)
  PROVE  Safe'
<1> DEFINE artifact == Artifact(session, status, mem.asked, FALSE)
           memory == Revising(artifact)
           writes == [reconciliation |-> artifact, metrics |-> memory.metrics,
                      run |-> memory.run]
           after == Mix(disk, writes, DOMAIN writes)
<1>1. Step("reconciling", "finalize", memory, writes)
  BY DEF ResumeReconciled
<1>2. /\ pc = "reconciling" /\ pending = << >> /\ Sound(disk, session)
      /\ Placed("reconciling", kind, mem, disk, session)
      /\ DOMAIN mem = MemFields /\ session \in Nat
  BY <1>1, Before DEF Step
<1>3. /\ artifact \in Artifacts /\ artifact # None /\ artifact.by = session
      /\ memory.run \in Runs /\ memory.run # None
      /\ \A s \in Stages : memory.run.stages[s] =
           IF s = "reconciling" THEN [source |-> mem.input, output |-> artifact]
           ELSE disk["run"].stages[s]
      /\ memory.run.stages["reconciling"] # None
      /\ memory.snapshot = mem.snapshot /\ memory.discovery = mem.discovery
      /\ memory.decision = artifact /\ memory.input = mem.input
  BY <1>2, Revision
<1>4. /\ DOMAIN writes = {"reconciliation", "metrics", "run"}
      /\ writes["reconciliation"] = artifact /\ writes["run"] = memory.run
  OBVIOUS
<1>5. /\ disk["run"] # None /\ Has(disk, "probing") /\ mem.input \in Inputs
      /\ mem.input.by = session
  BY <1>2 DEF Placed, RunHeld, Investigated, Rejudging
<1> HIDE DEF memory, writes, artifact
<1>6. ASSUME NEW d \in Mixes(disk, writes) PROVE Sound(d, session)
  <2>1. \A f \in Files : d[f] = disk[f] \/ (f \in DOMAIN writes /\ d[f] = writes[f])
    BY MixFiles
  <2>2. Typed(d, session)
    BY <1>2, <1>3, <1>4, <2>1 DEF Sound, Typed, Files, Authored, Maybe
  <2>3. Resumable(d) /\ Asked(d) /\ ~Has(d, "composing")
    BY <1>2, <1>3, <1>4, <1>5, <2>1 DEF Placed, Fresh, Judging, Rejudging, Sound,
       Resumable, Asked, Has, Of, Files, Stages
  <2>4. /\ \A s \in Stages \ {"reconciling"} :
             Of(d, s) = Of(disk, s) /\ (Has(d, s) <=> Has(disk, s))
        /\ d["discovery"] = disk["discovery"]
    BY <1>2, <1>3, <1>4, <1>5, <2>1 DEF Placed, RunHeld, Rejudging, Judging, Has, Of,
       Files, Stages
  <2>5. Has(d, "reconciling") =>
          Of(d, "reconciling").source.by = Of(d, "reconciling").output.by
    BY <1>2, <1>3, <1>4, <1>5, <2>1 DEF Sound, Paired, Has, Of, Files, Stages
  <2>6. Paired(d)
    BY <1>2, <1>5, <2>4, <2>5 DEF Sound, Paired, Stages
  <2>7. QED
    BY <2>2, <2>3, <2>6 DEF Sound
<1>7. \A f \in Files : after[f] = IF f \in DOMAIN writes THEN writes[f] ELSE disk[f]
  BY MixAll
<1> HIDE DEF after
<1>8. Satisfied(after) /\ Current(after, memory.decision.decision)
  <2>1. /\ after["discovery"] = disk["discovery"] /\ after["run"] = memory.run
        /\ after["reconInput"] = disk["reconInput"]
        /\ after["reconciliation"] = artifact
    BY <1>4, <1>7 DEF Files
  <2>2. /\ memory.input = after["reconInput"]
        /\ memory.input.decision = after["discovery"].decision
        /\ Investigates(after["discovery"])
    BY <1>2, <1>3, <2>1 DEF Placed, Investigated, DecisionHeld, Judging, Rejudging
  <2>3. /\ Has(after, "probing") /\ Has(after, "reconciling")
        /\ Of(after, "reconciling") = [source |-> memory.input, output |-> artifact]
    BY <1>3, <1>5, <2>1 DEF Has, Of, Stages
  <2>4. QED
    BY <1>3, <2>1, <2>2, <2>3, RevisedIsCurrent
<1>9. Placed("finalize", kind, memory, after, session)
  BY <1>2, <1>3, <1>4, <1>5, <1>7, <1>8 DEF Placed, RunHeld, Fresh, Grounded, Earlier,
     DecisionHeld, Investigated, CompositionHeld, Commanded, Has, Of, Files, Authored,
     Collecting, Deciding, Judging, Rejudging, Composing, Finalizing, Repeating, Stages
<1>10. QED
  BY <1>1, <1>4, <1>6, <1>9, StepSafe DEF Files, after

LEMMA ReviewSafe == ASSUME Inv, Safe, Review PROVE Safe'
<1>1. pc = "review" /\ pending = << >>
  BY DEF Review, Step
<1>2. /\ Sound(disk, session) /\ Placed("review", kind, mem, disk, session)
      /\ DOMAIN mem = MemFields /\ session \in Nat
  BY <1>1, Before
<1>3. /\ mem.discovery = disk["discovery"] /\ mem.discovery # None
      /\ mem.decision = mem.discovery
      /\ mem.run = disk["run"] /\ disk["run"] # None /\ disk["run"] \in Runs
      /\ mem.snapshot = disk["snapshot"] /\ mem.snapshot \in Snapshots
      /\ Typed(disk, session) /\ Paired(disk) /\ Asked(disk)
  BY <1>2 DEF Placed, RunHeld, DecisionHeld, Judging, Grounded, Sound, Typed, Maybe
<1>4. /\ ValidReconciliation <=> Reusable(disk)
      /\ ValidProbe => Has(disk, "probing")
  BY <1>3 DEF ValidReconciliation, Reusable, ValidProbe, Has, Of, Stage
\* A step to finalize without a reconciliation.
<1>5. ASSUME Step("review", "finalize", mem, << >>),
             Satisfied(disk) /\ Current(disk, mem.decision.decision)
      PROVE  Safe'
  <2>1. Placed("finalize", kind, mem, disk, session)
    BY <1>2, <1>5 DEF Placed, RunHeld, Fresh, Grounded, Earlier, DecisionHeld,
       Investigated, CompositionHeld, Commanded, Has, Of, Files, Authored, Collecting,
       Deciding, Judging, Rejudging, Composing, Finalizing, Repeating
  <2>2. QED
    BY <1>5, <2>1, QuietSafe
<1>6. CASE ~Investigates(mem.discovery)
  <2>1. Step("review", "finalize", mem, << >>)
    BY <1>6 DEF Review
  <2>2. Satisfied(disk) /\ Current(disk, mem.decision.decision)
    BY <1>3, <1>6, Unrevised
  <2>3. QED
    BY <1>5, <2>1, <2>2
<1>7. CASE Investigates(mem.discovery) /\ ValidReconciliation
  <2> DEFINE memory == [mem EXCEPT !.decision = disk["reconciliation"]]
  <2>1. Step("review", "finalize", memory, << >>)
    BY <1>7 DEF Review
  <2>2. /\ memory.run = mem.run /\ memory.snapshot = mem.snapshot
        /\ memory.discovery = mem.discovery /\ memory.decision = disk["reconciliation"]
    BY <1>2 DEF MemFields
  <2> HIDE DEF memory
  <2>3. /\ Reusable(disk) /\ Has(disk, "probing") /\ Has(disk, "reconciling")
        /\ disk["reconInput"].by = disk["reconciliation"].by
    BY <1>3, <1>4, <1>7 DEF Reusable, Paired
  <2>4. disk["run"].stages.reconciling \in ReconciliationCheckpoints
    BY <1>3, <2>3 DEF Runs, Maybe, Has, Of
  <2>5. /\ disk["reconciliation"] \in Artifacts /\ disk["reconInput"] \in Inputs
        /\ disk["reconciliation"] # None /\ disk["reconInput"] # None
    BY <2>3, <2>4, ContentAssumption DEF Reusable, Of, ReconciliationCheckpoints
  <2>6. Satisfied(disk) /\ Current(disk, memory.decision.decision)
    <3>1. ASSUME disk["reconciliation"].by >= disk["discovery"].by PROVE Amended(disk)
      BY <1>3, <1>7, <2>3, <2>5, <3>1 DEF Amended, Asked
    <3>2. QED
      BY <2>2, <2>3, <2>5, <3>1 DEF Satisfied, Current
  <2>7. Placed("finalize", kind, memory, disk, session)
    BY <1>2, <2>2, <2>5, <2>6 DEF Placed, RunHeld, Fresh, Grounded, Earlier,
       DecisionHeld, Investigated, CompositionHeld, Commanded, Has, Of, Files, Authored,
       Collecting, Deciding, Judging, Rejudging, Composing, Finalizing, Repeating
  <2>8. QED
    BY <2>1, <2>7, QuietSafe
<1>8. CASE Investigates(mem.discovery) /\ ~ValidReconciliation /\ ValidProbe
  <2> DEFINE memory == [mem EXCEPT !.batch = disk["batch"]]
  <2>1. Step("review", "reconsider", memory, << >>)
    BY <1>8 DEF Review
  <2>2. /\ memory.run = mem.run /\ memory.snapshot = mem.snapshot
        /\ memory.discovery = mem.discovery /\ memory.decision = mem.decision
    BY <1>2 DEF MemFields
  <2> HIDE DEF memory
  <2>3. Placed("reconsider", kind, memory, disk, session)
    BY <1>2, <1>4, <1>8, <2>2 DEF Placed, RunHeld, Fresh, Grounded, Earlier,
       DecisionHeld, Investigated, CompositionHeld, Commanded, Has, Of, Files, Authored,
       Collecting, Deciding, Judging, Rejudging, Composing, Finalizing, Repeating
  <2>4. QED
    BY <2>1, <2>3, QuietSafe
<1>9. CASE Investigates(mem.discovery) /\ ~ValidReconciliation /\ ~ValidProbe
  <2>1. PICK requests \in Accepts(mem.discovery, mem.snapshot) :
          IF requests
          THEN Step("review", "needs_ssh", mem, [run |-> NeedsSsh(mem.run)])
          ELSE Step("review", "finalize", mem, << >>)
    BY <1>9 DEF Review
  <2>2. CASE requests = TRUE
    <3> DEFINE run == NeedsSsh(mem.run)
               writes == [run |-> run]
               after == Mix(disk, writes, DOMAIN writes)
    <3>1. Step("review", "needs_ssh", mem, writes)
      BY <2>1, <2>2
    <3>2. run \in Runs /\ run.stages = disk["run"].stages /\ run # None
      BY <1>3, RunStated DEF NeedsSsh, RunStates
    <3>3. DOMAIN writes = {"run"} /\ writes["run"] = run
      OBVIOUS
    <3> HIDE DEF writes, run
    <3>4. ASSUME NEW d \in Mixes(disk, writes) PROVE Sound(d, session)
      BY <1>2, <1>3, <3>2, <3>3, MixFiles, RunSound DEF Telling, Files
    <3>5. \A f \in Files : after[f] = IF f \in DOMAIN writes THEN writes[f] ELSE disk[f]
      BY MixAll
    <3> HIDE DEF after
    <3>6. Placed("needs_ssh", kind, mem, after, session)
      BY <3>2, <3>3, <3>5 DEF Placed, RunHeld, Fresh, Grounded, Earlier, DecisionHeld,
         Investigated, CompositionHeld, Commanded, Has, Of, Files, Authored, Collecting,
         Deciding, Judging, Rejudging, Composing, Finalizing, Repeating
    <3>7. QED
      BY <3>1, <3>3, <3>4, <3>6, StepSafe DEF Files, after
  <2>3. CASE requests = FALSE
    <3>1. Step("review", "finalize", mem, << >>)
      BY <2>1, <2>3
    <3>2. ~disk["discovery"].asks \/ disk["snapshot"] = Probed
      BY <1>3, <2>1, <2>3 DEF Accepts, Snapshots
    <3>3. Satisfied(disk) /\ Current(disk, mem.decision.decision)
      BY <1>3, <1>4, <1>9, <3>2, Unrevised
    <3>4. QED
      BY <1>5, <3>1, <3>3
  <2>4. requests \in BOOLEAN
    BY <2>1 DEF Accepts
  <2>5. QED
    BY <2>2, <2>3, <2>4
<1>10. QED
  BY <1>6, <1>7, <1>8, <1>9

LEMMA ResumeReconcileSafe == ASSUME Inv, Safe, ResumeReconcile PROVE Safe'
<1> DEFINE input == [by |-> session, decision |-> mem.discovery.decision]
           limit == Remaining(mem.metrics)
           memory == [mem EXCEPT !.input = input, !.limit = limit, !.asked = 0]
<1>1. /\ pc = "reconsider"
      /\ \/ Step("reconsider", "reconciling", memory, [reconInput |-> input])
         \/ Step("reconsider", "finalize", mem, << >>)
  BY DEF ResumeReconcile
<1>2. pending = << >>
  BY <1>1 DEF Step
<1>3. /\ Sound(disk, session) /\ Placed("reconsider", kind, mem, disk, session)
      /\ DOMAIN mem = MemFields /\ session \in Nat
  BY <1>1, <1>2, Before
<1>4. CASE Step("reconsider", "reconciling", memory, [reconInput |-> input])
  <2>1. /\ memory.run = mem.run /\ memory.snapshot = mem.snapshot /\ memory.input = input
        /\ memory.discovery = mem.discovery /\ memory.decision = mem.decision
    BY <1>3 DEF MemFields
  <2> HIDE DEF memory
  <2>2. QED
    BY <1>4, <2>1, AskingSafe
<1>5. CASE Step("reconsider", "finalize", mem, << >>)
  <2>1. Satisfied(disk) /\ Current(disk, mem.decision.decision)
    BY <1>3, Unrevised DEF Placed, DecisionHeld, Investigated, Judging, Rejudging, Sound
  <2>2. Placed("finalize", kind, mem, disk, session)
    BY <1>3, <2>1 DEF Placed, RunHeld, Fresh, Grounded, Earlier, DecisionHeld,
       Investigated, CompositionHeld, Commanded, Has, Of, Files, Authored, Collecting,
       Deciding, Judging, Rejudging, Composing, Finalizing, Repeating
  <2>3. QED
    BY <1>5, <2>2, QuietSafe
<1>6. QED
  BY <1>1, <1>4, <1>5

-----------------------------------------------------------------------------
(* The report. *)

LEMMA FinalizeSafe == ASSUME Inv, Safe, Finalize PROVE Safe'
<1> DEFINE inventory == [by |-> session, decision |-> mem.decision.decision,
                         snapshot |-> mem.snapshot]
           memory == [mem EXCEPT !.inventory = inventory]
           writes == [inventory |-> inventory]
           after == Mix(disk, writes, DOMAIN writes)
<1>1. Step("finalize", "compose", memory, writes)
  BY DEF Finalize
<1>2. /\ pc = "finalize" /\ pending = << >> /\ Sound(disk, session)
      /\ Placed("finalize", kind, mem, disk, session)
      /\ DOMAIN mem = MemFields /\ session \in Nat
  BY <1>1, Before DEF Step
<1>3. /\ memory.inventory = inventory /\ memory.run = mem.run
      /\ memory.snapshot = mem.snapshot /\ memory.discovery = mem.discovery
      /\ memory.decision = mem.decision
      /\ DOMAIN writes = {"inventory"} /\ writes["inventory"] = inventory
  BY <1>2 DEF MemFields
<1>4. inventory \in Inventories /\ inventory # None
  BY <1>2, ContentAssumption DEF Inventories, Placed, DecisionHeld, Grounded,
     Finalizing, Artifacts, Sound, Typed, Maybe
<1>5. inventory.decision = mem.decision.decision /\ inventory.snapshot = mem.snapshot
  OBVIOUS
<1> HIDE DEF memory, writes, inventory
<1>6. ASSUME NEW d \in Mixes(disk, writes) PROVE Sound(d, session)
  <2>1. \A f \in Files : d[f] = disk[f] \/ (f = "inventory" /\ d[f] = inventory)
    BY <1>3, MixFiles
  <2>2. ~Has(d, "composing")
    BY <1>2, <2>1 DEF Placed, Fresh, Finalizing, Has, Of, Files
  <2>3. Typed(d, session)
    BY <1>2, <1>4, <2>1 DEF Sound, Typed, Files, Authored, Maybe
  <2>4. Resumable(d) /\ Paired(d) /\ Asked(d)
    BY <1>2, <2>1 DEF Placed, DecisionHeld, Finalizing, Sound, Resumable, Paired, Asked,
       Has, Of, Files
  <2>5. QED
    BY <2>2, <2>3, <2>4 DEF Sound
<1>7. Placed("compose", kind, memory, after, session)
  <2>1. \A f \in Files : after[f] = IF f = "inventory" THEN inventory ELSE disk[f]
    BY <1>3, MixAll
  <2> HIDE DEF after
  <2>2. QED
    BY <1>2, <1>3, <1>4, <1>5, <2>1 DEF Placed, RunHeld, Fresh, Grounded, Earlier,
       DecisionHeld, Investigated, CompositionHeld, Commanded, Has, Of, Files, Authored,
       Collecting, Judging, Finalizing, Composing, Deciding, Repeating, Rejudging,
       Satisfied, Current, Amended, Reusable
<1>8. QED
  BY <1>1, <1>3, <1>6, <1>7, StepSafe DEF Files

LEMMA ComposeSafe == ASSUME Inv, Safe, Compose PROVE Safe'
<1> DEFINE memory == [mem EXCEPT !.limit = Remaining(mem.metrics), !.asked = 0]
<1>1. Step("compose", "composing", memory, << >>)
  BY DEF Compose
<1>2. /\ pc = "compose" /\ pending = << >>
      /\ Placed("compose", kind, mem, disk, session) /\ DOMAIN mem = MemFields
  BY <1>1, Before DEF Step
<1>3. /\ memory.run = mem.run /\ memory.snapshot = mem.snapshot
      /\ memory.discovery = mem.discovery /\ memory.decision = mem.decision
      /\ memory.inventory = mem.inventory
  BY <1>2 DEF MemFields
<1> HIDE DEF memory
<1>4. Placed("composing", kind, memory, disk, session)
  BY <1>2, <1>3 DEF Placed, RunHeld, Fresh, Grounded, Earlier, DecisionHeld,
     Investigated, CompositionHeld, Commanded, Has, Of, Files, Authored, Collecting,
     Deciding, Judging, Rejudging, Composing, Finalizing, Repeating
<1>5. QED
  BY <1>1, <1>4, QuietSafe

LEMMA RedactionFailedSafe == ASSUME Inv, Safe, RedactionFailed PROVE Safe'
<1> DEFINE run == [mem.run EXCEPT !.state = "failed"]
           memory == [mem EXCEPT !.asked = 0]
           writes == [metrics |-> mem.metrics + mem.asked, run |-> run]
           after == Mix(disk, writes, DOMAIN writes)
<1>1. Step("composing", "stopped", memory, writes)
  BY DEF RedactionFailed
<1>2. /\ pc = "composing" /\ pending = << >> /\ Sound(disk, session)
      /\ Placed("composing", kind, mem, disk, session)
  BY <1>1, Before DEF Step
<1>3. mem.run = disk["run"] /\ disk["run"] \in Runs /\ disk["run"] # None
  BY <1>2 DEF Placed, RunHeld, Sound, Typed, Maybe
<1>4. run \in Runs /\ run.stages = disk["run"].stages /\ run # None
  BY <1>3, RunStated DEF RunStates
<1>5. DOMAIN writes = {"metrics", "run"} /\ writes["run"] = run
  OBVIOUS
<1> HIDE DEF memory, writes, run
<1>6. ASSUME NEW d \in Mixes(disk, writes) PROVE Sound(d, session)
  BY <1>2, <1>3, <1>4, <1>5, MixFiles, RunSound DEF Telling, Files
<1>7. \A f \in Files : after[f] = IF f \in DOMAIN writes THEN writes[f] ELSE disk[f]
  BY MixAll
<1> HIDE DEF after
<1>8. Placed("stopped", kind, memory, after, session)
  BY <1>4, <1>5, <1>7 DEF Placed, RunHeld, Fresh, Grounded, Earlier, DecisionHeld,
     Investigated, CompositionHeld, Commanded, Has, Of, Files, Authored, Collecting,
     Deciding, Judging, Rejudging, Composing, Finalizing, Repeating
<1>9. QED
  BY <1>1, <1>5, <1>6, <1>8, StepSafe DEF Files, after

LEMMA ComposedSafe ==
  ASSUME Inv, Safe, NEW passed \in BOOLEAN, Composed(passed)
  PROVE  Safe'
<1> DEFINE composition == [by |-> session, inventory |-> mem.inventory, passed |-> passed]
           memory == [mem EXCEPT !.composition = composition,
                                 !.metrics = @ + mem.asked, !.asked = 0,
                                 !.run = Checkpoint(@, "composing", mem.inventory, composition)]
           writes == [wiki |-> composition, composition |-> composition]
           after == Mix(disk, writes, DOMAIN writes)
<1>1. Step("composing", "render", memory, writes)
  BY DEF Composed
<1>2. /\ pc = "composing" /\ pending = << >> /\ Sound(disk, session)
      /\ Placed("composing", kind, mem, disk, session)
      /\ DOMAIN mem = MemFields /\ session \in Nat
  BY <1>1, Before DEF Step
<1>3. mem.run = disk["run"] /\ mem.inventory = disk["inventory"]
      /\ mem.inventory \in Inventories /\ disk["run"] # None /\ ~Has(disk, "composing")
  BY <1>2 DEF Placed, RunHeld, Fresh, Grounded, CompositionHeld, Composing, Finalizing,
     Sound, Typed, Maybe
<1>4. /\ composition \in Compositions /\ composition # None /\ composition.by = session
      /\ composition.inventory = mem.inventory
  <2>1. composition \in Compositions
    BY <1>2, <1>3 DEF Compositions
  <2>2. QED
    BY <2>1, ContentAssumption
<1> HIDE DEF composition
<1>5. /\ memory.run = Checkpoint(mem.run, "composing", mem.inventory, composition)
      /\ memory.snapshot = mem.snapshot /\ memory.composition = composition
      /\ memory.discovery = mem.discovery /\ memory.decision = mem.decision
      /\ memory.inventory = mem.inventory
      /\ DOMAIN writes = {"wiki", "composition"}
      /\ writes["wiki"] = composition /\ writes["composition"] = composition
  BY <1>2 DEF MemFields
<1> HIDE DEF memory, writes
<1>6. ASSUME NEW d \in Mixes(disk, writes) PROVE Sound(d, session)
  <2>1. \A f \in Files : d[f] = disk[f] \/ (f \in DOMAIN writes /\ d[f] = writes[f])
    BY MixFiles
  <2>2. Typed(d, session)
    BY <1>2, <1>4, <1>5, <2>1 DEF Sound, Typed, Files, Authored, Maybe
  <2>3. Resumable(d) /\ Paired(d) /\ Asked(d) /\ ~Has(d, "composing")
    BY <1>2, <1>3, <1>5, <2>1 DEF Sound, Resumable, Paired, Asked, Has, Of, Files
  <2>4. QED
    BY <2>2, <2>3 DEF Sound
<1>7. \A f \in Files : after[f] = IF f \in DOMAIN writes THEN writes[f] ELSE disk[f]
  BY MixAll
<1> HIDE DEF after
<1>8. Placed("render", kind, memory, after, session)
  BY <1>2, <1>3, <1>4, <1>5, <1>7 DEF Placed, RunHeld, Fresh, Grounded, Earlier,
     DecisionHeld, Investigated, CompositionHeld, Commanded, Has, Of, Files, Authored,
     Collecting, Deciding, Judging, Rejudging, Composing, Finalizing, Repeating,
     Satisfied, Current, Amended, Reusable
<1>9. Stage("composing") = None
  BY <1>3 DEF Has, Of, Stage
<1>10. QED
  BY <1>1, <1>3, <1>5, <1>6, <1>8, <1>9, StepSafe DEF Files, after

LEMMA RenderSafe == ASSUME Inv, Safe, Render \/ Rerender PROVE Safe'
<1> DEFINE writes == [reports |-> [by |-> session, composition |-> mem.composition]]
           to == IF pc = "render" THEN "rendered" ELSE "rerendered"
           after == Mix(disk, writes, DOMAIN writes)
<1>1. Step(pc, to, mem, writes) /\ pc \in {"render", "rerender"}
  BY DEF Render, Rerender, Step
<1>2. /\ pending = << >> /\ Sound(disk, session)
      /\ Placed(pc, kind, mem, disk, session)
  BY <1>1, Before DEF Step
<1>3. /\ DOMAIN writes = {"reports"}
      /\ writes["reports"] = [by |-> session, composition |-> mem.composition]
  OBVIOUS
<1>4. \/ pc = "render" /\ to = "rendered"
      \/ pc = "rerender" /\ to = "rerendered"
  BY <1>1
<1> HIDE DEF writes, to
<1>5. \A d \in Mixes(disk, writes) : Sound(d, session)
  BY <1>2, <1>3, SilentSound DEF Telling
<1>6. \A f \in Files : after[f] = IF f \in DOMAIN writes THEN writes[f] ELSE disk[f]
  BY MixAll
<1> HIDE DEF after
<1>7. Placed(to, kind, mem, after, session)
  BY <1>2, <1>3, <1>4, <1>6 DEF Placed, RunHeld, Fresh, Grounded, Earlier, DecisionHeld,
     Investigated, CompositionHeld, Commanded, Has, Of, Files, Authored, Collecting,
     Deciding, Judging, Rejudging, Composing, Finalizing, Repeating, Satisfied, Current,
     Amended, Reusable
<1>8. QED
  BY <1>1, <1>3, <1>4, <1>5, <1>7, StepSafe DEF Files, after

\* run.json after the reports.
LEMMA RunReported ==
  ASSUME NEW run \in Runs, run = mem.run,
         mem.composition \in Compositions, disk["reports"] \in Reports
  PROVE  /\ ReportedRun \in Runs /\ ReportedRun # None
         /\ \A s \in Stages : ReportedRun.stages[s] =
              IF s = "reporting" THEN [source |-> mem.composition, output |-> disk["reports"]]
              ELSE run.stages[s]
         /\ ReportedRun.stages["reporting"] # None
<1> DEFINE composition == mem.composition
           reports == disk["reports"]
           state == IF mem.composition.passed THEN "completed" ELSE "partial"
           new == ReportedRun
<1>1. /\ Point("reporting", composition, reports) /\ state \in RunStates
      /\ new = [Checkpoint(run, "reporting", composition, reports) EXCEPT !.state = state]
  BY DEF ReportedRun, Point, Stages, RunStates
<1> HIDE DEF composition, reports, state, new
<1>2. /\ new \in Runs /\ new # None
      /\ \A s \in Stages : new.stages[s] =
           IF s = "reporting" THEN [source |-> composition, output |-> reports]
           ELSE run.stages[s]
      /\ new.stages["reporting"] # None
  BY ONLY <1>1, RunChecked
<1>3. QED
  BY <1>2 DEF new, composition, reports

LEMMA ReportedSafe == ASSUME Inv, Safe, Reported PROVE Safe'
<1> DEFINE memory == [mem EXCEPT !.run = ReportedRun]
           writes == [metrics |-> mem.metrics, run |-> ReportedRun]
           after == Mix(disk, writes, DOMAIN writes)
<1>1. Step("rendered", "finished", memory, writes)
  BY DEF Reported
<1>2. /\ pc = "rendered" /\ pending = << >> /\ Sound(disk, session)
      /\ Placed("rendered", kind, mem, disk, session)
      /\ session \in Nat /\ mem.metrics \in Nat
  BY <1>1, Before DEF Step
<1>3. /\ disk["run"] # None /\ disk["run"] \in Runs /\ ~Has(disk, "composing")
      /\ mem.run = Checkpoint(disk["run"], "composing", mem.inventory, mem.composition)
      /\ mem.inventory = disk["inventory"] /\ mem.inventory \in Inventories
      /\ mem.inventory.snapshot = disk["snapshot"] /\ disk["inventory"] # None
      /\ mem.composition = disk["composition"] /\ mem.composition = disk["wiki"]
      /\ mem.composition \in Compositions /\ mem.composition # None
      /\ mem.composition.inventory = disk["inventory"] /\ mem.composition.by = session
      /\ disk["reports"] = [by |-> session, composition |-> mem.composition]
      /\ disk["discovery"] # None /\ Satisfied(disk)
      /\ Current(disk, disk["inventory"].decision)
  BY <1>2, ContentAssumption DEF Placed, RunHeld, Fresh, Grounded, DecisionHeld,
     CompositionHeld, Composing, Finalizing, Sound, Typed, Maybe
<1>4. disk["reports"] \in Reports
  BY <1>2, <1>3 DEF Reports
<1>5. /\ mem.run \in Runs
      /\ \A s \in Stages : mem.run.stages[s] =
           IF s = "composing" THEN [source |-> mem.inventory, output |-> mem.composition]
           ELSE disk["run"].stages[s]
      /\ mem.run.stages["composing"] # None
  <2> DEFINE run == disk["run"]
             inventory == mem.inventory
             composition == mem.composition
             new == mem.run
  <2>1. /\ run \in Runs /\ Point("composing", inventory, composition)
        /\ new = Checkpoint(run, "composing", inventory, composition)
    BY <1>3 DEF Point, Stages
  <2> HIDE DEF run, inventory, composition, new
  <2>2. /\ new \in Runs
        /\ \A s \in Stages : new.stages[s] =
             IF s = "composing" THEN [source |-> inventory, output |-> composition]
             ELSE run.stages[s]
        /\ new.stages["composing"] # None
    BY ONLY <2>1, RunPointed
  <2>3. QED
    BY <2>2 DEF new, run, inventory, composition
<1>6. /\ ReportedRun \in Runs /\ ReportedRun # None
      /\ \A s \in Stages : ReportedRun.stages[s] =
           IF s = "reporting" THEN [source |-> mem.composition, output |-> disk["reports"]]
           ELSE mem.run.stages[s]
      /\ ReportedRun.stages["reporting"] # None
  BY <1>3, <1>4, <1>5, RunReported
<1> DEFINE run == ReportedRun
<1>7. DOMAIN writes = {"metrics", "run"} /\ writes["run"] = run /\ writes["metrics"] \in Nat
  BY <1>2
<1>8. /\ run \in Runs /\ run # None
      /\ run.stages["composing"] = [source |-> mem.inventory, output |-> mem.composition]
      /\ run.stages["reporting"] = [source |-> mem.composition, output |-> disk["reports"]]
      /\ run.stages["composing"] # None /\ run.stages["reporting"] # None
      /\ \A s \in Stages \ {"composing", "reporting"} : run.stages[s] = disk["run"].stages[s]
  BY <1>5, <1>6 DEF Stages
<1>9. /\ run.stages["composing"].source = disk["inventory"]
       /\ run.stages["composing"].output = disk["composition"]
       /\ run.stages["reporting"].source = disk["composition"]
       /\ run.stages["reporting"].output = disk["reports"]
       /\ disk["reports"].composition = disk["composition"]
       /\ disk["wiki"] = disk["composition"] /\ disk["composition"] # None
       /\ disk["composition"].inventory = disk["inventory"]
       /\ disk["inventory"].snapshot = disk["snapshot"] /\ disk["inventory"] # None
  BY <1>3, <1>8
<1> HIDE DEF memory, writes, run
<1>10. ASSUME NEW d \in Mixes(disk, writes) PROVE Sound(d, session)
  <2>1. \A f \in Files : d[f] = disk[f] \/ (f \in DOMAIN writes /\ d[f] = writes[f])
    BY MixFiles
  <2>2. /\ \A f \in Telling \ {"run"} : d[f] = disk[f]
        /\ d["run"] \in {disk["run"], run}
    BY <1>7, <2>1 DEF Telling, Files
  <2>3. CASE d["run"] = disk["run"]
    BY <1>2, <2>2, <2>3, SameSound
  <2>4. CASE d["run"] = run
    <3>1. /\ d["snapshot"] = disk["snapshot"] /\ d["discovery"] = disk["discovery"]
          /\ d["reconciliation"] = disk["reconciliation"]
          /\ d["reconInput"] = disk["reconInput"] /\ d["inventory"] = disk["inventory"]
          /\ d["composition"] = disk["composition"] /\ d["wiki"] = disk["wiki"]
      BY <2>2 DEF Telling
    <3>2. \A s \in Stages \ {"composing", "reporting"} :
            Of(d, s) = Of(disk, s) /\ (Has(d, s) <=> Has(disk, s))
      BY <1>3, <1>8, <2>4 DEF Of, Has
    <3>3. Typed(d, session)
      BY <1>2, <1>8, <2>4, <3>1 DEF Sound, Typed, Authored, Maybe
    <3>4. Resumable(d) /\ Asked(d)
      BY <1>2, <3>1, <3>2 DEF Sound, Resumable, Asked, Stages
    <3>5. Paired(d)
      BY <1>2, <1>3, <1>8, <2>4, <3>1, <3>2 DEF Sound, Paired, Stages, Of
    <3>6. Coherent(d)
      BY <1>9, <2>4, <3>1 DEF Coherent, Of
    <3>7. Satisfied(d) /\ Current(d, d["inventory"].decision)
      <4>1. /\ Has(d, "probing") <=> Has(disk, "probing")
            /\ Has(d, "reconciling") <=> Has(disk, "reconciling")
            /\ Of(d, "reconciling") = Of(disk, "reconciling")
        BY <3>2 DEF Stages
      <4>2. Amended(d) <=> Amended(disk)
        BY <3>1, <4>1 DEF Amended, Reusable
      <4>3. QED
        BY <1>3, <3>1, <4>1, <4>2 DEF Satisfied, Current
    <3>8. QED
      BY <3>3, <3>4, <3>5, <3>6, <3>7 DEF Sound, Decisive
  <2>5. QED
    BY <2>2, <2>3, <2>4
<1>11. \A f \in Files : after[f] = IF f \in DOMAIN writes THEN writes[f] ELSE disk[f]
  BY MixAll
<1> HIDE DEF after
<1>12. CompleteIn(after)
  <2>1. /\ after["run"] = run /\ after["metrics"] # None
        /\ \A f \in Files \ {"run", "metrics"} : after[f] = disk[f]
    BY <1>7, <1>11, RunAssumption DEF Files
  <2>2. /\ disk["evidence"] = disk["snapshot"] /\ disk["snapshot"] # None
        /\ disk["graph"] # None
    BY <1>2 DEF Placed, Grounded, Finalizing, Composing
  <2>3. QED
    BY <1>8, <1>9, <2>1, <2>2 DEF CompleteIn, Has, Of, Files
<1>13. Placed("finished", kind, memory, after, session)
  BY <1>8, <1>7, <1>11, <1>12 DEF Placed, RunHeld, Fresh, Grounded, Earlier,
     DecisionHeld, Investigated, CompositionHeld, Commanded, Has, Of, Files, Authored,
     Collecting, Deciding, Judging, Rejudging, Composing, Finalizing, Repeating
<1>14. QED
  BY <1>1, <1>7, <1>10, <1>13, StepSafe DEF Files, after

LEMMA ResumeReportedSafe == ASSUME Inv, Safe, ResumeReported PROVE Safe'
<1> DEFINE memory == [mem EXCEPT !.run = ReportedRun]
           writes == [metrics |-> mem.metrics, run |-> ReportedRun]
           after == Mix(disk, writes, DOMAIN writes)
<1>1. Step("rerendered", "finished", memory, writes)
  BY DEF ResumeReported
<1>2. /\ pc = "rerendered" /\ pending = << >> /\ Sound(disk, session)
      /\ Placed("rerendered", kind, mem, disk, session)
      /\ session \in Nat /\ mem.metrics \in Nat
  BY <1>1, Before DEF Step
<1>3. /\ disk["run"] # None /\ disk["run"] \in Runs /\ mem.run = disk["run"]
      /\ Has(disk, "composing") /\ Coherent(disk) /\ Decisive(disk)
      /\ mem.composition = disk["composition"] /\ mem.composition \in Compositions
      /\ disk["reports"] = [by |-> session, composition |-> mem.composition]
  BY <1>2 DEF Placed, RunHeld, CompositionHeld, Repeating, Sound, Typed, Maybe
<1>4. disk["reports"] \in Reports
  BY <1>2, <1>3 DEF Reports
<1>5. /\ ReportedRun \in Runs /\ ReportedRun # None
      /\ \A s \in Stages : ReportedRun.stages[s] =
           IF s = "reporting" THEN [source |-> mem.composition, output |-> disk["reports"]]
           ELSE disk["run"].stages[s]
      /\ ReportedRun.stages["reporting"] # None
  BY <1>3, <1>4, RunReported
<1> DEFINE run == ReportedRun
<1>6. DOMAIN writes = {"metrics", "run"} /\ writes["run"] = run /\ writes["metrics"] \in Nat
  BY <1>2
<1>7. /\ run \in Runs /\ run # None
      /\ run.stages["reporting"] = [source |-> mem.composition, output |-> disk["reports"]]
      /\ run.stages["reporting"] # None
      /\ \A s \in Stages \ {"reporting"} : run.stages[s] = disk["run"].stages[s]
  BY <1>5 DEF Stages
<1> HIDE DEF memory, writes, run
<1>8. ASSUME NEW d \in Mixes(disk, writes) PROVE Sound(d, session)
  <2>1. \A f \in Files : d[f] = disk[f] \/ (f \in DOMAIN writes /\ d[f] = writes[f])
    BY MixFiles
  <2>2. /\ \A f \in Telling \ {"run"} : d[f] = disk[f]
        /\ d["run"] \in {disk["run"], run}
    BY <1>6, <2>1 DEF Telling, Files
  <2>3. CASE d["run"] = disk["run"]
    BY <1>2, <2>2, <2>3, SameSound
  <2>4. CASE d["run"] = run
    <3>1. /\ d["snapshot"] = disk["snapshot"] /\ d["discovery"] = disk["discovery"]
          /\ d["reconciliation"] = disk["reconciliation"]
          /\ d["reconInput"] = disk["reconInput"] /\ d["inventory"] = disk["inventory"]
          /\ d["composition"] = disk["composition"] /\ d["wiki"] = disk["wiki"]
      BY <2>2 DEF Telling
    <3>2. \A s \in Stages \ {"reporting"} :
            Of(d, s) = Of(disk, s) /\ (Has(d, s) <=> Has(disk, s))
      BY <1>3, <1>7, <2>4 DEF Of, Has
    <3>3. Typed(d, session)
      BY <1>2, <1>7, <2>4, <3>1 DEF Sound, Typed, Authored, Maybe
    <3>4. Resumable(d) /\ Asked(d)
      BY <1>2, <3>1, <3>2 DEF Sound, Resumable, Asked, Stages
    <3>5. Paired(d)
      BY <1>2, <1>3, <1>7, <2>4, <3>1, <3>2 DEF Sound, Paired, Stages, Of
    <3>6. Coherent(d)
      BY <1>3, <3>1, <3>2 DEF Coherent, Stages
    <3>7. Decisive(d)
      <4>1. /\ Has(d, "probing") <=> Has(disk, "probing")
            /\ Has(d, "reconciling") <=> Has(disk, "reconciling")
            /\ Of(d, "reconciling") = Of(disk, "reconciling")
        BY <3>2 DEF Stages
      <4>2. (Amended(d) <=> Amended(disk)) /\ (Satisfied(d) <=> Satisfied(disk))
        BY <3>1, <4>1 DEF Amended, Reusable, Satisfied
      <4>3. QED
        BY <1>3, <3>1, <4>1, <4>2 DEF Decisive, Current
    <3>8. QED
      BY <3>3, <3>4, <3>5, <3>6, <3>7 DEF Sound
  <2>5. QED
    BY <2>2, <2>3, <2>4
<1>9. \A f \in Files : after[f] = IF f \in DOMAIN writes THEN writes[f] ELSE disk[f]
  BY MixAll
<1> HIDE DEF after
<1>10. CompleteIn(after)
  <2>1. /\ after["run"] = run /\ after["metrics"] # None
        /\ \A f \in Files \ {"run", "metrics"} : after[f] = disk[f]
    BY <1>6, <1>9, RunAssumption DEF Files
  <2>2. /\ disk["evidence"] = disk["snapshot"] /\ disk["snapshot"] # None
        /\ disk["graph"] # None
    BY <1>2 DEF Placed, Grounded, Repeating
  <2>3. QED
    BY <1>3, <1>7, <2>1, <2>2 DEF CompleteIn, Coherent, Has, Of, Files, Stages
<1>11. Placed("finished", kind, memory, after, session)
  BY <1>6, <1>7, <1>9, <1>10 DEF Placed, RunHeld, Fresh, Grounded, Earlier,
     DecisionHeld, Investigated, CompositionHeld, Commanded, Has, Of, Files, Authored,
     Collecting, Deciding, Judging, Rejudging, Composing, Finalizing, Repeating
<1>12. QED
  BY <1>1, <1>6, <1>8, <1>11, StepSafe DEF Files, after

-----------------------------------------------------------------------------
(* Calls and writes. *)

LEMMA AskSafe == ASSUME Inv, Safe, Ask PROVE Safe'
<1>1. /\ pc \in Asking /\ mem' = [mem EXCEPT !.asked = @ + 1]
      /\ UNCHANGED <<disk, pending, pc, kind, session, answer>>
  BY DEF Ask, Asking
<1>2. DOMAIN mem = MemFields
  BY DEF Inv, TypeInv
<1>3. /\ mem'.run = mem.run /\ mem'.snapshot = mem.snapshot /\ mem'.discovery = mem.discovery
      /\ mem'.decision = mem.decision /\ mem'.inventory = mem.inventory
      /\ mem'.composition = mem.composition /\ mem'.input = mem.input
      /\ mem'.plan = mem.plan /\ mem'.batch = mem.batch
  BY <1>1, <1>2 DEF MemFields
<1>4. Partials' = Partials /\ Now' = Now
  BY <1>1 DEF Partials, Mixes, Mix, Now
<1>5. Placed(pc, kind, mem, Now, session)
  BY DEF Safe
<1>6. Placed(pc, kind, mem', Now, session)
  BY <1>3, <1>5 DEF Placed, RunHeld, Fresh, Grounded, Earlier, DecisionHeld,
     Investigated, CompositionHeld, Commanded, Has, Of, Files, Authored, Collecting,
     Deciding, Judging, Rejudging, Composing, Finalizing, Repeating
<1>7. AnswerInv' /\ WritingInv'
  BY <1>1 DEF Safe, AnswerInv, WritingInv, CompleteIn, Has, Of, RefusedOnlyEarly,
     DiscoveryTorn, Stage
<1>8. QED
  BY <1>1, <1>4, <1>6, <1>7 DEF Safe

LEMMA WriteSafe == ASSUME Inv, Safe, NEW f \in Files, Write(f) PROVE Safe'
<1>1. /\ f \in DOMAIN pending
      /\ disk' = [disk EXCEPT ![f] = pending[f]]
      /\ pending' = [g \in DOMAIN pending \ {f} |-> pending[g]]
      /\ UNCHANGED <<pc, kind, session, mem, answer>>
  BY DEF Write
<1>2. /\ disk = [g \in Files |-> disk[g]] /\ DOMAIN pending \subseteq Files
      /\ DOMAIN disk = Files
  BY DEF Safe, WritingInv, Inv, TypeInv
<1>3. /\ DOMAIN pending' = DOMAIN pending \ {f}
      /\ \A g \in Files : disk'[g] = IF g = f THEN pending[f] ELSE disk[g]
      /\ disk' = [g \in Files |-> disk'[g]]
  BY <1>1, <1>2
<1>4. ASSUME NEW done \in SUBSET DOMAIN pending'
      PROVE  /\ done \cup {f} \in SUBSET DOMAIN pending
             /\ Mix(disk', pending', done) = Mix(disk, pending, done \cup {f})
  BY <1>1, <1>3 DEF Mix
<1>5. \A d \in Partials' : d \in Partials
  BY <1>4 DEF Partials, Mixes
<1>6. Now' = Now
  <2>1. DOMAIN pending = DOMAIN pending' \cup {f}
    BY <1>1, <1>3
  <2>2. QED
    BY <1>4, <2>1 DEF Now
<1>7. pc # "idle"
  BY <1>1, NothingPending DEF Inv, PlaceInv
<1>8. AnswerInv'
  BY <1>1, <1>7 DEF Safe, AnswerInv, Inv, PlaceInv
<1>9. WritingInv'
  <2>1. ASSUME "composition" \in DOMAIN pending'
        PROVE  /\ disk'["run"] # None /\ Stage("composing")' = None
               /\ "run" \notin DOMAIN pending'
    <3>1. /\ disk["run"] # None /\ Stage("composing") = None /\ "run" \notin DOMAIN pending
      BY <1>3, <2>1 DEF Safe, WritingInv
    <3>2. disk'["run"] = disk["run"]
      BY <1>1, <1>3, <3>1 DEF Files
    <3>3. QED
      BY <1>3, <3>1, <3>2 DEF Stage
  <2>2. QED
    BY <1>2, <1>3, <2>1 DEF WritingInv
<1>10. QED
  BY <1>1, <1>5, <1>6, <1>8, <1>9 DEF Safe

-----------------------------------------------------------------------------
(* Sessions. *)

\* Nothing is under way.
LEMMA StillSafe ==
  ASSUME Inv, pending' = << >>, disk' = [f \in Files |-> disk'[f]],
         Sound(disk', session'), Placed(pc', kind', mem', disk', session'), AnswerInv'
  PROVE  Safe'
<1>1. DOMAIN pending' = {}
  BY NothingPending
<1>2. \A done \in SUBSET DOMAIN pending' : Mix(disk', pending', done) = disk'
  BY <1>1 DEF Mix
<1>3. Now' = disk' /\ \A d \in Partials' : d = disk'
  BY <1>1, <1>2 DEF Now, Partials, Mixes
<1>4. WritingInv'
  BY <1>1 DEF WritingInv
<1>5. QED
  BY <1>3, <1>4 DEF Safe

LEMMA LaterSound ==
  ASSUME NEW d, NEW n \in Nat, Sound(d, n)
  PROVE  Sound(d, n + 1) /\ \A f \in Authored : d[f] # None => d[f].by < n + 1
<1>1. \A f \in Authored : d[f] # None => d[f].by \in Nat /\ d[f].by <= n
  BY DEF Sound, Typed, Authored, Maybe, Artifacts, Inputs, Compositions
<1>2. \A f \in Authored : d[f] # None => d[f].by <= n + 1 /\ d[f].by < n + 1
  BY <1>1
<1>3. Typed(d, n + 1)
  BY <1>2 DEF Sound, Typed
<1>4. QED
  BY <1>2, <1>3 DEF Sound

LEMMA BeginSafe == ASSUME Inv, Safe, Begin PROVE Safe'
<1> DEFINE run == [Blank.run EXCEPT !.state = "running"]
           writes == [metrics |-> 0, run |-> run]
           after == Mix(disk, writes, DOMAIN writes)
<1>1. /\ session = 0 /\ session' = 1 /\ pc' = "scan" /\ kind' \in Commands
      /\ mem'.run = run /\ pending' = writes /\ UNCHANGED <<disk, answer>>
  BY DEF Begin, Blank
<1>2. disk = [f \in Files |-> None] /\ answer = "none"
  BY <1>1 DEF Safe, AnswerInv
<1>3. /\ run \in Runs /\ run # None /\ \A s \in Stages : run.stages[s] = None
  <2>1. Blank.run \in Runs
    BY DEF Blank, NoCheckpoints, Runs, Maybe, Stages, RunStates
  <2>2. \A s \in Stages : Blank.run.stages[s] = None
    BY DEF Blank, NoCheckpoints
  <2>3. QED
    BY <2>1, <2>2, RunStated DEF RunStates
<1>4. DOMAIN writes = {"metrics", "run"} /\ writes["run"] = run
  OBVIOUS
<1> HIDE DEF writes, run
<1>5. ASSUME NEW d \in Mixes(disk, writes) PROVE Sound(d, 1)
  <2>1. /\ \A f \in Files \ {"metrics", "run"} : d[f] = None
        /\ d["run"] \in {None, run}
    BY <1>2, <1>4, MixFiles DEF Files
  <2>2. \A s \in Stages : ~Has(d, s)
    BY <1>3, <2>1 DEF Has, Of
  <2>3. Typed(d, 1)
    BY <1>3, <2>1 DEF Typed, Files, Authored, Maybe
  <2>4. QED
    BY <2>1, <2>2, <2>3 DEF Sound, Resumable, Paired, Asked, Stages, Files
<1>6. \A f \in Files : after[f] = IF f \in DOMAIN writes THEN writes[f] ELSE disk[f]
  BY MixAll
<1> HIDE DEF after
<1>7. Placed("scan", kind', mem', after, 1)
  BY <1>1, <1>2, <1>3, <1>4, <1>6, RunAssumption DEF Placed, RunHeld, Fresh, Grounded,
     Earlier, DecisionHeld, Investigated, CompositionHeld, Commanded, Has, Of, Files,
     Authored, Collecting, Deciding, Judging, Rejudging, Composing, Finalizing,
     Repeating, Stages
<1>8. Partials' = Mixes(disk, writes) /\ Now' = after
  BY <1>1 DEF Partials, Now, Mixes, Mix, after
<1>9. AnswerInv' /\ WritingInv'
  BY <1>1, <1>2, <1>4 DEF Safe, AnswerInv, WritingInv, Files
<1>10. QED
  BY <1>1, <1>5, <1>7, <1>8, <1>9 DEF Safe

\* What a session finds that starts on a run.
LEMMA Opened ==
  ASSUME Inv, Safe, NEW command, Open(command)
  PROVE  /\ pc = "idle" /\ pending = << >> /\ pending' = << >> /\ disk' = disk
         /\ disk' = [f \in Files |-> disk'[f]]
         /\ session' = session + 1 /\ session' # 0 /\ kind' = command
         /\ disk["run"] # None /\ disk["run"] \in Runs
         /\ Sound(disk, session) /\ Sound(disk, session')
         /\ \A f \in Authored : disk[f] # None => disk[f].by < session'
<1>1. /\ pc = "idle" /\ session' = session + 1 /\ kind' = command /\ disk["run"] # None
      /\ UNCHANGED <<disk, pending>>
  BY DEF Open
<1>2. pending = << >> /\ session \in Nat
  BY <1>1 DEF Inv, PlaceInv, TypeInv
<1>3. Sound(disk, session)
  BY <1>2, Before
<1>4. /\ Sound(disk, session + 1)
      /\ \A f \in Authored : disk[f] # None => disk[f].by < session + 1
  BY <1>2, <1>3, LaterSound
<1>5. disk["run"] \in Runs
  BY <1>1, <1>3 DEF Sound, Typed, Maybe
<1>6. disk = [f \in Files |-> disk[f]]
  BY DEF Safe, WritingInv
<1>7. QED
  BY <1>1, <1>2, <1>3, <1>4, <1>5, <1>6

\* A composition with a checkpoint is the one resume finds.
LEMMA ComposingIsValid ==
  ASSUME NEW n, Sound(disk, n), disk["run"] # None
  PROVE  ValidComposition <=> Has(disk, "composing")
<1>1. ASSUME Has(disk, "composing") PROVE ValidComposition
  <2>1. Coherent(disk)
    BY <1>1 DEF Sound
  <2>2. QED
    BY <1>1, <2>1 DEF ValidComposition, Coherent, Has, Of, Stage, Present
<1>2. QED
  BY <1>1 DEF ValidComposition, Has, Of, Stage

LEMMA RefusedSafe == ASSUME Inv, Safe, ResumeRefused \/ ResumeComplete PROVE Safe'
<1>1. Open("none") /\ UNCHANGED <<pc, mem>>
  BY DEF ResumeRefused, ResumeComplete
<1>2. /\ pc = "idle" /\ pending' = << >> /\ disk' = disk
      /\ disk' = [f \in Files |-> disk'[f]] /\ session' # 0
      /\ disk["run"] # None /\ Sound(disk, session) /\ Sound(disk', session')
  BY <1>1, Opened
<1>3. Placed(pc', kind', mem', disk', session')
  BY <1>1, <1>2 DEF Placed, RunHeld, Fresh, Grounded, Earlier, DecisionHeld,
     Investigated, CompositionHeld, Commanded, Has, Of, Files, Authored, Collecting,
     Deciding, Judging, Rejudging, Composing, Finalizing, Repeating
<1>4. ASSUME answer' = "refused" PROVE RefusedOnlyEarly'
  <2>1. /\ Consistent /\ ~ValidComposition /\ ~ValidDiscovery /\ ~ValidInventory
    BY <1>4 DEF ResumeRefused, ResumeComplete
  <2>2. CASE Stage("inventory_ready") = None
    BY <1>2, <2>2 DEF RefusedOnlyEarly, Stage
  <2>3. CASE Stage("inventory_ready") # None
    <3>1. Stage("inventory_ready").output # disk["inventory"]
      BY <2>1, <2>3 DEF ValidInventory
    <3>2. Stage("discovering") # None /\ disk["discovery"] # None
      BY <1>2, <2>3, <3>1 DEF Sound, Resumable, Has, Of, Stage
    <3>3. DiscoveryTorn
      BY <2>1, <3>2 DEF ValidDiscovery, DiscoveryTorn
    <3>4. QED
      BY <1>2, <3>3 DEF RefusedOnlyEarly, DiscoveryTorn, Stage
  <2>4. QED
    BY <2>2, <2>3
<1>5. answer' \in {"inconsistent", "refused", "already_complete"}
  BY DEF ResumeRefused, ResumeComplete
<1>6. AnswerInv'
  BY <1>1, <1>2, <1>4, <1>5 DEF AnswerInv
<1>7. QED
  BY <1>2, <1>3, <1>6, StillSafe

LEMMA ResumeSafe == ASSUME Inv, Safe, Resume PROVE Safe'
<1>1. Open("resume") /\ Consistent /\ answer' = "working"
  BY DEF Resume
<1>2. /\ pc = "idle" /\ pending' = << >> /\ disk' = disk
      /\ disk' = [f \in Files |-> disk'[f]] /\ session' # 0 /\ kind' = "resume"
      /\ disk["run"] # None /\ Sound(disk, session) /\ Sound(disk', session')
      /\ \A f \in Authored : disk[f] # None => disk[f].by < session'
  BY <1>1, Opened
<1>3. /\ disk["evidence"] = disk["snapshot"] /\ disk["snapshot"] # None
      /\ disk["graph"] # None /\ disk["inventory"] # None
  BY <1>1 DEF Consistent, Present
<1>4. ValidComposition <=> Has(disk, "composing")
  BY <1>2, ComposingIsValid
<1>5. AnswerInv'
  BY <1>1, <1>2 DEF AnswerInv
<1>6. Loaded.run = disk["run"] /\ Loaded.snapshot = disk["snapshot"]
  BY DEF Loaded, Blank
<1>7. CASE /\ ValidComposition /\ pc' = "rerender"
           /\ mem' = [Loaded EXCEPT !.composition = disk["composition"]]
  <2>1. /\ mem'.run = disk["run"] /\ mem'.snapshot = disk["snapshot"]
        /\ mem'.composition = disk["composition"]
    BY <1>7 DEF Loaded, Blank
  <2>2. Has(disk, "composing") /\ Coherent(disk)
    BY <1>2, <1>4, <1>7 DEF Sound
  <2>3. /\ mem'.composition = disk["wiki"] /\ mem'.composition \in Compositions
        /\ mem'.composition.inventory = disk["inventory"]
    BY <1>2, <2>1, <2>2 DEF Coherent, Sound, Typed, Maybe
  <2>4. Placed("rerender", "resume", mem', disk, session')
    BY <1>2, <1>3, <2>1, <2>2, <2>3 DEF Placed, RunHeld, Fresh, Grounded, Earlier,
       DecisionHeld, Investigated, CompositionHeld, Commanded, Has, Of, Files, Authored,
       Collecting, Deciding, Judging, Rejudging, Composing, Finalizing, Repeating
  <2>5. QED
    BY <1>2, <1>5, <1>7, <2>4, StillSafe
<1>8. CASE /\ ~ValidComposition /\ ValidDiscovery /\ pc' = "review"
           /\ mem' = [Loaded EXCEPT !.discovery = disk["discovery"],
                                    !.decision = disk["discovery"]]
  <2>1. /\ mem'.run = disk["run"] /\ mem'.snapshot = disk["snapshot"]
        /\ mem'.discovery = disk["discovery"] /\ mem'.decision = disk["discovery"]
    BY <1>8 DEF Loaded, Blank
  <2>2. /\ ~Has(disk, "composing") /\ Has(disk, "discovering") /\ disk["discovery"] # None
        /\ disk["discovery"] \in Artifacts
    BY <1>2, <1>4, <1>8 DEF ValidDiscovery, Has, Of, Stage, Sound, Typed, Maybe
  <2>3. Placed("review", "resume", mem', disk, session')
    BY <1>2, <1>3, <2>1, <2>2 DEF Placed, RunHeld, Fresh, Grounded, Earlier,
       DecisionHeld, Investigated, CompositionHeld, Commanded, Has, Of, Files, Authored,
       Collecting, Deciding, Judging, Rejudging, Composing, Finalizing, Repeating
  <2>4. QED
    BY <1>2, <1>5, <1>8, <2>3, StillSafe
<1>9. CASE ~ValidComposition /\ pc' = "discover" /\ mem' = Loaded
  <2>1. mem'.run = disk["run"] /\ mem'.snapshot = disk["snapshot"]
    BY <1>6, <1>9
  <2>2. ~Has(disk, "composing")
    BY <1>4, <1>9
  <2>3. Placed("discover", "resume", mem', disk, session')
    BY <1>2, <1>3, <2>1, <2>2 DEF Placed, RunHeld, Fresh, Grounded, Earlier,
       DecisionHeld, Investigated, CompositionHeld, Commanded, Has, Of, Files, Authored,
       Collecting, Deciding, Judging, Rejudging, Composing, Finalizing, Repeating
  <2>4. QED
    BY <1>2, <1>5, <1>9, <2>3, StillSafe
<1>10. QED
  BY <1>7, <1>8, <1>9 DEF Resume

LEMMA StartDiscoverSafe == ASSUME Inv, Safe, StartDiscover PROVE Safe'
<1>1. Open("discover") /\ pc' = "discover" /\ answer' = "working"
  BY DEF StartDiscover
<1>2. /\ pending' = << >> /\ disk' = disk
      /\ disk' = [f \in Files |-> disk'[f]] /\ session' # 0 /\ kind' = "discover"
      /\ disk["run"] # None /\ Sound(disk', session')
      /\ \A f \in Authored : disk[f] # None => disk[f].by < session'
  BY <1>1, Opened
<1>3. Placed("discover", "discover", mem', disk, session')
  BY <1>2 DEF Placed, RunHeld, Fresh, Grounded, Earlier, DecisionHeld, Investigated,
     CompositionHeld, Commanded, Has, Of, Files, Authored, Collecting, Deciding,
     Judging, Rejudging, Composing, Finalizing, Repeating
<1>4. AnswerInv'
  BY <1>1, <1>2 DEF AnswerInv
<1>5. QED
  BY <1>1, <1>2, <1>3, <1>4, StillSafe

LEMMA EndSafe == ASSUME Inv, Safe, End PROVE Safe'
<1>1. /\ pc \in {"finished", "needs_ssh", "stopped"} /\ pending = << >> /\ pending' = << >>
      /\ answer' = pc /\ pc' = "idle" /\ UNCHANGED <<disk, session>>
  BY DEF End
<1>2. Sound(disk, session) /\ Placed(pc, kind, mem, disk, session)
  BY <1>1, Before
<1>3. disk' = [f \in Files |-> disk'[f]]
  BY <1>1 DEF Safe, WritingInv
<1>4. Placed(pc', kind', mem', disk', session')
  BY <1>1 DEF Placed, RunHeld, Fresh, Grounded, Earlier, DecisionHeld, Investigated,
     CompositionHeld, Commanded, Has, Of, Files, Authored, Collecting, Deciding,
     Judging, Rejudging, Composing, Finalizing, Repeating
<1>5. session # 0
  BY <1>1 DEF Inv, PlaceInv
<1>6. pc = "finished" => CompleteIn(disk')
  BY <1>1, <1>2 DEF Placed
<1>7. AnswerInv'
  BY <1>1, <1>5, <1>6 DEF AnswerInv
<1>8. QED
  BY <1>1, <1>2, <1>3, <1>4, <1>7, StillSafe

\* The files that are left say what they said: a torn file is not one of them.
LEMMA CrashSafe == ASSUME Inv, Safe, Crash PROVE Safe'
<1>1. PICK torn \in SUBSET (Appended \cap DOMAIN pending) :
        disk' = [f \in Files |-> IF f \in torn THEN Torn ELSE disk[f]]
  BY DEF Crash
<1>2. /\ pc # "idle" /\ pending' = << >> /\ pc' = "idle" /\ answer' = "crashed"
      /\ session' = session
  BY DEF Crash
<1>3. disk = [f \in Files |-> disk[f]]
  BY DEF Safe, WritingInv
<1>4. disk = Mix(disk, pending, {})
  BY <1>3 DEF Mix
<1>5. Sound(disk, session)
  BY <1>4 DEF Safe, Partials, Mixes
<1>6. \A f \in Telling : disk'[f] = disk[f]
  BY <1>1 DEF Telling, Appended, Files
<1>7. Sound(disk', session')
  BY <1>2, <1>5, <1>6, SameSound
<1>8. disk' = [f \in Files |-> disk'[f]]
  BY <1>1
<1>9. Placed(pc', kind', mem', disk', session')
  BY <1>2 DEF Placed, RunHeld, Fresh, Grounded, Earlier, DecisionHeld, Investigated,
     CompositionHeld, Commanded, Has, Of, Files, Authored, Collecting, Deciding,
     Judging, Rejudging, Composing, Finalizing, Repeating
<1>10. session # 0
  BY <1>2 DEF Inv, PlaceInv
<1>11. AnswerInv'
  BY <1>2, <1>10 DEF AnswerInv
<1>12. QED
  BY <1>2, <1>7, <1>8, <1>9, <1>11, StillSafe

LEMMA TamperSafe == ASSUME Inv, Safe, Tamper PROVE Safe'
<1>1. /\ pc = "idle" /\ disk["reports"] # None /\ disk' = [disk EXCEPT !["reports"] = Torn]
      /\ UNCHANGED <<pending, pc, kind, session, mem, answer>>
  BY DEF Tamper
<1>2. pending = << >>
  BY <1>1 DEF Inv, PlaceInv
<1>3. Sound(disk, session) /\ Placed(pc, kind, mem, disk, session)
  BY <1>2, Before
<1>4. disk = [f \in Files |-> disk[f]] /\ DOMAIN disk = Files
  BY DEF Safe, WritingInv, Inv, TypeInv
<1>5. /\ disk' = [f \in Files |-> disk'[f]] /\ disk'["reports"] = Torn
      /\ \A f \in Files \ {"reports"} : disk'[f] = disk[f]
  BY <1>1, <1>4 DEF Files
<1>6. \A f \in Telling : disk'[f] = disk[f]
  BY <1>5 DEF Telling, Files
<1>7. Sound(disk', session')
  <2>1. session' = session
    BY <1>1
  <2>2. QED
    BY <1>3, <1>6, <2>1, SameSound
<1>8. Placed(pc', kind', mem', disk', session')
  BY <1>1 DEF Placed, RunHeld, Fresh, Grounded, Earlier, DecisionHeld, Investigated,
     CompositionHeld, Commanded, Has, Of, Files, Authored, Collecting, Deciding,
     Judging, Rejudging, Composing, Finalizing, Repeating
<1>9. session # 0
  BY <1>1, <1>4 DEF Safe, AnswerInv, Files
<1>10. AnswerInv'
  <2>1. disk'["run"] = disk["run"] /\ disk'["discovery"] = disk["discovery"]
    BY <1>6 DEF Telling
  <2>2. RefusedOnlyEarly' <=> RefusedOnlyEarly
    BY <1>1, <2>1 DEF RefusedOnlyEarly, DiscoveryTorn, Stage
  <2>3. QED
    BY <1>1, <1>5, <1>9, <2>1, <2>2 DEF Safe, AnswerInv
<1>11. QED
  BY <1>1, <1>2, <1>5, <1>7, <1>8, <1>10, StillSafe

LEMMA UnchangedSafe == ASSUME Safe, UNCHANGED vars PROVE Safe'
<1>1. UNCHANGED <<disk, pending, pc, kind, session, mem, answer>>
  BY DEF vars
<1>2. Partials' = Partials /\ Now' = Now
  BY <1>1 DEF Partials, Mixes, Mix, Now
<1>3. AnswerInv' /\ WritingInv'
  BY <1>1 DEF Safe, AnswerInv, WritingInv, CompleteIn, Has, Of, RefusedOnlyEarly,
     DiscoveryTorn, Stage
<1>4. QED
  BY <1>1, <1>2, <1>3 DEF Safe

-----------------------------------------------------------------------------
(* The run. *)

LEMMA InitSafe == Init => Safe
<1> SUFFICES ASSUME Init PROVE Safe
  OBVIOUS
<1>1. /\ disk = [f \in Files |-> None] /\ pending = << >> /\ pc = "idle" /\ session = 0
      /\ answer = "none" /\ DOMAIN pending = {}
  BY NothingPending DEF Init
<1>2. \A f \in Files : disk[f] = None
  BY <1>1
<1>3. Now = disk /\ \A d \in Partials : d = disk
  BY <1>1 DEF Now, Partials, Mixes, Mix
<1>4. Sound(disk, session)
  <2>1. \A s \in Stages : ~Has(disk, s)
    BY <1>2 DEF Has, Files
  <2>2. Typed(disk, session)
    BY <1>2 DEF Typed, Files, Authored, Maybe
  <2>3. QED
    BY <1>2, <2>1, <2>2 DEF Sound, Resumable, Paired, Asked, Stages, Files
<1>5. Placed(pc, kind, mem, disk, session)
  BY <1>1 DEF Placed, RunHeld, Fresh, Grounded, Earlier, DecisionHeld, Investigated,
     CompositionHeld, Commanded, Has, Of, Files, Authored, Collecting, Deciding,
     Judging, Rejudging, Composing, Finalizing, Repeating
<1>6. AnswerInv /\ WritingInv
  BY <1>1, <1>2 DEF AnswerInv, WritingInv
<1>7. QED
  BY <1>3, <1>4, <1>5, <1>6 DEF Safe

LEMMA NextSafe == Inv /\ Safe /\ [Next]_vars => Safe'
<1> SUFFICES ASSUME Inv, Safe, [Next]_vars PROVE Safe'
  OBVIOUS
<1>1. CASE Begin
  BY <1>1, BeginSafe
<1>2. CASE ScanFailed \/ Collected \/ Modelled \/ InventoryReady
  BY <1>2, CollectingSafe
<1>3. CASE \E f \in Files : Write(f)
  BY <1>3, WriteSafe
<1>4. CASE Ask
  BY <1>4, AskSafe
<1>5. CASE Discover
  BY <1>5, DiscoverSafe
<1>6. CASE \E status \in {"completed", "degraded"}, asks \in BOOLEAN :
             Discovered(status, asks)
  BY <1>6, DiscoveredSafe
<1>7. CASE Plan
  BY <1>7, PlanSafe
<1>8. CASE \E fruitful \in BOOLEAN : Probe(fruitful)
  BY <1>8, ProbeSafe
<1>9. CASE PersistEvidence
  BY <1>9, PersistSafe
<1>10. CASE ProbeChecked
  BY <1>10, ProbeCheckedSafe
<1>11. CASE Reconcile
  BY <1>11, ReconcileSafe
<1>12. CASE \E status \in {"completed", "degraded"} :
              Reconciled(status) \/ ResumeReconciled(status)
  BY <1>12, ReconciledSafe, ResumeReconciledSafe
<1>13. CASE ReconciliationChecked
  BY <1>13, ReconciliationCheckedSafe
<1>14. CASE Finalize
  BY <1>14, FinalizeSafe
<1>15. CASE Compose
  BY <1>15, ComposeSafe
<1>16. CASE RedactionFailed
  BY <1>16, RedactionFailedSafe
<1>17. CASE \E passed \in BOOLEAN : Composed(passed)
  BY <1>17, ComposedSafe
<1>18. CASE Render \/ Rerender
  BY <1>18, RenderSafe
<1>19. CASE Reported \/ ResumeReported
  BY <1>19, ReportedSafe, ResumeReportedSafe
<1>20. CASE Review \/ ResumeReconcile
  BY <1>20, ReviewSafe, ResumeReconcileSafe
<1>21. CASE ResumeRefused \/ ResumeComplete
  BY <1>21, RefusedSafe
<1>22. CASE Resume \/ StartDiscover
  BY <1>22, ResumeSafe, StartDiscoverSafe
<1>23. CASE End
  BY <1>23, EndSafe
<1>24. CASE Crash
  BY <1>24, CrashSafe
<1>25. CASE Tamper
  BY <1>25, TamperSafe
<1>26. CASE Terminated \/ UNCHANGED vars
  BY <1>26, UnchangedSafe DEF Terminated
<1>27. QED
  BY <1>1, <1>2, <1>3, <1>4, <1>5, <1>6, <1>7, <1>8, <1>9, <1>10, <1>11, <1>12, <1>13,
     <1>14,
     <1>15, <1>16, <1>17, <1>18, <1>19, <1>20, <1>21, <1>22, <1>23, <1>24, <1>25, <1>26
     DEF Next

LEMMA SpecSafe == Spec => [](Inv /\ Safe)
<1>1. Init => Inv /\ Safe
  BY InitInv, InitSafe
<1>2. Inv /\ Safe /\ [Next]_vars => (Inv /\ Safe)'
  BY NextInv, NextSafe
<1>3. QED
  BY <1>1, <1>2, PTL DEF Spec

-----------------------------------------------------------------------------
(* What it means for resume. *)

\* What is on disk between sessions, when resume would find the run complete.
LEMMA Completed ==
  ASSUME Inv, Safe, pc = "idle", disk["run"] # None, Complete
  PROVE  /\ Sound(disk, session) /\ disk["run"] \in Runs
         /\ Has(disk, "composing") /\ Coherent(disk) /\ Decisive(disk)
         /\ Has(disk, "reporting") /\ Of(disk, "reporting").output = disk["reports"]
         /\ Of(disk, "reporting").source = disk["composition"]
<1>1. pending = << >>
  BY DEF Inv, PlaceInv
<1>2. Sound(disk, session) /\ disk["run"] \in Runs
  BY <1>1, Before DEF Sound, Typed, Maybe
<1>3. Has(disk, "composing") /\ Has(disk, "reporting")
  BY DEF Complete, ValidComposition, ValidReports, Has, Of, Stage
<1>4. QED
  BY <1>2, <1>3 DEF Sound, Complete, ValidReports, Of, Stage

LEMMA SafeCoherent == Inv /\ Safe => ReportsCoherent
<1> SUFFICES ASSUME Inv, Safe, pc = "idle", disk["run"] # None, Complete
             PROVE  /\ disk["reports"] # Torn
                    /\ disk["reports"].composition = disk["composition"]
                    /\ disk["composition"].inventory = disk["inventory"]
                    /\ disk["inventory"].snapshot = disk["snapshot"]
  BY DEF ReportsCoherent
<1>1. /\ Sound(disk, session) /\ disk["run"] \in Runs /\ Coherent(disk)
      /\ Has(disk, "reporting") /\ Of(disk, "reporting").output = disk["reports"]
      /\ Of(disk, "reporting").source = disk["composition"]
  BY Completed
<1>2. disk["run"].stages.reporting \in ReportCheckpoints
  BY <1>1 DEF Runs, Maybe, Has, Of
<1>3. disk["reports"] \in Reports
  BY <1>1, <1>2 DEF ReportCheckpoints, Of
<1>4. disk["reports"].composition = disk["composition"]
  BY <1>1 DEF Sound, Paired
<1>5. QED
  BY <1>1, <1>3, <1>4, ContentAssumption DEF Coherent

LEMMA SafeComplete == Inv /\ Safe => FinishedIsComplete
<1> SUFFICES ASSUME Inv, Safe, answer = "finished", disk["reports"] # Torn PROVE Complete
  BY DEF FinishedIsComplete
<1>1. CompleteIn(disk)
  BY DEF Safe, AnswerInv
<1>2. QED
  BY <1>1 DEF CompleteIn, Complete, Consistent, ValidComposition, ValidReports, Has, Of,
     Stage, Present

LEMMA SafeRefused == Inv /\ Safe => RefusedOnlyEarly
BY DEF Safe, AnswerInv, RefusedOnlyEarly

\* A composition that is not stale was made after the discovery.
LEMMA NotStale ==
  ASSUME NEW n, Typed(disk, n), NEW f \in {"composition", "reconciliation"},
         disk["discovery"] # None, ~Stale(f)
  PROVE  disk[f] = None \/ disk[f].by >= disk["discovery"].by
<1>1. disk["discovery"].by \in Nat /\ (disk[f] # None => disk[f].by \in Nat)
  BY DEF Typed, Maybe, Artifacts, Compositions
<1>2. QED
  BY <1>1 DEF Stale

LEMMA SafeProbed == Inv /\ Safe => ProbesNotSkipped
<1> SUFFICES ASSUME Inv, Safe, pc = "idle", disk["run"] # None, Complete, ValidDiscovery,
                    disk["discovery"].asks, ~Fast, ~Stale("composition")
             PROVE  OwnProbe \/ disk["snapshot"] = Probed \/ EarlierProbe
  BY DEF ProbesNotSkipped
<1>1. Typed(disk, session) /\ Coherent(disk) /\ Decisive(disk) /\ Paired(disk)
  BY Completed DEF Sound
<1>2. disk["discovery"] # None /\ disk["composition"] # None
  BY <1>1 DEF ValidDiscovery, Coherent
<1>3. disk["composition"].by >= disk["discovery"].by
  BY <1>1, <1>2, NotStale
<1>4. Satisfied(disk)
  BY <1>1, <1>2, <1>3 DEF Decisive
<1>5. CASE Has(disk, "probing")
  <2>1. /\ Stage("probing") # None
        /\ Stage("probing").source.by \in Nat /\ disk["discovery"].by \in Nat
        /\ Stage("probing").source.requests \in BOOLEAN /\ disk["discovery"].asks = TRUE
    BY <1>1, <1>2, <1>5 DEF Typed, Has, Of, Stage, Runs, Maybe, ProbeCheckpoints, Plans,
       Artifacts
  <2>2. /\ Stage("probing").source.by <= disk["discovery"].by
        /\ Stage("probing").source.by = disk["discovery"].by =>
             Stage("probing").source.requests = TRUE
    BY <1>1, <1>5, <2>1 DEF Paired, Of, Stage
  <2>3. QED
    BY <2>1, <2>2 DEF OwnProbe, EarlierProbe
<1>6. QED
  BY <1>4, <1>5 DEF Satisfied

LEMMA SafeCurrent == Inv /\ Safe => ReportsCurrentDecision
<1> SUFFICES ASSUME Inv, Safe, pc = "idle", disk["run"] # None, Complete, ValidDiscovery,
                    ~Stale("composition"), ~Stale("reconciliation")
             PROVE  disk["inventory"].decision =
                      (IF Revised THEN disk["reconciliation"] ELSE disk["discovery"]).decision
  BY DEF ReportsCurrentDecision
<1>1. Typed(disk, session) /\ Coherent(disk) /\ Decisive(disk)
  BY Completed DEF Sound
<1>2. disk["discovery"] # None /\ disk["composition"] # None
  BY <1>1 DEF ValidDiscovery, Coherent
<1>3. /\ disk["composition"].by >= disk["discovery"].by
      /\ disk["reconciliation"] = None \/ disk["reconciliation"].by >= disk["discovery"].by
  BY <1>1, <1>2, NotStale
<1>4. Current(disk, disk["inventory"].decision)
  BY <1>1, <1>2, <1>3 DEF Decisive
<1>5. Amended(disk) <=> Revised
  BY DEF Amended, Reusable, Revised, ValidReconciliation, Has, Of, Stage
<1>6. QED
  BY <1>3, <1>4, <1>5 DEF Current

\* When resume would answer already_complete, the reports are those of the
\* composition, the composition is made from the inventory, and the inventory
\* from the snapshot on disk, whichever writes of whichever session were lost.
THEOREM Coherence == Spec => []ReportsCoherent
BY SpecSafe, SafeCoherent, PTL

\* A session that ended with reports leaves a run that the next resume finds
\* complete, for any number of sessions and crashes before.
THEOREM Completion == Spec => []FinishedIsComplete
BY SpecSafe, SafeComplete, PTL

\* resume refuses no run that reached inventory_ready, unless a repeated
\* discovery died between its files.
THEOREM Resumption == Spec => []RefusedOnlyEarly
BY SpecSafe, SafeRefused, PTL

\* A run whose decision asks for a probe is not complete without a probe made for
\* this very decision and its requests, unless the decision is later than what is
\* reported, the evidence of a probe is in the snapshot, or the probe stage of an
\* earlier discovery is in run.json: resume takes that one without comparing it.
THEOREM ProbesKept == Spec => []ProbesNotSkipped
BY SpecSafe, SafeProbed, PTL

\* A complete run reports the decision in force: that of the discovery, or of the
\* reconciliation that revises it.
THEOREM Currency == Spec => []ReportsCurrentDecision
BY SpecSafe, SafeCurrent, PTL

-----------------------------------------------------------------------------
(* Compositions. *)

\* The step of ComposedOnce.
ComposedStep ==
  disk["composition"] # None /\ disk'["composition"] # disk["composition"] =>
    LET old == disk["composition"].inventory
        new == disk'["composition"].inventory
    IN \/ old.decision # new.decision \/ old.snapshot # new.snapshot
       \/ Stage("composing") = None
       \/ Stage("composing").output # disk["composition"]

LEMMA ComposedNext == Inv /\ Safe /\ [Next]_vars => ComposedStep
<1> SUFFICES ASSUME Inv, Safe, [Next]_vars, disk'["composition"] # disk["composition"]
             PROVE  Stage("composing") = None
  BY DEF ComposedStep
<1>1. CASE \E f \in Files : Write(f)
  <2>1. PICK f \in Files : Write(f)
    BY <1>1
  <2>2. f \in DOMAIN pending /\ disk' = [disk EXCEPT ![f] = pending[f]] /\ DOMAIN disk = Files
    BY <2>1 DEF Write, Inv, TypeInv
  <2>3. f = "composition"
    BY <2>2 DEF Files
  <2>4. QED
    BY <2>2, <2>3 DEF Safe, WritingInv
<1>2. CASE Crash
  <2>1. PICK torn \in SUBSET (Appended \cap DOMAIN pending) :
          disk' = [f \in Files |-> IF f \in torn THEN Torn ELSE disk[f]]
    BY <1>2 DEF Crash
  <2>2. disk'["composition"] = disk["composition"]
    BY <2>1 DEF Appended, Files
  <2>3. QED
    BY <2>2
<1>3. CASE Tamper
  <2>1. disk' = [disk EXCEPT !["reports"] = Torn] /\ DOMAIN disk = Files
    BY <1>3 DEF Tamper, Inv, TypeInv
  <2>2. QED
    BY <2>1 DEF Files
<1>4. CASE disk' = disk
  BY <1>4
<1>5. ASSUME NEW from, NEW to, NEW memory, NEW writes, Step(from, to, memory, writes)
      PROVE  disk' = disk
  BY <1>5 DEF Step
<1>6. QED
  BY <1>1, <1>2, <1>3, <1>4 DEF Next, vars, Begin, ScanFailed, Collected, Modelled,
     InventoryReady, Ask, Discover, Discovered, Plan, Probe, PersistEvidence,
     ProbeChecked, Reconcile, Reconciled, ResumeReconciled, ReconciliationChecked,
     Finalize, Compose, RedactionFailed, Composed, Render, Reported, ResumeRefused,
     ResumeComplete, Resume, Open, Review, ResumeReconcile, Rerender, ResumeReported,
     StartDiscover, End, Terminated, Step

\* A composition is made again from the same decision and snapshot only while no
\* checkpoint of it is on disk.
THEOREM Composition == Spec => ComposedOnce
<1>1. Spec => [][Inv /\ Safe /\ [Next]_vars]_vars
  BY SpecSafe, PTL DEF Spec
<1>2. QED
  BY <1>1, ComposedNext, SpecSafe, PTL DEF Spec, ComposedOnce, ComposedStep
=============================================================================
