------------------------- MODULE DiscoveryRoundProofs -------------------------
(***************************************************************************)
(* From records to the inventory, for every host and every model:           *)
(*                                                                         *)
(*   Spending    calls stay in the budget that the tasks of a run share;   *)
(*   Evidence    a service rests on the evidence of its own candidates;    *)
(*   Protection  what has a reason to be looked at is not filtered         *)
(*               unseen, and no exposed port disappears;                   *)
(*   Connection  the components are those of the strong edges, whatever    *)
(*               their order;                                              *)
(*   Placement   every object is in one place, every candidate has one     *)
(*               outcome;                                                  *)
(*   Separation  a process belongs to the nearest entry above it.          *)
(*                                                                         *)
(* They rest on what is known of a task (Inv), of the graph (GraphInv,     *)
(* BuiltInv), of the forest of its components (ForestInv), of the          *)
(* selection (SelectedInv, DividedInv), of the inventory (SettledInv) and  *)
(* of the decision (ArtifactInv): it is valid for what the model was told, *)
(* or retains every candidate.                                             *)
(***************************************************************************)
EXTENDS DiscoveryRound, FiniteSetTheorems, WellFoundedInduction, TLAPS

-----------------------------------------------------------------------------
(* One task. *)

TaskType ==
  [kind : Kinds, max : Nat, phase : Phases, calls : Nat, begun : Nat, repairs : Nat,
   transport : Nat, aborted : BOOLEAN, before : Nat]

\* A call of discover, reconcile or composeWiki is counted before it is sent.
Counted(t) == t.kind # "investigate" => t.calls <= t.max /\ t.begun <= t.calls

\* An inquiry has one request per repair, and the first one.
Inquired(t) ==
  t.kind = "investigate" =>
    /\ t.repairs <= MaxInquiries
    /\ t.begun <= t.repairs + 1
    /\ t.phase = "ready" => t.begun <= t.repairs

\* What was sent before the signal may still be answered; then the repair of an answer
\* counts one call, if it has not been counted with the answer, and fails.
Stopped(t) ==
  t.aborted =>
    /\ t.calls <= t.before + 1
    /\ t.phase = "waiting" => t.calls = t.before
    /\ t.phase = "ready" /\ t.kind # "investigate" => t.calls = t.before

TaskOK(t) == t \in TaskType /\ Counted(t) /\ Inquired(t) /\ Stopped(t)

\* A task that begins, also one whose provider does not answer.
LEMMA TaskBegins ==
  ASSUME NEW kind \in Kinds, NEW max \in Nat, NEW p \in {"ready", "degraded", "none"}
  PROVE  /\ TaskOK([Task(kind, max) EXCEPT !.phase = p])
         /\ TaskOK(Task(kind, max))
<1> DEFINE t == [Task(kind, max) EXCEPT !.phase = p]
<1>1. Task(kind, max) \in TaskType /\ t \in TaskType
  BY DEF Task, TaskType, Phases
<1>2. TaskOK(t) /\ TaskOK(Task(kind, max))
  BY <1>1, RetriesAssumption DEF TaskOK, Counted, Inquired, Stopped, Task
<1>3. QED
  BY <1>2

\* A task that ends stays within its bounds.
LEMMA FailedOK ==
  ASSUME NEW t, TaskOK(t)
  PROVE  TaskOK(Failed(t)) /\ Failed(t).kind = t.kind /\ Failed(t).max = t.max
<1>1. t \in TaskType /\ Failed(t) \in TaskType
  BY DEF TaskOK, TaskType, Failed, Phases
<1>2. QED
  BY <1>1 DEF TaskOK, TaskType, Counted, Inquired, Stopped, Failed

\* A retry of the transport is no repair, and there is none for an inquiry or after the
\* signal.
LEMMA RejectedOK ==
  ASSUME NEW t, TaskOK(t), NEW transient \in BOOLEAN
  PROVE  /\ TaskOK(Rejected(t, transient))
         /\ Rejected(t, transient).kind = t.kind
         /\ Rejected(t, transient).max = t.max
<1> DEFINE n == [t EXCEPT !.phase = "ready", !.transport = @ + 1]
<1>1. CASE Retried(t, transient)
  <2>1. t \in TaskType /\ t.kind # "investigate" /\ ~t.aborted
    BY <1>1 DEF TaskOK, TaskType, Retried, TransportRetries
  <2>2. n \in TaskType
    <3>1. t.transport + 1 \in Nat /\ "ready" \in Phases
      BY <2>1 DEF TaskType, Phases
    <3>2. QED
      BY <2>1, <3>1 DEF TaskType
  <2>3. TaskOK(n) /\ n.kind = t.kind /\ n.max = t.max
    BY <2>1, <2>2 DEF TaskOK, TaskType, Counted, Inquired, Stopped
  <2>4. QED
    BY <1>1, <2>3 DEF Rejected
<1>2. CASE ~Retried(t, transient)
  BY <1>2, FailedOK DEF Rejected
<1>3. QED
  BY <1>1, <1>2

\* The task keeps its kind and its budget while it takes turns.
Kept(t) == TaskOK(t) /\ t.kind = agent.kind /\ t.max = agent.max

LEMMA CallOK ==
  ASSUME TaskOK(agent), Call
  PROVE  Kept(agent')
<1> DEFINE begun == Begins(agent)
           sent == [begun EXCEPT !.phase = "waiting", !.begun = @ + 1]
<1>1. agent \in TaskType /\ agent.phase = "ready"
  BY DEF TaskOK, Call
<1>2. CASE Exhausted(agent)
  BY <1>2, FailedOK DEF Call, Kept
<1>3. CASE ~Exhausted(agent)
  <2>1. agent.kind # "investigate" => agent.calls < agent.max
    BY <1>1, <1>3 DEF Exhausted, TaskType
  <2>2. begun \in TaskType
    BY <1>1 DEF TaskType, Begins
  <2>3. CASE agent.aborted
    <3>1. PICK b \in BOOLEAN : agent' = Rejected(begun, b)
      BY <1>3, <2>3 DEF Call
    <3>2. agent' = Failed(begun)
      BY <1>1, <2>3, <3>1 DEF Rejected, Retried, Begins, TaskType
    <3>3. Failed(begun) \in TaskType /\ Failed(begun).phase \in {"degraded", "thrown"}
      BY <2>2 DEF TaskType, Failed, Phases
    <3>4. TaskOK(Failed(begun))
      BY <1>1, <2>1, <2>2, <2>3, <3>3
      DEF TaskOK, TaskType, Counted, Inquired, Stopped, Failed, Begins
    <3>5. QED
      BY <1>1, <2>2, <3>2, <3>4 DEF Kept, Failed, Begins, TaskType
  <2>4. CASE ~agent.aborted
    <3>1. agent' = sent
      BY <1>3, <2>4 DEF Call
    <3>2. sent \in TaskType
      <4>1. begun.begun + 1 \in Nat /\ "waiting" \in Phases
        BY <2>2 DEF TaskType, Phases
      <4>2. QED
        BY <2>2, <4>1 DEF TaskType
    <3>3. TaskOK(sent)
      BY <1>1, <2>1, <2>4, <3>2 DEF TaskOK, TaskType, Counted, Inquired, Stopped, Begins
    <3>4. QED
      BY <1>1, <3>1, <3>3 DEF Kept, Begins, TaskType
  <2>5. QED
    BY <2>3, <2>4
<1>4. QED
  BY <1>2, <1>3

LEMMA RejectOK ==
  ASSUME TaskOK(agent), NEW b \in BOOLEAN, Reject(b)
  PROVE  Kept(agent')
BY RejectedOK DEF Reject, Kept

LEMMA AnswerOK ==
  ASSUME TaskOK(agent), NEW valid \in BOOLEAN, Answer(valid)
  PROVE  Kept(agent')
<1> DEFINE come == Arrives(agent)
           whole == [come EXCEPT !.phase = "completed"]
           again == [come EXCEPT !.phase = "ready", !.repairs = @ + 1, !.transport = 0]
<1>1. agent \in TaskType /\ agent.phase = "waiting"
  BY DEF TaskOK, Answer
<1>2. come \in TaskType /\ come.kind = agent.kind /\ come.max = agent.max
  BY <1>1 DEF TaskType, Arrives
<1>3. whole \in TaskType /\ again \in TaskType
  <2>1. come.repairs + 1 \in Nat /\ {"ready", "completed"} \subseteq Phases
    BY <1>2 DEF TaskType, Phases
  <2>2. QED
    BY <1>2, <2>1 DEF TaskType
<1>4. TaskOK(whole)
  BY <1>1, <1>3 DEF TaskOK, TaskType, Counted, Inquired, Stopped, Arrives
<1>5. CASE come.repairs = Repairs(come.kind)
  <2>1. Failed(come) \in TaskType /\ Failed(come).phase \in {"degraded", "thrown"}
    BY <1>2 DEF TaskType, Failed, Phases
  <2>2. TaskOK(Failed(come))
    BY <1>1, <2>1 DEF TaskOK, TaskType, Counted, Inquired, Stopped, Failed, Arrives
  <2>3. QED
    BY <1>2, <1>4, <1>5, <2>2 DEF Answer, Repaired, Kept, Failed, TaskType
<1>6. CASE come.repairs # Repairs(come.kind)
  <2>1. come.kind = "investigate" => come.repairs + 1 <= MaxInquiries
    BY <1>1, <1>6, RetriesAssumption
    DEF TaskOK, TaskType, Inquired, Repairs, Arrives
  <2>2. TaskOK(again)
    BY <1>1, <1>3, <2>1, RetriesAssumption
    DEF TaskOK, TaskType, Counted, Inquired, Stopped, Arrives
  <2>3. QED
    BY <1>2, <1>4, <1>6, <2>2 DEF Answer, Repaired, Kept, TaskType
<1>7. QED
  BY <1>5, <1>6

LEMMA AbortOK ==
  ASSUME TaskOK(agent), Abort
  PROVE  Kept(agent')
<1>1. agent' \in TaskType /\ agent \in TaskType
  BY DEF TaskOK, TaskType, Abort
<1>2. QED
  BY <1>1 DEF TaskOK, TaskType, Counted, Inquired, Stopped, Abort, Kept

-----------------------------------------------------------------------------
(* The run. *)

Before == {"normalizing", "normalized", "correlating", "selected"}
Asking == {"discovering", "reconciling", "composing", "investigating"}
Between == {"probing", "finalizing", "reported"}

\* The task in hand may use what no other task has used.
Inv ==
  /\ phase \in Before \cup Asking \cup Between
  /\ TaskOK(agent)
  /\ spent \in Nat /\ spent <= MaxAiCalls
  /\ phase \in Before => spent = 0
  /\ phase \notin Asking => agent = NoTask
  /\ phase # "investigating" => agent.kind # "investigate" /\ spent + agent.max <= MaxAiCalls

LEMMA NoTaskOK ==
  TaskOK(NoTask) /\ NoTask.kind = "compose" /\ NoTask.max = 0
<1>1. TaskOK(NoTask)
  BY TaskBegins DEF NoTask, Kinds
<1>2. QED
  BY <1>1 DEF NoTask, Task

LEMMA InitInv == Init => Inv
BY NoTaskOK, BudgetAssumption DEF Init, Inv, Before, Asking, Between

\* A task with a budget that is left begins.
LEMMA BeginsInv ==
  ASSUME Inv, NEW kind \in {"discover", "reconcile", "compose"}, NEW max \in Nat,
         agent' \in {Task(kind, max), [Task(kind, max) EXCEPT !.phase = "degraded"]},
         phase' \in Asking \ {"investigating"}, spent' = spent, spent + max <= MaxAiCalls
  PROVE  Inv'
<1>1. TaskOK(agent') /\ agent'.kind = kind /\ agent'.max = max
  <2>1. kind \in Kinds
    BY DEF Kinds
  <2>2. CASE agent' = Task(kind, max)
    <3>1. TaskOK(agent')
      BY <2>1, <2>2, TaskBegins
    <3>2. QED
      BY <2>2, <3>1 DEF Task
  <2>3. CASE agent' = [Task(kind, max) EXCEPT !.phase = "degraded"]
    <3>1. TaskOK(agent')
      BY <2>1, <2>3, TaskBegins
    <3>2. QED
      BY <2>3, <3>1 DEF Task
  <2>4. QED
    BY <2>2, <2>3
<1>2. QED
  BY <1>1 DEF Inv, Before, Asking, Between, TaskOK, TaskType, Counted, Inquired, Stopped

\* A task that takes a turn keeps its budget.
LEMMA TurnInv ==
  ASSUME Inv, Kept(agent'), phase' = phase, spent' = spent, phase \in Asking
  PROVE  Inv'
BY DEF Inv, Kept, TaskOK, TaskType, Counted, Inquired, Stopped, Before, Asking, Between

\* Its calls are counted when it is over.
LEMMA TakenInv ==
  ASSUME Inv, phase \in Asking \ {"investigating"}, phase' \in Between,
         spent' = spent + agent.calls, agent' = NoTask
  PROVE  Inv'
<1>1. agent.calls \in Nat /\ agent.max \in Nat /\ agent.calls <= agent.max
  BY DEF Inv, TaskOK, TaskType, Counted
<1>2. spent' \in Nat /\ spent' <= MaxAiCalls
  BY <1>1, BudgetAssumption DEF Inv
<1>3. phase' \notin Before /\ phase' \notin Asking /\ phase' # "investigating"
  BY DEF Before, Asking, Between
<1>4. TaskOK(agent')
  BY NoTaskOK
<1>5. QED
  BY <1>2, <1>3, <1>4, NoTaskOK DEF Inv

\* Nothing is asked before candidates are selected, nor between two tasks.
LEMMA IdleInv ==
  ASSUME Inv, phase' = phase \/ (phase \in Before /\ phase' \in Before)
                \/ (phase \in Between /\ phase' \in Between),
         spent' = spent, agent' = agent
  PROVE  Inv'
BY DEF Inv, TaskOK, TaskType, Counted, Inquired, Stopped, Before, Asking, Between

LEMMA NextInv == Inv /\ [Next]_vars => Inv'
<1> SUFFICES ASSUME Inv, [Next]_vars PROVE Inv'
  OBVIOUS
<1> USE BudgetAssumption
<1>1. CASE Normalize \/ BuildGraph \/ Select \/ \E e \in graph.todo : Unite(e)
  BY <1>1, IdleInv DEF Normalize, BuildGraph, Select, Unite, Before
<1>2. CASE Discover
  <2>1. spent + MaxAiCalls <= MaxAiCalls /\ MaxAiCalls \in Nat
    BY <1>2 DEF Discover, Inv, Before
  <2>2. QED
    BY <1>2, <2>1, BeginsInv DEF Discover, Begin, Asking
<1>3. CASE Deciding
  <2>1. PICK answer \in Answers(Input) : Decide(answer)
    BY <1>3 DEF Deciding
  <2>2. Answer(TRUE) \/ Answer(FALSE)
    <3>1. PICK valid \in {Valid(answer, Input, phase = "discovering")} : Answer(valid)
      BY <2>1 DEF Decide
    <3>2. agent.phase = "waiting"
      BY <3>1 DEF Answer
    <3>3. QED
      BY <3>1 DEF Answer
  <2>3. Kept(agent')
    BY <2>2, AnswerOK DEF Inv
  <2>4. QED
    BY <1>3, <2>3, TurnInv DEF Deciding, Asking
<1>4. CASE Turns
  <2>1. Kept(agent')
    BY <1>4, CallOK, RejectOK, AnswerOK DEF Turns, Inv
  <2>2. QED
    BY <1>4, <2>1, TurnInv DEF Turns, Asking
<1>5. CASE Interrupt
  <2>1. Kept(agent')
    BY <1>5, AbortOK DEF Interrupt, Inv
  <2>2. QED
    BY <1>5, <2>1, TurnInv DEF Interrupt, Asking
<1>6. CASE Discovered \/ Reconciled
  BY <1>6, TakenInv DEF Discovered, Reconciled, Taken, Asking, Between
<1>7. CASE Reconcile
  <2>1. MaxAiCalls - spent \in Nat /\ spent + (MaxAiCalls - spent) <= MaxAiCalls
    BY DEF Inv
  <2>2. QED
    BY <1>7, <2>1, BeginsInv DEF Reconcile, Asking
<1>8. CASE SkipReconcile
  BY <1>8, IdleInv DEF SkipReconcile, Between
<1>9. CASE Finalize
  <2>1. CallsLeft \in Nat /\ spent + CallsLeft <= MaxAiCalls
    BY DEF CallsLeft, Inv
  <2>2. QED
    BY <1>9, <2>1, BeginsInv DEF Finalize, Asking
<1>10. CASE Composed
  BY <1>10, TakenInv DEF Composed, Asking, Between
<1>11. CASE Investigate
  <2>1. TaskOK(agent')
    BY <1>11, TaskBegins DEF Investigate, Kinds
  <2>2. QED
    BY <1>11, <2>1 DEF Investigate, Inv, Before, Asking, Between
<1>12. CASE UNCHANGED vars
  BY <1>12, IdleInv DEF vars
<1>13. QED
  BY <1>1, <1>2, <1>3, <1>4, <1>5, <1>6, <1>7, <1>8, <1>9, <1>10, <1>11, <1>12 DEF Next

LEMMA Invariant == Spec => []Inv
BY InitInv, NextInv, PTL DEF Spec

\* onCall and remainingCalls bound what discover, reconcile and composeWiki may ask
\* together; every request that was sent is counted, and an inquiry has its own bound.
THEOREM Spending == Spec => []SpendingKept
<1>1. Inv => CallsBounded
  BY RetriesAssumption
  DEF Inv, TaskOK, TaskType, Counted, Inquired, Stopped, CallsBounded
<1>2. Inv /\ phase # "investigating" => spent + agent.calls <= MaxAiCalls
  BY BudgetAssumption DEF Inv, TaskOK, TaskType, Counted
<1>3. Inv => SpendingKept
  BY <1>1, <1>2 DEF SpendingKept
<1>4. QED
  BY <1>3, Invariant, PTL

-----------------------------------------------------------------------------
(* What a decision may rely on. *)

Owning(draft) ==
  draft.ev \subseteq UNION {c.ev : c \in {d \in selection.candidates :
                                            d.id \in Elements(draft.candidates)}}

\* From the answer of discover on there is a decision: a model's that passed the validation
\* against what the model was told, or the one that retains everything.
Decided == phase \notin Before \cup {"discovering"}
             \/ (phase = "discovering" /\ agent.phase = "completed")
Sound(a) ==
  \/ a = Completed(a.decision) /\ \E allowed \in BOOLEAN : Valid(a.decision, Input, allowed)
  \/ \E error \in Kinds : a = Degraded(Input, error)
ArtifactInv == Decided => Sound(artifact)

\* What a model is told of a candidate is some of the candidate.
LEMMA ToldFacts ==
  /\ Input.candidates = {Compact(c) : c \in selection.candidates}
  /\ \A c \in selection.candidates :
       /\ Compact(c).id = c.id
       /\ Compact(c).objects = c.objects
       /\ Compact(c).ev \subseteq c.ev
<1>1. Input.candidates = {Compact(c) : c \in selection.candidates}
  BY DEF Input, DiscoveryInput
<1>2. QED
  BY <1>1 DEF Compact, Lowest

LEMMA ProperOwning ==
  ASSUME NEW draft, Proper(draft, Input)
  PROVE  Owning(draft)
<1> DEFINE told == {c \in Input.candidates : c.id \in Elements(draft.candidates)}
<1>1. draft.ev \subseteq UNION {c.ev : c \in told}
  BY Zenon DEF Proper, WrongReferences
<1>2. ASSUME NEW c \in told
      PROVE  \E d \in selection.candidates :
               d.id \in Elements(draft.candidates) /\ c.ev \subseteq d.ev
  BY <1>2, ToldFacts
<1> HIDE DEF told
<1>3. ASSUME NEW x \in draft.ev
      PROVE  x \in UNION {c.ev : c \in {d \in selection.candidates :
                                          d.id \in Elements(draft.candidates)}}
  <2>1. PICK c \in told : x \in c.ev
    BY <1>1
  <2>2. PICK d \in selection.candidates : d.id \in Elements(draft.candidates) /\ x \in d.ev
    BY <1>2, <2>1
  <2>3. QED
    BY <2>2
<1>4. QED
  BY <1>3 DEF Owning

\* All drafts of a valid answer are proper.
LEMMA ValidDrafts ==
  ASSUME NEW answer, NEW allowed, Valid(answer, Input, allowed)
  PROVE  \A k \in DOMAIN answer.services : Proper(answer.services[k], Input)
<1>1. Accepted(answer, Input) = DOMAIN answer.services
  BY Zenon DEF Valid
<1>2. QED
  BY <1>1 DEF Accepted

\* The drafts of a decision own their evidence; the degraded one has none.
LEMMA SoundDrafts ==
  ASSUME NEW a, Sound(a)
  PROVE  \A draft \in Elements(a.decision.services) : Owning(draft)
<1>1. CASE \E allowed \in BOOLEAN : Valid(a.decision, Input, allowed)
  <2>1. \A draft \in Elements(a.decision.services) :
          \E k \in DOMAIN a.decision.services : draft = a.decision.services[k]
    BY DEF Elements, Range
  <2>2. QED
    BY <1>1, <2>1, ValidDrafts, ProperOwning
<1>2. CASE \E error \in Kinds : a = Degraded(Input, error)
  <2>1. a.decision.services = << >>
    BY <1>2 DEF Degraded
  <2>2. QED
    BY <2>1 DEF Elements, Range
<1>3. QED
  BY <1>1, <1>2 DEF Sound

LEMMA SoundKept ==
  ASSUME ArtifactInv, selection' = selection, artifact' = artifact, Decided' => Decided
  PROVE  ArtifactInv'
BY DEF ArtifactInv, Sound, Input

\* A task is completed by a valid answer only.
LEMMA NotCompleted ==
  ASSUME TaskOK(agent)
  PROVE  /\ Call => agent'.phase # "completed"
         /\ \A b \in BOOLEAN : Reject(b) => agent'.phase # "completed"
         /\ Abort => agent'.phase # "completed"
         /\ Answer(FALSE) => agent'.phase # "completed"
<1>1. agent \in TaskType
  BY DEF TaskOK
<1>2. \A t \in TaskType : Failed(t).phase \in {"degraded", "thrown"}
  BY DEF TaskType, Failed
<1>3. \A t \in TaskType, b \in BOOLEAN : Rejected(t, b).phase # "completed"
  BY <1>2 DEF Rejected, TaskType
<1>4. Begins(agent) \in TaskType /\ Arrives(agent) \in TaskType
  BY <1>1 DEF Begins, Arrives, TaskType
<1>5. Repaired(Arrives(agent)).phase # "completed"
  BY <1>2, <1>4 DEF Repaired, TaskType
<1>6. Call => agent'.phase # "completed"
  BY <1>1, <1>2, <1>3, <1>4 DEF Call, TaskType
<1>7. Abort => agent'.phase # "completed"
  BY <1>1 DEF Abort, TaskType
<1>8. QED
  BY <1>1, <1>3, <1>5, <1>6, <1>7 DEF Reject, Answer

LEMMA InitArtifact == Init => ArtifactInv
BY DEF Init, ArtifactInv, Decided, Before

LEMMA NextArtifact == Inv /\ ArtifactInv /\ [Next]_vars => ArtifactInv'
<1> SUFFICES ASSUME Inv, ArtifactInv, [Next]_vars PROVE ArtifactInv'
  OBVIOUS
<1>1. CASE Normalize \/ BuildGraph \/ Select \/ \E e \in graph.todo : Unite(e)
  BY <1>1 DEF Normalize, BuildGraph, Select, Unite, ArtifactInv, Decided, Before
<1>2. CASE Discover
  <2>1. agent'.phase # "completed" /\ phase' = "discovering"
    BY <1>2 DEF Discover, Begin, Task
  <2>2. QED
    BY <2>1 DEF ArtifactInv, Decided, Before
<1>3. CASE Deciding
  <2>1. PICK answer \in Answers(Input) : Decide(answer)
    BY <1>3 DEF Deciding
  <2>2. selection' = selection /\ phase' = phase
    BY <1>3 DEF Deciding, local
  <2>3. CASE Valid(answer, Input, phase = "discovering")
    <3>1. artifact' = Completed(answer) /\ Completed(answer).decision = answer
      BY <2>1, <2>3 DEF Decide, Completed
    <3>2. Input' = Input
      BY <2>2 DEF Input
    <3>3. QED
      BY <2>3, <3>1, <3>2 DEF ArtifactInv, Sound
  <2>4. CASE ~Valid(answer, Input, phase = "discovering")
    <3>1. artifact' = artifact /\ Answer(FALSE)
      BY <2>1, <2>4 DEF Decide, Answer
    <3>2. agent'.phase # "completed"
      BY <3>1, NotCompleted DEF Inv
    <3>3. QED
      BY <2>2, <3>1, <3>2, SoundKept DEF Decided
  <2>5. QED
    BY <2>3, <2>4
<1>4. CASE Turns
  <2>1. phase = "discovering" => agent'.phase # "completed"
    BY <1>4, NotCompleted DEF Turns, Inv
  <2>2. QED
    BY <1>4, <2>1, SoundKept DEF Turns, local, Decided
<1>5. CASE Interrupt
  <2>1. agent'.phase # "completed"
    BY <1>5, NotCompleted DEF Interrupt, Inv
  <2>2. QED
    BY <1>5, <2>1, SoundKept DEF Interrupt, local, Decided
<1>6. CASE Discovered \/ Reconciled
  <2>1. /\ selection' = selection
        /\ artifact' = IF agent.phase = "completed" THEN artifact
                       ELSE Degraded(Input, agent.kind)
    BY <1>6 DEF Discovered, Reconciled, Taken, local
  <2>2. CASE agent.phase = "completed"
    <3>1. Decided /\ artifact' = artifact
      BY <1>6, <2>1, <2>2 DEF Discovered, Reconciled, Decided, Before
    <3>2. QED
      BY <2>1, <3>1, SoundKept
  <2>3. CASE agent.phase # "completed"
    <3>1. agent.kind \in Kinds
      BY <1>6 DEF Discovered, Reconciled, Taken, Inv, TaskOK, TaskType
    <3>2. Input' = Input
      BY <2>1 DEF Input
    <3>3. QED
      BY <2>1, <2>3, <3>1, <3>2 DEF ArtifactInv, Sound
  <2>4. QED
    BY <2>2, <2>3
<1>7. CASE Reconcile \/ SkipReconcile \/ Finalize \/ Composed \/ Investigate
  BY <1>7, SoundKept DEF Reconcile, SkipReconcile, Finalize, Composed, Investigate,
     local, Decided, Before
<1>8. CASE UNCHANGED vars
  BY <1>8, SoundKept DEF vars, Decided
<1>9. QED
  BY <1>1, <1>2, <1>3, <1>4, <1>5, <1>6, <1>7, <1>8 DEF Next

\* Evidence of a service that is built from a draft or from a candidate.
Covered(s, sel) ==
  s.ev \subseteq UNION {c.ev : c \in {d \in sel.candidates : d.id \in s.candidates}}

LEMMA RetainedCovered ==
  ASSUME NEW sel, NEW c \in sel.candidates
  PROVE  Covered(Retained(c), sel)
<1>1. Retained(c).ev = UNION {d.ev : d \in {c}} /\ Retained(c).candidates = {c.id}
  BY DEF Retained, ServiceOf, IdsOf
<1>2. QED
  BY <1>1 DEF Covered

LEMMA DraftCovered ==
  ASSUME NEW draft, Owning(draft)
  PROVE  LET chosen == {c \in selection.candidates : c.id \in Elements(draft.candidates)}
         IN Covered(ServiceOf(chosen, draft.role, draft.unknown, draft.ev), selection)
<1> DEFINE chosen == {c \in selection.candidates : c.id \in Elements(draft.candidates)}
           s == ServiceOf(chosen, draft.role, draft.unknown, draft.ev)
<1>1. s.ev = draft.ev \cup UNION {c.ev : c \in chosen} /\ s.candidates = {c.id : c \in chosen}
  BY DEF ServiceOf, IdsOf
<1>2. draft.ev \subseteq UNION {c.ev : c \in chosen}
  BY DEF Owning
<1>3. \A c \in chosen : c \in selection.candidates /\ c.id \in s.candidates
  BY <1>1
<1> HIDE DEF chosen, s
<1>4. Covered(s, selection)
  BY <1>1, <1>2, <1>3 DEF Covered
<1>5. QED
  BY <1>4 DEF s, chosen

LEMMA InventoryCovered ==
  ASSUME NEW a, Sound(a)
  PROVE  \A s \in FinalInventory(selection, a).services : Covered(s, selection)
<1> DEFINE chosen(ids) == {c \in selection.candidates : c.id \in ids}
           drafted == {ServiceOf(chosen(Elements(d.candidates)), d.role, d.unknown, d.ev) :
                         d \in Elements(a.decision.services)}
           kept == {Retained(c) : c \in chosen(Elements(a.decision.retained))}
<1>1. FinalInventory(selection, a).services = drafted \cup kept
  BY DEF FinalInventory
<1>2. \A s \in drafted : Covered(s, selection)
  BY DraftCovered, SoundDrafts
<1>3. \A s \in kept : Covered(s, selection)
  BY RetainedCovered
<1>4. QED
  BY <1>1, <1>2, <1>3

LEMMA LocalCovered ==
  ASSUME NEW sel
  PROVE  \A s \in LocalInventory(sel).services : Covered(s, sel)
<1>1. LocalInventory(sel).services = {Retained(c) : c \in sel.candidates}
  BY DEF LocalInventory
<1>2. QED
  BY <1>1, RetainedCovered

\* Only Select and Finalize make an inventory, and after Select what it is made of stays.
LEMMA InventorySteps ==
  ASSUME [Next]_vars
  PROVE  \/ Select
         \/ Finalize
         \/ ~Chosen'
         \/ inventory' = inventory /\ local' = local /\ Chosen
<1>1. CASE Normalize \/ BuildGraph \/ \E e \in graph.todo : Unite(e)
  BY <1>1 DEF Normalize, BuildGraph, Unite, Chosen
<1>2. CASE Discover \/ Deciding \/ Turns \/ Interrupt \/ Discovered \/ Reconcile
             \/ SkipReconcile \/ Reconciled \/ Composed \/ Investigate \/ UNCHANGED vars
  BY <1>2 DEF Discover, Begin, Deciding, Turns, Interrupt, Discovered, Reconciled, Taken,
     Reconcile, SkipReconcile, Composed, Investigate, local, vars, Chosen
<1>3. QED
  BY <1>1, <1>2 DEF Next

LEMMA NextCovered == ArtifactInv /\ EvidenceOwned /\ [Next]_vars => EvidenceOwned'
<1> SUFFICES ASSUME ArtifactInv, EvidenceOwned, [Next]_vars PROVE EvidenceOwned'
  OBVIOUS
<1>1. CASE Select
  <2>1. inventory' = LocalInventory(selection')
    BY <1>1 DEF Select
  <2>2. \A s \in LocalInventory(selection').services : Covered(s, selection')
    BY LocalCovered
  <2>3. QED
    BY <2>1, <2>2 DEF EvidenceOwned, Covered
<1>2. CASE Finalize
  <2>1. inventory' = FinalInventory(selection, artifact) /\ selection' = selection
    BY <1>2 DEF Finalize, local
  <2>2. \A s \in FinalInventory(selection, artifact).services : Covered(s, selection)
    BY <1>2, InventoryCovered DEF Finalize, ArtifactInv, Decided, Before
  <2>3. QED
    BY <2>1, <2>2 DEF EvidenceOwned, Covered
<1>3. CASE ~Chosen' \/ (inventory' = inventory /\ local' = local /\ Chosen)
  BY <1>3 DEF EvidenceOwned, local
<1>4. QED
  BY <1>1, <1>2, <1>3, InventorySteps

\* validateReferences and buildFinalDeploymentInventory: whatever a model relies on, a
\* service of the inventory has the evidence of its own candidates only.
THEOREM Evidence == Spec => []EvidenceOwned
<1>1. Init => EvidenceOwned
  BY DEF Init, EvidenceOwned, Chosen
<1>2. Inv /\ ArtifactInv /\ EvidenceOwned /\ [Next]_vars => (ArtifactInv /\ EvidenceOwned)'
  BY NextArtifact, NextCovered
<1>3. QED
  BY <1>1, <1>2, InitArtifact, Invariant, PTL DEF Spec

-----------------------------------------------------------------------------
(* What is protected. *)

\* Where what the collectors found is, before anything is selected of it.
Correlated(g) ==
  /\ g = [nodes |-> g.nodes, edges |-> g.edges, todo |-> g.todo, parents |-> g.parents]
  /\ IsFiniteSet(IdsOf(g.nodes))
  /\ \A e \in g.edges : {e.from, e.to} \subseteq IdsOf(g.nodes)
  /\ DOMAIN g.parents = IdsOf(g.nodes)

GraphInv ==
  /\ phase = "normalizing" => host \in Hosts
  /\ phase = "normalized" => \E h \in Hosts : host = Tidied(h)
  /\ phase = "correlating" => Correlated(graph)

\* connectedComponents: no node is lost in a union.
LEMMA UnitedDomain ==
  ASSUME NEW parents, NEW left, NEW right
  PROVE  DOMAIN United(parents, left, right) = DOMAIN parents
BY DEF United, Compressed

LEMMA UniteStep ==
  ASSUME NEW e, Unite(e), Correlated(graph)
  PROVE  graph' = [nodes |-> graph.nodes, edges |-> graph.edges, todo |-> graph.todo \ {e},
                   parents |-> United(graph.parents, e.from, e.to)]
<1> DEFINE parents == United(graph.parents, e.from, e.to)
<1>1. graph' = [graph EXCEPT !.todo = @ \ {e}, !.parents = parents]
  BY DEF Unite
<1> HIDE DEF parents
<1>2. graph' = [nodes |-> graph.nodes, edges |-> graph.edges, todo |-> graph.todo \ {e},
                parents |-> parents]
  BY <1>1 DEF Correlated
<1>3. QED
  BY <1>2 DEF parents

LEMMA InitGraph == Init => GraphInv
BY DEF Init, GraphInv

LEMMA NextGraph == GraphInv /\ [Next]_vars => GraphInv'
<1> SUFFICES ASSUME GraphInv, [Next]_vars PROVE GraphInv'
  OBVIOUS
<1>1. CASE Normalize
  BY <1>1 DEF Normalize, GraphInv
<1>2. CASE BuildGraph
  <2>1. PICK h \in Hosts : host = Tidied(h)
    BY <1>2 DEF BuildGraph, GraphInv
  <2> DEFINE nodes == Nodes(host, Seeds(host))
             edges == Edges(host, Seeds(host))
  <2>2. graph' = [nodes |-> nodes, edges |-> edges, todo |-> Strong(edges),
                  parents |-> [n \in IdsOf(nodes) |-> n]]
    BY <1>2 DEF BuildGraph
  <2>3. IsFiniteSet(IdsOf(nodes))
    BY <2>1, HostAssumption
  <2>4. \A e \in edges : {e.from, e.to} \subseteq IdsOf(nodes)
    BY DEF Edges, IdsOf
  <2> HIDE DEF nodes, edges
  <2>5. Correlated(graph')
    BY <2>2, <2>3, <2>4 DEF Correlated
  <2>6. QED
    BY <1>2, <2>5 DEF BuildGraph, GraphInv, Correlated
<1>3. CASE \E e \in graph.todo : Unite(e)
  <2>1. PICK e \in graph.todo : Unite(e)
    BY <1>3
  <2>2. Correlated(graph)
    BY <2>1 DEF Unite, GraphInv
  <2> DEFINE parents == United(graph.parents, e.from, e.to)
  <2>3. graph' = [nodes |-> graph.nodes, edges |-> graph.edges, todo |-> graph.todo \ {e},
                  parents |-> parents]
    BY <2>1, <2>2, UniteStep
  <2>4. DOMAIN parents = DOMAIN graph.parents
    BY UnitedDomain
  <2> HIDE DEF parents
  <2>5. Correlated(graph')
    BY <2>2, <2>3, <2>4 DEF Correlated
  <2>6. QED
    BY <2>1, <2>5 DEF Unite, GraphInv, Correlated
<1>4. CASE Select
  BY <1>4 DEF Select, GraphInv
<1>5. CASE phase' = phase /\ host' = host /\ graph' = graph
  BY <1>5 DEF GraphInv, Correlated
<1>6. CASE phase' \notin {"normalizing", "normalized", "correlating"}
  BY <1>6 DEF GraphInv
<1>7. ASSUME Discover \/ Discovered \/ Reconcile \/ SkipReconcile \/ Reconciled \/ Finalize
               \/ Composed \/ Investigate
      PROVE  phase' \notin {"normalizing", "normalized", "correlating"}
  BY <1>7 DEF Discover, Begin, Discovered, Reconciled, Taken, Reconcile, SkipReconcile,
     Finalize, Composed, Investigate
<1>8. ASSUME Deciding \/ Turns \/ Interrupt \/ UNCHANGED vars
      PROVE  phase' = phase /\ host' = host /\ graph' = graph
  BY <1>8 DEF Deciding, Turns, Interrupt, local, vars
<1>9. QED
  BY <1>1, <1>2, <1>3, <1>4, <1>5, <1>6, <1>7, <1>8 DEF Next

\* A component without any signal is made of quiet units and processes.
Quiet(o, h, svc) ==
  /\ o[1] \in {"unit", "process"}
  /\ \A u \in h.units : UnitNode(u) = o => u.active # "failed"
  /\ \A s \in svc : s.conflict # {} => o \notin Owned(s)

LEMMA NoSignalsQuiet ==
  ASSUME NEW ids, NEW h, NEW svc, ProtectionSignals(ids, h, svc) = {},
         NEW o \in ids, IsDeploymentResource(o)
  PROVE  Quiet(o, h, svc)
<1> DEFINE units == {u \in h.units : UnitNode(u) \in ids}
<1>1. /\ ~\E i \in ids : i[1] = "container"
      /\ ~\E i \in ids : i[1] = "project"
      /\ ~\E i \in ids : i[1] = "socket"
  BY Zenon DEF ProtectionSignals
<1>2. ~\E u \in units : u.active = "failed"
  BY Zenon DEF ProtectionSignals
<1>3. ~\E s \in svc : s.conflict # {} /\ Owned(s) \cap ids # {}
  BY Zenon DEF ProtectionSignals
<1>4. o[1] \in {"unit", "process"}
  BY <1>1 DEF IsDeploymentResource
<1>5. QED
  BY <1>2, <1>3, <1>4 DEF Quiet

\* The groups of selectDeploymentCandidates are made of quiet objects.
LEMMA GroupsQuiet ==
  ASSUME NEW components, NEW nodes, NEW edges, NEW h, NEW svc,
         NEW g \in Selection(components, nodes, edges, h, svc).groups, NEW o \in g.objects
  PROVE  Quiet(o, h, svc)
<1> DEFINE deployed == {c \in components : \E i \in c : IsDeploymentResource(i)}
           all == {[base |-> c, candidate |-> Candidate(Expanded(c, edges), nodes, h, svc)] :
                     c \in deployed}
           dropped == UNION {{i \in a.base : IsDeploymentResource(i)} :
                             a \in {b \in all : b.candidate.signals = {}}}
<1>1. Selection(components, nodes, edges, h, svc).groups
        = {FilteredGroup(k, {i \in dropped : FilteredCategory(i, h) = k}) :
             k \in {FilteredCategory(i, h) : i \in dropped}}
  BY DEF Selection
<1> HIDE DEF dropped
<1>2. o \in dropped
  BY <1>1 DEF FilteredGroup
<1> USE DEF dropped
<1>3. PICK a \in all : a.candidate.signals = {} /\ o \in a.base /\ IsDeploymentResource(o)
  BY <1>2
<1>4. PICK c \in deployed :
        a = [base |-> c, candidate |-> Candidate(Expanded(c, edges), nodes, h, svc)]
  BY <1>3
<1>5. ProtectionSignals(Expanded(c, edges), h, svc) = {}
  BY <1>3, <1>4 DEF Candidate
<1>6. o \in Expanded(c, edges)
  BY <1>3, <1>4 DEF Expanded
<1>7. QED
  BY <1>3, <1>5, <1>6, NoSignalsQuiet

\* A candidate is named by nodes of the graph, so there are finitely many.
LEMMA SelectionFinite ==
  ASSUME NEW g, Correlated(g), NEW h, NEW svc
  PROVE  IsFiniteSet(IdsOf(Selection(Components(g.parents), g.nodes, g.edges, h,
                                     svc).candidates))
<1> DEFINE known == IdsOf(g.nodes)
           components == Components(g.parents)
           deployed == {c \in components : \E i \in c : IsDeploymentResource(i)}
           cand(c) == Candidate(Expanded(c, g.edges), g.nodes, h, svc)
           all == {[base |-> c, candidate |-> cand(c)] : c \in deployed}
           chosen == Selection(components, g.nodes, g.edges, h, svc).candidates
<1>1. \A c \in components : c \subseteq known
  BY DEF Components, Correlated
<1>2. ASSUME NEW c \in components
      PROVE  Expanded(c, g.edges) \subseteq known
  BY <1>1, <1>2 DEF Expanded, Correlated
<1>3. ASSUME NEW c \in components
      PROVE  cand(c).id \subseteq known
  BY <1>2, <1>3 DEF Candidate
<1> HIDE DEF cand, components
<1>4. chosen = {a.candidate : a \in {b \in all : b.candidate.signals # {}}}
  BY DEF Selection, cand
<1>5. \A x \in chosen : \E c \in components : x = cand(c)
  BY <1>4
<1> HIDE DEF chosen, known
<1>6. IdsOf(chosen) \in SUBSET (SUBSET known)
  BY <1>3, <1>5 DEF IdsOf
<1>7. IsFiniteSet(SUBSET known)
  BY FS_SUBSET DEF Correlated, known
<1>8. QED
  BY <1>6, <1>7, FS_Subset DEF chosen, components

SelectedInv ==
  Chosen =>
    /\ IsFiniteSet(IdsOf(selection.candidates))
    /\ \A g \in selection.groups : \A o \in g.objects : Quiet(o, host, services)

LEMMA NextSelected == GraphInv /\ SelectedInv /\ [Next]_vars => SelectedInv'
<1> SUFFICES ASSUME GraphInv, SelectedInv, [Next]_vars PROVE SelectedInv'
  OBVIOUS
<1>1. CASE Select
  <2> DEFINE chosen == Selection(Components(graph.parents), graph.nodes, graph.edges, host,
                                 services)
  <2>1. selection' = chosen /\ host' = host /\ services' = services /\ Correlated(graph)
    BY <1>1 DEF Select, GraphInv
  <2>2. IsFiniteSet(IdsOf(chosen.candidates))
    BY <2>1, SelectionFinite
  <2>3. \A g \in chosen.groups : \A o \in g.objects : Quiet(o, host, services)
    BY GroupsQuiet
  <2> HIDE DEF chosen
  <2>4. QED
    BY <2>1, <2>2, <2>3 DEF SelectedInv
<1>2. CASE local' = local /\ Chosen
  BY <1>2 DEF SelectedInv, local
<1>3. CASE ~Chosen'
  BY <1>3 DEF SelectedInv
<1>4. Finalize => local' = local /\ Chosen
  BY DEF Finalize, local, Chosen
<1>5. QED
  BY <1>1, <1>2, <1>3, <1>4, InventorySteps

\* A candidate that a decision puts into a service, filters or retains.
Placed(c, decision) ==
  \/ \E draft \in Elements(decision.services) : c.id \in Elements(draft.candidates)
  \/ c.id \in Elements(decision.filtered)
  \/ c.id \in Elements(decision.retained)

\* A set that is listed is listed completely.
LEMMA ListElements ==
  ASSUME NEW S, IsFiniteSet(S)
  PROVE  Elements(SetToSeq(S)) = S
<1> DEFINE n == Cardinality(S)
           listed(f) == f \in [1..n -> S] /\ IsInjective(f)
<1>1. n \in Nat /\ ExistsBijection(1..n, S)
  BY FS_CardinalityType
<1>2. PICK b : b \in Bijection(1..n, S)
  BY <1>1 DEF ExistsBijection
<1>3. listed(b)
  BY <1>2 DEF Bijection, Injection, Surjection, IsInjective
<1> DEFINE f == SetToSeq(S)
<1>4. listed(f)
  BY <1>3 DEF SetToSeq
<1> HIDE DEF f
<1>5. IsFiniteSet(1..n) /\ Cardinality(1..n) = n
  BY <1>1, FS_Interval
<1>6. f \in Injection(1..n, S)
  BY <1>4 DEF Injection, IsInjective
<1>7. f \in Surjection(1..n, S)
  BY <1>5, <1>6, FS_Injection
<1>8. Elements(f) = S
  BY <1>7 DEF Surjection, Elements, Range
<1>9. QED
  BY <1>8 DEF f

\* completion: a valid answer leaves no candidate out.
LEMMA ValidPlaces ==
  ASSUME NEW answer, NEW allowed, Valid(answer, Input, allowed), NEW c \in selection.candidates
  PROVE  Placed(c, Completed(answer).decision)
<1> DEFINE accepted == Accepted(answer, Input)
           refs == References(answer, accepted)
           at(list, k, ids) == {[place |-> <<list, k, i>>, id |-> ids[i]] : i \in DOMAIN ids}
           drafted(k) == at("services", k, answer.services[k].candidates)
           filtered == at("filtered", 0, answer.filtered)
           retained == at("retained", 0, answer.retained)
<1>1. accepted = DOMAIN answer.services /\ CompletionOf(Input, refs).missing = {}
  BY Zenon DEF Valid
<1>2. c.id \in IdsOf(Input.candidates)
  BY ToldFacts DEF IdsOf, Input, DiscoveryInput
<1>3. c.id \in IdsOf(refs)
  BY <1>1, <1>2 DEF CompletionOf
<1>4. PICK r \in refs : r.id = c.id
  BY <1>3 DEF IdsOf
<1>5. refs = filtered \cup retained \cup UNION {drafted(k) : k \in accepted}
  BY Zenon DEF References
<1>6. /\ \A k : r \in drafted(k) => r.id \in Elements(answer.services[k].candidates)
      /\ r \in filtered => r.id \in Elements(answer.filtered)
      /\ r \in retained => r.id \in Elements(answer.retained)
  BY DEF Elements, Range
<1> HIDE DEF at, accepted, refs, drafted, filtered, retained
<1>7. \/ \E k \in accepted : c.id \in Elements(answer.services[k].candidates)
      \/ c.id \in Elements(answer.filtered)
      \/ c.id \in Elements(answer.retained)
  BY <1>4, <1>5, <1>6
<1>8. \A k \in accepted : answer.services[k] \in Elements(answer.services)
  BY <1>1 DEF Elements, Range
<1>9. Completed(answer).decision = answer
  BY DEF Completed
<1>10. QED
  BY <1>7, <1>8, <1>9 DEF Placed

\* createDegradedBatchDiscoveryArtifact retains every candidate.
LEMMA DegradedPlaces ==
  ASSUME IsFiniteSet(IdsOf(selection.candidates)), NEW error, NEW c \in selection.candidates
  PROVE  Placed(c, Degraded(Input, error).decision)
<1>1. IdsOf(Input.candidates) = IdsOf(selection.candidates)
  BY ToldFacts DEF IdsOf, Input, DiscoveryInput
<1>2. Degraded(Input, error).decision.retained = SetToSeq(IdsOf(Input.candidates))
  BY DEF Degraded
<1>3. c.id \in IdsOf(selection.candidates)
  BY DEF IdsOf
<1>4. QED
  BY <1>1, <1>2, <1>3, ListElements DEF Placed

\* An exposed port of a candidate is in the inventory, or there is a question about it.
Shown(sel, inv) ==
  \A c \in sel.candidates : \A p \in c.ports :
    p.exposed => p \in inv.ports \/ <<c.id, "exposed">> \in inv.questions

LEMMA LocalShown ==
  ASSUME NEW sel
  PROVE  Shown(sel, LocalInventory(sel))
<1>1. LocalInventory(sel).ports = UNION {s.ports : s \in {Retained(c) : c \in sel.candidates}}
  BY DEF LocalInventory
<1>2. \A c : Retained(c).ports = c.ports
  BY DEF Retained, ServiceOf
<1>3. QED
  BY <1>1, <1>2 DEF Shown

LEMMA FinalShown ==
  ASSUME NEW a, \A c \in selection.candidates : Placed(c, a.decision)
  PROVE  Shown(selection, FinalInventory(selection, a))
<1> DEFINE decision == a.decision
           chosen(ids) == {c \in selection.candidates : c.id \in ids}
           made(d) == ServiceOf(chosen(Elements(d.candidates)), d.role, d.unknown, d.ev)
           built == {made(d) : d \in Elements(decision.services)}
                      \cup {Retained(c) : c \in chosen(Elements(decision.retained))}
           inv == FinalInventory(selection, a)
<1>1. /\ inv.ports = UNION {s.ports : s \in built}
      /\ inv.questions = Questions(selection, decision, built)
  BY DEF FinalInventory
<1> SUFFICES ASSUME NEW c \in selection.candidates, NEW p \in c.ports, p.exposed
             PROVE  p \in inv.ports \/ <<c.id, "exposed">> \in inv.questions
  BY DEF Shown
<1>2. ASSUME NEW d \in Elements(decision.services), c.id \in Elements(d.candidates)
      PROVE  p \in inv.ports
  <2>1. made(d).ports = UNION {e.ports : e \in chosen(Elements(d.candidates))}
    BY DEF ServiceOf
  <2>2. c \in chosen(Elements(d.candidates))
    BY <1>2
  <2> HIDE DEF made, chosen
  <2>3. p \in made(d).ports
    BY <2>1, <2>2
  <2> HIDE DEF inv
  <2>4. QED
    BY <1>1, <2>3
<1>3. ASSUME c.id \in Elements(decision.retained)
      PROVE  p \in inv.ports
  <2>1. Retained(c).ports = c.ports
    BY DEF Retained, ServiceOf
  <2>2. Retained(c) \in built
    BY <1>3
  <2> HIDE DEF inv, built
  <2>3. QED
    BY <1>1, <2>1, <2>2
<1>4. ASSUME c.id \in Elements(decision.filtered)
      PROVE  <<c.id, "exposed">> \in inv.questions
  <2>1. <<c.id, "exposed">> \in Questions(selection, decision, built)
    BY <1>4 DEF Questions
  <2> HIDE DEF inv, built
  <2>2. QED
    BY <1>1, <2>1
<1>5. Placed(c, decision)
  OBVIOUS
<1>6. QED
  BY <1>2, <1>3, <1>4, <1>5 DEF Placed

\* The inventory part of ProtectedKept; the others are parts of SelectedInv and UnusedInv.
ShownInv == Chosen => Shown(selection, inventory)

LEMMA SoundPlaces ==
  ASSUME IsFiniteSet(IdsOf(selection.candidates)), NEW a, Sound(a)
  PROVE  \A c \in selection.candidates : Placed(c, a.decision)
<1>1. CASE a = Completed(a.decision) /\ \E allowed \in BOOLEAN : Valid(a.decision, Input, allowed)
  BY <1>1, ValidPlaces
<1>2. CASE \E error \in Kinds : a = Degraded(Input, error)
  BY <1>2, DegradedPlaces
<1>3. QED
  BY <1>1, <1>2 DEF Sound

LEMMA NextShown == ArtifactInv /\ SelectedInv /\ ShownInv /\ [Next]_vars => ShownInv'
<1> SUFFICES ASSUME ArtifactInv, SelectedInv, ShownInv, [Next]_vars PROVE ShownInv'
  OBVIOUS
<1>1. CASE Select
  <2>1. inventory' = LocalInventory(selection')
    BY <1>1 DEF Select
  <2>2. Shown(selection', LocalInventory(selection'))
    BY LocalShown
  <2>3. QED
    BY <2>1, <2>2 DEF ShownInv
<1>2. CASE Finalize
  <2>1. inventory' = FinalInventory(selection, artifact) /\ selection' = selection
    BY <1>2 DEF Finalize, local
  <2>2. Sound(artifact) /\ IsFiniteSet(IdsOf(selection.candidates))
    BY <1>2 DEF Finalize, ArtifactInv, SelectedInv, Decided, Before, Chosen
  <2>3. Shown(selection, FinalInventory(selection, artifact))
    BY <2>2, SoundPlaces, FinalShown
  <2>4. QED
    BY <2>1, <2>3 DEF ShownInv
<1>3. CASE ~Chosen' \/ (inventory' = inventory /\ local' = local /\ Chosen)
  BY <1>3 DEF ShownInv, local
<1>4. QED
  BY <1>1, <1>2, <1>3, InventorySteps

-----------------------------------------------------------------------------
(* What can be reached. *)

Less == {p \in Nat \X Nat : p[1] < p[2]}

\* A nonempty set of naturals has a first element.
LEMMA LeastOf ==
  ASSUME NEW T \in SUBSET Nat, T # {}
  PROVE  \E x \in T : \A y \in T : x <= y
<1>1. IsWellFoundedOn(Less, Nat)
  BY NatLessThanWellFounded DEF OpToRel, Less
<1>2. \E x \in T : \A y \in T : ~(<<y, x>> \in Less)
  BY <1>1, WFMin, Zenon
<1>3. PICK x \in T : \A y \in T : <<y, x>> \notin Less
  BY <1>2
<1>4. ASSUME NEW y \in T PROVE x <= y
  <2>1. ~(y < x)
    BY <1>3 DEF Less
  <2>2. QED
    BY <2>1
<1>5. QED
  BY <1>4

\* A property of 0 that is handed on from each number to the next holds of all.
LEMMA Upwards ==
  ASSUME NEW n \in Nat, NEW Good, 0 \in Good,
         \A k \in 1..n : k - 1 \in Good => k \in Good
  PROVE  \A k \in 0..n : k \in Good
<1> DEFINE Bad == {k \in 0..n : k \notin Good}
<1>1. SUFFICES ASSUME Bad # {} PROVE FALSE
  OBVIOUS
<1>2. Bad \in SUBSET Nat
  OBVIOUS
<1>3. PICK k \in Bad : \A j \in Bad : k <= j
  BY <1>1, <1>2, LeastOf
<1>4. k \in 1..n /\ k - 1 \in 0..n
  BY <1>3
<1>5. k - 1 \notin Bad
  BY <1>3, <1>4
<1>6. QED
  BY <1>3, <1>4, <1>5

\* The results that a loop of n turns may have, turn by turn.
Results(n, S, start, turn) ==
  {g \in [0..n -> S] : g[0] = start /\ \A k \in 1..n : g[k] = turn[k][g[k - 1]]}

LEMMA Iteration ==
  ASSUME NEW n \in Nat, NEW S, NEW start \in S, NEW turn \in [1..n -> [S -> S]]
  PROVE  Results(n, S, start, turn) # {}
<1> DEFINE Run(g, m) == g[0] = start /\ \A k \in 1..m : g[k] = turn[k][g[k - 1]]
           Good == {m \in 0..n : \E g \in [0..m -> S] : Run(g, m)}
<1>1. 0 \in Good
  <2> DEFINE g == [k \in 0..0 |-> start]
  <2>1. Run(g, 0) /\ g \in [0..0 -> S]
    OBVIOUS
  <2> HIDE DEF Run, g
  <2>2. QED
    BY <2>1
<1>2. ASSUME NEW m \in 1..n, m - 1 \in Good PROVE m \in Good
  <2>1. PICK g \in [0..m - 1 -> S] : Run(g, m - 1)
    BY <1>2
  <2> DEFINE next == turn[m][g[m - 1]]
             h == [k \in 0..m |-> IF k = m THEN next ELSE g[k]]
  <2>2. next \in S /\ h \in [0..m -> S]
    OBVIOUS
  <2>3. Run(h, m)
    <3>1. h[0] = start
      BY <2>1
    <3>2. ASSUME NEW k \in 1..m PROVE h[k] = turn[k][h[k - 1]]
      <4>1. h[k - 1] = g[k - 1]
        OBVIOUS
      <4>2. CASE k = m
        <5>1. h[k] = turn[m][g[m - 1]]
          BY <4>2
        <5>2. QED
          BY <4>1, <4>2, <5>1
      <4>3. CASE k # m
        <5>1. h[k] = g[k] /\ k \in 1..m - 1
          BY <4>3
        <5>2. g[k] = turn[k][g[k - 1]]
          BY <2>1, <5>1
        <5>3. QED
          BY <4>1, <5>1, <5>2
      <4>4. QED
        BY <4>2, <4>3
    <3>3. QED
      BY <3>1, <3>2
  <2> HIDE DEF Run, h
  <2>4. QED
    BY <2>2, <2>3
<1>3. n \in Good
  <2> HIDE DEF Good
  <2>1. \A k \in 0..n : k \in Good
    BY <1>1, <1>2, Upwards
  <2>2. QED
    BY <2>1
<1>4. QED
  BY <1>3 DEF Results

\* A set that has whatever a pair leads to from it.
ClosedUnder(C, pairs) == \A q \in pairs : q[1] \in C => q[2] \in C

\* The sets that are found step by step.
Stages(n, S, pairs, start) ==
  {g \in [0..n -> SUBSET S] : /\ g[0] = start
                              /\ \A k \in 1..n : g[k] = Beyond(g[k - 1], pairs)
                              /\ Reached(start, pairs, n) = g[n]}

LEMMA StagesExist ==
  ASSUME NEW n \in Nat, NEW S, NEW pairs, \A q \in pairs : q[2] \in S, NEW start \in SUBSET S
  PROVE  Stages(n, S, pairs, start) # {}
<1> DEFINE P == SUBSET S
           turn == [k \in 1..n |-> [X \in P |-> Beyond(X, pairs)]]
<1>1. \A X \in P : Beyond(X, pairs) \in P
  BY DEF Beyond
<1>2. turn \in [1..n -> [P -> P]]
  <2> HIDE DEF P
  <2>1. QED
    BY <1>1 DEF P
<1>3. PICK g \in [0..n -> P] : g[0] = start /\ \A k \in 1..n : g[k] = turn[k][g[k - 1]]
  <2>1. start \in P
    OBVIOUS
  <2> HIDE DEF P, turn
  <2>2. Results(n, P, start, turn) # {}
    BY <1>2, <2>1, Iteration
  <2>3. QED
    BY <2>2 DEF Results
<1>4. \A k \in 1..n : g[k] = Beyond(g[k - 1], pairs)
  <2> HIDE DEF P
  <2>1. ASSUME NEW k \in 1..n PROVE g[k] = Beyond(g[k - 1], pairs)
    <3>1. k - 1 \in 0..n
      OBVIOUS
    <3>2. g[k - 1] \in P
      BY <1>3, <3>1
    <3>3. QED
      BY <1>3, <3>2
  <2>2. QED
    BY <2>1
<1> DEFINE Equation(f) ==
             f = [k \in 0..n |-> IF k = 0 THEN start ELSE Beyond(f[k - 1], pairs)]
           f0 == CHOOSE f : Equation(f)
<1>5. Reached(start, pairs, n) = f0[n]
  BY Zenon DEF Reached
<1>6. Equation(g)
  <2>1. \A k \in 0..n : g[k] = IF k = 0 THEN start ELSE Beyond(g[k - 1], pairs)
    BY <1>3, <1>4
  <2>2. g = [k \in 0..n |-> g[k]]
    BY <1>3
  <2>3. QED
    BY <2>1, <2>2
<1>7. Equation(f0)
  <2> HIDE DEF Equation
  <2>1. QED
    BY <1>6, Zenon
<1> HIDE DEF f0, turn
<1>8. /\ f0[0] = start
      /\ \A k \in 1..n : f0[k] = Beyond(f0[k - 1], pairs)
      /\ f0 = [k \in 0..n |-> f0[k]]
  <2>1. \A k \in 0..n : f0[k] = IF k = 0 THEN start ELSE Beyond(f0[k - 1], pairs)
    BY <1>7
  <2>2. QED
    BY <1>7, <2>1
<1> HIDE DEF Equation
<1>9. \A k \in 0..n : f0[k] \in P
  <2> DEFINE Good == {k \in 0..n : f0[k] \in P}
  <2>1. 0 \in Good
    BY <1>8
  <2>2. ASSUME NEW k \in 1..n, k - 1 \in Good PROVE k \in Good
    <3> HIDE DEF P
    <3>1. f0[k - 1] \in P
      BY <2>2
    <3>2. f0[k] = Beyond(f0[k - 1], pairs)
      BY <1>8
    <3>3. k \in 0..n
      OBVIOUS
    <3>4. QED
      BY <1>1, <3>1, <3>2, <3>3
  <2> HIDE DEF Good
  <2>3. \A k \in 0..n : k \in Good
    BY <2>1, <2>2, Upwards
  <2>4. QED
    BY <2>3 DEF Good
<1>10. f0 \in [0..n -> P]
  <2> HIDE DEF P
  <2>1. QED
    BY <1>8, <1>9
<1>11. QED
  BY <1>5, <1>8, <1>10 DEF Stages

\* find(), the closure of the processes below an entry and the groups of a union-find: what
\* is reached in as many steps as there are objects is the least closed set.
LEMMA ReachedIsLeast ==
  ASSUME NEW S, IsFiniteSet(S), NEW pairs, \A q \in pairs : q[2] \in S,
         NEW start \in SUBSET S, NEW n, n = Cardinality(S)
  PROVE  /\ start \subseteq Reached(start, pairs, n)
         /\ Reached(start, pairs, n) \subseteq S
         /\ ClosedUnder(Reached(start, pairs, n), pairs)
         /\ \A C : start \subseteq C /\ ClosedUnder(C, pairs) => Reached(start, pairs, n) \subseteq C
<1>1. n \in Nat
  BY FS_CardinalityType
<1>2. PICK g \in [0..n -> SUBSET S] :
        /\ g[0] = start
        /\ \A k \in 1..n : g[k] = Beyond(g[k - 1], pairs)
        /\ Reached(start, pairs, n) = g[n]
  <2>1. Stages(n, S, pairs, start) # {}
    BY <1>1, StagesExist
  <2>2. QED
    BY <2>1 DEF Stages
<1>3. \A k \in 1..n : g[k - 1] \subseteq g[k]
  BY <1>2 DEF Beyond
<1>4. \A k \in 0..n : start \subseteq g[k]
  <2> DEFINE Good == {k \in 0..n : start \subseteq g[k]}
  <2>1. 0 \in Good
    BY <1>1, <1>2
  <2>2. \A k \in 1..n : k - 1 \in Good => k \in Good
    BY <1>3
  <2> HIDE DEF Good
  <2>3. \A k \in 0..n : k \in Good
    BY <1>1, <2>1, <2>2, Upwards
  <2>4. QED
    BY <2>3 DEF Good
<1>5. ASSUME NEW C, start \subseteq C, ClosedUnder(C, pairs)
      PROVE  g[n] \subseteq C
  <2> DEFINE Good == {k \in 0..n : g[k] \subseteq C}
  <2>1. 0 \in Good
    BY <1>1, <1>2, <1>5
  <2>2. ASSUME NEW k \in 1..n, k - 1 \in Good PROVE k \in Good
    <3>1. g[k] = Beyond(g[k - 1], pairs) /\ g[k - 1] \subseteq C
      BY <1>2, <2>2
    <3>2. Beyond(g[k - 1], pairs) \subseteq C
      BY <1>5, <3>1 DEF Beyond, ClosedUnder
    <3>3. QED
      BY <3>1, <3>2
  <2> HIDE DEF Good
  <2>3. \A k \in 0..n : k \in Good
    BY <1>1, <2>1, <2>2, Upwards
  <2>4. QED
    BY <1>1, <2>3 DEF Good
\* A step that finds nothing is followed by none that does; until then every step finds one
\* object more.
<1>6. ClosedUnder(g[n], pairs)
  <2> DEFINE Good == {k \in 0..n : ClosedUnder(g[k], pairs) \/ Cardinality(g[k]) >= k}
  <2>1. \A k \in 0..n : IsFiniteSet(g[k]) /\ Cardinality(g[k]) \in Nat /\ Cardinality(g[k]) <= n
    BY <1>2, FS_Subset, FS_CardinalityType
  <2>2. 0 \in Good
    BY <1>1, <2>1
  <2>3. ASSUME NEW k \in 1..n, k - 1 \in Good PROVE k \in Good
    <3>1. k \in 0..n /\ k - 1 \in 0..n /\ g[k] = Beyond(g[k - 1], pairs)
      BY <1>1, <1>2
    <3>2. CASE ClosedUnder(g[k - 1], pairs)
      <4>1. g[k] = g[k - 1]
        BY <3>1, <3>2 DEF Beyond, ClosedUnder
      <4>2. QED
        BY <3>1, <3>2, <4>1
    <3>3. CASE ~ClosedUnder(g[k - 1], pairs)
      <4>1. g[k - 1] \subseteq g[k] /\ g[k] # g[k - 1]
        BY <1>3, <3>1, <3>3 DEF Beyond, ClosedUnder
      <4>2. Cardinality(g[k - 1]) < Cardinality(g[k])
        BY <2>1, <3>1, <4>1, FS_Subset
      <4>3. Cardinality(g[k - 1]) >= k - 1
        BY <2>3, <3>3
      <4>4. QED
        BY <2>1, <3>1, <4>2, <4>3
    <3>4. QED
      BY <3>2, <3>3
  <2> HIDE DEF Good
  <2>4. \A k \in 0..n : k \in Good
    BY <1>1, <2>2, <2>3, Upwards
  <2>5. CASE Cardinality(g[n]) >= n
    <3>1. Cardinality(g[n]) = Cardinality(S) /\ g[n] \in SUBSET S
      BY <1>1, <1>2, <2>1, <2>5
    <3>2. g[n] = S
      BY <3>1, FS_Subset
    <3>3. QED
      BY <3>2 DEF ClosedUnder
  <2>6. QED
    BY <1>1, <2>4, <2>5 DEF Good
<1>7. QED
  BY <1>1, <1>2, <1>4, <1>5, <1>6

-----------------------------------------------------------------------------
(* The forest of connectedComponents. *)

\* What is above a node is the least set with it and the parents of its members.
LEMMA AboveIsLeast ==
  ASSUME NEW D, IsFiniteSet(D), NEW p \in [D -> D], NEW node \in D
  PROVE  /\ node \in Above(p, node)
         /\ Above(p, node) \subseteq D
         /\ \A m \in Above(p, node) : p[m] \in Above(p, node)
         /\ \A C : node \in C /\ (\A m \in D : m \in C => p[m] \in C) => Above(p, node) \subseteq C
<1> DEFINE pairs == {<<m, p[m]>> : m \in D}
           up == Reached({node}, pairs, Cardinality(D))
<1>1. DOMAIN p = D
  OBVIOUS
<1>2. Above(p, node) = up
  BY <1>1 DEF Above
<1>3. \A q \in pairs : q[2] \in D
  OBVIOUS
<1>4. {node} \in SUBSET D
  OBVIOUS
<1> HIDE DEF pairs
<1>5. /\ {node} \subseteq up
      /\ up \subseteq D
      /\ ClosedUnder(up, pairs)
      /\ \A C : {node} \subseteq C /\ ClosedUnder(C, pairs) => up \subseteq C
  BY <1>3, <1>4, ReachedIsLeast
<1> HIDE DEF up
<1>6. ASSUME NEW m \in D, m \in up PROVE p[m] \in up
  <2>1. <<m, p[m]>> \in pairs
    BY DEF pairs
  <2>2. <<m, p[m]>>[1] \in up => <<m, p[m]>>[2] \in up
    BY <1>5, <2>1, Zenon DEF ClosedUnder
  <2>3. QED
    BY <1>6, <2>2
<1>7. ASSUME NEW C, node \in C, \A m \in D : m \in C => p[m] \in C
      PROVE  up \subseteq C
  <2>1. ClosedUnder(C, pairs)
    BY <1>7 DEF ClosedUnder, pairs
  <2>2. QED
    BY <1>5, <1>7, <2>1
<1>8. QED
  BY <1>2, <1>5, <1>6, <1>7

\* Every node has a root above it.
Forest(p, D) ==
  /\ p \in [D -> D]
  /\ \A n \in D : \E r \in Above(p, n) : p[r] = r

LEMMA AboveParent ==
  ASSUME NEW D, IsFiniteSet(D), NEW p \in [D -> D], NEW n \in D
  PROVE  /\ p[n] \in D
         /\ Above(p, p[n]) \subseteq Above(p, n)
         /\ Above(p, n) \subseteq {n} \cup Above(p, p[n])
<1>1. p[n] \in D /\ p[n] \in Above(p, n)
  BY AboveIsLeast
<1>2. Above(p, p[n]) \subseteq Above(p, n)
  BY <1>1, AboveIsLeast
<1>3. Above(p, n) \subseteq {n} \cup Above(p, p[n])
  <2> DEFINE C == {n} \cup Above(p, p[n])
  <2>1. \A m \in D : m \in C => p[m] \in C
    BY <1>1, AboveIsLeast
  <2>2. n \in C
    OBVIOUS
  <2> HIDE DEF C
  <2>3. Above(p, n) \subseteq C
    BY <2>1, <2>2, AboveIsLeast
  <2>4. QED
    BY <2>3 DEF C
<1>4. QED
  BY <1>1, <1>2, <1>3

\* There is one root above a node.
LEMMA OneRoot ==
  ASSUME NEW D, IsFiniteSet(D), NEW p \in [D -> D], NEW n \in D,
         NEW r \in Above(p, n), NEW t \in Above(p, n), p[r] = r, p[t] = t
  PROVE  r = t
<1>1. r \in D /\ t \in D
  BY AboveIsLeast
<1> DEFINE C == {m \in D : r \in Above(p, m)}
<1>2. n \in C
  OBVIOUS
<1>3. ASSUME NEW m \in D, m \in C PROVE p[m] \in C
  <2>1. CASE m = r
    BY <1>3, <2>1
  <2>2. CASE m # r
    <3>1. r \in Above(p, p[m]) /\ p[m] \in D
      BY <1>3, <2>2, AboveParent
    <3>2. QED
      BY <3>1
  <2>3. QED
    BY <2>1, <2>2
<1> HIDE DEF C
<1>4. t \in C
  BY <1>2, <1>3, AboveIsLeast
<1>5. r \in Above(p, t)
  BY <1>4 DEF C
<1>6. Above(p, t) \subseteq {t}
  <2>1. \A m \in D : m \in {t} => p[m] \in {t}
    OBVIOUS
  <2>2. QED
    BY <1>1, <2>1, AboveIsLeast
<1>7. QED
  BY <1>5, <1>6

\* find() returns the root, which a node shares with its parent.
LEMMA RootFacts ==
  ASSUME NEW D, IsFiniteSet(D), NEW p, Forest(p, D), NEW n \in D
  PROVE  /\ RootOf(p, n) \in D
         /\ RootOf(p, n) \in Above(p, n)
         /\ p[RootOf(p, n)] = RootOf(p, n)
         /\ p[n] \in D
         /\ RootOf(p, p[n]) = RootOf(p, n)
         /\ \A r \in Above(p, n) : p[r] = r => RootOf(p, n) = r
<1>1. p \in [D -> D]
  BY DEF Forest
<1>2. \A m \in D : RootOf(p, m) \in Above(p, m) /\ p[RootOf(p, m)] = RootOf(p, m)
  BY DEF Forest, RootOf
<1>3. RootOf(p, n) \in D
  BY <1>1, <1>2, AboveIsLeast
<1>4. \A r \in Above(p, n) : p[r] = r => RootOf(p, n) = r
  BY <1>1, <1>2, OneRoot
<1>5. p[n] \in D /\ Above(p, p[n]) \subseteq Above(p, n)
  BY <1>1, AboveParent
<1>6. RootOf(p, p[n]) = RootOf(p, n)
  BY <1>2, <1>4, <1>5
<1>7. QED
  BY <1>2, <1>3, <1>4, <1>5, <1>6

LEMMA RootsAbove ==
  ASSUME NEW D, IsFiniteSet(D), NEW p, Forest(p, D), NEW n \in D, NEW m \in Above(p, n)
  PROVE  m \in D /\ RootOf(p, m) = RootOf(p, n)
<1> DEFINE C == {k \in D : RootOf(p, k) = RootOf(p, n)}
<1>1. p \in [D -> D]
  BY DEF Forest
<1>2. \A k \in D : k \in C => p[k] \in C
  BY RootFacts
<1>3. n \in C
  OBVIOUS
<1> HIDE DEF C
<1>4. m \in C
  BY <1>1, <1>2, <1>3, AboveIsLeast
<1>5. QED
  BY <1>4 DEF C

\* A forest q in which each node is a root of its own, hangs below its new root, or below
\* the same parent as before, if it had one, has the new roots.
LEMMA Rerooted ==
  ASSUME NEW D, IsFiniteSet(D), NEW p, Forest(p, D), NEW q \in [D -> D], NEW root \in [D -> D],
         \A k \in D : q[root[k]] = root[k],
         \A k \in D : \/ root[k] = k
                      \/ q[k] = root[k]
                      \/ q[k] = p[k] /\ p[k] # k /\ root[p[k]] = root[k]
  PROVE  /\ Forest(q, D)
         /\ \A k \in D : RootOf(q, k) = root[k]
<1> DEFINE Stray == {k \in D : root[k] \notin Above(q, k)}
<1>1. p \in [D -> D]
  BY DEF Forest
<1>2. ASSUME NEW k \in Stray
      PROVE  p[k] \in Stray /\ p[k] # k
  <2>1. root[k] # k /\ q[k] # root[k]
    BY AboveIsLeast
  <2>2. q[k] = p[k] /\ p[k] # k /\ root[p[k]] = root[k]
    BY <2>1
  <2>3. p[k] \in D /\ Above(q, p[k]) \subseteq Above(q, k)
    BY <2>2, AboveParent
  <2>4. QED
    BY <2>2, <2>3
<1>3. Stray = {}
  <2>1. SUFFICES ASSUME NEW k \in Stray PROVE FALSE
    OBVIOUS
  <2>2. k \in D
    OBVIOUS
  <2> HIDE DEF Stray
  <2>3. Above(p, k) \subseteq Stray
    BY <1>1, <1>2, <2>2, AboveIsLeast
  <2>4. RootOf(p, k) \in Above(p, k) /\ p[RootOf(p, k)] = RootOf(p, k)
    BY <2>2, RootFacts
  <2>5. QED
    BY <1>2, <2>3, <2>4
<1>4. \A k \in D : root[k] \in Above(q, k) /\ q[root[k]] = root[k]
  BY <1>3
<1>5. Forest(q, D)
  BY <1>4 DEF Forest
<1>6. QED
  BY <1>4, <1>5, RootFacts

\* find() gives the nodes on its way a shorter way to the same root.
LEMMA CompressedForest ==
  ASSUME NEW D, IsFiniteSet(D), NEW p, Forest(p, D), NEW x \in D
  PROVE  /\ Forest(Compressed(p, x), D)
         /\ \A k \in D : RootOf(Compressed(p, x), k) = RootOf(p, k)
<1> DEFINE q == Compressed(p, x)
           root == [k \in D |-> RootOf(p, k)]
<1>1. p \in [D -> D]
  BY DEF Forest
<1>2. root \in [D -> D]
  BY RootFacts
<1>3. \A k \in D : q[k] = IF k \in Above(p, x) THEN RootOf(p, x) ELSE p[k]
  BY <1>1 DEF Compressed
<1>4. \A k \in D : k \in Above(p, x) => RootOf(p, k) = RootOf(p, x)
  BY RootsAbove
<1>5. q \in [D -> D]
  <2>1. RootOf(p, x) \in D
    BY RootFacts
  <2>2. QED
    BY <1>1, <2>1 DEF Compressed
<1> HIDE DEF q
<1>6. ASSUME NEW k \in D PROVE q[root[k]] = root[k]
  <2>1. RootOf(p, k) \in D /\ p[RootOf(p, k)] = RootOf(p, k)
    BY RootFacts
  <2>2. RootOf(p, RootOf(p, k)) = RootOf(p, k)
    BY <2>1, RootFacts, RootsAbove
  <2>3. QED
    BY <1>3, <1>4, <2>1, <2>2
<1>7. ASSUME NEW k \in D
      PROVE  \/ root[k] = k
             \/ q[k] = root[k]
             \/ q[k] = p[k] /\ p[k] # k /\ root[p[k]] = root[k]
  <2>1. CASE k \in Above(p, x)
    BY <1>3, <1>4, <2>1
  <2>2. CASE p[k] = k
    <3>1. k \in Above(p, k)
      BY <1>1, AboveIsLeast
    <3>2. QED
      BY <2>2, <3>1, RootFacts
  <2>3. CASE k \notin Above(p, x) /\ p[k] # k
    <3>1. p[k] \in D /\ RootOf(p, p[k]) = RootOf(p, k)
      BY RootFacts
    <3>2. QED
      BY <1>3, <2>3, <3>1
  <2>4. QED
    BY <2>1, <2>2, <2>3
<1> HIDE DEF root
<1>8. Forest(q, D) /\ \A k \in D : RootOf(q, k) = root[k]
  BY <1>2, <1>5, <1>6, <1>7, Rerooted
<1>9. QED
  BY <1>8 DEF q, root

\* union(): the nodes of the right root are put below the left one.
LEMMA UnitedForest ==
  ASSUME NEW D, IsFiniteSet(D), NEW p, Forest(p, D), NEW left \in D, NEW right \in D
  PROVE  /\ Forest(United(p, left, right), D)
         /\ \A k \in D : RootOf(United(p, left, right), k)
                           = IF RootOf(p, k) = RootOf(p, right) THEN RootOf(p, left)
                             ELSE RootOf(p, k)
<1> DEFINE c == Compressed(Compressed(p, left), right)
           q == United(p, left, right)
           L == RootOf(p, left)
           R == RootOf(p, right)
           root == [k \in D |-> IF RootOf(p, k) = R THEN L ELSE RootOf(p, k)]
<1>1. Forest(c, D) /\ \A k \in D : RootOf(c, k) = RootOf(p, k)
  BY CompressedForest
<1>2. c \in [D -> D]
  BY <1>1 DEF Forest
<1>3. /\ \A k \in D : RootOf(p, k) \in D
      /\ \A k \in D : c[RootOf(p, k)] = RootOf(p, k) /\ RootOf(p, RootOf(p, k)) = RootOf(p, k)
      /\ \A k \in D : c[k] \in D /\ RootOf(p, c[k]) = RootOf(p, k)
      /\ \A k \in D : c[k] = k => RootOf(p, k) = k
  <2>1. \A k \in D : /\ RootOf(c, k) \in D /\ c[RootOf(c, k)] = RootOf(c, k)
                     /\ c[k] \in D /\ RootOf(c, c[k]) = RootOf(c, k)
    BY <1>1, RootFacts
  <2>2. \A k \in D : c[k] = k => RootOf(c, k) = k
    BY <1>1, <1>2, RootFacts, AboveIsLeast
  <2> HIDE DEF c
  <2>3. QED
    BY <1>1, <2>1, <2>2
<1>4. q = [c EXCEPT ![R] = L]
  BY DEF United
<1> HIDE DEF c, q, L, R
<1>5. L \in D /\ R \in D /\ c[L] = L /\ RootOf(p, L) = L /\ RootOf(p, R) = R
  BY <1>3 DEF L, R
<1>6. q \in [D -> D] /\ \A k \in D : q[k] = IF k = R THEN L ELSE c[k]
  BY <1>2, <1>4, <1>5
<1>7. root \in [D -> D] /\ \A k \in D : root[k] = IF RootOf(p, k) = R THEN L ELSE RootOf(p, k)
  BY <1>3, <1>5
<1> HIDE DEF root
<1>8. ASSUME NEW k \in D PROVE q[root[k]] = root[k]
  <2>1. CASE RootOf(p, k) = R
    BY <1>5, <1>6, <1>7, <2>1
  <2>2. CASE RootOf(p, k) # R
    BY <1>3, <1>6, <1>7, <2>2
  <2>3. QED
    BY <2>1, <2>2
<1>9. ASSUME NEW k \in D
      PROVE  \/ root[k] = k
             \/ q[k] = root[k]
             \/ q[k] = c[k] /\ c[k] # k /\ root[c[k]] = root[k]
  <2>1. CASE k = R
    BY <1>5, <1>6, <1>7, <2>1
  <2>2. CASE k # R /\ c[k] = k
    BY <1>3, <1>7, <2>2
  <2>3. CASE k # R /\ c[k] # k
    BY <1>3, <1>6, <1>7, <2>3
  <2>4. QED
    BY <2>1, <2>2, <2>3
<1>10. Forest(q, D) /\ \A k \in D : RootOf(q, k) = root[k]
  BY <1>1, <1>6, <1>7, <1>8, <1>9, Rerooted
<1>11. QED
  BY <1>7, <1>10 DEF q, L, R

-----------------------------------------------------------------------------
(* Groups of linked objects. *)

Linked(a, b, links) == <<a, b>> \in links \/ <<b, a>> \in links

\* A union-find merges what is linked, and nothing else.
LEMMA GroupIsLeast ==
  ASSUME NEW D, IsFiniteSet(D), NEW links, \A l \in links : l = <<l[1], l[2]>>, NEW n \in D
  PROVE  /\ n \in GroupOf(n, D, links)
         /\ GroupOf(n, D, links) \subseteq D
         /\ \A a, b \in D : Linked(a, b, links) /\ a \in GroupOf(n, D, links)
                              => b \in GroupOf(n, D, links)
         /\ \A C : n \in C /\ (\A a, b \in D : Linked(a, b, links) /\ a \in C => b \in C)
                     => GroupOf(n, D, links) \subseteq C
<1> DEFINE known == {l \in links : Range(l) \subseteq D}
           pairs == known \cup {<<l[2], l[1]>> : l \in known}
           group == Reached({n}, pairs, Cardinality(D))
<1>1. GroupOf(n, D, links) = group
  BY DEF GroupOf
<1>2. \A l \in links : Range(l) = {l[1], l[2]}
  <2>1. ASSUME NEW a, NEW b PROVE Range(<<a, b>>) = {a, b}
    BY DEF Range
  <2>2. QED
    BY <2>1
<1>3. \A q \in pairs : \E a, b \in D : q = <<a, b>> /\ Linked(a, b, links)
  <2>1. ASSUME NEW l \in known
        PROVE  /\ l[1] \in D /\ l[2] \in D /\ l = <<l[1], l[2]>>
               /\ Linked(l[1], l[2], links) /\ Linked(l[2], l[1], links)
    BY <1>2, <2>1 DEF Linked
  <2> HIDE DEF known
  <2>2. QED
    BY <2>1
<1>4. \A a, b \in D : Linked(a, b, links) => <<a, b>> \in pairs
  <2>1. ASSUME NEW a \in D, NEW b \in D, <<a, b>> \in links
        PROVE  <<a, b>> \in known
    BY <1>2, <2>1
  <2>2. ASSUME NEW a \in D, NEW b \in D, <<b, a>> \in links
        PROVE  <<a, b>> \in {<<l[2], l[1]>> : l \in known}
    <3>1. <<b, a>> \in known
      BY <1>2, <2>2
    <3> HIDE DEF known
    <3>2. QED
      BY <3>1
  <2> HIDE DEF known
  <2>3. QED
    BY <2>1, <2>2 DEF Linked
<1> HIDE DEF pairs
<1>5. /\ {n} \subseteq group
      /\ group \subseteq D
      /\ ClosedUnder(group, pairs)
      /\ \A C : {n} \subseteq C /\ ClosedUnder(C, pairs) => group \subseteq C
  <2>1. \A q \in pairs : q[2] \in D
    BY <1>3
  <2>2. {n} \in SUBSET D
    OBVIOUS
  <2>3. QED
    BY <2>1, <2>2, ReachedIsLeast
<1> HIDE DEF group
<1>6. ASSUME NEW a \in D, NEW b \in D, Linked(a, b, links), a \in group
      PROVE  b \in group
  <2>1. <<a, b>> \in pairs
    BY <1>4, <1>6
  <2>2. <<a, b>>[1] \in group => <<a, b>>[2] \in group
    BY <1>5, <2>1, Zenon DEF ClosedUnder
  <2>3. QED
    BY <1>6, <2>2
<1>7. ASSUME NEW C, n \in C, \A a, b \in D : Linked(a, b, links) /\ a \in C => b \in C
      PROVE  group \subseteq C
  <2>1. ClosedUnder(C, pairs)
    BY <1>3, <1>7 DEF ClosedUnder
  <2>2. QED
    BY <1>5, <1>7, <2>1
<1>8. QED
  BY <1>1, <1>5, <1>6, <1>7

LEMMA GroupsAgree ==
  ASSUME NEW D, IsFiniteSet(D), NEW links, \A l \in links : l = <<l[1], l[2]>>,
         NEW n \in D, NEW m \in GroupOf(n, D, links)
  PROVE  m \in D /\ GroupOf(m, D, links) = GroupOf(n, D, links)
<1> DEFINE G(k) == GroupOf(k, D, links)
           C == {k \in D : n \in G(k)}
<1>1. /\ \A k \in D : k \in G(k) /\ G(k) \subseteq D
      /\ \A k, a, b \in D : Linked(a, b, links) /\ a \in G(k) => b \in G(k)
  BY GroupIsLeast
<1>2. ASSUME NEW k \in D, NEW j \in G(k) PROVE G(j) \subseteq G(k)
  <2>1. j \in D
    BY <1>1
  <2>2. \A a, b \in D : Linked(a, b, links) /\ a \in G(k) => b \in G(k)
    BY <1>1
  <2>3. QED
    BY <2>1, <2>2, GroupIsLeast
<1> HIDE DEF G
<1>3. ASSUME NEW a \in D, NEW b \in D, Linked(a, b, links), a \in C PROVE b \in C
  <2>1. Linked(b, a, links)
    BY <1>3 DEF Linked
  <2>2. a \in G(b)
    BY <1>1, <2>1
  <2>3. QED
    BY <1>2, <1>3, <2>2
<1>4. n \in C
  BY <1>1
<1> HIDE DEF C
<1>5. m \in C
  <2>1. G(n) \subseteq C
    BY <1>3, <1>4, GroupIsLeast DEF G
  <2>2. QED
    BY <2>1 DEF G
<1>6. m \in D /\ n \in G(m) /\ m \in G(n)
  BY <1>5 DEF C, G
<1>7. G(m) = G(n)
  BY <1>2, <1>6
<1>8. QED
  BY <1>6, <1>7 DEF G

-----------------------------------------------------------------------------
(* The components do not depend on the order of the edges. *)

StrongLinks(g) == {<<e.from, e.to>> : e \in Strong(g.edges)}

\* The edges so far are within trees, and trees are within the groups of all edges.
Grown(g) ==
  LET D == IdsOf(g.nodes)
  IN /\ Forest(g.parents, D)
     /\ g.todo \subseteq Strong(g.edges)
     /\ \A e \in Strong(g.edges) \ g.todo : RootOf(g.parents, e.from) = RootOf(g.parents, e.to)
     /\ \A n \in D : RootOf(g.parents, n) \in GroupOf(n, D, StrongLinks(g))

ForestInv == phase = "correlating" => Grown(graph)

\* Only BuildGraph and Unite change a graph that is not yet correlated.
LEMMA GraphSteps ==
  ASSUME [Next]_vars
  PROVE  \/ BuildGraph
         \/ \E e \in graph.todo : Unite(e)
         \/ phase' = phase /\ graph' = graph /\ host' = host
         \/ phase' # "correlating"
<1>1. ASSUME Normalize \/ Select \/ Discover \/ Discovered \/ Reconcile \/ SkipReconcile
               \/ Reconciled \/ Finalize \/ Composed \/ Investigate
      PROVE  phase' # "correlating"
  BY <1>1 DEF Normalize, Select, Discover, Begin, Discovered, Reconciled, Taken, Reconcile,
     SkipReconcile, Finalize, Composed, Investigate
<1>2. ASSUME Deciding \/ Turns \/ Interrupt \/ UNCHANGED vars
      PROVE  phase' = phase /\ graph' = graph /\ host' = host
  BY <1>2 DEF Deciding, Turns, Interrupt, local, vars
<1>3. QED
  BY <1>1, <1>2 DEF Next

LEMMA StrongPairs ==
  ASSUME NEW g, Correlated(g)
  PROVE  /\ \A l \in StrongLinks(g) : l = <<l[1], l[2]>>
         /\ \A e \in Strong(g.edges) :
              /\ e.from \in IdsOf(g.nodes) /\ e.to \in IdsOf(g.nodes)
              /\ Linked(e.from, e.to, StrongLinks(g))
         /\ \A a, b : Linked(a, b, StrongLinks(g)) =>
              \E e \in Strong(g.edges) : {e.from, e.to} = {a, b}
<1>1. \A l \in StrongLinks(g) : \E e \in Strong(g.edges) : l = <<e.from, e.to>>
  BY DEF StrongLinks
<1>2. \A e \in Strong(g.edges) : <<e.from, e.to>> \in StrongLinks(g) /\ e \in g.edges
  BY DEF StrongLinks, Strong
<1>3. QED
  BY <1>1, <1>2 DEF Linked, Correlated

\* Before the first union every node is a tree.
LEMMA FirstTrees ==
  ASSUME NEW nodes, NEW edges, IsFiniteSet(IdsOf(nodes)),
         \A e \in edges : {e.from, e.to} \subseteq IdsOf(nodes)
  PROVE  LET g == [nodes |-> nodes, edges |-> edges, todo |-> Strong(edges),
                   parents |-> [n \in IdsOf(nodes) |-> n]]
         IN Correlated(g) /\ Grown(g)
<1> DEFINE D == IdsOf(nodes)
           p == [n \in D |-> n]
           g == [nodes |-> nodes, edges |-> edges, todo |-> Strong(edges), parents |-> p]
<1>1. p \in [D -> D] /\ \A n \in D : p[n] = n
  OBVIOUS
<1>2. g.nodes = nodes /\ g.edges = edges /\ g.todo = Strong(edges) /\ g.parents = p
  OBVIOUS
<1>3. Correlated(g)
  BY DEF Correlated
<1> HIDE DEF p, g, D
<1>4. Forest(p, D)
  BY <1>1, AboveIsLeast DEF Forest, D
<1>5. \A n \in D : RootOf(p, n) = n
  BY <1>1, <1>4, RootFacts, AboveIsLeast DEF D
<1>6. \A n \in D : n \in GroupOf(n, D, StrongLinks(g))
  BY <1>3, StrongPairs, GroupIsLeast DEF D
<1>7. Grown(g)
  BY <1>2, <1>4, <1>5, <1>6 DEF Grown, D
<1>8. QED
  BY <1>3, <1>7 DEF g, p, D

\* A union.
LEMMA NextTrees ==
  ASSUME NEW g, Correlated(g), Grown(g), NEW e \in g.todo,
         NEW h, h = [nodes |-> g.nodes, edges |-> g.edges, todo |-> g.todo \ {e},
                     parents |-> United(g.parents, e.from, e.to)]
  PROVE  Correlated(h) /\ Grown(h)
<1> DEFINE D == IdsOf(g.nodes)
           p == g.parents
           q == United(p, e.from, e.to)
           G(n) == GroupOf(n, D, StrongLinks(g))
<1>1. IsFiniteSet(D) /\ Forest(p, D)
  BY DEF Correlated, Grown
<1>2. e \in Strong(g.edges) /\ e.from \in D /\ e.to \in D /\ Linked(e.from, e.to, StrongLinks(g))
  BY StrongPairs DEF Grown
<1>3. DOMAIN q = DOMAIN p
  BY UnitedDomain
<1>4. /\ Forest(q, D)
      /\ \A k \in D : RootOf(q, k) = IF RootOf(p, k) = RootOf(p, e.to) THEN RootOf(p, e.from)
                                     ELSE RootOf(p, k)
  BY <1>1, <1>2, UnitedForest
<1> HIDE DEF q
<1>5. /\ h = [nodes |-> g.nodes, edges |-> g.edges, todo |-> g.todo \ {e}, parents |-> q]
      /\ h.nodes = g.nodes /\ h.edges = g.edges /\ h.todo = g.todo \ {e} /\ h.parents = q
  BY DEF q
<1>6. Correlated(h)
  BY <1>3, <1>5 DEF Correlated
<1>7. StrongLinks(h) = StrongLinks(g)
  BY <1>5 DEF StrongLinks
<1>8. ASSUME NEW f \in Strong(g.edges) \ (g.todo \ {e})
      PROVE  RootOf(q, f.from) = RootOf(q, f.to)
  <2>1. f.from \in D /\ f.to \in D
    BY StrongPairs
  <2>2. CASE f = e
    BY <1>4, <2>1, <2>2
  <2>3. CASE f # e
    <3>1. RootOf(p, f.from) = RootOf(p, f.to)
      BY <2>3 DEF Grown
    <3>2. QED
      BY <1>4, <2>1, <3>1
  <2>4. QED
    BY <2>2, <2>3
<1>9. ASSUME NEW n \in D PROVE RootOf(q, n) \in G(n)
  <2>1. \A l \in StrongLinks(g) : l = <<l[1], l[2]>>
    BY StrongPairs
  <2>2. \A k \in D : RootOf(p, k) \in G(k)
    BY DEF Grown
  <2>3. CASE RootOf(p, n) # RootOf(p, e.to)
    BY <1>4, <2>2, <2>3
  <2>4. CASE RootOf(p, n) = RootOf(p, e.to)
    <3>1. G(RootOf(p, n)) = G(n) /\ G(RootOf(p, e.to)) = G(e.to) /\ RootOf(p, e.from) \in G(e.from)
      BY <1>1, <1>2, <2>1, <2>2, GroupsAgree
    <3>2. e.to \in G(e.from)
      BY <1>1, <1>2, <2>1, GroupIsLeast
    <3>3. G(e.to) = G(e.from)
      BY <1>1, <1>2, <2>1, <3>2, GroupsAgree
    <3>4. RootOf(q, n) = RootOf(p, e.from)
      BY <1>4, <2>4
    <3> HIDE DEF G
    <3>5. QED
      BY <2>4, <3>1, <3>3, <3>4
  <2>5. QED
    BY <2>3, <2>4
<1>10. Grown(h)
  <2>1. g.todo \subseteq Strong(g.edges)
    BY DEF Grown
  <2>2. QED
    BY <1>4, <1>5, <1>7, <1>8, <1>9, <2>1 DEF Grown
<1>11. QED
  BY <1>6, <1>10

LEMMA NextForest == GraphInv /\ ForestInv /\ [Next]_vars => ForestInv'
<1> SUFFICES ASSUME GraphInv, ForestInv, [Next]_vars PROVE ForestInv'
  OBVIOUS
<1>1. CASE BuildGraph
  <2>1. PICK h \in Hosts : host = Tidied(h)
    BY <1>1 DEF BuildGraph, GraphInv
  <2> DEFINE nodes == Nodes(host, Seeds(host))
             edges == Edges(host, Seeds(host))
  <2>2. graph' = [nodes |-> nodes, edges |-> edges, todo |-> Strong(edges),
                  parents |-> [n \in IdsOf(nodes) |-> n]]
    BY <1>1 DEF BuildGraph
  <2>3. IsFiniteSet(IdsOf(nodes))
    BY <2>1, HostAssumption
  <2>4. \A e \in edges : {e.from, e.to} \subseteq IdsOf(nodes)
    BY DEF Edges, IdsOf
  <2> HIDE DEF nodes, edges
  <2>5. Grown(graph')
    BY <2>2, <2>3, <2>4, FirstTrees
  <2>6. QED
    BY <2>5 DEF ForestInv, Grown, StrongLinks
<1>2. CASE \E e \in graph.todo : Unite(e)
  <2>1. PICK e \in graph.todo : Unite(e)
    BY <1>2
  <2>2. Correlated(graph) /\ Grown(graph)
    BY <2>1 DEF Unite, GraphInv, ForestInv
  <2>3. Grown(graph')
    BY <2>1, <2>2, UniteStep, NextTrees
  <2>4. QED
    BY <2>3 DEF ForestInv, Grown, StrongLinks
<1>3. CASE phase' = phase /\ graph' = graph
  BY <1>3 DEF ForestInv, Grown, StrongLinks
<1>4. CASE phase' # "correlating"
  BY <1>4 DEF ForestInv
<1>5. QED
  BY <1>1, <1>2, <1>3, <1>4, GraphSteps

\* When no edge is left, a tree is the group of its nodes.
LEMMA TreesAreGroups ==
  ASSUME NEW g, Correlated(g), Grown(g), g.todo = {}
  PROVE  Components(g.parents) = Partition(IdsOf(g.nodes), StrongLinks(g))
<1> DEFINE D == IdsOf(g.nodes)
           p == g.parents
           G(n) == GroupOf(n, D, StrongLinks(g))
           tree(n) == {m \in D : RootOf(p, m) = RootOf(p, n)}
<1>1. IsFiniteSet(D) /\ Forest(p, D) /\ DOMAIN p = D
  BY DEF Correlated, Grown
<1>2. \A l \in StrongLinks(g) : l = <<l[1], l[2]>>
  BY StrongPairs
<1>3. ASSUME NEW n \in D PROVE tree(n) = G(n)
  <2>1. \A k \in D : RootOf(p, k) \in G(k)
    BY DEF Grown
  <2>2. ASSUME NEW m \in tree(n) PROVE m \in G(n)
    <3>1. G(RootOf(p, m)) = G(m) /\ G(RootOf(p, n)) = G(n) /\ m \in G(m)
      BY <1>1, <1>2, <2>1, GroupsAgree, GroupIsLeast
    <3> HIDE DEF G
    <3>2. QED
      BY <2>2, <3>1
  <2>3. ASSUME NEW a \in D, NEW b \in D, Linked(a, b, StrongLinks(g)), a \in tree(n)
        PROVE  b \in tree(n)
    <3>1. PICK e \in Strong(g.edges) : {e.from, e.to} = {a, b}
      BY <2>3, StrongPairs
    <3>2. RootOf(p, e.from) = RootOf(p, e.to)
      BY DEF Grown
    <3>3. RootOf(p, a) = RootOf(p, b)
      BY <3>1, <3>2
    <3>4. QED
      BY <2>3, <3>3
  <2>4. n \in tree(n)
    OBVIOUS
  <2> HIDE DEF tree
  <2>5. G(n) \subseteq tree(n)
    BY <1>1, <1>2, <2>3, <2>4, GroupIsLeast
  <2>6. QED
    BY <2>2, <2>5
<1>4. Components(p) = {tree(n) : n \in D}
  <2> DEFINE root == [n \in D |-> RootOf(p, n)]
             class(r) == {n \in D : root[n] = r}
  <2>1. Components(p) = {class(r) : r \in Range(root)}
    BY <1>1 DEF Components
  <2>2. Range(root) = {RootOf(p, n) : n \in D}
    BY DEF Range
  <2>3. \A n \in D : class(RootOf(p, n)) = tree(n)
    OBVIOUS
  <2> HIDE DEF root, class, tree, D
  <2>4. QED
    BY <2>1, <2>2, <2>3
<1>5. Partition(D, StrongLinks(g)) = {G(n) : n \in D}
  BY DEF Partition
<1> HIDE DEF tree, G, D
<1>6. QED
  BY <1>3, <1>4, <1>5 DEF D

\* connectedComponents: the components are the groups of the strong edges, in whatever
\* order they are united and however often find() compresses a path.
THEOREM Connection == Spec => []ComponentsConnected
<1>1. Init => GraphInv /\ ForestInv
  BY InitGraph DEF Init, ForestInv
<1>2. GraphInv /\ ForestInv /\ [Next]_vars => (GraphInv /\ ForestInv)'
  BY NextGraph, NextForest
<1>3. GraphInv /\ ForestInv => ComponentsConnected
  BY TreesAreGroups DEF GraphInv, ForestInv, ComponentsConnected, StrongLinks
<1>4. QED
  BY <1>1, <1>2, <1>3, PTL DEF Spec

-----------------------------------------------------------------------------
(* The graph of a host. *)

\* The graph is that of the host, with the places that it mentions.
BuiltInv ==
  phase = "correlating" => /\ graph.nodes = Nodes(host, Seeds(host))
                           /\ graph.edges = Edges(host, Seeds(host))

LEMMA NextBuilt == GraphInv /\ BuiltInv /\ [Next]_vars => BuiltInv'
<1> SUFFICES ASSUME GraphInv, BuiltInv, [Next]_vars PROVE BuiltInv'
  OBVIOUS
<1>1. CASE BuildGraph
  <2> DEFINE nodes == Nodes(host, Seeds(host))
             edges == Edges(host, Seeds(host))
  <2>1. graph' = [nodes |-> nodes, edges |-> edges, todo |-> Strong(edges),
                  parents |-> [n \in IdsOf(nodes) |-> n]] /\ host' = host
    BY <1>1 DEF BuildGraph
  <2> HIDE DEF nodes, edges
  <2>2. graph'.nodes = nodes /\ graph'.edges = edges
    BY <2>1
  <2>3. QED
    BY <2>1, <2>2 DEF BuiltInv, nodes, edges
<1>2. CASE \E e \in graph.todo : Unite(e)
  <2>1. PICK e \in graph.todo : Unite(e)
    BY <1>2
  <2>2. phase = "correlating" /\ host' = host /\ Correlated(graph)
    BY <2>1 DEF Unite, GraphInv
  <2> DEFINE parents == United(graph.parents, e.from, e.to)
  <2>3. graph' = [nodes |-> graph.nodes, edges |-> graph.edges, todo |-> graph.todo \ {e},
                  parents |-> parents]
    BY <2>1, <2>2, UniteStep
  <2> HIDE DEF parents
  <2>4. graph'.nodes = graph.nodes /\ graph'.edges = graph.edges
    BY <2>3
  <2>5. QED
    BY <2>2, <2>4 DEF BuiltInv
<1>3. CASE phase' = phase /\ graph' = graph /\ host' = host
  BY <1>3 DEF BuiltInv
<1>4. CASE phase' # "correlating"
  BY <1>4 DEF BuiltInv
<1>5. QED
  BY <1>1, <1>2, <1>3, <1>4, GraphSteps

-----------------------------------------------------------------------------
(* What serves is not filtered. *)

\* Strong edges do not leave a component.
LEMMA ComponentsClosed ==
  ASSUME NEW g, Correlated(g), Grown(g), g.todo = {},
         NEW c \in Components(g.parents), NEW e \in Strong(g.edges)
  PROVE  e.from \in c <=> e.to \in c
<1> DEFINE root == [n \in DOMAIN g.parents |-> RootOf(g.parents, n)]
           class(r) == {n \in DOMAIN g.parents : root[n] = r}
<1>1. PICK r \in Range(root) : c = class(r)
  BY DEF Components
<1>2. e.from \in DOMAIN g.parents /\ e.to \in DOMAIN g.parents
  BY StrongPairs DEF Correlated
<1>3. RootOf(g.parents, e.from) = RootOf(g.parents, e.to)
  BY DEF Grown
<1>4. root[e.from] = root[e.to]
  BY <1>2, <1>3
<1> HIDE DEF root
<1>5. QED
  BY <1>1, <1>2, <1>4

\* A filtered object is in a component without any signal, and so is what strong edges
\* join to it: a unit or a process.
LEMMA FilteredComponents ==
  ASSUME NEW components, NEW nodes, NEW edges, NEW h, NEW svc,
         NEW g \in Selection(components, nodes, edges, h, svc).groups, NEW o \in g.objects
  PROVE  \E c \in components :
           /\ o \in c
           /\ \A i \in c : i[1] \notin {"container", "project", "socket"}
<1> DEFINE deployed == {c \in components : \E i \in c : IsDeploymentResource(i)}
           all == {[base |-> c, candidate |-> Candidate(Expanded(c, edges), nodes, h, svc)] :
                     c \in deployed}
           dropped == UNION {{i \in a.base : IsDeploymentResource(i)} :
                             a \in {b \in all : b.candidate.signals = {}}}
<1>1. Selection(components, nodes, edges, h, svc).groups
        = {FilteredGroup(k, {i \in dropped : FilteredCategory(i, h) = k}) :
             k \in {FilteredCategory(i, h) : i \in dropped}}
  BY DEF Selection
<1> HIDE DEF dropped
<1>2. o \in dropped
  BY <1>1 DEF FilteredGroup
<1> USE DEF dropped
<1>3. PICK a \in all : a.candidate.signals = {} /\ o \in a.base
  BY <1>2
<1>4. PICK c \in deployed :
        a = [base |-> c, candidate |-> Candidate(Expanded(c, edges), nodes, h, svc)]
  BY <1>3
<1>5. ProtectionSignals(Expanded(c, edges), h, svc) = {}
  BY <1>3, <1>4 DEF Candidate
<1>6. c \subseteq Expanded(c, edges)
  BY DEF Expanded
<1>7. \A i \in Expanded(c, edges) : i[1] \notin {"container", "project", "socket"}
  BY <1>5, Zenon DEF ProtectionSignals
<1>8. QED
  BY <1>3, <1>4, <1>6, <1>7

\* buildEdges joins a process that serves to what it serves, and its units to it.
LEMMA ServingEdges ==
  ASSUME NEW h, NEW seeds, NEW r \in h.processes, Serves(r, h)
  PROVE  /\ \E e \in Strong(Edges(h, seeds)) :
               e.from = ProcessNode(r.pid) /\ e.to[1] \in {"container", "socket"}
         /\ \A u \in h.units : u.main = r.pid \/ u \in CgroupUnits(r, h) =>
              \E e \in Strong(Edges(h, seeds)) : {e.from, e.to} = {UnitNode(u), ProcessNode(r.pid)}
<1> DEFINE known == {n.id : n \in Nodes(h, seeds)}
           all == ProcessEdges(h) \cup SocketEdges(h) \cup ComposeEdges(h)
                    \cup PathEdges(h, seeds)
<1>1. /\ ProcessNode(r.pid) \in known
      /\ \A u \in h.units : UnitNode(u) \in known
      /\ \A c \in h.containers : ContainerNode(c) \in known
      /\ \A s \in h.sockets : <<"socket", s.id>> \in known
  <2> DEFINE node(id, kind, ev) == [id |-> id, kind |-> kind, ev |-> ev]
  <2>1. node(ProcessNode(r.pid), "process", r.ev) \in Nodes(h, seeds)
    BY DEF Nodes
  <2>2. \A u \in h.units : node(UnitNode(u), "unit", u.ev) \in Nodes(h, seeds)
    BY DEF Nodes, UnitNode
  <2>3. \A c \in h.containers :
          node(ContainerNode(c), "container", c.ev) \in Nodes(h, seeds)
    BY DEF Nodes, ContainerNode
  <2>4. \A s \in h.sockets : node(<<"socket", s.id>>, "socket", s.ev) \in Nodes(h, seeds)
    BY DEF Nodes
  <2>5. \A id, kind, ev : node(id, kind, ev) \in Nodes(h, seeds) => id \in known
    OBVIOUS
  <2> HIDE DEF node, known
  <2>6. QED
    BY <2>1, <2>2, <2>3, <2>4, <2>5
<1>2. \A e \in all : e.from \in known /\ e.to \in known => e \in Edges(h, seeds)
  BY DEF Edges
<1> HIDE DEF known
<1>3. \E e \in Strong(Edges(h, seeds)) :
        e.from = ProcessNode(r.pid) /\ e.to[1] \in {"container", "socket"}
  <2>1. CASE \E s \in h.sockets : r.pid \in s.pids
    <3>1. PICK s \in h.sockets : r.pid \in s.pids
      BY <2>1
    <3> DEFINE e == Edge("process_socket", ProcessNode(r.pid), <<"socket", s.id>>)
    <3> DEFINE own(t) == {Edge("process_socket", ProcessNode(p), <<"socket", t.id>>) :
                            p \in t.pids}
    <3>2. e \in own(s)
      BY <3>1
    <3>3. UNION {own(t) : t \in h.sockets} \subseteq SocketEdges(h)
      BY DEF SocketEdges
    <3>4. e \in SocketEdges(h)
      <4> HIDE DEF e, own
      <4>1. QED
        BY <3>2, <3>3
    <3>5. /\ e.from = ProcessNode(r.pid) /\ e.to = <<"socket", s.id>>
          /\ e.kind = "process_socket"
      BY DEF Edge
    <3> HIDE DEF e
    <3>6. e \in Edges(h, seeds)
      BY <1>1, <1>2, <3>4, <3>5
    <3>7. QED
      BY <3>5, <3>6 DEF Strong
  <2>2. CASE \E c \in h.containers : c.pid = r.pid \/ c \in CgroupContainers(r, h)
    <3>1. PICK c \in h.containers : c.pid = r.pid \/ c \in CgroupContainers(r, h)
      BY <2>2
    <3> DEFINE e == Edge("process_container", ProcessNode(r.pid), ContainerNode(c))
    <3>2. e \in ProcessEdges(h)
      BY <3>1 DEF ProcessEdges
    <3>3. /\ e.from = ProcessNode(r.pid) /\ e.to = ContainerNode(c)
          /\ e.kind = "process_container"
      BY DEF Edge
    <3> HIDE DEF e
    <3>4. e \in Edges(h, seeds)
      BY <1>1, <1>2, <3>2, <3>3
    <3>5. QED
      BY <3>3, <3>4 DEF Strong, ContainerNode
  <2>3. QED
    BY <2>1, <2>2 DEF Serves
<1>4. ASSUME NEW u \in h.units, u.main = r.pid \/ u \in CgroupUnits(r, h)
      PROVE  \E e \in Strong(Edges(h, seeds)) :
               {e.from, e.to} = {UnitNode(u), ProcessNode(r.pid)}
  <2>1. CASE u.main = r.pid
    <3> DEFINE e == Edge("unit_main_process", UnitNode(u), ProcessNode(u.main))
    <3>1. e \in ProcessEdges(h)
      BY DEF ProcessEdges
    <3>2. /\ e.from = UnitNode(u) /\ e.to = ProcessNode(r.pid)
          /\ e.kind = "unit_main_process"
      BY <2>1 DEF Edge
    <3> HIDE DEF e
    <3>3. e \in Edges(h, seeds)
      BY <1>1, <1>2, <3>1, <3>2
    <3>4. QED
      BY <3>2, <3>3 DEF Strong
  <2>2. CASE u \in CgroupUnits(r, h)
    <3> DEFINE e == Edge("process_cgroup_unit", ProcessNode(r.pid), UnitNode(u))
    <3>1. e \in ProcessEdges(h)
      BY <2>2 DEF ProcessEdges
    <3>2. /\ e.from = ProcessNode(r.pid) /\ e.to = UnitNode(u)
          /\ e.kind = "process_cgroup_unit"
      BY DEF Edge
    <3> HIDE DEF e
    <3>3. e \in Edges(h, seeds)
      BY <1>1, <1>2, <3>1, <3>2
    <3>4. QED
      BY <3>2, <3>3 DEF Strong
  <2>3. QED
    BY <1>4, <2>1, <2>2
<1>5. QED
  BY <1>3, <1>4

LEMMA GroupsUnused ==
  ASSUME GraphInv, ForestInv, BuiltInv, phase = "correlating", graph.todo = {},
         NEW g \in Selection(Components(graph.parents), graph.nodes, graph.edges, host,
                             services).groups,
         NEW o \in g.objects
  PROVE  Unused(o, host)
<1>1. PICK c \in Components(graph.parents) :
        o \in c /\ \A i \in c : i[1] \notin {"container", "project", "socket"}
  BY FilteredComponents
<1>2. \A e \in Strong(graph.edges) : e.from \in c <=> e.to \in c
  BY ComponentsClosed DEF GraphInv, ForestInv
<1>3. graph.edges = Edges(host, Seeds(host))
  BY DEF BuiltInv
<1> SUFFICES ASSUME NEW r \in host.processes, Serves(r, host)
             PROVE  /\ o # ProcessNode(r.pid)
                    /\ \A u \in host.units : u.main = r.pid \/ u \in CgroupUnits(r, host) =>
                         o # UnitNode(u)
  BY DEF Unused
<1>4. ProcessNode(r.pid) \notin c
  BY <1>1, <1>2, <1>3, ServingEdges
<1>5. ASSUME NEW u \in host.units, u.main = r.pid \/ u \in CgroupUnits(r, host)
      PROVE  UnitNode(u) \notin c
  <2> DEFINE unit == UnitNode(u)
             process == ProcessNode(r.pid)
  <2>1. \E e \in Strong(graph.edges) : {e.from, e.to} = {UnitNode(u), ProcessNode(r.pid)}
    <3>1. \A v \in host.units : v.main = r.pid \/ v \in CgroupUnits(r, host) =>
            \E e \in Strong(Edges(host, Seeds(host))) :
              {e.from, e.to} = {UnitNode(v), ProcessNode(r.pid)}
      BY ServingEdges
    <3>2. QED
      BY <1>3, <1>5, <3>1
  <2>2. PICK e \in Strong(graph.edges) : {e.from, e.to} = {unit, process}
    BY <2>1
  <2>3. process \notin c
    BY <1>4
  <2> HIDE DEF unit, process
  <2>4. unit \notin c
    BY <1>2, <2>2, <2>3
  <2>5. QED
    BY <2>4 DEF unit
<1>6. QED
  BY <1>1, <1>4, <1>5

UnusedInv ==
  Chosen => \A g \in selection.groups : \A o \in g.objects : Unused(o, host)

LEMMA NextUnused ==
  GraphInv /\ ForestInv /\ BuiltInv /\ UnusedInv /\ [Next]_vars => UnusedInv'
<1> SUFFICES ASSUME GraphInv, ForestInv, BuiltInv, UnusedInv, [Next]_vars PROVE UnusedInv'
  OBVIOUS
<1>1. CASE Select
  <2> DEFINE chosen == Selection(Components(graph.parents), graph.nodes, graph.edges, host,
                                 services)
  <2>1. /\ selection' = chosen /\ host' = host
        /\ phase = "correlating" /\ graph.todo = {}
    BY <1>1 DEF Select
  <2>2. \A g \in chosen.groups : \A o \in g.objects : Unused(o, host)
    BY <2>1, GroupsUnused
  <2> HIDE DEF chosen
  <2>3. QED
    BY <2>1, <2>2 DEF UnusedInv
<1>2. CASE local' = local /\ Chosen
  BY <1>2 DEF UnusedInv, local
<1>3. CASE ~Chosen'
  BY <1>3 DEF UnusedInv
<1>4. Finalize => local' = local /\ Chosen
  BY DEF Finalize, local, Chosen
<1>5. QED
  BY <1>1, <1>2, <1>3, <1>4, InventorySteps

\* connectedComponents, selectDeploymentCandidates, the completion gate and the questions
\* of buildFinalDeploymentInventory: whatever a model answers, no process that listens or
\* runs in a collected container is filtered before the model is asked, nor a unit that
\* runs it, that failed or is contradicted; and no port that can be reached from outside
\* disappears without a question.
THEOREM Protection == Spec => []ProtectedKept
<1> DEFINE All == /\ Inv /\ GraphInv /\ ArtifactInv /\ SelectedInv /\ ShownInv
                  /\ ForestInv /\ BuiltInv /\ UnusedInv
<1>1. Init => All
  BY InitInv, InitGraph, InitArtifact DEF Init, SelectedInv, ShownInv, ForestInv, BuiltInv,
     UnusedInv, Chosen
<1>2. All /\ [Next]_vars => All'
  BY NextInv, NextGraph, NextArtifact, NextSelected, NextShown, NextForest, NextBuilt,
     NextUnused
<1>3. All => ProtectedKept
  BY DEF SelectedInv, UnusedInv, ShownInv, ProtectedKept, Quiet, Shown
<1>4. QED
  BY <1>1, <1>2, <1>3, PTL DEF Spec

-----------------------------------------------------------------------------
(* Each object in one place. *)

\* The edges to mounts are the only ones of their kind.
LEMMA MountEdges ==
  ASSUME NEW h, NEW e \in Edges(h, Seeds(h)), e.kind = "path_on_mount"
  PROVE  e.from[1] = "path" /\ e.to[1] = "mount"
<1> DEFINE seeds == Seeds(h)
           kindOf == [systemd |-> "unit_references_path", process |-> "process_references_path",
                      docker |-> "container_mounts_path"]
           mentioned == UNION {{Edge(kindOf[m.type], m.object, PathNode(s.path)) :
                                  m \in {n \in s.sources : n.type # "compose"}} : s \in seeds}
           mounted == UNION {{Edge("container_mounts_path", ContainerNode(c), PathNode(m.source)) :
                                m \in {n \in c.mounts : Absolute(n.source) # None}} :
                             c \in h.containers}
           on == UNION {{Edge("path_on_mount", PathNode(s.path), <<"mount", m.id>>) :
                           m \in MountsOf(s.path, h)} : s \in seeds}
<1>1. \A s \in seeds : \A m \in s.sources : m.type \in {"systemd", "process", "docker", "compose"}
  <2>1. \A m \in Mentions(h) : m.type \in {"systemd", "process", "docker", "compose"}
    BY DEF Mentions
  <2>2. QED
    BY <2>1 DEF Seeds
<1>2. e \in ProcessEdges(h) \cup SocketEdges(h) \cup ComposeEdges(h) \cup PathEdges(h, seeds)
  BY DEF Edges
<1>3. e \notin ProcessEdges(h)
  BY DEF ProcessEdges, Edge
<1>4. e \notin SocketEdges(h)
  BY DEF SocketEdges, Edge
<1>5. e \notin ComposeEdges(h)
  BY DEF ComposeEdges, Edge
<1>6. PathEdges(h, seeds) = UNION {mentioned, mounted, on}
  BY Zenon DEF PathEdges
<1> HIDE DEF seeds
<1>7. e \notin mentioned
  BY <1>1 DEF Edge
<1>8. e \notin mounted
  BY DEF Edge
<1>9. e \in on => e.from[1] = "path" /\ e.to[1] = "mount"
  BY DEF Edge, PathNode
<1> HIDE DEF mentioned, mounted, on
<1>10. QED
  BY <1>2, <1>3, <1>4, <1>5, <1>6, <1>7, <1>8, <1>9

\* expandComponent adds no units, processes, sockets, containers or projects.
LEMMA ExpandedObjects ==
  ASSUME NEW h, NEW base
  PROVE  {i \in Expanded(base, Edges(h, Seeds(h))) : IsDeploymentResource(i)}
           = {i \in base : IsDeploymentResource(i)}
<1>1. ASSUME NEW i \in Expanded(base, Edges(h, Seeds(h))), i \notin base
      PROVE  ~IsDeploymentResource(i)
  <2>1. PICK e \in Edges(h, Seeds(h)) : e.kind = "path_on_mount" /\ i \in {e.from, e.to}
    BY <1>1 DEF Expanded
  <2>2. i[1] \in {"path", "mount"}
    BY <2>1, MountEdges
  <2>3. QED
    BY <2>2 DEF IsDeploymentResource
<1>2. base \subseteq Expanded(base, Edges(h, Seeds(h)))
  BY DEF Expanded
<1>3. QED
  BY <1>1, <1>2

ObjectsOf(base) == {i \in base : IsDeploymentResource(i)}

\* Every object is in one candidate or in one group, and candidates share none.
Divided(sel, h) ==
  /\ \A o \in {i \in IdsOf(Nodes(h, {})) : IsDeploymentResource(i)} :
       Cardinality({c \in sel.candidates : o \in c.objects})
         + Cardinality({g \in sel.groups : o \in g.objects}) = 1
  /\ \A c \in sel.candidates : c.id = c.objects /\ c.objects # {}
  /\ \A c, d \in sel.candidates : c.objects \cap d.objects # {} => c = d

DividedInv == Chosen => Divided(selection, host)

\* The places that a host mentions are not among its objects.
LEMMA ObjectsAreNodes ==
  ASSUME NEW h, NEW seeds, NEW o \in IdsOf(Nodes(h, {})), IsDeploymentResource(o)
  PROVE  o \in IdsOf(Nodes(h, seeds))
<1>1. PICK n \in Nodes(h, {}) : n.id = o
  BY DEF IdsOf
<1>2. n.id[1] # "path"
  BY <1>1 DEF IsDeploymentResource
<1>3. n \in Nodes(h, seeds)
  BY <1>2 DEF Nodes, PathNode
<1>4. QED
  BY <1>1, <1>3 DEF IdsOf

\* A node is in one component.
LEMMA ComponentsDisjoint ==
  ASSUME NEW p
  PROVE  /\ \A n \in DOMAIN p : \E c \in Components(p) : n \in c
         /\ \A c, d \in Components(p) : \A n : n \in c /\ n \in d => c = d
<1> DEFINE root == [n \in DOMAIN p |-> RootOf(p, n)]
           class(r) == {n \in DOMAIN p : root[n] = r}
<1>1. Components(p) = {class(r) : r \in Range(root)}
  BY DEF Components
<1>2. \A n \in DOMAIN p : n \in class(root[n]) /\ root[n] \in Range(root)
  BY DEF Range
<1>3. \A r, t, n : n \in class(r) /\ n \in class(t) => r = t
  OBVIOUS
<1> HIDE DEF class, root
<1>4. QED
  BY <1>1, <1>2, <1>3

LEMMA SelectionDivides ==
  ASSUME NEW g, Correlated(g), NEW h, NEW svc,
         g.nodes = Nodes(h, Seeds(h)), g.edges = Edges(h, Seeds(h))
  PROVE  Divided(Selection(Components(g.parents), g.nodes, g.edges, h, svc), h)
<1> DEFINE bases == Components(g.parents)
           deployed == {c \in bases : \E i \in c : IsDeploymentResource(i)}
           cand(c) == Candidate(Expanded(c, g.edges), g.nodes, h, svc)
           all == {[base |-> c, candidate |-> cand(c)] : c \in deployed}
           dropped == UNION {{i \in a.base : IsDeploymentResource(i)} :
                             a \in {b \in all : b.candidate.signals = {}}}
           group(k) == FilteredGroup(k, {i \in dropped : FilteredCategory(i, h) = k})
           sel == Selection(bases, g.nodes, g.edges, h, svc)
           Bright == {c \in deployed : cand(c).signals # {}}
           Dull == {c \in deployed : cand(c).signals = {}}
<1>1. /\ sel.candidates = {a.candidate : a \in {b \in all : b.candidate.signals # {}}}
      /\ sel.groups = {group(k) : k \in {FilteredCategory(i, h) : i \in dropped}}
  BY DEF Selection
<1>2. ASSUME NEW c \in bases
      PROVE  cand(c).id = ObjectsOf(c) /\ cand(c).objects = ObjectsOf(c)
  <2>1. {i \in Expanded(c, g.edges) : IsDeploymentResource(i)} = ObjectsOf(c)
    BY ExpandedObjects DEF ObjectsOf
  <2>2. QED
    BY <2>1 DEF Candidate
<1>3. \A c, d \in bases : \A n : n \in c /\ n \in d => c = d
  BY ComponentsDisjoint
<1> HIDE DEF cand, sel, bases, deployed
<1>4. /\ sel.candidates = {cand(c) : c \in Bright}
      /\ dropped = UNION {ObjectsOf(c) : c \in Dull}
  <2>1. \A a \in all : \E c \in deployed : a.base = c /\ a.candidate = cand(c)
    OBVIOUS
  <2>2. ASSUME NEW c \in deployed
        PROVE  \E a \in all : a.base = c /\ a.candidate = cand(c)
    <3> WITNESS [base |-> c, candidate |-> cand(c)] \in all
    <3>1. QED
      OBVIOUS
  <2> HIDE DEF all
  <2>3. sel.candidates = {cand(c) : c \in Bright}
    BY <1>1, <2>1, <2>2
  <2>4. dropped = UNION {ObjectsOf(c) : c \in Dull}
    BY <2>1, <2>2 DEF ObjectsOf
  <2>5. QED
    BY <2>3, <2>4
<1>5. \A c \in deployed : c \in bases /\ ObjectsOf(c) # {}
  BY DEF ObjectsOf, deployed
<1>6. \A k : group(k).objects = {i \in dropped : FilteredCategory(i, h) = k}
  BY DEF FilteredGroup
<1> HIDE DEF all, dropped, group
<1>7. \A c \in sel.candidates : c.id = c.objects /\ c.objects # {}
  BY <1>2, <1>4, <1>5
<1>8. \A c, d \in deployed : ObjectsOf(c) \cap ObjectsOf(d) # {} => c = d
  BY <1>3, <1>5 DEF ObjectsOf
<1>9. \A c, d \in sel.candidates : c.objects \cap d.objects # {} => c = d
  BY <1>2, <1>4, <1>5, <1>8
<1>10. ASSUME NEW o \in IdsOf(Nodes(h, {})), IsDeploymentResource(o)
       PROVE  Cardinality({c \in sel.candidates : o \in c.objects})
                + Cardinality({x \in sel.groups : o \in x.objects}) = 1
  <2>1. PICK b \in deployed : o \in ObjectsOf(b)
    <3>1. o \in DOMAIN g.parents
      BY <1>10, ObjectsAreNodes DEF Correlated
    <3>2. PICK b \in bases : o \in b
      BY <3>1, ComponentsDisjoint DEF bases
    <3>3. QED
      BY <1>10, <3>2 DEF ObjectsOf, deployed
  <2>2. \A c \in deployed : o \in ObjectsOf(c) => c = b
    BY <1>8, <2>1
  <2>3. CASE b \in Bright
    <3>1. {c \in sel.candidates : o \in c.objects} = {cand(b)}
      BY <1>2, <1>4, <2>1, <1>5, <2>2, <2>3
    <3>2. o \notin dropped
      BY <1>4, <2>2, <2>3
    <3>3. {x \in sel.groups : o \in x.objects} = {}
      BY <1>1, <1>6, <3>2
    <3>4. /\ Cardinality({c \in sel.candidates : o \in c.objects}) = 1
          /\ Cardinality({x \in sel.groups : o \in x.objects}) = 0
      BY <3>1, <3>3, FS_Singleton, FS_EmptySet
    <3>5. QED
      BY <3>4
  <2>4. CASE b \in Dull
    <3>1. {c \in sel.candidates : o \in c.objects} = {}
      BY <1>2, <1>4, <1>5, <2>2, <2>4
    <3>2. o \in dropped
      BY <1>4, <2>1, <2>4
    <3>3. {x \in sel.groups : o \in x.objects} = {group(FilteredCategory(o, h))}
      BY <1>1, <1>6, <3>2
    <3>4. /\ Cardinality({c \in sel.candidates : o \in c.objects}) = 0
          /\ Cardinality({x \in sel.groups : o \in x.objects}) = 1
      BY <3>1, <3>3, FS_Singleton, FS_EmptySet
    <3>5. QED
      BY <3>4
  <2>5. QED
    BY <2>3, <2>4, <2>1
<1>11. QED
  BY <1>7, <1>9, <1>10 DEF Divided, sel, bases

LEMMA NextDivided == GraphInv /\ BuiltInv /\ DividedInv /\ [Next]_vars => DividedInv'
<1> SUFFICES ASSUME GraphInv, BuiltInv, DividedInv, [Next]_vars PROVE DividedInv'
  OBVIOUS
<1>1. CASE Select
  <2> DEFINE chosen == Selection(Components(graph.parents), graph.nodes, graph.edges, host,
                                 services)
  <2>1. /\ selection' = chosen /\ host' = host /\ Correlated(graph)
        /\ graph.nodes = Nodes(host, Seeds(host)) /\ graph.edges = Edges(host, Seeds(host))
    BY <1>1 DEF Select, GraphInv, BuiltInv
  <2>2. Divided(chosen, host)
    BY <2>1, SelectionDivides
  <2> HIDE DEF chosen
  <2>3. QED
    BY <2>1, <2>2 DEF DividedInv
<1>2. CASE local' = local /\ Chosen
  BY <1>2 DEF DividedInv, local
<1>3. CASE ~Chosen'
  BY <1>3 DEF DividedInv
<1>4. Finalize => local' = local /\ Chosen
  BY DEF Finalize, local, Chosen
<1>5. QED
  BY <1>1, <1>2, <1>3, <1>4, InventorySteps

\* Services are made of candidates of their own, named by their objects, and a candidate is
\* in a service unless it is filtered.
Settled(sel, built, filtered) ==
  /\ \A s \in built :
       /\ s.candidates \subseteq IdsOf(sel.candidates)
       /\ s.candidates # {}
       /\ s.id = UNION {c.objects : c \in {d \in sel.candidates : d.id \in s.candidates}}
  /\ \A c \in sel.candidates :
       /\ \A s, t \in built : c.id \in s.candidates /\ c.id \in t.candidates => s = t
       /\ (\E s \in built : c.id \in s.candidates) <=> c.id \notin filtered

SettledInv == Chosen => Settled(selection, inventory.services, inventory.filtered)

LEMMA SettledCandidates ==
  ASSUME NEW sel, NEW built, NEW filtered, Settled(sel, built, filtered),
         NEW c \in sel.candidates
  PROVE  Cardinality({s \in built : c.id \in s.candidates})
           + (IF c.id \in filtered THEN 1 ELSE 0) = 1
<1> DEFINE mine == {s \in built : c.id \in s.candidates}
<1>1. /\ \A s, t \in mine : s = t
      /\ mine # {} <=> c.id \notin filtered
  BY DEF Settled
<1> HIDE DEF mine
<1>2. CASE c.id \in filtered
  <2>1. Cardinality(mine) = 0
    BY <1>1, <1>2, FS_EmptySet
  <2>2. QED
    BY <1>2, <2>1 DEF mine
<1>3. CASE c.id \notin filtered
  <2>1. PICK s \in mine : mine = {s}
    BY <1>1, <1>3
  <2>2. Cardinality(mine) = 1
    BY <2>1, FS_Singleton
  <2>3. QED
    BY <1>3, <2>2 DEF mine
<1>4. QED
  BY <1>2, <1>3

\* A set of which each member is found by its image is as large as its image.
LEMMA SameSize ==
  ASSUME NEW S, IsFiniteSet(S), NEW T, NEW f \in Injection(S, T), \A t \in T : \E s \in S : f[s] = t
  PROVE  Cardinality(T) = Cardinality(S)
<1>1. f \in Bijection(S, T)
  BY DEF Bijection, Injection, Surjection
<1>2. ExistsBijection(S, T)
  BY <1>1 DEF ExistsBijection
<1>3. QED
  BY <1>2, FS_Bijection

LEMMA SettledServices ==
  ASSUME NEW sel, NEW built, NEW filtered, Settled(sel, built, filtered),
         IsFiniteSet(IdsOf(sel.candidates)),
         \A c \in sel.candidates : c.id = c.objects /\ c.objects # {},
         \A c, d \in sel.candidates : c.objects \cap d.objects # {} => c = d
  PROVE  Cardinality(IdsOf(built)) = Cardinality(built)
<1>1. ASSUME NEW s \in built
      PROVE  \E c \in sel.candidates : c.id \in s.candidates
  BY DEF Settled, IdsOf
<1>2. ASSUME NEW s \in built, NEW t \in built, s.id = t.id
      PROVE  s = t
  <2>1. PICK c \in sel.candidates : c.id \in s.candidates
    BY <1>1
  <2>2. PICK o \in c.objects : TRUE
    OBVIOUS
  <2>3. o \in s.id
    BY <2>1, <2>2 DEF Settled
  <2>4. PICK d \in sel.candidates : d.id \in t.candidates /\ o \in d.objects
    BY <1>2, <2>3 DEF Settled
  <2>5. c = d
    BY <2>2, <2>4
  <2>6. QED
    BY <2>1, <2>4, <2>5 DEF Settled
<1>3. IsFiniteSet(built)
  <2> DEFINE T == SUBSET IdsOf(sel.candidates)
             f == [s \in built |-> s.candidates]
  <2>1. IsFiniteSet(T)
    BY FS_SUBSET
  <2>2. f \in [built -> T]
    BY DEF Settled
  <2>3. ASSUME NEW s \in built, NEW t \in built, f[s] = f[t] PROVE s = t
    <3>1. PICK c \in sel.candidates : c.id \in s.candidates
      BY <1>1
    <3>2. c.id \in t.candidates
      BY <2>3, <3>1
    <3>3. QED
      BY <3>1, <3>2 DEF Settled
  <2> HIDE DEF T, f
  <2>4. f \in Injection(built, T)
    BY <2>2, <2>3 DEF Injection, IsInjective
  <2>5. QED
    BY <2>1, <2>4, FS_Injection
<1>4. QED
  <2> DEFINE f == [s \in built |-> s.id]
  <2>1. f \in [built -> IdsOf(built)] /\ \A t \in IdsOf(built) : \E s \in built : f[s] = t
    BY DEF IdsOf
  <2>2. \A s, t \in built : f[s] = f[t] => s = t
    BY <1>2
  <2> HIDE DEF f
  <2>3. f \in Injection(built, IdsOf(built))
    BY <2>1, <2>2 DEF Injection, IsInjective
  <2>4. QED
    BY <1>3, <2>1, <2>3, SameSize

LEMMA RetainedFacts ==
  ASSUME NEW c
  PROVE  Retained(c).candidates = {c.id} /\ Retained(c).id = c.objects
<1>1. Retained(c).candidates = {d.id : d \in {c}} /\ Retained(c).id = UNION {d.objects : d \in {c}}
  BY DEF Retained, ServiceOf, IdsOf
<1>2. QED
  BY <1>1

\* A candidate is found by its id.
Named(sel) ==
  /\ \A c \in sel.candidates : c.id = c.objects /\ c.objects # {}
  /\ \A c, d \in sel.candidates : c.objects \cap d.objects # {} => c = d

LEMMA NamedApart ==
  ASSUME NEW sel, Named(sel), NEW c \in sel.candidates, NEW d \in sel.candidates, c.id = d.id
  PROVE  c = d
BY DEF Named

LEMMA RetainedNamed ==
  ASSUME NEW sel, Named(sel), NEW c \in sel.candidates
  PROVE  /\ Retained(c).candidates \subseteq IdsOf(sel.candidates)
         /\ Retained(c).candidates # {}
         /\ Retained(c).id = UNION {x.objects : x \in {d \in sel.candidates :
                                                         d.id \in Retained(c).candidates}}
<1>1. Retained(c).candidates = {c.id} /\ Retained(c).id = c.objects
  BY RetainedFacts
<1>2. {d \in sel.candidates : d.id \in {c.id}} = {c}
  BY NamedApart
<1>3. UNION {x.objects : x \in {c}} = c.objects
  OBVIOUS
<1>4. c.id \in IdsOf(sel.candidates)
  BY DEF IdsOf
<1>5. QED
  BY <1>1, <1>2, <1>3, <1>4

\* buildLocalDeploymentInventory
LEMMA LocalSettled ==
  ASSUME NEW sel, Named(sel)
  PROVE  Settled(sel, LocalInventory(sel).services, LocalInventory(sel).filtered)
<1> DEFINE built == {Retained(c) : c \in sel.candidates}
<1>1. LocalInventory(sel).services = built /\ LocalInventory(sel).filtered = {}
  BY DEF LocalInventory
<1>2. \A s \in built : \E d \in sel.candidates : s = Retained(d)
  OBVIOUS
<1>3. \A d \in sel.candidates : Retained(d) \in built
  OBVIOUS
<1> HIDE DEF built
<1>4. ASSUME NEW s \in built
      PROVE  /\ s.candidates \subseteq IdsOf(sel.candidates)
             /\ s.candidates # {}
             /\ s.id = UNION {c.objects : c \in {d \in sel.candidates : d.id \in s.candidates}}
  BY <1>2, RetainedNamed
<1>5. ASSUME NEW c \in sel.candidates
      PROVE  /\ \A s, t \in built : c.id \in s.candidates /\ c.id \in t.candidates => s = t
             /\ \E s \in built : c.id \in s.candidates
  <2>1. \A s \in built : c.id \in s.candidates => s = Retained(c)
    BY <1>2, RetainedFacts, NamedApart
  <2>2. c.id \in Retained(c).candidates
    BY RetainedFacts
  <2>3. QED
    BY <1>3, <2>1, <2>2
<1>6. QED
  BY <1>1, <1>4, <1>5 DEF Settled

\* A decision makes services of known candidates and puts a candidate into one place.
Orderly(decision) ==
  /\ \A draft \in Elements(decision.services) :
       /\ Elements(draft.candidates) # {}
       /\ Elements(draft.candidates) \subseteq IdsOf(selection.candidates)
  /\ \A c \in selection.candidates :
       /\ \A d, e \in Elements(decision.services) :
            c.id \in Elements(d.candidates) /\ c.id \in Elements(e.candidates) => d = e
       /\ \A d \in Elements(decision.services) :
            c.id \in Elements(d.candidates) =>
              c.id \notin Elements(decision.filtered) \cup Elements(decision.retained)
       /\ c.id \notin Elements(decision.filtered) \cap Elements(decision.retained)

\* validateReferences: a service of a valid answer is made of candidates.
LEMMA ValidSources ==
  ASSUME NEW answer, NEW allowed, Valid(answer, Input, allowed),
         NEW draft \in Elements(answer.services)
  PROVE  /\ Elements(draft.candidates) # {}
         /\ Elements(draft.candidates) \subseteq IdsOf(selection.candidates)
<1>1. IdsOf(Input.candidates) = IdsOf(selection.candidates)
  BY ToldFacts DEF IdsOf, Input, DiscoveryInput
<1>2. PICK k \in DOMAIN answer.services : draft = answer.services[k]
  BY DEF Elements, Range
<1>3. Shaped(draft) /\ ~WrongReferences(draft, Input)
  BY <1>2, ValidDrafts DEF Proper
<1>4. Elements(draft.candidates) \ IdsOf(Input.candidates) = {}
  BY <1>3, Zenon DEF WrongReferences
<1>5. QED
  BY <1>1, <1>3, <1>4 DEF Shaped

\* The places of a list of ids in an answer.
At(list, k, ids) == {[place |-> <<list, k, i>>, id |-> ids[i]] : i \in DOMAIN ids}

LEMMA PlaceListed ==
  ASSUME NEW list, NEW k, NEW ids, NEW id \in Elements(ids)
  PROVE  \E r \in At(list, k, ids) : r.id = id /\ r.place[1] = list /\ r.place[2] = k
<1>1. PICK i \in DOMAIN ids : ids[i] = id
  BY DEF Elements, Range
<1>2. [place |-> <<list, k, i>>, id |-> ids[i]] \in At(list, k, ids)
  BY DEF At
<1>3. QED
  BY <1>1, <1>2

LEMMA ReferencesOf ==
  ASSUME NEW answer, NEW accepted
  PROVE  References(answer, accepted)
           = At("filtered", 0, answer.filtered) \cup At("retained", 0, answer.retained)
               \cup UNION {At("services", k, answer.services[k].candidates) : k \in accepted}
BY Zenon DEF References, At

\* completion: a valid answer gives a candidate one outcome.
LEMMA ValidOnce ==
  ASSUME NEW answer, NEW allowed, Valid(answer, Input, allowed), NEW c \in selection.candidates
  PROVE  /\ \A d, e \in Elements(answer.services) :
              c.id \in Elements(d.candidates) /\ c.id \in Elements(e.candidates) => d = e
         /\ \A d \in Elements(answer.services) :
              c.id \in Elements(d.candidates) =>
                c.id \notin Elements(answer.filtered) \cup Elements(answer.retained)
         /\ c.id \notin Elements(answer.filtered) \cap Elements(answer.retained)
<1> DEFINE accepted == Accepted(answer, Input)
           refs == References(answer, accepted)
           in(k) == c.id \in Elements(answer.services[k].candidates)
<1>1. accepted = DOMAIN answer.services /\ CompletionOf(Input, refs).duplicate = {}
  BY Zenon DEF Valid
<1>2. c.id \in IdsOf(Input.candidates)
  BY ToldFacts DEF IdsOf, Input, DiscoveryInput
<1>3. \A d \in Elements(answer.services) : \E k \in accepted : d = answer.services[k]
  BY <1>1 DEF Elements, Range
<1> HIDE DEF accepted
<1>4. /\ At("filtered", 0, answer.filtered) \subseteq refs
      /\ At("retained", 0, answer.retained) \subseteq refs
      /\ \A k \in accepted : At("services", k, answer.services[k].candidates) \subseteq refs
  BY ReferencesOf
<1> HIDE DEF refs
<1>5. \A r, t \in refs : r.id = c.id /\ t.id = c.id => r = t
  BY <1>1, <1>2 DEF CompletionOf
<1>6. ASSUME NEW k \in accepted, in(k)
      PROVE  \E r \in refs : r.id = c.id /\ r.place[1] = "services" /\ r.place[2] = k
  BY <1>4, <1>6, PlaceListed
<1>7. c.id \in Elements(answer.filtered) =>
        \E r \in refs : r.id = c.id /\ r.place[1] = "filtered"
  BY <1>4, PlaceListed
<1>8. c.id \in Elements(answer.retained) =>
        \E r \in refs : r.id = c.id /\ r.place[1] = "retained"
  BY <1>4, PlaceListed
<1>9. ASSUME NEW j \in accepted, NEW k \in accepted, in(j), in(k)
      PROVE  j = k
  <2>1. PICK r \in refs : r.id = c.id /\ r.place[2] = j
    BY <1>6, <1>9
  <2>2. PICK t \in refs : t.id = c.id /\ t.place[2] = k
    BY <1>6, <1>9
  <2>3. QED
    BY <1>5, <2>1, <2>2
<1>10. ASSUME NEW k \in accepted, in(k)
       PROVE  c.id \notin Elements(answer.filtered) \cup Elements(answer.retained)
  BY <1>5, <1>6, <1>7, <1>8, <1>10
<1>11. c.id \notin Elements(answer.filtered) \cap Elements(answer.retained)
  BY <1>5, <1>7, <1>8
<1>12. QED
  BY <1>3, <1>9, <1>10, <1>11

LEMMA SoundOrderly ==
  ASSUME IsFiniteSet(IdsOf(selection.candidates)), NEW a, Sound(a)
  PROVE  Orderly(a.decision)
<1>1. CASE a = Completed(a.decision) /\ \E allowed \in BOOLEAN : Valid(a.decision, Input, allowed)
  BY <1>1, ValidSources, ValidOnce DEF Orderly
<1>2. CASE \E error \in Kinds : a = Degraded(Input, error)
  <2>1. a.decision.services = <<>> /\ a.decision.filtered = <<>>
    BY <1>2 DEF Degraded
  <2>2. Elements(<<>>) = {}
    BY DEF Elements, Range
  <2>3. QED
    BY <2>1, <2>2 DEF Orderly
<1>3. QED
  BY <1>1, <1>2 DEF Sound

\* buildFinalDeploymentInventory
LEMMA FinalSettled ==
  ASSUME Named(selection), NEW a, Orderly(a.decision),
         \A c \in selection.candidates : Placed(c, a.decision)
  PROVE  Settled(selection, FinalInventory(selection, a).services,
                 FinalInventory(selection, a).filtered)
<1> DEFINE decision == a.decision
           chosen(ids) == {c \in selection.candidates : c.id \in ids}
           made(d) == ServiceOf(chosen(Elements(d.candidates)), d.role, d.unknown, d.ev)
           drafts == Elements(decision.services)
           retained == {Retained(c) : c \in chosen(Elements(decision.retained))}
           built == {made(d) : d \in drafts} \cup retained
           filtered == Elements(decision.filtered)
<1>1. FinalInventory(selection, a).services = built /\ FinalInventory(selection, a).filtered = filtered
  BY DEF FinalInventory
<1>2. ASSUME NEW d \in drafts
      PROVE  /\ made(d).candidates \subseteq IdsOf(selection.candidates)
             /\ made(d).candidates # {}
             /\ made(d).id = UNION {c.objects : c \in {x \in selection.candidates :
                                                         x.id \in made(d).candidates}}
             /\ \A c \in selection.candidates :
                  c.id \in made(d).candidates <=> c.id \in Elements(d.candidates)
  <2> DEFINE sources == chosen(Elements(d.candidates))
  <2>1. made(d).candidates = IdsOf(sources) /\ made(d).id = UNION {c.objects : c \in sources}
    BY DEF ServiceOf
  <2>2. Elements(d.candidates) # {} /\ Elements(d.candidates) \subseteq IdsOf(selection.candidates)
    BY DEF Orderly
  <2>3. sources # {}
    BY <2>2 DEF IdsOf
  <2>4. sources \subseteq selection.candidates
    OBVIOUS
  <2>5. \A c \in selection.candidates : c.id \in IdsOf(sources) <=> c.id \in Elements(d.candidates)
    BY DEF IdsOf
  <2>6. {x \in selection.candidates : x.id \in IdsOf(sources)} = sources
    BY <2>5
  <2> HIDE DEF sources, made
  <2>7. IdsOf(sources) # {} /\ IdsOf(sources) \subseteq IdsOf(selection.candidates)
    BY <2>3, <2>4 DEF IdsOf
  <2>8. QED
    BY <2>1, <2>5, <2>6, <2>7
<1>3. \A s \in built : \/ \E d \in drafts : s = made(d)
                       \/ \E x \in selection.candidates : /\ x.id \in Elements(decision.retained)
                                                          /\ s = Retained(x)
  OBVIOUS
<1>4. /\ \A d \in drafts : made(d) \in built
      /\ \A x \in selection.candidates : x.id \in Elements(decision.retained) => Retained(x) \in built
  OBVIOUS
<1> HIDE DEF made, built, retained
<1>5. ASSUME NEW s \in built
      PROVE  /\ s.candidates \subseteq IdsOf(selection.candidates)
             /\ s.candidates # {}
             /\ s.id = UNION {c.objects : c \in {d \in selection.candidates : d.id \in s.candidates}}
  <2>1. CASE \E d \in drafts : s = made(d)
    BY <1>2, <2>1
  <2>2. CASE \E x \in selection.candidates : s = Retained(x)
    BY <2>2, RetainedNamed
  <2>3. QED
    BY <1>3, <2>1, <2>2
<1>6. ASSUME NEW c \in selection.candidates
      PROVE  /\ \A s, t \in built : c.id \in s.candidates /\ c.id \in t.candidates => s = t
             /\ (\E s \in built : c.id \in s.candidates) <=> c.id \notin filtered
  <2>1. /\ \A d, e \in drafts :
             c.id \in Elements(d.candidates) /\ c.id \in Elements(e.candidates) => d = e
        /\ \A d \in drafts :
             c.id \in Elements(d.candidates) =>
               c.id \notin filtered /\ c.id \notin Elements(decision.retained)
        /\ ~(c.id \in filtered /\ c.id \in Elements(decision.retained))
    BY DEF Orderly
  <2>2. \/ \E d \in drafts : c.id \in Elements(d.candidates)
        \/ c.id \in filtered
        \/ c.id \in Elements(decision.retained)
    BY DEF Placed
  <2>3. ASSUME NEW s \in built, c.id \in s.candidates
        PROVE  \/ \E d \in drafts : s = made(d) /\ c.id \in Elements(d.candidates)
               \/ s = Retained(c) /\ c.id \in Elements(decision.retained)
    <3>1. ASSUME NEW x \in selection.candidates, s = Retained(x)
          PROVE  x = c
      BY <2>3, <3>1, RetainedFacts, NamedApart
    <3>2. QED
      BY <1>2, <1>3, <2>3, <3>1
  <2>4. c.id \in Retained(c).candidates
    BY RetainedFacts
  <2> HIDE DEF drafts, filtered, decision
  <2>5. \A s, t \in built : c.id \in s.candidates /\ c.id \in t.candidates => s = t
    BY <2>1, <2>3
  <2>6. (\E s \in built : c.id \in s.candidates) => c.id \notin filtered
    BY <2>1, <2>3
  <2>7. c.id \notin filtered => \E s \in built : c.id \in s.candidates
    BY <1>2, <1>4, <2>2, <2>4
  <2>8. QED
    BY <2>5, <2>6, <2>7
<1> HIDE DEF filtered
<1>7. QED
  BY <1>1, <1>5, <1>6 DEF Settled

LEMMA DividedNamed ==
  ASSUME NEW sel, NEW h, Divided(sel, h)
  PROVE  Named(sel)
BY DEF Divided, Named

LEMMA NextSettled ==
  ASSUME GraphInv, BuiltInv, ArtifactInv, SelectedInv, DividedInv, SettledInv, [Next]_vars
  PROVE  SettledInv'
<1>1. CASE Select
  <2>1. inventory' = LocalInventory(selection')
    BY <1>1 DEF Select
  <2>2. Chosen'
    BY <1>1 DEF Select, Chosen
  <2>3. Divided(selection', host')
    BY <2>2, NextDivided DEF DividedInv
  <2>4. Named(selection')
    BY <2>3, DividedNamed
  <2>5. Settled(selection', LocalInventory(selection').services, LocalInventory(selection').filtered)
    BY <2>4, LocalSettled
  <2>6. QED
    BY <2>1, <2>5 DEF SettledInv
<1>2. CASE Finalize
  <2>1. inventory' = FinalInventory(selection, artifact) /\ selection' = selection
    BY <1>2 DEF Finalize, local
  <2>2. /\ Sound(artifact) /\ IsFiniteSet(IdsOf(selection.candidates))
        /\ Divided(selection, host)
    BY <1>2 DEF Finalize, ArtifactInv, SelectedInv, DividedInv, Decided, Before, Chosen
  <2>3. Settled(selection, FinalInventory(selection, artifact).services,
                FinalInventory(selection, artifact).filtered)
    BY <2>2, DividedNamed, SoundPlaces, SoundOrderly, FinalSettled
  <2>4. QED
    BY <2>1, <2>3 DEF SettledInv
<1>3. CASE ~Chosen' \/ (inventory' = inventory /\ local' = local /\ Chosen)
  BY <1>3 DEF SettledInv, local
<1>4. QED
  BY <1>1, <1>2, <1>3, InventorySteps

\* selectDeploymentCandidates, the completion gate and buildFinalDeploymentInventory lose
\* nothing and count nothing twice, whatever a model answers and whatever the host is.
THEOREM Placement == Spec => []EachObjectPlaced
<1> DEFINE All == /\ Inv /\ GraphInv /\ BuiltInv /\ ArtifactInv /\ SelectedInv /\ DividedInv
                  /\ SettledInv
<1>1. Init => All
  BY InitInv, InitGraph, InitArtifact DEF Init, BuiltInv, SelectedInv, DividedInv, SettledInv, Chosen
<1>2. All /\ [Next]_vars => All'
  BY NextInv, NextGraph, NextBuilt, NextArtifact, NextSelected, NextDivided, NextSettled
<1>3. ASSUME All, Chosen
      PROVE  /\ \A o \in DeploymentObjects :
                  Cardinality({c \in selection.candidates : o \in c.objects})
                    + Cardinality({g \in selection.groups : o \in g.objects}) = 1
             /\ \A c \in selection.candidates :
                  Cardinality({s \in inventory.services : c.id \in s.candidates})
                    + (IF c.id \in inventory.filtered THEN 1 ELSE 0) = 1
             /\ Cardinality(IdsOf(inventory.services)) = Cardinality(inventory.services)
  <2>1. /\ Divided(selection, host)
        /\ Settled(selection, inventory.services, inventory.filtered)
        /\ IsFiniteSet(IdsOf(selection.candidates))
    BY <1>3 DEF DividedInv, SettledInv, SelectedInv
  <2>2. \A o \in DeploymentObjects :
          Cardinality({c \in selection.candidates : o \in c.objects})
            + Cardinality({g \in selection.groups : o \in g.objects}) = 1
    BY <2>1 DEF Divided, DeploymentObjects
  <2>3. \A c \in selection.candidates :
          Cardinality({s \in inventory.services : c.id \in s.candidates})
            + (IF c.id \in inventory.filtered THEN 1 ELSE 0) = 1
    BY <2>1, SettledCandidates
  <2>4. Cardinality(IdsOf(inventory.services)) = Cardinality(inventory.services)
    BY <2>1, SettledServices DEF Divided
  <2>5. QED
    BY <2>2, <2>3, <2>4
<1>4. All => EachObjectPlaced
  BY <1>3 DEF EachObjectPlaced
<1>5. QED
  BY <1>1, <1>2, <1>4, PTL DEF Spec

-----------------------------------------------------------------------------
(* A process belongs to the nearest entry above it. *)

Pids == {r.pid : r \in host.processes}

\* One step up from every process: what EntryOf does with what is known above.
Risen(above) ==
  [p \in Pids |->
     IF p \in Anchors(host) THEN {p}
     ELSE UNION {above[r.ppid] : r \in {q \in host.processes : q.pid = p /\ q.ppid \in Pids}}]

\* The entries that are found above the processes, step by step.
Climbs(n) ==
  {g \in [0..n -> [Pids -> SUBSET Pids]] :
     /\ \A p \in Pids : g[0][p] = IF p \in Anchors(host) THEN {p} ELSE {}
     /\ \A k \in 1..n : g[k] = Risen(g[k - 1])
     /\ \A p \in Pids : EntryOf(p) = g[n][p]}

LEMMA RisenType ==
  ASSUME NEW above \in [Pids -> SUBSET Pids]
  PROVE  Risen(above) \in [Pids -> SUBSET Pids]
<1> DEFINE from(p) == {q \in host.processes : q.pid = p /\ q.ppid \in Pids}
<1>1. ASSUME NEW p \in Pids
      PROVE  UNION {above[r.ppid] : r \in from(p)} \subseteq Pids
  OBVIOUS
<1>2. Risen(above) = [p \in Pids |-> IF p \in Anchors(host) THEN {p}
                                     ELSE UNION {above[r.ppid] : r \in from(p)}]
  BY DEF Risen
<1> HIDE DEF from
<1>3. QED
  BY <1>1, <1>2

LEMMA ClimbsExist ==
  ASSUME Cardinality(host.processes) \in Nat
  PROVE  Climbs(Cardinality(host.processes)) # {}
<1> DEFINE n == Cardinality(host.processes)
           pids == {r.pid : r \in host.processes}
           S == [pids -> SUBSET pids]
           start == [p \in pids |-> IF p \in Anchors(host) THEN {p} ELSE {}]
           turn == [k \in 1..n |-> [X \in S |-> Risen(X)]]
           level(f, k) ==
             [p \in pids |->
                IF p \in Anchors(host) THEN {p}
                ELSE UNION {f[k - 1][r.ppid] :
                            r \in {q \in host.processes : k > 0 /\ q.pid = p /\ q.ppid \in pids}}]
           Equation(f) == f = [k \in 0..n |-> level(f, k)]
           f0 == CHOOSE f : Equation(f)
<1>1. \A p \in pids : EntryOf(p) = f0[n][p]
  BY Zenon DEF EntryOf
<1>2. start \in S
  OBVIOUS
<1>3. \A X \in S : Risen(X) \in S
  BY RisenType DEF Pids
<1>4. ASSUME NEW f PROVE level(f, 0) = start
  OBVIOUS
<1>5. ASSUME NEW f, NEW k \in 1..n PROVE level(f, k) = Risen(f[k - 1])
  <2>1. ASSUME NEW p \in pids
        PROVE  {q \in host.processes : k > 0 /\ q.pid = p /\ q.ppid \in pids}
                 = {q \in host.processes : q.pid = p /\ q.ppid \in pids}
    OBVIOUS
  <2>2. QED
    BY <2>1 DEF Risen, Pids
<1> HIDE DEF n, level, start, pids, S
<1> n \in Nat
  BY DEF n
<1>6. turn \in [1..n -> [S -> S]]
  BY <1>3
<1>7. PICK g \in [0..n -> S] : g[0] = start /\ \A k \in 1..n : g[k] = turn[k][g[k - 1]]
  <2> HIDE DEF turn
  <2>1. Results(n, S, start, turn) # {}
    BY <1>2, <1>6, Iteration
  <2>2. QED
    BY <2>1 DEF Results
<1>8. ASSUME NEW k \in 1..n PROVE g[k] = Risen(g[k - 1])
  <2>1. k - 1 \in 0..n
    OBVIOUS
  <2>2. g[k - 1] \in S
    BY <1>7, <2>1
  <2>3. QED
    BY <1>7, <2>2
<1>9. Equation(g)
  <2>1. \A k \in 0..n : g[k] = level(g, k)
    BY <1>4, <1>5, <1>7, <1>8
  <2>2. g = [k \in 0..n |-> g[k]]
    BY <1>7
  <2>3. QED
    BY <2>1, <2>2
<1>10. Equation(f0)
  <2> HIDE DEF Equation
  <2>1. QED
    BY <1>9, Zenon
<1> HIDE DEF f0, turn
<1>11. /\ f0[0] = start
       /\ \A k \in 1..n : f0[k] = Risen(f0[k - 1])
       /\ f0 = [k \in 0..n |-> f0[k]]
  <2>1. \A k \in 0..n : f0[k] = level(f0, k)
    BY <1>10
  <2>2. QED
    BY <1>4, <1>5, <1>10, <2>1
<1> HIDE DEF Equation
<1>12. \A k \in 0..n : f0[k] \in S
  <2> DEFINE Good == {k \in 0..n : f0[k] \in S}
  <2>1. 0 \in Good
    BY <1>2, <1>11
  <2>2. ASSUME NEW k \in 1..n, k - 1 \in Good PROVE k \in Good
    <3>1. k \in 0..n
      OBVIOUS
    <3>2. f0[k] = Risen(f0[k - 1])
      BY <1>11
    <3>3. QED
      BY <1>3, <2>2, <3>1, <3>2
  <2> HIDE DEF Good
  <2>3. \A k \in 0..n : k \in Good
    BY <2>1, <2>2, Upwards
  <2>4. QED
    BY <2>3 DEF Good
<1>13. f0 \in [0..n -> S]
  BY <1>11, <1>12
<1>14. \A p \in pids : f0[0][p] = IF p \in Anchors(host) THEN {p} ELSE {}
  BY <1>11 DEF start
<1>15. QED
  BY <1>1, <1>11, <1>13, <1>14 DEF Climbs, S, Pids, pids, n

\* What Descendants goes down.
Below == {<<r.ppid, r.pid>> : r \in {q \in host.processes : q.pid \notin Anchors(host)}}

LEMMA BeyondBelow ==
  ASSUME NEW found, NEW p
  PROVE  p \in Beyond(found, Below) <=>
           \/ p \in found
           \/ \E r \in host.processes : r.pid = p /\ p \notin Anchors(host) /\ r.ppid \in found
<1>1. \A q : q \in Below <=> \E r \in host.processes :
                               r.pid \notin Anchors(host) /\ q = <<r.ppid, r.pid>>
  BY DEF Below
<1>2. p \in Beyond(found, Below) <=> p \in found \/ \E q \in Below : q[1] \in found /\ q[2] = p
  BY DEF Beyond
<1>3. ASSUME NEW q \in Below, q[1] \in found, q[2] = p
      PROVE  \E r \in host.processes : r.pid = p /\ p \notin Anchors(host) /\ r.ppid \in found
  BY <1>1, <1>3
<1>4. ASSUME NEW r \in host.processes, r.pid = p, p \notin Anchors(host), r.ppid \in found
      PROVE  \E q \in Below : q[1] \in found /\ q[2] = p
  <2>1. <<r.ppid, r.pid>> \in Below
    BY <1>1, <1>4
  <2>2. QED
    BY <1>4, <2>1
<1>5. QED
  BY <1>2, <1>3, <1>4

LEMMA RisenMember ==
  ASSUME NEW above, NEW p \in Pids, NEW a
  PROVE  a \in Risen(above)[p] <=>
           \/ p \in Anchors(host) /\ a = p
           \/ /\ p \notin Anchors(host)
              /\ \E r \in host.processes : r.pid = p /\ r.ppid \in Pids /\ a \in above[r.ppid]
<1>1. Risen(above)[p] =
        IF p \in Anchors(host) THEN {p}
        ELSE UNION {above[r.ppid] : r \in {q \in host.processes : q.pid = p /\ q.ppid \in Pids}}
  BY DEF Risen
<1>2. QED
  BY <1>1

\* The walks down from the entries and up from the processes meet.
LEMMA NearestEntry ==
  ASSUME NEW n, n = Cardinality(host.processes), n \in Nat
  PROVE  /\ \A p \in Pids : EntryOf(p) \subseteq Anchors(host) \cap Pids
         /\ \A a \in Anchors(host) \cap Pids :
              /\ Reached({a}, Below, n) \subseteq Pids
              /\ \A p \in Pids : a \in EntryOf(p) <=> p \in Reached({a}, Below, n)
<1>1. PICK g \in [0..n -> [Pids -> SUBSET Pids]] :
        /\ \A p \in Pids : g[0][p] = IF p \in Anchors(host) THEN {p} ELSE {}
        /\ \A k \in 1..n : g[k] = Risen(g[k - 1])
        /\ \A p \in Pids : EntryOf(p) = g[n][p]
  <2>1. Climbs(n) # {}
    BY ClimbsExist
  <2>2. QED
    BY <2>1 DEF Climbs
<1>2. ASSUME NEW k \in 1..n, NEW p \in Pids, NEW a
      PROVE  a \in g[k][p] <=>
               \/ p \in Anchors(host) /\ a = p
               \/ /\ p \notin Anchors(host)
                  /\ \E r \in host.processes :
                       r.pid = p /\ r.ppid \in Pids /\ a \in g[k - 1][r.ppid]
  <2>1. g[k] = Risen(g[k - 1])
    BY <1>1
  <2>2. QED
    BY <2>1, RisenMember
<1>3. \A p \in Pids : g[n][p] \subseteq Anchors(host) \cap Pids
  <2> DEFINE Good == {k \in 0..n : \A p \in Pids : g[k][p] \subseteq Anchors(host) \cap Pids}
  <2>1. 0 \in Good
    <3>1. \A p \in Pids : g[0][p] \subseteq Anchors(host) \cap Pids
      BY <1>1
    <3>2. QED
      BY <3>1
  <2>2. ASSUME NEW k \in 1..n, k - 1 \in Good PROVE k \in Good
    <3>1. ASSUME NEW p \in Pids, NEW a \in g[k][p]
          PROVE  a \in Anchors(host) \cap Pids
      <4>1. CASE p \in Anchors(host)
        BY <1>2, <3>1, <4>1
      <4>2. CASE p \notin Anchors(host)
        <5>1. PICK r \in host.processes : r.ppid \in Pids /\ a \in g[k - 1][r.ppid]
          BY <1>2, <3>1, <4>2
        <5>2. QED
          BY <2>2, <5>1
      <4>3. QED
        BY <4>1, <4>2
    <3>2. k \in 0..n
      OBVIOUS
    <3>3. QED
      BY <3>1, <3>2
  <2> HIDE DEF Good
  <2>3. \A k \in 0..n : k \in Good
    BY <2>1, <2>2, Upwards
  <2>4. QED
    BY <2>3 DEF Good
<1>4. ASSUME NEW a \in Anchors(host) \cap Pids
      PROVE  /\ Reached({a}, Below, n) \subseteq Pids
             /\ \A p \in Pids : a \in EntryOf(p) <=> p \in Reached({a}, Below, n)
  <2>1. PICK f \in [0..n -> SUBSET Pids] :
          /\ f[0] = {a}
          /\ \A k \in 1..n : f[k] = Beyond(f[k - 1], Below)
          /\ Reached({a}, Below, n) = f[n]
    <3>1. \A q \in Below : q[2] \in Pids
      BY DEF Below, Pids
    <3>2. Stages(n, Pids, Below, {a}) # {}
      BY <3>1, StagesExist
    <3>3. QED
      BY <3>2 DEF Stages
  <2>2. ASSUME NEW k \in 1..n
        PROVE  \A p : p \in f[k] <=>
                 \/ p \in f[k - 1]
                 \/ \E r \in host.processes :
                      r.pid = p /\ p \notin Anchors(host) /\ r.ppid \in f[k - 1]
    <3>1. f[k] = Beyond(f[k - 1], Below)
      BY <2>1
    <3>2. QED
      BY <3>1, BeyondBelow
\* All that is found but the entry itself is found below something.
  <2> DEFINE Fed(k, p) == \E r \in host.processes :
                            r.pid = p /\ p \notin Anchors(host) /\ r.ppid \in f[k]
             Good == {k \in 0..n : /\ a \in f[k]
                                   /\ \A p \in f[k] : p # a => Fed(k, p)
                                   /\ \A p \in Pids : a \in g[k][p] <=> p \in f[k]}
  <2>3. 0 \in Good
    <3>1. f[0] = {a}
      BY <2>1
    <3>2. \A p \in Pids : g[0][p] = IF p \in Anchors(host) THEN {p} ELSE {}
      BY <1>1
    <3>3. \A p \in Pids : a \in g[0][p] <=> p = a
      BY <3>2
    <3> HIDE DEF Fed
    <3>4. QED
      BY <3>1, <3>3
  <2>4. ASSUME NEW k \in 1..n, k - 1 \in Good PROVE k \in Good
    <3>1. \A p \in f[k - 1] : p # a => Fed(k - 1, p)
      BY <2>4
    <3>2. \A p \in Pids : a \in g[k - 1][p] <=> p \in f[k - 1]
      BY <2>4
    <3>3. ASSUME NEW p \in f[k], p # a
          PROVE  Fed(k - 1, p) /\ Fed(k, p)
      BY <2>2, <3>1, <3>3
    <3>4. ASSUME NEW p \in Pids
          PROVE  a \in g[k][p] <=> p \in f[k]
      <4>1. CASE p \in Anchors(host)
        <5>1. a \in g[k][p] <=> p = a
          BY <1>2, <4>1
        <5>2. p \in f[k] => p = a
          BY <3>3, <4>1
        <5>3. a \in f[k]
          BY <2>2, <2>4
        <5>4. QED
          BY <5>1, <5>2, <5>3
      <4>2. CASE p \notin Anchors(host)
        <5>1. a \in g[k][p] <=>
                \E r \in host.processes : r.pid = p /\ r.ppid \in Pids /\ a \in g[k - 1][r.ppid]
          BY <1>2, <4>2
        <5>2. f[k - 1] \subseteq Pids
          <6>1. k - 1 \in 0..n
            OBVIOUS
          <6>2. QED
            BY <2>1, <6>1
        <5>3. a \in g[k][p] <=> Fed(k - 1, p)
          BY <3>2, <4>2, <5>1, <5>2
        <5>4. p \in f[k] <=> Fed(k - 1, p)
          BY <2>2, <3>3, <4>2
        <5>5. QED
          BY <5>3, <5>4
      <4>3. QED
        BY <4>1, <4>2
    <3>5. k \in 0..n /\ a \in f[k]
      BY <2>2, <2>4
    <3> HIDE DEF Fed
    <3>6. QED
      BY <3>3, <3>4, <3>5
  <2> HIDE DEF Good
  <2>5. \A k \in 0..n : k \in Good
    BY <2>3, <2>4, Upwards
  <2>6. \A p \in Pids : a \in g[n][p] <=> p \in f[n]
    BY <2>5 DEF Good
  <2>7. f[n] \subseteq Pids
    BY n \in 0..n, <2>1
  <2>8. \A p \in Pids : EntryOf(p) = g[n][p]
    BY <1>1
  <2>9. Reached({a}, Below, n) = f[n]
    BY <2>1
  <2>10. QED
    BY <2>6, <2>7, <2>8, <2>9
<1>5. QED
  BY <1>1, <1>3, <1>4

\* The links to the nearest entries.
UpLinks ==
  UNION {{<<ProcessNode(r.pid), ProcessNode(e)>> : e \in EntryOf(r.pid)} : r \in host.processes}

LEMMA TreesClimbed ==
  ASSUME IsFiniteSet(host.processes), NEW x, NEW y, x # y
  PROVE  Linked(x, y, TreeLinks(host)) <=> Linked(x, y, UpLinks)
<1> DEFINE n == Cardinality(host.processes)
           found(a) == Reached({a}, Below, n)
           Up(b, c) == \E p \in Pids : \E e \in EntryOf(p) : b = ProcessNode(p) /\ c = ProcessNode(e)
<1>1. /\ \A p \in Pids : EntryOf(p) \subseteq Anchors(host) \cap Pids
      /\ \A a \in Anchors(host) \cap Pids :
           /\ found(a) \subseteq Pids
           /\ \A p \in Pids : a \in EntryOf(p) <=> p \in found(a)
  <2>1. n \in Nat
    BY FS_CardinalityType
  <2>2. QED
    BY <2>1, NearestEntry
<1>2. \A a : Descendants(a, host) = IF a \notin Pids THEN {} ELSE found(a) \ {a}
  BY DEF Descendants, Pids, Below
<1> HIDE DEF found
<1>3. \A b, c : <<b, c>> \in UpLinks <=> Up(b, c)
  BY DEF UpLinks, Pids
<1>4. \A b, c : <<b, c>> \in TreeLinks(host) <=>
        \E a \in Anchors(host) : \E p \in Descendants(a, host) :
          b = ProcessNode(a) /\ c = ProcessNode(p)
  BY DEF TreeLinks
<1>5. ASSUME NEW b, NEW c, <<b, c>> \in TreeLinks(host)
      PROVE  Up(c, b)
  <2>1. PICK a \in Anchors(host) : \E p \in Descendants(a, host) :
          b = ProcessNode(a) /\ c = ProcessNode(p)
    BY <1>4, <1>5
  <2> PICK p \in Descendants(a, host) : b = ProcessNode(a) /\ c = ProcessNode(p)
    BY <2>1
  <2>2. a \in Pids /\ p \in found(a)
    BY <1>2
  <2>3. p \in Pids /\ a \in EntryOf(p)
    BY <1>1, <2>2
  <2>4. QED
    BY <2>3
<1>6. ASSUME NEW b, NEW c, b # c, Up(c, b)
      PROVE  <<b, c>> \in TreeLinks(host)
  <2>1. PICK p \in Pids : \E e \in EntryOf(p) : c = ProcessNode(p) /\ b = ProcessNode(e)
    BY <1>6
  <2> PICK a \in EntryOf(p) : c = ProcessNode(p) /\ b = ProcessNode(a)
    BY <2>1
  <2>2. a \in Anchors(host) /\ a \in Pids
    BY <1>1
  <2>3. p \in found(a) /\ p # a
    BY <1>1, <1>6, <2>2
  <2>4. p \in Descendants(a, host)
    BY <1>2, <2>2, <2>3
  <2>5. QED
    BY <1>4, <2>2, <2>4
<1> HIDE DEF Up
<1>7. QED
  BY <1>3, <1>5, <1>6 DEF Linked

\* Links of a node to itself do not matter.
LEMMA SameGroups ==
  ASSUME NEW D, IsFiniteSet(D),
         NEW left, \A l \in left : l = <<l[1], l[2]>>,
         NEW right, \A l \in right : l = <<l[1], l[2]>>,
         \A a, b \in D : a # b => (Linked(a, b, left) <=> Linked(a, b, right)),
         NEW n \in D
  PROVE  GroupOf(n, D, left) = GroupOf(n, D, right)
<1> DEFINE L == GroupOf(n, D, left)
           R == GroupOf(n, D, right)
<1>1. n \in L /\ \A a, b \in D : Linked(a, b, left) /\ a \in L => b \in L
  BY GroupIsLeast
<1>2. n \in R /\ \A a, b \in D : Linked(a, b, right) /\ a \in R => b \in R
  BY GroupIsLeast
<1>3. \A a, b \in D : Linked(a, b, left) /\ a \in R => b \in R
  BY <1>2
<1>4. \A a, b \in D : Linked(a, b, right) /\ a \in L => b \in L
  BY <1>1
<1>5. L \subseteq R
  <2> HIDE DEF R
  <2>1. QED
    BY <1>2, <1>3, GroupIsLeast
<1>6. R \subseteq L
  <2> HIDE DEF L
  <2>1. QED
    BY <1>1, <1>4, GroupIsLeast
<1>7. QED
  BY <1>5, <1>6

\* Merging the processes that nothing owns leaves the groups of an entity alone.
LEMMA StandaloneApart ==
  ASSUME NEW h, NEW D, IsFiniteSet(D), NEW links, \A l \in links : l = <<l[1], l[2]>>
  PROVE  {g \in Partition(D, links \cup StandaloneLinks(h, Partition(D, links))) : HasEntity(g)}
           = {g \in Partition(D, links) : HasEntity(g)}
<1> DEFINE groups == Partition(D, links)
           merged == StandaloneLinks(h, groups)
           all == links \cup merged
           G(n) == GroupOf(n, D, links)
           H(n) == GroupOf(n, D, all)
<1>1. \A n \in D : G(n) \in groups
  BY DEF Partition
<1>2. ASSUME NEW l \in merged
      PROVE  /\ l = <<l[1], l[2]>>
             /\ \A g \in groups : l[1] \in g => ~HasEntity(g)
             /\ \A g \in groups : l[2] \in g => ~HasEntity(g)
  <2> DEFINE alone == {r \in h.processes :
                         /\ r.box = None /\ r.slices = <<>>
                         /\ \A g \in groups : ProcessNode(r.pid) \in g => ~HasEntity(g)}
  <2>1. merged = {<<ProcessNode(pair[1].pid), ProcessNode(pair[2].pid)>> :
                    pair \in {both \in alone \X alone : Signature(both[1]) = Signature(both[2])}}
    BY DEF StandaloneLinks
  <2> HIDE DEF merged, groups
  <2>2. PICK pair \in alone \X alone : l = <<ProcessNode(pair[1].pid), ProcessNode(pair[2].pid)>>
    BY <2>1
  <2>3. pair[1] \in alone /\ pair[2] \in alone
    OBVIOUS
  <2>4. QED
    BY <2>2, <2>3
<1> HIDE DEF merged, groups
<1>3. \A l \in all : l = <<l[1], l[2]>>
  BY <1>2
<1>4. \A a, b : Linked(a, b, merged) => \A g \in groups : a \in g => ~HasEntity(g)
  <2>1. ASSUME NEW a, NEW b, <<a, b>> \in merged
        PROVE  \A g \in groups : (a \in g \/ b \in g) => ~HasEntity(g)
    <3>1. <<a, b>>[1] = a /\ <<a, b>>[2] = b
      OBVIOUS
    <3>2. QED
      BY <1>2, <2>1, <3>1
  <2>2. QED
    BY <2>1 DEF Linked
<1>5. \A a, b : Linked(a, b, all) <=> Linked(a, b, links) \/ Linked(a, b, merged)
  BY DEF Linked
<1> HIDE DEF all
<1>6. ASSUME NEW n \in D, HasEntity(G(n))
      PROVE  H(n) = G(n)
  <2>1. /\ n \in G(n) /\ G(n) \in groups
        /\ \A a, b \in D : Linked(a, b, links) /\ a \in G(n) => b \in G(n)
    BY <1>1, GroupIsLeast
  <2>2. \A a, b \in D : Linked(a, b, all) /\ a \in G(n) => b \in G(n)
    BY <1>4, <1>5, <1>6, <2>1
  <2>3. n \in H(n) /\ \A a, b \in D : Linked(a, b, all) /\ a \in H(n) => b \in H(n)
    BY <1>3, GroupIsLeast
  <2>4. \A a, b \in D : Linked(a, b, links) /\ a \in H(n) => b \in H(n)
    BY <1>5, <2>3
  <2>5. H(n) \subseteq G(n)
    <3> HIDE DEF G
    <3>1. QED
      BY <1>3, <2>1, <2>2, GroupIsLeast
  <2>6. G(n) \subseteq H(n)
    <3> HIDE DEF H
    <3>1. QED
      BY <2>3, <2>4, GroupIsLeast
  <2>7. QED
    BY <2>5, <2>6
<1>7. ASSUME NEW n \in D, HasEntity(H(n))
      PROVE  \E m \in D : H(n) = G(m) /\ HasEntity(G(m))
  <2>1. PICK m \in H(n) : m[1] # "process"
    BY <1>7 DEF HasEntity
  <2>2. m \in D /\ H(m) = H(n)
    BY <1>3, GroupsAgree
  <2>3. m \in G(m)
    BY <2>2, GroupIsLeast
  <2> HIDE DEF G, H
  <2>4. HasEntity(G(m))
    BY <2>1, <2>3 DEF HasEntity
  <2>5. H(m) = G(m)
    BY <1>6, <2>2, <2>4
  <2>6. QED
    BY <2>2, <2>4, <2>5
<1>8. Partition(D, all) = {H(n) : n \in D} /\ Partition(D, links) = {G(n) : n \in D}
  BY DEF Partition
<1> HIDE DEF G, H
<1>9. {g \in Partition(D, all) : HasEntity(g)} = {g \in Partition(D, links) : HasEntity(g)}
  BY <1>6, <1>7, <1>8
<1>10. QED
  BY <1>9 DEF all, merged, groups

LEMMA LinksArePairs ==
  /\ \A l \in DirectLinks(host) : l = <<l[1], l[2]>>
  /\ \A l \in TreeLinks(host) : l = <<l[1], l[2]>>
  /\ \A l \in UpLinks : l = <<l[1], l[2]>>
<1>1. \A l \in DirectLinks(host) : l = <<l[1], l[2]>>
  <2> DEFINE mains == {<<UnitNode(u), ProcessNode(u.main)>> : u \in {v \in host.units : v.main > 0}}
             boxes == {<<ContainerNode(c), ProcessNode(c.pid)>> :
                         c \in {d \in host.containers : d.pid > 0}}
             sliced == UNION {{<<ProcessNode(r.pid), UnitNode(u)>> : u \in UnitsNamed(r, host)} :
                              r \in host.processes}
             boxed == UNION {{<<ProcessNode(r.pid), ContainerNode(c)>> :
                                c \in ContainersNamed(r.box, host)} : r \in host.processes}
             composed == UNION {UNION {UNION {{<<ComposeNode(j, s), ContainerNode(c)>> :
                                                 c \in ContainersNamed(hex, host)} : hex \in s.boxes} :
                                       s \in j.services} : j \in host.projects}
  <2>1. DirectLinks(host) = mains \cup boxes \cup UNION {sliced, boxed, composed}
    BY Zenon DEF DirectLinks
  <2>2. /\ \A l \in mains : l = <<l[1], l[2]>>
        /\ \A l \in boxes : l = <<l[1], l[2]>>
        /\ \A l \in sliced : l = <<l[1], l[2]>>
        /\ \A l \in boxed : l = <<l[1], l[2]>>
    OBVIOUS
  <2>3. \A l \in composed : l = <<l[1], l[2]>>
    OBVIOUS
  <2> HIDE DEF mains, boxes, sliced, boxed, composed
  <2>4. QED
    BY <2>1, <2>2, <2>3
<1>2. \A l \in TreeLinks(host) : l = <<l[1], l[2]>>
  BY DEF TreeLinks
<1>3. \A l \in UpLinks : l = <<l[1], l[2]>>
  BY DEF UpLinks
<1>4. QED
  BY <1>1, <1>2, <1>3

LEMMA ServicesOfEntries ==
  ASSUME IsFiniteSet(host.processes), IsFiniteSet(ServiceNodes(host))
  PROVE  {g \in ServiceGroups(host) : HasEntity(g)}
           = {g \in Partition(ServiceNodes(host), DirectLinks(host) \cup UpLinks) : HasEntity(g)}
<1> DEFINE nodes == ServiceNodes(host)
           links == DirectLinks(host) \cup TreeLinks(host)
           up == DirectLinks(host) \cup UpLinks
           all == Partition(nodes, links \cup StandaloneLinks(host, Partition(nodes, links)))
<1>1. {g \in ServiceGroups(host) : HasEntity(g)} = {g \in all : HasEntity(g)}
  <2>1. ServiceGroups(host) =
          {g \in all : HasEntity(g) \/ \E r \in ProcessesIn(g, host) : ~IsKernelThread(r)}
    BY DEF ServiceGroups
  <2> HIDE DEF all
  <2>2. QED
    BY <2>1
<1>2. /\ \A l \in links : l = <<l[1], l[2]>>
      /\ \A l \in up : l = <<l[1], l[2]>>
  BY LinksArePairs
<1>3. \A a, b : a # b => (Linked(a, b, links) <=> Linked(a, b, up))
  <2>1. \A a, b : a # b => (Linked(a, b, TreeLinks(host)) <=> Linked(a, b, UpLinks))
    BY TreesClimbed
  <2>2. QED
    BY <2>1 DEF Linked
<1> HIDE DEF links, up
<1>4. {g \in all : HasEntity(g)} = {g \in Partition(nodes, links) : HasEntity(g)}
  BY <1>2, StandaloneApart
<1>5. \A n \in nodes : GroupOf(n, nodes, links) = GroupOf(n, nodes, up)
  BY <1>2, <1>3, SameGroups
<1>6. Partition(nodes, links) = Partition(nodes, up)
  BY <1>5 DEF Partition
<1> HIDE DEF nodes, all
<1>7. QED
  BY <1>1, <1>4, <1>6 DEF nodes, up

\* buildServiceGraph: walking down from the entries, stopping at other entries and merging
\* what nothing owns gives a process to the nearest entry above it and joins no services.
THEOREM Separation == Spec => []ServicesSeparate
<1>1. GraphInv => ServicesSeparate
  <2> SUFFICES ASSUME GraphInv, phase = "normalized"
               PROVE  {g \in ServiceGroups(host) : HasEntity(g)}
                        = {g \in Partition(ServiceNodes(host), DirectLinks(host) \cup UpLinks) :
                             HasEntity(g)}
    BY DEF ServicesSeparate, UpLinks
  <2>1. PICK h \in Hosts : host = Tidied(h)
    BY DEF GraphInv
  <2>2. IsFiniteSet(host.processes) /\ IsFiniteSet(ServiceNodes(host))
    BY <2>1, HostAssumption
  <2>3. QED
    BY <2>2, ServicesOfEntries
<1>2. QED
  BY <1>1, InitGraph, NextGraph, PTL DEF Spec

=============================================================================
