-------------------------- MODULE ScanWorkflowProofs --------------------------
(***************************************************************************)
(* What a scan guarantees for every set of probes, commands and answers,   *)
(* every length of the audit chain and every number of faults: an          *)
(* inventory is handed out only with the audit of all its commands on disk *)
(* and without a result that was cut short by the signal.                  *)
(***************************************************************************)
EXTENDS ScanWorkflow, TLAPS

-----------------------------------------------------------------------------
(* The invariant. *)

AuditRecords == [pending : Nat, lost : Nat]

\* After the join the chain is empty, and nothing is executed that would prolong it.
JoinedInv ==
  stage \in {"normalizing", "redacting", "inventory"} \/ outcome = "ready" =>
    audit.pending = 0 /\ audit.lost = 0

Cut == \E c \in DOMAIN got : got[c] = Cancelled

\* A cancelled command tells that the signal has aborted, which every stage that
\* executes commands looks at before the next one.
CutInv ==
  Cut => /\ aborted
         /\ stage \in {"permissions", "sudo", "collecting", "paths", "failing", "ended"}
         /\ outcome # "ready"

OutcomeInv ==
  /\ outcome \in {"none", "ready", "failed", "interrupted"}
  /\ outcome # "none" => stage = "ended"
  /\ outcome \in {"failed", "interrupted"} => connection \in {"none", "closed"}

Inv == audit \in AuditRecords /\ JoinedInv /\ CutInv /\ OutcomeInv

-----------------------------------------------------------------------------
(* The steps. *)

LEMMA InitInv == Init => Inv
BY DEF Init, Inv, AuditRecords, JoinedInv, CutInv, Cut, OutcomeInv

\* Commands are executed in four stages only.
LEMMA ExecutingStages ==
  ASSUME NEW c \in Executable
  PROVE  stage \in {"permissions", "sudo", "collecting", "paths"}
BY DEF Executable

\* A result is that of a cancelled command only when the signal has aborted.
LEMMA CancelledByAbort ==
  ASSUME NEW c, ~aborted
  PROVE  Cancelled \notin Results(c)
<1>1. Cancelled.status = "cancelled"
  BY DEF Cancelled, Result
<1>2. Whole.status = "success" /\ Disconnected.status = "failed"
  BY DEF Whole, Disconnected, Result
<1>3. Cancelled \notin Broken(c)
  BY <1>1 DEF Broken
<1>4. QED
  BY <1>1, <1>2, <1>3 DEF Results

LEMMA ExecuteInv ==
  ASSUME Inv, NEW c \in Executable, Execute(c)
  PROVE  Inv'
<1>1. stage \in {"permissions", "sudo", "collecting", "paths"} /\ outcome = "none"
  BY ExecutingStages DEF Inv, OutcomeInv
<1>2. audit' \in AuditRecords
  BY DEF Execute, Inv, AuditRecords
<1>3. Cut' => Cut \/ aborted
  <2>1. PICK r \in Results(c) :
          got' = [d \in DOMAIN got \cup {c} |-> IF d = c THEN r ELSE got[d]]
    BY DEF Execute
  <2>2. CASE r = Cancelled
    BY <2>2, CancelledByAbort
  <2>3. CASE r # Cancelled
    BY <2>1, <2>3 DEF Cut, Cancelled
  <2>4. QED
    BY <2>2, <2>3
<1>4. UNCHANGED <<stage, connection, aborted, outcome>>
  BY DEF Execute
<1>5. QED
  BY <1>1, <1>2, <1>3, <1>4 DEF Inv, JoinedInv, CutInv, OutcomeInv

LEMMA AppendInv ==
  ASSUME Inv, AppendRecord
  PROVE  Inv'
<1>1. audit' \in AuditRecords
  <2>1. audit \in AuditRecords /\ audit.pending - 1 \in Nat /\ audit.lost + 1 \in Nat
    BY DEF AppendRecord, Inv, AuditRecords
  <2>2. \/ audit' = [audit EXCEPT !.pending = audit.pending - 1]
        \/ audit' = [audit EXCEPT !.pending = audit.pending - 1, !.lost = audit.lost + 1]
    <3>1. CASE audit' = Appended(TRUE)
      BY <2>1, <3>1 DEF Appended, AuditRecords
    <3>2. CASE audit' = Appended(FALSE)
      BY <2>1, <3>2 DEF Appended, AuditRecords
    <3>3. QED
      BY <3>1, <3>2 DEF AppendRecord
  <2>3. QED
    BY <2>1, <2>2 DEF AuditRecords
<1>2. JoinedInv'
  BY DEF AppendRecord, Inv, JoinedInv
<1>3. CutInv' /\ OutcomeInv'
  BY DEF AppendRecord, Inv, CutInv, Cut, Cancelled, OutcomeInv
<1>4. QED
  BY <1>1, <1>2, <1>3 DEF Inv

\* The workflow looks at the signal after every stage that may have been cut short,
\* and at the chain before the snapshot is made.
LEMMA ProceedInv ==
  ASSUME Inv, Proceed
  PROVE  Inv'
<1>1. CASE Connect
  BY <1>1 DEF Connect, WriteStage, Fail, Inv, JoinedInv, CutInv, Cut, Cancelled, OutcomeInv
<1>2. CASE Authorize
  BY <1>2 DEF Authorize, Fail, Interrupted, Inv, JoinedInv, CutInv, Cut, Cancelled, OutcomeInv
<1>3. CASE Collected
  BY <1>3 DEF Collected, Fail, Interrupted, Inv, JoinedInv, CutInv, Cut, Cancelled, OutcomeInv
<1>4. CASE JoinAudit
  BY <1>4 DEF JoinAudit, WriteStage, Fail, AuditDrained, Inv, AuditRecords, JoinedInv, CutInv,
     Cut, Cancelled, OutcomeInv
<1>5. CASE Publish
  BY <1>5 DEF Publish, WriteStage, Fail, Inv, JoinedInv, CutInv, Cut, Cancelled, OutcomeInv
<1>6. CASE Catch
  BY <1>6 DEF Catch, Closed, Inv, JoinedInv, CutInv, Cut, Cancelled, OutcomeInv
<1>7. QED
  BY <1>1, <1>2, <1>3, <1>4, <1>5, <1>6 DEF Proceed

LEMMA NextInv == Inv /\ [Next]_vars => Inv'
<1> SUFFICES ASSUME Inv, [Next]_vars PROVE Inv'
  OBVIOUS
<1>1. CASE Abort
  BY <1>1 DEF Abort, Inv, JoinedInv, CutInv, Cut, Cancelled, OutcomeInv
<1>2. CASE Lose
  BY <1>2 DEF Lose, Inv, JoinedInv, CutInv, Cut, Cancelled, OutcomeInv
<1>3. CASE UNCHANGED vars
  BY <1>3 DEF vars, Inv, JoinedInv, CutInv, Cut, Cancelled, OutcomeInv
<1>4. QED
  BY <1>1, <1>2, <1>3, ExecuteInv, AppendInv, ProceedInv DEF Next, Ended

LEMMA Invariant == Spec => []Inv
BY InitInv, NextInv, PTL DEF Spec

-----------------------------------------------------------------------------
(* The whole. *)

\* runScanWorkflow awaits the chain of audit records between its last command and the
\* files of the run, and fails when a record could not be appended.
THEOREM AuditKept == Spec => []AuditComplete
<1>1. Inv => AuditComplete
  BY DEF Inv, AuditRecords, JoinedInv, AuditComplete
<1>2. QED
  BY <1>1, Invariant, PTL

\* throwIfAborted stands behind every batch of commands, and the catch block closes
\* the connection whatever has failed.
THEOREM AbortKept == Spec => []NothingAfterAbort
<1>1. Inv => NothingAfterAbort
  BY DEF Inv, CutInv, Cut, OutcomeInv, NothingAfterAbort
<1>2. QED
  BY <1>1, Invariant, PTL

-----------------------------------------------------------------------------
(* Gaps. *)

\* What a command may have given.
Possible(c) == {Whole, Cancelled, Disconnected} \cup Answers(c)
ResultInv == \A c \in DOMAIN got : got[c] \in Possible(c)

LEMMA InitResults == Init => ResultInv
BY DEF Init, ResultInv

LEMMA NextResults == ResultInv /\ [Next]_vars => ResultInv'
<1> SUFFICES ASSUME ResultInv, [Next]_vars PROVE ResultInv'
  OBVIOUS
<1>1. ASSUME NEW c \in Executable, Execute(c) PROVE ResultInv'
  <2>1. PICK r \in Results(c) :
          got' = [d \in DOMAIN got \cup {c} |-> IF d = c THEN r ELSE got[d]]
    BY <1>1 DEF Execute
  <2>2. r \in Possible(c)
    BY DEF Results, Broken, Possible
  <2>3. \A d \in DOMAIN got' : got'[d] \in Possible(d)
    BY <2>1, <2>2 DEF ResultInv
  <2>4. \A d : Possible(d)' = Possible(d)
    BY DEF Possible, Whole, Cancelled, Disconnected, Result
  <2>5. QED
    BY <2>3, <2>4 DEF ResultInv
<1>2. CASE UNCHANGED got
  BY <1>2 DEF ResultInv, Possible, Whole, Cancelled, Disconnected, Result
<1>3. QED
  BY <1>1, <1>2 DEF Next, vars, AppendRecord, Proceed, Connect, Authorize, Collected,
     JoinAudit, Publish, Catch, Abort, Lose, Ended

\* A result of a command that was watched is whole, or shows in its status.
LEMMA WatchedResult ==
  ASSUME ResultInv, NEW c \in Watched \cap DOMAIN got, got[c].status = "success"
  PROVE  got[c].output \in Printed(c)
BY AnswerAssumption
   DEF ResultInv, Possible, Whole, Cancelled, Disconnected, Result, Printed

LEMMA ServiceGap ==
  ASSUME ResultInv, NEW c \in {"systemd-units", "compose-ls", "docker-compose-ls"},
         c \in DOMAIN got, ~Parsed(got, c)
  PROVE  ItemOf(c) \in Troubled(got)
<1>1. EvidenceStatus(got[c]) # "success"
  BY WatchedResult DEF Watched, Parsed, Succeeded, Printed, EvidenceStatus, CollectionStatus
<1>2. c \in ServiceCommands
  BY DEF ServiceCommands, BaseCommands, AfterBase, Range
<1>3. QED
  BY <1>1, <1>2 DEF Troubled

\* Of what is not whole, the status tells or the unknown, but for what is not found.
LEMMA PathGap ==
  ASSUME ResultInv, NEW item \in PathItems(got),
         ~(Selected(got, item).status = "success" /\ Selected(got, item).output = "whole"),
         Selected(got, item).stderr # "not_found"
  PROVE  UnknownPath(got, item) \/ PathStatus(got, item) # "success"
<1> DEFINE r == Selected(got, item)
<1>1. item \in {"metadata", "directory", "data", "config"}
  BY DEF PathItems, Fallbacks
<1>2. CASE item = "metadata"
  <2>1. r.status = "success" => r.output = "whole"
    BY <1>2, WatchedResult DEF Selected, PathItems, Fallbacks, Watched, Printed
  <2> HIDE DEF r
  <2>2. QED
    BY <1>2, <2>1 DEF r, PathStatus, CollectionStatus
<1>3. CASE item = "directory"
  <2>1. r.status = "success" => r.output \in {"whole", "over", "none"}
    BY <1>3, WatchedResult DEF Selected, PathItems, Fallbacks, Watched, Printed
  <2>2. QED
    BY <1>3, <2>1 DEF PathStatus, UnknownPath, HasEntries, Limited, DirectoryStatus,
       NotFound, CollectionStatus
<1>4. CASE item = "data"
  <2>1. r.status = "success" => r.output = "whole"
    BY <1>4, WatchedResult DEF Selected, PathItems, Fallbacks, Watched, Printed
  <2>2. QED
    BY <1>4, <2>1 DEF PathStatus, UnknownPath, HasEntries, DirectoryStatus, NotFound,
       CollectionStatus
<1>5. CASE item = "config"
  <2>1. r.status = "success" => r.output \in {"whole", "garbled"}
    BY <1>5, WatchedResult DEF Selected, PathItems, Fallbacks, Watched, Printed
  <2>2. QED
    BY <1>5, <2>1 DEF PathStatus, EvidenceStatus, CollectionStatus
<1>6. QED
  BY <1>1, <1>2, <1>3, <1>4, <1>5

LEMMA NoGap == ResultInv => Gaps \subseteq Unknowns(got) \cup Troubled(got)
<1> SUFFICES ASSUME ResultInv, NEW p \in Gaps PROVE p \in Unknowns(got) \cup Troubled(got)
  OBVIOUS
<1>1. CASE p \in Required /\ NoAnswer(Range(Variants[p]))
  <2>1. ~HasValue(got, p)
    BY <1>1 DEF NoAnswer, Range, HasValue
  <2>2. QED
    BY <1>1, <2>1 DEF Unknowns, UnknownProbes
<1>2. CASE p = "process-list" /\ NoAnswer({"process-list"})
  BY <1>2 DEF NoAnswer, Unknowns, UnknownServices
<1>3. CASE /\ p = "process-links"
           /\ got["process-links"].status \notin {"success", "failed", "permission_denied"}
  BY <1>3 DEF Unknowns, UnknownServices, PartialFind
<1>4. CASE p = "systemd-units" /\ NoAnswer({p}) /\ ~NotInstalled({p})
  <2>1. p \in DOMAIN got /\ ~Parsed(got, p)
    BY <1>4 DEF NoAnswer, NotInstalled
  <2>2. QED
    BY <1>4, <2>1, ServiceGap DEF ItemOf
<1>5. CASE p \in {"systemd-show", "docker-inspect"} /\ p \in DOMAIN got /\ NoAnswer({p})
  BY <1>5 DEF NoAnswer, Unknowns, UnknownServices
<1>6. CASE p = "sockets" /\ NoAnswer({"ss", "netstat"})
  BY <1>6 DEF NoAnswer, Unknowns, UnknownServices
<1>7. CASE p = "docker" /\ ~DockerListed(got) /\ ~NotInstalled({"docker-ps"})
  BY <1>7 DEF NotInstalled, DockerMissing, Unknowns, UnknownServices
<1>8. CASE /\ p = "compose" /\ NoAnswer({"compose-ls", "docker-compose-ls"})
           /\ ~NotInstalled({"compose-ls", "docker-compose-ls"})
  <2>1. PICK c \in {"compose-ls", "docker-compose-ls"} : c \in DOMAIN got
    BY <1>8 DEF NotInstalled
  <2>2. ~Parsed(got, c) /\ ItemOf(c) = "compose"
    BY <1>8 DEF NoAnswer, ItemOf
  <2>3. QED
    BY <1>8, <2>1, <2>2, ServiceGap
<1>9. CASE /\ p \in PathItems(got) /\ Selected(got, p).stderr # "not_found"
           /\ ~(Selected(got, p).status = "success" /\ Selected(got, p).output = "whole")
  BY <1>9, PathGap DEF Unknowns, Troubled
<1>10. QED
  BY <1>1, <1>2, <1>3, <1>4, <1>5, <1>6, <1>7, <1>8, <1>9 DEF Gaps

\* What the collectors did not learn is an unknown of the snapshot, or shows in the
\* status of its evidence, whichever commands failed, were cut, denied or lost with
\* the connection: no fallback and no partial answer hides what is missing.
THEOREM NoSilentGap == Spec => []GapsFlagged
<1>1. Spec => []ResultInv
  BY InitResults, NextResults, PTL DEF Spec
<1>2. ResultInv => GapsFlagged
  BY NoGap DEF GapsFlagged
<1>3. QED
  BY <1>1, <1>2, PTL

=============================================================================
