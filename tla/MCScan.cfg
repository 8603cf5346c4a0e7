SPECIFICATION Spec
CONSTANTS
  Probes <- MCProbes
  Variants <- MCVariants
  Required <- MCRequired
  Settings <- MCSettings
  Answers <- MCAnswers
  MaxPending = 1
  MaxFaults = 2
INVARIANTS
  AuditComplete
  GapsFlagged
  NothingAfterAbort
PROPERTY ScanEnds
