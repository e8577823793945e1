\* one workflow, competing decisions, a concurrent drop, two reads that miss the
\* last write
CONSTANTS
  WorkflowIds = {w1}
  Keys = {k1}
  Events = {d1,d2,d3}
  Workers = {p1,p2}
  Invocations = {a1}
  None = None
  MaxReceiveCount = 2
  Budget <- NoFaults
  Requests = {"feat"}
  Choices = {"extend_existing","reject_duplicate"}
  Findings = {"anchored"}
  Comments = {}
  StateClasses = {"feat","fix","refactor"}
  MaxStale = 2
SPECIFICATION StaleSpec
INVARIANT WaitingIsAnswerable
INVARIANT CompletedAsRecorded
INVARIANT HumanInTheLoop
INVARIANT DoneIsDone
INVARIANT SessionReleased
INVARIANT DroppedIsFreed
SYMMETRY Symmetric
\* the users stop once every event is used: every behaviour may end
CHECK_DEADLOCK FALSE
