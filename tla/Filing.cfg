\* one workflow, four events, two workers; a crash and a redelivery
CONSTANTS
  WorkflowIds = {w1}
  Keys = {k1}
  Events = {d1,d2,d3,d4}
  Workers = {p1,p2}
  Invocations = {}
  None = None
  MaxReceiveCount = 2
  Budget <- OneCrash
  Requests = {"feat"}
  Choices = {"extend_existing"}
  Findings = {"anchored","unanchored"}
  Comments = {TRUE}
  StateClasses = {"feat","fix","refactor"}
SPECIFICATION Spec
INVARIANT HumanInTheLoop
INVARIANT WaitingIsAnswerable
INVARIANT CompletedAsRecorded
INVARIANT DoneIsDone
PROPERTY FilesAsPromised
SYMMETRY Symmetric
\* the users stop once every event is used: every behaviour may end
CHECK_DEADLOCK FALSE
