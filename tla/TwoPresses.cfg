\* two presses of accept, one worker
CONSTANTS
  WorkflowIds = {w1}
  Keys = {k1}
  Events = {d1,d2,d3,d4}
  Workers = {p1}
  Invocations = {}
  None = None
  MaxReceiveCount = 2
  Budget <- NoFaults
  Requests = {"feat"}
  Choices = {"extend_existing"}
  Findings = {"anchored"}
  Comments = {TRUE}
  StateClasses = {"feat","fix","refactor"}
SPECIFICATION Spec
INVARIANT OneIssuePerProposal
\* the users stop once every event is used: every behaviour may end
CHECK_DEADLOCK FALSE
