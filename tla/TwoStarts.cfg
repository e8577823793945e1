\* two submissions at once
CONSTANTS
  WorkflowIds = {w1,w2}
  Keys = {k1}
  Events = {d1,d2}
  Workers = {p1,p2}
  Invocations = {}
  None = None
  MaxReceiveCount = 2
  Budget <- NoFaults
  Requests = {"feat"}
  Choices = {"extend_existing"}
  Findings = {"anchored"}
  Comments = {TRUE}
  StateClasses = {"feat","fix","refactor"}
SPECIFICATION Spec
INVARIANT OneActivePerUser
\* the users stop once every event is used: every behaviour may end
CHECK_DEADLOCK FALSE
