\* one event, one crash
CONSTANTS
  WorkflowIds = {w1}
  Keys = {k1}
  Events = {d1}
  Workers = {p1}
  Invocations = {}
  None = None
  MaxReceiveCount = 2
  Budget <- OneCrash
  Requests = {"feat"}
  Choices = {"extend_existing"}
  Findings = {"anchored"}
  Comments = {TRUE}
  StateClasses = {"feat","fix","refactor"}
SPECIFICATION Spec
INVARIANT NoEventIsLost
\* the users stop once every event is used: every behaviour may end
CHECK_DEADLOCK FALSE
