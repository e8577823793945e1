\* one worker; a drop in the Ack Lambda as deployed
CONSTANTS
  WorkflowIds = {w1}
  Keys = {k1}
  Events = {d1}
  Workers = {p1}
  Invocations = {a1}
  None = None
  MaxReceiveCount = 2
  Budget <- NoFaults
  Requests = {"feat"}
  Choices = {"extend_existing"}
  Findings = {"anchored"}
  Comments = {TRUE}
  StateClasses = {}
SPECIFICATION Spec
INVARIANT DropFreesTheUser
\* the users stop once every event is used: every behaviour may end
CHECK_DEADLOCK FALSE
