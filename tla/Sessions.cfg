\* two users, two workflows, an expiry and a drop
CONSTANTS
  WorkflowIds = {w1,w2}
  Keys = {k1,k2}
  Events = {d1,d2,d3}
  Workers = {p1,p2}
  Invocations = {a1}
  None = None
  MaxReceiveCount = 2
  Budget <- OneExpiry
  Requests = {"feat","fix"}
  Choices = {"extend_existing"}
  Findings = {"anchored"}
  Comments = {}
  StateClasses = {"feat","fix","refactor"}
SPECIFICATION Spec
INVARIANT TypeOK
INVARIANT SessionNamesOwnWorkflow
INVARIANT SessionReleased
INVARIANT DroppedIsFreed
 
SYMMETRY Symmetric
\* the users stop once every event is used: every behaviour may end
CHECK_DEADLOCK FALSE
