\* one user, three events, two workers, a drop as deployed; a crash, an exception
\* and a redelivery
CONSTANTS
  WorkflowIds = {w1}
  Keys = {k1}
  Events = {d1,d2,d3}
  Workers = {p1,p2}
  Invocations = {a1}
  None = None
  MaxReceiveCount = 2
  Budget <- OneOfEach
  Requests = {"feat"}
  Choices = {"extend_existing"}
  Findings = {"anchored"}
  Comments = {TRUE}
  StateClasses = {}
SPECIFICATION Spec
INVARIANT ProcessedByOne
INVARIANT OneIssuePerEvent
INVARIANT SessionReleased
INVARIANT UnacquiredIsKept
SYMMETRY Symmetric
\* the users stop once every event is used: every behaviour may end
CHECK_DEADLOCK FALSE
