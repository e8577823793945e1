\* liveness: three events, two workers and a crash
CONSTANTS
  WorkflowIds = {w1}
  Keys = {k1}
  Events = {d1,d2,d3}
  Workers = {p1,p2}
  Invocations = {}
  None = None
  MaxReceiveCount = 2
  Budget <- OneCrash
  Requests = {"feat","fix"}
  Choices = {"extend_existing","reject_duplicate"}
  Findings = {"anchored"}
  Comments = {TRUE}
  StateClasses = {"feat","fix","refactor"}
SPECIFICATION FairSpec
PROPERTY EventsAreDisposedOf
PROPERTY RunningEnds
PROPERTY EndedGivesSessionBack
PROPERTY InvocationsEnd
\* the users stop once every event is used: every behaviour may end
CHECK_DEADLOCK FALSE
