\* one workflow, four events; an await that raises and a second delivery
CONSTANTS
  WorkflowIds = {w1}
  Keys = {k1}
  Events = {d1,d2,d3,d4}
  None = None
  Requests = {"feat","fix"}
  Choices = {"extend_existing","reject_duplicate"}
  Findings = {"anchored"}
  Comments = {TRUE}
  Errors = 1
  Resends = 1
SPECIFICATION Spec
INVARIANT TypeOK
INVARIANT OneIssuePerEvent
INVARIANT WaitingHasButtons
INVARIANT NobodyLeftRunning
INVARIANT SessionGivenBack
INVARIANT OnlyCallsRaise
PROPERTY FilesAsPromised
SYMMETRY Symmetric
\* the users stop once every event is used: every behaviour may end
CHECK_DEADLOCK FALSE
