\* two users, channels and workflows, every template with up to two entries per
\* field and every set of ticked boxes
CONSTANTS
  WorkflowIds = {w1,w2}
  Users = {u1,u2}
  Channels = {c1,c2}
  None = None
  Texts = {x,y}
  MaxLength = 2
  Templates <- MCTemplates
  Words = {"x","y","z"}
  Values <- MCValues
  SectionLimit = 3
SPECIFICATION Spec
INVARIANT EventsNameTheirWorkflow
INVARIANT PromptKeepsTheWords
INVARIANT FiledIsShown
INVARIANT DropsTheTicked
SYMMETRY Symmetric
