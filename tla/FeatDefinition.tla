--------------------------- MODULE FeatDefinition ---------------------------
(***************************************************************************)
(* The step graph of a workflow: domain/feat/definition.py, and the        *)
(* placeholder definitions of domain/fix and domain/refactor, whose GRAPH  *)
(* and RESUME_MAP are empty.                                               *)
(*                                                                         *)
(* A node of GRAPH is a step with a control signal.  The three signals     *)
(* partition the steps; only a CONTINUE node has a successor (on_continue).*)
(*                                                                         *)
(* Here and in the other modules a definition named X_Y, just before X, is *)
(* X as a plausible bug would have it: it is used by no specification and  *)
(* only shows which property notices the bug (README, "Mutants").          *)
(***************************************************************************)

ContinueSteps == {"find_relevant_bc", "find_relevant_issue",
                  "generate_issue_draft", "regenerate_issue_draft"}

WaitSteps == {"wait_issue_decision", "wait_confirmation"}

StopSteps == {"reject_end", "create_github_issue"}

Steps == ContinueSteps \union WaitSteps \union StopSteps

FIRST_STEP == "find_relevant_bc"

OnContinue_Loop ==
  [s \in ContinueSteps |->
     CASE s = "find_relevant_bc"       -> "find_relevant_issue"
       [] s = "find_relevant_issue"    -> "wait_issue_decision"
       [] s = "generate_issue_draft"   -> "wait_confirmation"
       [] s = "regenerate_issue_draft" -> "regenerate_issue_draft"]

OnContinue_Undecided ==
  [s \in ContinueSteps |->
     CASE s = "find_relevant_bc"       -> "find_relevant_issue"
       [] s = "find_relevant_issue"    -> "generate_issue_draft"
       [] s = "generate_issue_draft"   -> "wait_confirmation"
       [] s = "regenerate_issue_draft" -> "wait_confirmation"]

OnContinue_NoIssues ==
  [s \in ContinueSteps |->
     CASE s = "find_relevant_bc"       -> "wait_issue_decision"
       [] s = "find_relevant_issue"    -> "wait_issue_decision"
       [] s = "generate_issue_draft"   -> "wait_confirmation"
       [] s = "regenerate_issue_draft" -> "wait_confirmation"]

OnContinue_DecisionAgain ==
  [s \in ContinueSteps |->
     CASE s = "find_relevant_bc"       -> "find_relevant_issue"
       [] s = "find_relevant_issue"    -> "wait_issue_decision"
       [] s = "generate_issue_draft"   -> "wait_confirmation"
       [] s = "regenerate_issue_draft" -> "wait_issue_decision"]

OnContinue ==
  [s \in ContinueSteps |->
     CASE s = "find_relevant_bc"       -> "find_relevant_issue"
       [] s = "find_relevant_issue"    -> "wait_issue_decision"
       [] s = "generate_issue_draft"   -> "wait_confirmation"
       [] s = "regenerate_issue_draft" -> "wait_confirmation"]

(***************************************************************************)
(* The values of the enum Decision.  They double as event types: the four  *)
(* buttons of the decision message send their Decision's value.            *)
(***************************************************************************)
Decision == {"reject_duplicate", "extend_existing", "block_existing",
             "create_new_independent"}

(***************************************************************************)
(* The user actions a worker hands to resume().  drop_restart is accepted  *)
(* too, but no handler of the repository sends it.                         *)
(***************************************************************************)
ResumeActions == Decision \union {"accept", "reject"}

RESUME_MAP_Misspelt ==
  [a \in ResumeActions |->
     CASE a = "accept"           -> "create_github_issue"
       [] a = "reject"           -> "regenerate_issue_draft"
       [] a = "reject_duplicate" -> "reject_end"
       [] OTHER                  -> "generate_draft"]

RESUME_MAP ==
  [a \in ResumeActions |->
     CASE a = "accept"           -> "create_github_issue"
       [] a = "reject"           -> "regenerate_issue_draft"
       [] a = "reject_duplicate" -> "reject_end"
       [] OTHER                  -> "generate_issue_draft"]

(***************************************************************************)
(* The subcommands of pipeline_start; only feat has a graph.               *)
(***************************************************************************)
Subcommands == {"feat", "fix", "refactor"}

HasNode(wtype, step) == wtype = "feat" /\ step \in Steps

HasResume(wtype, action) == wtype = "feat" /\ action \in ResumeActions

(***************************************************************************)
(* GitHub relation execute() asks for after the POST, given the decision   *)
(* and whether find_relevant_issue reported an anchor issue.               *)
(***************************************************************************)
Relations == {"none", "child", "blocking"}

RelationFor(decision, relevant) ==
  IF relevant = "anchored"
    THEN CASE decision = "extend_existing" -> "child"
           [] decision = "block_existing"  -> "blocking"
           [] OTHER                        -> "none"
    ELSE "none"
=============================================================================
