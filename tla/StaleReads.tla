------------------------------ MODULE StaleReads ------------------------------
(***************************************************************************)
(* Barlow with DynamoDB as it is read: get_item of the workflow store asks *)
(* for no consistent read, so a worker that resumes a workflow, or a drop, *)
(* may be given the version before the last write.                         *)
(***************************************************************************)
EXTENDS Barlow

CONSTANT
  MaxStale  \* bound: how many reads of a behaviour miss the last write

ASSUME StaleAssumption == MaxStale \in Nat

VARIABLES
  older,  \* the version of each workflow that its last write replaced
  stale   \* reads that may still miss a write

staleVars == <<vars, older, stale>>

Nothing == [w \in WorkflowIds |-> None]

(* get() gives the last version but one; after the last such read of the
   behaviour no version need be kept *)
Missed(w) ==
  /\ stale > 0
  /\ older[w] # wfTable[w]
  /\ stale' = stale - 1
  /\ older' = IF stale = 1 THEN Nothing ELSE older

LoadMissing(p) ==
  /\ At(p, "load")
  /\ LET e == event[Ev(p)]
     IN  /\ Missed(e.wf)
         /\ IF Resumable(older[e.wf], e.type)
              THEN GotoWith(p, "saveResumed", Resumed(older[e.wf], Ev(p), e))
              ELSE Goto(p, "markDone")
  /\ UNCHANGED <<tables, sqs, slack, issues, drop, budget>>

DropLoadMissing_GivesUp(a) ==
  /\ DropAt(a, "load")
  /\ Missed(drop[a].wf)
  /\ older[drop[a].wf] # None => Restorable(older[drop[a].wf])
  /\ drop' = [drop EXCEPT ![a].inst = older[drop[a].wf],
                          ![a].pc = IF older[drop[a].wf] = None
                                      THEN "done" ELSE "save"]
  /\ UNCHANGED <<tables, sqs, slack, issues, worker, budget>>

DropLoadMissing(a) ==
  /\ DropAt(a, "load")
  /\ Missed(drop[a].wf)
  /\ older[drop[a].wf] # None => Restorable(older[drop[a].wf])
  /\ drop' = [drop EXCEPT ![a].inst = older[drop[a].wf],
                          ![a].pc = IF older[drop[a].wf] = None
                                      THEN "clear" ELSE "save"]
  /\ UNCHANGED <<tables, sqs, slack, issues, worker, budget>>

Keep ==
  /\ older' = [w \in WorkflowIds |->
                 IF stale = 0 \/ wfTable'[w] = wfTable[w] THEN older[w]
                                                          ELSE wfTable[w]]
  /\ UNCHANGED stale

StaleInit ==
  /\ Init
  /\ older = Nothing
  /\ stale = MaxStale

StaleNext ==
  \/ Next /\ Keep
  \/ \E p \in Workers : LoadMissing(p)
  \/ \E a \in Invocations : DropLoadMissing(a)

StaleSpec == StaleInit /\ [][StaleNext]_staleVars
=============================================================================
