------------------------- MODULE BarlowRecords_proofs -------------------------
(***************************************************************************)
(* What is stored stays true of Slack, GitHub and the sessions, however    *)
(* workers and drops overwrite each other's copies of a workflow: for      *)
(* every number of users, workflows, events, workers and drops, and every  *)
(* budget of faults.                                                       *)
(***************************************************************************)
EXTENDS BarlowFiling_proofs

(***************************************************************************)
(* The copies of workflows: those stored, those in the hands of a worker,  *)
(* and those a drop is about to save.                                      *)
(***************************************************************************)
Held(p) == worker[p].pc \in WithInstance

Copies ==
  {i \in Instance :
     \/ \E w \in WorkflowIds : i = wfTable[w]
     \/ \E p \in Workers : Held(p) /\ i = Inst(p)
     \/ \E a \in Invocations : drop[a].pc = "save" /\ i = drop[a].inst}

-----------------------------------------------------------------------------
(***************************************************************************)
(* What a step of a worker does to copies, sessions, messages and issues.  *)
(***************************************************************************)
Has(p, pc, i) ==
  /\ worker'[p].pc = pc
  /\ worker'[p].inst = i
  /\ worker'[p].ev = worker[p].ev

(* all that a draft, a message and an issue are made of *)
Like(i, j) ==
  /\ i.id = j.id /\ i.key = j.key /\ i.wtype = j.wtype /\ i.step = j.step
  /\ i.decision = j.decision /\ i.relevant = j.relevant /\ i.draft = j.draft

Quits(p) ==
  /\ ~ Held(p)'
  /\ worker'[p].pc = "idle" => worker'[p].ev = None
  /\ worker[p].pc = "clearSession"
       => \/ session'[Inst(p).key] = None
          \/ ~ InTry(p)' /\ UNCHANGED pending
  /\ \A k \in Keys : session'[k] \in {session[k], None}
  /\ \A k \in Keys :
       session'[k] # session[k]
         => worker[p].pc = "clearSession" /\ k = Inst(p).key
  /\ UNCHANGED <<wfTable, created, message, issues>>

Creates(p, i) ==
  /\ worker[p].pc = "create" /\ Has(p, "setSession", i)
  /\ i.key = event[Ev(p)].key /\ i.wtype = event[Ev(p)].wtype
  /\ i.id \notin created /\ created' = created \union {i.id}
  /\ i.status = "RUNNING" /\ i.step = FIRST_STEP
  /\ i.draft = None /\ i.messageTs = None
  /\ Save(i)
  /\ UNCHANGED <<session, message, issues>>

Starts(p) ==
  /\ worker[p].pc = "setSession" /\ Has(p, "run", Inst(p))
  /\ SessionSet(Inst(p).key, Inst(p).id)
  /\ UNCHANGED <<wfTable, created, message, issues>>

Loads(p, i) ==
  /\ worker[p].pc = "load" /\ Has(p, "saveResumed", i)
  /\ LET e == event[Ev(p)]
     IN  /\ e.type \in ResumeActions
         /\ wfTable[e.wf] \in Copies /\ wfTable[e.wf].id = e.wf
         /\ i.id = e.wf /\ i.key = wfTable[e.wf].key
         /\ i.wtype = wfTable[e.wf].wtype /\ i.wtype = "feat"
         /\ i.draft = wfTable[e.wf].draft
         /\ i.messageTs = wfTable[e.wf].messageTs
         /\ i.status = "RUNNING" /\ i.step = RESUME_MAP[e.type]
         /\ e.type \in Decision => i.decision = e.type
  /\ UNCHANGED <<wfTable, created, session, message, issues>>

Saves(p) ==
  /\ \/ worker[p].pc = "saveResumed" /\ Has(p, "run", Inst(p))
     \/ worker[p].pc = "saveEnd" /\ Has(p, "clearSession", Inst(p))
     \/ worker[p].pc = "saveWaiting" /\ ~ Held(p)' /\ worker'[p].pc = "markDone"
  /\ Save(Inst(p))
  /\ UNCHANGED <<created, session, message, issues>>

Thinks(p, i) ==
  /\ worker[p].pc = "run" /\ Has(p, "run", i)
  /\ Inst(p).step \in ContinueSteps
  /\ i.step = OnContinue[Inst(p).step]
  /\ i.id = Inst(p).id /\ i.key = Inst(p).key /\ i.wtype = Inst(p).wtype
  /\ i.status = Inst(p).status /\ i.messageTs = Inst(p).messageTs
  /\ i.draft = IF Inst(p).step \in {"generate_issue_draft",
                                    "regenerate_issue_draft"}
                 THEN Ev(p) ELSE Inst(p).draft
  /\ Save(i)
  /\ UNCHANGED <<created, session, message, issues>>

Shows(p, i) ==
  /\ worker[p].pc = "run" /\ Has(p, "saveWaiting", i)
  /\ Like(i, Inst(p)) /\ i.wtype = "feat" /\ i.step \in WaitSteps
  /\ i.status = "WAITING" /\ i.messageTs = Ev(p)
  /\ message' = [message EXCEPT ![Ev(p)] =
                   [wf |-> i.id, step |-> i.step, draft |-> i.draft,
                    live |-> TRUE]]
  /\ UNCHANGED <<wfTable, created, session, issues>>

Stops(p, i) ==
  /\ worker[p].pc = "run"
  /\ Like(i, Inst(p)) /\ i.messageTs = Inst(p).messageTs
  /\ \/ /\ Has(p, "saveEnd", i) /\ i.status = "FAILED"
        /\ ~ HasNode(i.wtype, i.step)
     \/ Has(p, "notify", i) /\ i.status = "COMPLETED" /\ i.step = "reject_end"
  /\ UNCHANGED <<wfTable, created, session, message, issues>>

Files(p, i) ==
  /\ worker[p].pc = "run"
  /\ Like(i, Inst(p)) /\ i.messageTs = Inst(p).messageTs
  /\ i.step = "create_github_issue" /\ i.draft # None
  /\ issues' = Append(issues, [ev |-> Ev(p), wf |-> i.id, draft |-> i.draft,
                               relation |-> "none"])
  /\ \/ /\ Has(p, "notify", i)
        /\ RelationOf(i) = "none"
        /\ i.status = "COMPLETED" /\ i.url = Len(issues) + 1
     \/ /\ Has(p, "relate", i)
        /\ i.status = Inst(p).status /\ worker'[p].issue = Len(issues) + 1
  /\ UNCHANGED <<wfTable, created, session, message>>

Relates(p, i) ==
  /\ worker[p].pc = "relate" /\ Has(p, "notify", i)
  /\ Like(i, Inst(p)) /\ i.messageTs = Inst(p).messageTs
  /\ i.status = "COMPLETED" /\ i.url = worker[p].issue
  /\ issues' = [issues EXCEPT ![worker[p].issue].relation = RelationOf(i)]
  /\ UNCHANGED <<wfTable, created, session, message>>

Notifies(p) ==
  /\ worker[p].pc = "notify" /\ Has(p, "saveEnd", Inst(p))
  /\ message' = IF Inst(p).messageTs = None THEN message
                ELSE [message EXCEPT ![Inst(p).messageTs].live = FALSE]
  /\ UNCHANGED <<wfTable, created, session, issues>>

Does(p) ==
  /\ Others(p) /\ UNCHANGED <<event, modal, drop>>
  /\ \/ Quits(p) \/ Starts(p) \/ Saves(p) \/ Notifies(p)
     \/ \E i \in Instance :
          \/ Creates(p, i) \/ Loads(p, i) \/ Thinks(p, i) \/ Shows(p, i)
          \/ Stops(p, i) \/ Files(p, i) \/ Relates(p, i)

-----------------------------------------------------------------------------
(* Each step of a worker, a death or an exception is one of these.         *)

LEMMA TableCopies ==
  ASSUME TypeOK, NEW w \in WorkflowIds, wfTable[w] # None
  PROVE  wfTable[w] \in Copies /\ wfTable[w] \in Instance
  BY DEF TypeOK, Copies

LEMMA QuitsCase ==
  ASSUME TypeInv, NEW p \in Workers,
         \/ \E d \in Events, r \in Receives : Receive(p, d, r)
         \/ Acquire(p) \/ SkipDuplicate(p) \/ MarkDone(p)
         \/ RefuseStart(p) \/ AllowStart(p) \/ IgnoreResume(p)
         \/ ClearSession(p) \/ RaiseNotReady(p) \/ Raise(p) \/ Crash(p)
  PROVE  Does(p)
<1> USE DEF tables, sqs, slack
<1>0. worker \in [Workers -> WorkerState] /\ TypeOK
  BY DEF TypeInv, TypeOK
<1>1. Others(p) /\ ~ Held(p)'
  <2>1. CASE \E d \in Events, r \in Receives : Receive(p, d, r)
    <3>1. PICK d \in Events, r \in Receives : Receive(p, d, r)
      BY <2>1
    <3>2. Others(p) /\ worker'[p].pc = "received"
      BY <1>0, <3>1 DEF Receive, Others, Idle
    <3>3. QED
      BY <3>2 DEF Held, WithInstance
  <2>2. CASE \/ SkipDuplicate(p) \/ MarkDone(p) \/ RaiseNotReady(p)
             \/ Raise(p) \/ Crash(p)
    <3>1. Finish(p)
      BY <2>2 DEF SkipDuplicate, MarkDone, RaiseNotReady, Raise, Crash
    <3>2. QED
      BY <1>0, <3>1, FinishType DEF Held, WithInstance
  <2>3. CASE \/ Acquire(p) \/ RefuseStart(p) \/ AllowStart(p)
             \/ IgnoreResume(p) \/ ClearSession(p)
    <3>1. PICK pc \in WorkerPc \ WithInstance : Goto(p, pc)
      BY <2>3
      DEF Acquire, RefuseStart, AllowStart, IgnoreResume, ClearSession,
          WorkerPc, WithInstance
    <3>2. QED
      BY <1>0, <3>1, GotoType DEF Held
  <2>4. QED
    BY <2>1, <2>2, <2>3
<1>2. UNCHANGED <<wfTable, created, message, issues, event, modal, drop>>
  BY DEF Receive, Acquire, SkipDuplicate, MarkDone, RefuseStart, AllowStart,
         IgnoreResume, ClearSession, RaiseNotReady, Raise, Crash
<1>3. ASSUME NEW k \in Keys
      PROVE  session'[k] \in {session[k], None}
  BY <1>0
  DEF Receive, Acquire, SkipDuplicate, MarkDone, RefuseStart, AllowStart,
      IgnoreResume, ClearSession, RaiseNotReady, Raise, Crash, SessionClear,
      TypeOK
<1>4. worker'[p].pc = "idle" => worker'[p].ev = None
  <2>1. CASE \E d \in Events, r \in Receives : Receive(p, d, r)
    <3>1. PICK d \in Events, r \in Receives : Receive(p, d, r)
      BY <2>1
    <3>2. worker'[p].pc = "received"
      BY <1>0, <3>1 DEF Receive, Idle
    <3>3. QED
      BY <3>2
  <2>2. CASE \/ SkipDuplicate(p) \/ MarkDone(p) \/ RaiseNotReady(p)
             \/ Raise(p) \/ Crash(p)
    BY <1>0, <2>2
    DEF SkipDuplicate, MarkDone, RaiseNotReady, Raise, Crash, Finish, Idle
  <2>3. CASE \/ Acquire(p) \/ RefuseStart(p) \/ AllowStart(p)
             \/ IgnoreResume(p) \/ ClearSession(p)
    <3>1. PICK pc \in {"checkSession", "create", "load", "markDone"} : Goto(p, pc)
      BY <2>3 DEF Acquire, RefuseStart, AllowStart, IgnoreResume, ClearSession
    <3>2. worker'[p].pc = pc
      BY <1>0, <3>1, GotoType DEF WorkerPc
    <3>3. QED
      BY <3>2
  <2>4. QED
    BY <2>1, <2>2, <2>3
<1>5. ASSUME worker[p].pc = "clearSession"
      PROVE  \/ session'[Inst(p).key] = None
             \/ ~ InTry(p)' /\ UNCHANGED pending
  <2>1. CASE ClearSession(p)
    <3>1. Inst(p).key \in Keys
      BY <1>5 DEF TypeInv, WorkerInv, LocalInv, WithInstance, Inst, Instance
    <3>2. QED
      BY <1>0, <2>1, <3>1 DEF ClearSession, SessionClear, TypeOK
  <2>2. CASE Raise(p) \/ Crash(p)
    BY <1>0, <2>2 DEF Raise, Crash, Finish, Idle, InTry
  <2>3. QED
    BY <1>5, <2>1, <2>2
    DEF Receive, Acquire, SkipDuplicate, MarkDone, RefuseStart, AllowStart,
        IgnoreResume, RaiseNotReady, AtStep, At
<1>6. ASSUME NEW k \in Keys, session'[k] # session[k]
      PROVE  worker[p].pc = "clearSession" /\ k = Inst(p).key
  BY <1>0, <1>6
  DEF Receive, Acquire, SkipDuplicate, MarkDone, RefuseStart, AllowStart,
      IgnoreResume, ClearSession, RaiseNotReady, Raise, Crash, SessionClear,
      TypeOK, At
<1> QED
  BY <1>1, <1>2, <1>3, <1>4, <1>5, <1>6 DEF Does, Quits

LEMMA CreatesCase ==
  ASSUME TypeInv, NEW p \in Workers, CreateInstance(p)
  PROVE  Does(p)
<1>1. /\ event[Ev(p)] \in Event /\ event[Ev(p)].key \in Keys
      /\ worker \in [Workers -> WorkerState]
  BY DEF CreateInstance, At, Ev, TypeInv, TypeOK, WorkerInv, LocalInv,
         EventInv, EventOf
<1>2. PICK w \in WorkflowIds \ created :
        /\ Save(NewInstance(w, event[Ev(p)]))
        /\ created' = created \union {w}
        /\ GotoWith(p, "setSession", NewInstance(w, event[Ev(p)]))
  BY DEF CreateInstance
<1> DEFINE i == NewInstance(w, event[Ev(p)])
<1>3. /\ i \in Instance /\ i.id = w /\ i.key = event[Ev(p)].key
      /\ i.messageTs = None /\ i.status = "RUNNING" /\ i.step = FIRST_STEP
  BY <1>1, NewInstanceType
<1>4. i.draft = None /\ i.wtype = event[Ev(p)].wtype
  BY DEF NewInstance
<1>5. Save(i) /\ GotoWith(p, "setSession", i)
  BY <1>2
<1> HIDE DEF i
<1>6. Has(p, "setSession", i) /\ Others(p)
  BY <1>1, <1>3, <1>5, GotoWithType DEF Has, WorkerPc
<1>7. /\ worker[p].pc = "create"
      /\ UNCHANGED <<session, message, issues, event, modal, drop>>
  BY DEF CreateInstance, At, sqs, slack
<1> QED
  BY <1>2, <1>3, <1>4, <1>5, <1>6, <1>7 DEF Does, Creates

LEMMA SavesCase ==
  ASSUME TypeInv, NEW p \in Workers,
         \/ SetSession(p) \/ SaveResumed(p) \/ SaveWaiting(p) \/ SaveEnd(p)
         \/ NotifyEnd(p)
  PROVE  Does(p)
<1> USE DEF tables, sqs, slack
<1>1. PICK pc \in {"run", "markDone", "clearSession", "saveEnd"} : Goto(p, pc)
  BY DEF SetSession, SaveResumed, SaveWaiting, SaveEnd, NotifyEnd
<1>2. Has(p, pc, Inst(p)) /\ Others(p)
  BY <1>1, GotoType DEF TypeInv, TypeOK, WorkerPc, Has, Inst
<1>3. CASE SetSession(p)
  <2>1. Goto(p, "run")
    BY <1>3 DEF SetSession
  <2>2. worker'[p].pc = "run"
    BY <2>1, GotoType DEF TypeInv, TypeOK, WorkerPc
  <2>3. QED
    BY <1>2, <1>3, <2>2 DEF SetSession, At, Does, Starts, Has
<1>4. CASE SaveResumed(p)
  <2>1. Goto(p, "run")
    BY <1>4 DEF SaveResumed
  <2>2. worker'[p].pc = "run"
    BY <2>1, GotoType DEF TypeInv, TypeOK, WorkerPc
  <2>3. QED
    BY <1>2, <1>4, <2>2 DEF SaveResumed, At, Does, Saves, Has
<1>5. CASE SaveWaiting(p)
  <2>1. Goto(p, "markDone")
    BY <1>5 DEF SaveWaiting
  <2>2. worker'[p].pc = "markDone"
    BY <2>1, GotoType DEF TypeInv, TypeOK, WorkerPc
  <2>3. QED
    BY <1>2, <1>5, <2>2
    DEF SaveWaiting, At, Does, Saves, Has, Held, WithInstance
<1>6. CASE SaveEnd(p)
  <2>1. Goto(p, "clearSession")
    BY <1>6 DEF SaveEnd
  <2>2. worker'[p].pc = "clearSession"
    BY <2>1, GotoType DEF TypeInv, TypeOK, WorkerPc
  <2>3. QED
    BY <1>2, <1>6, <2>2 DEF SaveEnd, At, Does, Saves, Has
<1>7. CASE NotifyEnd(p)
  <2>1. Goto(p, "saveEnd")
    BY <1>7 DEF NotifyEnd
  <2>2. worker'[p].pc = "saveEnd"
    BY <2>1, GotoType DEF TypeInv, TypeOK, WorkerPc
  <2>3. QED
    BY <1>2, <1>7, <2>2 DEF NotifyEnd, At, Does, Notifies, Has
<1> QED
  BY <1>3, <1>4, <1>5, <1>6, <1>7

LEMMA LoadsCase ==
  ASSUME TypeInv, IdInv, NEW p \in Workers, LoadInstance(p)
  PROVE  Does(p)
<1> DEFINE e == event[Ev(p)]
           old == wfTable[e.wf]
           i == Resumed(old, Ev(p), e)
<1>1. /\ GotoWith(p, "saveResumed", i) /\ old # None /\ old.wtype = "feat"
      /\ e.type \in ResumeActions /\ worker[p].pc = "load"
      /\ UNCHANGED <<wfTable, created, session, message, issues, event, modal,
                     drop>>
  BY DEF LoadInstance, Resumable, HasResume, At, tables, sqs, slack
<1>2. Ev(p) \in Events /\ e \in Event /\ e.wf \in WorkflowIds
  BY <1>1
  DEF At, Ev, TypeInv, TypeOK, WorkerInv, LocalInv, EventInv, EventOf
<1>3. old \in Instance /\ old \in Copies /\ old.id = e.wf
  BY <1>1, <1>2, TableCopies DEF TypeInv, IdInv
<1>4. /\ i \in Instance /\ i.id = old.id /\ i.key = old.key
      /\ i.wtype = old.wtype
      /\ i.messageTs = old.messageTs /\ i.draft = old.draft
      /\ i.status = "RUNNING" /\ i.step = RESUME_MAP[e.type]
  <2>1. old \in Instance
    BY <1>3
  <2> HIDE DEF old, e
  <2>2. QED
    BY <1>1, <1>2, <2>1, ResumedType
<1>5. e.type \in Decision => i.decision = e.type
  <2>1. old \in Instance
    BY <1>3
  <2> HIDE DEF old, e
  <2>2. QED
    BY <2>1 DEF Resumed, Instance
<1> HIDE DEF i
<1>6. Has(p, "saveResumed", i) /\ Others(p)
  BY <1>1, <1>4, GotoWithType DEF TypeInv, TypeOK, Has, WorkerPc
<1> QED
  BY <1>1, <1>3, <1>4, <1>5, <1>6 DEF Does, Loads

LEMMA ThinksCase ==
  ASSUME TypeInv, NEW p \in Workers, ContinueStep(p)
  PROVE  Does(p)
<1>1. PICK finding \in Findings :
        LET out == ApplyOutput(Inst(p).step, Inst(p), Ev(p), finding)
            i   == [out EXCEPT !.step = OnContinue[out.step]]
        IN  Save(i) /\ GotoWith(p, "run", i)
  BY DEF ContinueStep
<1> DEFINE out == ApplyOutput(Inst(p).step, Inst(p), Ev(p), finding)
           i   == [out EXCEPT !.step = OnContinue[out.step]]
<1>2. /\ Inst(p) \in Instance /\ Inst(p).step \in ContinueSteps
      /\ worker[p].pc = "run" /\ Ev(p) \in Events
      /\ finding \in {"anchored", "unanchored"}
      /\ UNCHANGED <<created, session, message, issues, event, modal, drop>>
  BY InputsAssumption
  DEF ContinueStep, AtStep, At, TypeInv, WorkerInv, LocalInv, WithInstance, Ev,
      Inst, sqs, slack
<1>3. /\ i \in Instance /\ i.step = OnContinue[Inst(p).step]
      /\ i.id = Inst(p).id /\ i.key = Inst(p).key /\ i.wtype = Inst(p).wtype
      /\ i.status = Inst(p).status /\ i.messageTs = Inst(p).messageTs
      /\ i.draft = IF Inst(p).step \in {"generate_issue_draft",
                                        "regenerate_issue_draft"}
                     THEN Ev(p) ELSE Inst(p).draft
  BY <1>2
  DEF ApplyOutput, FindRelevantBc, FindRelevantIssue, GenerateIssueDraft,
      RegenerateIssueDraft, Instance, OnContinue, Steps, ContinueSteps,
      WaitSteps, StopSteps, MaybeEvent
<1>4. Save(i) /\ GotoWith(p, "run", i)
  BY <1>1
<1> HIDE DEF i
<1>5. Has(p, "run", i) /\ Others(p)
  BY <1>3, <1>4, GotoWithType DEF TypeInv, TypeOK, Has, WorkerPc
<1> QED
  BY <1>2, <1>3, <1>4, <1>5 DEF Does, Thinks

LEMMA ShowsCase ==
  ASSUME TypeInv, NEW p \in Workers, PostWaitMessage(p)
  PROVE  Does(p)
<1> DEFINE i == [Inst(p) EXCEPT !.messageTs = Ev(p), !.status = "WAITING"]
<1>1. /\ Inst(p) \in Instance /\ Inst(p).step \in WaitSteps
      /\ Inst(p).wtype = "feat"
      /\ worker[p].pc = "run" /\ Ev(p) \in Events
      /\ message' = [message EXCEPT ![Ev(p)] = WaitMessage(Inst(p))]
      /\ GotoWith(p, "saveWaiting", i)
      /\ UNCHANGED <<wfTable, created, session, issues, event, modal, drop>>
  BY DEF PostWaitMessage, AtStep, HasNode, At, TypeInv, WorkerInv, LocalInv,
         WithInstance, Ev, Inst, tables, sqs
<1>2. /\ i \in Instance /\ Like(i, Inst(p)) /\ i.step = Inst(p).step
      /\ i.wtype = Inst(p).wtype
      /\ i.status = "WAITING" /\ i.messageTs = Ev(p)
      /\ WaitMessage(Inst(p)) = [wf |-> i.id, step |-> i.step,
                                 draft |-> i.draft, live |-> TRUE]
  BY <1>1 DEF Instance, Like, Status, MaybeEvent, WaitMessage
<1> HIDE DEF i
<1>3. Has(p, "saveWaiting", i) /\ Others(p)
  BY <1>1, <1>2, GotoWithType DEF TypeInv, TypeOK, Has, WorkerPc
<1> QED
  BY <1>1, <1>2, <1>3 DEF Does, Shows

LEMMA StopsCase ==
  ASSUME TypeInv, NEW p \in Workers, FailUnknownStep(p) \/ RejectEnd(p)
  PROVE  Does(p)
<1>1. PICK status \in {"FAILED", "COMPLETED"}, pc \in {"saveEnd", "notify"} :
        /\ GotoWith(p, pc, [Inst(p) EXCEPT !.status = status])
        /\ \/ /\ status = "FAILED" /\ pc = "saveEnd"
              /\ ~ HasNode(Inst(p).wtype, Inst(p).step)
           \/ status = "COMPLETED" /\ pc = "notify" /\ Inst(p).step = "reject_end"
  BY DEF FailUnknownStep, RejectEnd, AtStep
<1> DEFINE i == [Inst(p) EXCEPT !.status = status]
<1>2. /\ Inst(p) \in Instance /\ worker[p].pc = "run"
      /\ UNCHANGED <<wfTable, created, session, message, issues, event, modal,
                     drop>>
  BY DEF FailUnknownStep, RejectEnd, AtStep, At, TypeInv, WorkerInv, LocalInv,
         WithInstance, Inst, tables, sqs, slack
<1>3. /\ i \in Instance /\ Like(i, Inst(p)) /\ i.status = status
      /\ i.messageTs = Inst(p).messageTs
  BY <1>2 DEF Instance, Like, Status
<1>4. GotoWith(p, pc, i)
  BY <1>1
<1> HIDE DEF i
<1>5. Has(p, pc, i) /\ Others(p)
  BY <1>3, <1>4, GotoWithType DEF TypeInv, TypeOK, Has, WorkerPc
<1> QED
  BY <1>1, <1>2, <1>3, <1>5 DEF Does, Stops, Like

LEMMA FilesCase ==
  ASSUME TypeInv, NEW p \in Workers, CreateIssue(p)
  PROVE  Does(p)
<1> DEFINE n == Len(issues) + 1
           new == [ev |-> Ev(p), wf |-> Inst(p).id, draft |-> Inst(p).draft,
                   relation |-> "none"]
<1>1. /\ Inst(p) \in Instance /\ worker[p].pc = "run" /\ n \in Nat
      /\ Inst(p).step = "create_github_issue" /\ Inst(p).draft # None
      /\ worker \in [Workers -> WorkerState] /\ worker[p] \in WorkerState
      /\ issues' = Append(issues, new)
      /\ UNCHANGED <<wfTable, created, session, message, event, modal, drop>>
  BY DEF CreateIssue, AtStep, At, Ready, TypeInv, TypeOK, WorkerInv, LocalInv,
         WithInstance, Inst, tables, sqs, slack
<1>2. CASE RelationOf(Inst(p)) = "none"
  <2> DEFINE i == Filed(Inst(p), n)
  <2>1. /\ i \in Instance /\ Like(i, Inst(p)) /\ i.status = "COMPLETED"
        /\ i.messageTs = Inst(p).messageTs /\ i.url = n
    BY <1>1 DEF Filed, Instance, Like, Status
  <2>2. RelationOf(i) = "none"
    BY <1>2, <2>1 DEF Like, RelationOf
  <2>3. Has(p, "notify", i) /\ Others(p)
    BY <1>1, <1>2 DEF CreateIssue, Has, Others, WorkerState
  <2> HIDE DEF i
  <2>4. Files(p, i)
    BY <1>1, <2>1, <2>2, <2>3 DEF Files, Like
  <2>5. QED
    BY <1>1, <2>1, <2>3, <2>4 DEF Does
<1>3. CASE RelationOf(Inst(p)) # "none"
  <2>1. /\ Has(p, "relate", Inst(p)) /\ worker'[p].issue = n /\ Others(p)
    BY <1>1, <1>3 DEF CreateIssue, Has, Others, WorkerState, Inst
  <2>2. Files(p, Inst(p))
    BY <1>1, <2>1 DEF Files, Like
  <2>3. QED
    BY <1>1, <2>1, <2>2 DEF Does
<1> QED
  BY <1>2, <1>3

LEMMA RelatesCase ==
  ASSUME TypeInv, NEW p \in Workers, SetRelation(p)
  PROVE  Does(p)
<1> DEFINE i == Filed(Inst(p), worker[p].issue)
<1>1. /\ Inst(p) \in Instance /\ worker[p].pc = "relate"
      /\ worker[p].issue \in Nat
      /\ issues' = [issues EXCEPT ![worker[p].issue].relation =
                                    RelationOf(Inst(p))]
      /\ GotoWith(p, "notify", i)
      /\ UNCHANGED <<wfTable, created, session, message, event, modal, drop>>
  BY DEF SetRelation, At, TypeInv, TypeOK, WorkerInv, LocalInv, WorkerState,
         WithInstance, Inst, tables, sqs, slack
<1>2. /\ i \in Instance /\ Like(i, Inst(p)) /\ i.status = "COMPLETED"
      /\ i.messageTs = Inst(p).messageTs /\ i.url = worker[p].issue
  BY <1>1 DEF Filed, Instance, Like, Status
<1> HIDE DEF i
<1>3. RelationOf(i) = RelationOf(Inst(p))
  BY <1>2 DEF Like, RelationOf
<1>4. Has(p, "notify", i) /\ Others(p)
  BY <1>1, <1>2, GotoWithType DEF TypeInv, TypeOK, Has, WorkerPc
<1> QED
  BY <1>1, <1>2, <1>3, <1>4 DEF Does, Relates

LEMMA WorkerDoes ==
  ASSUME TypeInv, IdInv, NEW p \in Workers,
         WorkerStep(p) \/ Raise(p) \/ Crash(p)
  PROVE  Does(p)
  BY QuitsCase, CreatesCase, SavesCase, LoadsCase, ThinksCase, ShowsCase,
     StopsCase, FilesCase, RelatesCase
  DEF WorkerStep, Start, Resume, Execute

-----------------------------------------------------------------------------
(***************************************************************************)
(* What the other steps do.                                                *)
(***************************************************************************)
Proposes(m, w) ==
  message[m] # None /\ message[m].wf = w /\ message[m].step = "wait_confirmation"

Answers(e) ==
  \/ e.type = "pipeline_start" /\ e.wf = None
  \/ e.type \in Decision
       /\ \E m \in Events : message[m] # None /\ message[m].wf = e.wf
  \/ e.type = "accept" /\ \E m \in Events : Proposes(m, e.wf)
  \/ e.type = "reject" /\ e.wf \in modal

Asks ==
  /\ \/ UNCHANGED <<event, modal>>
     \/ /\ event' = event
        /\ \E m \in Events, w \in WorkflowIds :
             Proposes(m, w) /\ modal' = modal \union {w}
     \/ /\ modal' \subseteq modal
        /\ \E d \in Events, e \in Event : NewEvent(d, e) /\ Answers(e)
  /\ UNCHANGED <<wfTable, created, session, worker, message, issues, drop>>

Begins(a) ==
  /\ drop[a].pc = "ready" /\ drop'[a].pc = "load"
  /\ drop'[a].wf \in WorkflowIds
  /\ \/ \E k \in Keys : session[k] = drop'[a].wf
     \/ \E m \in Events : message[m] # None /\ message[m].wf = drop'[a].wf
  /\ UNCHANGED <<wfTable, session>>

Finds(a) ==
  /\ drop[a].pc = "load" /\ drop'[a].pc = "save"
  /\ drop'[a].inst = wfTable[drop[a].wf]
  /\ wfTable[drop[a].wf] \in Copies
  /\ UNCHANGED <<wfTable, session>>

Fails(a) ==
  /\ \/ drop'[a].pc \in {"clear", "dead"}
     \/ /\ drop[a].pc = "load" /\ drop'[a].pc = "failed"
        /\ \E i \in Instance : ~ Restorable(i)
  /\ UNCHANGED <<wfTable, session>>

Cancels(a, i) ==
  /\ drop[a].pc = "save" /\ drop'[a].pc = "clear"
  /\ Like(i, drop[a].inst) /\ i.messageTs = drop[a].inst.messageTs
  /\ i.status = "CANCELLED"
  /\ Save(i)
  /\ UNCHANGED session

Frees(a) ==
  /\ drop'[a].pc = "done"
  /\ session' = [session EXCEPT ![drop[a].key] = None]
  /\ UNCHANGED wfTable

Drops(a) ==
  /\ \A b \in Invocations : b # a => drop'[b] = drop[b]
  /\ \/ Begins(a)
     \/ /\ drop[a].pc \in {"load", "save", "clear"}
        /\ drop'[a].key = drop[a].key /\ drop'[a].wf = drop[a].wf
        /\ \/ Finds(a) \/ Fails(a) \/ Frees(a)
           \/ \E i \in Instance : Cancels(a, i)
  /\ UNCHANGED <<created, worker, event, modal, message, issues>>

Expires ==
  /\ \A w \in WorkflowIds : wfTable'[w] \in {wfTable[w], None}
  /\ \A k \in Keys : session'[k] \in {session[k], None}
  /\ UNCHANGED <<created, worker, event, modal, message, issues, drop>>

LEMMA UserAsks ==
  ASSUME TypeInv, User \/ \E d \in Events : Resend(d)
  PROVE  Asks
<1> USE DEF tables, sqs, slack, Send, NewEvent, Proposes
<1>1. CASE \E m \in Events : PressReject(m)
  BY <1>1, PressableType DEF PressReject, Asks, Pressable, TypeInv
<1>2. ASSUME NEW d \in Events, NEW k \in Keys, NEW sub \in Requests,
             SubmitRequest(d, k, sub)
      PROVE  Asks
  BY <1>2, StartEventType DEF SubmitRequest, StartEvent, Asks, Answers
<1>3. ASSUME NEW d \in Events, NEW m \in Events, PressAccept(d, m)
      PROVE  Asks
  <2> DEFINE e == ResumeEvent("accept", message[m].wf, FALSE)
  <2>1. e \in Event /\ e.wf = message[m].wf /\ e.type = "accept"
    BY <1>3, PressableType, ResumeEventType
    DEF PressAccept, TypeInv, ResumeEvent, ResumeActions
  <2>2. NewEvent(d, e) /\ modal' = modal
        /\ UNCHANGED <<wfTable, created, session, worker, message, issues, drop>>
    BY <1>3 DEF PressAccept
  <2>3. Proposes(m, e.wf)
    BY <1>3, <2>1 DEF PressAccept, Pressable
  <2> HIDE DEF e
  <2>4. QED
    BY <2>1, <2>2, <2>3 DEF Asks, Answers
<1>4. ASSUME NEW d \in Events, NEW m \in Events, NEW decision \in Choices,
             PressDecision(d, m, decision)
      PROVE  Asks
  <2> DEFINE e == ResumeEvent(decision, message[m].wf, FALSE)
  <2>1. e \in Event /\ e.wf = message[m].wf /\ e.type \in Decision
    BY <1>4, PressableType, ResumeEventType, InputsAssumption
    DEF PressDecision, TypeInv, ResumeEvent, ResumeActions
  <2>2. NewEvent(d, e) /\ modal' = modal /\ message[m] # None
        /\ UNCHANGED <<wfTable, created, session, worker, message, issues, drop>>
    BY <1>4 DEF PressDecision, Pressable
  <2> HIDE DEF e
  <2>3. QED
    BY <2>1, <2>2 DEF Asks, Answers
<1>5. ASSUME NEW d \in Events, NEW w \in WorkflowIds, NEW fb \in Comments,
             SubmitReject(d, w, fb)
      PROVE  Asks
  <2> DEFINE e == ResumeEvent("reject", w, fb)
  <2>1. e \in Event /\ e.wf = w /\ e.type = "reject"
    BY ResumeEventType, InputsAssumption DEF ResumeEvent, ResumeActions
  <2>2. NewEvent(d, e) /\ modal' \subseteq modal /\ w \in modal
        /\ UNCHANGED <<wfTable, created, session, worker, message, issues, drop>>
    BY <1>5 DEF SubmitReject
  <2> HIDE DEF e
  <2>3. QED
    BY <2>1, <2>2 DEF Asks, Answers
<1>6. CASE \E d \in Events : Resend(d)
  BY <1>6 DEF Resend, Asks
<1> QED
  BY <1>1, <1>2, <1>3, <1>4, <1>5, <1>6 DEF User, Press

LEMMA DropDrops ==
  ASSUME TypeInv, NEW a \in Invocations, Drop(a) \/ DropStep(a) \/ DropCrash(a)
  PROVE  Drops(a)
<1> USE DEF tables, sqs, slack, DropAt
<1>0. drop \in [Invocations -> DropState] /\ TypeOK /\ drop[a] \in DropState
  BY DEF TypeInv, TypeOK
<1>1. ASSUME NEW k \in Keys, DropCommand(a, k)
      PROVE  Drops(a)
  <2>1. session[k] \in WorkflowIds
    BY <1>0, <1>1 DEF DropCommand, TypeOK
  <2>2. QED
    BY <1>0, <1>1, <2>1 DEF DropCommand, BeginDrop, Drops, Begins
<1>2. ASSUME NEW m \in Events, NEW k \in Keys, DropButton(a, m, k)
      PROVE  Drops(a)
  <2>1. message[m].wf \in WorkflowIds /\ message[m] # None
    BY <1>0, <1>2, PressableType DEF DropButton, Pressable
  <2>2. QED
    BY <1>0, <1>2, <2>1 DEF DropButton, BeginDrop, Drops, Begins
<1>3. CASE DropLoad(a)
  <2>1. drop[a].wf \in WorkflowIds
    BY <1>3 DEF DropLoad, TypeInv, DropInv
  <2>2. /\ drop'[a].key = drop[a].key /\ drop'[a].wf = drop[a].wf
        /\ drop'[a].inst = wfTable[drop[a].wf]
        /\ drop'[a].pc = IF wfTable[drop[a].wf] = None THEN "clear" ELSE "save"
        /\ \A b \in Invocations : b # a => drop'[b] = drop[b]
    BY <1>0, <1>3 DEF DropLoad, DropState
  <2>3. QED
    BY <1>0, <1>3, <2>1, <2>2, TableCopies DEF DropLoad, Drops, Finds, Fails
<1>4. CASE DropSave(a)
  <2> DEFINE i == [drop[a].inst EXCEPT !.status = "CANCELLED"]
  <2>1. /\ drop[a].inst \in Instance /\ Save(i) /\ DropGoto(a, "clear")
        /\ drop[a].pc = "save"
        /\ UNCHANGED <<created, session, worker, event, modal, message, issues>>
    BY <1>4 DEF DropSave, TypeInv, DropInv
  <2>2. /\ i \in Instance /\ Like(i, drop[a].inst)
        /\ i.messageTs = drop[a].inst.messageTs /\ i.status = "CANCELLED"
    BY <2>1 DEF Instance, Status, Like
  <2> HIDE DEF i
  <2>3. /\ drop'[a].key = drop[a].key /\ drop'[a].wf = drop[a].wf
        /\ drop'[a].pc = "clear"
        /\ \A b \in Invocations : b # a => drop'[b] = drop[b]
    BY <1>0, <2>1 DEF DropGoto, DropState
  <2>4. QED
    BY <2>1, <2>2, <2>3 DEF Drops, Cancels
<1>5. CASE DropLoadFails(a) \/ DropClear(a) \/ DropCrash(a)
  <2>1. PICK pc \in {"done", "failed", "dead"} :
          /\ DropGoto(a, pc)
          /\ pc = "done" => session' = [session EXCEPT ![drop[a].key] = None]
          /\ pc # "done" => session' = session
          /\ pc = "failed" => /\ ~ Restorable(wfTable[drop[a].wf])
                              /\ wfTable[drop[a].wf] # None
                              /\ drop[a].pc = "load"
    BY <1>5 DEF DropLoadFails, DropClear, DropCrash, SessionClear
  <2>2. /\ drop[a].pc \in {"load", "save", "clear"} /\ drop[a].wf \in WorkflowIds
        /\ UNCHANGED <<wfTable, created, worker, event, modal, message, issues>>
    BY <1>5 DEF DropLoadFails, DropClear, DropCrash, TypeInv, DropInv
  <2>3. /\ drop'[a].key = drop[a].key /\ drop'[a].wf = drop[a].wf
        /\ drop'[a].pc = pc
        /\ \A b \in Invocations : b # a => drop'[b] = drop[b]
    BY <1>0, <2>1 DEF DropGoto, DropState
  <2>4. QED
    BY <1>0, <2>1, <2>2, <2>3, TableCopies DEF Drops, Fails, Frees
<1> QED
  BY <1>1, <1>2, <1>3, <1>4, <1>5 DEF Drop, DropStep

LEMMA NextDoes ==
  ASSUME TypeInv, IdInv, [Next]_vars
  PROVE  \/ \E p \in Workers : Does(p)
         \/ Asks
         \/ \E a \in Invocations : Drops(a)
         \/ Expires
<1>1. CASE \/ \E w \in WorkflowIds : ExpireWorkflow(w)
           \/ \E k \in Keys : ExpireSession(k)
  BY <1>1
  DEF ExpireWorkflow, ExpireSession, SessionClear, Expires, TypeInv, TypeOK,
      sqs, slack
<1>2. CASE UNCHANGED vars
  BY <1>2 DEF vars, Expires, tables, sqs, slack
<1> QED
  BY <1>1, <1>2, WorkerDoes, UserAsks, DropDrops DEF Next

-----------------------------------------------------------------------------
(***************************************************************************)
(* A step makes at most one copy there was not before.                     *)
(***************************************************************************)
LEMMA NewCopies ==
  ASSUME TypeInv, NEW p \in Workers, Does(p), NEW c \in Copies'
  PROVE  c \in Copies \/ (Held(p)' /\ c = Inst(p)')
<1>1. c \in Instance
  BY DEF Copies
<1>2. \/ wfTable' = wfTable
      \/ Held(p) /\ Save(Inst(p))
      \/ Held(p)' /\ Save(Inst(p)')
  BY DEF Does, Quits, Starts, Saves, Notifies, Creates, Loads, Thinks, Shows,
         Stops, Files, Relates, Has, Held, WithInstance, Inst
<1>3. ASSUME NEW w \in WorkflowIds, c = wfTable'[w]
      PROVE  c \in Copies \/ (Held(p)' /\ c = Inst(p)')
  BY <1>1, <1>2, <1>3 DEF Save, Copies, TypeInv, TypeOK
<1>4. ASSUME NEW q \in Workers, Held(q)', c = Inst(q)'
      PROVE  c \in Copies \/ (Held(p)' /\ c = Inst(p)')
  BY <1>1, <1>4 DEF Does, Others, Copies, Held, Inst
<1>5. ASSUME NEW a \in Invocations, drop'[a].pc = "save", c = drop'[a].inst
      PROVE  c \in Copies
  BY <1>1, <1>5 DEF Does, Copies
<1> QED
  BY <1>3, <1>4, <1>5 DEF Copies

LEMMA DropCopies ==
  ASSUME TypeInv, NEW a \in Invocations, Drops(a), NEW c \in Copies'
  PROVE  \/ c \in Copies
         \/ /\ drop[a].inst \in Copies
            /\ Like(c, drop[a].inst)
            /\ c.messageTs = drop[a].inst.messageTs /\ c.status = "CANCELLED"
<1>1. c \in Instance
  BY DEF Copies
<1>2. CASE \E i \in Instance : Cancels(a, i)
  <2>1. PICK i \in Instance : Cancels(a, i)
    BY <1>2
  <2>2. drop[a].inst \in Copies
    BY <2>1 DEF Cancels, Copies, TypeInv, DropInv
  <2>3. c \in Copies \/ c = i
    BY <1>1, <2>1 DEF Cancels, Drops, Copies, Held, Inst, Save, TypeInv, TypeOK
  <2>4. QED
    BY <2>1, <2>2, <2>3 DEF Cancels
<1>3. CASE ~ \E i \in Instance : Cancels(a, i)
  BY <1>1, <1>3
  DEF Drops, Begins, Finds, Fails, Frees, Copies, Held, Inst
<1> QED
  BY <1>2, <1>3

LEMMA OldCopies ==
  ASSUME TypeInv, Asks \/ Expires, NEW c \in Copies'
  PROVE  c \in Copies
  BY NoneIsNoRecord DEF Asks, Expires, Copies, Held, Inst

LEMMA HeldCopies ==
  ASSUME TypeInv, NEW p \in Workers, Held(p)
  PROVE  Inst(p) \in Copies /\ Inst(p) \in Instance
  BY DEF Held, Inst, Copies, TypeInv, WorkerInv, LocalInv

LEMMA Heirs ==
  ASSUME TypeInv, NEW p \in Workers, Does(p), NEW c \in Copies'
  PROVE  \/ \E o \in Copies :
              o.id = c.id /\ o.key = c.key /\ o.wtype = c.wtype
         \/ Creates(p, c)
<1>1. CASE c \in Copies
  BY <1>1
<1>2. CASE Held(p)' /\ c = Inst(p)'
  <2>1. CASE \E i \in Instance : Creates(p, i)
    BY <1>2, <2>1 DEF Creates, Has, Inst
  <2>2. CASE \E i \in Instance : Loads(p, i)
    BY <1>2, <2>2 DEF Loads, Has, Inst
  <2>3. CASE Starts(p) \/ Saves(p) \/ Notifies(p)
    BY <1>2, <2>3, HeldCopies
    DEF Starts, Saves, Notifies, Has, Inst, Held, WithInstance
  <2>4. CASE \E i \in Instance : \/ Thinks(p, i) \/ Shows(p, i) \/ Stops(p, i)
                                 \/ Files(p, i) \/ Relates(p, i)
    BY <1>2, <2>4, HeldCopies
    DEF Thinks, Shows, Stops, Files, Relates, Like, Has, Inst, Held, WithInstance
  <2>5. QED
    BY <1>2, <2>1, <2>2, <2>3, <2>4 DEF Does, Quits
<1> QED
  BY <1>1, <1>2, NewCopies

-----------------------------------------------------------------------------
(***************************************************************************)
(* Whose a workflow is.  A copy is one of a created workflow, all copies   *)
(* of one workflow have one user, and no id is created twice; so the       *)
(* session set at the end of start() names a workflow of that user,        *)
(* whatever happened between the two awaits.                               *)
(***************************************************************************)
OwnInv ==
  /\ \A i \in Copies : i.id \in created
  /\ \A i, j \in Copies : i.id = j.id => i.key = j.key
  /\ \A k \in Keys :
       session[k] # None =>
         /\ session[k] \in created
         /\ \A i \in Copies : i.id = session[k] => i.key = k

LEMMA HeirsKeepOwnInv ==
  ASSUME OwnInv, created' = created,
         \A c \in Copies' : \E o \in Copies : o.id = c.id /\ o.key = c.key,
         \A k \in Keys : session'[k] \in {session[k], None}
  PROVE  OwnInv'
  BY DEF OwnInv

LEMMA WorkerKeepsOwnInv ==
  ASSUME TypeInv, OwnInv, NEW p \in Workers, Does(p)
  PROVE  OwnInv'
<1>1. CASE \E i \in Instance : Creates(p, i)
  <2>1. PICK i \in Instance : Creates(p, i)
    BY <1>1
  <2>2. ASSUME NEW c \in Copies' PROVE c \in Copies \/ c = i
    BY <2>1, <2>2, NewCopies DEF Creates, Has, Inst
  <2>3. /\ created' = created \union {i.id} /\ i.id \notin created
        /\ session' = session
    BY <2>1 DEF Creates
  <2>4. QED
    BY <2>2, <2>3 DEF OwnInv
<1>2. CASE Starts(p)
  <2>1. \A c \in Copies' : \E o \in Copies : o.id = c.id /\ o.key = c.key
    BY <1>2, Heirs DEF Starts, Creates
  <2>2. Inst(p) \in Copies /\ Inst(p) \in Instance
    BY <1>2, HeldCopies DEF Starts, Held, WithInstance
  <2>3. /\ session \in [Keys -> WorkflowIds \union {None}]
        /\ session' = [session EXCEPT ![Inst(p).key] = Inst(p).id]
        /\ created' = created
    BY <1>2 DEF Starts, SessionSet, TypeInv, TypeOK
  <2>4. QED
    BY <2>1, <2>2, <2>3 DEF OwnInv
<1>3. CASE ~ Starts(p) /\ ~ \E i \in Instance : Creates(p, i)
  <2>1. /\ created' = created
        /\ \A k \in Keys : session'[k] \in {session[k], None}
    BY <1>3
    DEF Does, Quits, Saves, Notifies, Loads, Thinks, Shows, Stops, Files, Relates
  <2>2. \A c \in Copies' : \E o \in Copies : o.id = c.id /\ o.key = c.key
    BY <2>1, Heirs DEF Creates, Copies, Instance
  <2>3. QED
    BY <2>1, <2>2, HeirsKeepOwnInv
<1> QED
  BY <1>1, <1>2, <1>3

LEMMA OthersKeepOwnInv ==
  ASSUME TypeInv, OwnInv,
         Asks \/ (\E a \in Invocations : Drops(a)) \/ Expires
  PROVE  OwnInv'
<1>1. /\ created' = created
      /\ \A k \in Keys : session'[k] \in {session[k], None}
  BY DEF Asks, Drops, Begins, Finds, Fails, Cancels, Frees, Expires, TypeInv,
         TypeOK
<1>2. \A c \in Copies' : \E o \in Copies : o.id = c.id /\ o.key = c.key
  BY OldCopies, DropCopies DEF Like
<1> QED
  BY <1>1, <1>2, HeirsKeepOwnInv

LEMMA InitOwnInv == Init => OwnInv
  BY NoneIsNoRecord
  DEF Init, OwnInv, Copies, Held, WithInstance, Idle, NotInvoked

LEMMA NextKeepsOwnInv == FilingInvs /\ OwnInv /\ [Next]_vars => OwnInv'
  BY NextDoes, WorkerKeepsOwnInv, OthersKeepOwnInv DEF FilingInvs, FilingInv

LEMMA OwnInvHolds == Spec => []OwnInv
  BY InitOwnInv, NextKeepsOwnInv, FilingInvHolds, PTL DEF Spec

LEMMA OwnInvNamesOwn == FilingInvs /\ OwnInv => SessionNamesOwnWorkflow
<1> SUFFICES ASSUME FilingInvs, OwnInv, NEW k \in Keys, session[k] # None
             PROVE  /\ session[k] \in created
                    /\ wfTable[session[k]] # None
                         => wfTable[session[k]].key = k
  BY DEF SessionNamesOwnWorkflow
<1>1. session[k] \in WorkflowIds /\ session[k] \in created /\ TypeOK /\ IdInv
  BY DEF FilingInvs, FilingInv, TypeInv, TypeOK, OwnInv
<1>2. QED
  BY <1>1, TableCopies DEF IdInv, OwnInv

(***************************************************************************)
(* A session names a workflow that was created and stored for the same     *)
(* channel and user, so that /drop can find it (start saves the workflow   *)
(* before it sets the session).                                            *)
(***************************************************************************)
THEOREM SessionsNameTheirOwn == Spec => []SessionNamesOwnWorkflow
  BY OwnInvNamesOwn, FilingInvHolds, OwnInvHolds, PTL

-----------------------------------------------------------------------------
(***************************************************************************)
(* Until start() sets the session of a new workflow, nothing but its own   *)
(* worker and its record knows the workflow; and that await, alone, sets a *)
(* session.  So what a drop has cleared stays cleared.                     *)
(***************************************************************************)
Names(w) ==
  \/ \E k \in Keys : session[k] = w
  \/ \E d \in Events : event[d] # None /\ event[d].wf = w
  \/ \E m \in Events : message[m] # None /\ message[m].wf = w
  \/ w \in modal
  \/ \E a \in Invocations : drop[a].pc # "ready" /\ drop[a].wf = w
  \/ \E p \in Workers :
       Held(p) /\ worker[p].pc # "setSession" /\ Inst(p).id = w

Fresh(p) == worker[p].pc = "setSession"

FreshInv ==
  /\ \A w \in WorkflowIds : Names(w) => w \in created
  /\ \A p \in Workers :
       Fresh(p) => Inst(p).id \in created /\ ~ Names(Inst(p).id)
  /\ \A p, q \in Workers :
       Fresh(p) /\ Fresh(q) /\ Inst(p).id = Inst(q).id => p = q

LEMMA MessagesTell ==
  ASSUME TypeInv, NEW p \in Workers, Does(p), NEW m \in Events,
         message'[m] # None
  PROVE  \/ /\ message[m] # None
            /\ message'[m].wf = message[m].wf
            /\ message'[m].step = message[m].step
         \/ \E i \in Instance : /\ Shows(p, i) /\ m = Ev(p)
                                /\ message'[m].wf = i.id
                                /\ message'[m].step = i.step
<1>0. message \in [Events -> Message \union {None}]
  BY DEF TypeInv, TypeOK
<1>1. CASE Notifies(p)
  <2>1. Inst(p).messageTs # None => message[Inst(p).messageTs] \in Message
    BY <1>0, <1>1
    DEF Notifies, TypeInv, MessageInv, HoldsPosted, Posted, WithInstance, Inst,
        WorkerInv, LocalInv, Instance, MaybeEvent
  <2>2. CASE message[m] \in Message
    <3>1. \/ message'[m] = message[m]
          \/ message'[m] = [message[m] EXCEPT !.live = FALSE]
      BY <1>0, <1>1 DEF Notifies
    <3>2. /\ message'[m].wf = message[m].wf
          /\ message'[m].step = message[m].step
      BY <2>2, <3>1 DEF Message
    <3>3. QED
      BY <2>2, <3>2, NoneIsNoRecord
  <2>3. CASE message[m] = None
    BY <1>0, <1>1, <2>1, <2>3, NoneIsNoRecord DEF Notifies
  <2>4. QED
    BY <1>0, <2>2, <2>3
<1>2. CASE \E i \in Instance : Shows(p, i)
  <2>1. PICK i \in Instance : Shows(p, i)
    BY <1>2
  <2>2. message' = [message EXCEPT ![Ev(p)] =
                      [wf |-> i.id, step |-> i.step, draft |-> i.draft,
                       live |-> TRUE]]
    BY <2>1 DEF Shows
  <2>3. CASE m = Ev(p)
    BY <1>0, <2>1, <2>2, <2>3
  <2>4. CASE m # Ev(p)
    BY <1>0, <2>2, <2>4
  <2>5. QED
    BY <2>3, <2>4
<1>3. CASE message' = message
  BY <1>3
<1> QED
  BY <1>1, <1>2, <1>3
  DEF Does, Quits, Starts, Saves, Creates, Loads, Thinks, Stops, Files, Relates

LEMMA WorkerNames ==
  ASSUME TypeInv, NEW p \in Workers, Does(p), NEW w \in WorkflowIds, Names(w)'
  PROVE  Names(w) \/ (Starts(p) /\ w = Inst(p).id)
<1>1. ASSUME NEW k \in Keys, session'[k] = w
      PROVE  Names(w) \/ (Starts(p) /\ w = Inst(p).id)
  <2>1. CASE Starts(p)
    BY <1>1, <2>1 DEF Starts, SessionSet, Names, TypeInv, TypeOK
  <2>2. CASE ~ Starts(p)
    <3>1. session'[k] \in {session[k], None}
      BY <2>2
      DEF Does, Quits, Saves, Notifies, Creates, Loads, Thinks, Shows, Stops,
          Files, Relates
    <3>2. QED
      BY <1>1, <3>1, NoneAssumption DEF Names
  <2>3. QED
    BY <2>1, <2>2
<1>2. ASSUME NEW m \in Events, message'[m] # None, message'[m].wf = w
      PROVE  Names(w)
  <2>1. ASSUME NEW i \in Instance, Shows(p, i), i.id = w
        PROVE  Names(w)
    BY <2>1 DEF Shows, Like, Names, Held, WithInstance
  <2>2. QED
    BY <1>2, <2>1, MessagesTell DEF Names
<1>3. ASSUME NEW q \in Workers, Held(q)', worker'[q].pc # "setSession",
             Inst(q)'.id = w
      PROVE  Names(w) \/ (Starts(p) /\ w = Inst(p).id)
  <2>1. CASE q # p
    BY <1>3, <2>1 DEF Does, Others, Held, Inst, Names
  <2>2. CASE q = p /\ \E i \in Instance : Loads(p, i)
    BY <1>3, <2>2 DEF Loads, Has, Inst, Names, TypeInv, WorkerInv, LocalInv, Ev
  <2>3. CASE q = p /\ (Starts(p) \/ Saves(p) \/ Notifies(p))
    BY <1>3, <2>3
    DEF Starts, Saves, Notifies, Has, Inst, Held, WithInstance, Names
  <2>4. CASE /\ q = p
             /\ \E i \in Instance : \/ Thinks(p, i) \/ Shows(p, i) \/ Stops(p, i)
                                    \/ Files(p, i) \/ Relates(p, i)
    BY <1>3, <2>4
    DEF Thinks, Shows, Stops, Files, Relates, Like, Has, Inst, Held,
        WithInstance, Names
  <2>5. QED
    BY <1>3, <2>1, <2>2, <2>3, <2>4 DEF Does, Quits, Creates, Has
<1> QED
  BY <1>1, <1>2, <1>3 DEF Names, Does

LEMMA OthersName ==
  ASSUME TypeInv, NEW w \in WorkflowIds, Names(w)',
         Asks \/ (\E a \in Invocations : Drops(a)) \/ Expires
  PROVE  Names(w)
<1>1. CASE Asks
  <2>1. ASSUME NEW d \in Events, NEW e \in Event, NewEvent(d, e), Answers(e),
               e.wf = w
        PROVE  Names(w)
    BY <2>1, NoneAssumption DEF Answers, Names, Proposes
  <2>2. ASSUME NEW d \in Events, event'[d] # None, event'[d].wf = w
        PROVE  Names(w)
    BY <1>1, <2>1, <2>2 DEF Asks, NewEvent, Names, TypeInv, TypeOK
  <2>3. w \in modal' => Names(w)
    BY <1>1 DEF Asks, Names, Proposes
  <2>4. QED
    BY <1>1, <2>2, <2>3 DEF Asks, Names, Held, Inst
<1>2. ASSUME NEW a \in Invocations, Drops(a)
      PROVE  Names(w)
  <2>1. ASSUME NEW k \in Keys, session'[k] = w
        PROVE  Names(w)
    <3>1. session'[k] \in {session[k], None}
      BY <1>2
      DEF Drops, Begins, Finds, Fails, Cancels, Frees, TypeInv, TypeOK
    <3>2. QED
      BY <2>1, <3>1, NoneAssumption DEF Names
  <2>2. ASSUME NEW b \in Invocations, drop'[b].pc # "ready", drop'[b].wf = w
        PROVE  Names(w)
    BY <1>2, <2>2 DEF Drops, Begins, Names
  <2>3. QED
    BY <1>2, <2>1, <2>2 DEF Drops, Names, Held, Inst
<1>3. CASE Expires
  BY <1>3, NoneAssumption DEF Expires, Names, Held, Inst
<1> QED
  BY <1>1, <1>2, <1>3

LEMMA WorkerKeepsFreshInv ==
  ASSUME TypeInv, FreshInv, NEW p \in Workers, Does(p)
  PROVE  FreshInv'
<1>1. Starts(p) => Fresh(p) /\ ~ Fresh(p)'
  BY DEF Starts, Fresh, Has
<1>2. ASSUME NEW i \in Instance, Creates(p, i)
      PROVE  /\ ~ Starts(p) /\ Inst(p)' = i /\ i.id \in created'
             /\ i.id \notin created
  BY <1>2 DEF Creates, Starts, Has, Inst
<1>3. created \subseteq created'
  BY DEF Does, Quits, Starts, Saves, Notifies, Creates, Loads, Thinks, Shows,
         Stops, Files, Relates
<1>4. ASSUME NEW q \in Workers, Fresh(q)'
      PROVE  \/ q # p /\ Fresh(q) /\ Inst(q)' = Inst(q)
             \/ q = p /\ \E i \in Instance : Creates(p, i)
  BY <1>4
  DEF Fresh, Does, Others, Inst, Quits, Starts, Saves, Notifies, Creates, Loads,
      Thinks, Shows, Stops, Files, Relates, Has, Held, WithInstance
<1>5. ASSUME NEW q \in Workers, Fresh(q) PROVE Inst(q).id \in WorkflowIds
  BY <1>5, HeldCopies DEF Fresh, Held, WithInstance, Instance
<1>6. ASSUME NEW w \in WorkflowIds, Names(w)'
      PROVE  w \in created'
  BY <1>1, <1>3, <1>6, WorkerNames DEF FreshInv
<1>7. ASSUME NEW q \in Workers, Fresh(q)'
      PROVE  (Inst(q).id \in created /\ ~ Names(Inst(q).id))'
  <2>1. CASE q # p /\ Fresh(q) /\ Inst(q)' = Inst(q)
    <3>1. Inst(q).id \in WorkflowIds /\ Inst(q).id \in created
          /\ ~ Names(Inst(q).id)
      BY <1>5, <2>1 DEF FreshInv
    <3>2. Starts(p) => Inst(p).id # Inst(q).id
      BY <1>1, <2>1 DEF FreshInv
    <3>3. ASSUME NEW w \in WorkflowIds, w = Inst(q).id
          PROVE  ~ Names(w)'
      BY <3>1, <3>2, <3>3, WorkerNames
    <3>4. QED
      BY <1>3, <2>1, <3>1, <3>3
  <2>2. CASE q = p /\ \E i \in Instance : Creates(p, i)
    <3>1. PICK i \in Instance : Creates(p, i)
      BY <2>2
    <3>2. i.id \in WorkflowIds /\ Inst(q)' = i
      BY <1>2, <2>2, <3>1 DEF Instance
    <3>3. ~ Names(i.id)'
      BY <1>2, <3>1, <3>2, WorkerNames DEF FreshInv
    <3>4. QED
      BY <1>2, <3>1, <3>2, <3>3
  <2>3. QED
    BY <1>4, <1>7, <2>1, <2>2
<1>8. ASSUME NEW q \in Workers, NEW r \in Workers, Fresh(q)', Fresh(r)',
             Inst(q)'.id = Inst(r)'.id
      PROVE  q = r
  BY <1>2, <1>4, <1>8 DEF FreshInv
<1> QED
  BY <1>6, <1>7, <1>8 DEF FreshInv

LEMMA OthersKeepFreshInv ==
  ASSUME TypeInv, FreshInv,
         Asks \/ (\E a \in Invocations : Drops(a)) \/ Expires
  PROVE  FreshInv'
<1>1. UNCHANGED <<created, worker>>
  BY DEF Asks, Drops, Expires
<1>2. ASSUME NEW w \in WorkflowIds, Names(w)' PROVE Names(w)
  BY <1>2, OthersName
<1>3. ASSUME NEW q \in Workers, Fresh(q) PROVE Inst(q).id \in WorkflowIds
  BY <1>3, HeldCopies DEF Fresh, Held, WithInstance, Instance
<1>4. \A q \in Workers : Fresh(q)' = Fresh(q) /\ Inst(q)' = Inst(q)
  BY <1>1 DEF Fresh, Inst
<1> QED
  BY <1>1, <1>2, <1>3, <1>4 DEF FreshInv

LEMMA InitFreshInv == Init => FreshInv
<1> SUFFICES ASSUME Init PROVE FreshInv
  OBVIOUS
<1>1. \A w \in WorkflowIds : ~ Names(w)
  BY NoneAssumption DEF Init, Names, Held, WithInstance, Idle, NotInvoked
<1>2. \A p \in Workers : ~ Fresh(p)
  BY DEF Init, Fresh, Idle
<1> QED
  BY <1>1, <1>2 DEF FreshInv

LEMMA NextKeepsFreshInv == FilingInvs /\ FreshInv /\ [Next]_vars => FreshInv'
  BY NextDoes, WorkerKeepsFreshInv, OthersKeepFreshInv
  DEF FilingInvs, FilingInv

LEMMA FreshInvHolds == Spec => []FreshInv
  BY InitFreshInv, NextKeepsFreshInv, FilingInvHolds, PTL DEF Spec

LEMMA NextKeepsFreed ==
  ASSUME FilingInvs, FreshInv, DroppedIsFreed, [Next]_vars
  PROVE  DroppedIsFreed'
<1> DEFINE Freed(a) == drop[a].pc = "done"
<1>0. TypeInv
  BY DEF FilingInvs
<1>1. ASSUME NEW a \in Invocations, drop[a].pc # "ready"
      PROVE  drop[a].key \in Keys /\ drop[a].wf \in WorkflowIds
  BY <1>0, <1>1 DEF TypeInv, DropInv
<1>2. ASSUME NEW p \in Workers, Does(p), NEW a \in Invocations, Freed(a)'
      PROVE  session'[drop'[a].key] # drop'[a].wf
  <2>1. Freed(a) /\ drop' = drop /\ session[drop[a].key] # drop[a].wf
        /\ drop[a].pc # "ready"
    BY <1>2 DEF Does, DroppedIsFreed
  <2>2. CASE Starts(p)
    <3>1. Names(drop[a].wf) /\ ~ Names(Inst(p).id)
      BY <2>1, <2>2 DEF Names, Starts, FreshInv, Fresh
    <3>2. session' = [session EXCEPT ![Inst(p).key] = Inst(p).id]
      BY <2>2 DEF Starts, SessionSet
    <3>3. QED
      BY <1>0, <1>1, <2>1, <3>1, <3>2 DEF TypeInv, TypeOK
  <2>3. CASE ~ Starts(p)
    <3>1. \A k \in Keys : session'[k] \in {session[k], None}
      BY <1>2, <2>3
      DEF Does, Quits, Saves, Notifies, Creates, Loads, Thinks, Shows, Stops,
          Files, Relates
    <3>2. QED
      BY <1>1, <2>1, <3>1, NoneAssumption
  <2>4. QED
    BY <2>2, <2>3
<1>3. ASSUME NEW b \in Invocations, Drops(b), NEW a \in Invocations, Freed(a)'
      PROVE  session'[drop'[a].key] # drop'[a].wf
  <2>1. \A k \in Keys : session'[k] \in {session[k], None}
    BY <1>0, <1>3
    DEF Drops, Begins, Finds, Fails, Cancels, Frees, TypeInv, TypeOK
  <2>2. CASE a # b
    BY <1>1, <1>3, <2>1, <2>2, NoneAssumption DEF Drops, DroppedIsFreed
  <2>3. CASE a = b
    <3>1. Frees(a) /\ drop[a].pc # "ready" /\ drop'[a].key = drop[a].key
          /\ drop'[a].wf = drop[a].wf
      BY <1>3, <2>3 DEF Drops, Begins, Finds, Fails, Cancels
    <3>2. QED
      BY <1>0, <1>1, <3>1, NoneAssumption DEF Frees, TypeInv, TypeOK
  <2>4. QED
    BY <2>2, <2>3
<1>4. ASSUME Asks \/ Expires, NEW a \in Invocations, Freed(a)'
      PROVE  session'[drop'[a].key] # drop'[a].wf
  <2>1. /\ drop' = drop
        /\ \A k \in Keys : session'[k] \in {session[k], None}
    BY <1>4 DEF Asks, Expires
  <2>2. QED
    BY <1>1, <1>4, <2>1, NoneAssumption DEF DroppedIsFreed
<1>5. ASSUME NEW a \in Invocations, Freed(a)'
      PROVE  session'[drop'[a].key] # drop'[a].wf
  BY <1>2, <1>3, <1>4, <1>5, NextDoes DEF FilingInvs, FilingInv
<1>6. ASSUME NEW a \in Invocations, drop'[a].pc = "failed"
      PROVE  StateClasses # Subcommands
  <2>1. CASE drop[a].pc = "failed"
    BY <2>1 DEF DroppedIsFreed
  <2>2. CASE drop[a].pc # "failed"
    <3>1. \E i \in Instance : ~ Restorable(i)
      BY <1>6, <2>2, NextDoes
      DEF FilingInvs, FilingInv, Does, Asks, Expires, Drops, Begins, Finds,
          Fails, Cancels, Frees
    <3>2. QED
      BY <3>1 DEF Restorable, Instance
  <2>3. QED
    BY <2>1, <2>2
<1> QED
  BY <1>5, <1>6 DEF DroppedIsFreed

(***************************************************************************)
(* A drop that has returned has freed its user, whatever state classes its *)
(* process has registered: the session cleared last is not set to the      *)
(* dropped workflow again by a worker still in start() or anywhere else;   *)
(* and a drop that raises does so for want of a state class                *)
(* (slash.handle_drop_workflow, handle_drop, workflow_store.get).          *)
(***************************************************************************)
THEOREM DropsFreeTheUser == Spec => []DroppedIsFreed
<1>1. Init => DroppedIsFreed
  BY DEF Init, DroppedIsFreed, NotInvoked
<1>2. FilingInvs /\ FreshInv /\ DroppedIsFreed /\ [Next]_vars
        => DroppedIsFreed'
  BY NextKeepsFreed
<1> QED
  BY <1>1, <1>2, FilingInvHolds, FreshInvHolds, PTL DEF Spec

-----------------------------------------------------------------------------
(***************************************************************************)
(* What the program counter of a worker says of the copy in its hands: its *)
(* status, and the action that led to its step.                            *)
(***************************************************************************)
Under(p, type) ==
  /\ Inst(p).step = "generate_issue_draft"
       => type \in Decision \ {"reject_duplicate"}
  /\ Inst(p).step = "regenerate_issue_draft" => type = "reject"
  /\ Inst(p).step = "wait_confirmation" => type \in Drafting
  /\ Inst(p).step = "reject_end" => Inst(p).decision = "reject_duplicate"

StepInv(p) ==
  /\ worker[p].pc \in {"setSession", "saveResumed", "run", "relate"}
       => Inst(p).status = "RUNNING"
  /\ worker[p].pc = "saveWaiting" => Inst(p).status = "WAITING"
  /\ worker[p].pc \in {"notify", "saveEnd", "clearSession"}
       => Inst(p).status \in {"COMPLETED", "FAILED"}
  /\ worker[p].pc \in BeforeStep => Under(p, event[Ev(p)].type)

LEMMA ResumesUnder ==
  ASSUME NEW type \in ResumeActions
  PROVE  /\ RESUME_MAP[type] = "generate_issue_draft"
              => type \in Decision \ {"reject_duplicate"}
         /\ RESUME_MAP[type] = "regenerate_issue_draft" => type = "reject"
         /\ RESUME_MAP[type] # "wait_confirmation"
         /\ RESUME_MAP[type] = "reject_end" => type = "reject_duplicate"
  BY DEF RESUME_MAP, ResumeActions, Decision

LEMMA WorkerKeepsStepInv ==
  ASSUME TypeInv, NEW p \in Workers, StepInv(p), Does(p)
  PROVE  StepInv(p)'
<1>0. event' = event
  BY DEF Does
<1>1. CASE Quits(p)
  BY <1>1 DEF Quits, StepInv, Held, WithInstance, BeforeStep
<1>2. CASE Starts(p) \/ Saves(p) \/ Notifies(p)
  <2>1. ~ Held(p)' \/ (Inst(p)' = Inst(p) /\ Ev(p)' = Ev(p))
    BY <1>2 DEF Starts, Saves, Notifies, Has, Inst, Ev
  <2>2. QED
    BY <1>0, <1>2, <2>1
    DEF Starts, Saves, Notifies, Has, StepInv, Under, Held, WithInstance,
        BeforeStep
<1>3. ASSUME NEW i \in Instance, Creates(p, i)
      PROVE  StepInv(p)'
  <2>1. /\ worker'[p].pc = "setSession" /\ Inst(p)' = i
        /\ i.status = "RUNNING" /\ i.step = FIRST_STEP
    BY <1>3 DEF Creates, Has, Inst
  <2>2. QED
    BY <2>1 DEF StepInv, Under, FIRST_STEP
<1>4. ASSUME NEW i \in Instance, Loads(p, i)
      PROVE  StepInv(p)'
  <2> DEFINE type == event[Ev(p)].type
  <2>1. /\ worker'[p].pc = "saveResumed" /\ Inst(p)' = i
        /\ i.status = "RUNNING" /\ i.step = RESUME_MAP[type]
        /\ type \in ResumeActions
        /\ type \in Decision => i.decision = type
        /\ event'[Ev(p)'].type = type
    BY <1>0, <1>4 DEF Loads, Has, Inst, Ev
  <2> HIDE DEF type
  <2>2. QED
    BY <2>1, ResumesUnder DEF StepInv, Under, Decision
<1>5. ASSUME NEW i \in Instance, Thinks(p, i)
      PROVE  StepInv(p)'
  <2>1. /\ worker[p].pc = "run" /\ worker'[p].pc = "run" /\ Inst(p)' = i
        /\ i.status = Inst(p).status
        /\ Inst(p).step \in ContinueSteps
        /\ i.step = OnContinue[Inst(p).step]
        /\ event'[Ev(p)'] = event[Ev(p)]
    BY <1>0, <1>5 DEF Thinks, Has, Inst, Ev
  <2>2. QED
    BY <2>1
    DEF StepInv, Under, BeforeStep, OnContinue, ContinueSteps, Drafting
<1>6. ASSUME NEW i \in Instance,
             Shows(p, i) \/ Stops(p, i) \/ Files(p, i) \/ Relates(p, i)
      PROVE  StepInv(p)'
  <2>1. Inst(p)' = i
    BY <1>6 DEF Shows, Stops, Files, Relates, Has, Inst
  <2>2. QED
    BY <1>6, <2>1
    DEF Shows, Stops, Files, Relates, Has, StepInv, BeforeStep
<1> QED
  BY <1>1, <1>2, <1>3, <1>4, <1>5, <1>6 DEF Does

LEMMA OthersKeepStepInv ==
  ASSUME TypeInv, NEW q \in Workers, StepInv(q), worker'[q] = worker[q],
         EventsStay
  PROVE  StepInv(q)'
<1>1. worker[q].pc \in BeforeStep => event'[worker[q].ev] = event[worker[q].ev]
  BY DEF TypeInv, WorkerInv, LocalInv, BeforeStep, EventsStay
<1> QED
  BY <1>1 DEF StepInv, Under, Inst, Ev

StepInvs == \A p \in Workers : StepInv(p)

LEMMA InitStepInvs == Init => StepInvs
  BY DEF Init, Idle, StepInvs, StepInv, BeforeStep

LEMMA NextKeepsStepInvs == FilingInvs /\ StepInvs /\ [Next]_vars => StepInvs'
<1> SUFFICES ASSUME FilingInvs, StepInvs, [Next]_vars, NEW q \in Workers
             PROVE  StepInv(q)'
  BY DEF StepInvs
<1>0. TypeInv /\ \A p \in Workers : StepInv(p)
  BY DEF FilingInvs, StepInvs
<1>1. ASSUME NEW p \in Workers, Does(p)
      PROVE  StepInv(q)'
  BY <1>0, <1>1, WorkerKeepsStepInv, OthersKeepStepInv
  DEF Does, Others, EventsStay
<1>2. CASE Asks \/ (\E a \in Invocations : Drops(a)) \/ Expires
  <2>1. worker' = worker /\ EventsStay
    BY <1>0, <1>2
    DEF Asks, Drops, Expires, EventsStay, NewEvent, TypeInv, TypeOK
  <2>2. QED
    BY <1>0, <2>1, OthersKeepStepInv
<1> QED
  BY <1>1, <1>2, NextDoes DEF FilingInvs, FilingInv

LEMMA StepInvsHold == Spec => []StepInvs
  BY InitStepInvs, NextKeepsStepInvs, FilingInvHolds, PTL DEF Spec

-----------------------------------------------------------------------------
(***************************************************************************)
(* A copy that says COMPLETED is of a rejected duplicate, or names an      *)
(* issue that no worker will touch any more: the one that posted it has    *)
(* related it before it called itself completed.                           *)
(***************************************************************************)
Recorded(i) ==
  \/ i.step = "reject_end" /\ i.decision = "reject_duplicate"
  \/ /\ i.step = "create_github_issue"
     /\ i.url \in 1 .. Len(issues)
     /\ issues[i.url].wf = i.id
     /\ issues[i.url].draft = i.draft
     /\ issues[i.url].relation = RelationOf(i)

Untouched(n) ==
  \A c \in Copies :
    c.status = "COMPLETED" /\ c.step = "create_github_issue" => c.url # n

Relating(p) ==
  LET n == worker[p].issue
  IN  /\ Inst(p).step = "create_github_issue"
      /\ issues[n].ev = Ev(p)
      /\ issues[n].wf = Inst(p).id
      /\ issues[n].draft = Inst(p).draft
      /\ Untouched(n)

DoneInv ==
  /\ \A c \in Copies : c.status = "COMPLETED" => Recorded(c)
  /\ \A p \in Workers : worker[p].pc = "relate" => Relating(p)

LEMMA QuietKeepsDoneInv ==
  ASSUME DoneInv, UNCHANGED issues,
         \A c \in Copies' : \/ c \in Copies
                            \/ c.status # "COMPLETED"
                            \/ c.step = "reject_end" /\ Recorded(c),
         \A q \in Workers :
           worker'[q].pc = "relate" => worker'[q] = worker[q]
  PROVE  DoneInv'
<1>1. ASSUME NEW c \in Copies', c.status = "COMPLETED" PROVE Recorded(c)'
  BY <1>1 DEF DoneInv, Recorded
<1>2. ASSUME NEW n, Untouched(n) PROVE Untouched(n)'
  BY <1>2 DEF Untouched
<1> QED
  BY <1>1, <1>2 DEF DoneInv, Relating, Inst, Ev

LEMMA FilesKeepsDoneInv ==
  ASSUME TypeInv, DoneInv, NEW p \in Workers, StepInv(p), Does(p),
         NEW i \in Instance, Files(p, i)
  PROVE  DoneInv'
<1> DEFINE n == Len(issues) + 1
           new == [ev |-> Ev(p), wf |-> i.id, draft |-> i.draft,
                   relation |-> "none"]
<1>1. /\ issues \in Seq(Issue) /\ Len(issues) \in Nat
      /\ issues' = Append(issues, new)
  BY DEF Files, TypeInv, TypeOK
<1>2. /\ Len(issues') = n /\ issues'[n] = new
      /\ \A k \in 1 .. Len(issues) : issues'[k] = issues[k]
  BY <1>1
<1>3. /\ Inst(p)' = i /\ Ev(p)' = Ev(p)
      /\ i.step = "create_github_issue"
      /\ i.status = "COMPLETED"
           => RelationOf(i) = "none" /\ i.url = n /\ worker'[p].pc = "notify"
      /\ worker'[p].pc = "relate" => worker'[p].issue = n
      /\ i.status # "COMPLETED" => worker'[p].pc = "relate"
      /\ Inst(p).status # "COMPLETED"
  BY DEF Files, Has, Inst, Ev, StepInv
<1>4. ASSUME NEW c \in Copies' PROVE c \in Copies \/ c = i
  BY <1>3, <1>4, NewCopies
<1>5. ASSUME NEW c \in Copies, c.status = "COMPLETED" PROVE Recorded(c)'
  BY <1>1, <1>2, <1>5 DEF DoneInv, Recorded
<1>6. i.status = "COMPLETED" => Recorded(i)'
  BY <1>1, <1>2, <1>3 DEF Recorded
<1>7. ASSUME NEW c \in Copies, c.status = "COMPLETED",
             c.step = "create_github_issue"
      PROVE  c.url \in 1 .. Len(issues)
  BY <1>7 DEF DoneInv, Recorded
<1>8. ASSUME worker'[p].pc = "relate" PROVE Relating(p)'
  <2>1. Untouched(worker[p].issue)'
    BY <1>1, <1>3, <1>4, <1>7, <1>8 DEF Untouched
  <2>2. /\ issues'[worker'[p].issue].ev = Ev(p)'
        /\ issues'[worker'[p].issue].wf = i.id
        /\ issues'[worker'[p].issue].draft = i.draft
    BY <1>2, <1>3, <1>8
  <2>3. QED
    BY <1>3, <2>1, <2>2 DEF Relating
<1>9. ASSUME NEW q \in Workers, q # p, worker'[q].pc = "relate"
      PROVE  Relating(q)'
  <2>1. worker'[q] = worker[q] /\ worker[q].issue \in 1 .. Len(issues)
        /\ Relating(q)
    BY <1>9 DEF Does, Others, TypeInv, WorkerInv, LocalInv, DoneInv
  <2>2. Untouched(worker[q].issue)'
    BY <1>1, <1>3, <1>4, <2>1 DEF Relating, Untouched
  <2>3. QED
    BY <1>2, <2>1, <2>2 DEF Relating, Inst, Ev
<1> QED
  BY <1>4, <1>5, <1>6, <1>8, <1>9 DEF DoneInv

LEMMA RelatesKeepsDoneInv ==
  ASSUME TypeInv, OnceInv, DoneInv, NEW p \in Workers, Does(p),
         NEW i \in Instance, Relates(p, i)
  PROVE  DoneInv'
<1> DEFINE n == worker[p].issue
<1>1. /\ issues \in Seq(Issue) /\ n \in 1 .. Len(issues)
      /\ issues' = [issues EXCEPT ![n].relation = RelationOf(i)]
      /\ worker[p].pc = "relate" /\ worker'[p].pc = "notify"
      /\ Inst(p)' = i /\ Like(i, Inst(p)) /\ i.url = n
      /\ Relating(p)
  BY DEF Relates, Has, Inst, TypeInv, TypeOK, WorkerInv, LocalInv, DoneInv
<1>2. /\ Len(issues') = Len(issues)
      /\ \A k \in 1 .. Len(issues) : k # n => issues'[k] = issues[k]
      /\ issues'[n] = [issues[n] EXCEPT !.relation = RelationOf(i)]
      /\ issues[n] \in Issue
  BY <1>1
<1>3. /\ issues'[n].wf = issues[n].wf /\ issues'[n].draft = issues[n].draft
      /\ issues'[n].relation = RelationOf(i)
  BY <1>2 DEF Issue
<1>4. ASSUME NEW c \in Copies' PROVE c \in Copies \/ c = i
  BY <1>1, <1>4, NewCopies
<1>5. Recorded(i)'
  BY <1>1, <1>2, <1>3 DEF Recorded, Relating, Like
<1>6. ASSUME NEW c \in Copies, c.status = "COMPLETED" PROVE Recorded(c)'
  <2>1. CASE c.step = "create_github_issue"
    <3>1. Recorded(c) /\ c.url # n /\ c.url \in 1 .. Len(issues)
      BY <1>1, <1>6, <2>1 DEF DoneInv, Relating, Untouched, Recorded
    <3>2. QED
      BY <1>2, <2>1, <3>1 DEF Recorded
  <2>2. CASE c.step # "create_github_issue"
    BY <1>6, <2>2 DEF DoneInv, Recorded
  <2>3. QED
    BY <2>1, <2>2
<1>7. ASSUME NEW q \in Workers, worker'[q].pc = "relate"
      PROVE  Relating(q)'
  <2>1. /\ q # p /\ worker'[q] = worker[q] /\ Relating(q)
        /\ worker[q].issue \in 1 .. Len(issues) /\ worker[q].pc = "relate"
    BY <1>1, <1>7 DEF Does, Others, TypeInv, WorkerInv, LocalInv, DoneInv
  <2>2. Ev(q) # Ev(p)
    BY <1>1, <2>1 DEF OnceInv, InTry
  <2>3. worker[q].issue # n
    BY <1>1, <2>1, <2>2 DEF Relating
  <2>4. Untouched(worker[q].issue)'
    BY <1>1, <1>4, <2>1, <2>3 DEF Relating, Untouched
  <2>5. QED
    BY <1>2, <2>1, <2>3, <2>4 DEF Relating, Inst, Ev
<1> QED
  BY <1>4, <1>5, <1>6, <1>7 DEF DoneInv

LEMMA WorkerKeepsDoneInv ==
  ASSUME TypeInv, OnceInv, DoneInv, NEW p \in Workers, StepInv(p), Does(p)
  PROVE  DoneInv'
<1>1. CASE \E i \in Instance : Files(p, i) \/ Relates(p, i)
  BY <1>1, FilesKeepsDoneInv, RelatesKeepsDoneInv
<1>2. CASE ~ \E i \in Instance : Files(p, i) \/ Relates(p, i)
  <2>1. UNCHANGED issues
    BY <1>2
    DEF Does, Quits, Starts, Saves, Notifies, Creates, Loads, Thinks, Shows,
        Stops
  <2>2. ASSUME NEW q \in Workers, worker'[q].pc = "relate"
        PROVE  worker'[q] = worker[q]
    BY <1>2, <2>2
    DEF Does, Others, Quits, Starts, Saves, Notifies, Creates, Loads, Thinks,
        Shows, Stops, Has, Held, WithInstance
  <2>3. ASSUME NEW c \in Copies'
        PROVE  \/ c \in Copies
               \/ c.status # "COMPLETED"
               \/ c.step = "reject_end" /\ Recorded(c)
    <3>1. SUFFICES ASSUME c = Inst(p)', Held(p)', c \notin Copies
                   PROVE  \/ c.status # "COMPLETED"
                          \/ c.step = "reject_end" /\ Recorded(c)
      BY <2>3, NewCopies
    <3>2. ~ (Starts(p) \/ Saves(p) \/ Notifies(p))
      BY <3>1, HeldCopies
      DEF Starts, Saves, Notifies, Has, Inst, Held, WithInstance
    <3>3. PICK i \in Instance : \/ Creates(p, i) \/ Loads(p, i)
                                \/ Thinks(p, i) \/ Shows(p, i) \/ Stops(p, i)
      BY <1>2, <3>1, <3>2 DEF Does, Quits
    <3>4. c = i
      BY <3>1, <3>3
      DEF Creates, Loads, Thinks, Shows, Stops, Has, Inst
    <3>5. CASE Stops(p, i)
      BY <3>4, <3>5 DEF Stops, StepInv, BeforeStep, Under, Like, Recorded
    <3>6. CASE Thinks(p, i)
      BY <3>4, <3>6 DEF Thinks, StepInv
    <3>7. QED
      BY <3>3, <3>4, <3>5, <3>6 DEF Creates, Loads, Shows
  <2>4. QED
    BY <2>1, <2>2, <2>3, QuietKeepsDoneInv
<1> QED
  BY <1>1, <1>2

LEMMA InitDoneInv == Init => DoneInv
  BY NoneIsNoRecord
  DEF Init, DoneInv, Copies, Held, WithInstance, Idle, NotInvoked

LEMMA NextKeepsDoneInv ==
  FilingInvs /\ StepInvs /\ DoneInv /\ [Next]_vars => DoneInv'
<1> SUFFICES ASSUME FilingInvs, StepInvs, DoneInv, [Next]_vars
             PROVE  DoneInv'
  OBVIOUS
<1>0. TypeInv /\ OnceInv /\ \A p \in Workers : StepInv(p)
  BY DEF FilingInvs, StepInvs
<1>1. CASE Asks \/ (\E a \in Invocations : Drops(a)) \/ Expires
  <2>1. UNCHANGED <<issues, worker>>
    BY <1>1 DEF Asks, Drops, Expires
  <2>2. ASSUME NEW c \in Copies'
        PROVE  c \in Copies \/ c.status # "COMPLETED"
    BY <1>0, <1>1, OldCopies, DropCopies
  <2>3. QED
    BY <2>1, <2>2, QuietKeepsDoneInv
<1> QED
  BY <1>0, <1>1, NextDoes, WorkerKeepsDoneInv DEF FilingInvs, FilingInv

LEMMA DoneInvHolds == Spec => []DoneInv
  BY InitDoneInv, NextKeepsDoneInv, FilingInvHolds, StepInvsHold, PTL DEF Spec

LEMMA DoneInvCompletes == FilingInvs /\ DoneInv => CompletedAsRecorded
<1> SUFFICES ASSUME FilingInvs, DoneInv, NEW w \in WorkflowIds,
                    wfTable[w] # None, wfTable[w].status = "COMPLETED"
             PROVE  Recorded(wfTable[w]) /\ wfTable[w].id = w
  BY DEF CompletedAsRecorded, Recorded
<1> QED
  BY TableCopies DEF FilingInvs, FilingInv, TypeInv, IdInv, DoneInv

(***************************************************************************)
(* A workflow stored as COMPLETED is what its record says: the rejection   *)
(* of a duplicate, or an existing issue of this workflow with the stored   *)
(* draft and the relation the stored decision and finding call for         *)
(* (create_github_issue.execute relates before the STOP branch saves).     *)
(***************************************************************************)
THEOREM CompletedMeansFiled == Spec => []CompletedAsRecorded
  BY DoneInvCompletes, FilingInvHolds, DoneInvHolds, PTL

-----------------------------------------------------------------------------
(***************************************************************************)
(* The human behind every draft, message, event and issue.  Each needs one *)
(* made before it: a draft the event that asked for it, a message that     *)
(* proposes a draft a decision, a modal and an accept such a message, an   *)
(* issue all of them.  None of them is ever taken back.                    *)
(***************************************************************************)
Decided(w) ==
  \E d \in Events : /\ event[d] # None
                    /\ event[d].wf = w
                    /\ event[d].type \in Decision \ {"reject_duplicate"}

ProposedTo(w) == \E m \in Events : Proposes(m, w)

Drafted(d, w) ==
  d # None => /\ event[d] # None
              /\ event[d].wf = w
              /\ event[d].type \in Drafting

Consented(i) ==
  /\ event[i.ev] # None /\ event[i.ev].type = "accept" /\ event[i.ev].wf = i.wf
  /\ Decided(i.wf) /\ ProposedTo(i.wf)
  /\ i.draft # None /\ Drafted(i.draft, i.wf)

HumanInv ==
  /\ \A c \in Copies : Drafted(c.draft, c.id)
  /\ \A w \in WorkflowIds : ProposedTo(w) => Decided(w)
  /\ \A w \in modal : Decided(w)
  /\ \A d \in Events :
       event[d] # None =>
         /\ event[d].type = "reject" => Decided(event[d].wf)
         /\ event[d].type = "accept" => ProposedTo(event[d].wf)
  /\ \A n \in 1 .. Len(issues) : Consented(issues[n])

ProposalsStay ==
  \A m \in Events :
    message[m] # None => /\ message'[m] # None
                         /\ message'[m].wf = message[m].wf
                         /\ message'[m].step = message[m].step
                         /\ message'[m].draft = message[m].draft

LEMMA HumansStay ==
  ASSUME TypeInv, EventsStay, ProposalsStay
  PROVE  /\ \A w : Decided(w) => Decided(w)'
         /\ \A w : ProposedTo(w) => ProposedTo(w)'
         /\ \A d \in MaybeEvent, w \in WorkflowIds :
              Drafted(d, w) => Drafted(d, w)'
<1>1. ASSUME NEW w, Decided(w) PROVE Decided(w)'
  BY <1>1 DEF Decided, EventsStay
<1>2. ASSUME NEW w, ProposedTo(w) PROVE ProposedTo(w)'
  BY <1>2 DEF ProposedTo, Proposes, ProposalsStay
<1>3. ASSUME NEW d \in MaybeEvent, NEW w \in WorkflowIds, Drafted(d, w)
      PROVE  Drafted(d, w)'
  BY <1>3 DEF Drafted, EventsStay, MaybeEvent
<1> QED
  BY <1>1, <1>2, <1>3

LEMMA WorkerKeepsProposals ==
  ASSUME TypeInv, MsgInv, NEW p \in Workers, Does(p)
  PROVE  ProposalsStay
<1> SUFFICES ASSUME NEW m \in Events, message[m] # None
             PROVE  /\ message'[m] # None
                    /\ message'[m].wf = message[m].wf
                    /\ message'[m].step = message[m].step
                    /\ message'[m].draft = message[m].draft
  BY DEF ProposalsStay
<1>0. message \in [Events -> Message \union {None}] /\ message[m] \in Message
  BY DEF TypeInv, TypeOK
<1>1. CASE \E i \in Instance : Shows(p, i)
  <2>1. PICK i \in Instance : Shows(p, i)
    BY <1>1
  <2>2. m # Ev(p)
    BY <2>1 DEF Shows, MsgInv, InTry, AfterWait
  <2>3. message'[m] = message[m]
    BY <1>0, <2>1, <2>2 DEF Shows
  <2>4. QED
    BY <2>3
<1>2. CASE Notifies(p)
  <2>1. \/ message'[m] = message[m]
        \/ message'[m] = [message[m] EXCEPT !.live = FALSE]
    BY <1>0, <1>2 DEF Notifies
  <2>2. message'[m] \in Message
    BY <1>0, <2>1 DEF Message
  <2>3. QED
    BY <1>0, <2>1, <2>2, NoneIsNoRecord DEF Message
<1>3. CASE message' = message
  BY <1>3
<1> QED
  BY <1>1, <1>2, <1>3
  DEF Does, Quits, Starts, Saves, Creates, Loads, Thinks, Stops, Files, Relates

LEMMA WorkerKeepsHumanInv ==
  ASSUME TypeInv, FilingInv, HumanInv, NEW p \in Workers, StepInv(p), Does(p)
  PROVE  HumanInv'
<1>0. /\ UNCHANGED <<event, modal>> /\ EventsStay /\ ProposalsStay
  BY WorkerKeepsProposals DEF Does, EventsStay, FilingInv
<1>1. /\ \A w : Decided(w) => Decided(w)'
      /\ \A w : ProposedTo(w) => ProposedTo(w)'
      /\ \A d \in MaybeEvent, w \in WorkflowIds : Drafted(d, w) => Drafted(d, w)'
  BY <1>0, HumansStay
<1>2. Held(p) => /\ Inst(p) \in Instance /\ Inst(p) \in Copies
                 /\ Ev(p) \in Events /\ event[Ev(p)] # None
                 /\ ChainInv(p)
  BY HeldCopies DEF Held, WithInstance, TypeInv, WorkerInv, LocalInv, FilingInv,
     Ev
<1>3. ASSUME NEW c \in Copies'
      PROVE  Drafted(c.draft, c.id)
  <2>1. CASE c \in Copies
    BY <2>1 DEF HumanInv
  <2>2. ASSUME NEW i \in Instance, Thinks(p, i), c = i
        PROVE  Drafted(c.draft, c.id)
    <3>1. CASE Inst(p).step \in {"generate_issue_draft",
                                 "regenerate_issue_draft"}
      <4>1. event[Ev(p)].type \in Drafting
        BY <2>2, <3>1
        DEF Thinks, StepInv, BeforeStep, Under, Drafting
      <4>2. event[Ev(p)].wf = c.id /\ c.draft = Ev(p)
        BY <1>2, <2>2, <3>1, <4>1
        DEF Thinks, Held, WithInstance, ChainInv, Drafting, Decision
      <4>3. event[Ev(p)] # None
        BY <1>2, <2>2 DEF Thinks, Held, WithInstance
      <4>4. QED
        BY <4>1, <4>2, <4>3 DEF Drafted
    <3>2. CASE Inst(p).step \notin {"generate_issue_draft",
                                    "regenerate_issue_draft"}
      BY <1>2, <2>2, <3>2 DEF Thinks, Held, WithInstance, HumanInv
    <3>3. QED
      BY <3>1, <3>2
  <2>3. CASE Held(p)' /\ c = Inst(p)' /\ ~ \E i \in Instance : Thinks(p, i)
    <3>1. CASE Starts(p) \/ Saves(p) \/ Notifies(p)
      BY <1>2, <2>3, <3>1
      DEF Starts, Saves, Notifies, Has, Inst, Held, WithInstance, HumanInv
    <3>2. ASSUME NEW i \in Instance, Creates(p, i) \/ Loads(p, i)
          PROVE  Drafted(c.draft, c.id)
      BY <2>3, <3>2 DEF Creates, Loads, Has, Inst, HumanInv, Drafted
    <3>3. ASSUME NEW i \in Instance,
                 Shows(p, i) \/ Stops(p, i) \/ Files(p, i) \/ Relates(p, i)
          PROVE  Drafted(c.draft, c.id)
      BY <1>2, <2>3, <3>3
      DEF Shows, Stops, Files, Relates, Like, Has, Inst, Held, WithInstance,
          HumanInv
    <3>4. QED
      BY <2>3, <3>1, <3>2, <3>3 DEF Does, Quits
  <2>4. QED
    BY <2>1, <2>2, <2>3, NewCopies DEF Thinks, Has, Inst
<1>4. ASSUME NEW w \in WorkflowIds, ProposedTo(w)'
      PROVE  Decided(w)
  <2>1. ASSUME NEW i \in Instance, Shows(p, i), i.step = "wait_confirmation"
        PROVE  Decided(i.id)
    <3>1. event[Ev(p)].type \in Drafting /\ event[Ev(p)].wf = i.id
      BY <1>2, <2>1
      DEF Shows, Like, StepInv, BeforeStep, Under, Held, WithInstance, ChainInv,
          Drafting, Decision
    <3>2. event[Ev(p)] # None /\ Ev(p) \in Events
      BY <1>2, <2>1 DEF Shows, Held, WithInstance
    <3>3. QED
      BY <3>1, <3>2 DEF Drafting, Decided, HumanInv
  <2>2. PICK m \in Events : /\ message'[m] # None /\ message'[m].wf = w
                            /\ message'[m].step = "wait_confirmation"
    BY <1>4 DEF ProposedTo, Proposes
  <2>3. QED
    BY <2>1, <2>2, MessagesTell DEF ProposedTo, Proposes, HumanInv
<1>5. ASSUME NEW n \in 1 .. Len(issues'), ~ (n \in 1 .. Len(issues))
      PROVE  Consented(issues'[n])
  <2>1. issues \in Seq(Issue)
    BY DEF TypeInv, TypeOK
  <2>2. ASSUME NEW i \in Instance, Relates(p, i) PROVE FALSE
    <3>1. /\ worker[p].issue \in 1 .. Len(issues)
          /\ issues' = [issues EXCEPT ![worker[p].issue].relation =
                                        RelationOf(i)]
      BY <2>2 DEF Relates, TypeInv, WorkerInv, LocalInv
    <3>2. Len(issues') = Len(issues)
      BY <2>1, <3>1
    <3>3. QED
      BY <1>5, <3>2
  <2>3. PICK i \in Instance : Files(p, i)
    BY <1>5, <2>2
    DEF Does, Quits, Starts, Saves, Notifies, Creates, Loads, Thinks, Shows,
        Stops
  <2>4. issues'[n] = [ev |-> Ev(p), wf |-> i.id, draft |-> i.draft,
                      relation |-> "none"]
    BY <1>5, <2>3 DEF Files, TypeInv, TypeOK
  <2>5. /\ worker[p].pc = "run" /\ i.id = Inst(p).id /\ i.draft = Inst(p).draft
        /\ Inst(p).step = "create_github_issue" /\ i.draft # None
        /\ Held(p)
    BY <2>3 DEF Files, Like, Held, WithInstance
  <2>6. event[Ev(p)].type = "accept" /\ event[Ev(p)].wf = i.id
    BY <1>2, <2>5 DEF ChainInv, BeforeStep, WithInstance
  <2>7. ProposedTo(i.id) /\ i.id \in WorkflowIds
    BY <1>2, <2>5, <2>6 DEF HumanInv, Instance
  <2>8. Decided(i.id) /\ Drafted(i.draft, i.id)
    BY <1>2, <2>5, <2>7 DEF HumanInv
  <2>9. QED
    BY <1>2, <2>4, <2>5, <2>6, <2>7, <2>8 DEF Consented
<1>6. ASSUME NEW n \in 1 .. Len(issues)
      PROVE  /\ issues'[n].ev = issues[n].ev /\ issues'[n].wf = issues[n].wf
             /\ issues'[n].draft = issues[n].draft /\ issues[n] \in Issue
  <2>0. issues \in Seq(Issue) /\ issues[n] \in Issue
    BY DEF TypeInv, TypeOK
  <2>1. ASSUME NEW i \in Instance, Files(p, i)
        PROVE  issues'[n] = issues[n]
    BY <2>0, <2>1 DEF Files
  <2>2. ASSUME NEW i \in Instance, Relates(p, i)
        PROVE  \/ issues'[n] = issues[n]
               \/ issues'[n] = [issues[n] EXCEPT !.relation = RelationOf(i)]
    BY <2>0, <2>2 DEF Relates
  <2>3. CASE ~ \E i \in Instance : Files(p, i) \/ Relates(p, i)
    BY <2>0, <2>3
    DEF Does, Quits, Starts, Saves, Notifies, Creates, Loads, Thinks, Shows,
        Stops
  <2>4. QED
    BY <2>0, <2>1, <2>2, <2>3 DEF Issue
<1>7. ASSUME NEW n \in 1 .. Len(issues')
      PROVE  Consented(issues[n])'
  <2>1. Consented(issues'[n])
    BY <1>5, <1>6, <1>7 DEF HumanInv, Consented
  <2>2. QED
    BY <1>0, <1>1, <2>1 DEF Consented, Drafted
<1>8. ASSUME NEW c \in Copies' PROVE Drafted(c.draft, c.id)'
  BY <1>0, <1>3, <1>8 DEF Drafted
<1>9. ASSUME NEW d \in Events, event'[d] # None
      PROVE  /\ event'[d].type = "reject" => Decided(event[d].wf)'
             /\ event'[d].type = "accept" => ProposedTo(event[d].wf)'
  <2>1. /\ event[d].type = "reject" => Decided(event[d].wf)
        /\ event[d].type = "accept" => ProposedTo(event[d].wf)
    BY <1>0, <1>9 DEF HumanInv
  <2>2. event'[d].wf = event[d].wf /\ event'[d].type = event[d].type
    BY <1>0
  <2>3. QED
    BY <1>1, <2>1, <2>2
<1>10. ASSUME NEW w \in modal' PROVE Decided(w)'
  BY <1>0, <1>1, <1>10 DEF HumanInv
<1>11. ASSUME NEW w \in WorkflowIds, ProposedTo(w)' PROVE Decided(w)'
  BY <1>1, <1>4, <1>11
<1> QED
  BY <1>7, <1>8, <1>9, <1>10, <1>11 DEF HumanInv

LEMMA OthersKeepHumanInv ==
  ASSUME TypeInv, HumanInv,
         Asks \/ (\E a \in Invocations : Drops(a)) \/ Expires
  PROVE  HumanInv'
<1>0. UNCHANGED <<message, issues>>
  BY DEF Asks, Drops, Expires
<1>1. EventsStay /\ ProposalsStay
  BY <1>0
  DEF Asks, Drops, Expires, EventsStay, ProposalsStay, NewEvent, TypeInv, TypeOK
<1>2. /\ \A w : Decided(w) => Decided(w)'
      /\ \A w : ProposedTo(w) => ProposedTo(w)'
      /\ \A d \in MaybeEvent, w \in WorkflowIds : Drafted(d, w) => Drafted(d, w)'
  BY <1>1, HumansStay
<1>3. ASSUME NEW c \in Copies' PROVE Drafted(c.draft, c.id)'
  <2>1. c.draft \in MaybeEvent /\ c.id \in WorkflowIds
    BY DEF Copies, Instance
  <2>2. Drafted(c.draft, c.id)
    BY OldCopies, DropCopies DEF Like, HumanInv
  <2>3. QED
    BY <1>2, <2>1, <2>2
<1>4. ASSUME NEW w \in WorkflowIds, ProposedTo(w)' PROVE Decided(w)'
  BY <1>0, <1>2, <1>4 DEF ProposedTo, Proposes, HumanInv
<1>5. ASSUME NEW w \in modal' PROVE Decided(w)'
  <2>1. w \in modal \/ ProposedTo(w)
    BY <1>5 DEF Asks, Drops, Expires, ProposedTo
  <2>2. w \in WorkflowIds \/ w \in modal
    BY <1>5 DEF Asks, Drops, Expires
  <2>3. QED
    BY <1>2, <2>1, <2>2 DEF HumanInv
<1>6. ASSUME NEW d \in Events, event'[d] # None
      PROVE  /\ event'[d].type = "reject" => Decided(event[d].wf)'
             /\ event'[d].type = "accept" => ProposedTo(event[d].wf)'
  <2>1. CASE event'[d] = event[d]
    BY <1>2, <1>6, <2>1 DEF HumanInv
  <2>2. CASE event'[d] # event[d]
    <3>1. PICK e \in Event : Answers(e) /\ event'[d] = e
      BY <2>2 DEF Asks, Drops, Expires, NewEvent, TypeInv, TypeOK
    <3>2. e.type = "reject" => Decided(e.wf)
      BY <3>1 DEF Answers, HumanInv, Decision
    <3>3. e.type = "accept" => ProposedTo(e.wf)
      BY <3>1 DEF Answers, ProposedTo, Decision
    <3>4. QED
      BY <1>2, <3>1, <3>2, <3>3
  <2>3. QED
    BY <2>1, <2>2
<1>7. ASSUME NEW n \in 1 .. Len(issues') PROVE Consented(issues[n])'
  <2> DEFINE i == issues[n]
  <2>1. i' = i /\ i \in Issue /\ Consented(i)
    BY <1>0 DEF HumanInv, TypeInv, TypeOK
  <2>2. /\ i.ev \in Events /\ i.wf \in WorkflowIds /\ i.draft \in MaybeEvent
    BY <2>1 DEF Issue
  <2> HIDE DEF i
  <2>3. event'[i.ev] = event[i.ev]
    BY <1>1, <2>1, <2>2 DEF Consented, EventsStay
  <2>4. Consented(i)'
    BY <1>2, <2>1, <2>2, <2>3 DEF Consented
  <2>5. QED
    BY <2>4 DEF i
<1> QED
  BY <1>3, <1>4, <1>5, <1>6, <1>7 DEF HumanInv

LEMMA InitHumanInv == Init => HumanInv
  BY NoneIsNoRecord
  DEF Init, HumanInv, Copies, Held, WithInstance, Idle, NotInvoked, ProposedTo,
      Proposes

LEMMA NextKeepsHumanInv ==
  FilingInvs /\ StepInvs /\ HumanInv /\ [Next]_vars => HumanInv'
  BY NextDoes, WorkerKeepsHumanInv, OthersKeepHumanInv
  DEF FilingInvs, FilingInv, StepInvs

LEMMA HumanInvHolds == Spec => []HumanInv
  BY InitHumanInv, NextKeepsHumanInv, FilingInvHolds, StepInvsHold, PTL DEF Spec

LEMMA HumanInvDecides == HumanInv => HumanInTheLoop
  BY DEF HumanInv, HumanInTheLoop, Consented, Decided, ProposedTo, Proposes,
     Drafted

(***************************************************************************)
(* No issue without the human: an issue of a workflow exists only after    *)
(* the user pressed a decision of that workflow other than                 *)
(* reject_duplicate, was shown a draft of it, and accepted it; the draft   *)
(* filed is one generated for that workflow, by a decision or a reject     *)
(* (definition.GRAPH and RESUME_MAP, across overwritten copies).           *)
(***************************************************************************)
THEOREM HumansDecide == Spec => []HumanInTheLoop
  BY HumanInvDecides, HumanInvHolds, PTL

-----------------------------------------------------------------------------
(***************************************************************************)
(* A workflow that waits is shown.  The worker that posted a message owns  *)
(* it until it has saved the workflow that waits for it: nobody else has a *)
(* copy that names it.  After that, whoever is about to take its buttons   *)
(* off has saved the workflow as no longer waiting before.                 *)
(***************************************************************************)
ShownAs(i) ==
  /\ i.messageTs # None
  /\ message[i.messageTs] = [wf |-> i.id, step |-> i.step, draft |-> i.draft,
                             live |-> TRUE]

OtherCopies(p) ==
  {i \in Instance :
     \/ \E w \in WorkflowIds : i = wfTable[w]
     \/ \E q \in Workers \ {p} : Held(q) /\ i = Inst(q)
     \/ \E a \in Invocations : drop[a].pc = "save" /\ i = drop[a].inst}

Waiting(w) == wfTable[w] # None /\ wfTable[w].status = "WAITING"

Saved(p) == worker[p].pc \in {"setSession", "run", "relate", "notify",
                              "saveEnd", "clearSession"}

Showing(p) ==
  /\ Inst(p).messageTs = Ev(p) /\ ShownAs(Inst(p))
  /\ \A i \in OtherCopies(p) : i.messageTs # Ev(p)

WaitInv ==
  /\ \A w \in WorkflowIds : Waiting(w) => ShownAs(wfTable[w])
  /\ \A i \in Copies :
       i.messageTs # None => /\ message[i.messageTs] # None
                             /\ message[i.messageTs].wf = i.id
  /\ \A p \in Workers : worker[p].pc = "saveWaiting" => Showing(p)
  /\ \A p \in Workers, w \in WorkflowIds :
       Saved(p) /\ Waiting(w) => wfTable[w].messageTs # Inst(p).messageTs

(* a message changes only when its buttons are taken off *)
LEMMA MessagesKept ==
  ASSUME TypeInv, MsgInv, NEW p \in Workers, Does(p), NEW m \in Events,
         message[m] # None
  PROVE  message'[m] = message[m] \/ (Notifies(p) /\ m = Inst(p).messageTs)
<1>0. message \in [Events -> Message \union {None}]
  BY DEF TypeInv, TypeOK
<1>1. ASSUME NEW i \in Instance, Shows(p, i)
      PROVE  message'[m] = message[m]
  <2>1. m # Ev(p)
    BY <1>1 DEF Shows, MsgInv, InTry, AfterWait
  <2>2. QED
    BY <1>0, <1>1, <2>1 DEF Shows
<1>2. Notifies(p) => message'[m] = message[m] \/ m = Inst(p).messageTs
  BY <1>0 DEF Notifies
<1> QED
  BY <1>1, <1>2
  DEF Does, Quits, Starts, Saves, Creates, Loads, Thinks, Stops, Files, Relates

LEMMA WaitingTold ==
  ASSUME TypeInv, NEW p \in Workers, StepInv(p), Does(p), NEW w \in WorkflowIds,
         Waiting(w)'
  PROVE  \/ wfTable'[w] = wfTable[w] /\ Waiting(w)
         \/ /\ worker[p].pc = "saveWaiting" /\ Saves(p)
            /\ w = Inst(p).id /\ wfTable'[w] = Inst(p)
<1>0. wfTable \in [WorkflowIds -> Instance \union {None}]
  BY DEF TypeInv, TypeOK
<1>1. CASE wfTable'[w] = wfTable[w]
  BY <1>1 DEF Waiting
<1>2. CASE wfTable'[w] # wfTable[w]
  <2>1. CASE Saves(p)
    <3>1. w = Inst(p).id /\ wfTable'[w] = Inst(p)
      BY <1>0, <1>2, <2>1 DEF Saves, Save
    <3>2. QED
      BY <2>1, <3>1 DEF Saves, Waiting, StepInv
  <2>2. ASSUME NEW i \in Instance, Creates(p, i) \/ Thinks(p, i)
        PROVE  FALSE
    <3>1. wfTable'[w] = i
      BY <1>0, <1>2, <2>2 DEF Creates, Thinks, Save
    <3>2. i.status # "WAITING"
      BY <2>2 DEF Creates, Thinks, StepInv
    <3>3. QED
      BY <3>1, <3>2 DEF Waiting
  <2>3. QED
    BY <1>2, <2>1, <2>2
    DEF Does, Quits, Starts, Notifies, Loads, Shows, Stops, Files, Relates
<1> QED
  BY <1>1, <1>2

(* where the message of the copy in a worker's hands comes from *)
LEMMA MessageOf ==
  ASSUME TypeInv, NEW p \in Workers, Does(p), Held(p)'
  PROVE  \/ /\ Held(p) /\ Inst(p)'.messageTs = Inst(p).messageTs
            /\ Inst(p)'.id = Inst(p).id
         \/ \E i \in Instance : Loads(p, i) /\ Inst(p)' = i
         \/ \E i \in Instance : Creates(p, i) /\ Inst(p)' = i
         \/ \E i \in Instance : Shows(p, i) /\ Inst(p)' = i
<1>1. CASE Starts(p) \/ Saves(p) \/ Notifies(p)
  BY <1>1 DEF Starts, Saves, Notifies, Has, Inst, Held, WithInstance
<1>2. ASSUME NEW i \in Instance,
             Thinks(p, i) \/ Stops(p, i) \/ Files(p, i) \/ Relates(p, i)
      PROVE  /\ Held(p) /\ Inst(p)'.messageTs = Inst(p).messageTs
             /\ Inst(p)'.id = Inst(p).id
  BY <1>2
  DEF Thinks, Stops, Files, Relates, Like, Has, Inst, Held, WithInstance
<1>3. ASSUME NEW i \in Instance, Loads(p, i) \/ Creates(p, i) \/ Shows(p, i)
      PROVE  Inst(p)' = i
  BY <1>3 DEF Loads, Creates, Shows, Has, Inst
<1> QED
  BY <1>1, <1>2, <1>3 DEF Does, Quits

LEMMA OtherCopiesAre ==
  ASSUME TypeInv, NEW q \in Workers
  PROVE  /\ \A c \in OtherCopies(q) : c \in Copies
         /\ \A w \in WorkflowIds : wfTable[w] # None => wfTable[w] \in OtherCopies(q)
         /\ \A p \in Workers : p # q /\ Held(p) => Inst(p) \in OtherCopies(q)
<1>1. ASSUME NEW w \in WorkflowIds, wfTable[w] # None
      PROVE  wfTable[w] \in OtherCopies(q)
  BY <1>1 DEF TypeInv, TypeOK, OtherCopies
<1>2. ASSUME NEW p \in Workers, p # q, Held(p)
      PROVE  Inst(p) \in OtherCopies(q)
  BY <1>2, HeldCopies DEF OtherCopies
<1> QED
  BY <1>1, <1>2 DEF OtherCopies, Copies

LEMMA NewOtherCopies ==
  ASSUME TypeInv, NEW p \in Workers, Does(p), NEW q \in Workers, q # p,
         NEW c \in OtherCopies(q)'
  PROVE  c \in OtherCopies(q) \/ (Held(p)' /\ c = Inst(p)')
<1>1. c \in Instance
  BY DEF OtherCopies
<1>2. \/ wfTable' = wfTable
      \/ Held(p) /\ Save(Inst(p))
      \/ Held(p)' /\ Save(Inst(p)')
  BY DEF Does, Quits, Starts, Saves, Notifies, Creates, Loads, Thinks, Shows,
         Stops, Files, Relates, Has, Held, WithInstance, Inst
<1>3. ASSUME NEW w \in WorkflowIds, c = wfTable'[w]
      PROVE  c \in OtherCopies(q) \/ (Held(p)' /\ c = Inst(p)')
  BY <1>1, <1>2, <1>3 DEF Save, OtherCopies, TypeInv, TypeOK
<1>4. ASSUME NEW r \in Workers \ {q}, Held(r)', c = Inst(r)'
      PROVE  c \in OtherCopies(q) \/ (Held(p)' /\ c = Inst(p)')
  BY <1>1, <1>4 DEF Does, Others, OtherCopies, Held, Inst
<1>5. ASSUME NEW a \in Invocations, drop'[a].pc = "save", c = drop'[a].inst
      PROVE  c \in OtherCopies(q)
  BY <1>1, <1>5 DEF Does, OtherCopies
<1> QED
  BY <1>3, <1>4, <1>5 DEF OtherCopies

LEMMA WorkerKeepsCopiesPosted ==
  ASSUME TypeInv, FilingInv, WaitInv, NEW p \in Workers, Does(p),
         NEW c \in Copies', c.messageTs # None
  PROVE  message'[c.messageTs] # None /\ message'[c.messageTs].wf = c.id
<1>0. ProposalsStay
  BY WorkerKeepsProposals DEF FilingInv
<1>1. ASSUME NEW o \in Copies, o.id = c.id, o.messageTs = c.messageTs
      PROVE  message'[c.messageTs] # None /\ message'[c.messageTs].wf = c.id
  <2>1. o.messageTs \in Events
    BY <1>1 DEF Copies, Instance, MaybeEvent
  <2>2. QED
    BY <1>0, <1>1, <2>1 DEF WaitInv, ProposalsStay
<1>2. ASSUME NEW i \in Instance, Shows(p, i), c = i
      PROVE  message'[c.messageTs] # None /\ message'[c.messageTs].wf = c.id
  <2> DEFINE new == [wf |-> i.id, step |-> i.step, draft |-> i.draft,
                     live |-> TRUE]
  <2>1. c.messageTs = Ev(p) /\ Ev(p) \in Events /\ new \in Message
    BY <1>2
    DEF Shows, TypeInv, WorkerInv, LocalInv, Ev, Instance, Message, MaybeEvent
  <2>2. message'[Ev(p)] = new
    BY <1>2, <2>1 DEF Shows, TypeInv, TypeOK
  <2>3. new # None /\ new.wf = i.id
    BY <2>1, NoneIsNoRecord
  <2> HIDE DEF new
  <2>4. QED
    BY <1>2, <2>1, <2>2, <2>3
<1>3. CASE c \in Copies
  BY <1>1, <1>3
<1>4. CASE Held(p)' /\ c = Inst(p)'
  <2>1. CASE /\ Held(p) /\ Inst(p)'.messageTs = Inst(p).messageTs
             /\ Inst(p)'.id = Inst(p).id
    BY <1>1, <1>4, <2>1, HeldCopies
  <2>2. ASSUME NEW i \in Instance, Loads(p, i), c = i
        PROVE  message'[c.messageTs] # None /\ message'[c.messageTs].wf = c.id
    BY <1>1, <2>2 DEF Loads
  <2>3. ASSUME NEW i \in Instance, Creates(p, i), c = i
        PROVE  FALSE
    BY <2>3 DEF Creates
  <2>4. QED
    BY <1>2, <1>4, <2>1, <2>2, <2>3, MessageOf
<1> QED
  BY <1>3, <1>4, NewCopies

LEMMA WorkerKeepsShown ==
  ASSUME TypeInv, FilingInv, WaitInv, NEW p \in Workers, StepInv(p), Does(p),
         NEW w \in WorkflowIds, Waiting(w)'
  PROVE  ShownAs(wfTable[w])'
<1>0. FilingInv => MsgInv
  BY DEF FilingInv
<1>1. CASE wfTable'[w] = wfTable[w] /\ Waiting(w)
  <2> DEFINE m == wfTable[w].messageTs
  <2>1. ShownAs(wfTable[w]) /\ wfTable[w] \in Copies /\ wfTable[w] \in Instance
    BY <1>1, TableCopies DEF TypeInv, WaitInv, Waiting
  <2>2. m \in Events /\ message[m] # None
    BY <2>1 DEF ShownAs, Instance, MaybeEvent, WaitInv
  <2>3. Notifies(p) => m # Inst(p).messageTs
    BY <1>1 DEF Notifies, Saved, WaitInv
  <2>4. message'[m] = message[m]
    BY <1>0, <2>2, <2>3, MessagesKept
  <2>5. QED
    BY <1>1, <2>1, <2>4 DEF ShownAs
<1>2. CASE worker[p].pc = "saveWaiting" /\ Saves(p) /\ wfTable'[w] = Inst(p)
  <2>1. ShownAs(Inst(p)) /\ message' = message
    BY <1>2 DEF Saves, WaitInv, Showing
  <2>2. QED
    BY <1>2, <2>1 DEF ShownAs
<1> QED
  BY <1>1, <1>2, WaitingTold

LEMMA WorkerKeepsShowing ==
  ASSUME TypeInv, OnceInv, FilingInv, WaitInv, NEW p \in Workers, Does(p),
         NEW q \in Workers, worker'[q].pc = "saveWaiting"
  PROVE  Showing(q)'
<1>0. MsgInv
  BY DEF FilingInv
<1>1. CASE q = p
  <2>1. PICK i \in Instance : Shows(p, i)
    BY <1>1
    DEF Does, Quits, Starts, Saves, Notifies, Creates, Loads, Thinks, Stops,
        Files, Relates, Has, Held, WithInstance
  <2> DEFINE new == [wf |-> i.id, step |-> i.step, draft |-> i.draft,
                     live |-> TRUE]
  <2>2. /\ Inst(p)' = i /\ Ev(p)' = Ev(p) /\ i.messageTs = Ev(p)
        /\ Ev(p) \in Events
        /\ message' = [message EXCEPT ![Ev(p)] = new]
        /\ wfTable' = wfTable /\ drop' = drop
    BY <2>1
    DEF Shows, Has, Inst, Ev, TypeInv, WorkerInv, LocalInv, Does
  <2>3. message[Ev(p)] = None /\ Ev(p) # None
    BY <1>0, <2>1, <2>2, NoneAssumption DEF Shows, MsgInv, InTry, AfterWait
  <2>4. ShownAs(Inst(p))'
    <3>1. message'[Ev(p)] = new
      BY <2>2 DEF TypeInv, TypeOK
    <3>2. QED
      BY <2>2, <2>3, <3>1 DEF ShownAs
  <2>5. ASSUME NEW c \in OtherCopies(p)'
        PROVE  c.messageTs # Ev(p)
    <3>1. c \in OtherCopies(p)
      BY <2>2, <2>5 DEF OtherCopies, Does, Others, Held, Inst
    <3>2. c \in Copies
      BY <3>1, OtherCopiesAre
    <3>3. QED
      BY <2>3, <3>2 DEF WaitInv
  <2>6. QED
    BY <1>1, <2>2, <2>4, <2>5 DEF Showing
<1>2. CASE q # p
  <2>1. /\ worker'[q] = worker[q] /\ Inst(q)' = Inst(q) /\ Ev(q)' = Ev(q)
        /\ Showing(q) /\ worker[q].pc = "saveWaiting" /\ Ev(q) \in Events
    BY <1>2
    DEF Does, Others, WaitInv, Inst, Ev, TypeInv, WorkerInv, LocalInv
  <2>2. Held(p) => Inst(p).messageTs # Ev(q)
    BY <1>2, <2>1, OtherCopiesAre DEF Showing
  <2>3. message'[Ev(q)] = message[Ev(q)]
    <3>1. message[Ev(q)] # None
      BY <2>1, HeldCopies DEF Held, WithInstance, Showing, ShownAs, WaitInv
    <3>2. Notifies(p) => Held(p)
      BY DEF Notifies, Held, WithInstance
    <3>3. QED
      BY <1>0, <2>1, <2>2, <3>1, <3>2, MessagesKept
  <2>4. ShownAs(Inst(q))'
    BY <2>1, <2>3 DEF Showing, ShownAs
  <2>5. ASSUME NEW c \in OtherCopies(q)' PROVE c.messageTs # Ev(q)
    <3>1. CASE c \in OtherCopies(q)
      BY <2>1, <3>1 DEF Showing
    <3>2. CASE Held(p)' /\ c = Inst(p)'
      <4>1. ASSUME NEW i \in Instance, Loads(p, i), c = i
            PROVE  c.messageTs # Ev(q)
        <5>1. PICK w \in WorkflowIds :
                wfTable[w] # None /\ i.messageTs = wfTable[w].messageTs
          BY <4>1, NoneIsNoRecord DEF Loads, Copies, Instance
        <5>2. QED
          BY <2>1, <4>1, <5>1, OtherCopiesAre DEF Showing
      <4>2. ASSUME NEW i \in Instance, Creates(p, i), c = i
            PROVE  c.messageTs # Ev(q)
        BY <2>1, <4>2, NoneAssumption DEF Creates
      <4>3. ASSUME NEW i \in Instance, Shows(p, i), c = i
            PROVE  c.messageTs # Ev(q)
        BY <1>2, <2>1, <4>3 DEF Shows, OnceInv, InTry
      <4>4. QED
        BY <2>2, <3>2, <4>1, <4>2, <4>3, MessageOf
    <3>3. QED
      BY <1>2, <2>5, <3>1, <3>2, NewOtherCopies
  <2>6. QED
    BY <2>1, <2>4, <2>5 DEF Showing
<1> QED
  BY <1>1, <1>2

LEMMA WorkerKeepsSaved ==
  ASSUME TypeInv, FilingInv, WaitInv, NEW p \in Workers, StepInv(p), Does(p),
         NEW q \in Workers, NEW w \in WorkflowIds, Saved(q)', Waiting(w)'
  PROVE  wfTable'[w].messageTs # Inst(q)'.messageTs
<1>1. CASE q # p
  <2>1. Saved(q) /\ Inst(q)' = Inst(q) /\ Held(q)
    BY <1>1 DEF Does, Others, Saved, Inst, Held, WithInstance
  <2>2. CASE wfTable'[w] = wfTable[w] /\ Waiting(w)
    BY <2>1, <2>2 DEF WaitInv
  <2>3. CASE worker[p].pc = "saveWaiting" /\ wfTable'[w] = Inst(p)
    <3>1. Showing(p) /\ Inst(q) \in OtherCopies(p)
      BY <1>1, <2>1, <2>3, OtherCopiesAre DEF WaitInv
    <3>2. QED
      BY <2>1, <2>3, <3>1 DEF Showing
  <2>4. QED
    BY <2>2, <2>3, WaitingTold
<1>2. CASE q = p
  <2>1. ShownAs(wfTable[w])'
    BY WorkerKeepsShown
  <2>2. wfTable'[w] = wfTable[w] /\ Waiting(w)
    BY <1>2, WaitingTold DEF Saves, Saved, Held, WithInstance
  <2>3. CASE Saved(p) /\ Inst(p)'.messageTs = Inst(p).messageTs
    BY <1>2, <2>2, <2>3 DEF WaitInv
  <2>4. ASSUME NEW i \in Instance, Creates(p, i)
        PROVE  Inst(p)'.messageTs = None
    BY <2>4 DEF Creates, Has, Inst
  <2>5. CASE worker[p].pc = "saveResumed" /\ Saves(p)
    <3>1. Inst(p) \in Copies /\ Inst(p) \in Instance /\ Inst(p)' = Inst(p)
          /\ Save(Inst(p)) /\ Inst(p).status = "RUNNING"
      BY <2>5, HeldCopies DEF Held, WithInstance, Saves, Has, Inst, StepInv
    <3>2. w # Inst(p).id
      <4>1. wfTable'[Inst(p).id] = Inst(p)
        BY <3>1 DEF Save, TypeInv, TypeOK, Instance
      <4>2. QED
        BY <3>1, <4>1 DEF Waiting
    <3>3. ShownAs(wfTable[w]) /\ wfTable[w].id = w
      BY <2>2 DEF WaitInv, Waiting, FilingInv, IdInv
    <3>4. message[wfTable[w].messageTs].wf = w /\ wfTable[w].messageTs # None
      BY <3>3 DEF ShownAs
    <3>5. QED
      BY <1>2, <2>2, <3>1, <3>2, <3>4 DEF WaitInv
  <2>6. \/ Saved(p) /\ Inst(p)'.messageTs = Inst(p).messageTs
        \/ \E i \in Instance : Creates(p, i)
        \/ worker[p].pc = "saveResumed" /\ Saves(p)
    BY <1>2
    DEF Does, Quits, Starts, Saves, Notifies, Creates, Loads, Thinks, Shows,
        Stops, Files, Relates, Has, Inst, Saved, Held, WithInstance
  <2>7. QED
    BY <1>2, <2>1, <2>3, <2>4, <2>5, <2>6 DEF ShownAs
<1> QED
  BY <1>1, <1>2

LEMMA WorkerKeepsWaitInv ==
  ASSUME TypeInv, OnceInv, FilingInv, WaitInv, NEW p \in Workers, StepInv(p),
         Does(p)
  PROVE  WaitInv'
<1>1. ASSUME NEW c \in Copies', c.messageTs # None
      PROVE  message'[c.messageTs] # None /\ message'[c.messageTs].wf = c.id
  BY <1>1, WorkerKeepsCopiesPosted
<1> QED
  BY <1>1, WorkerKeepsShown, WorkerKeepsShowing, WorkerKeepsSaved DEF WaitInv

(* a drop, an expiry or a user: no record starts to wait, no new message *)
LEMMA OthersKeepWaitInv ==
  ASSUME TypeInv, WaitInv,
         Asks \/ (\E a \in Invocations : Drops(a)) \/ Expires
  PROVE  WaitInv'
<1>0. /\ UNCHANGED <<message, worker>>
      /\ wfTable \in [WorkflowIds -> Instance \union {None}]
  BY DEF Asks, Drops, Expires, TypeInv, TypeOK
<1>1. ASSUME NEW w \in WorkflowIds, Waiting(w)'
      PROVE  Waiting(w) /\ wfTable'[w] = wfTable[w]
  <2>1. CASE wfTable'[w] = wfTable[w]
    BY <1>1, <2>1 DEF Waiting
  <2>2. CASE wfTable'[w] # wfTable[w]
    <3>1. PICK a \in Invocations, i \in Instance : Cancels(a, i)
      BY <1>1, <2>2
      DEF Asks, Drops, Begins, Finds, Fails, Frees, Expires, Waiting
    <3>2. wfTable'[w] = i
      BY <1>0, <2>2, <3>1 DEF Cancels, Save
    <3>3. QED
      BY <1>1, <3>1, <3>2 DEF Cancels, Waiting
  <2>3. QED
    BY <2>1, <2>2
<1>2. ASSUME NEW c \in Copies', c.messageTs # None
      PROVE  message'[c.messageTs] # None /\ message'[c.messageTs].wf = c.id
  BY <1>0, <1>2, OldCopies, DropCopies DEF Like, WaitInv
<1>3. ASSUME NEW q \in Workers, NEW c \in OtherCopies(q)'
      PROVE  \E o \in OtherCopies(q) : o.messageTs = c.messageTs
  <2>0. c \in Instance
    BY DEF OtherCopies
  <2>1. ASSUME NEW a \in Invocations, Drops(a)
        PROVE  \E o \in OtherCopies(q) : o.messageTs = c.messageTs
    <3>1. CASE \E i \in Instance : Cancels(a, i)
      <4>1. PICK i \in Instance : Cancels(a, i)
        BY <3>1
      <4>2. drop[a].inst \in OtherCopies(q)
        BY <4>1 DEF Cancels, OtherCopies, TypeInv, DropInv
      <4>3. c \in OtherCopies(q) \/ c = i
        BY <1>0, <2>0, <2>1, <4>1
        DEF Cancels, Drops, OtherCopies, Held, Inst, Save
      <4>4. QED
        BY <4>1, <4>2, <4>3 DEF Cancels
    <3>2. CASE ~ \E i \in Instance : Cancels(a, i)
      <4>1. wfTable' = wfTable
        BY <2>1, <3>2 DEF Drops, Begins, Finds, Fails, Frees
      <4>2. ASSUME NEW b \in Invocations, drop'[b].pc = "save",
                   c = drop'[b].inst
            PROVE  c \in OtherCopies(q)
        <5>1. CASE b # a
          BY <2>0, <2>1, <4>2, <5>1 DEF Drops, OtherCopies
        <5>2. CASE b = a
          <6>1. Finds(a)
            BY <2>1, <3>2, <4>2, <5>2 DEF Drops, Begins, Finds, Fails, Frees
          <6>2. PICK w \in WorkflowIds : c = wfTable[w]
            BY <4>2, <5>2, <6>1 DEF Finds, TypeInv, DropInv
          <6>3. QED
            BY <2>0, <6>2 DEF OtherCopies
        <5>3. QED
          BY <5>1, <5>2
      <4>3. c \in OtherCopies(q)
        BY <1>0, <2>0, <4>1, <4>2 DEF OtherCopies, Held, Inst
      <4>4. QED
        BY <4>3
    <3>3. QED
      BY <3>1, <3>2
  <2>2. CASE Asks \/ Expires
    <3>1. c \in OtherCopies(q)
      BY <1>0, <2>0, <2>2, NoneIsNoRecord
      DEF Asks, Expires, OtherCopies, Held, Inst
    <3>2. QED
      BY <3>1
  <2>3. QED
    BY <2>1, <2>2
<1>4. ASSUME NEW q \in Workers, worker'[q].pc = "saveWaiting"
      PROVE  Showing(q)'
  <2>1. Showing(q) /\ Inst(q)' = Inst(q) /\ Ev(q)' = Ev(q)
    BY <1>0, <1>4 DEF WaitInv, Inst, Ev
  <2>2. ShownAs(Inst(q))'
    BY <1>0, <2>1 DEF Showing, ShownAs
  <2>3. QED
    BY <1>3, <2>1, <2>2 DEF Showing
<1>5. ASSUME NEW w \in WorkflowIds, Waiting(w)' PROVE ShownAs(wfTable[w])'
  BY <1>0, <1>1, <1>5 DEF WaitInv, ShownAs
<1>6. ASSUME NEW q \in Workers, NEW w \in WorkflowIds, Saved(q)', Waiting(w)'
      PROVE  wfTable'[w].messageTs # Inst(q)'.messageTs
  BY <1>0, <1>1, <1>6 DEF WaitInv, Saved, Inst
<1> QED
  BY <1>2, <1>4, <1>5, <1>6 DEF WaitInv

LEMMA InitWaitInv == Init => WaitInv
  BY NoneIsNoRecord
  DEF Init, WaitInv, Waiting, Copies, Saved, Held, WithInstance, Idle,
      NotInvoked

LEMMA NextKeepsWaitInv ==
  FilingInvs /\ StepInvs /\ WaitInv /\ [Next]_vars => WaitInv'
  BY NextDoes, WorkerKeepsWaitInv, OthersKeepWaitInv
  DEF FilingInvs, FilingInv, StepInvs

LEMMA WaitInvHolds == Spec => []WaitInv
  BY InitWaitInv, NextKeepsWaitInv, FilingInvHolds, StepInvsHold, PTL DEF Spec

LEMMA WaitInvAnswers == FilingInvs /\ WaitInv => WaitingIsAnswerable
  BY DEF FilingInvs, FilingInv, IdInv, WaitInv, Waiting, ShownAs,
     WaitingIsAnswerable

(***************************************************************************)
(* No dead end: a workflow stored as WAITING has a message on Slack whose  *)
(* buttons still work, that asks for the step the workflow waits at and    *)
(* shows the draft stored with it (_execute_until_wait posts before it     *)
(* saves, chat_update removes buttons; /drop and other workers write the   *)
(* same record).                                                           *)
(***************************************************************************)
THEOREM WaitingHasButtons == Spec => []WaitingIsAnswerable
  BY WaitInvAnswers, FilingInvHolds, WaitInvHolds, PTL

-----------------------------------------------------------------------------
(***************************************************************************)
(* A session that names an ended workflow has somebody about to clear it,  *)
(* or a reason why nobody will: whoever saves a workflow as ended clears   *)
(* the session next, and only death, an exception or a drop by another     *)
(* user comes between.                                                     *)
(***************************************************************************)
Lost(d) ==
  /\ event[d] # None /\ pending[d] = "PROCESSING"
  /\ \A p \in Workers : ~ Holds(p, d)

(* an event of workflow w or, of a start, of the user w belongs to *)
OfSame(d, w) ==
  \/ event[d].wf = w
  \/ /\ event[d].type = "pipeline_start"
     /\ \A c \in Copies : c.id = w => event[d].key = c.key

Excused(k, w) ==
  \/ \E d \in Events : Lost(d) /\ OfSame(d, w)
  \/ \E a \in Invocations : drop[a].pc = "dead" /\ drop[a].wf = w
  \/ \E a \in Invocations :
       drop[a].pc # "ready" /\ drop[a].wf = w /\ drop[a].key # k

Releasing(w) ==
  \/ \E p \in Workers : worker[p].pc = "clearSession" /\ Inst(p).id = w
  \/ \E a \in Invocations : drop[a].pc = "clear" /\ drop[a].wf = w

HasEnded(w) == wfTable[w] # None /\ wfTable[w].status \in Ended

StartedBy(p) ==
  Held(p) /\ event[Ev(p)].type = "pipeline_start"
    => Inst(p).key = event[Ev(p)].key

NewRuns(p) ==
  Fresh(p) /\ wfTable[Inst(p).id] # None
    => wfTable[Inst(p).id].status = "RUNNING"

ReleaseInv ==
  /\ \A p \in Workers : worker[p].pc = "idle" => Ev(p) = None
  /\ \A p \in Workers : StartedBy(p) /\ NewRuns(p)
  /\ \A a \in Invocations : drop[a].pc = "save" => drop[a].inst.id = drop[a].wf
  /\ \A k \in Keys, w \in WorkflowIds :
       session[k] = w /\ HasEnded(w) => Excused(k, w) \/ Releasing(w)

(* the other invariants this one rests on *)
RecordInvs ==
  FilingInvs /\ OwnInv /\ FreshInv /\ StepInvs

LEMMA LostStays ==
  ASSUME TypeInv, OnceInv, NEW p \in Workers, Does(p), Moves(p),
         NEW d \in Events, Lost(d)
  PROVE  Lost(d)'
<1>0. /\ pending \in [Events -> {"absent", "PROCESSING", "DONE"}]
      /\ event' = event
      /\ ~ Holds(p, d)
  BY DEF TypeInv, TypeOK, Does, Lost
<1>1. pending'[d] = pending[d]
  BY <1>0
  DEF Moves, Leaves, Enters, Runs, Posts, PendingDone, TryAcquire, Lost, Holds
<1>2. ~ Holds(p, d)'
  BY <1>0 DEF Moves, Leaves, Enters, Runs, Posts, TryAcquire, Lost, Holds
<1>3. ASSUME NEW q \in Workers, q # p PROVE ~ Holds(q, d)'
  BY <1>3 DEF Does, Others, Lost, Holds, InTry, Ev
<1> QED
  BY <1>0, <1>1, <1>2, <1>3 DEF Lost

LEMMA TableTold ==
  ASSUME TypeInv, NEW p \in Workers, Does(p), NEW w \in WorkflowIds
  PROVE  \/ wfTable'[w] = wfTable[w]
         \/ Saves(p) /\ w = Inst(p).id /\ wfTable'[w] = Inst(p)
         \/ \E i \in Instance : /\ Creates(p, i) \/ Thinks(p, i)
                                /\ w = i.id /\ wfTable'[w] = i
<1>0. wfTable \in [WorkflowIds -> Instance \union {None}]
  BY DEF TypeInv, TypeOK
<1>1. CASE Saves(p)
  BY <1>0, <1>1 DEF Saves, Save
<1>2. ASSUME NEW i \in Instance, Creates(p, i) \/ Thinks(p, i)
      PROVE  wfTable'[w] = wfTable[w] \/ (w = i.id /\ wfTable'[w] = i)
  BY <1>0, <1>2 DEF Creates, Thinks, Save
<1>3. CASE wfTable' = wfTable
  BY <1>3
<1> QED
  BY <1>1, <1>2, <1>3
  DEF Does, Quits, Starts, Notifies, Loads, Shows, Stops, Files, Relates

LEMMA SameStays ==
  ASSUME TypeInv, EventsStay, NEW d \in Events, event[d] # None,
         NEW w \in WorkflowIds, OfSame(d, w),
         \A c \in Copies' :
           c.id = w => \E o \in Copies : o.id = c.id /\ o.key = c.key
  PROVE  OfSame(d, w)'
  BY DEF OfSame, EventsStay

LEMMA WorkerKeepsStarts ==
  ASSUME TypeInv, RecordInvs, ReleaseInv, NEW p \in Workers, Does(p),
         NEW q \in Workers
  PROVE  /\ (worker[q].pc = "idle" => Ev(q) = None)'
         /\ StartedBy(q)' /\ NewRuns(q)'
<1>0. event' = event
  BY DEF Does
<1>1. CASE q # p
  <2>1. /\ worker'[q] = worker[q] /\ Inst(q)' = Inst(q) /\ Ev(q)' = Ev(q)
        /\ Held(q)' = Held(q) /\ Fresh(q)' = Fresh(q)
    BY <1>1 DEF Does, Others, Inst, Ev, Held, Fresh
  <2>2. ASSUME Fresh(q) PROVE wfTable'[Inst(q).id] = wfTable[Inst(q).id]
    <3>1. /\ Inst(q).id \in WorkflowIds /\ Inst(q).id \in created
          /\ ~ Names(Inst(q).id)
      BY <2>2, HeldCopies
      DEF Fresh, Held, WithInstance, Instance, RecordInvs, FreshInv
    <3>2. ~ (Saves(p) /\ Inst(q).id = Inst(p).id)
      BY <3>1 DEF Saves, Names, Held, WithInstance
    <3>3. ASSUME NEW i \in Instance, Creates(p, i) \/ Thinks(p, i),
                 Inst(q).id = i.id
          PROVE  FALSE
      BY <3>1, <3>3 DEF Creates, Thinks, Names, Held, WithInstance
    <3>4. QED
      BY <3>1, <3>2, <3>3, TableTold
  <2>3. QED
    BY <1>0, <2>1, <2>2 DEF ReleaseInv, StartedBy, NewRuns
<1>2. CASE q = p
  <2>1. CASE Quits(p)
    BY <1>2, <2>1
    DEF Quits, StartedBy, NewRuns, Fresh, Held, WithInstance, Ev
  <2>2. CASE Starts(p) \/ Saves(p) \/ Notifies(p)
    <3>1. (Inst(p)' = Inst(p) /\ Ev(p)' = Ev(p)) \/ ~ Held(p)'
      BY <2>2 DEF Starts, Saves, Notifies, Has, Inst, Ev
    <3>2. Held(p) /\ ~ Fresh(p)' /\ worker'[p].pc # "idle"
      BY <2>2 DEF Starts, Saves, Notifies, Has, Fresh, Held, WithInstance
    <3>3. QED
      BY <1>0, <1>2, <3>1, <3>2 DEF ReleaseInv, StartedBy, NewRuns
  <2>3. ASSUME NEW i \in Instance, Creates(p, i)
        PROVE  /\ worker'[p].pc # "idle" /\ StartedBy(p)' /\ NewRuns(p)'
    <3>1. /\ worker'[p].pc = "setSession" /\ Inst(p)' = i /\ Ev(p)' = Ev(p)
          /\ i.key = event[Ev(p)].key /\ i.status = "RUNNING"
      BY <2>3 DEF Creates, Has, Inst, Ev
    <3>2. wfTable'[i.id] = i
      BY <2>3 DEF Creates, Save, TypeInv, TypeOK, Instance
    <3>3. QED
      BY <1>0, <3>1, <3>2 DEF StartedBy, NewRuns
  <2>4. ASSUME NEW i \in Instance, Loads(p, i)
        PROVE  /\ worker'[p].pc # "idle" /\ StartedBy(p)' /\ NewRuns(p)'
    <3>1. /\ worker'[p].pc = "saveResumed" /\ Ev(p)' = Ev(p)
          /\ event[Ev(p)].type \in ResumeActions
      BY <2>4 DEF Loads, Has, Ev
    <3>2. QED
      BY <1>0, <3>1 DEF StartedBy, NewRuns, Fresh, ResumeActions, Decision
  <2>5. ASSUME NEW i \in Instance,
               \/ Thinks(p, i) \/ Shows(p, i) \/ Stops(p, i) \/ Files(p, i)
               \/ Relates(p, i)
        PROVE  /\ worker'[p].pc # "idle" /\ StartedBy(p)' /\ NewRuns(p)'
    <3>1. /\ Inst(p)' = i /\ Ev(p)' = Ev(p) /\ i.key = Inst(p).key /\ Held(p)
          /\ ~ Fresh(p)' /\ worker'[p].pc # "idle"
      BY <2>5
      DEF Thinks, Shows, Stops, Files, Relates, Like, Has, Inst, Ev, Held,
          WithInstance, Fresh
    <3>2. QED
      BY <1>0, <3>1 DEF ReleaseInv, StartedBy, NewRuns
  <2>6. QED
    BY <1>2, <2>1, <2>2, <2>3, <2>4, <2>5 DEF Does
<1> QED
  BY <1>1, <1>2

LEMMA WorkerKeepsReleases ==
  ASSUME TypeInv, RecordInvs, ReleaseInv, NEW p \in Workers, Does(p), Moves(p),
         NEW k \in Keys, NEW w \in WorkflowIds, session'[k] = w, HasEnded(w)'
  PROVE  Excused(k, w)' \/ Releasing(w)'
<1>0. /\ UNCHANGED <<event, drop>> /\ EventsStay
      /\ OnceInv /\ OwnInv /\ FreshInv /\ StepInv(p) /\ ChainInv(p)
  BY DEF Does, EventsStay, RecordInvs, StepInvs, FilingInvs, FilingInv
<1>1. session[k] = w
  <2>1. CASE Starts(p)
    <3>1. /\ session' = [session EXCEPT ![Inst(p).key] = Inst(p).id]
          /\ wfTable' = wfTable /\ Fresh(p)
      BY <2>1 DEF Starts, SessionSet, Fresh
    <3>2. w # Inst(p).id
      BY <3>1 DEF ReleaseInv, NewRuns, HasEnded, Ended
    <3>3. QED
      BY <3>1, <3>2 DEF TypeInv, TypeOK
  <2>2. CASE ~ Starts(p)
    BY <2>2, NoneAssumption
    DEF Does, Quits, Saves, Notifies, Creates, Loads, Thinks, Shows, Stops,
        Files, Relates
  <2>3. QED
    BY <2>1, <2>2
<1>2. ASSUME NEW c \in Copies', c.id = w
      PROVE  \E o \in Copies : o.id = c.id /\ o.key = c.key
  BY <1>0, <1>1, <1>2, Heirs, NoneAssumption DEF Creates, OwnInv
<1>3. ASSUME NEW d \in Events, Lost(d)', event[d] # None, OfSame(d, w)
      PROVE  Excused(k, w)'
  BY <1>0, <1>2, <1>3, SameStays DEF Excused
<1>4. CASE wfTable'[w] # wfTable[w]
  <2>1. CASE Saves(p) /\ w = Inst(p).id /\ wfTable'[w] = Inst(p)
    <3>1. Has(p, "clearSession", Inst(p))
      BY <1>0, <2>1 DEF Saves, StepInv, HasEnded, Ended
    <3>2. QED
      BY <2>1, <3>1 DEF Has, Inst, Releasing
  <2>2. ASSUME NEW i \in Instance, Creates(p, i) \/ Thinks(p, i),
               wfTable'[w] = i
        PROVE  FALSE
    BY <1>0, <2>2 DEF Creates, Thinks, StepInv, HasEnded, Ended
  <2>3. QED
    BY <1>4, <2>1, <2>2, TableTold
<1>5. CASE wfTable'[w] = wfTable[w]
  <2>1. Excused(k, w) \/ Releasing(w)
    BY <1>1, <1>5 DEF ReleaseInv, HasEnded
  <2>2. ASSUME NEW d \in Events, Lost(d), OfSame(d, w)
        PROVE  Excused(k, w)'
    BY <1>0, <1>3, <2>2, LostStays DEF Lost
  <2>3. CASE Excused(k, w)
    BY <1>0, <2>2, <2>3 DEF Excused
  <2>4. ASSUME NEW q \in Workers, worker[q].pc = "clearSession", Inst(q).id = w
        PROVE  Excused(k, w)' \/ Releasing(w)'
    <3>1. CASE q # p
      BY <2>4, <3>1 DEF Does, Others, Releasing, Inst
    <3>2. CASE q = p
      <4>1. Quits(p)
        BY <2>4, <3>2
        DEF Does, Starts, Saves, Notifies, Creates, Loads, Thinks, Shows,
            Stops, Files, Relates
      <4>2. /\ Held(p) /\ Inst(p) \in Copies /\ Inst(p).key = k
            /\ Ev(p) \in Events /\ event[Ev(p)] # None /\ InTry(p)
        BY <1>0, <1>1, <2>4, <3>2, HeldCopies, NoneAssumption
        DEF Held, WithInstance, OwnInv, TypeInv, WorkerInv, LocalInv, Ev, InTry
      <4>3. ~ InTry(p)' /\ UNCHANGED pending
        BY <2>4, <3>2, <4>1, <4>2, NoneAssumption DEF Quits
      <4>4. PICK d \in Events : d = Ev(p)
        BY <4>2
      <4>5. Lost(d)'
        <5>1. pending'[d] = "PROCESSING" /\ event'[d] # None
          BY <1>0, <4>2, <4>3, <4>4 DEF OnceInv
        <5>2. ASSUME NEW r \in Workers PROVE ~ Holds(r, d)'
          <6>1. CASE r = p
            BY <4>3, <6>1 DEF Holds
          <6>2. CASE r # p
            <7>1. worker'[r] = worker[r] /\ ~ (InTry(r) /\ Ev(r) = d)
              BY <1>0, <4>2, <4>4, <6>2 DEF Does, Others, OnceInv
            <7>2. QED
              BY <7>1 DEF Holds, InTry, Ev
          <6>3. QED
            BY <6>1, <6>2
        <5>3. QED
          BY <5>1, <5>2 DEF Lost
      <4>6. OfSame(d, w)
        <5>1. CASE event[d].type = "pipeline_start"
          BY <1>0, <2>4, <3>2, <4>2, <4>4, <5>1
          DEF OfSame, OwnInv, ReleaseInv, StartedBy
        <5>2. CASE event[d].type # "pipeline_start"
          BY <1>0, <2>4, <3>2, <4>2, <4>4, <5>2 DEF OfSame, ChainInv, Held
        <5>3. QED
          BY <5>1, <5>2
      <4>7. QED
        BY <1>3, <4>2, <4>4, <4>5, <4>6
    <3>3. QED
      BY <3>1, <3>2
  <2>5. CASE Releasing(w)
    BY <1>0, <2>4, <2>5 DEF Releasing
  <2>6. QED
    BY <2>1, <2>3, <2>5
<1> QED
  BY <1>4, <1>5

LEMMA OthersKeepReleaseInv ==
  ASSUME TypeInv, RecordInvs, ReleaseInv, UNCHANGED pending,
         Asks \/ (\E a \in Invocations : Drops(a)) \/ Expires
  PROVE  ReleaseInv'
<1>0. /\ worker' = worker /\ EventsStay /\ created' = created
      /\ wfTable \in [WorkflowIds -> Instance \union {None}]
      /\ \A k \in Keys : session'[k] \in {session[k], None}
      /\ OwnInv /\ FreshInv /\ IdInv
  BY DEF Asks, Drops, Begins, Finds, Fails, Cancels, Frees, Expires, EventsStay,
         NewEvent, TypeInv, TypeOK, RecordInvs, FilingInvs, FilingInv
<1>1. ASSUME NEW q \in Workers
      PROVE  /\ Inst(q)' = Inst(q) /\ Ev(q)' = Ev(q) /\ Held(q)' = Held(q)
             /\ Fresh(q)' = Fresh(q)
  BY <1>0 DEF Inst, Ev, Held, Fresh
<1>2. ASSUME NEW w \in WorkflowIds, wfTable'[w] # wfTable[w]
      PROVE  \/ wfTable'[w] = None
             \/ \E a \in Invocations : /\ drop[a].pc = "save" /\ Drops(a)
                                       /\ drop'[a].pc = "clear"
                                       /\ drop[a].wf = w /\ drop'[a].wf = w
  <2>1. ASSUME NEW a \in Invocations, NEW i \in Instance, Cancels(a, i)
        PROVE  i.id = drop[a].wf
    BY <2>1 DEF Cancels, Like, ReleaseInv
  <2>2. QED
    BY <1>0, <1>2, <2>1
    DEF Asks, Drops, Begins, Finds, Fails, Cancels, Frees, Expires, Save
<1>3. ASSUME NEW q \in Workers
      PROVE  StartedBy(q)' /\ NewRuns(q)'
  <2>1. Held(q) => event'[Ev(q)] = event[Ev(q)]
    BY <1>0
    DEF Held, WithInstance, TypeInv, WorkerInv, LocalInv, Ev, EventsStay
  <2>2. ASSUME Fresh(q), wfTable'[Inst(q).id] # None
        PROVE  wfTable'[Inst(q).id] = wfTable[Inst(q).id]
    <3>1. Inst(q).id \in WorkflowIds /\ ~ Names(Inst(q).id)
      BY <1>0, <2>2, HeldCopies DEF Fresh, Held, WithInstance, Instance, FreshInv
    <3>2. QED
      BY <1>2, <2>2, <3>1 DEF Names
  <2>3. QED
    BY <1>1, <2>1, <2>2 DEF ReleaseInv, StartedBy, NewRuns
<1>4. ASSUME NEW b \in Invocations, drop'[b].pc = "save"
      PROVE  drop'[b].inst.id = drop'[b].wf
  <2>1. CASE drop'[b] = drop[b]
    BY <1>4, <2>1 DEF ReleaseInv
  <2>2. CASE drop'[b] # drop[b]
    <3>1. Finds(b) /\ drop'[b].wf = drop[b].wf
      BY <1>4, <2>2
      DEF Asks, Drops, Begins, Finds, Fails, Cancels, Frees, Expires
    <3>2. wfTable[drop[b].wf] # None /\ drop[b].wf \in WorkflowIds
      BY <3>1, NoneIsNoRecord DEF Finds, Copies, TypeInv, DropInv
    <3>3. QED
      BY <1>0, <3>1, <3>2 DEF Finds, IdInv
  <2>3. QED
    BY <2>1, <2>2
<1>5. ASSUME NEW k \in Keys, NEW w \in WorkflowIds, session'[k] = w,
             HasEnded(w)'
      PROVE  Excused(k, w)' \/ Releasing(w)'
  <2>1. session[k] = w
    BY <1>0, <1>5, NoneAssumption
  <2>2. ASSUME NEW d \in Events, Lost(d), OfSame(d, w)
        PROVE  Excused(k, w)'
    <3>1. \A c \in Copies' :
            c.id = w => \E o \in Copies : o.id = c.id /\ o.key = c.key
      BY OldCopies, DropCopies DEF Like
    <3>2. OfSame(d, w)'
      BY <1>0, <2>2, <3>1, SameStays DEF Lost
    <3>3. Lost(d)'
      BY <1>0, <2>2 DEF Lost, Holds, InTry, Ev, EventsStay
    <3>4. QED
      BY <3>2, <3>3 DEF Excused
  <2>3. ASSUME NEW b \in Invocations, drop[b].pc # "ready", drop[b].wf = w
        PROVE  /\ drop'[b].pc # "ready" /\ drop'[b].wf = w
               /\ drop'[b].key = drop[b].key
               /\ drop[b].pc = "dead" => drop'[b].pc = "dead"
               /\ drop[b].pc = "clear" =>
                    \/ drop'[b].pc \in {"clear", "dead"}
                    \/ session'[drop[b].key] = None
    <3>1. CASE drop'[b] = drop[b]
      BY <2>3, <3>1
    <3>2. CASE drop'[b] # drop[b]
      <4>1. Drops(b) /\ drop[b].key \in Keys
        BY <2>3, <3>2 DEF Asks, Drops, Expires, TypeInv, DropInv
      <4>2. Frees(b) => session'[drop[b].key] = None
        BY <4>1 DEF Frees, TypeInv, TypeOK
      <4>3. QED
        BY <2>3, <4>1, <4>2 DEF Drops, Begins, Finds, Fails, Cancels, Frees
    <3>3. QED
      BY <3>1, <3>2
  <2>4. CASE wfTable'[w] = wfTable[w]
    <3>1. Excused(k, w) \/ Releasing(w)
      BY <1>5, <2>1, <2>4 DEF ReleaseInv, HasEnded
    <3>2. CASE Excused(k, w)
      BY <2>2, <2>3, <3>2 DEF Excused
    <3>3. CASE \E q \in Workers : worker[q].pc = "clearSession" /\ Inst(q).id = w
      BY <1>0, <1>1, <3>3 DEF Releasing
    <3>4. CASE \E a \in Invocations : drop[a].pc = "clear" /\ drop[a].wf = w
      BY <1>5, <2>3, <3>4, NoneAssumption DEF Releasing, Excused
    <3>5. QED
      BY <3>1, <3>2, <3>3, <3>4 DEF Releasing
  <2>5. CASE wfTable'[w] # wfTable[w]
    BY <1>2, <1>5, <2>5 DEF HasEnded, Releasing
  <2>6. QED
    BY <2>4, <2>5
<1>6. ASSUME NEW q \in Workers, worker'[q].pc = "idle" PROVE Ev(q)' = None
  BY <1>0, <1>1, <1>6 DEF ReleaseInv
<1> QED
  BY <1>3, <1>4, <1>5, <1>6 DEF ReleaseInv

LEMMA NextKeepsReleaseInv ==
  RecordInvs /\ ReleaseInv /\ [Next]_vars => ReleaseInv'
<1> SUFFICES ASSUME RecordInvs, ReleaseInv, [Next]_vars PROVE ReleaseInv'
  OBVIOUS
<1>0. TypeInv /\ OnceInv /\ IdInv
  BY DEF RecordInvs, FilingInvs, FilingInv
<1>1. ASSUME NEW p \in Workers, WorkerStep(p) \/ Raise(p) \/ Crash(p)
      PROVE  ReleaseInv'
  <2>1. Does(p) /\ Moves(p)
    BY <1>0, <1>1, WorkerDoes, WorkerMoves, FailureLeaves DEF Moves
  <2>2. \A a \in Invocations :
          drop'[a].pc = "save" => drop'[a].inst.id = drop'[a].wf
    BY <2>1 DEF Does, ReleaseInv
  <2>3. QED
    BY <1>0, <2>1, <2>2, WorkerKeepsStarts, WorkerKeepsReleases DEF ReleaseInv
<1>2. CASE User \/ \E d \in Events : Resend(d)
  <2>1. UNCHANGED pending
    BY <1>2
    DEF User, Press, SubmitRequest, PressAccept, PressDecision, SubmitReject,
        PressReject, Resend, tables
  <2>2. QED
    BY <1>0, <1>2, <2>1, UserAsks, OthersKeepReleaseInv
<1>3. ASSUME NEW a \in Invocations, Drop(a) \/ DropStep(a) \/ DropCrash(a)
      PROVE  ReleaseInv'
  <2>1. UNCHANGED pending
    BY <1>3
    DEF Drop, DropCommand, DropButton, DropStep, DropLoad, DropLoadFails,
        DropSave, DropClear, DropCrash, tables
  <2>2. QED
    BY <1>0, <1>3, <2>1, DropDrops, OthersKeepReleaseInv
<1>4. CASE \/ \E w \in WorkflowIds : ExpireWorkflow(w)
           \/ \E k \in Keys : ExpireSession(k)
           \/ UNCHANGED vars
  <2>1. UNCHANGED pending
    BY <1>4 DEF ExpireWorkflow, ExpireSession, vars, tables
  <2>2. Expires
    BY <1>0, <1>4
    DEF ExpireWorkflow, ExpireSession, SessionClear, Expires, TypeInv, TypeOK,
        vars, tables, sqs, slack
  <2>3. QED
    BY <1>0, <2>1, <2>2, OthersKeepReleaseInv
<1> QED
  BY <1>1, <1>2, <1>3, <1>4 DEF Next

LEMMA InitReleaseInv == Init => ReleaseInv
  BY NoneAssumption
  DEF Init, ReleaseInv, StartedBy, NewRuns, Fresh, Held, WithInstance, Idle,
      NotInvoked, Ev, HasEnded

LEMMA ReleaseInvHolds == Spec => [](RecordInvs /\ ReleaseInv)
<1>1. RecordInvs <=> FilingInvs /\ OwnInv /\ FreshInv /\ StepInvs
  BY DEF RecordInvs
<1> QED
  BY <1>1, FilingInvHolds, OwnInvHolds, FreshInvHolds, StepInvsHold,
     InitReleaseInv, NextKeepsReleaseInv, PTL DEF Spec

LEMMA ReleaseInvReleases == RecordInvs /\ ReleaseInv => SessionReleased
<1> SUFFICES ASSUME RecordInvs, ReleaseInv, Quiet, NoDropInProgress,
                    NEW k \in Keys, NEW w \in WorkflowIds, session[k] = w,
                    HasEnded(w)
             PROVE  CutShort(w) \/ DroppedByAnother(k, w)
  BY DEF SessionReleased, HasEnded
<1>1. \A p \in Workers : worker[p].pc = "idle" /\ Ev(p) = None
  BY DEF Quiet, At, ReleaseInv
<1>2. ~ Releasing(w)
  BY <1>1 DEF Releasing, NoDropInProgress
<1>3. ASSUME NEW d \in Events, Lost(d), OfSame(d, w)
      PROVE  CutShort(w)
  <2>1. Abandoned(d)
    BY <1>1, <1>3, NoneAssumption DEF Abandoned, Lost
  <2>2. wfTable[w] \in Copies /\ wfTable[w].id = w
    BY TableCopies
    DEF RecordInvs, FilingInvs, FilingInv, TypeInv, IdInv, HasEnded
  <2>3. Concerns(d, w)
    BY <1>3, <2>2 DEF OfSame, Concerns, HasEnded
  <2>4. QED
    BY <2>1, <2>3 DEF CutShort
<1>4. Excused(k, w)
  BY <1>2 DEF ReleaseInv
<1>5. QED
  BY <1>3, <1>4 DEF Excused, CutShort, DroppedByAnother

(***************************************************************************)
(* Once nothing runs, no session names a workflow that has ended, unless   *)
(* an invocation working on it died or raised, or somebody else than the   *)
(* session's user dropped it: however drops, completions and new starts    *)
(* interleave, whoever saves a workflow as ended comes to clear the        *)
(* session (_execute_until_wait, slash.handle_drop).                       *)
(***************************************************************************)
THEOREM EndedSessionsAreReleased == Spec => []SessionReleased
  BY ReleaseInvReleases, ReleaseInvHolds, PTL

-----------------------------------------------------------------------------
(***************************************************************************)
(* A workflow that waits keeps its user guarded.                           *)
(*                                                                         *)
(* A worker on its way to clear the session of its user works on a start   *)
(* of a type without a graph, or on an answer that ends a workflow.        *)
(***************************************************************************)
Ending(p) ==
  \/ worker[p].pc \in {"relate", "notify", "saveEnd", "clearSession"}
  \/ worker[p].pc \in BeforeStep /\ Inst(p).step \in StopSteps

EndInv(p) ==
  Held(p) =>
    IF event[Ev(p)].type = "pipeline_start"
      THEN /\ Inst(p).wtype = event[Ev(p)].wtype
           /\ Ending(p) => Inst(p).wtype # "feat"
      ELSE /\ Inst(p).wtype = "feat"
           /\ Ending(p) => event[Ev(p)].type \in {"accept", "reject_duplicate"}

EndInvs == \A p \in Workers : EndInv(p)

LEMMA WorkerKeepsEndInv ==
  ASSUME TypeInv, EndInvs, NEW p \in Workers, Does(p)
  PROVE  EndInv(p)'
<1> SUFFICES ASSUME Held(p)' PROVE EndInv(p)'
  BY DEF EndInv
<1>0. /\ EndInv(p) /\ event' = event
      /\ worker'[p].ev = Ev(p) => Ev(p)' = Ev(p)
  BY DEF EndInvs, Does, Ev
<1> DEFINE e == event[Ev(p)]
<1>1. CASE \E i \in Instance : Creates(p, i)
  <2>1. PICK i \in Instance : Creates(p, i)
    BY <1>1
  <2>2. /\ worker[p].pc = "create" /\ worker'[p].pc = "setSession"
        /\ Inst(p)' = i /\ Ev(p)' = Ev(p)
        /\ i.step = FIRST_STEP /\ i.wtype = e.wtype
    BY <2>1 DEF Creates, Has, Inst, Ev
  <2>3. e.type = "pipeline_start"
    BY <2>2 DEF TypeInv, WorkerInv, LocalInv, Ev
  <2>4. ~ Ending(p)'
    BY <2>2 DEF Ending, FIRST_STEP, StopSteps
  <2>5. QED
    BY <1>0, <2>2, <2>3, <2>4 DEF EndInv
<1>2. CASE \E i \in Instance : Loads(p, i)
  <2>1. PICK i \in Instance : Loads(p, i)
    BY <1>2
  <2>2. /\ worker'[p].pc = "saveResumed" /\ Inst(p)' = i /\ Ev(p)' = Ev(p)
        /\ e.type \in ResumeActions /\ i.wtype = "feat"
        /\ i.step = RESUME_MAP[e.type]
    BY <2>1 DEF Loads, Has, Inst, Ev
  <2>3. i.step \in StopSteps => e.type \in {"accept", "reject_duplicate"}
    BY <2>2 DEF RESUME_MAP, ResumeActions, Decision, StopSteps
  <2>4. e.type # "pipeline_start"
    BY <2>2 DEF ResumeActions, Decision
  <2>5. Ending(p)' => i.step \in StopSteps
    BY <2>2 DEF Ending
  <2>6. QED
    BY <1>0, <2>2, <2>3, <2>4, <2>5 DEF EndInv
<1>3. CASE Starts(p) \/ Saves(p) \/ Notifies(p)
  <2>1. /\ Held(p) /\ Inst(p)' = Inst(p) /\ Ev(p)' = Ev(p)
        /\ Ending(p)' => Ending(p)
    BY <1>3
    DEF Starts, Saves, Notifies, Has, Inst, Ev, Held, WithInstance, Ending,
        BeforeStep
  <2>2. QED
    BY <1>0, <2>1 DEF EndInv
<1>4. ASSUME NEW i \in Instance, Thinks(p, i) \/ Shows(p, i)
      PROVE  EndInv(p)'
  <2>1. /\ Held(p) /\ Inst(p)' = i /\ Ev(p)' = Ev(p) /\ i.wtype = Inst(p).wtype
        /\ \/ worker'[p].pc = "saveWaiting"
           \/ /\ worker'[p].pc = "run" /\ Inst(p).step \in ContinueSteps
              /\ i.step = OnContinue[Inst(p).step]
    BY <1>4 DEF Thinks, Shows, Like, Has, Inst, Ev, Held, WithInstance
  <2>2. ~ Ending(p)'
    BY <2>1 DEF Ending, BeforeStep, OnContinue, ContinueSteps, StopSteps
  <2>3. QED
    BY <1>0, <2>1, <2>2 DEF EndInv
<1>5. ASSUME NEW i \in Instance, Files(p, i) \/ Relates(p, i) \/ Stops(p, i)
      PROVE  EndInv(p)'
  <2>1. /\ Held(p) /\ Inst(p)' = i /\ Ev(p)' = Ev(p) /\ i.wtype = Inst(p).wtype
        /\ i.step = Inst(p).step /\ i.step \in Steps
        /\ Ending(p) \/ ~ HasNode(i.wtype, i.step)
    BY <1>5
    DEF Files, Relates, Stops, Like, Has, Inst, Ev, Held, WithInstance, Ending,
        BeforeStep, StopSteps, Instance
  <2>2. Ending(p) \/ i.wtype # "feat"
    BY <2>1 DEF HasNode
  <2>3. QED
    BY <1>0, <2>1, <2>2 DEF EndInv
<1>6. ~ Quits(p)
  BY DEF Quits
<1> QED
  BY <1>1, <1>2, <1>3, <1>4, <1>5, <1>6 DEF Does

LEMMA NextKeepsEndInvs == FilingInvs /\ EndInvs /\ [Next]_vars => EndInvs'
<1> SUFFICES ASSUME FilingInvs, EndInvs, [Next]_vars, NEW q \in Workers
             PROVE  EndInv(q)'
  BY DEF EndInvs
<1>0. TypeInv /\ EndInv(q)
  BY DEF FilingInvs, EndInvs
<1>1. EventsStay => event'[Ev(q)] = event[Ev(q)] \/ ~ Held(q)
  BY <1>0
  DEF EventsStay, TypeInv, WorkerInv, LocalInv, Held, WithInstance, Ev
<1>2. ASSUME worker'[q] = worker[q], EventsStay PROVE EndInv(q)'
  BY <1>0, <1>1, <1>2 DEF EndInv, Held, Inst, Ev, Ending
<1>3. ASSUME NEW p \in Workers, Does(p) PROVE EndInv(q)'
  BY <1>0, <1>2, <1>3, WorkerKeepsEndInv DEF Does, Others, EventsStay
<1>4. CASE Asks \/ Expires \/ \E a \in Invocations : Drops(a)
  <2>1. worker' = worker /\ EventsStay
    BY <1>0, <1>4
    DEF Asks, NewEvent, Expires, Drops, EventsStay, TypeInv, TypeOK
  <2>2. QED
    BY <1>2, <2>1
<1> QED
  BY <1>3, <1>4, NextDoes DEF FilingInvs, FilingInv

(***************************************************************************)
(* As long as nothing has expired, every copy is of a stored workflow, and *)
(* the user of every copy is guarded, but of one whose start() has not set *)
(* the session yet: of that workflow, nobody was asked anything.           *)
(***************************************************************************)
GivenBack(k) ==
  \/ \E d \in Events : IsEnd(d, k)
  \/ \E a \in Invocations : drop[a].pc = "done" /\ drop[a].key = k

Guarded(w, k) == session[k] # None \/ GivenBack(k) \/ ~ Names(w)

GuardInv ==
  /\ budget["expire"] <= Budget["expire"]
  /\ ~ Expired =>
       \A c \in Copies : wfTable[c.id] # None /\ Guarded(c.id, c.key)

(* a step before which nothing had expired, and after which nothing has *)
Undisturbed ==
  /\ RecordInvs /\ ReleaseInv /\ EndInvs /\ OwnInv'
  /\ \A c \in Copies : wfTable[c.id] # None /\ Guarded(c.id, c.key)
  /\ \A d \in Events : pending[d] # "absent" => pending'[d] # "absent"

LEMMA GivenBackStays ==
  ASSUME Undisturbed, EventsStay,
         \A w \in WorkflowIds : wfTable[w] # None => wfTable'[w] # None,
         \A c \in Copies' :
           (\E o \in Copies : o.id = c.id /\ o.key = c.key)
             \/ c.id \notin created,
         \A a \in Invocations : drop[a].pc = "done" => drop'[a] = drop[a],
         TypeInv', IdInv',
         NEW k \in Keys, GivenBack(k)
  PROVE  GivenBack(k)'
<1>0. TypeInv /\ IdInv /\ OwnInv
  BY DEF Undisturbed, RecordInvs, FilingInvs, FilingInv
<1>1. ASSUME NEW d \in Events, IsEnd(d, k) PROVE IsEnd(d, k)'
  <2>1. event[d] # None /\ event'[d] = event[d] /\ pending'[d] # "absent"
    BY <1>1 DEF IsEnd, EventsStay, Undisturbed
  <2>2. CASE event[d].type = "pipeline_start"
    BY <1>1, <2>1, <2>2 DEF IsEnd
  <2>3. CASE event[d].type # "pipeline_start"
    <3>1. PICK w \in WorkflowIds : w = event[d].wf
      BY <1>0, <2>1, <2>3 DEF TypeInv, EventInv, EventOf
    <3>2. wfTable[w] # None /\ wfTable[w].key = k
      BY <1>1, <2>3, <3>1 DEF IsEnd
    <3>3. wfTable[w] \in Copies /\ wfTable[w].id = w /\ w \in created
      BY <1>0, <3>2, TableCopies DEF TypeInv, IdInv, OwnInv
    <3>4. PICK c \in Copies' : c = wfTable'[w] /\ c.id = w /\ c # None
      BY <3>2 DEF TypeInv, TypeOK, Copies, IdInv
    <3>5. c.key = k
      BY <1>0, <3>2, <3>3, <3>4 DEF OwnInv
    <3>6. QED
      BY <1>1, <2>1, <2>3, <3>1, <3>4, <3>5 DEF IsEnd
  <2>4. QED
    BY <2>2, <2>3
<1> QED
  BY <1>1 DEF GivenBack

LEMMA EndingIsEnd ==
  ASSUME Undisturbed, NEW p \in Workers, Held(p), Ending(p)
  PROVE  IsEnd(Ev(p), Inst(p).key)
<1>0. TypeInv /\ OnceInv /\ ChainInv(p) /\ EndInv(p) /\ StartedBy(p) /\ OwnInv
      /\ IdInv
  BY DEF Undisturbed, RecordInvs, FilingInvs, FilingInv, EndInvs, ReleaseInv
<1>1. Ev(p) \in Events /\ event[Ev(p)] # None /\ pending[Ev(p)] # "absent"
  BY <1>0
  DEF TypeInv, WorkerInv, LocalInv, OnceInv, Held, WithInstance, InTry, Ev
<1>2. CASE event[Ev(p)].type = "pipeline_start"
  BY <1>0, <1>1, <1>2 DEF IsEnd, EndInv, StartedBy
<1>3. CASE event[Ev(p)].type # "pipeline_start"
  <2>1. Inst(p) \in Copies /\ Inst(p) \in Instance
    BY <1>0, HeldCopies
  <2>2. Inst(p).id = event[Ev(p)].wf /\ Inst(p).id \in WorkflowIds
    BY <1>0, <1>3, <2>1 DEF ChainInv, Held, Instance
  <2>3. PICK w \in WorkflowIds : w = Inst(p).id
    BY <2>2
  <2>4. wfTable[w] # None
    BY <2>1, <2>3 DEF Undisturbed
  <2>5. wfTable[w] \in Copies /\ wfTable[w].id = w
    BY <1>0, <2>4, TableCopies DEF TypeInv, IdInv
  <2>6. wfTable[w].key = Inst(p).key
    BY <1>0, <2>1, <2>3, <2>5 DEF OwnInv
  <2>7. QED
    BY <1>0, <1>1, <1>3, <2>2, <2>3, <2>4, <2>6 DEF IsEnd, EndInv
<1> QED
  BY <1>2, <1>3

LEMMA WorkerKeepsGuards ==
  ASSUME Undisturbed, TypeInv', IdInv', NEW p \in Workers, Does(p),
         NEW c \in Copies'
  PROVE  (wfTable[c.id] # None)' /\ Guarded(c.id, c.key)'
<1>0. TypeInv /\ OwnInv /\ FreshInv /\ EventsStay /\ c \in Instance
      /\ wfTable \in [WorkflowIds -> Instance \union {None}]
      /\ c.id \in WorkflowIds /\ c.key \in Keys
  BY DEF Undisturbed, RecordInvs, FilingInvs, Does, EventsStay, Copies,
         Instance, TypeInv, TypeOK
<1>1. ASSUME NEW w \in WorkflowIds, wfTable[w] # None
      PROVE  wfTable'[w] # None
  <2>1. CASE Saves(p) /\ wfTable'[w] = Inst(p)
    <3>1. Inst(p) \in Instance
      BY <1>0, <2>1, HeldCopies DEF Saves, Held, WithInstance
    <3>2. QED
      BY <2>1, <3>1, NoneIsNoRecord
  <2>2. QED
    BY <1>0, <1>1, <2>1, TableTold, NoneIsNoRecord
<1>2. \/ \E o \in Copies : o.id = c.id /\ o.key = c.key
      \/ Creates(p, c)
  BY <1>0, Heirs
<1>3. ASSUME NEW k \in Keys, GivenBack(k) PROVE GivenBack(k)'
  <2>1. ASSUME NEW d \in Copies'
        PROVE  \/ \E o \in Copies : o.id = d.id /\ o.key = d.key
               \/ d.id \notin created
    BY <1>0, Heirs DEF Creates
  <2>2. \A a \in Invocations : drop[a].pc = "done" => drop'[a] = drop[a]
    BY DEF Does
  <2>3. QED
    BY <1>0, <1>1, <1>3, <2>1, <2>2, GivenBackStays
<1>4. CASE Creates(p, c)
  <2>1. c.id \notin created /\ ~ Starts(p)
    BY <1>4 DEF Creates, Starts
  <2>2. ~ Names(c.id)'
    BY <1>0, <2>1, WorkerNames DEF FreshInv
  <2>3. wfTable'[c.id] # None
    BY <1>0, <1>4, NoneIsNoRecord DEF Creates, Save
  <2>4. QED
    BY <2>2, <2>3 DEF Guarded
<1>5. ASSUME NEW o \in Copies, o.id = c.id, o.key = c.key
      PROVE  (wfTable[c.id] # None)' /\ Guarded(c.id, c.key)'
  <2>1. wfTable'[c.id] # None
    BY <1>0, <1>1, <1>5 DEF Undisturbed
  <2> SUFFICES Guarded(c.id, c.key)'
    BY <2>1
  <2>2. Guarded(c.id, c.key)
    BY <1>5 DEF Undisturbed
  <2>3. CASE session[c.key] # None
    <3>1. CASE session'[c.key] = session[c.key]
      BY <2>3, <3>1 DEF Guarded
    <3>2. CASE Starts(p)
      <4>1. Inst(p).id \in WorkflowIds
            /\ session' = [session EXCEPT ![Inst(p).key] = Inst(p).id]
        BY <1>0, <3>2, HeldCopies
        DEF Starts, SessionSet, Held, WithInstance, Instance
      <4>2. session'[c.key] # None
        BY <1>0, <2>3, <4>1, NoneAssumption DEF TypeInv, TypeOK
      <4>3. QED
        BY <4>2 DEF Guarded
    <3>3. CASE session'[c.key] # session[c.key] /\ ~ Starts(p)
      <4>1. worker[p].pc = "clearSession" /\ c.key = Inst(p).key
        BY <1>0, <3>3
        DEF Does, Quits, Saves, Notifies, Creates, Loads, Thinks, Shows, Stops,
            Files, Relates
      <4>2. IsEnd(Ev(p), c.key) /\ Ev(p) \in Events
        BY <1>0, <4>1, EndingIsEnd
        DEF Held, WithInstance, Ending, TypeInv, WorkerInv, LocalInv, Ev
      <4>3. GivenBack(c.key)
        BY <4>2 DEF GivenBack
      <4>4. QED
        BY <1>0, <1>3, <4>3 DEF Guarded
    <3>4. QED
      BY <3>1, <3>2, <3>3
  <2>4. CASE GivenBack(c.key)
    BY <1>0, <1>3, <2>4 DEF Guarded
  <2>5. CASE ~ Names(c.id)
    <3>1. CASE Starts(p) /\ c.id = Inst(p).id
      <4>1. Inst(p) \in Copies /\ Inst(p) \in Instance
        BY <1>0, <3>1, HeldCopies DEF Starts, Held, WithInstance
      <4>2. Inst(p).key = c.key
        BY <1>0, <1>5, <3>1, <4>1 DEF OwnInv
      <4>3. session' = [session EXCEPT ![c.key] = c.id]
        BY <3>1, <4>2 DEF Starts, SessionSet
      <4>4. session'[c.key] # None
        BY <1>0, <4>3, NoneAssumption DEF TypeInv, TypeOK
      <4>5. QED
        BY <4>4 DEF Guarded
    <3>2. CASE ~ (Starts(p) /\ c.id = Inst(p).id)
      <4>1. ~ Names(c.id)'
        BY <1>0, <2>5, <3>2, WorkerNames
      <4>2. QED
        BY <4>1 DEF Guarded
    <3>3. QED
      BY <3>1, <3>2
  <2>6. QED
    BY <2>2, <2>3, <2>4, <2>5 DEF Guarded
<1> QED
  BY <1>2, <1>4, <1>5

LEMMA OthersKeepGuards ==
  ASSUME Undisturbed, TypeInv', IdInv',
         \/ Asks \/ \E a \in Invocations : Drops(a)
         \/ Expires /\ UNCHANGED <<wfTable, session>>,
         NEW c \in Copies'
  PROVE  (wfTable[c.id] # None)' /\ Guarded(c.id, c.key)'
<1>0. TypeInv /\ OwnInv /\ c \in Instance /\ c.id \in WorkflowIds
      /\ c.key \in Keys /\ wfTable \in [WorkflowIds -> Instance \union {None}]
      /\ session \in [Keys -> WorkflowIds \union {None}]
  BY DEF Undisturbed, RecordInvs, FilingInvs, Copies, Instance, TypeInv, TypeOK
<1>1. EventsStay
  BY <1>0 DEF Asks, NewEvent, Drops, Expires, EventsStay, TypeInv, TypeOK
<1>2. \A w \in WorkflowIds : wfTable[w] # None => wfTable'[w] # None
  BY <1>0, NoneIsNoRecord
  DEF Asks, Drops, Begins, Finds, Fails, Cancels, Frees, Save
<1>3. \A b \in Copies' : \E o \in Copies : o.id = b.id /\ o.key = b.key
  BY <1>0, OldCopies, DropCopies DEF Like
<1>4. \A a \in Invocations : drop[a].pc = "done" => drop'[a] = drop[a]
  BY DEF Asks, Drops, Expires, Begins
<1>5. GivenBack(c.key) => GivenBack(c.key)'
  BY <1>0, <1>1, <1>2, <1>3, <1>4, GivenBackStays
<1>6. PICK o \in Copies : o.id = c.id /\ o.key = c.key
  BY <1>3
<1>7. wfTable'[c.id] # None /\ Guarded(c.id, c.key)
  BY <1>0, <1>2, <1>6 DEF Undisturbed
<1>8. ASSUME session[c.key] # None, session'[c.key] = None
      PROVE  GivenBack(c.key)'
  <2>1. PICK a \in Invocations : Drops(a) /\ Frees(a)
    BY <1>0, <1>8 DEF Asks, Drops, Begins, Finds, Fails, Cancels
  <2>2. drop'[a].pc = "done" /\ drop'[a].key = drop[a].key
        /\ drop[a].key = c.key
    BY <1>0, <1>8, <2>1 DEF Drops, Frees, Begins
  <2>3. QED
    BY <2>2 DEF GivenBack
<1>9. ~ Names(c.id) => ~ Names(c.id)'
  BY <1>0, OthersName
<1> QED
  BY <1>5, <1>7, <1>8, <1>9 DEF Guarded

(* an expiry shows in the budget; and no step undoes try_acquire *)
LEMMA ExpiryShows ==
  ASSUME TypeInv, budget["expire"] <= Budget["expire"], [Next]_vars
  PROVE  /\ budget'["expire"] <= Budget["expire"]
         /\ Expired => Expired'
         /\ \A w \in WorkflowIds : ExpireWorkflow(w) => Expired'
         /\ \A k \in Keys : ExpireSession(k) => Expired'
<1>0. /\ budget \in [Faults -> Nat] /\ "expire" \in Faults
      /\ Budget["expire"] \in Nat /\ budget["expire"] \in Nat
  BY BoundsAssumption DEF TypeInv, TypeOK, Faults
<1>1. ASSUME NEW f \in Faults, Spend(f)
      PROVE  /\ budget'["expire"] <= budget["expire"]
             /\ f = "expire" => budget'["expire"] < budget["expire"]
  BY <1>0, <1>1 DEF Spend
<1>2. budget'["expire"] \in Nat /\ budget'["expire"] <= budget["expire"]
  <2>1. CASE UNCHANGED budget
    BY <1>0, <2>1
  <2>2. ASSUME NEW f \in Faults, Spend(f)
        PROVE  budget'["expire"] \in Nat
               /\ budget'["expire"] <= budget["expire"]
    BY <1>0, <1>1, <2>2 DEF Spend
  <2>3. UNCHANGED budget \/ \E f \in Faults : Spend(f)
    <3>1. CASE User \/ UNCHANGED vars
      BY <3>1
      DEF User, Press, SubmitRequest, PressAccept, PressDecision, SubmitReject,
          PressReject, vars
    <3>2. CASE \/ \E d \in Events : Resend(d)
               \/ \E p \in Workers : Raise(p) \/ Crash(p)
               \/ \E a \in Invocations : DropCrash(a)
               \/ \E w \in WorkflowIds : ExpireWorkflow(w)
               \/ \E k \in Keys : ExpireSession(k)
      BY <3>2
      DEF Resend, Raise, Crash, DropCrash, ExpireWorkflow, ExpireSession, Faults
    <3>3. CASE \E p \in Workers : WorkerStep(p)
      BY <3>3
      DEF WorkerStep, Start, Resume, Execute, Receive, Acquire, SkipDuplicate,
          MarkDone, RefuseStart, AllowStart, CreateInstance, SetSession,
          IgnoreResume, LoadInstance, SaveResumed, FailUnknownStep,
          ContinueStep, RaiseNotReady, PostWaitMessage, SaveWaiting, RejectEnd,
          CreateIssue, SetRelation, NotifyEnd, SaveEnd, ClearSession
    <3>4. CASE \E a \in Invocations : Drop(a) \/ DropStep(a)
      BY <3>4
      DEF Drop, DropCommand, DropButton, DropStep, DropLoad, DropLoadFails,
          DropSave, DropClear
    <3>5. QED
      BY <3>1, <3>2, <3>3, <3>4 DEF Next
  <2>4. QED
    BY <2>1, <2>2, <2>3
<1>3. Spend("expire") => Expired'
  BY <1>0, <1>1, <1>2 DEF Expired
<1>4. Expired => Expired'
  BY <1>0, <1>2 DEF Expired
<1> QED
  BY <1>0, <1>2, <1>3, <1>4 DEF ExpireWorkflow, ExpireSession

LEMMA AcquiredStays ==
  ASSUME TypeInv, [Next]_vars, NEW d \in Events, pending[d] # "absent"
  PROVE  pending'[d] # "absent"
<1>0. pending \in [Events -> {"absent", "PROCESSING", "DONE"}]
  BY DEF TypeInv, TypeOK
<1>1. ASSUME NEW p \in Workers, WorkerStep(p) \/ Raise(p) \/ Crash(p)
      PROVE  pending'[d] # "absent"
  <2>1. Moves(p)
    BY <1>1, WorkerMoves, FailureLeaves DEF Moves
  <2>2. QED
    BY <1>0, <2>1
    DEF Moves, Leaves, Enters, Runs, Posts, PendingDone, TryAcquire
<1>2. CASE User \/ (\E e \in Events : Resend(e)) \/ UNCHANGED vars
  BY <1>2
  DEF User, Press, SubmitRequest, PressAccept, PressDecision, SubmitReject,
      PressReject, Resend, tables, vars
<1>3. CASE \/ \E a \in Invocations : Drop(a) \/ DropStep(a) \/ DropCrash(a)
           \/ \E w \in WorkflowIds : ExpireWorkflow(w)
           \/ \E k \in Keys : ExpireSession(k)
  BY <1>3
  DEF Drop, DropCommand, DropButton, DropStep, DropLoad, DropLoadFails,
      DropSave, DropClear, DropCrash, ExpireWorkflow, ExpireSession, tables
<1> QED
  BY <1>1, <1>2, <1>3 DEF Next

LEMMA NextKeepsGuardInv ==
  RecordInvs /\ ReleaseInv /\ EndInvs /\ GuardInv /\ RecordInvs' /\ [Next]_vars
    => GuardInv'
<1> SUFFICES ASSUME RecordInvs, ReleaseInv, EndInvs, GuardInv, RecordInvs',
                    [Next]_vars
             PROVE  GuardInv'
  OBVIOUS
<1>0. TypeInv /\ OnceInv /\ IdInv /\ TypeInv' /\ IdInv' /\ OwnInv'
  BY DEF RecordInvs, FilingInvs, FilingInv
<1>1. /\ budget'["expire"] <= Budget["expire"]
      /\ Expired => Expired'
      /\ \A w \in WorkflowIds : ExpireWorkflow(w) => Expired'
      /\ \A k \in Keys : ExpireSession(k) => Expired'
  BY <1>0, ExpiryShows DEF GuardInv
<1>2. ASSUME ~ Expired', NEW c \in Copies'
      PROVE  (wfTable[c.id] # None)' /\ Guarded(c.id, c.key)'
  <2>1. Undisturbed
    BY <1>0, <1>1, <1>2, AcquiredStays DEF Undisturbed, GuardInv
  <2>2. ASSUME NEW p \in Workers, WorkerStep(p) \/ Raise(p) \/ Crash(p)
        PROVE  (wfTable[c.id] # None)' /\ Guarded(c.id, c.key)'
    BY <1>0, <2>1, <2>2, WorkerDoes, WorkerKeepsGuards
  <2>3. CASE \/ User \/ \E d \in Events : Resend(d)
             \/ \E a \in Invocations : Drop(a) \/ DropStep(a) \/ DropCrash(a)
    BY <1>0, <2>1, <2>3, UserAsks, DropDrops, OthersKeepGuards
  <2>4. CASE UNCHANGED vars
    <3>1. Expires /\ UNCHANGED <<wfTable, session>>
      BY <2>4 DEF vars, Expires, tables, sqs, slack
    <3>2. QED
      BY <1>0, <2>1, <3>1, OthersKeepGuards
  <2>5. QED
    BY <1>1, <1>2, <2>2, <2>3, <2>4 DEF Next
<1> QED
  BY <1>1, <1>2 DEF GuardInv

LEMMA InitGuardInv == Init => EndInvs /\ GuardInv
<1> SUFFICES ASSUME Init PROVE EndInvs /\ GuardInv
  OBVIOUS
<1>1. Copies = {}
  BY NoneIsNoRecord DEF Init, Copies, Held, WithInstance, Idle, NotInvoked
<1>2. EndInvs
  BY DEF Init, EndInvs, EndInv, Held, WithInstance, Idle
<1>3. budget["expire"] <= Budget["expire"]
  BY BoundsAssumption DEF Init, Faults
<1> QED
  BY <1>1, <1>2, <1>3 DEF GuardInv

LEMMA GuardInvGuards ==
  RecordInvs /\ WaitInv /\ GuardInv => WaitingIsGuarded
<1> SUFFICES ASSUME RecordInvs, WaitInv, GuardInv, NEW w \in WorkflowIds,
                    Waiting(w), ~ Expired
             PROVE  session[wfTable[w].key] # None \/ GivenBack(wfTable[w].key)
  BY DEF WaitingIsGuarded, Waiting, GivenBack
<1>0. TypeInv /\ IdInv /\ FilingInvs
  BY DEF RecordInvs, FilingInvs, FilingInv
<1>1. wfTable[w] \in Copies /\ wfTable[w].id = w /\ wfTable[w] \in Instance
  BY <1>0, TableCopies DEF TypeInv, IdInv, Waiting
<1>2. Guarded(w, wfTable[w].key)
  BY <1>1 DEF GuardInv
<1>3. Names(w)
  <2>1. PICK m : /\ m = wfTable[w].messageTs /\ m # None
                 /\ message[m] = [wf |-> w, step |-> wfTable[w].step,
                                  draft |-> wfTable[w].draft, live |-> TRUE]
    BY <1>0, WaitInvAnswers DEF WaitingIsAnswerable, Waiting
  <2>2. m \in Events
    BY <1>1, <2>1 DEF Instance, MaybeEvent
  <2>3. message[m] # None
    BY <1>0, <1>1, <2>1, <2>2 DEF TypeInv, MessageInv, Posted, Waiting
  <2>4. QED
    BY <2>1, <2>2, <2>3 DEF Names
<1> QED
  BY <1>2, <1>3 DEF Guarded

(***************************************************************************)
(* A user whose workflow waits for an answer has a session, unless an end  *)
(* or a drop of that same user took it, or an expiry: no refused, resumed  *)
(* or waiting worker, and nothing another user does, opens the way to a    *)
(* second start() (active_session_store.clear, its callers in              *)
(* _execute_until_wait and handle_drop).                                   *)
(***************************************************************************)
THEOREM WaitingKeepsGuarded == Spec => []WaitingIsGuarded
<1>1. RecordInvs => FilingInvs
  BY DEF RecordInvs
<1> QED
  BY <1>1, InitGuardInv, NextKeepsEndInvs, NextKeepsGuardInv, GuardInvGuards,
     ReleaseInvHolds, WaitInvHolds, PTL DEF Spec

-----------------------------------------------------------------------------
(* What is marked done is done.                                            *)

(***************************************************************************)
(* As long as no record expires, a workflow once created stays stored, all *)
(* its copies have one type, and whatever Slack shows or a user presses is *)
(* of a workflow of type feat: only such a one reaches a step that posts   *)
(* buttons.  So a resume finds its workflow and its RESUME_MAP entry.      *)
(***************************************************************************)
NoExpiry == budget["expire"] = 0

Feat(w) == wfTable[w] # None /\ wfTable[w].wtype = "feat"

FeatInv ==
  /\ \A w \in created : wfTable[w] # None
  /\ \A c \in Copies : c.wtype = wfTable[c.id].wtype
  /\ \A m \in Events : message[m] # None => Feat(message[m].wf)
  /\ \A w \in modal : Feat(w)
  /\ \A d \in Events :
       event[d] # None /\ event[d].type # "pipeline_start"
         => Feat(event[d].wf)

LEMMA NoExpiryStays ==
  ASSUME TypeInv, NoExpiry, [Next]_vars
  PROVE  /\ NoExpiry'
         /\ \A w \in WorkflowIds : ~ ExpireWorkflow(w)
<1>0. budget \in [Faults -> Nat] /\ "expire" \in Faults
  BY DEF TypeInv, TypeOK, Faults
<1>1. ASSUME NEW f \in Faults, Spend(f)
      PROVE  f # "expire" /\ NoExpiry'
  BY <1>0, <1>1 DEF Spend, NoExpiry, Faults
<1>2. /\ \A w \in WorkflowIds : ~ ExpireWorkflow(w)
      /\ \A k \in Keys : ~ ExpireSession(k)
  BY <1>0, <1>1 DEF ExpireWorkflow, ExpireSession
<1>3. ASSUME UNCHANGED budget PROVE NoExpiry'
  BY <1>3 DEF NoExpiry
<1>4. CASE User \/ UNCHANGED vars
  <2>1. UNCHANGED budget
    BY <1>4
    DEF User, Press, SubmitRequest, PressAccept, PressDecision, SubmitReject,
        PressReject, vars
  <2>2. QED
    BY <1>2, <1>3, <2>1
<1>5. CASE \E d \in Events : Resend(d)
  <2>1. Spend("resend") /\ "resend" \in Faults
    BY <1>5 DEF Resend, Faults
  <2>2. QED
    BY <1>1, <1>2, <2>1
<1>6. ASSUME NEW p \in Workers, WorkerStep(p) \/ Raise(p) \/ Crash(p)
      PROVE  NoExpiry'
  <2>1. CASE WorkerStep(p)
    BY <1>3, <2>1
    DEF WorkerStep, Start, Resume, Execute, Receive, Acquire, SkipDuplicate,
        MarkDone, RefuseStart, AllowStart, CreateInstance, SetSession,
        IgnoreResume, LoadInstance, SaveResumed, FailUnknownStep, ContinueStep,
        RaiseNotReady, PostWaitMessage, SaveWaiting, RejectEnd, CreateIssue,
        SetRelation, NotifyEnd, SaveEnd, ClearSession
  <2>2. CASE Raise(p) \/ Crash(p)
    BY <1>1, <2>2 DEF Raise, Crash, Faults
  <2>3. QED
    BY <1>6, <2>1, <2>2
<1>7. ASSUME NEW a \in Invocations, Drop(a) \/ DropStep(a) \/ DropCrash(a)
      PROVE  NoExpiry'
  <2>1. CASE Drop(a) \/ DropStep(a)
    BY <1>3, <2>1
    DEF Drop, DropCommand, DropButton, DropStep, DropLoad, DropLoadFails,
        DropSave, DropClear
  <2>2. CASE DropCrash(a)
    BY <1>1, <2>2 DEF DropCrash, Faults
  <2>3. QED
    BY <1>7, <2>1, <2>2
<1> QED
  BY <1>2, <1>4, <1>5, <1>6, <1>7 DEF Next

(***************************************************************************)
(* A step that takes no record from the table, and whose copies are those  *)
(* there were, or like them, or of a new workflow.                         *)
(***************************************************************************)
TypesStay ==
  \A w \in WorkflowIds :
    wfTable[w] # None => wfTable'[w] # None /\ wfTable'[w].wtype = wfTable[w].wtype

LEMMA InheritTypes ==
  ASSUME TypeInv, TypeInv', IdInv, IdInv', OwnInv, FeatInv,
         \A w \in WorkflowIds : wfTable[w] # None => wfTable'[w] # None,
         \A c \in Copies' : \/ \E o \in Copies : o.id = c.id /\ o.wtype = c.wtype
                            \/ c.id \notin created /\ wfTable'[c.id] = c,
         \A w \in created' : w \in created \/ wfTable'[w] # None
  PROVE  /\ TypesStay
         /\ \A w \in WorkflowIds : Feat(w) => Feat(w)'
         /\ \A w \in created' : wfTable'[w] # None
         /\ \A c \in Copies' : c.wtype = wfTable'[c.id].wtype
<1>1. ASSUME NEW w \in WorkflowIds, wfTable[w] # None
      PROVE  wfTable'[w] # None /\ wfTable'[w].wtype = wfTable[w].wtype
  <2>1. wfTable[w] \in Copies /\ wfTable[w].id = w /\ w \in created
    BY <1>1, TableCopies DEF TypeInv, IdInv, OwnInv
  <2>2. PICK c \in Instance : c = wfTable'[w] /\ c \in Copies' /\ c.id = w
    BY <1>1 DEF TypeInv, TypeOK, Copies, IdInv
  <2>3. PICK o \in Copies : o.id = w /\ o.wtype = c.wtype
    BY <2>1, <2>2
  <2>4. o.wtype = wfTable[w].wtype
    BY <2>3 DEF FeatInv
  <2>5. QED
    BY <1>1, <2>2, <2>3, <2>4
<1>2. TypesStay
  BY <1>1 DEF TypesStay
<1>3. ASSUME NEW c \in Copies' PROVE c.wtype = wfTable'[c.id].wtype
  <2>1. CASE wfTable'[c.id] = c
    BY <2>1
  <2>2. CASE \E o \in Copies : o.id = c.id /\ o.wtype = c.wtype
    <3>1. PICK o \in Copies : o.id = c.id /\ o.wtype = c.wtype
      BY <2>2
    <3>2. o.id \in created /\ o.id \in WorkflowIds
      BY DEF OwnInv, Copies, Instance
    <3>3. wfTable[o.id] # None /\ o.wtype = wfTable[o.id].wtype
      BY <3>2 DEF FeatInv
    <3>4. QED
      BY <1>1, <3>1, <3>2, <3>3
  <2>3. QED
    BY <2>1, <2>2
<1>4. \A w \in created' : wfTable'[w] # None
  BY DEF FeatInv, TypeInv, TypeOK
<1>5. \A w \in WorkflowIds : Feat(w) => Feat(w)'
  BY <1>2 DEF TypesStay, Feat
<1> QED
  BY <1>2, <1>3, <1>4, <1>5

LEMMA WorkerKeepsFeatInv ==
  ASSUME TypeInv, TypeInv', IdInv, IdInv', OwnInv, FeatInv, NEW p \in Workers,
         Does(p)
  PROVE  FeatInv' /\ TypesStay
<1>1. \A w \in WorkflowIds : wfTable[w] # None => wfTable'[w] # None
  <2>1. \/ wfTable' = wfTable
        \/ \E i \in Instance : Save(i)
    BY HeldCopies
    DEF Does, Quits, Starts, Saves, Notifies, Creates, Loads, Thinks, Shows,
        Stops, Files, Relates, Held, WithInstance
  <2>2. QED
    BY <2>1, NoneIsNoRecord DEF Save, TypeInv, TypeOK
<1>2. \A c \in Copies' : \/ \E o \in Copies : o.id = c.id /\ o.wtype = c.wtype
                         \/ c.id \notin created /\ wfTable'[c.id] = c
  <2> SUFFICES ASSUME NEW c \in Copies', Creates(p, c)
               PROVE  c.id \notin created /\ wfTable'[c.id] = c
    BY Heirs
  <2>1. c \in Instance
    BY DEF Copies
  <2>2. QED
    BY <2>1, SaveType DEF Creates, TypeInv, TypeOK
<1>3. \A w \in created' : w \in created \/ wfTable'[w] # None
  <2>1. CASE \E i \in Instance : Creates(p, i)
    BY <2>1, SaveType, NoneIsNoRecord DEF Creates, TypeInv, TypeOK
  <2>2. CASE created' = created
    BY <2>2
  <2>3. QED
    BY <2>1, <2>2
    DEF Does, Quits, Starts, Saves, Notifies, Loads, Thinks, Shows, Stops,
        Files, Relates
<1>4. /\ TypesStay
      /\ \A w \in WorkflowIds : Feat(w) => Feat(w)'
      /\ \A w \in created' : wfTable'[w] # None
      /\ \A c \in Copies' : c.wtype = wfTable'[c.id].wtype
  BY <1>1, <1>2, <1>3, InheritTypes
<1>5. ASSUME NEW m \in Events, message'[m] # None
      PROVE  Feat(message'[m].wf)
  <2>1. CASE message[m] # None /\ message'[m].wf = message[m].wf
    BY <2>1 DEF FeatInv
  <2>2. ASSUME NEW i \in Instance, Shows(p, i), message'[m].wf = i.id
        PROVE  Feat(i.id)
    <3>1. /\ Inst(p) \in Copies /\ i.id = Inst(p).id /\ i.wtype = Inst(p).wtype
          /\ i.wtype = "feat"
      BY <2>2, HeldCopies DEF Shows, Like, Held, WithInstance
    <3>2. Inst(p).id \in created
      BY <3>1 DEF OwnInv
    <3>3. QED
      BY <3>1, <3>2 DEF FeatInv, Feat
  <2>3. QED
    BY <1>5, <2>1, <2>2, MessagesTell
<1>6. ASSUME NEW m \in Events, message'[m] # None
      PROVE  Feat(message[m].wf)'
  <2>1. PICK w \in WorkflowIds : w = message'[m].wf
    BY <1>6 DEF TypeInv, TypeOK, Message
  <2>2. Feat(w)'
    BY <1>4, <1>5, <1>6, <2>1
  <2>3. QED
    BY <2>1, <2>2
<1>7. ASSUME NEW w \in modal' PROVE Feat(w)'
  <2>1. w \in WorkflowIds /\ Feat(w)
    BY <1>7 DEF TypeInv, TypeOK, Does, FeatInv
  <2>2. QED
    BY <1>4, <2>1
<1>8. ASSUME NEW d \in Events, event'[d] # None,
             event'[d].type # "pipeline_start"
      PROVE  Feat(event[d].wf)'
  <2>1. PICK w \in WorkflowIds : w = event[d].wf /\ w = event'[d].wf /\ Feat(w)
    BY <1>8 DEF TypeInv, EventInv, EventOf, Does, FeatInv
  <2>2. Feat(w)'
    BY <1>4, <2>1
  <2>3. QED
    BY <2>1, <2>2
<1> QED
  BY <1>4, <1>6, <1>7, <1>8 DEF FeatInv

LEMMA OthersKeepFeatInv ==
  ASSUME TypeInv, TypeInv', IdInv, IdInv', OwnInv, FeatInv,
         \/ Asks
         \/ \E a \in Invocations : Drops(a)
         \/ Expires /\ UNCHANGED wfTable
  PROVE  FeatInv' /\ TypesStay
<1>1. \A w \in WorkflowIds : wfTable[w] # None => wfTable'[w] # None
  <2>1. wfTable' = wfTable \/ \E i \in Instance : Save(i)
    BY DEF Asks, Drops, Begins, Finds, Fails, Frees, Cancels
  <2>2. QED
    BY <2>1, NoneIsNoRecord DEF Save, TypeInv, TypeOK
<1>2. \A c \in Copies' : \E o \in Copies : o.id = c.id /\ o.wtype = c.wtype
  BY OldCopies, DropCopies DEF Like
<1>3. created' = created /\ message' = message
  BY DEF Asks, Drops, Expires
<1>4. /\ TypesStay
      /\ \A w \in WorkflowIds : Feat(w) => Feat(w)'
      /\ \A w \in created' : wfTable'[w] # None
      /\ \A c \in Copies' : c.wtype = wfTable'[c.id].wtype
  BY <1>1, <1>2, <1>3, InheritTypes
<1>5. \A m \in Events : message[m] # None => message[m].wf \in WorkflowIds
  BY DEF TypeInv, TypeOK, Message
<1>6. ASSUME NEW m \in Events, message'[m] # None
      PROVE  Feat(message[m].wf)'
  <2>1. PICK w \in WorkflowIds : w = message[m].wf /\ Feat(w)
    BY <1>3, <1>5, <1>6 DEF FeatInv
  <2>2. Feat(w)' /\ message'[m].wf = w
    BY <1>3, <1>4, <2>1
  <2>3. QED
    BY <2>2
<1>7. ASSUME NEW w \in modal' PROVE Feat(w)'
  <2>1. w \in modal \/ \E m \in Events : Proposes(m, w)
    BY <1>7 DEF Asks, Drops, Expires
  <2>2. w \in WorkflowIds /\ Feat(w)
    BY <1>5, <1>7, <2>1 DEF TypeInv, TypeOK, FeatInv, Proposes
  <2>3. QED
    BY <1>4, <2>2
<1>8. ASSUME NEW d \in Events, event'[d] # None,
             event'[d].type # "pipeline_start"
      PROVE  Feat(event[d].wf)'
  <2>1. PICK w \in WorkflowIds : w = event'[d].wf
    BY <1>8 DEF TypeInv, EventInv, EventOf
  <2>2. Feat(w)
    <3>1. CASE event'[d] = event[d]
      BY <1>8, <2>1, <3>1 DEF FeatInv
    <3>2. CASE event'[d] # event[d]
      <4>1. PICK e \in Event : Answers(e) /\ event'[d] = e
        BY <3>2 DEF Asks, Drops, Expires, NewEvent, TypeInv, TypeOK
      <4>2. \/ \E m \in Events : message[m] # None /\ message[m].wf = w
            \/ w \in modal
        BY <1>8, <2>1, <4>1 DEF Answers, Proposes
      <4>3. QED
        BY <4>2 DEF FeatInv
    <3>3. QED
      BY <3>1, <3>2
  <2>3. Feat(w)'
    BY <1>4, <2>2
  <2>4. QED
    BY <2>1, <2>3
<1> QED
  BY <1>4, <1>6, <1>7, <1>8 DEF FeatInv

(***************************************************************************)
(* What a press is for, and that its worker is on the way there.           *)
(***************************************************************************)
Effect(d) ==
  /\ event[d].type = "accept" => \E i \in 1 .. Len(issues) : issues[i].ev = d
  /\ event[d].type \in Drafting =>
       /\ message[d] # None
       /\ message[d].wf = event[d].wf
       /\ message[d].step = "wait_confirmation"
       /\ message[d].draft = d

Acted == AfterPost \union {"saveWaiting"}

Towards(p, type) ==
  /\ type = "accept" => Inst(p).step = "create_github_issue"
  /\ type \in Drafting =>
       \/ Inst(p).step \in {"generate_issue_draft", "regenerate_issue_draft"}
       \/ Inst(p).step = "wait_confirmation" /\ Inst(p).draft = Ev(p)

OnTheWay(p) ==
  /\ worker[p].pc = "setSession" => event[Ev(p)].type = "pipeline_start"
  /\ worker[p].pc \in {"saveResumed", "run"} => Towards(p, event[Ev(p)].type)
  /\ worker[p].pc \in Acted => Effect(Ev(p))

EffectInv ==
  /\ \A p \in Workers : OnTheWay(p)
  /\ \A d \in Events : pending[d] = "DONE" => event[d] # None /\ Effect(d)

IssuesStay ==
  \A i \in 1 .. Len(issues) :
    i \in 1 .. Len(issues') /\ issues'[i].ev = issues[i].ev

LEMMA EffectsStay ==
  ASSUME EventsStay, ProposalsStay, IssuesStay,
         NEW d \in Events, event[d] # None, Effect(d)
  PROVE  Effect(d)'
<1>1. event'[d] = event[d]
  BY DEF EventsStay
<1>2. ASSUME event[d].type = "accept"
      PROVE  \E i \in 1 .. Len(issues') : issues'[i].ev = d
  BY <1>2 DEF Effect, IssuesStay
<1>3. ASSUME event[d].type \in Drafting
      PROVE  /\ message'[d] # None
             /\ message'[d].wf = event[d].wf
             /\ message'[d].step = "wait_confirmation"
             /\ message'[d].draft = d
  BY <1>3 DEF Effect, ProposalsStay
<1> QED
  BY <1>1, <1>2, <1>3 DEF Effect

LEMMA MovesKeepIssues ==
  ASSUME TypeInv, NEW p \in Workers, Moves(p)
  PROVE  IssuesStay
<1>1. Len(issues) \in Nat
  BY DEF TypeInv, TypeOK
<1>2. CASE SameIssues
  BY <1>1, <1>2 DEF SameIssues, IssuesStay
<1>3. CASE Posts(p)
  BY <1>1, <1>3 DEF Posts, IssuesStay
<1> QED
  BY <1>2, <1>3 DEF Moves, Leaves, Enters, Runs

LEMMA MarkedByMarkDone ==
  ASSUME TypeInv, NEW p \in Workers, WorkerStep(p) \/ Raise(p) \/ Crash(p),
         NEW d \in Events, pending'[d] = "DONE"
  PROVE  pending[d] = "DONE" \/ (worker[p].pc = "markDone" /\ d = Ev(p))
<1> USE DEF tables
<1>0. pending \in [Events -> {"absent", "PROCESSING", "DONE"}]
  BY DEF TypeInv, TypeOK
<1>1. CASE MarkDone(p)
  BY <1>0, <1>1 DEF MarkDone, PendingDone, At
<1>2. CASE Acquire(p)
  BY <1>0, <1>2 DEF Acquire, TryAcquire
<1>3. CASE ~ MarkDone(p) /\ ~ Acquire(p)
  <2>1. UNCHANGED pending
    BY <1>3
    DEF WorkerStep, Start, Resume, Execute, Receive, SkipDuplicate,
        RefuseStart, AllowStart, CreateInstance, SetSession,
        IgnoreResume, LoadInstance, SaveResumed, FailUnknownStep, ContinueStep,
        RaiseNotReady, PostWaitMessage, SaveWaiting, RejectEnd, CreateIssue,
        SetRelation, NotifyEnd, SaveEnd, ClearSession, Raise, Crash
  <2>2. QED
    BY <2>1
<1> QED
  BY <1>1, <1>2, <1>3

LEMMA ReachesMarkDone ==
  ASSUME TypeInv, NEW p \in Workers, WorkerStep(p) \/ Raise(p) \/ Crash(p),
         worker'[p].pc = "markDone"
  PROVE  /\ worker'[p].ev = worker[p].ev
         /\ \/ RefuseStart(p) \/ IgnoreResume(p)
            \/ SaveWaiting(p) \/ ClearSession(p)
<1>0. worker \in [Workers -> WorkerState]
  BY DEF TypeInv, TypeOK
<1>1. CASE RefuseStart(p) \/ IgnoreResume(p) \/ SaveWaiting(p) \/ ClearSession(p)
  <2>1. Goto(p, "markDone")
    BY <1>1 DEF RefuseStart, IgnoreResume, SaveWaiting, ClearSession
  <2>2. QED
    BY <1>0, <1>1, <2>1, GotoType DEF WorkerPc
<1>2. CASE \/ \E d \in Events, r \in Receives : Receive(p, d, r)
           \/ SkipDuplicate(p) \/ MarkDone(p) \/ RaiseNotReady(p)
           \/ Raise(p) \/ Crash(p)
  <2>1. CASE \E d \in Events, r \in Receives : Receive(p, d, r)
    <3>1. PICK d \in Events, r \in Receives : Receive(p, d, r)
      BY <2>1
    <3>2. worker'[p].pc = "received"
      BY <1>0, <3>1 DEF Receive, Idle
    <3>3. QED
      BY <3>2
  <2>2. CASE \/ SkipDuplicate(p) \/ MarkDone(p) \/ RaiseNotReady(p)
             \/ Raise(p) \/ Crash(p)
    <3>1. Finish(p)
      BY <2>2 DEF SkipDuplicate, MarkDone, RaiseNotReady, Raise, Crash
    <3>2. QED
      BY <1>0, <3>1, FinishType
  <2>3. QED
    BY <1>2, <2>1, <2>2
<1>3. CASE \/ Acquire(p) \/ AllowStart(p) \/ SetSession(p) \/ SaveResumed(p)
           \/ NotifyEnd(p) \/ SaveEnd(p)
  <2>1. PICK pc \in WorkerPc \ {"markDone"} : Goto(p, pc)
    BY <1>3
    DEF Acquire, AllowStart, SetSession, SaveResumed, NotifyEnd, SaveEnd, WorkerPc
  <2>2. QED
    BY <1>0, <2>1, GotoType
<1>4. CASE \/ CreateInstance(p) \/ LoadInstance(p) \/ FailUnknownStep(p)
           \/ ContinueStep(p) \/ PostWaitMessage(p) \/ RejectEnd(p)
           \/ SetRelation(p)
  <2>1. \E inst : \E pc \in WorkerPc \ {"markDone"} : GotoWith(p, pc, inst)
    BY <1>4
    DEF CreateInstance, LoadInstance, FailUnknownStep, ContinueStep,
        PostWaitMessage, RejectEnd, SetRelation, WorkerPc
  <2>2. worker'[p].pc # "markDone"
    BY <1>0, <2>1 DEF GotoWith, WorkerState
  <2>3. QED
    BY <2>2
<1>5. CASE CreateIssue(p)
  <2>1. worker'[p].pc \in {"notify", "relate"}
    BY <1>0, <1>5 DEF CreateIssue, WorkerState
  <2>2. QED
    BY <2>1
<1> QED
  BY <1>1, <1>2, <1>3, <1>4, <1>5 DEF WorkerStep, Start, Resume, Execute

LEMMA HeldAreFeat ==
  ASSUME TypeInv, FilingInv, FeatInv, NEW p \in Workers, Held(p),
         event[Ev(p)].type # "pipeline_start"
  PROVE  Inst(p).id = event[Ev(p)].wf /\ Inst(p).wtype = "feat"
<1>1. Ev(p) \in Events /\ event[Ev(p)] # None
  BY DEF TypeInv, WorkerInv, LocalInv, Held, WithInstance, Ev
<1>2. Inst(p).id = event[Ev(p)].wf
  BY DEF FilingInv, ChainInv, Held
<1>3. Feat(event[Ev(p)].wf)
  BY <1>1 DEF FeatInv
<1>4. Inst(p).wtype = wfTable[Inst(p).id].wtype
  BY HeldCopies DEF FeatInv
<1> QED
  BY <1>2, <1>3, <1>4 DEF Feat

(***************************************************************************)
(* The ways to mark_done: from a refused start, which is no press; from a  *)
(* resume that returns at once, which cannot be; and from the last save.   *)
(***************************************************************************)
LEMMA MarksWhatActed ==
  ASSUME TypeInv, FeatInv, NEW p \in Workers, OnTheWay(p),
         RefuseStart(p) \/ IgnoreResume(p) \/ SaveWaiting(p) \/ ClearSession(p)
  PROVE  Ev(p) \in Events /\ event[Ev(p)] # None /\ Effect(Ev(p))
<1>1. Ev(p) \in Events /\ event[Ev(p)] # None
  BY DEF RefuseStart, IgnoreResume, SaveWaiting, ClearSession, At, TypeInv,
         WorkerInv, LocalInv, Ev
<1>2. CASE RefuseStart(p)
  <2>1. event[Ev(p)].type = "pipeline_start"
    BY <1>2 DEF RefuseStart, At, TypeInv, WorkerInv, LocalInv, Ev
  <2>2. QED
    BY <1>1, <2>1 DEF Effect, Drafting, Decision
<1>3. CASE IgnoreResume(p)
  <2>1. event[Ev(p)].type # "pipeline_start"
    BY <1>3 DEF IgnoreResume, At, TypeInv, WorkerInv, LocalInv, Ev
  <2>2. event[Ev(p)].type \in ResumeActions /\ Feat(event[Ev(p)].wf)
    BY <1>1, <2>1 DEF TypeInv, TypeOK, EventInv, EventOf, FeatInv, Event
  <2>3. Resumable(wfTable[event[Ev(p)].wf], event[Ev(p)].type)
    BY <2>2 DEF Feat, Resumable, HasResume
  <2>4. QED
    BY <1>3, <2>3 DEF IgnoreResume
<1>4. CASE SaveWaiting(p) \/ ClearSession(p)
  <2>1. worker[p].pc \in Acted
    BY <1>4 DEF SaveWaiting, ClearSession, At, Acted, AfterPost
  <2>2. QED
    BY <1>1, <2>1 DEF OnTheWay
<1> QED
  BY <1>1, <1>2, <1>3, <1>4

LEMMA WorkerKeepsOnTheWay ==
  ASSUME TypeInv, FilingInv, FeatInv, NEW p \in Workers, OnTheWay(p),
         WorkerStep(p) \/ Raise(p) \/ Crash(p)
  PROVE  OnTheWay(p)' /\ EventsStay /\ ProposalsStay /\ IssuesStay
<1>1. Does(p) /\ Moves(p)
  BY WorkerDoes, WorkerMoves, FailureLeaves DEF Moves, FilingInv
<1>2. event' = event /\ EventsStay /\ ProposalsStay /\ IssuesStay
  BY <1>1, WorkerKeepsProposals, MovesKeepIssues
  DEF Does, EventsStay, FilingInv
<1> SUFFICES OnTheWay(p)'
  BY <1>2
<1>3. CASE worker'[p].pc = "markDone"
  <2>1. PICK d \in Events : d = Ev(p) /\ event[d] # None /\ Effect(d)
    BY <1>3, ReachesMarkDone, MarksWhatActed
  <2>2. d = Ev(p)'
    BY <1>3, <2>1, ReachesMarkDone DEF Ev
  <2>3. Effect(d)'
    BY <1>2, <2>1, EffectsStay
  <2>4. Effect(Ev(p))'
    BY <2>2, <2>3 DEF Effect
  <2>5. QED
    BY <1>3, <2>4 DEF OnTheWay
<1>4. CASE Quits(p) /\ worker'[p].pc # "markDone"
  <2>1. worker'[p].pc \notin {"setSession", "saveResumed", "run"} \union Acted
    BY <1>4 DEF Quits, Held, WithInstance, Acted, AfterPost
  <2>2. QED
    BY <2>1 DEF OnTheWay
<1>5. CASE Held(p) /\ worker'[p].pc # "markDone" /\ Ev(p)' = Ev(p)
  <2>0. PICK d \in Events : /\ d = Ev(p) /\ d = Ev(p)' /\ event[d] # None
                            /\ event'[d] = event[d]
    BY <1>2, <1>5 DEF TypeInv, WorkerInv, LocalInv, Held, WithInstance, Ev
  <2>1. worker[p].pc \in Acted => Effect(d)'
    BY <1>2, <2>0, EffectsStay DEF OnTheWay
  <2>2. /\ event[d].type # "pipeline_start"
              => Inst(p).id = event[d].wf /\ Inst(p).wtype = "feat"
        /\ worker[p].pc = "setSession" => event[d].type = "pipeline_start"
        /\ worker[p].pc \in {"saveResumed", "run"}
              => Towards(p, event[d].type)
    BY <1>5, <2>0, HeldAreFeat DEF OnTheWay
  <2>3. ASSUME worker'[p].pc \in Acted, Effect(d)'
        PROVE  OnTheWay(p)'
    <3>1. Effect(Ev(p))'
      BY <2>0, <2>3 DEF Effect
    <3>2. QED
      BY <2>3, <3>1 DEF OnTheWay, Acted, AfterPost
  <2>4. ASSUME worker'[p].pc = "run",
               /\ event[d].type = "accept" => Inst(p)'.step = "create_github_issue"
               /\ event[d].type \in Drafting =>
                    \/ Inst(p)'.step \in {"generate_issue_draft",
                                          "regenerate_issue_draft"}
                    \/ Inst(p)'.step = "wait_confirmation" /\ Inst(p)'.draft = d
        PROVE  OnTheWay(p)'
    BY <2>0, <2>4 DEF OnTheWay, Towards, Acted, AfterPost
  <2>5. CASE Starts(p)
    <3>1. worker[p].pc = "setSession" /\ worker'[p].pc = "run"
      BY <2>5 DEF Starts, Has
    <3>2. event[d].type \notin Drafting \union {"accept"}
      BY <2>2, <3>1 DEF Drafting, Decision
    <3>3. QED
      BY <2>4, <3>1, <3>2
  <2>6. CASE Saves(p) \/ Notifies(p)
    <3>1. CASE worker[p].pc = "saveResumed" /\ Has(p, "run", Inst(p))
      <4>1. Inst(p)' = Inst(p)
        BY <3>1 DEF Has, Inst
      <4>2. QED
        <5>1. worker'[p].pc = "run" /\ Towards(p, event[d].type)
          BY <2>2, <3>1 DEF Has
        <5>2. QED
          BY <2>0, <2>4, <4>1, <5>1 DEF Towards
    <3>2. CASE worker[p].pc # "saveResumed"
      <4>1. worker[p].pc \in Acted /\ worker'[p].pc \in Acted
        BY <1>5, <2>6, <3>2 DEF Saves, Notifies, Has, Acted, AfterPost
      <4>2. QED
        BY <2>1, <2>3, <4>1
    <3>3. QED
      BY <2>6, <3>1, <3>2 DEF Saves, Notifies
  <2>7. ASSUME NEW i \in Instance, Thinks(p, i)
        PROVE  OnTheWay(p)'
    <3>1. /\ worker[p].pc = "run" /\ worker'[p].pc = "run" /\ Inst(p)' = i
          /\ Inst(p).step \in ContinueSteps
          /\ i.step = OnContinue[Inst(p).step]
          /\ i.draft = IF Inst(p).step \in {"generate_issue_draft",
                                            "regenerate_issue_draft"}
                         THEN d ELSE Inst(p).draft
      BY <2>0, <2>7 DEF Thinks, Has, Inst
    <3>2. Towards(p, event[d].type)
      BY <2>2, <3>1
    <3>3. event[d].type # "accept"
      BY <3>1, <3>2 DEF Towards, ContinueSteps
    <3>4. event[d].type \in Drafting =>
            i.step = "wait_confirmation" /\ i.draft = d
      BY <3>1, <3>2 DEF Towards, ContinueSteps, OnContinue
    <3>5. QED
      BY <2>4, <3>1, <3>3, <3>4
  <2>8. ASSUME NEW i \in Instance, Shows(p, i)
        PROVE  OnTheWay(p)'
    <3>1. /\ worker[p].pc = "run" /\ worker'[p].pc = "saveWaiting"
          /\ i.step = Inst(p).step /\ i.draft = Inst(p).draft
          /\ i.id = Inst(p).id /\ i.step \in WaitSteps
          /\ message' = [message EXCEPT ![d] =
                           [wf |-> i.id, step |-> i.step, draft |-> i.draft,
                            live |-> TRUE]]
      BY <2>0, <2>8 DEF Shows, Like, Has
    <3>2. Towards(p, event[d].type)
      BY <2>2, <3>1
    <3>3. event[d].type # "accept"
      BY <3>1, <3>2 DEF Towards, WaitSteps
    <3>4. ASSUME event[d].type \in Drafting
          PROVE  /\ i.step = "wait_confirmation" /\ i.draft = d
                 /\ i.id = event[d].wf
      <4>1. event[d].type # "pipeline_start"
        BY <3>4 DEF Drafting, Decision
      <4>2. i.id = event[d].wf
        BY <2>2, <3>1, <4>1
      <4>3. /\ Inst(p).step = "wait_confirmation"
            /\ Inst(p).draft = d
        <5>1. Inst(p).step \in {"wait_issue_decision", "wait_confirmation"}
          BY <3>1 DEF WaitSteps
        <5>2. QED
          BY <2>0, <3>2, <3>4, <5>1 DEF Towards
      <4>4. QED
        BY <3>1, <4>2, <4>3
    <3>5. /\ message'[d].wf = i.id /\ message'[d].step = i.step
          /\ message'[d].draft = i.draft /\ message'[d] # None
      <4> DEFINE m == [wf |-> i.id, step |-> i.step, draft |-> i.draft,
                       live |-> TRUE]
      <4>1. m \in Message /\ m.wf = i.id /\ m.step = i.step /\ m.draft = i.draft
        BY <3>1 DEF Message, Instance
      <4>2. message'[d] = m
        BY <3>1 DEF TypeInv, TypeOK
      <4> HIDE DEF m
      <4>3. QED
        BY <4>1, <4>2, NoneIsNoRecord
    <3>6. Effect(d)'
      <4>1. event[d].type \in Drafting =>
              /\ message'[d] # None
              /\ message'[d].wf = event[d].wf
              /\ message'[d].step = "wait_confirmation"
              /\ message'[d].draft = d
        BY <3>4, <3>5
      <4>2. QED
        BY <2>0, <3>3, <4>1 DEF Effect
    <3>7. QED
      BY <2>3, <3>1, <3>6 DEF Acted
  <2>9. ASSUME NEW i \in Instance, Stops(p, i)
        PROVE  OnTheWay(p)'
    <3>1. /\ worker[p].pc = "run" /\ worker'[p].pc \in {"saveEnd", "notify"}
          /\ i.step = Inst(p).step /\ i.wtype = Inst(p).wtype
          /\ ~ HasNode(i.wtype, i.step) \/ i.step = "reject_end"
      BY <2>9 DEF Stops, Like, Has
    <3>2. Towards(p, event[d].type)
      BY <2>2, <3>1
    <3>3. event[d].type \notin Drafting \union {"accept"}
      BY <2>2, <3>1, <3>2
      DEF Towards, HasNode, Steps, ContinueSteps, WaitSteps, StopSteps,
          Drafting, Decision
    <3>4. Effect(d)'
      BY <2>0, <3>3 DEF Effect
    <3>5. QED
      BY <2>3, <3>1, <3>4 DEF Acted, AfterPost
  <2>10. ASSUME NEW i \in Instance, Files(p, i)
         PROVE  OnTheWay(p)'
    <3>1. /\ worker[p].pc = "run" /\ worker'[p].pc \in {"relate", "notify"}
          /\ Inst(p).step = "create_github_issue"
          /\ issues' = Append(issues, [ev |-> d, wf |-> i.id, draft |-> i.draft,
                                       relation |-> "none"])
      BY <2>0, <2>10 DEF Files, Like, Has
    <3>2. Towards(p, event[d].type)
      BY <2>2, <3>1
    <3>3. event[d].type \notin Drafting
      BY <3>1, <3>2 DEF Towards
    <3>4. \E n \in 1 .. Len(issues') : issues'[n].ev = d
      <4> DEFINE n == Len(issues) + 1
      <4>1. issues \in Seq(Issue) /\ Len(issues) \in Nat
        BY DEF TypeInv, TypeOK
      <4>2. Len(issues') = n /\ issues'[n].ev = d
        BY <3>1, <4>1
      <4>3. n \in 1 .. Len(issues')
        BY <4>1, <4>2
      <4>4. QED
        BY <4>2, <4>3
    <3>5. Effect(d)'
      BY <2>0, <3>3, <3>4 DEF Effect
    <3>6. QED
      BY <2>3, <3>1, <3>5 DEF Acted, AfterPost
  <2>11. ASSUME NEW i \in Instance, Relates(p, i)
         PROVE  OnTheWay(p)'
    <3>1. worker[p].pc \in Acted /\ worker'[p].pc \in Acted
      BY <2>11 DEF Relates, Has, Acted, AfterPost
    <3>2. QED
      BY <2>1, <2>3, <3>1
  <2>12. CASE \/ Quits(p)
              \/ \E i \in Instance : Creates(p, i) \/ Loads(p, i)
    BY <1>4, <1>5, <2>12 DEF Creates, Loads, Held, WithInstance
  <2>13. QED
    BY <1>1, <2>5, <2>6, <2>7, <2>8, <2>9, <2>10, <2>11, <2>12 DEF Does
<1>6. ASSUME NEW i \in Instance, Creates(p, i)
      PROVE  OnTheWay(p)'
  <2>1. event[Ev(p)].type = "pipeline_start"
    BY <1>6 DEF Creates, TypeInv, WorkerInv, LocalInv, Ev
  <2>2. worker'[p].pc = "setSession" /\ Ev(p)' = Ev(p)
    BY <1>6 DEF Creates, Has, Ev
  <2>3. QED
    BY <1>2, <2>1, <2>2 DEF OnTheWay, Acted, AfterPost
<1>7. ASSUME NEW i \in Instance, Loads(p, i)
      PROVE  OnTheWay(p)'
  <2> DEFINE type == event[Ev(p)].type
  <2>1. /\ worker'[p].pc = "saveResumed" /\ Inst(p)' = i
        /\ event'[Ev(p)'].type = type
        /\ type \in ResumeActions /\ i.step = RESUME_MAP[type]
    BY <1>2, <1>7 DEF Loads, Has, Inst, Ev
  <2> HIDE DEF type
  <2>2. /\ type = "accept" => i.step = "create_github_issue"
        /\ type \in Drafting => i.step \in {"generate_issue_draft",
                                            "regenerate_issue_draft"}
    BY <2>1 DEF RESUME_MAP, ResumeActions, Drafting, Decision
  <2>3. QED
    BY <2>1, <2>2 DEF OnTheWay, Towards, Acted, AfterPost
<1>8. \/ Quits(p)
      \/ Held(p) /\ Ev(p)' = Ev(p)
      \/ \E i \in Instance : Creates(p, i) \/ Loads(p, i)
  BY <1>1, ReachesMarkDone
  DEF Does, Starts, Saves, Notifies, Thinks, Shows, Stops, Files, Relates,
      Has, Held, WithInstance, Ev
<1> QED
  BY <1>2, <1>3, <1>4, <1>5, <1>6, <1>7, <1>8

LEMMA OthersStayOnTheWay ==
  ASSUME TypeInv, EventsStay, ProposalsStay, IssuesStay, NEW q \in Workers,
         OnTheWay(q), worker'[q] = worker[q]
  PROVE  OnTheWay(q)'
<1>1. CASE worker[q].pc \notin {"setSession", "saveResumed", "run"} \union Acted
  BY <1>1 DEF OnTheWay
<1>2. CASE worker[q].pc \in {"setSession", "saveResumed", "run"} \union Acted
  <2>1. PICK d \in Events : d = Ev(q) /\ event[d] # None
    BY <1>2 DEF TypeInv, WorkerInv, LocalInv, Ev, Acted, AfterPost
  <2>2. d = Ev(q)' /\ Inst(q)' = Inst(q) /\ event'[d] = event[d]
    BY <2>1 DEF Ev, Inst, EventsStay
  <2>3. worker[q].pc \in Acted => Effect(Ev(q))'
    <3> SUFFICES ASSUME worker[q].pc \in Acted PROVE Effect(Ev(q))'
      OBVIOUS
    <3>1. Effect(d)
      BY <2>1 DEF OnTheWay
    <3>2. Effect(d)'
      BY <2>1, <3>1, EffectsStay
    <3>3. QED
      BY <2>2, <3>2 DEF Effect
  <2>4. worker[q].pc \in {"saveResumed", "run"}
          => Towards(q, event[Ev(q)].type)'
    BY <2>1, <2>2 DEF OnTheWay, Towards
  <2>5. worker[q].pc = "setSession" => event'[Ev(q)'].type = "pipeline_start"
    BY <2>1, <2>2 DEF OnTheWay
  <2>6. QED
    BY <2>3, <2>4, <2>5 DEF OnTheWay
<1> QED
  BY <1>1, <1>2

LEMMA WorkerKeepsEffectInv ==
  ASSUME TypeInv, FilingInv, FeatInv, EffectInv, NEW p \in Workers,
         WorkerStep(p) \/ Raise(p) \/ Crash(p)
  PROVE  EffectInv'
<1>1. OnTheWay(p)' /\ EventsStay /\ ProposalsStay /\ IssuesStay
  BY WorkerKeepsOnTheWay DEF EffectInv
<1>2. Others(p)
  BY WorkerMoves, FailureLeaves
<1>3. ASSUME NEW q \in Workers, q # p
      PROVE  OnTheWay(q)'
  BY <1>1, <1>2, <1>3, OthersStayOnTheWay DEF EffectInv, Others
<1>4. ASSUME NEW d \in Events, pending'[d] = "DONE"
      PROVE  event'[d] # None /\ Effect(d)'
  <2>1. event[d] # None /\ Effect(d)
    <3>1. CASE pending[d] = "DONE"
      BY <3>1 DEF EffectInv
    <3>2. CASE worker[p].pc = "markDone" /\ d = Ev(p)
      BY <3>2 DEF EffectInv, OnTheWay, Acted, AfterPost, TypeInv, WorkerInv,
                  LocalInv, Ev
    <3>3. QED
      BY <1>4, <3>1, <3>2, MarkedByMarkDone
  <2>2. QED
    BY <1>1, <2>1, EffectsStay DEF EventsStay
<1> QED
  BY <1>1, <1>3, <1>4 DEF EffectInv

LEMMA OthersKeepEffectInv ==
  ASSUME TypeInv, EffectInv, EventsStay, UNCHANGED <<worker, pending, message, issues>>
  PROVE  EffectInv'
<1>1. ProposalsStay /\ IssuesStay
  BY DEF ProposalsStay, IssuesStay
<1>2. ASSUME NEW q \in Workers
      PROVE  OnTheWay(q)'
  BY <1>1, OthersStayOnTheWay DEF EffectInv
<1>3. ASSUME NEW d \in Events, pending'[d] = "DONE"
      PROVE  event'[d] # None /\ Effect(d)'
  BY <1>1, <1>3, EffectsStay DEF EffectInv, EventsStay
<1> QED
  BY <1>2, <1>3 DEF EffectInv

EffectsInv == Budget["expire"] = 0 => NoExpiry /\ FeatInv /\ EffectInv

LEMMA InitEffectsInv == Init => EffectsInv
<1> SUFFICES ASSUME Init, Budget["expire"] = 0
             PROVE  NoExpiry /\ FeatInv /\ EffectInv
  BY DEF EffectsInv
<1>1. Copies = {}
  BY NoneIsNoRecord DEF Init, Copies, Held, WithInstance, Idle, NotInvoked
<1>2. FeatInv
  BY <1>1 DEF Init, FeatInv
<1>3. EffectInv
  BY DEF Init, EffectInv, OnTheWay, Acted, AfterPost, Idle
<1> QED
  BY <1>2, <1>3 DEF Init, NoExpiry

LEMMA NextKeepsEffects ==
  ASSUME FilingInvs, FilingInvs', OwnInv, NoExpiry, FeatInv, EffectInv,
         [Next]_vars
  PROVE  NoExpiry' /\ FeatInv' /\ EffectInv' /\ TypesStay
<1>0. TypeInv /\ TypeInv' /\ IdInv /\ IdInv' /\ FilingInv
  BY DEF FilingInvs, FilingInv
<1>1. NoExpiry' /\ \A w \in WorkflowIds : ~ ExpireWorkflow(w)
  BY <1>0, NoExpiryStays
<1>2. ASSUME NEW p \in Workers, WorkerStep(p) \/ Raise(p) \/ Crash(p)
      PROVE  FeatInv' /\ EffectInv' /\ TypesStay
  BY <1>0, <1>2, WorkerDoes, WorkerKeepsFeatInv, WorkerKeepsEffectInv
<1>3. ASSUME Asks \/ (\E a \in Invocations : Drops(a))
               \/ (Expires /\ UNCHANGED wfTable),
             UNCHANGED pending
      PROVE  FeatInv' /\ EffectInv' /\ TypesStay
  <2>1. EventsStay /\ UNCHANGED <<worker, message, issues>>
    BY <1>0, <1>3
    DEF Asks, Drops, Expires, EventsStay, NewEvent, TypeInv, TypeOK
  <2>2. QED
    BY <1>0, <1>3, <2>1, OthersKeepFeatInv, OthersKeepEffectInv
<1>4. CASE User \/ \E d \in Events : Resend(d)
  <2>1. UNCHANGED pending
    BY <1>4
    DEF User, Press, SubmitRequest, PressAccept, PressDecision, SubmitReject,
        PressReject, Resend, tables
  <2>2. QED
    BY <1>0, <1>1, <1>3, <1>4, <2>1, UserAsks
<1>5. ASSUME NEW a \in Invocations, Drop(a) \/ DropStep(a) \/ DropCrash(a)
      PROVE  FeatInv' /\ EffectInv' /\ TypesStay
  <2>1. UNCHANGED pending
    BY <1>5
    DEF Drop, DropCommand, DropButton, DropStep, DropLoad, DropLoadFails,
        DropSave, DropClear, DropCrash, tables
  <2>2. QED
    BY <1>0, <1>3, <1>5, <2>1, DropDrops
<1>6. CASE (\E k \in Keys : ExpireSession(k)) \/ UNCHANGED vars
  <2>1. UNCHANGED <<pending, wfTable>>
    BY <1>6 DEF ExpireSession, vars, tables
  <2>2. Expires
    BY <1>0, <1>6
    DEF ExpireSession, SessionClear, Expires, TypeInv, TypeOK, vars, tables,
        sqs, slack
  <2>3. QED
    BY <1>1, <1>3, <2>1, <2>2
<1> QED
  BY <1>1, <1>2, <1>4, <1>5, <1>6 DEF Next

LEMMA NextKeepsEffectsInv ==
  /\ FilingInvs /\ FilingInvs' /\ OwnInv /\ EffectsInv /\ [Next]_vars
    => EffectsInv'
  BY NextKeepsEffects DEF EffectsInv

LEMMA EffectsInvHolds == Spec => []EffectsInv
  BY InitEffectsInv, NextKeepsEffectsInv, FilingInvHolds, OwnInvHolds, PTL
  DEF Spec

(***************************************************************************)
(* What is marked done is done: in a deployment whose records do not       *)
(* expire, an accept marked DONE has filed its issue, and a reject or a    *)
(* decision to go on has a draft made for it on Slack, however stale its   *)
(* button and whatever other workers and drops saved since.  Of the ways   *)
(* _process comes to mark_done after a press, none skips the effect.       *)
(***************************************************************************)
THEOREM PressesTakeEffect == Spec => []DoneIsDone
<1>1. EffectsInv => DoneIsDone
  BY DEF EffectsInv, EffectInv, Effect, DoneIsDone
<1> QED
  BY <1>1, EffectsInvHolds, PTL

=============================================================================
